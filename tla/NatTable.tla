------------------------------ MODULE NatTable ------------------------------
(***************************************************************************)
(* The userspace NAT session table of crates/netmux-core/src/nat.rs.       *)
(*                                                                         *)
(* A flow is what packet::parse returned: protocol, addresses and ports.   *)
(* Addresses are texts there; parse_ip accepts exactly those of IPv4.      *)
(***************************************************************************)
EXTENDS Integers, FiniteSets

CONSTANTS Flows,         \* flows seen, records [proto, src, sport, dst, dport]
          V4,            \* the IPv4 addresses
          NatIfaces,     \* egress interfaces
          IndexModulus   \* number of values of the u64 `index'

ASSUME NatAssumption ==
    /\ \A f \in Flows :
          f = [proto |-> f.proto, src |-> f.src, sport |-> f.sport,
               dst |-> f.dst, dport |-> f.dport]
    /\ IndexModulus \in Nat \ {0}

VARIABLES by_outbound,   \* OutKey -> Session
          by_return,     \* RetKey -> session index
          index          \* next session index

natVars == <<by_outbound, by_return, index>>

-----------------------------------------------------------------------------
OutKey(f) == <<f.proto, f.src, f.sport, f.dst, f.dport>>

\* Faulty variant: the ports of the return key are the wrong way round.
RetKeyPortsSwapped(f, ip) == <<f.proto, f.dst, f.sport, ip, f.dport>>

RetKey(f, ip) == <<f.proto, f.dst, f.dport, ip, f.sport>>

\* Faulty variant: lookup_return does not compare the protocol.
SessionRetKeyAnyProto(s) == <<0, s.server_ip, s.server_port, s.egress_ip, s.client_port>>

SessionRetKey(s) == <<s.proto, s.server_ip, s.server_port, s.egress_ip, s.client_port>>

NewSession(f, iface, ip) ==
    [client_ip |-> f.src, client_port |-> f.sport,
     server_ip |-> f.dst, server_port |-> f.dport, proto |-> f.proto,
     egress_iface |-> iface, egress_ip |-> ip,
     tx_packets |-> 0, rx_packets |-> 0]

ParsesV4(f) == f.src \in V4 /\ f.dst \in V4

Insert(m, k, v) == [x \in DOMAIN m \cup {k} |-> IF x = k THEN v ELSE m[x]]

NatInit ==
    /\ by_outbound = [k \in {} |-> 0]
    /\ by_return = [k \in {} |-> 0]
    /\ index = 0

-----------------------------------------------------------------------------
\* Faulty variant: a known flow is registered anew, on the interface of the day.
RegisterAnew(f, iface, ip) ==
    IF ParsesV4(f)
    THEN /\ by_outbound' = Insert(by_outbound, OutKey(f), NewSession(f, iface, ip))
         /\ by_return' = Insert(by_return, RetKey(f, ip), index)
         /\ index' = (index + 1) % IndexModulus
    ELSE UNCHANGED natVars

\* Faulty variant: the index is not wrapped.
RegisterNoWrap(f, iface, ip) ==
    IF ParsesV4(f) /\ OutKey(f) \notin DOMAIN by_outbound
    THEN /\ by_outbound' = Insert(by_outbound, OutKey(f), NewSession(f, iface, ip))
         /\ by_return' = Insert(by_return, RetKey(f, ip), index)
         /\ index' = index + 1
    ELSE UNCHANGED natVars

(* register: None for addresses that do not parse; a known flow keeps the  *)
(* session it has, whatever interface it is asked for; a new flow gets a   *)
(* session and an entry in the return index.                               *)
Register(f, iface, ip) ==
    IF ParsesV4(f) /\ OutKey(f) \notin DOMAIN by_outbound
    THEN /\ by_outbound' = Insert(by_outbound, OutKey(f), NewSession(f, iface, ip))
         /\ by_return' = Insert(by_return, RetKey(f, ip), index)
         /\ index' = (index + 1) % IndexModulus
    ELSE UNCHANGED natVars

\* Faulty variant: a reply is matched by the client's port alone.
LookupReturnByPort(key) ==
    {s \in {by_outbound[k] : k \in DOMAIN by_outbound} : s.client_port = key[5]}

(* lookup_return: once the key is in the return index, any session that    *)
(* matches may come first in the HashMap.  {} stands for None.             *)
LookupReturn(key) ==
    IF key \in DOMAIN by_return
    THEN {s \in {by_outbound[k] : k \in DOMAIN by_outbound} : SessionRetKey(s) = key}
    ELSE {}

Sessions == Cardinality(DOMAIN by_outbound)

NatNext == \E f \in Flows, i \in NatIfaces, ip \in V4 : Register(f, i, ip)

NatSpec == NatInit /\ [][NatNext]_natVars

-----------------------------------------------------------------------------
(* Type invariant: the outbound map holds, under a flow's key, a session   *)
(* of that flow; the return index maps keys to indices.                    *)
NatTypeOK ==
    /\ \A k \in DOMAIN by_outbound :
          \E f \in Flows, i \in NatIfaces, ip \in V4 :
             k = OutKey(f) /\ ParsesV4(f) /\ by_outbound[k] = NewSession(f, i, ip)
    /\ by_outbound = [k \in DOMAIN by_outbound |-> by_outbound[k]]
    /\ by_return = [k \in DOMAIN by_return |-> by_return[k]]
    /\ \A k \in DOMAIN by_return : by_return[k] \in 0 .. IndexModulus - 1
    /\ index \in 0 .. IndexModulus - 1

(* register / lookup_return keep two maps in step: the return index knows  *)
(* exactly the return keys of the sessions, so a reply is looked up        *)
(* successfully if and only if some session expects it.                    *)
ReturnIndexExact ==
    DOMAIN by_return = {SessionRetKey(by_outbound[k]) : k \in DOMAIN by_outbound}

(* No two flows differ in nothing but the client address: the condition    *)
(* under which keeping the client's port (port-preserving NAT) is safe.    *)
PortsDistinct ==
    \A f, g \in Flows :
        (f.proto = g.proto /\ f.sport = g.sport /\ f.dst = g.dst /\ f.dport = g.dport) => f = g

(* lookup_return names one session at most, the same on every call: the    *)
(* order of a HashMap cannot decide which client gets the reply.           *)
ReturnUnambiguous ==
    \A k, l \in DOMAIN by_outbound :
        SessionRetKey(by_outbound[k]) = SessionRetKey(by_outbound[l]) => k = l

-----------------------------------------------------------------------------
(* The promise behind the table: each flow is bound, once, to one egress.  *)
binding == [k \in DOMAIN by_outbound |->
               [iface |-> by_outbound[k].egress_iface, ip |-> by_outbound[k].egress_ip]]

Abstract == INSTANCE NatBinding WITH bound <- binding,
                                     Keys <- {OutKey(f) : f \in {g \in Flows : {g.src, g.dst} \subseteq V4}},
                                     Egresses <- [iface: NatIfaces, ip: V4]

(* The two maps and the counter implement the write-once binding of        *)
(* NatBinding: register never drops a flow or moves it to another egress.  *)
ImplementsBinding == Abstract!Spec
=============================================================================
