---------------------------- MODULE MCDataPlane -----------------------------
(* Small instances of the data plane.                                      *)
EXTENDS DataPlane

KindsEthWifi == [i \in {1, 2} |-> IF i = 1 THEN "Ethernet" ELSE "Wifi"]
PortHash(k) == k[2]
UpDown == {-1, 1}

Tcp == 6
TcpFlow == [proto |-> Tcp, src |-> "c1", sport |-> 1, dst |-> "s1", dport |-> 443]
SecondFlow == [proto |-> Tcp, src |-> "c2", sport |-> 2, dst |-> "s1", dport |-> 443]
V6Flow  == [proto |-> Tcp, src |-> "c6", sport |-> 1, dst |-> "s6", dport |-> 443]

OneFlow == {TcpFlow}
ThreeFlows == {TcpFlow, SecondFlow, V6Flow}
KeysOfOne == {KeyOf(f) : f \in OneFlow}
KeysOfThree == {KeyOf(f) : f \in ThreeFlows}

Ips == [i \in {1, 2} |-> IF i = 1 THEN "ip1" ELSE "ip2"]
\* The second interface is still waiting for its lease.
FirstIpOnly == [i \in {1, 2} |-> IF i = 1 THEN "ip1" ELSE NoIp]
\* An answer to the host's own traffic, from another port of the server.
HostTraffic == {<<Tcp, "s1", 80, "ip1", 1>>}
=============================================================================
