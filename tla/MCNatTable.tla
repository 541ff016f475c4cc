----------------------------- MODULE MCNatTable -----------------------------
(* A small instance of the session table.                                  *)
EXTENDS NatTable

Tcp == 6
Udp == 17
Flow(p, c, sp, s, dp) == [proto |-> p, src |-> c, sport |-> sp, dst |-> s, dport |-> dp]

\* One client: two ports, two protocols, and an IPv6 flow.
OneClient == {Flow(Tcp, "c1", 1, "s1", 443), Flow(Tcp, "c1", 2, "s1", 443),
              Flow(Udp, "c1", 1, "s1", 443), Flow(Tcp, "c6", 1, "s6", 443)}
=============================================================================
