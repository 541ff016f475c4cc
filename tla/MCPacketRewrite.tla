-------------------------- MODULE MCPacketRewrite ---------------------------
(* Small sets of packets for PacketRewrite.                                *)
EXTENDS PacketRewrite

Addr(a, b, c, d) == [i \in 0 .. 3 |-> <<a, b, c, d>>[i + 1]]

TunClient == Addr(10, 99, 0, 1)
Resolver  == Addr(8, 8, 4, 9)
Uplink    == Addr(192, 168, 31, 49)

\* The IPv6 address of eight words, all below 256.
Addr6(w) == [i \in 0 .. 15 |-> IF i % 2 = 0 THEN 0 ELSE w[1 + (i \div 2)]]

TunClient6 == Addr6(<<253, 0, 0, 0, 0, 0, 0, 2>>)
Resolver6  == Addr6(<<1, 0, 0, 1, 0, 0, 0, 1>>)
AllZeroOne == {Addr6(w) : w \in [1 .. 8 -> {0, 1}]}
NoServer6  == {}

\* No header, one of each length, eight of them.
Chains == {<<>>, << <<60, 1>> >>, << <<0, 0>>, <<43, 2>> >>,
           [k \in 1 .. 8 |-> <<IF k = 1 THEN 0 ELSE 135, k % 2>>]}
NoChain == {<<>>}
=============================================================================
