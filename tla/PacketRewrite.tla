--------------------------- MODULE PacketRewrite ----------------------------
(***************************************************************************)
(* The address rewriting and the checksums of crates/netmux-core/src/      *)
(* packet.rs, byte for byte, on the way of one packet out and of one reply *)
(* back, through the parser and the session it is given.                   *)
(***************************************************************************)
EXTENDS PacketParse

CONSTANTS Protos,        \* IP protocols of the IPv4 packets
          Protos6,       \* and of the IPv6 packets
          FragmentProtos, \* protocols whose packets also come as later fragments
          HeaderLengths, \* IPv4 header lengths, 20 without options
          ExtChains,     \* IPv6 extension headers: sequences of <<type, length field>>
          L4Lengths,     \* lengths of the IPv4 segment
          Fills,         \* bytes the segments are made of
          Kept,          \* lengths truncated packets may have
          Client, Server, EgressIp,  \* IPv4 addresses, 4 octets each
          Client6, Server6,          \* IPv6 addresses, 16 octets each
          Servers6,                  \* more of them, Server6 included
          ClientPort, ServerPort,
          Frame          \* least payload of a link-layer frame (46 on Ethernet)

ASSUME ProtocolAssumption ==
    /\ Protos \cup Protos6 \cup Fills \subseteq 0 .. 255 /\ FragmentProtos \subseteq Protos
    /\ Protos6 \cap ExtHeaders = {}
    /\ \A c \in ExtChains : \E n \in 0 .. MaxWalk : c \in [1 .. n -> ExtHeaders \X (0 .. 255)]

ASSUME NumberAssumption ==
    /\ HeaderLengths \subseteq {4 * n : n \in 5 .. 15}
    /\ \A n \in L4Lengths \cup Kept : n \in Nat /\ n <= 65000
    /\ ClientPort \in Nat /\ ClientPort < 65536 /\ ServerPort \in Nat /\ ServerPort < 65536
    /\ Frame \in Nat /\ Frame <= 65000

ASSUME AddressAssumption ==
    /\ \A a \in {Client, Server, EgressIp} : a \in [0 .. 3 -> 0 .. 255]
    /\ \A a \in {Client6, Server6} \cup Servers6 : a \in [0 .. 15 -> 0 .. 255]

VARIABLES stage,     \* where the packet is
          pkt,       \* its bytes
          made,      \* how its sender made it
          flow,      \* what parse() last returned
          session    \* the flow registered on the way out

rwVars == <<stage, pkt, made, flow, session>>

-----------------------------------------------------------------------------
\* The bytes of v from offset `at' on.
Patch(b, at, v) ==
    [i \in DOMAIN b |-> IF i - at \in DOMAIN v THEN v[i - at] ELSE b[i]]

ToBytes(n) == [i \in 0 .. 1 |-> IF i = 0 THEN n \div 256 ELSE n % 256]

\* Sum of the big-endian words; a last odd byte is the high half of a word.
WordSum(b) ==
    PartialSums([i \in DOMAIN b |-> IF i % 2 = 0 THEN 256 * b[i] ELSE b[i]])[Length(b)]

\* Carries folded back into 16 bits until none is left.
FoldCarries(n) == IF n = 0 THEN 0 ELSE 1 + ((n - 1) % 65535)

Checksum(b) == 65535 - FoldCarries(WordSum(b))

Pseudo(src, dst, proto, len) == WordSum(src) + WordSum(dst) + proto + (len % 65536)

\* Faulty variant: the old checksum is summed as well.
TransportChecksumOverOld(src, dst, proto, l4) ==
    65535 - FoldCarries(Pseudo(src, dst, proto, Length(l4)) + WordSum(l4))

(* transport_checksum: whatever the protocol, bytes 16 and 17 of the       *)
(* segment are taken for its checksum field.                               *)
TransportChecksum(src, dst, proto, l4) ==
    65535 - FoldCarries(Pseudo(src, dst, proto, Length(l4))
                          + WordSum(Patch(l4, 16, ToBytes(0))))

\* Faulty variant: the old header checksum is summed as well.
FixChecksumsOverOld(p) ==
    LET ihl == Ihl(p)
        sum == TransportChecksum(Slice(p, 12, 16), Slice(p, 16, 20), p[9],
                                 Slice(p, ihl, Length(p)))
        ip  == Patch(p, 10, ToBytes(Checksum(Slice(p, 0, ihl))))
    IN  IF p[9] \in {TCP, UDP} /\ Length(p) >= ihl + 18
        THEN Patch(ip, ihl + 16, ToBytes(sum))
        ELSE ip

\* Faulty variant: every protocol is taken to have a checksum field.
FixChecksumsAnyProto(p) ==
    LET ihl == Ihl(p)
        sum == TransportChecksum(Slice(p, 12, 16), Slice(p, 16, 20), p[9],
                                 Slice(p, ihl, Length(p)))
        ip  == Patch(p, 10, ToBytes(Checksum(Patch(Slice(p, 0, ihl), 10, ToBytes(0)))))
    IN  IF Length(p) >= ihl + 18 THEN Patch(ip, ihl + 16, ToBytes(sum)) ELSE ip

\* The part rewrite_ipv4_source and rewrite_ipv4_dest share.
FixChecksums(p) ==
    LET ihl == Ihl(p)
        ip  == Patch(p, 10, ToBytes(Checksum(Patch(Slice(p, 0, ihl), 10, ToBytes(0)))))
        sum == TransportChecksum(Slice(p, 12, 16), Slice(p, 16, 20), p[9],
                                 Slice(p, ihl, Length(p)))
    IN  IF p[9] \in {TCP, UDP} /\ Length(p) >= ihl + 18
        THEN Patch(ip, ihl + 16, ToBytes(sum))
        ELSE ip

RewriteSource(p, new_src) == FixChecksums(Patch(p, 12, new_src))
RewriteDest(p, new_dst) == FixChecksums(Patch(p, 16, new_dst))

-----------------------------------------------------------------------------
(* The Internet around the program: what a correct sender puts on the      *)
(* wire, and what a receiver accepts (RFC 791, 793, 768).                  *)

SumOffset(proto) == IF proto = TCP THEN 16 ELSE 6

TotalLength(p) == 256 * p[2] + p[3]

Segment(p) == Slice(p, Ihl(p), TotalLength(p))

IpValid(p) == FoldCarries(WordSum(Slice(p, 0, Ihl(p)))) = 65535

L4Valid(p) ==
    p[9] \in {TCP, UDP} =>
       FoldCarries(Pseudo(Slice(p, 12, 16), Slice(p, 16, 20), p[9], Length(Segment(p)))
                     + WordSum(Segment(p))) = 65535

FirstFragment(p) == Word(p, 6) % 8192 = 0

\* The segment without its checksum field; a later fragment has none.
Content(p) ==
    IF p[9] \in {TCP, UDP} /\ FirstFragment(p)
    THEN Patch(Segment(p), SumOffset(p[9]), ToBytes(0))
    ELSE Segment(p)

\* Do the first bytes of the payload hold ports, and is there a checksum to it?
Ported(m) == m.proto \in {TCP, UDP} /\ ~m.later

LeastL4(proto) == CASE proto = TCP -> 20 [] proto = UDP -> 8 [] OTHER -> 0

Ports(m) == Patch(Patch([i \in 0 .. 3 |-> 0], 0, ToBytes(m.sport)), 2, ToBytes(m.dport))

Blank4(m) ==
    [i \in 0 .. m.ihl + m.len - 1 |->
        CASE i = 0 -> 64 + (m.ihl \div 4)
          [] i = 7 -> IF m.later THEN 1 ELSE 0
          [] i = 8 -> 64
          [] i = 9 -> m.proto
          [] i \in {1, 4, 5, 6, 10, 11} -> 0
          [] OTHER -> m.fill]

\* The packet with its IPv4 header complete.
Headed4(m) ==
    LET base == Patch(Patch(Patch(Blank4(m), 2, ToBytes(m.ihl + m.len)), 12, m.src), 16, m.dst)
    IN  Patch(base, 10, ToBytes(Checksum(Slice(base, 0, m.ihl))))

Made4(m) ==
    LET ip   == Headed4(m)
        full == Patch(ip, m.ihl, Ports(m))
        l4   == Patch(Slice(full, m.ihl, m.ihl + m.len), SumOffset(m.proto), ToBytes(0))
        sum  == 65535 - FoldCarries(Pseudo(m.src, m.dst, m.proto, m.len) + WordSum(l4))
    IN  IF Ported(m) THEN Patch(full, m.ihl + SumOffset(m.proto), ToBytes(sum)) ELSE ip

\* Where the IPv6 extension headers and the segment behind them start.
Starts(m) ==
    LET sizes == PartialSums([k \in 0 .. Len(m.exts) - 1 |-> 8 * (m.exts[k + 1][2] + 1)])
    IN  [k \in 1 .. Len(m.exts) + 1 |-> 40 + sizes[k - 1]]

TypeOf(m, k) == IF k > Len(m.exts) THEN m.proto ELSE m.exts[k][1]

StartsAt(start, n, i) == \E k \in 1 .. n : start[k] = i
HeaderAt(start, n, i) == CHOOSE k \in 1 .. n : start[k] = i

Blank6(m) ==
    LET n     == Len(m.exts)
        start == Starts(m)
        size  == start[n + 1] + 20
    IN  [i \in 0 .. size - 1 |->
            CASE i = 0 -> 96
              [] i \in 1 .. 3 -> 0
              [] i \in 4 .. 5 -> ToBytes(size - 40)[i - 4]
              [] i = 6 -> TypeOf(m, 1)
              [] StartsAt(start, n, i) -> TypeOf(m, HeaderAt(start, n, i) + 1)
              [] StartsAt(start, n, i - 1) -> m.exts[HeaderAt(start, n, i - 1)][2]
              [] OTHER -> m.fill]

\* The checksum of an IPv6 segment does not matter: such packets are dropped.
Made6(m) ==
    LET full == Patch(Patch(Blank6(m), 8, m.src), 24, m.dst)
    IN  IF Ported(m) THEN Patch(full, Starts(m)[Len(m.exts) + 1], Ports(m)) ELSE full

Made(m) == IF m.version = 4 THEN Made4(m) ELSE Made6(m)

NoPacket == [version |-> 0]

All == 65536
Whole(m) == m.keep = All

\* What is left of the packet on its way.
Cut(m) == LET p == Made(m) IN Slice(p, 0, Min({m.keep, Length(p)}))

LinkHeader == 14

\* A frame: an Ethernet header, whose bytes nobody reads, the packet, and zeros up
\* to the least payload the link has.
Framed(p, least) ==
    LET n == Length(p)
    IN  [i \in 0 .. LinkHeader + Max({n, least}) - 1 |->
            IF i - LinkHeader \in 0 .. n - 1 THEN p[i - LinkHeader] ELSE 0]

\* A truncated packet comes in over a link without a least payload, Wi-Fi say, whose
\* frames the kernel also gives an Ethernet header.
OnLink(m) == IF Whole(m) THEN Framed(Made(m), Frame) ELSE Framed(Cut(m), 0)

(* recv: the frame without its header, padding and all.                    *)
Recv(f) ==
    IF Length(f) > LinkHeader THEN Slice(f, LinkHeader, Length(f)) ELSE Slice(f, 0, 0)

Packets4(src, dst, sport, dport) ==
    {m \in [version: {4}, src: {src}, dst: {dst}, sport: {sport}, dport: {dport},
            proto: Protos, ihl: HeaderLengths, len: L4Lengths, fill: Fills,
            later: BOOLEAN, keep: Kept \cup {All}] :
        m.len >= LeastL4(m.proto) /\ (m.later => m.proto \in FragmentProtos)}

\* Servers other than Server6 get plain packets.
Packets6 ==
    {m \in [version: {6}, src: {Client6}, dst: Servers6, sport: {ClientPort}, dport: {ServerPort},
            proto: Protos6, exts: ExtChains, fill: Fills, later: {FALSE}, keep: Kept \cup {All}] :
        m.dst = Server6 \/ (m.exts = <<>> /\ Whole(m))}

-----------------------------------------------------------------------------
RewriteInit ==
    /\ stage = "tun"
    /\ made \in Packets4(Client, Server, ClientPort, ServerPort) \cup Packets6
    /\ pkt = Cut(made)
    /\ flow = None /\ session = None

(* egress_loop for one packet: parse, drop what is not IPv4, register the  *)
(* flow, rewrite and send.                                                 *)
Egress ==
    /\ stage = "tun"
    /\ flow' = Parse(pkt)
    /\ IF flow' # None /\ IsV4Text(flow'.dst)
       THEN stage' = "sent" /\ pkt' = RewriteSource(pkt, EgressIp) /\ session' = flow'
       ELSE stage' = "dropped" /\ UNCHANGED <<pkt, session>>
    /\ UNCHANGED made

\* The packet reaches the server.
Arrive ==
    /\ stage = "sent"
    /\ stage' = "server"
    /\ pkt' = <<>> /\ made' = NoPacket
    /\ UNCHANGED <<flow, session>>

\* The server answers, or something else comes in.
Reply ==
    /\ stage = "server"
    /\ stage' = "frame"
    /\ made' \in Packets4(Server, EgressIp, ServerPort, ClientPort)
    /\ pkt' = OnLink(made')
    /\ UNCHANGED <<flow, session>>

\* The return key of a flow sent from EgressIp.
Answers(f) ==
    f = [proto |-> session.proto, src |-> session.dst, dst |-> Ip4(EgressIp),
         sport |-> session.dport, dport |-> session.sport]

(* capture_loop for one frame: receive, parse, look the session up,        *)
(* rewrite and write to the TUN.                                           *)
Capture ==
    /\ stage = "frame"
    /\ LET b == Recv(pkt)
       IN  /\ flow' = IF Length(b) >= 20 /\ b[0] \div 16 = 4 THEN Parse(b) ELSE None
           /\ IF Answers(flow')
              THEN stage' = "client" /\ pkt' = RewriteDest(b, Client)
              ELSE stage' = "dropped" /\ UNCHANGED pkt
    /\ UNCHANGED <<made, session>>

RewriteNext == Egress \/ Arrive \/ Reply \/ Capture

RewriteSpec == RewriteInit /\ [][RewriteNext]_rwVars

-----------------------------------------------------------------------------
Parsed == stage \in {"sent", "client", "dropped"}

\* The flow as the sender sees it.
SentFlow(m) ==
    LET text(a) == IF m.version = 4 THEN Ip4(a) ELSE Ip6(a)
    IN  [proto |-> m.proto, src |-> text(m.src), dst |-> text(m.dst),
         sport |-> IF Ported(m) THEN m.sport ELSE 0,
         dport |-> IF Ported(m) THEN m.dport ELSE 0]

(* parse() finds the sender's addresses, protocol and ports behind IPv4    *)
(* options and up to eight IPv6 extension headers, whatever their lengths. *)
FlowRight == Parsed /\ Whole(made) => flow = SentFlow(made)

(* A packet cut off anywhere, inside a header or an extension header, is   *)
(* refused or has the right addresses and protocol, and each port right or *)
(* zero: it never takes the session of another flow.                       *)
CutNeverMisread ==
    Parsed /\ ~Whole(made) /\ flow # None =>
        LET right == SentFlow(made)
        IN  /\ flow.proto = right.proto /\ flow.src = right.src /\ flow.dst = right.dst
            /\ flow.sport \in {0, right.sport} /\ flow.dport \in {0, right.dport}

InnerRun(a) ==
    LET run == LongestRun(a) IN run.len >= 2 /\ run.start > 0 /\ run.start + run.len < 8

Texts == [a \in Servers6 |-> Ip6(a)]

(* Flow::key calls itself a "stable identifier": the text of an IPv6       *)
(* address names that address only, unless zeros inside it were shortened. *)
Ip6Faithful ==
    stage = "dropped" /\ made.version = 6 /\ flow # None =>
        \A a \in Servers6 : Texts[a] = flow.dst => a = made.dst \/ InnerRun(a)

(* After a rewrite the IP header checksum is right, with options or not,   *)
(* whatever the carries were, also for truncated packets.                  *)
HeaderChecksumRight == stage \in {"sent", "client"} => IpValid(pkt)

Fixed == stage \in {"sent", "client"} /\ Whole(made)

SameSums == WordSum(Client) % 65535 = WordSum(EgressIp) % 65535

(* When a receiver accepts what the rewrites, which "fix the TCP/UDP       *)
(* checksum" (packet.rs:80-81, :108), made of a segment.  One of at least  *)
(* 18 bytes: always on the way out, and on the way back if and only if it  *)
(* filled its frame, for transport_checksum takes padding for payload.  A  *)
(* shorter one, of UDP: only if the two addresses happen to have the same  *)
(* sum, for its checksum is left as it was.                                *)
SegmentAccepted ==
    Fixed /\ Ported(made) =>
        /\ made.len >= 18 =>
              (L4Valid(pkt) <=> stage = "sent" \/ made.ihl + made.len >= Frame)
        /\ made.len <= 16 => (L4Valid(pkt) <=> SameSums)

\* Where the rewrites write a checksum into payload.
Overwritten(m) == IF m.proto = UDP \/ (m.proto = TCP /\ m.later) THEN {16, 17} ELSE {}

(* No rewrite touches payload, padded frames included, but for bytes 16    *)
(* and 17 of a UDP datagram or of a later fragment, which are taken for    *)
(* the checksum field of TCP.                                              *)
ContentKept ==
    Fixed => LET was == Content(Made(made))
                 is  == Content(pkt)
             IN  /\ DOMAIN is = DOMAIN was
                 /\ \A i \in DOMAIN was \ Overwritten(made) : is[i] = was[i]

(* packet.rs:80-81: a rewrite changes the address and fixes "the IP header *)
(* checksum plus the TCP/UDP checksum", nothing else: the receiver gets    *)
(* the bytes the sender sent.                                              *)
ContentIntact == Fixed => Content(pkt) = Content(Made(made))
=============================================================================
