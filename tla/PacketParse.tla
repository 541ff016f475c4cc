---------------------------- MODULE PacketParse -----------------------------
(***************************************************************************)
(* The parser of crates/netmux-core/src/packet.rs: which flow the bytes of *)
(* a packet belong to.                                                     *)
(*                                                                         *)
(* A packet is a function from 0 .. n-1 to bytes, so that the offsets are  *)
(* those of the code.  The text of an address is the sequence of its       *)
(* numbers and separators: a number stands for its digits.                 *)
(***************************************************************************)
EXTENDS Integers, Sequences, FiniteSetsExt

TCP == 6
UDP == 17

Dot   == -1
Colon == -2

\* The types parse_v6 walks over: hop-by-hop, routing, destination options, mobility.
ExtHeaders == {0, 43, 60, 135}

MaxWalk == 8

None == [proto |-> -1, src |-> <<>>, dst |-> <<>>, sport |-> 0, dport |-> 0]

-----------------------------------------------------------------------------
Length(b) == Cardinality(DOMAIN b)

Slice(b, from, to) == [i \in 0 .. to - from - 1 |-> b[from + i]]

Word(b, at) == 256 * b[at] + b[at + 1]

\* The sums of the first n numbers of f, for each n.
PartialSums(f) ==
    LET sum[n \in 0 .. Length(f)] == IF n = 0 THEN 0 ELSE sum[n - 1] + f[n - 1] IN sum

Ihl(p) == (p[0] % 16) * 4

Join(s, sep) == [k \in 1 .. 2 * Len(s) - 1 |-> IF k % 2 = 1 THEN s[(k + 1) \div 2] ELSE sep]

Ip4(b) == Join([k \in 1 .. 4 |-> b[k - 1]], Dot)

\* Are there n words of zero from word i of the address on?
ZeroRun(b, i, n) == i + n <= 8 /\ \A j \in i .. i + n - 1 : Word(b, 2 * j) = 0

\* The first longest run of zero words: best_start and best_len.
LongestRun(b) ==
    LET len == Max({n \in 0 .. 8 : \E i \in 0 .. 8 : ZeroRun(b, i, n)})
    IN  [start |-> Min({i \in 0 .. 8 : ZeroRun(b, i, len)}), len |-> len]

\* Words number `from' up to, but not including, `to' with colons between them.
Words(b, from, to) == Join([k \in 1 .. to - from |-> Word(b, 2 * (from + k - 1))], Colon)

\* Faulty variant: nothing marks zeros at the start of an address.
Ip6Unmarked(b) ==
    LET run == LongestRun(b)
        end == run.start + run.len
    IN  IF run.len < 2
        THEN Words(b, 0, 8)
        ELSE Words(b, 0, run.start) \o (IF run.start = 0 THEN <<>> ELSE <<Colon>>)
               \o Words(b, end, 8) \o (IF end = 8 THEN <<Colon>> ELSE <<>>)

(* ip6: the first longest run of at least two zero words is replaced by    *)
(* one colon, by two at the end of the address.                            *)
Ip6(b) ==
    LET run == LongestRun(b)
        end == run.start + run.len
    IN  IF run.len < 2
        THEN Words(b, 0, 8)
        ELSE Words(b, 0, run.start) \o <<Colon>> \o Words(b, end, 8)
               \o (IF end = 8 THEN <<Colon>> ELSE <<>>)

\* The ports behind the headers, zero where there is none or not enough bytes.
FlowOf(b, src, dst, proto, offset) ==
    LET ported == proto \in {TCP, UDP} /\ Length(b) >= offset + 4
    IN  [proto |-> proto, src |-> src, dst |-> dst,
         sport |-> IF ported THEN Word(b, offset) ELSE 0,
         dport |-> IF ported THEN Word(b, offset + 2) ELSE 0]

ParseV4(b) ==
    IF Length(b) < 20 \/ Ihl(b) < 20 \/ Length(b) < Ihl(b)
    THEN None
    ELSE FlowOf(b, Ip4(Slice(b, 12, 16)), Ip4(Slice(b, 16, 20)), b[9], Ihl(b))

\* Faulty variant: the length field counts the first eight bytes too.
NextHeaderShort(b, w) ==
    IF ~w.ok \/ w.next \notin ExtHeaders THEN w
    ELSE IF Length(b) < w.offset + 2 THEN [w EXCEPT !.ok = FALSE]
    ELSE [ok |-> TRUE, next |-> b[w.offset], offset |-> w.offset + b[w.offset + 1] * 8]

\* Faulty variant: a header cut off ends the walk and is taken for the transport.
NextHeaderTolerant(b, w) ==
    IF w.next \notin ExtHeaders \/ Length(b) < w.offset + 2 THEN w
    ELSE [ok |-> TRUE, next |-> b[w.offset], offset |-> w.offset + (b[w.offset + 1] + 1) * 8]

(* One turn of the walk: past an extension header, or nowhere once another *)
(* header is reached (`break') or the packet has ended (`return None').    *)
NextHeader(b, w) ==
    IF ~w.ok \/ w.next \notin ExtHeaders THEN w
    ELSE IF Length(b) < w.offset + 2 THEN [w EXCEPT !.ok = FALSE]
    ELSE [ok |-> TRUE, next |-> b[w.offset], offset |-> w.offset + (b[w.offset + 1] + 1) * 8]

WalkHeaders(b) ==
    LET walk[k \in 0 .. MaxWalk] ==
            IF k = 0 THEN [ok |-> TRUE, next |-> b[6], offset |-> 40]
            ELSE NextHeader(b, walk[k - 1])
    IN  walk[MaxWalk]

ParseV6(b) ==
    IF Length(b) < 40
    THEN None
    ELSE LET w == WalkHeaders(b)
         IN  IF w.ok
             THEN FlowOf(b, Ip6(Slice(b, 8, 24)), Ip6(Slice(b, 24, 40)), w.next, w.offset)
             ELSE None

Parse(b) ==
    CASE Length(b) = 0     -> None
      [] OTHER ->
         CASE b[0] \div 16 = 4 -> ParseV4(b)
           [] b[0] \div 16 = 6 -> ParseV6(b)
           [] OTHER            -> None

\* Does str::parse::<Ipv4Addr> accept the text?
IsV4Text(t) == \E i \in DOMAIN t : t[i] = Dot
=============================================================================
