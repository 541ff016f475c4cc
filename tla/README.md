# NetMux in TLA+

NetMux bonds the network interfaces of a Linux host. In tunnel mode it reads IP
packets from a TUN device, chooses an egress interface for each one, rewrites
its source address and sends it through a raw socket; replies are captured on
the physical interfaces, matched with a session table and written back to the
TUN device. In demonstration mode it routes packets it makes up itself. A window
shows the state and edits the configuration.

Line numbers below are those of `crates/netmux-core/src/*.rs` and
`crates/netmux-app/src/main.rs`.

## Inventory

| Component | State | Operations | Correct when |
|---|---|---|---|
| Scheduling policy (`policy.rs`) | none; `rr_counter` is passed in | `select_interface`, `validate` | only enabled, healthy interfaces are chosen; shares follow the weights |
| Engine (`aggregator.rs`) | `config`, `candidates`, `rr_counter`, `flow_table` | `refresh_candidates`, `tick`, `route`, configuration edits | the candidates follow the host's links and the configuration |
| Enumeration (`interface.rs`) | none, reads `/sys` | `enumerate`, `classify` | names are distinct and sorted, virtual devices recognised |
| Statistics (`stats.rs`) | `last_counters`, `samples` | `refresh` | rates are those of the interface they are shown for, and no old one stays |
| NAT table (`nat.rs`) | `by_outbound`, `by_return`, `index` | `register`, `lookup_return`, `sessions` | the two maps agree; a reply names one session; a session is final |
| Data plane (`main.rs` 219-518) | sockets, `iface_ips`, the position of each thread, two mutexes | `start_data_plane`, `egress_loop`, `capture_loop` | a reply reaches the client that asked; failed links lose their traffic; no thread waits for ever |
| Raw sockets (`egress.rs`) | file descriptors | `open`, `send`, `recv` | packets leave by the interface meant |
| Packets (`packet.rs`) | none | `parse`, checksums, `rewrite_ipv4_source`, `rewrite_ipv4_dest` | a packet is taken for its flow or refused; a receiver accepts a rewritten packet and gets the sender's bytes |
| Demonstration (`main.rs` 299-321) | the engine's | `inject_sim_candidates`, a batch of `route` calls per tick | it goes on for as long as there is something to show |
| TUN device (`tun.rs`) | file descriptor | `create`, `set_up`, `read`, `write` | without it the program still runs, as a demonstration |
| Window (`main.rs`) | rows as last drawn | `tick` every 250 ms, click handlers, `render` | what it shows and edits is what the engine uses |
| Logging, errors (`logging.rs`, `error.rs`, `lib.rs`) | none | | |

**How they interact.** Three kinds of threads share the engine and the NAT
table, each behind a `Mutex`. The user-interface thread locks the engine for a
tick, and every ten seconds the NAT table as well, inside the engine's lock
(line 334); click handlers and drawing lock the engine. The egress thread locks
the engine to route a packet, releases it, locks the table to register the flow,
releases it, and then sends. Each capture thread receives a frame, locks the
table to look the reply up, releases it, and writes to the TUN device. Sockets
and addresses are set up once, before the threads start, and never again.

**What is hard.** The gaps between the egress thread's critical sections;
replies that arrive late, twice or for someone else; links, devices and
addresses that change under sockets opened at startup; the timer being tied to
the window; a configuration edited by clicks on rows drawn earlier; the lock
inside a lock; devices that vanish under a scan or come back with counters at
zero; integer and byte-level details of the pool, the parser and the checksums.
`PROJECT.json` lists each of these hazards at its line.

## Modules

    Policy ── Aggregator ──┬── Simulation ── DataPlane ──┬── MCDataPlane
                           │                   │   │     └── LatePacket ── MCLatePacket
                           │       NatTable ───┘   └ ─ implements ─ ─ Forwarder
                           │          └ ─ implements ─ ─ NatBinding
                           ├── Stats ── MCStats   (Stats implements Aggregator)
                           ├── MCAggregator
                           └── RoundRobin ── MCRoundRobin
    PacketParse ── PacketRewrite ── MCPacketRewrite

    PolicyProofs ── AggregatorProofs ──┬── DataPlaneProofs ── LatePacketProofs
                                       │          │
                     NatTableProofs ───┼──────────┘
                                       ├── StatsProofs
                                       └── RoundRobinProofs
    PacketRewrite ── PacketProofs

| Module | Models | How |
|---|---|---|
| `Policy` | `policy.rs` | Pure operators. `SelectInterface` is the value `select_interface` returns, `NextRR` what it leaves in the counter. An interface name is its rank in name order and a candidate vector a function of the names, since `enumerate` sorts by name. `fnv1a` is an opaque function: only that it is one matters. |
| `Aggregator` | `aggregator.rs`, `enumerate`, the click handlers | One action per method or handler: `Tick`, `Route`, `ToggleEnabled`, `SetStrategy`, `SetAlgorithm`, `EnableClick`, `PriorityClick`, `WeightClick`, `Render`. `host` is what `/sys/class/net` shows and `HostChange` the kernel changing it. Click handlers of a row work on `rows`, the values drawn, as the closures do. |
| `NatTable` | `nat.rs` | `Register`; `LookupReturn` is the set of sessions the scan of the hash map may return, empty for `None`. |
| `NatBinding` | what `nat.rs` promises | The abstract specification: a flow is bound once, for good, to one egress. |
| `Stats` | `stats.rs` and the order of `tick` | Extends the engine. `counters` are the kernel's; `Refresh` scans them into `last_counters` and `samples`, `Enumerate` is the rest of `tick`. The host may change between the two, and a device may vanish in the middle of the scan. `moved` is a history variable: the bytes that really went through. |
| `Simulation` | demonstration mode | `SimTick` is the head of the branch in `tick`, `SimPacket` a turn of its loop, `Batch` the number of turns. |
| `DataPlane` | `main.rs` 171-518 and the two mutexes | Extends `Simulation` and the table. `mode` is what `NetMuxApp::new` decides: a tunnel if it was asked for and the TUN device could be made, else the demonstration. Taking a lock and the section under it are separate actions, so every order of the threads occurs. `EgLockAgg`, `EgRoute`, `EgLockNat`, `EgRegister`, `EgSend` are the egress loop; `CpRecv`, `CpLockNat`, `CpLookup`, `CpWrite` a capture loop; `UiLock`, `UiTick`, `UiSummary`, `UiSimTick`, `UiBatch`, `UiRender`, `UiClick`, `CloseWindow` the window's thread; `NetChange` and `RenewLease` the host. |
| `Forwarder` | what the clients of the tunnel may expect | The abstract specification: IPv4 packets go out, and what comes in answers a packet that went out, for the client that sent it. |
| `LatePacket` | nothing of its own | `DataPlane` with the history variable `late`, the packets sent against the engine's present state since it last changed. |
| `RoundRobin` | nothing of its own | `Aggregator` with the history variable `turns`, the round-robin picks since the pool last changed or the counter wrapped. |
| `PacketParse` | `parse` and what it calls | Bytes at the code's offsets. The text of an address is a sequence of numbers and separators, which is what two texts differ in. |
| `PacketRewrite` | checksums and rewrites of `packet.rs`, and the packet's way through both loops | A packet, whole or cut off, goes from the client out; a reply comes back in a frame, with a header that `Recv` takes off and, if it is short, padding that `Recv` leaves on. `Made`, `IpValid` and `L4Valid` are the reference: what a correct sender makes and a receiver accepts. |

Definitions called "Faulty variant" stand next to the definition they alter. No
specification uses them; put in its place, each one makes one property false,
which shows that the property depends on that line of the code.

### Abstractions

- A method under one lock that does no blocking call is one action. Where a
  thread holds one lock and waits for the other, or where something may run
  between two sections, the steps are separate.
- `enumerate` is an atomic snapshot of the devices. If it fails the default is
  the empty list (`SysfsMayFail`). A device that vanishes while it is read looks
  like one without a link, as it does in a snapshot a moment earlier.
- In `Aggregator` a tick reads any rate of `Rates`. `Stats` measures them, and
  `ImplementsEngine` shows that it does nothing `Aggregator` does not allow.
- Rates are rounded down to whole bytes per second. Packet counters and the
  `is_up` of a sample are left out: nothing reads them.
- A device in `Stats` keeps its name. One that is plugged in again starts
  counting at zero; renaming a device is not modelled.
- In demonstration mode the host's devices change as well, but nothing looks at
  them after startup.
- A packet in `DataPlane` is its flow. `wire` only grows and a reply to
  anything in it may arrive any number of times, in any order or never: lost,
  late, duplicated and reordered replies are all there. `Strays` are inbound
  packets that answer no packet of the tunnel.
- A socket of a device that disappeared stays dead even if a device of that name
  comes back (`attached`): `SO_BINDTODEVICE` and an `AF_PACKET` bind keep the
  device's index.
- A read that fails or a packet that does not parse sends a loop back to its
  start without a change of state: a stuttering step.
- In `PacketRewrite` every frame has the 14-byte Ethernet header `recv` takes
  off, and whole replies are padded to the least payload of such a frame. A
  truncated one stays as short as it is: it came over a link without such a
  length, Wi-Fi say. Links without an Ethernet header are left out.
- The early returns of the rewrites (too short, not IPv4) cannot be reached
  from the loops, since `parse` has refused such packets before.

## Runs

| Run | Question and result |
|---|---|
| `view_converges` | What the timer is for. In a tunnel whose window stays open the candidates and the drawn switches come to agree with links and configuration once those rest, and stay so, clicks on outdated rows included; and a link that stays down is not chosen any more, by either strategy. Without a TUN device the demonstration goes on unless it is paused, if the host had no candidate at startup or a usable one. The window may be closed at any time: then nothing of this is claimed. |
| `round_robin` | The engine. Types hold; the configuration always passes `validate`, which the code calls only at startup; in one turn of the weighted pool each interface is served in exact proportion to its weight, with ticks and clicks between the packets. A window of picks is started afresh when the pool changes or the counter wraps; over the wrap itself, where the pool starts again in the middle of a turn, shares are not exact. |
| `nat_table` | The maps of the session table stay in step, a reply names one session, and the table implements `NatBinding`. |
| `data_plane` | All threads in both modes, with sockets that fail to open, a `/sys` that cannot be read, new leases, strays, a closed window, two clients and an IPv6 flow. Each mutex is held exactly by the thread that is inside a section it guards. A packet on the wire always has its session, and a reply to it finds that session if the packet left by the session's egress. The whole implements `Forwarder`: only answers are written to the TUN, each to the client that asked. |
| `late_packet` | A packet may leave after the engine's state forbids it, because `route` and `send` are not one critical section. It is never more than one packet per change. Devices vanish and come back. |
| `data_plane_live` | No thread waits for ever. Frames of the host's own traffic keep coming in while packets go out, so that the egress thread, two capture threads and the window's summary contend for the table, and the egress thread and the window for the engine. |
| `measured_rates` | A sample never claims more bytes than went through, although devices vanish under the scan and come back with counters at zero. Once traffic and devices rest, no candidate keeps an old rate. The engine with measured rates is one of the engines of `Aggregator`. |
| `packets` | `parse` finds the flow behind options and extension headers; a packet cut off anywhere is refused or misses ports, and is never taken for another flow's; the text of an IPv6 address is its own unless zeros inside it were shortened. The header checksum is right after each rewrite. A receiver accepts a segment of 18 bytes or more on the way out, and on the way back if and only if it filled its frame; a UDP datagram of up to 16 bytes only if the two addresses have the same sum. No payload is changed but bytes 16 and 17 of a UDP datagram and of a later fragment of TCP. |

Four more runs show that a statement in the repository is not true of the code:

| Run | Statement | What TLC finds |
|---|---|---|
| `priority_override` | `aggregator.rs:78`: the priority inferred from the kind is "overridable through `config.interfaces`" | Line 100 applies the inferred priority to the configured policy too. The priority buttons have no effect on scheduling. |
| `rebound_flow` | `nat.rs:5`: replies "are matched against the session table" | Round-robin sends a flow's second packet by another interface. `register` returns the old session, line 502 ignores it, the packet carries an address no session has, and its reply is dropped. |
| `closed_window` | `policy.rs:14`: "switch on failure"; `main.rs:456`: "independent of the window" | After the window is closed nobody ticks; a link that fails then is used for ever. |
| `udp_payload` | `packet.rs:80`: the rewrite changes the address and fixes "the IP header checksum plus the TCP/UDP checksum" | The checksum of a UDP datagram of 18 bytes is written at offset 16 of the segment, as for TCP (line 103), over the last two bytes of its payload. The field at offset 6 keeps the old value. |

### Bounds

Two physical interfaces suffice for every choice between an egress and another.
No run has a loopback or virtual device: `Physical` drops those from every tick by
their kind alone, so they would add states and no behaviour.

| Constant | Value | Why it is enough |
|---|---|---|
| `RRModulus` | 2, 4 or 24 for 2^64 | The counter wraps wherever round-robin is chosen. In `round_robin` 24 holds several turns of a pool of 4 and two of a pool of 9; it is no multiple of 9, nor is 2^64. |
| `IndexModulus` | 2 or 4 for 2^64 | In `nat_table` it wraps with three IPv4 flows: indices collide, and nothing depends on them. |
| `WeightHi` | 1 or 2 for 100 | Equal and unequal weights, and both clamps. |
| `PrioLo`, `PrioHi` | 10 and 10 or 11 for 1 and 99 | The default is 10: both clamps are met. |
| `MaxTx` | 0 to 3 | Two packets of a flow on different egresses, and one of another flow; in `late_packet` one to be noted and two late ones. In `data_plane_live` one: packets that are dropped or refused are not counted, so the loop goes round any number of times all the same, while `Strays` come in. In `view_converges` none: it asks what would be chosen. |
| `MaxRx` | 1 or 2, or 0 where replies do not matter | Two answers, to different clients or one twice. |
| `Flows` | one client with two ports, two protocols, and IPv6 in `nat_table`; two IPv4 clients and an IPv6 flow in `data_plane` | Keys that differ in one part, and each way `register` can end. |
| `PacketRate`, `HealthSecs` | 25 and 5 for 50 and 5 | A batch of two packets instead of four: a first and a last. |
| `TxModulus` | 2 or 4 for 2^64 | The counter of the demonstration wraps; that of the tunnel ends at `MaxTx`. |
| `TunRequests`, `TunMayFail` | both modes where they matter | Without `--tun` and with a device that cannot be made. |
| `MaxBytes`, `ElapsedChoices` | 2 and 250 ms | A device that comes back may have counted less than, as much as, or more than the one before it. |
| `Leases`, `Strays` | one address; one packet from another port of the same server | A new address; a near miss of a return key. |
| `LinkChoices`, `RowChoices`, `StrategyChoices`, `AlgorithmChoices`, `PriorityDeltas`, `WeightDeltas`, `MayPause`, `MayClose`, `OpenMayFail`, `SysfsMayFail` | per run | What the user and the host do in that run: each question gets the disturbances that could decide it. |
| `L4Lengths`, `HeaderLengths`, `Fills` | around the limits | Odd and even lengths, with and without options, carries (255), sums of zero (0); datagrams below and at the 18 bytes of the guard; a bare ACK (20), padded without options and exactly filling its frame of 46 with six bytes more (26). |
| `Kept` | around the limits | Cuts in front of, in and behind each header, each port and each extension header. |
| `ExtChains` | none, one, two and eight headers of 8, 16 and 24 bytes | The length field at its least and beyond; as many headers as the walk takes. |
| `Servers6` | all addresses of eight words 0 or 1 | Every position and length of a run of zeros. |

`CHECK_DEADLOCK FALSE` appears where one packet goes out and one comes back
(`packets`, `udp_payload`), and in `data_plane`, because a demonstration
whose window is closed does nothing more.

### Fairness

`DataPlane!Fairness`: weak fairness of each step a thread takes when it holds
what it needs, because threads run; strong fairness of taking a lock, because a
holder gives it back without waiting for the network and the timer leaves 250 ms
between two ticks, so a waiter is woken in time. The timer of `main` (lines
1302-1317) ticks through a weak handle on the view and notifies it, so `UiLock`
and `UiRender` are fair as long as the window is open; closing it disables them.
Which of the two branches a tick takes is up to `mode`: the engine is refreshed
in tunnel mode only, and the properties that need it say so. Nothing is assumed
of reads, replies, clicks, link changes, leases or closing the window.

`Aggregator!Spec` has no fairness: the engine does not tick itself.
`Stats!StatsSpec` has weak fairness of the two halves of a tick; it stands for
the tunnel with its window open, the case in which rates are refreshed.

## Proofs

tlapm checks these for all values of the constants that satisfy the assumptions
of the modules. Those say what the code guarantees: counters have at least one
value, the clamps are in order and include the default, flows are records of
five fields, addresses of interfaces are IPv4 or missing, there are finitely many
devices, a hash is a number, and (in `Stats`) `Rates` contains the rates that the
counters can give. For packets: bytes, ports and addresses have their widths, an
IPv4 header has 20 to 60 bytes, packets and frames stay below 65536, there are at most eight extension headers (the
walk of `parse_v6` takes no more), and what follows them is none.

| Theorem | Module | Statement |
|---|---|---|
| `NatTyped` | `NatTableProofs` | `NatSpec => []NatTypeOK` |
| `NatReturnIndex` | | `NatSpec => [](NatTypeOK /\ ReturnIndexExact)` |
| `NatUnambiguous` | | from `PortsDistinct`: `NatSpec => []ReturnUnambiguous` |
| `NatImplementsBinding` | | `NatSpec => ImplementsBinding` |
| `SelectUsable` | `PolicyProofs` | what `select_interface` returns is enabled and healthy, whenever such a candidate exists |
| `EngineTyped` | `AggregatorProofs` | `Spec => []TypeOK` |
| `ConfigStaysValid` | | `Spec => []ConfigValid` |
| `RoundRobinShares` | `RoundRobinProofs` | `RRSpec => []RoundRobinShare` |
| `StatsRateBounded` | `StatsProofs` | `StatsSpec => RateBounded` |
| `StatsImplementsEngine` | | `StatsSpec => ImplementsEngine` |
| `StatsEngineTyped` | | `StatsSpec => [](TypeOK /\ ConfigValid)` |
| `DataPlaneTyped` | `DataPlaneProofs` | `DPSpec => []DPTypeOK` |
| `DataPlaneLocks` | | `DPSpec => []LocksExact` |
| `DataPlaneUsesNat` | | `DPSpec => NatSpec` |
| `DataPlaneSessions` | | the theorems on the table, for `DPSpec` |
| `DataPlaneReplies` | | `DPSpec => []ReplyFindsSession` |
| `DataPlaneForwards` | | from `PortsDistinct` and `StraysForeign`: `DPSpec => ImplementsForwarder` |
| `LateAtMostOne` | `LatePacketProofs` | `LateSpec => []OneLatePacket` |
| `WholePacketParsed` | `PacketProofs` | without later fragments of TCP and UDP: `RewriteSpec => []FlowRight` |
| `CutPacketParsed` | | without later fragments of TCP and UDP: `RewriteSpec => []CutNeverMisread` |
| `AddressesTold` | | `RewriteSpec => []Ip6Faithful` |
| `HeaderAlwaysRight` | | `RewriteSpec => []HeaderChecksumRight` |
| `SegmentAcceptedExactly` | | `RewriteSpec => []SegmentAccepted` |
| `ContentKeptAlways` | | `RewriteSpec => []ContentKept` |

**The table.** `NatInv` is `NatTypeOK /\ ReturnIndexExact`. Neither part is
inductive alone: that the index holds the return keys of the sessions needs each
session to be the one made for its flow, since `register` enters a key computed
from the flow and `lookup_return` compares one computed from the session
(`RetKeyOfNewSession`). `NatUnambiguous` has a premise, `PortsDistinct`: ports
are kept, so two clients using one port to the same server cannot be told
apart. With the single client of a TUN device the premise holds.

**The policy.** Failover and least-loaded need a greatest and a least element of
a finite set; round-robin and hash need that the sorted pool has no gap
(`PoolPosition`): the candidate at position k is the first whose copies end
beyond k, and those of its predecessor end before. The library's induction
theorems take an operator as a parameter, which the provers cannot instantiate;
`NatMinimum` and `FiniteInduction` take a set instead, `{T \in SUBSET S : ...}`,
and that they can. `PoolTotal`, a sum, is therefore written as the cardinality
of a set of pairs of a candidate and a unit of its weight.

**The engine.** `EngineInv(names)` is `EngineOK(names) /\ ConfigValid`: neither
half is inductive alone, as a clamped weight is a number only if the old one was,
and a policy that is drawn, copied and edited must stay a record. It is stated
over a set of names because the demonstration injects candidates that are no
devices of the host; the same lemmas serve both modes of the data plane. That
`flow_table` only names interfaces rests on `SelectUsable`.

**Round-robin shares.** `TurnsInOrder` says that the picks noted in a window are
those of successive values of the counter, taken from the pool as it is now.
`RoundRobinShare` alone says nothing before a turn is over. A pause or another
algorithm leaves the counter where it was (`PickTurn`), and a tick that keeps the
weights keeps the pool (`SamePool`). A full window then is an interval of
`total * total` numbers, in which every remainder occurs once (`WindowCount`),
and the remainders of an interface are the `total * weight` positions of its
copies (`PoolCopies`).

**The rates.** `StatsInv` is `StatsTypeOK /\ CountersFollow`: a device that is
there has counted since the last scan at most what was moved under its name. It
is stated for devices present only. A device that is absent may have left any
counters behind; they are zero before it is there again. `StatsImplementsEngine`
maps the scan to a stuttering step, or to `HostChange` if a device vanished under
it, and `Enumerate` to `Tick` with the rates of the samples, which are in `Rates`
by `StatsTypeOK`. Like the property, it is about steps and not about fairness.

**The data plane.** `DPInv` adds `Quiet` to the type invariant: until the
sockets are set up there is a tunnel to set up, the threads are idle and nothing
is on the wire. Without it `start_data_plane` could replace the sockets under a
packet, or open some for the links the demonstration injects. Then every step is
a step of the table or leaves it alone (`NatStep`), so `DPSpec` implies
`NatSpec` and the theorems on the table hold under every interleaving.
`DataPlaneReplies` needs `Registered` besides: a thread about to send, and every
packet sent, has a session. `LocksExact` is inductive together with the type
invariant: every step that enters or leaves a section moves the lock with it,
the summary, which waits for the table inside the engine's lock, included.

**The forwarder.** `InFlight` says what a capture thread holds between its steps:
up to the look-up a packet that is a stray or answers a flow that was sent, from
then on an answer together with the client whose packet it answers. The look-up
is where the premises come in: `StraysForeign` rules out that a stray matches a
session, `PortsDistinct` that an answer matches another client's. Neither premise
can be dropped; the run satisfies both.

**The late packet.** `LateInv` is what `OneLatePacket` lacks: once a packet has
gone the old way, the one in hand was routed by the engine as it is now. That
routing yields only what is allowed now is `SelectUsable` again.

**The packets.** `PacketInv` ties the bytes in hand to how they were made: at
each stage `pkt` is the sender's packet cut off, its rewrite, the reply in its
frame, or the rewrite of that, and `flow` is what `parse` says of it. None of the
six properties is inductive alone, as none of them mentions the bytes a rewrite
starts from. With `PacketInv` they are statements about operators, in three
groups.

- *Parsing.* `Made4Shape` and `Made6Shape` say which field is at which offset of
  a whole packet, and `Remains` that a packet cut off or padded agrees with it as
  far as it goes. `WalkIs` then shows that the walk stands on a header after each
  of its turns, also in a cut packet, where every read lies behind a length
  check. `Left4Parsed` and `Parse6` conclude.
- *Addresses.* The text shows the words around one run of zeros, and how many
  numbers it has tells how long that run was (`RunText`). A text that begins or
  ends with its run says where the zeros go, one without a run has all eight
  words; so two of them agree only if the addresses do (`Ip6Tells`). A run inside
  leaves no trace of its place, which is the exception of the property.
- *Checksums.* `WordSum` is the last of the partial sums of a function. Sums of
  functions that differ at two neighbouring bytes differ by what is there
  (`SumsDiffer`), so writing the complement of a sum into a zero word completes
  it (`WordSumWritten`, `FoldComplement`). The rewrite patches at known offsets;
  of those only 16 and 17 of the segment can be in the payload (`SegmentKept`,
  `ContentStays`).
- *Acceptance.* Over a frame of k bytes the rewrite makes a sum that is right for
  k. The padding adds nothing to it (`WordSumPadded`), but its length does: the
  receiver counts the bytes of the packet, and a sum that is right is not right
  any more with less than 65535 taken off (`FoldLess`). So a long segment is
  accepted if and only if there was no padding (`LongSegment`). Of a short one
  the sender's sum stays, with another address under it: two addresses can be
  exchanged if and only if they leave the same remainder (`FoldExchange`,
  `ShortSegment`).

Induction over data takes a set here too (`UpTo`), and a recursive function is
shown to follow its equation by constructing one that does (`Recursion`). Only
the two theorems on parsing have a premise, a disagreement listed below: in a
later fragment of TCP or UDP payload is taken for ports. The run satisfies it,
and both properties fail in TLC if it is dropped. A length of 17 bytes is in
neither part of `SegmentAccepted`: whether the guard lets such a datagram pass
depends on padding, and its last byte may be lost (`ContentKept` covers it).

**Only model-checked**: `ViewConverges`, `SwitchWhileOpen`, `NoStarvation`,
`DemoRuns` and `RatesSettle`. They are liveness properties under fairness, which
is out of the prover's reach. Every other property of a passing run is a theorem.

## Other disagreements seen while modelling

No run is kept for these; each one can be read off the lines named.

- `policy.rs:185`: the hash is taken modulo the pool of the moment, so a flow
  leaves a healthy interface when another one appears or fails. Line 24 says
  "keep a flow pinned to an interface".
- `policy.rs:193`: ties go to the first name. Line 188 says "prio/weight break
  ties", and "least TX load", while line 192 adds RX.
- `packet.rs:22`: `Flow::key` has no protocol; `policy.rs:24` says "5-tuple".
- `main.rs:488`: the source address is the one read at startup, also after a new
  lease. `nat.rs:3` says "the selected egress interface's IP address".
- `main.rs:491`: an interface whose link comes up after startup is scheduled but
  has no socket, and its packets are dropped. Line 227 promises sockets "for
  every schedulable physical interface".
- `main.rs:272`: when the capture socket cannot be opened the egress socket is
  used all the same. Line 228 says "one return-path thread per interface".
- `nat.rs:72`: a session's counters stay zero. Line 27 says "Packets forwarded
  on the outbound leg".
- `main.rs:301`: links are injected only when there is no candidate; a host
  whose interfaces are all down gets none. Line 300 says "always".
- `main.rs:299`: in demonstration mode the candidates are never refreshed, so
  switching an interface off does nothing.
- `packet.rs:99`: a UDP datagram of less than 18 bytes keeps the checksum of the
  old address, and its receiver rejects it unless the addresses have the same
  sum. Line 80 says that the rewrite fixes "the TCP/UDP checksum".
  `SegmentAccepted` states it.
- `packet.rs:127`: the padding of a short Ethernet frame is counted as payload of
  a reply, so that a client rejects every bare ACK that comes in over Ethernet
  without options enough to fill its frame. Line 108 says "fix checksums".
  `SegmentAccepted` states it.
- `egress.rs:163`: fourteen bytes are taken off every frame, also where the link
  has no Ethernet header (PPP and WireGuard devices are scheduled as `Other`);
  there the front of the packet is lost. Line 153 says "the IPv4 packet with the
  14-byte Ethernet header stripped".
- `packet.rs:163`: the first bytes of a later fragment of a TCP or UDP packet are
  taken for ports, and lines 99-103 write a checksum into its data (with 6 or 17
  among the `FragmentProtos` of `packets`, `FlowRight` and `CutNeverMisread`
  fail; `ContentKept` names the bytes).
  Line 4 speaks of a "stable" key.
- `packet.rs:255`: zeros inside an IPv6 address become one colon instead of two,
  so that 1:0:0:1:1:1:1:1 and 1:1:0:0:1:1:1:1 have the text 1:1:1:1:1:1.
  Line 23 says "stable identifier". The text is not that of an IPv6 address
  either.
- `packet.rs:192`: fragment (44) and authentication (51) headers end the walk and
  are taken for the transport. Line 177 says "Very tolerant".
- `stats.rs:4` says "liveness used by failover"; nothing reads the `is_up` of a
  sample, and failover goes by the carrier and flags of `interface.rs:136-137`.
- `interface.rs:93`: a name with no known prefix (`wg0`, `ppp0`, `dummy0`) is
  `Other` and is scheduled. `aggregator.rs:77` says "physical".
- `README.md:89` grants `cap_net_admin`; the raw sockets of `egress.rs` need
  `cap_net_raw` as well, and without it the tunnel has no egress at all.
- `egress.rs:79`: `from_ne_bytes(..).to_be()` reverses the octets of the socket
  address on a little-endian machine; the kernel routes by them.
- `policy.rs:67`: `health_check_interval_secs` only sizes the demonstration's
  batches (`main.rs:308`); health is read every 250 ms. `README.md:132` says every
  5 s.

## Not modelled

Layout, themes and text of the window; logging and error types; the contents of
`/sys` files and the prefixes `classify` looks for (a device has a kind and a
link state); the system calls behind sockets and the TUN device, which succeed
or fail; `tx_bytes` and other figures that are only shown; `set_mode`,
`load_of` and `counter_map`, which nothing calls; a panic in one thread, after
which a mutex is poisoned (no step under a lock can panic). Sessions have no end
in the code, so there is nothing to check about expiry. These parts have no
state the engine or the data plane depends on, and no further run is planned for
them.

## Plan

Done, in this order: `Policy` and `Aggregator`, because every other part calls
them; `NatTable` with its abstract specification; `DataPlane`, which composes
both; the proofs about these; `PacketParse` and `PacketRewrite`; `Stats`;
`Simulation` as the second mode of `DataPlane`; `Forwarder`.

Then the theorems: the table, the policy, the engine, the statistics, the locks,
the forwarder, the late packet, the shares of round-robin, and last the packets.

Nothing of this plan is left. A change of `packet.rs` that moves the UDP checksum
to its place or sums only the bytes of the datagram would make `ContentKept` and
`SegmentAccepted` false as they stand: they say what the code does, and the
stronger `ContentIntact` and acceptance of every segment would take their place.
