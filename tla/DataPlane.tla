----------------------------- MODULE DataPlane ------------------------------
(***************************************************************************)
(* The program of crates/netmux-app/src/main.rs: the egress thread that    *)
(* drains the TUN device, one capture thread per interface that brings     *)
(* replies back, and the user-interface thread, which ticks the engine and *)
(* runs the click handlers.  They share the engine and the NAT table, each *)
(* behind a Mutex.  Without a TUN device there is the user-interface       *)
(* thread only, and a tick is one of Simulation.                           *)
(*                                                                         *)
(* A packet is its flow; payloads and lengths are left out.  `wire' is     *)
(* everything ever handed to the network, so replies may be lost, late,    *)
(* duplicated or reordered.                                                *)
(***************************************************************************)
EXTENDS Simulation, NatTable

CONSTANTS Leases,        \* addresses DHCP may give out later (a subset of V4)
          FirstIp,       \* Ifaces -> V4 or NoIp, the addresses at startup
          Strays,        \* return keys of inbound packets that answer nothing
          MaxTx, MaxRx,  \* bounds on tx_packets and nat_rx_packets
          TunRequests,   \* was --tun given? a subset of BOOLEAN
          TunMayFail,    \* may making the TUN device fail?
          OpenMayFail,   \* may opening a raw socket fail?
          MayClose       \* may the user close the window?

NoIp == ""
NoFlow == [proto |-> 0, src |-> NoIp, sport |-> 0, dst |-> NoIp, dport |-> 0]

\* Flow::key leaves the protocol out.
KeyOf(f) == <<f.src, f.sport, f.dst, f.dport>>

ASSUME DataPlaneAssumption ==
    /\ NatIfaces = Ifaces
    /\ FlowKeys = {KeyOf(f) : f \in Flows}
    /\ NoFlow \notin Flows
    /\ NoIp \notin V4 /\ FirstIp \in [Ifaces -> V4 \cup {NoIp}]
    /\ Leases \subseteq V4
    /\ MaxTx \in Nat /\ MaxRx \in Nat
    /\ TunRequests \subseteq BOOLEAN /\ TunMayFail \in BOOLEAN
    /\ OpenMayFail \in BOOLEAN /\ MayClose \in BOOLEAN

VARIABLES mode,                      \* "Tunnelling" or "Simulation", for good
          agg_lock, nat_lock,        \* holder of each Mutex, or "free"
          ui,                        \* where the user-interface thread is
          eg,                        \* the egress thread: [pc, flow, iface]
          cp,                        \* the capture threads: Ifaces -> [pc, pkt, client]
          egress,                    \* interfaces with a RawEgress
          captures,                  \* interfaces with a RawCapture
          iface_ips,                 \* egress -> address read at startup
          attached,                  \* devices never removed since startup
          host_ip,                   \* Ifaces -> address the device has now
          wire,                      \* packets sent: [flow, src, iface]
          delivered,                 \* replies written to the TUN: [to, orig]
          nat_rx_packets             \* replies counted (tx_packets counts what went out)

netVars    == <<attached, host_ip>>
socketVars == <<mode, egress, captures, iface_ips>>
uiVars     == <<ui, left>>
lockVars   == <<agg_lock, nat_lock>>
outVars    == <<wire, tx_packets>>
inVars     == <<delivered, nat_rx_packets>>
dpVars     == <<vars, natVars, netVars, socketVars, lockVars, outVars, inVars, uiVars, eg, cp>>

EgIdle == [pc |-> "read", flow |-> NoFlow, iface |-> NoIface]
CpIdle == [pc |-> "recv", pkt |-> [key |-> <<>>, orig |-> NoFlow], client |-> ""]

\* Tun::create: no right to open or to set up the device, or an opened device.
TunCreate == {"device"} \cup (IF TunMayFail THEN {"error"} ELSE {})

\* NetMuxApp::new falls back to the demonstration.
StartModes ==
    {IF asked /\ tun = "device" THEN "Tunnelling" ELSE "Simulation" :
        asked \in TunRequests, tun \in TunCreate}

DPInit ==
    /\ Init /\ NatInit
    /\ mode \in StartModes
    /\ agg_lock = "free" /\ nat_lock = "free"
    /\ ui = (IF mode = "Tunnelling" THEN "new" ELSE "idle") /\ left = 0
    /\ eg = EgIdle /\ cp = [i \in Ifaces |-> CpIdle]
    /\ egress = {} /\ captures = {} /\ iface_ips = [i \in {} |-> ""]
    /\ attached = Ifaces
    /\ host_ip = FirstIp
    /\ wire = {} /\ delivered = {}
    /\ tx_packets = 0 /\ nat_rx_packets = 0

-----------------------------------------------------------------------------
Present(S) == {i \in S : host[i] # "absent"}

\* RawEgress::open on each of S: SO_BINDTODEVICE needs the device, any call may fail.
RawEgressOpen(S) == IF OpenMayFail THEN SUBSET Present(S) ELSE {Present(S)}

\* RawCapture::open on each of S: if_nametoindex and bind need the device too.
RawCaptureOpen(S) == IF OpenMayFail THEN SUBSET Present(S) ELSE {Present(S)}

(* start_data_plane: sockets for the candidates that are enabled, healthy  *)
(* and have an IPv4 address; captures for those whose egress socket opened. *)
StartDataPlane ==
    /\ ui = "new"
    /\ ui' = "idle"
    /\ \E out \in RawEgressOpen({i \in Usable(candidates) : host_ip[i] # NoIp}) :
       \E cap \in RawCaptureOpen(out) :
          /\ egress' = out
          /\ captures' = cap
          /\ iface_ips' = [i \in out |-> host_ip[i]]
    /\ attached' = {i \in Ifaces : host[i] # "absent"}
    /\ UNCHANGED <<vars, natVars, mode, lockVars, outVars, inVars, host_ip, left, eg, cp>>

-----------------------------------------------------------------------------
(* The user-interface thread.  tick() holds the engine while it takes the  *)
(* NAT table's lock for the ten-second summary.                            *)

UiLock ==
    /\ ui = "idle" /\ agg_lock = "free"
    /\ ui' = "tick" /\ agg_lock' = "ui"
    /\ UNCHANGED <<vars, natVars, netVars, socketVars, outVars, inVars, nat_lock, left, eg, cp>>

\* Faulty variant: the engine is unlocked before the summary.
UiTickUnlocking ==
    /\ ui = "tick" /\ mode = "Tunnelling"
    /\ Tick /\ UNCHANGED host
    /\ ui' \in {"summary", "idle"} /\ agg_lock' = "free"
    /\ UNCHANGED <<natVars, netVars, socketVars, outVars, inVars, nat_lock, left, eg, cp>>

UiTick ==
    /\ ui = "tick" /\ mode = "Tunnelling"
    /\ Tick /\ UNCHANGED host
    /\ \/ ui' = "summary" /\ UNCHANGED agg_lock
       \/ ui' = "idle" /\ agg_lock' = "free"
    /\ UNCHANGED <<natVars, netVars, socketVars, outVars, inVars, nat_lock, left, eg, cp>>

(* The branch of tick() without a TUN device: a batch of packets, with the *)
(* engine locked from its head to its last packet.                         *)
UiSimTick ==
    /\ ui = "tick" /\ mode = "Simulation"
    /\ SimTick
    /\ ui' = "batch"
    /\ UNCHANGED <<natVars, netVars, socketVars, lockVars, wire, inVars, eg, cp>>

UiBatch ==
    /\ ui = "batch"
    /\ \E k \in NextPacket : SimPacket(k)
    /\ IF left' = 0 THEN ui' = "idle" /\ agg_lock' = "free" ELSE UNCHANGED <<ui, agg_lock>>
    /\ UNCHANGED <<natVars, netVars, socketVars, nat_lock, wire, inVars, eg, cp>>

\* nat.lock(), sessions() and the unlock of both.
UiSummary ==
    /\ ui = "summary" /\ nat_lock = "free"
    /\ ui' = "idle" /\ agg_lock' = "free"
    /\ UNCHANGED <<vars, natVars, netVars, socketVars, outVars, inVars, nat_lock, left, eg, cp>>

UiRender ==
    /\ ui = "idle" /\ agg_lock = "free"
    /\ Render /\ UNCHANGED host
    /\ UNCHANGED <<natVars, netVars, socketVars, lockVars, outVars, inVars, uiVars, eg, cp>>

UiClick ==
    /\ ui = "idle" /\ agg_lock = "free"
    /\ Click /\ UNCHANGED host
    /\ UNCHANGED <<natVars, netVars, socketVars, lockVars, outVars, inVars, uiVars, eg, cp>>

(* QuitMode::Explicit: closing the window drops the view; weak.update then *)
(* fails, the error is ignored and tick is never called again.             *)
CloseWindow ==
    /\ MayClose /\ ui = "idle"
    /\ ui' = "closed"
    /\ UNCHANGED <<vars, natVars, netVars, socketVars, lockVars, outVars, inVars, left, eg, cp>>

-----------------------------------------------------------------------------
(* egress_loop.  No packet, a read error or one that does not parse: the   *)
(* loop starts again, a stuttering step.                                   *)

EgRead(f) ==
    /\ mode = "Tunnelling" /\ ui # "new" /\ eg.pc = "read" /\ tx_packets < MaxTx
    /\ eg' = [pc |-> "parsed", flow |-> f, iface |-> NoIface]
    /\ UNCHANGED <<vars, natVars, netVars, socketVars, lockVars, outVars, inVars, uiVars, cp>>

EgLockAgg ==
    /\ eg.pc = "parsed" /\ agg_lock = "free"
    /\ eg' = [eg EXCEPT !.pc = "routing"] /\ agg_lock' = "egress"
    /\ UNCHANGED <<vars, natVars, netVars, socketVars, nat_lock, outVars, inVars, uiVars, cp>>

EgRouteTo(i, pc) ==
    /\ eg.pc = "routing"
    /\ Route(KeyOf(eg.flow)) /\ UNCHANGED host
    /\ agg_lock' = "free"
    /\ eg' = [eg EXCEPT !.pc = pc, !.iface = i]
    /\ UNCHANGED <<natVars, netVars, socketVars, nat_lock, outVars, inVars, uiVars, cp>>

\* Faulty variant: no look-up of a socket.
EgRouteUnchecked == EgRouteTo(Pick(KeyOf(eg.flow)), "routed")

\* Faulty variant: the packet is sent before its flow is registered.
EgRouteUnregistered ==
    Pick(KeyOf(eg.flow)) \in egress /\ EgRouteTo(Pick(KeyOf(eg.flow)), "send")

\* Faulty variant: flow_table is used as a cache of decisions.
EgRouteCached ==
    LET k == KeyOf(eg.flow)
        i == IF k \in DOMAIN flow_table THEN flow_table[k] ELSE Pick(k)
    IN  i \in egress /\ EgRouteTo(i, "routed")

(* route(), and the early exits after it: no interface, no address or      *)
(* socket for it, a destination that is not IPv4.                          *)
EgRoute ==
    /\ eg.pc = "routing"
    /\ Route(KeyOf(eg.flow)) /\ UNCHANGED host
    /\ agg_lock' = "free"
    /\ LET i == Pick(KeyOf(eg.flow))
       IN  eg' = IF i \in egress /\ eg.flow.dst \in V4
                 THEN [eg EXCEPT !.pc = "routed", !.iface = i]
                 ELSE EgIdle
    /\ UNCHANGED <<natVars, netVars, socketVars, nat_lock, outVars, inVars, uiVars, cp>>

EgLockNat ==
    /\ eg.pc = "routed" /\ nat_lock = "free"
    /\ eg' = [eg EXCEPT !.pc = "registering"] /\ nat_lock' = "egress"
    /\ UNCHANGED <<vars, natVars, netVars, socketVars, agg_lock, outVars, inVars, uiVars, cp>>

\* Faulty variant: the engine is locked for a moment while the table is.
EgRegisterInverted ==
    /\ eg.pc = "registering" /\ agg_lock = "free"
    /\ Register(eg.flow, eg.iface, iface_ips[eg.iface])
    /\ nat_lock' = "free"
    /\ eg' = IF ParsesV4(eg.flow) THEN [eg EXCEPT !.pc = "send"] ELSE EgIdle
    /\ UNCHANGED <<vars, netVars, socketVars, agg_lock, outVars, inVars, uiVars, cp>>

\* The session register() returns is not used, only whether there is one.
EgRegister ==
    /\ eg.pc = "registering"
    /\ Register(eg.flow, eg.iface, iface_ips[eg.iface])
    /\ nat_lock' = "free"
    /\ eg' = IF ParsesV4(eg.flow) THEN [eg EXCEPT !.pc = "send"] ELSE EgIdle
    /\ UNCHANGED <<vars, netVars, socketVars, agg_lock, outVars, inVars, uiVars, cp>>

(* rewrite_ipv4_source and send: the kernel may refuse, and must once the  *)
(* device the socket was bound to is gone.                                 *)
EgSend ==
    /\ eg.pc = "send"
    /\ eg' = EgIdle
    /\ \/ UNCHANGED outVars
       \/ /\ eg.iface \in attached
          /\ wire' = wire \cup {[flow |-> eg.flow, src |-> iface_ips[eg.iface],
                                 iface |-> eg.iface]}
          /\ tx_packets' = tx_packets + 1
    /\ UNCHANGED <<vars, natVars, netVars, socketVars, lockVars, inVars, uiVars, cp>>

-----------------------------------------------------------------------------
(* capture_loop.  Frames that fail, are too short or are not IPv4 restart  *)
(* the loop.  A reply to a sent packet comes in where its source address   *)
(* lives now.                                                              *)
Inbound(i) ==
    {[key |-> RetKey(w.flow, w.src), orig |-> w.flow] : w \in {v \in wire : v.src = host_ip[i]}}
      \cup {[key |-> k, orig |-> NoFlow] : k \in Strays}

CpRecv(i) ==
    /\ i \in captures \cap attached /\ host[i] = "link"
    /\ cp[i].pc = "recv" /\ nat_rx_packets < MaxRx
    /\ \E p \in Inbound(i) : cp' = [cp EXCEPT ![i] = [@ EXCEPT !.pc = "parsed", !.pkt = p]]
    /\ UNCHANGED <<vars, natVars, netVars, socketVars, lockVars, outVars, inVars, uiVars, eg>>

CpLockNat(i) ==
    /\ cp[i].pc = "parsed" /\ nat_lock = "free"
    /\ cp' = [cp EXCEPT ![i].pc = "lookup"] /\ nat_lock' = "capture"
    /\ UNCHANGED <<vars, natVars, netVars, socketVars, agg_lock, outVars, inVars, uiVars, eg>>

CpLookup(i) ==
    /\ cp[i].pc = "lookup"
    /\ nat_lock' = "free"
    /\ LET found == LookupReturn(cp[i].pkt.key)
       IN  \/ found = {} /\ cp' = [cp EXCEPT ![i] = CpIdle]
           \/ \E s \in found :
                 cp' = [cp EXCEPT ![i] = [@ EXCEPT !.pc = "write", !.client = s.client_ip]]
    /\ UNCHANGED <<vars, natVars, netVars, socketVars, agg_lock, outVars, inVars, uiVars, eg>>

\* rewrite_ipv4_dest and tun.write, which may fail.
CpWrite(i) ==
    /\ cp[i].pc = "write"
    /\ cp' = [cp EXCEPT ![i] = CpIdle]
    /\ \/ UNCHANGED inVars
       \/ /\ delivered' = delivered \cup {[to |-> cp[i].client, orig |-> cp[i].pkt.orig]}
          /\ nat_rx_packets' = nat_rx_packets + 1
    /\ UNCHANGED <<vars, natVars, netVars, socketVars, lockVars, outVars, uiVars, eg>>

-----------------------------------------------------------------------------
(* The host around the process: links change, devices come and go (a       *)
(* socket bound to one that went stays dead), leases are renewed.          *)

NetChange ==
    /\ HostChange
    /\ attached' = attached \ {i \in Ifaces : host'[i] = "absent"}
    /\ UNCHANGED <<natVars, host_ip, socketVars, lockVars, outVars, inVars, uiVars, eg, cp>>

RenewLease(i, ip) ==
    /\ ip \notin {host_ip[j] : j \in Ifaces}
    /\ host_ip' = [host_ip EXCEPT ![i] = ip]
    /\ UNCHANGED <<vars, natVars, attached, socketVars, lockVars, outVars, inVars, uiVars, eg, cp>>

Egress  == EgLockAgg \/ EgRoute \/ EgLockNat \/ EgRegister \/ EgSend
Capture(i) == CpLockNat(i) \/ CpLookup(i) \/ CpWrite(i)

DPNext ==
    \/ StartDataPlane
    \/ UiLock \/ UiTick \/ UiSummary \/ UiSimTick \/ UiBatch \/ UiRender \/ UiClick \/ CloseWindow
    \/ Egress \/ \E f \in Flows : EgRead(f)
    \/ \E i \in Ifaces : Capture(i) \/ CpRecv(i)
    \/ NetChange \/ \E i \in Ifaces, ip \in Leases : RenewLease(i, ip)

(* A thread that can run does, and a thread that keeps asking for a lock   *)
(* which keeps being released gets it: the holders do no I/O on the        *)
(* network and the timer leaves the engine alone for 250 ms at a time.     *)
(* While the window is open the timer ticks, and has it drawn each time.   *)
(* Nothing makes packets, replies, clicks or link changes happen.          *)
Fairness ==
    /\ WF_dpVars(StartDataPlane)
    /\ SF_dpVars(UiLock) /\ WF_dpVars(UiTick) /\ SF_dpVars(UiSummary)
    /\ WF_dpVars(UiSimTick) /\ WF_dpVars(UiBatch) /\ SF_dpVars(UiRender)
    /\ SF_dpVars(EgLockAgg) /\ WF_dpVars(EgRoute)
    /\ SF_dpVars(EgLockNat) /\ WF_dpVars(EgRegister) /\ WF_dpVars(EgSend)
    /\ \A i \in Ifaces : SF_dpVars(CpLockNat(i)) /\ WF_dpVars(CpLookup(i) \/ CpWrite(i))

DPSpec == DPInit /\ [][DPNext]_dpVars /\ Fairness

-----------------------------------------------------------------------------
\* Locks, user interface, sockets and the way out.
OutTypeOK ==
    /\ agg_lock \in {"free", "ui", "egress"} /\ nat_lock \in {"free", "egress", "capture"}
    /\ mode \in {"Tunnelling", "Simulation"} /\ left \in Nat
    /\ ui \in {"new", "idle", "tick", "summary", "batch", "closed"}
    /\ eg \in [pc: {"read", "parsed", "routing", "routed", "registering", "send"},
               flow: Flows \cup {NoFlow}, iface: Ifaces \cup {NoIface}]
    /\ eg.pc # "read" => eg.flow \in Flows
    /\ eg.pc \in {"routed", "registering", "send"} => eg.iface \in egress
    /\ captures \subseteq egress /\ egress \subseteq Ifaces
    /\ iface_ips \in [egress -> V4]
    /\ host_ip \in [Ifaces -> V4 \cup {NoIp}]
    /\ mode = "Tunnelling" => DOMAIN candidates \subseteq Ifaces
    /\ mode = "Simulation" => eg.pc = "read"
    /\ ui = "batch" => mode = "Simulation"
    /\ wire \subseteq [flow: Flows, src: V4, iface: egress]

\* The way back.
InTypeOK ==
    /\ cp \in [Ifaces -> [pc: {"recv", "parsed", "lookup", "write"},
                          pkt: [key: {RetKey(f, ip) : f \in Flows, ip \in V4} \cup Strays \cup {<<>>},
                                orig: Flows \cup {NoFlow}],
                          client: V4 \cup {NoIp}]]
    /\ delivered \subseteq [to: V4 \cup {NoIp}, orig: Flows \cup {NoFlow}]

(* Type invariant of the data plane: the engine, over the host's devices   *)
(* and the injected links, and the threads' program counters, lock         *)
(* holders, sockets and packets in flight.                                 *)
DPTypeOK == EngineOK(Ifaces \cup SimNames) /\ OutTypeOK /\ InTypeOK

(* A lock is held exactly while its holder is in the section of tick(),    *)
(* egress_loop or capture_loop it guards: nobody enters a section without  *)
(* the lock, nobody leaves one with it, and of the capture threads, which  *)
(* share one table, a single one looks up at a time.                       *)
LocksExact ==
    /\ agg_lock = "ui" <=> ui \in {"tick", "summary", "batch"}
    /\ agg_lock = "egress" <=> eg.pc = "routing"
    /\ nat_lock = "egress" <=> eg.pc = "registering"
    /\ nat_lock = "capture" <=> \E i \in Ifaces : cp[i].pc = "lookup"
    /\ \A i, j \in Ifaces : cp[i].pc = "lookup" /\ cp[j].pc = "lookup" => i = j

(* egress_loop registers before it sends: from the moment a packet is on   *)
(* the wire its flow has a session, and capture_loop can match a reply to  *)
(* it, provided the packet left by the egress the session was made for.    *)
ReplyFindsSession ==
    \A w \in wire :
        LET k == OutKey(w.flow)
        IN  /\ k \in DOMAIN by_outbound
            /\ by_outbound[k].egress_ip = w.src =>
                  by_outbound[k] \in LookupReturn(RetKey(w.flow, w.src))

(* What the engine's present state lets out through interface i.           *)
Allowed(i) ==
    /\ config.enabled
    /\ i \in Usable(candidates)
    /\ config.strategy = "Failover" => i = HighestPriority(candidates, Usable(candidates))

(* No lock order or lost unlock stops a thread: every packet read is sent  *)
(* or dropped, every frame received is injected or dropped, and the        *)
(* user-interface thread always gets through its tick.                     *)
NoStarvation ==
    /\ (eg.pc # "read") ~> (eg.pc = "read")
    /\ \A i \in Ifaces : (cp[i].pc # "recv") ~> (cp[i].pc = "recv")
    /\ (ui \in {"tick", "summary", "batch"}) ~> (ui = "idle")

LeftForGood(i) == <>[](\A k \in FlowKeys : Pick(k) # i)

(* policy.rs:14 "switch on failure": a link that stays down is, from some  *)
(* time on, not chosen for any packet of the tunnel.                       *)
SwitchOnFailure ==
    \A i \in Ifaces : <>[](mode = "Tunnelling" /\ host[i] # "link") => LeftForGood(i)

(* What the code does of it: the traffic leaves a link that stays down, by *)
(* either strategy, as long as the window is there for the timer to tick.  *)
SwitchWhileOpen ==
    \A i \in Ifaces :
        <>[](mode = "Tunnelling" /\ ui # "closed" /\ host[i] # "link") => LeftForGood(i)

(* The tunnel's engine and the page follow the host: once links and        *)
(* configuration rest, and while the window is open for the timer to tick, *)
(* they come to agree with them and stay so, whatever went before, clicks  *)
(* on rows drawn too early and devices taken away under a tick included.   *)
ViewConverges ==
    /\ <>[](mode = "Tunnelling" /\ ui # "closed")
    /\ <>[][UNCHANGED <<host, config>>]_<<host, config>>
    => <>[]ViewAgrees

(* The demonstration goes on unless it is paused or its window closed:     *)
(* what the host looked like at startup decides, no device at all or one   *)
(* with a link.                                                            *)
DemoRuns ==
    mode = "Simulation" /\ (DOMAIN candidates = {} \/ Usable(candidates) # {}) =>
        (<>[](config.enabled /\ ui # "closed") => []<><<tx_packets' # tx_packets>>_tx_packets)

(* nat.rs:3-6: replies to a packet sent "are matched against the session   *)
(* table and reverse-NATed back into the TUN".                             *)
SentHasReturn == \A w \in wire : LookupReturn(RetKey(w.flow, w.src)) # {}

-----------------------------------------------------------------------------
(* No packet that answers nothing looks like an answer to a flow: the      *)
(* host's own connections do not share ports with the clients'.            *)
StraysForeign == \A f \in Flows, ip \in V4 : RetKey(f, ip) \notin Strays

(* What the clients of the tunnel see of it.                               *)
Tunnel == INSTANCE Forwarder WITH sent <- {w.flow : w \in wire}, answered <- delivered

(* The threads, locks, sockets and the table implement a forwarder:        *)
(* capture_loop injects nothing but answers to packets that egress_loop    *)
(* sent, each addressed to the client that sent it.  Clients that use the  *)
(* same port towards the same server are left out (PortsDistinct), and so  *)
(* are answers to the host itself that look like theirs (StraysForeign).   *)
ImplementsForwarder == Tunnel!Spec
=============================================================================
