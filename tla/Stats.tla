------------------------------- MODULE Stats --------------------------------
(***************************************************************************)
(* The throughput statistics of crates/netmux-core/src/stats.rs, and the   *)
(* engine with rates that are measured.  Aggregator::tick first has        *)
(* StatsCollector::refresh scan /sys/class/net for byte counters, then     *)
(* enumerates the devices; the kernel goes on counting, and devices come   *)
(* and go, during and between the two.                                     *)
(*                                                                         *)
(* Rates are bytes per second, rounded down.  The packet counters of a     *)
(* sample go the same way and nothing reads them.                          *)
(***************************************************************************)
EXTENDS Aggregator

CONSTANTS MaxBytes,         \* bound on the counters of the kernel, and on the bytes
                            \* a device moves between two scans
          TrafficDirs,      \* directions in which there is traffic
          ElapsedChoices    \* milliseconds between two scans

ASSUME StatsAssumption ==
    /\ MaxBytes \in Nat
    /\ TrafficDirs \subseteq {"tx", "rx"}
    /\ ElapsedChoices \subseteq Nat
    /\ \A n \in 0 .. MaxBytes, e \in ElapsedChoices : (n * 1000) \div Max({e, 1}) \in Rates

VARIABLES counters,        \* Ifaces -> bytes the kernel counted since the device came
          last_counters,   \* name -> bytes at the last scan
          samples,         \* name -> rates
          scanned,         \* is a tick between its scan and its enumeration?
          moved            \* Ifaces -> bytes moved under the name since the last scan

collector == <<last_counters, samples>>
statsVars == <<vars, counters, collector, scanned, moved>>

Bytes == [tx |-> 0, rx |-> 0]

StatsInit ==
    /\ Init
    /\ counters \in [Ifaces -> {[tx |-> n, rx |-> 0] : n \in {0, MaxBytes}}]
    /\ last_counters = [i \in {} |-> Bytes] /\ samples = [i \in {} |-> Bytes]
    /\ scanned = FALSE
    /\ moved = [i \in Ifaces |-> Bytes]

-----------------------------------------------------------------------------
\* Faulty variant: plain subtraction of unsigned numbers.
SaturatingSubWrapping(a, b) == (a - b) % (MaxBytes + 1)

SaturatingSub(a, b) == IF a > b THEN a - b ELSE 0

RateOf(new, old, elapsed) == (SaturatingSub(new, old) * 1000) \div Max({elapsed, 1})

\* A name that was not there at the last scan has no rate yet.
SampleOf(i, new, elapsed) ==
    IF i \in DOMAIN last_counters
    THEN [tx |-> RateOf(new.tx, last_counters[i].tx, elapsed),
          rx |-> RateOf(new.rx, last_counters[i].rx, elapsed)]
    ELSE Bytes

(* What the scan may read for the devices in its list.  Files of a device  *)
(* that vanishes under it cannot be read: read_u64 returns 0.              *)
Readings(seen, gone) ==
    LET read(i) == IF i \in gone
                   THEN [tx: {0, counters[i].tx}, rx: {0, counters[i].rx}]
                   ELSE {counters[i]}
    IN  {r \in [seen -> UNION {read(i) : i \in seen}] : \A i \in seen : r[i] \in read(i)}

\* At most one device vanishes during a scan.
Vanishing ==
    {{}} \cup (IF "absent" \in LinkChoices THEN {{i} : i \in {j \in Ifaces : host[j] # "absent"}} ELSE {})

(* StatsCollector::refresh: a new sample for each name in the list; the    *)
(* samples of other names stay, their counters are forgotten.              *)
Refresh ==
    /\ ~scanned /\ scanned' = TRUE
    /\ \E gone \in Vanishing, seen \in Enumerations, elapsed \in ElapsedChoices :
       \E now \in Readings(seen, gone) :
          /\ host' = [i \in Ifaces |-> IF i \in gone THEN "absent" ELSE host[i]]
          /\ samples' = [i \in DOMAIN samples \cup seen |->
                            IF i \in seen THEN SampleOf(i, now[i], elapsed) ELSE samples[i]]
          /\ last_counters' = now
    /\ moved' = [i \in Ifaces |-> Bytes]
    /\ UNCHANGED <<aggVars, counters>>

Sampled(d) == [i \in Ifaces |-> IF i \in DOMAIN samples THEN samples[i][d] ELSE 0]

\* Faulty variant: the list of devices is the one of the scan.
EnumerateScanned ==
    /\ scanned /\ scanned' = FALSE
    /\ candidates' = RefreshCandidates(config, DOMAIN samples, Sampled("tx"), Sampled("rx"))
    /\ UNCHANGED <<config, rr_counter, flow_table, rows, host, counters, collector, moved>>

\* Faulty variant: the candidates are kept as long as the same devices are there.
EnumerateIfChanged ==
    /\ scanned /\ scanned' = FALSE
    /\ \E seen \in Enumerations :
          candidates' = IF Physical(seen) = DOMAIN candidates THEN candidates
                        ELSE RefreshCandidates(config, seen, Sampled("tx"), Sampled("rx"))
    /\ UNCHANGED <<config, rr_counter, flow_table, rows, host, counters, collector, moved>>

\* The rest of tick(): refresh_candidates with the rates just sampled.
Enumerate ==
    /\ scanned /\ scanned' = FALSE
    /\ \E seen \in Enumerations :
          candidates' = RefreshCandidates(config, seen, Sampled("tx"), Sampled("rx"))
    /\ UNCHANGED <<config, rr_counter, flow_table, rows, host, counters, collector, moved>>

\* The engine is locked from the scan to the enumeration.
EngineStep ==
    /\ ~scanned
    /\ Render \/ Click \/ \E k \in FlowKeys : Route(k)
    /\ UNCHANGED <<host, counters, collector, scanned, moved>>

Traffic(i, d) ==
    /\ host[i] = "link" /\ counters[i][d] < MaxBytes /\ moved[i][d] < MaxBytes
    /\ counters' = [counters EXCEPT ![i][d] = @ + 1]
    /\ moved' = [moved EXCEPT ![i][d] = @ + 1]
    /\ UNCHANGED <<vars, collector, scanned>>

\* A device that comes is a new one: its counters start at zero.
Plug ==
    /\ HostChange
    /\ counters' = [i \in Ifaces |-> IF host[i] = "absent" THEN Bytes ELSE counters[i]]
    /\ UNCHANGED <<collector, scanned, moved>>

StatsNext ==
    \/ Refresh \/ Enumerate \/ EngineStep \/ Plug
    \/ \E i \in Ifaces, d \in TrafficDirs : Traffic(i, d)

\* The timer of main() ticks the engine: the tunnel with its window open (see DataPlane
\* for the other cases, in which nothing is refreshed).
StatsSpec ==
    /\ StatsInit /\ [][StatsNext]_statsVars
    /\ WF_statsVars(Refresh) /\ WF_statsVars(Enumerate)

-----------------------------------------------------------------------------
(* A sample never claims more bytes than the device moved since the scan   *)
(* before, whatever was plugged in between or vanished under the scan.     *)
RateBounded ==
    [][~scanned /\ scanned' =>
          \E e \in ElapsedChoices : \A i \in DOMAIN last_counters' :
             /\ samples'[i].tx <= (moved[i].tx * 1000) \div Max({e, 1})
             /\ samples'[i].rx <= (moved[i].rx * 1000) \div Max({e, 1})]_statsVars

ScanFails == ~scanned /\ scanned' /\ DOMAIN last_counters' # {i \in Ifaces : host'[i] # "absent"}

(* Once devices and traffic rest and /sys can be read, the rates of all    *)
(* candidates become zero and stay so: no old sample, of a device that was *)
(* removed or of a scan that failed, is used for ever.                     *)
RatesSettle ==
    <>[][UNCHANGED <<host, counters>> /\ ~ScanFails]_statsVars =>
        <>[](\A i \in DOMAIN candidates : candidates[i].tx_bps = 0 /\ candidates[i].rx_bps = 0)

(* The engine with measured rates is one of the engines of Aggregator,     *)
(* where a tick may read any rate: what is shown there holds here.         *)
ImplementsEngine == Init /\ [][Next]_vars
=============================================================================
