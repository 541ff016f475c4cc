---------------------------- MODULE StatsProofs -----------------------------
(***************************************************************************)
(* The engine with measured rates implements the engine of Aggregator, and *)
(* a sample never claims bytes the device did not move, for any devices,   *)
(* counters and traffic.                                                   *)
(***************************************************************************)
EXTENDS Stats, AggregatorProofs

ByteCounts == [tx: 0 .. MaxBytes, rx: 0 .. MaxBytes]
RateRecord == [tx: Rates, rx: Rates]

(* What the collector holds: counters of the kernel, rates of `Rates'.     *)
StatsTypeOK ==
    /\ host \in [Ifaces -> LinkStates]
    /\ counters \in [Ifaces -> ByteCounts] /\ moved \in [Ifaces -> ByteCounts]
    /\ Partial(last_counters, Ifaces, ByteCounts)
    /\ Partial(samples, Ifaces, RateRecord)

(* A device that is there has counted, since the last scan, no more than   *)
(* was moved under its name.  A device that is not there may have any      *)
(* counters: they are reset before it comes back.                          *)
CountersFollow ==
    \A i \in DOMAIN last_counters : host[i] # "absent" =>
        /\ counters[i].tx <= last_counters[i].tx + moved[i].tx
        /\ counters[i].rx <= last_counters[i].rx + moved[i].rx

StatsInv == StatsTypeOK /\ CountersFollow

-----------------------------------------------------------------------------
(* Division rounds down and keeps the order.                               *)
LEMMA DivMonotone ==
    ASSUME NEW a \in Nat, NEW b \in Nat, a <= b, NEW e \in Nat, e > 0
    PROVE  a \div e \in Nat /\ b \div e \in Nat /\ a \div e <= b \div e
  OBVIOUS

(* No two scans are less than a millisecond apart for the rate.            *)
LEMMA ElapsedPositive ==
    ASSUME NEW e \in ElapsedChoices
    PROVE  Max({e, 1}) \in Nat /\ Max({e, 1}) > 0
<1>1. e \in Nat
  BY StatsAssumption
<1>2. \E x \in {e, 1} : \A y \in {e, 1} : x >= y
  BY <1>1
<1>3. Max({e, 1}) \in {e, 1} /\ Max({e, 1}) >= 1
  BY <1>1, <1>2 DEF Max
<1>4. QED
  BY <1>1, <1>3

(* A rate is one a tick may read.                                          *)
LEMMA RateOfTyped ==
    ASSUME NEW new \in 0 .. MaxBytes, NEW old \in 0 .. MaxBytes, NEW e \in ElapsedChoices
    PROVE  RateOf(new, old, e) \in Rates
<1>1. SaturatingSub(new, old) \in 0 .. MaxBytes
  BY StatsAssumption DEF SaturatingSub
<1>2. QED
  BY <1>1, StatsAssumption DEF RateOf

(* A rate is at most that of the bytes moved.                              *)
LEMMA RateOfBounded ==
    ASSUME NEW new \in 0 .. MaxBytes, NEW old \in 0 .. MaxBytes, NEW m \in 0 .. MaxBytes,
           new <= old + m, NEW e \in ElapsedChoices
    PROVE  RateOf(new, old, e) <= (m * 1000) \div Max({e, 1})
<1> DEFINE s == SaturatingSub(new, old)
<1>1. s \in Nat /\ m \in Nat /\ s <= m
  BY StatsAssumption DEF SaturatingSub
<1>2. RateOf(new, old, e) = (s * 1000) \div Max({e, 1})
  BY DEF RateOf
<1> HIDE DEF s
<1>3. s * 1000 \in Nat /\ m * 1000 \in Nat /\ s * 1000 <= m * 1000
  BY <1>1
<1>4. QED
  BY <1>2, <1>3, ElapsedPositive, DivMonotone

-----------------------------------------------------------------------------
(* The devices a scan lists are there when it starts, and what it reads of *)
(* one is what the kernel counted, or zero where the device vanishes.      *)
LEMMA ReadingsBounded ==
    ASSUME StatsInv, NEW gone \in Vanishing, NEW seen \in Enumerations,
           NEW now \in Readings(seen, gone)
    PROVE  /\ DOMAIN now = seen /\ seen \subseteq Ifaces
           /\ \A i \in seen : /\ host[i] # "absent" /\ now[i] \in ByteCounts
                              /\ now[i].tx <= counters[i].tx /\ now[i].rx <= counters[i].rx
                              /\ i \notin gone => now[i] = counters[i]
           /\ now = [i \in seen |-> now[i]]
<1>1. seen \subseteq Ifaces /\ \A i \in seen : host[i] # "absent"
  BY DEF Enumerations
<1>2. /\ now = [i \in seen |-> now[i]] /\ DOMAIN now = seen
      /\ \A i \in seen : now[i] \in IF i \in gone
                                    THEN [tx: {0, counters[i].tx}, rx: {0, counters[i].rx}]
                                    ELSE {counters[i]}
  BY DEF Readings
<1>3. ASSUME NEW i \in seen
      PROVE  /\ now[i] \in ByteCounts
             /\ now[i].tx <= counters[i].tx /\ now[i].rx <= counters[i].rx
             /\ i \notin gone => now[i] = counters[i]
  <2>1. counters[i] \in ByteCounts
    BY <1>1 DEF StatsInv, StatsTypeOK
  <2>2. counters[i].tx \in 0 .. MaxBytes /\ counters[i].rx \in 0 .. MaxBytes /\ MaxBytes \in Nat
    BY <2>1, StatsAssumption DEF ByteCounts
  <2>3. CASE i \in gone
    <3>1. now[i] \in [tx: {0, counters[i].tx}, rx: {0, counters[i].rx}]
      BY <1>2, <2>3
    <3>2. QED
      BY <2>2, <2>3, <3>1 DEF ByteCounts
  <2>4. CASE i \notin gone
    <3>1. now[i] = counters[i]
      BY <1>2, <2>4
    <3>2. QED
      BY <2>1, <2>2, <3>1
  <2>5. QED
    BY <2>3, <2>4
<1>4. QED
  BY <1>1, <1>2, <1>3

(* The sample of a device is no more than the bytes moved account for, and *)
(* holds rates the engine may read.                                        *)
LEMMA SampleBounded ==
    ASSUME StatsInv, NEW i \in Ifaces, host[i] # "absent", NEW new \in ByteCounts,
           new.tx <= counters[i].tx, new.rx <= counters[i].rx, NEW e \in ElapsedChoices
    PROVE  /\ SampleOf(i, new, e).tx <= (moved[i].tx * 1000) \div Max({e, 1})
           /\ SampleOf(i, new, e).rx <= (moved[i].rx * 1000) \div Max({e, 1})
<1>1. /\ moved[i].tx \in 0 .. MaxBytes /\ moved[i].rx \in 0 .. MaxBytes
      /\ counters[i].tx \in 0 .. MaxBytes /\ counters[i].rx \in 0 .. MaxBytes
      /\ new.tx \in 0 .. MaxBytes /\ new.rx \in 0 .. MaxBytes /\ MaxBytes \in Nat
  BY StatsAssumption DEF StatsInv, StatsTypeOK, ByteCounts
<1>2. CASE i \in DOMAIN last_counters
  <2> DEFINE old == last_counters[i]
  <2>1. old.tx \in 0 .. MaxBytes /\ old.rx \in 0 .. MaxBytes
    BY <1>2 DEF StatsInv, StatsTypeOK, Partial, ByteCounts
  <2>2. counters[i].tx <= old.tx + moved[i].tx /\ counters[i].rx <= old.rx + moved[i].rx
    BY <1>2 DEF StatsInv, CountersFollow
  <2>3. SampleOf(i, new, e) = [tx |-> RateOf(new.tx, old.tx, e), rx |-> RateOf(new.rx, old.rx, e)]
    BY <1>2 DEF SampleOf
  <2> HIDE DEF old
  <2>4. new.tx <= old.tx + moved[i].tx /\ new.rx <= old.rx + moved[i].rx
    BY <1>1, <2>1, <2>2
  <2>5. RateOf(new.tx, old.tx, e) <= (moved[i].tx * 1000) \div Max({e, 1})
    BY <1>1, <2>1, <2>4, RateOfBounded
  <2>6. RateOf(new.rx, old.rx, e) <= (moved[i].rx * 1000) \div Max({e, 1})
    BY <1>1, <2>1, <2>4, RateOfBounded
  <2>7. QED
    BY <2>3, <2>5, <2>6
<1>3. CASE i \notin DOMAIN last_counters
  <2>1. SampleOf(i, new, e) = Bytes
    BY <1>3 DEF SampleOf
  <2>2. moved[i].tx * 1000 \in Nat /\ moved[i].rx * 1000 \in Nat
    BY <1>1
  <2>3. /\ 0 <= (moved[i].tx * 1000) \div Max({e, 1})
        /\ 0 <= (moved[i].rx * 1000) \div Max({e, 1})
    BY <2>2, ElapsedPositive, DivMonotone
  <2>4. QED
    BY <2>1, <2>3 DEF Bytes
<1>4. QED
  BY <1>2, <1>3

LEMMA SampleTyped ==
    ASSUME StatsInv, NEW i \in Ifaces, NEW new \in ByteCounts, NEW e \in ElapsedChoices
    PROVE  SampleOf(i, new, e) \in RateRecord
<1>1. new.tx \in 0 .. MaxBytes /\ new.rx \in 0 .. MaxBytes
  BY DEF ByteCounts
<1>2. CASE i \in DOMAIN last_counters
  <2> DEFINE old == last_counters[i]
  <2>1. old.tx \in 0 .. MaxBytes /\ old.rx \in 0 .. MaxBytes
    BY <1>2 DEF StatsInv, StatsTypeOK, Partial, ByteCounts
  <2>2. SampleOf(i, new, e) = [tx |-> RateOf(new.tx, old.tx, e), rx |-> RateOf(new.rx, old.rx, e)]
    BY <1>2 DEF SampleOf
  <2> HIDE DEF old
  <2>3. RateOf(new.tx, old.tx, e) \in Rates /\ RateOf(new.rx, old.rx, e) \in Rates
    BY <1>1, <2>1, RateOfTyped
  <2>4. QED
    BY <2>2, <2>3 DEF RateRecord
<1>3. CASE i \notin DOMAIN last_counters
  BY <1>3, AggregatorAssumption DEF SampleOf, Bytes, RateRecord
<1>4. QED
  BY <1>2, <1>3

-----------------------------------------------------------------------------
LEMMA StatsInitInv == StatsInit => StatsInv
<1> SUFFICES ASSUME StatsInit PROVE StatsInv
  OBVIOUS
<1>1. host \in [Ifaces -> LinkStates]
  BY AggregatorAssumption DEF StatsInit, Init
<1>2. Bytes \in ByteCounts /\ \A n \in {0, MaxBytes} : [tx |-> n, rx |-> 0] \in ByteCounts
  BY StatsAssumption DEF Bytes, ByteCounts
<1>3. counters \in [Ifaces -> ByteCounts] /\ moved \in [Ifaces -> ByteCounts]
  BY <1>2 DEF StatsInit
<1>4. DOMAIN last_counters = {} /\ DOMAIN samples = {}
  BY DEF StatsInit
<1>5. /\ Partial(last_counters, Ifaces, ByteCounts)
      /\ Partial(samples, Ifaces, RateRecord)
  BY <1>4 DEF StatsInit, Partial
<1>6. QED
  BY <1>1, <1>3, <1>4, <1>5 DEF StatsInv, StatsTypeOK, CountersFollow

(* A scan: the new counters are those of the devices that stay.            *)
LEMMA RefreshInv == ASSUME StatsInv, Refresh PROVE StatsInv'
<1>1. PICK gone \in Vanishing, seen \in Enumerations, elapsed \in ElapsedChoices :
         \E now \in Readings(seen, gone) :
            /\ host' = [i \in Ifaces |-> IF i \in gone THEN "absent" ELSE host[i]]
            /\ samples' = [i \in DOMAIN samples \cup seen |->
                              IF i \in seen THEN SampleOf(i, now[i], elapsed) ELSE samples[i]]
            /\ last_counters' = now
  BY DEF Refresh
<1>2. PICK now \in Readings(seen, gone) :
            /\ host' = [i \in Ifaces |-> IF i \in gone THEN "absent" ELSE host[i]]
            /\ samples' = [i \in DOMAIN samples \cup seen |->
                              IF i \in seen THEN SampleOf(i, now[i], elapsed) ELSE samples[i]]
            /\ last_counters' = now
  BY <1>1
<1>3. /\ DOMAIN now = seen /\ seen \subseteq Ifaces
      /\ \A i \in seen : /\ host[i] # "absent" /\ now[i] \in ByteCounts
                         /\ now[i].tx <= counters[i].tx /\ now[i].rx <= counters[i].rx
                         /\ i \notin gone => now[i] = counters[i]
      /\ now = [i \in seen |-> now[i]]
  BY ReadingsBounded
<1>4. host' \in [Ifaces -> LinkStates]
  BY <1>2 DEF StatsInv, StatsTypeOK, LinkStates
<1>5. moved' = [i \in Ifaces |-> Bytes] /\ counters' = counters /\ Bytes \in ByteCounts
  BY StatsAssumption DEF Refresh, Bytes, ByteCounts
<1>6. Partial(last_counters', Ifaces, ByteCounts)
  BY <1>2, <1>3 DEF Partial
<1>7. Partial(samples', Ifaces, RateRecord)
  <2>1. DOMAIN samples \subseteq Ifaces /\ \A i \in DOMAIN samples : samples[i] \in RateRecord
    BY DEF StatsInv, StatsTypeOK, Partial
  <2>2. ASSUME NEW i \in seen PROVE SampleOf(i, now[i], elapsed) \in RateRecord
    BY <1>3, SampleTyped
  <2>3. QED
    BY <1>2, <1>3, <2>1, <2>2 DEF Partial
<1>8. CountersFollow'
  <2> SUFFICES ASSUME NEW i \in seen, host'[i] # "absent"
               PROVE  /\ counters[i].tx <= now[i].tx + moved'[i].tx
                      /\ counters[i].rx <= now[i].rx + moved'[i].rx
    BY <1>2, <1>3, <1>5 DEF CountersFollow
  <2>1. i \notin gone /\ i \in Ifaces
    BY <1>2, <1>3
  <2>2. now[i] = counters[i] /\ counters[i] \in ByteCounts /\ moved'[i] = Bytes
    BY <1>3, <1>5, <2>1 DEF StatsInv, StatsTypeOK
  <2>3. QED
    BY <2>2, StatsAssumption DEF Bytes, ByteCounts
<1>9. QED
  BY <1>4, <1>5, <1>6, <1>7, <1>8 DEF StatsInv, StatsTypeOK

(* A byte counted is a byte moved.                                         *)
LEMMA TrafficInv ==
    ASSUME StatsInv, NEW i \in Ifaces, NEW d \in {"tx", "rx"}, Traffic(i, d)
    PROVE  StatsInv'
<1>1. /\ counters \in [Ifaces -> ByteCounts] /\ moved \in [Ifaces -> ByteCounts]
      /\ MaxBytes \in Nat
  BY StatsAssumption DEF StatsInv, StatsTypeOK
<1>2. /\ counters[i][d] < MaxBytes /\ moved[i][d] < MaxBytes
      /\ counters' = [counters EXCEPT ![i] = [counters[i] EXCEPT ![d] = counters[i][d] + 1]]
      /\ moved' = [moved EXCEPT ![i] = [moved[i] EXCEPT ![d] = moved[i][d] + 1]]
      /\ UNCHANGED <<host, last_counters, samples>>
  BY <1>1 DEF Traffic, vars, collector
<1>3. ASSUME NEW b \in ByteCounts, b[d] < MaxBytes
      PROVE  [b EXCEPT ![d] = b[d] + 1] \in ByteCounts
  BY <1>1, <1>3 DEF ByteCounts
<1>4. counters' \in [Ifaces -> ByteCounts] /\ moved' \in [Ifaces -> ByteCounts]
  BY <1>1, <1>2, <1>3
<1>5. CountersFollow'
  <2> SUFFICES ASSUME NEW j \in DOMAIN last_counters, host[j] # "absent"
               PROVE  /\ counters'[j].tx <= last_counters[j].tx + moved'[j].tx
                      /\ counters'[j].rx <= last_counters[j].rx + moved'[j].rx
    BY <1>2 DEF CountersFollow
  <2>1. /\ counters[j].tx <= last_counters[j].tx + moved[j].tx
        /\ counters[j].rx <= last_counters[j].rx + moved[j].rx
    BY DEF StatsInv, CountersFollow
  <2>2. j \in Ifaces /\ last_counters[j] \in ByteCounts
    BY DEF StatsInv, StatsTypeOK, Partial
  <2>3. CASE j # i
    BY <1>1, <1>2, <2>1, <2>2, <2>3
  <2>4. CASE j = i
    <3>1. /\ counters'[j] = [counters[j] EXCEPT ![d] = counters[j][d] + 1]
          /\ moved'[j] = [moved[j] EXCEPT ![d] = moved[j][d] + 1]
      BY <1>1, <1>2, <2>4
    <3>2. counters[j] \in ByteCounts /\ moved[j] \in ByteCounts
      BY <1>1, <2>2
    <3>3. CASE d = "tx"
      <4>1. /\ counters'[j].tx = counters[j].tx + 1 /\ counters'[j].rx = counters[j].rx
            /\ moved'[j].tx = moved[j].tx + 1 /\ moved'[j].rx = moved[j].rx
        BY <3>1, <3>2, <3>3 DEF ByteCounts
      <4>2. QED
        BY <1>1, <2>1, <2>2, <3>2, <4>1 DEF ByteCounts
    <3>4. CASE d = "rx"
      <4>1. /\ counters'[j].rx = counters[j].rx + 1 /\ counters'[j].tx = counters[j].tx
            /\ moved'[j].rx = moved[j].rx + 1 /\ moved'[j].tx = moved[j].tx
        BY <3>1, <3>2, <3>4 DEF ByteCounts
      <4>2. QED
        BY <1>1, <2>1, <2>2, <3>2, <4>1 DEF ByteCounts
    <3>5. QED
      BY <3>3, <3>4
  <2>5. QED
    BY <2>3, <2>4
<1>6. QED
  BY <1>2, <1>4, <1>5 DEF StatsInv, StatsTypeOK

(* A device that comes back starts at zero.                                *)
LEMMA PlugInv == ASSUME StatsInv, Plug PROVE StatsInv'
<1>1. PICK i \in Ifaces, s \in LinkChoices : host' = [host EXCEPT ![i] = s]
  BY DEF Plug, HostChange
<1>2. /\ host' \in [Ifaces -> LinkStates]
      /\ UNCHANGED <<last_counters, samples, moved>>
      /\ counters' = [j \in Ifaces |-> IF host[j] = "absent" THEN Bytes ELSE counters[j]]
  BY <1>1, AggregatorAssumption DEF Plug, collector, StatsInv, StatsTypeOK
<1>3. Bytes \in ByteCounts
  BY StatsAssumption DEF Bytes, ByteCounts
<1>4. counters' \in [Ifaces -> ByteCounts]
  BY <1>2, <1>3 DEF StatsInv, StatsTypeOK
<1>5. CountersFollow'
  <2> SUFFICES ASSUME NEW j \in DOMAIN last_counters
               PROVE  /\ counters'[j].tx <= last_counters[j].tx + moved[j].tx
                      /\ counters'[j].rx <= last_counters[j].rx + moved[j].rx
    BY <1>2 DEF CountersFollow
  <2>1. j \in Ifaces /\ last_counters[j] \in ByteCounts /\ moved[j] \in ByteCounts
    BY DEF StatsInv, StatsTypeOK, Partial
  <2>2. CASE host[j] = "absent"
    <3>1. counters'[j] = Bytes
      BY <1>2, <2>1, <2>2
    <3>2. QED
      BY <2>1, <3>1, StatsAssumption DEF Bytes, ByteCounts
  <2>3. CASE host[j] # "absent"
    BY <1>2, <2>1, <2>3 DEF StatsInv, CountersFollow
  <2>4. QED
    BY <2>2, <2>3
<1>6. QED
  BY <1>2, <1>4, <1>5 DEF StatsInv, StatsTypeOK

LEMMA StatsNextInv == StatsInv /\ [StatsNext]_statsVars => StatsInv'
<1>1. ASSUME StatsInv, UNCHANGED <<host, counters, collector, moved>> PROVE StatsInv'
  BY <1>1 DEF collector, StatsInv, StatsTypeOK, CountersFollow
<1>2. ASSUME StatsInv, Enumerate \/ EngineStep \/ UNCHANGED statsVars PROVE StatsInv'
  BY <1>1, <1>2 DEF Enumerate, EngineStep, statsVars, vars
<1>3. ASSUME StatsInv, NEW i \in Ifaces, NEW d \in TrafficDirs, Traffic(i, d) PROVE StatsInv'
  BY <1>3, TrafficInv, StatsAssumption
<1>4. QED
  BY <1>2, <1>3, RefreshInv, PlugInv DEF StatsNext

LEMMA StatsInvHolds == StatsSpec => []StatsInv
  BY StatsInitInv, StatsNextInv, PTL DEF StatsSpec

-----------------------------------------------------------------------------
(* A sample is never more than what the device moved, however the counters *)
(* were reset, by a device that came back or files that vanished.          *)
THEOREM StatsRateBounded == StatsSpec => RateBounded
<1> DEFINE Within(e) ==
      \A i \in DOMAIN last_counters' :
         /\ samples'[i].tx <= (moved[i].tx * 1000) \div Max({e, 1})
         /\ samples'[i].rx <= (moved[i].rx * 1000) \div Max({e, 1})
<1> DEFINE Bounded == ~scanned /\ scanned' => \E e \in ElapsedChoices : Within(e)
<1>1. StatsInv /\ [StatsNext]_statsVars => [Bounded]_statsVars
  <2> SUFFICES ASSUME StatsInv, StatsNext, ~scanned, scanned' = TRUE PROVE Bounded
    BY DEF StatsNext, Refresh, Enumerate, EngineStep, Plug, Traffic, statsVars
  <2>1. Refresh
    BY DEF StatsNext, Enumerate, EngineStep, Plug, Traffic
  <2>2. PICK gone \in Vanishing, seen \in Enumerations, elapsed \in ElapsedChoices :
           \E now \in Readings(seen, gone) :
              /\ samples' = [i \in DOMAIN samples \cup seen |->
                                IF i \in seen THEN SampleOf(i, now[i], elapsed) ELSE samples[i]]
              /\ last_counters' = now
    BY <2>1 DEF Refresh
  <2>3. PICK now \in Readings(seen, gone) :
              /\ samples' = [i \in DOMAIN samples \cup seen |->
                                IF i \in seen THEN SampleOf(i, now[i], elapsed) ELSE samples[i]]
              /\ last_counters' = now
    BY <2>2
  <2>4. /\ DOMAIN now = seen /\ seen \subseteq Ifaces
        /\ \A i \in seen : /\ host[i] # "absent" /\ now[i] \in ByteCounts
                           /\ now[i].tx <= counters[i].tx /\ now[i].rx <= counters[i].rx
    BY ReadingsBounded
  <2>5. ASSUME NEW i \in seen
        PROVE  /\ samples'[i].tx <= (moved[i].tx * 1000) \div Max({elapsed, 1})
               /\ samples'[i].rx <= (moved[i].rx * 1000) \div Max({elapsed, 1})
    <3>1. PICK new \in ByteCounts : new = now[i]
      BY <2>4
    <3>2. /\ i \in Ifaces /\ host[i] # "absent"
          /\ new.tx <= counters[i].tx /\ new.rx <= counters[i].rx
      BY <2>4, <3>1
    <3>3. samples'[i] = SampleOf(i, new, elapsed)
      BY <2>3, <3>1
    <3>4. /\ SampleOf(i, new, elapsed).tx <= (moved[i].tx * 1000) \div Max({elapsed, 1})
          /\ SampleOf(i, new, elapsed).rx <= (moved[i].rx * 1000) \div Max({elapsed, 1})
      BY <3>2, SampleBounded
    <3>5. QED
      BY <3>3, <3>4
  <2>6. DOMAIN last_counters' = seen
    BY <2>3, <2>4
  <2>7. Within(elapsed)
    BY <2>5, <2>6
  <2> HIDE DEF Within
  <2>8. QED
    BY <2>2, <2>7
<1>2. QED
  BY <1>1, StatsInvHolds, PTL DEF StatsSpec, RateBounded

-----------------------------------------------------------------------------
(* The rates handed to refresh_candidates are rates a tick may read.       *)
LEMMA SampledRates ==
    ASSUME StatsInv, NEW d \in {"tx", "rx"}
    PROVE  Sampled(d) \in [Ifaces -> Rates]
<1>1. \A i \in DOMAIN samples : samples[i].tx \in Rates /\ samples[i].rx \in Rates
  BY DEF StatsInv, StatsTypeOK, Partial, RateRecord
<1>2. QED
  BY <1>1, AggregatorAssumption DEF Sampled

(* Each step of the measured engine is a step of the engine, a change of   *)
(* the host, or neither.                                                   *)
LEMMA StatsRefines == ASSUME StatsInv, [StatsNext]_statsVars PROVE [Next]_vars
<1>1. CASE Refresh
  <2>1. PICK gone \in Vanishing :
           host' = [i \in Ifaces |-> IF i \in gone THEN "absent" ELSE host[i]]
    BY <1>1 DEF Refresh
  <2>2. host \in [Ifaces -> LinkStates] /\ UNCHANGED aggVars
    BY <1>1 DEF Refresh, StatsInv, StatsTypeOK
  <2>3. CASE gone = {}
    <3>1. host' = host
      BY <2>1, <2>2, <2>3
    <3>2. QED
      BY <2>2, <3>1 DEF vars, aggVars
  <2>4. CASE gone # {}
    <3>1. PICK i \in Ifaces : gone = {i} /\ host[i] # "absent" /\ "absent" \in LinkChoices
      BY <2>4 DEF Vanishing
    <3>2. host' = [host EXCEPT ![i] = "absent"]
      BY <2>1, <2>2, <3>1
    <3>3. HostChange
      BY <2>2, <3>1, <3>2 DEF HostChange
    <3>4. QED
      BY <3>3 DEF Next
  <2>5. QED
    BY <2>3, <2>4
<1>2. CASE Enumerate
  <2>1. PICK seen \in Enumerations :
           candidates' = RefreshCandidates(config, seen, Sampled("tx"), Sampled("rx"))
    BY <1>2 DEF Enumerate
  <2>2. PICK tx \in [Ifaces -> Rates], rx \in [Ifaces -> Rates] : tx = Sampled("tx") /\ rx = Sampled("rx")
    BY SampledRates
  <2>3. candidates' = RefreshCandidates(config, seen, tx, rx)
    BY <2>1, <2>2
  <2>4. Tick /\ UNCHANGED host
    BY <1>2, <2>3 DEF Enumerate, Tick
  <2>5. QED
    BY <2>4 DEF Next
<1>3. CASE EngineStep
  BY <1>3 DEF EngineStep, Next
<1>4. CASE Plug
  BY <1>4 DEF Plug, Next
<1>5. CASE (\E i \in Ifaces, d \in TrafficDirs : Traffic(i, d)) \/ UNCHANGED statsVars
  BY <1>5 DEF Traffic, statsVars
<1>6. QED
  BY <1>1, <1>2, <1>3, <1>4, <1>5 DEF StatsNext

(* A tick that scans, is interrupted by the kernel and then enumerates is  *)
(* a tick of Aggregator: splitting it, and measuring, adds no behaviour.   *)
THEOREM StatsImplementsEngine == StatsSpec => ImplementsEngine
<1>1. StatsInit => Init
  BY DEF StatsInit
<1>2. StatsInv /\ [StatsNext]_statsVars => [Next]_vars
  BY StatsRefines
<1>3. QED
  BY <1>1, <1>2, StatsInvHolds, PTL DEF StatsSpec, ImplementsEngine

(* So the engine keeps its types and a valid configuration when the rates  *)
(* are measured.                                                           *)
THEOREM StatsEngineTyped == StatsSpec => [](TypeOK /\ ConfigValid)
<1>1. EngineInv(Ifaces) => ConfigValid
  BY DEF EngineInv
<1>2. QED
  BY <1>1, StatsImplementsEngine, EngineTypedHolds, EngineInvHolds, PTL DEF ImplementsEngine
=============================================================================
