---------------------------- MODULE PolicyProofs ----------------------------
(***************************************************************************)
(* select_interface names a usable interface whenever there is one, for    *)
(* any candidates, weights, priorities, rates, counter and hash.           *)
(*                                                                         *)
(* The library states induction with an operator as its parameter.  Here   *)
(* the property to be proved is a set: FiniteInduction and NatMinimum are  *)
(* instantiated with {x \in ... : ...}.                                    *)
(***************************************************************************)
EXTENDS Policy, FiniteSetTheorems, TLAPS

(* Every nonempty set of numbers has a least element.                      *)
LEMMA NatMinimum ==
    ASSUME NEW T, T \subseteq Nat, T # {}
    PROVE  \E x \in T : \A y \in T : x <= y
<1>1. PICK x \in T : \A y \in T : ~(<<y, x>> \in OpToRel(<, Nat))
  BY NatLessThanWellFounded, WFMin
<1>2. \A y \in T : ~(y < x)
  BY <1>1 DEF OpToRel
<1>3. QED
  BY <1>2

(* Induction over the subsets of a finite set: G is the set of those for   *)
(* which the claim holds.                                                  *)
LEMMA FiniteInduction ==
    ASSUME NEW S, IsFiniteSet(S), NEW G, {} \in G,
           ASSUME NEW T \in SUBSET S, NEW x \in S \ T, T \in G PROVE T \cup {x} \in G
    PROVE  S \in G
<1> SUFFICES ASSUME S \notin G PROVE FALSE
  OBVIOUS
<1> DEFINE Sizes == {n \in Nat : \E T \in SUBSET S : T \notin G /\ Cardinality(T) = n}
<1>1. \A T \in SUBSET S : IsFiniteSet(T) /\ Cardinality(T) \in Nat
  BY FS_Subset, FS_CardinalityType
<1>2. Cardinality(S) \in Sizes
  BY <1>1
<1>3. PICK n \in Sizes : \A m \in Sizes : n <= m
  BY <1>2, NatMinimum
<1>4. PICK T \in SUBSET S : T \notin G /\ Cardinality(T) = n
  BY <1>3
<1>5. PICK x : x \in T
  BY <1>4
<1> DEFINE R == T \ {x}
<1>6. IsFiniteSet(R) /\ Cardinality(R) = n - 1
  BY <1>1, <1>4, <1>5, FS_RemoveElement
<1>7. R \in SUBSET S /\ x \in S \ R /\ R \cup {x} = T
  BY <1>5
<1>8. CASE R \in G
  BY <1>4, <1>7, <1>8
<1>9. CASE R \notin G
  <2>1. n - 1 \in Sizes
    BY <1>1, <1>6, <1>7, <1>9
  <2>2. n \in Nat
    BY <1>3
  <2>3. QED
    BY <1>3, <2>1, <2>2
<1>10. QED
  BY <1>8, <1>9

(* A function on a finite set has a greatest value.                        *)
LEMMA GreatestValue ==
    ASSUME NEW S, IsFiniteSet(S), S # {}, NEW f \in [S -> Nat]
    PROVE  \E x \in S : \A y \in S : f[y] <= f[x]
<1> DEFINE G == {T \in SUBSET S : T # {} => \E x \in T : \A y \in T : f[y] <= f[x]}
<1>1. {} \in G
  OBVIOUS
<1>2. ASSUME NEW T \in SUBSET S, NEW x \in S \ T, T \in G PROVE T \cup {x} \in G
  <2>1. CASE T = {}
    BY <2>1
  <2>2. CASE T # {}
    <3>1. PICK m \in T : \A y \in T : f[y] <= f[m]
      BY <1>2, <2>2
    <3>2. CASE f[x] <= f[m]
      BY <3>1, <3>2
    <3>3. CASE f[m] <= f[x]
      BY <3>1, <3>3
    <3>4. f[x] \in Nat /\ f[m] \in Nat
      BY <3>1
    <3>5. QED
      BY <3>2, <3>3, <3>4
  <2>3. QED
    BY <2>1, <2>2
<1> HIDE DEF G
<1>3. S \in G
  BY <1>1, <1>2, FiniteInduction
<1>4. QED
  BY <1>3 DEF G

-----------------------------------------------------------------------------
(* Candidates as refresh_candidates and inject_sim_candidates make them.   *)
CandsOK(cands) ==
    /\ IsFiniteSet(DOMAIN cands) /\ DOMAIN cands \subseteq Nat \ {0}
    /\ \A c \in DOMAIN cands :
          /\ cands[c].policy.weight \in Nat /\ cands[c].policy.priority \in Nat
          /\ cands[c].tx_bps \in Nat /\ cands[c].rx_bps \in Nat

(* weight.max(1) is at least one.                                          *)
LEMMA PoolWeightPositive ==
    ASSUME NEW cands, NEW c, cands[c].policy.weight \in Nat
    PROVE  PoolWeight(cands, c) \in Nat \ {0}
<1> DEFINE w == cands[c].policy.weight
<1>1. \E x \in {w, 1} : \A y \in {w, 1} : x >= y
  <2>1. CASE w >= 1
    BY <2>1
  <2>2. CASE 1 >= w
    BY <2>2
  <2>3. QED
    BY <2>1, <2>2
<1>2. Max({w, 1}) \in {w, 1} /\ Max({w, 1}) >= 1
  BY <1>1 DEF Max
<1>3. QED
  BY <1>2 DEF PoolWeight

Units(cands, S) == UNION {{c} \X (1 .. PoolWeight(cands, c)) : c \in S}

(* The units of one candidate.                                             *)
LEMMA OneCandidate ==
    ASSUME NEW cands, NEW c, PoolWeight(cands, c) \in Nat
    PROVE  /\ IsFiniteSet({c} \X (1 .. PoolWeight(cands, c)))
           /\ Cardinality({c} \X (1 .. PoolWeight(cands, c))) = PoolWeight(cands, c)
<1> DEFINE w == PoolWeight(cands, c)
<1> HIDE DEF w
<1>1. IsFiniteSet({c}) /\ Cardinality({c}) = 1
  BY FS_Singleton
<1>2. IsFiniteSet(1 .. w) /\ Cardinality(1 .. w) = w
  <2>1. w \in Nat
    BY DEF w
  <2>2. IsFiniteSet(1 .. w) /\ Cardinality(1 .. w) = IF 1 > w THEN 0 ELSE w - 1 + 1
    BY <2>1, FS_Interval
  <2>3. QED
    BY <2>1, <2>2
<1>3. /\ IsFiniteSet({c} \X (1 .. w))
      /\ Cardinality({c} \X (1 .. w)) = Cardinality({c}) * Cardinality(1 .. w)
  <2> DEFINE A == {c}
             B == 1 .. w
  <2>1. IsFiniteSet(A) /\ IsFiniteSet(B)
    BY <1>1, <1>2
  <2> HIDE DEF A, B
  <2>2. IsFiniteSet(A \X B) /\ Cardinality(A \X B) = Cardinality(A) * Cardinality(B)
    BY <2>1, FS_Product, Zenon
  <2>3. QED
    BY <2>2 DEF A, B
<1>4. w \in Nat /\ 1 * w = w
  BY DEF w
<1>5. QED
  BY <1>1, <1>2, <1>3, <1>4 DEF w

(* One more candidate adds its weight to the total.                        *)
LEMMA PoolTotalAdd ==
    ASSUME NEW cands, NEW S, NEW c, c \notin S, PoolWeight(cands, c) \in Nat,
           IsFiniteSet(Units(cands, S))
    PROVE  /\ IsFiniteSet(Units(cands, S \cup {c}))
           /\ PoolTotal(cands, S) \in Nat
           /\ PoolTotal(cands, S \cup {c}) = PoolTotal(cands, S) + PoolWeight(cands, c)
<1> DEFINE A == Units(cands, S)
           B == {c} \X (1 .. PoolWeight(cands, c))
<1>1. Units(cands, S \cup {c}) = A \cup B
  BY DEF Units
<1>2. A \cap B = {}
  BY DEF Units
<1>3. IsFiniteSet(A) /\ IsFiniteSet(B) /\ Cardinality(B) = PoolWeight(cands, c)
  BY OneCandidate
<1> HIDE DEF A, B
<1>4. IsFiniteSet(A \cup B) /\ Cardinality(A \cup B) = Cardinality(A) + Cardinality(B) - Cardinality(A \cap B)
  BY <1>3, FS_Union
<1>5. Cardinality(A) \in Nat /\ Cardinality(A \cap B) = 0
  BY <1>2, <1>3, FS_CardinalityType, FS_EmptySet
<1>6. /\ PoolTotal(cands, S) = Cardinality(A)
      /\ PoolTotal(cands, S \cup {c}) = Cardinality(Units(cands, S \cup {c}))
  BY DEF PoolTotal, Units, A
<1>7. Cardinality(A \cup B) = Cardinality(A) + PoolWeight(cands, c)
  BY <1>3, <1>4, <1>5
<1>8. QED
  BY <1>1, <1>4, <1>5, <1>6, <1>7, Zenon

(* The units of finitely many candidates are finitely many.                *)
LEMMA UnitsFinite ==
    ASSUME NEW cands, NEW S, IsFiniteSet(S),
           \A c \in S : PoolWeight(cands, c) \in Nat
    PROVE  IsFiniteSet(Units(cands, S))
<1> DEFINE G == {T \in SUBSET S : IsFiniteSet(Units(cands, T))}
<1>1. {} \in G
  <2>1. Units(cands, {}) = {}
    BY DEF Units
  <2>2. QED
    BY <2>1, FS_EmptySet
<1>2. ASSUME NEW T \in SUBSET S, NEW x \in S \ T, T \in G PROVE T \cup {x} \in G
  BY <1>2, PoolTotalAdd
<1> HIDE DEF G
<1>3. S \in G
  BY <1>1, <1>2, FiniteInduction
<1>4. QED
  BY <1>3 DEF G

LEMMA Distributes ==
    ASSUME NEW a \in Nat, NEW b \in Nat, NEW c \in Nat
    PROVE  a * (b + c) = a * b + a * c /\ a * b \in Nat
  OBVIOUS

(* The sorted pool has no gap: below total * total every position falls    *)
(* among the copies of some candidate.  It is the first whose copies end   *)
(* beyond the position, as those of its predecessor end before.            *)
LEMMA PoolPosition ==
    ASSUME NEW cands, NEW list, IsFiniteSet(list), list \subseteq Nat, list # {},
           \A c \in list : PoolWeight(cands, c) \in Nat \ {0},
           NEW total, total = PoolTotal(cands, list)
    PROVE  /\ total \in Nat \ {0}
           /\ \A k \in 0 .. total * total - 1 : \E c \in list :
                 LET start == total * PoolTotal(cands, {d \in list : d < c})
                 IN  start <= k /\ k < start + total * PoolWeight(cands, c)
<1> DEFINE P(S)     == PoolTotal(cands, S)
           w(c)     == PoolWeight(cands, c)
           Below(c) == {d \in list : d < c}
           UpTo(c)  == Below(c) \cup {c}
<1>1. ASSUME NEW S \in SUBSET list
      PROVE  IsFiniteSet(S) /\ IsFiniteSet(Units(cands, S)) /\ P(S) \in Nat
  <2>1. IsFiniteSet(S)
    BY FS_Subset
  <2>2. IsFiniteSet(Units(cands, S))
    BY <2>1, UnitsFinite
  <2>3. QED
    BY <2>1, <2>2, FS_CardinalityType DEF PoolTotal, Units
<1>2. ASSUME NEW c \in list PROVE P(UpTo(c)) = P(Below(c)) + w(c)
  <2>1. Below(c) \in SUBSET list /\ c \notin Below(c) /\ w(c) \in Nat
    OBVIOUS
  <2>2. IsFiniteSet(Units(cands, Below(c)))
    BY <1>1, <2>1
  <2>3. QED
    BY <2>1, <2>2, PoolTotalAdd
<1>3. ASSUME NEW S \in SUBSET list, S # {} PROVE \E x \in S : \A y \in S : y <= x
  <2> DEFINE f == [x \in S |-> x]
  <2>1. f \in [S -> Nat] /\ IsFiniteSet(S)
    BY <1>1
  <2>2. \E x \in S : \A y \in S : f[y] <= f[x]
    BY <1>3, <2>1, GreatestValue
  <2>3. QED
    BY <2>2
<1>4. PICK m \in list : \A y \in list : y <= m
  BY <1>3
<1>5. UpTo(m) = list
  <2>1. \A y \in list : y < m \/ y = m
    BY <1>4
  <2>2. QED
    BY <2>1
<1>6. P(Below(m)) \in Nat /\ w(m) \in Nat \ {0} /\ total = P(Below(m)) + w(m)
  <2>1. Below(m) \in SUBSET list
    OBVIOUS
  <2>2. P(Below(m)) \in Nat
    BY <1>1, <2>1
  <2>3. P(list) = P(Below(m)) + w(m)
    BY <1>2, <1>5
  <2>4. QED
    BY <2>2, <2>3
<1>7. total \in Nat \ {0}
  BY <1>6
<1>8. ASSUME NEW k \in 0 .. total * total - 1
      PROVE  \E c \in list :
                total * P(Below(c)) <= k /\ k < total * P(Below(c)) + total * w(c)
  <2> DEFINE T == {c \in list : k < total * P(UpTo(c))}
  <2>0. total * total \in Nat
    BY <1>7
  <2>1. m \in T
    BY <1>5, <2>0
  <2>2. T \subseteq Nat
    OBVIOUS
  <2> HIDE DEF T, P, w, Below, UpTo
  <2>3. PICK c \in T : \A y \in T : c <= y
    BY <2>1, <2>2, NatMinimum
  <2>4. c \in list /\ k < total * P(UpTo(c))
    BY <2>3 DEF T
  <2>5. w(c) \in Nat /\ P(Below(c)) \in Nat
    BY <1>1, <2>4 DEF w, Below
  <2>6. total * P(UpTo(c)) = total * P(Below(c)) + total * w(c) /\ total * P(Below(c)) \in Nat
    BY <1>2, <1>7, <2>4, <2>5, Distributes
  <2>7. CASE Below(c) = {}
    <3>1. P({}) = 0
      <4>1. Units(cands, {}) = {}
        BY DEF Units
      <4>2. QED
        BY <4>1, FS_EmptySet DEF P, PoolTotal, Units
    <3>2. total * P(Below(c)) = 0
      BY <1>7, <2>7, <3>1
    <3>3. QED
      BY <2>4, <2>6, <3>2
  <2>8. CASE Below(c) # {}
    <3>1. PICK p \in Below(c) : \A y \in Below(c) : y <= p
      <4>1. Below(c) \in SUBSET list
        BY DEF Below
      <4>2. QED
        BY <1>3, <2>8, <4>1
    <3>2. p \in list /\ p < c
      BY <3>1 DEF Below
    <3>3. UpTo(p) = Below(c)
      <4>1. \A y \in list : y < c => y < p \/ y = p
        BY <3>1, <3>2 DEF Below
      <4>2. \A y \in list : y < p => y < c
        BY <2>4, <3>2
      <4>3. QED
        BY <3>2, <4>1, <4>2 DEF UpTo, Below
    <3>4. p \notin T
      BY <2>2, <2>3, <3>2
    <3>5. ~(k < total * P(Below(c)))
      BY <3>2, <3>3, <3>4 DEF T
    <3>6. k \in Int
      BY <2>0
    <3>7. QED
      BY <2>4, <2>6, <3>5, <3>6
  <2>9. QED
    BY <2>7, <2>8
<1>9. QED
  BY <1>7, <1>8

-----------------------------------------------------------------------------
(* A least element is in its set.                                          *)
LEMMA MinMember ==
    ASSUME NEW T, T \subseteq Nat, T # {}
    PROVE  Min(T) \in T
<1>1. \E x \in T : \A y \in T : x <= y
  BY NatMinimum
<1>2. QED
  BY <1>1 DEF Min

(* Failover: some candidate has the highest priority.                      *)
LEMMA HighestPriorityMember ==
    ASSUME NEW cands, CandsOK(cands), NEW list \in SUBSET DOMAIN cands, list # {}
    PROVE  HighestPriority(cands, list) \in list
<1> DEFINE prio == [c \in list |-> cands[c].policy.priority]
           Best == {c \in list : \A d \in list : cands[d].policy.priority <= cands[c].policy.priority}
<1>1. IsFiniteSet(list) /\ list \subseteq Nat
  BY FS_Subset DEF CandsOK
<1>2. prio \in [list -> Nat]
  BY DEF CandsOK
<1>3. \E c \in list : \A d \in list : prio[d] <= prio[c]
  BY <1>1, <1>2, GreatestValue
<1>4. Best # {} /\ Best \subseteq Nat
  BY <1>1, <1>3
<1> HIDE DEF Best
<1>5. Min(Best) \in Best
  BY <1>4, MinMember
<1>6. QED
  BY <1>5 DEF Best, HighestPriority

(* LeastLoaded: some candidate has the least load.                         *)
LEMMA LeastLoadedMember ==
    ASSUME NEW cands, CandsOK(cands), NEW list \in SUBSET DOMAIN cands, list # {}
    PROVE  LeastLoaded(cands, list) \in list
<1> DEFINE Loads == {Load(cands, c) : c \in list}
           Best  == {c \in list : \A d \in list : Load(cands, c) <= Load(cands, d)}
<1>1. Loads \subseteq Nat /\ Loads # {}
  BY DEF CandsOK, Load
<1>2. \E x \in Loads : \A y \in Loads : x <= y
  BY <1>1, NatMinimum
<1>3. Best # {} /\ Best \subseteq Nat
  BY <1>2 DEF CandsOK
<1> HIDE DEF Best
<1>4. Min(Best) \in Best
  BY <1>3, MinMember
<1>5. QED
  BY <1>4 DEF Best, LeastLoaded

(* The weighted pool holds candidates, at total * total >= 1 positions.    *)
LEMMA PoolMembers ==
    ASSUME NEW cands, CandsOK(cands), NEW list \in SUBSET DOMAIN cands, list # {},
           NEW n \in Nat
    PROVE  LET pool == WeightedPool(cands, list)
           IN  pool[n % Cardinality(DOMAIN pool)] \in list
<1> DEFINE pool == WeightedPool(cands, list)
           total == PoolTotal(cands, list)
           size == total * total
           start(c) == total * PoolTotal(cands, {d \in list : d < c})
<1>1. IsFiniteSet(list) /\ list \subseteq Nat /\ \A c \in list : PoolWeight(cands, c) \in Nat \ {0}
  BY FS_Subset, PoolWeightPositive DEF CandsOK
<1>2. /\ total \in Nat \ {0}
      /\ \A k \in 0 .. size - 1 : \E c \in list : start(c) <= k /\ k < start(c) + total * PoolWeight(cands, c)
  BY <1>1, PoolPosition
<1>3. pool = [k \in 0 .. size - 1 |->
                 CHOOSE c \in list : start(c) <= k /\ k < start(c) + total * PoolWeight(cands, c)]
  BY DEF WeightedPool
<1> HIDE DEF pool, start, total
<1>4. \A k \in 0 .. size - 1 : pool[k] \in list
  BY <1>2, <1>3
<1>5. size \in Nat \ {0}
  BY <1>2
<1>6. Cardinality(DOMAIN pool) = size
  <2> HIDE DEF size
  <2>1. DOMAIN pool = 0 .. size - 1
    BY <1>3
  <2>2. Cardinality(0 .. size - 1) = IF 0 > size - 1 THEN 0 ELSE size - 1 - 0 + 1
    BY <1>5, FS_Interval
  <2>3. QED
    BY <1>5, <2>1, <2>2
<1>7. n % size \in 0 .. size - 1
  <2> HIDE DEF size
  <2>1. QED
    BY <1>5
<1>8. QED
  BY <1>4, <1>6, <1>7 DEF pool

(* select_interface names an enabled, healthy candidate whenever there is  *)
(* one, and under Failover the first of the highest priority.  It never    *)
(* indexes an empty pool and never divides by its length of zero.          *)
THEOREM SelectUsable ==
    ASSUME NEW cfg, cfg.strategy \in Strategies, cfg.algorithm \in Algorithms,
           NEW cands, CandsOK(cands), Usable(cands) # {},
           NEW key \in FlowKeys, NEW rr \in Nat
    PROVE  LET i == SelectInterface(cfg, cands, key, rr)
           IN  /\ i \in Usable(cands)
               /\ cfg.strategy = "Failover" => i = HighestPriority(cands, Usable(cands))
<1> DEFINE usable == Usable(cands)
<1>1. usable \in SUBSET DOMAIN cands
  BY DEF Usable
<1> HIDE DEF usable
<1>2. CASE cfg.strategy = "Failover"
  <2>1. SelectInterface(cfg, cands, key, rr) = HighestPriority(cands, usable)
    BY <1>2 DEF SelectInterface, usable
  <2>2. QED
    BY <1>1, <2>1, HighestPriorityMember DEF usable
<1>3. CASE cfg.strategy = "LoadBalance" /\ cfg.algorithm = "RoundRobin"
  <2>1. SelectInterface(cfg, cands, key, rr) = RoundRobinPick(cands, usable, rr)
    BY <1>3 DEF SelectInterface, usable
  <2>2. QED
    BY <1>1, <1>3, <2>1, PoolMembers DEF RoundRobinPick, usable
<1>4. CASE cfg.strategy = "LoadBalance" /\ cfg.algorithm = "Hash"
  <2>1. SelectInterface(cfg, cands, key, rr) = HashPick(cands, usable, key)
    BY <1>4 DEF SelectInterface, usable
  <2>2. fnv1a(key) \in Nat
    BY PolicyAssumption
  <2>3. QED
    BY <1>1, <1>4, <2>1, <2>2, PoolMembers DEF HashPick, usable
<1>5. CASE cfg.strategy = "LoadBalance" /\ cfg.algorithm = "LeastLoaded"
  <2>1. SelectInterface(cfg, cands, key, rr) = LeastLoaded(cands, usable)
    BY <1>5 DEF SelectInterface, usable
  <2>2. QED
    BY <1>1, <1>5, <2>1, LeastLoadedMember DEF usable
<1>6. QED
  BY <1>2, <1>3, <1>4, <1>5 DEF Strategies, Algorithms
=============================================================================
