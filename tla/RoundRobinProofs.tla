-------------------------- MODULE RoundRobinProofs --------------------------
(***************************************************************************)
(* One turn of the weighted pool shares packets out by weight, for any     *)
(* number of interfaces, any weights and any width of the counter.         *)
(***************************************************************************)
EXTENDS RoundRobin, AggregatorProofs, FunctionTheorems

-----------------------------------------------------------------------------
(* Remainders.                                                             *)

LEMMA DivMod ==
    ASSUME NEW r \in Nat, NEW N \in Nat, N > 0
    PROVE  r = N * (r \div N) + (r % N) /\ r % N \in 0 .. N - 1 /\ r \div N \in Nat
<1>1. r % N \in 0 .. N - 1 /\ r \div N \in Int
  OBVIOUS
<1>2. r = N * (r \div N) + (r % N)
  OBVIOUS
<1>3. r \div N >= 0
  OBVIOUS
<1>4. QED
  BY <1>1, <1>2, <1>3

(* Multiples of N are N apart.                                             *)
LEMMA Multiples ==
    ASSUME NEW N \in Nat, N > 0, NEW p \in Nat, NEW q \in Nat, p < q
    PROVE  N * p \in Nat /\ N * q \in Nat /\ N * p + N <= N * q
<1>1. p + 1 <= q /\ N * (p + 1) = N * p + N
  OBVIOUS
<1>2. N * (p + 1) <= N * q
  BY <1>1
<1>3. QED
  BY <1>1, <1>2

LEMMA ModUnique ==
    ASSUME NEW N \in Nat, N > 0, NEW q \in Nat, NEW k \in 0 .. N - 1
    PROVE  (N * q + k) % N = k
<1> DEFINE r == N * q + k
           p == r \div N
           m == r % N
<1>1. r \in Nat /\ N * q \in Nat
  OBVIOUS
<1> HIDE DEF r
<1>2. r = N * p + m /\ m \in 0 .. N - 1 /\ p \in Nat
  BY <1>1, DivMod
<1> HIDE DEF p, m
<1>3. r = N * q + k
  BY DEF r
<1>4. ~(p < q)
  <2> SUFFICES ASSUME p < q PROVE FALSE
    OBVIOUS
  <2>1. N * p \in Nat /\ N * q \in Nat /\ N * p + N <= N * q
    BY <1>2, Multiples
  <2>2. QED
    BY <1>2, <1>3, <2>1
<1>5. ~(q < p)
  <2> SUFFICES ASSUME q < p PROVE FALSE
    OBVIOUS
  <2>1. N * p \in Nat /\ N * q \in Nat /\ N * q + N <= N * p
    BY <1>2, Multiples
  <2>2. QED
    BY <1>2, <1>3, <2>1
<1>6. p = q
  BY <1>2, <1>4, <1>5
<1>7. m = k
  BY <1>1, <1>2, <1>3, <1>6
<1>8. QED
  BY <1>7 DEF m, r

-----------------------------------------------------------------------------
(* A one-to-one map onto a set counts it.                                  *)
LEMMA SameSize ==
    ASSUME NEW S, NEW T, IsFiniteSet(S), NEW f \in [S -> T],
           \A x, y \in S : f[x] = f[y] => x = y,
           \A t \in T : \E x \in S : f[x] = t
    PROVE  IsFiniteSet(T) /\ Cardinality(T) = Cardinality(S)
<1>1. f \in Bijection(S, T)
  BY Fun_IsBij
<1>2. ExistsBijection(S, T)
  BY <1>1, Fun_ExistsBij
<1>3. QED
  BY <1>2, FS_Bijection

LEMMA IntervalSize ==
    ASSUME NEW a \in Int, NEW m \in Nat
    PROVE  IsFiniteSet(a .. a + m - 1) /\ Cardinality(a .. a + m - 1) = m
<1> DEFINE b == a + m - 1
<1>1. b \in Int
  OBVIOUS
<1>2. b - a + 1 = m /\ (a > b <=> m = 0)
  OBVIOUS
<1> HIDE DEF b
<1>3. IsFiniteSet(a .. b) /\ Cardinality(a .. b) = IF a > b THEN 0 ELSE b - a + 1
  BY <1>1, FS_Interval
<1>4. QED
  BY <1>2, <1>3 DEF b

\* The numbers among N successive ones whose remainder is one of the m from lo on.
Window(a, N, lo, m) == {r \in a .. a + N - 1 : r % N \in lo .. lo + m - 1}

(* N successive numbers have each remainder once.                          *)
LEMMA WindowCount ==
    ASSUME NEW N \in Nat, N > 0, NEW a \in Nat, NEW lo \in Nat, NEW m \in Nat, lo + m <= N
    PROVE  Cardinality(Window(a, N, lo, m)) = m
<1> DEFINE W == {r \in a .. a + N - 1 : r % N \in lo .. lo + m - 1}
           T == lo .. lo + m - 1
           f == [r \in W |-> r % N]
<1>1. IsFiniteSet(W)
  <2>0. a \in Int
    OBVIOUS
  <2>1. IsFiniteSet(a .. a + N - 1)
    BY <2>0, IntervalSize, Zenon
  <2>2. W \in SUBSET (a .. a + N - 1)
    OBVIOUS
  <2> HIDE DEF W
  <2>3. QED
    BY <2>1, <2>2, FS_Subset
<1>2. f \in [W -> T]
  OBVIOUS
<1>3. ASSUME NEW x \in W, NEW y \in W, x % N = y % N PROVE x = y
  <2> DEFINE p == x \div N
             q == y \div N
             k == x % N
  <2>1. x \in Nat /\ y \in Nat /\ x < y + N /\ y < x + N
    OBVIOUS
  <2>2. x = N * p + k /\ p \in Nat /\ k \in 0 .. N - 1
    BY <2>1, DivMod
  <2>3. y = N * q + k /\ q \in Nat
    BY <1>3, <2>1, DivMod
  <2> HIDE DEF p, q, k
  <2>4. ~(p < q)
    <3> SUFFICES ASSUME p < q PROVE FALSE
      OBVIOUS
    <3>1. N * p \in Nat /\ N * q \in Nat /\ N * p + N <= N * q
      BY <2>2, <2>3, Multiples
    <3>2. QED
      BY <2>1, <2>2, <2>3, <3>1
  <2>5. ~(q < p)
    <3> SUFFICES ASSUME q < p PROVE FALSE
      OBVIOUS
    <3>1. N * p \in Nat /\ N * q \in Nat /\ N * q + N <= N * p
      BY <2>2, <2>3, Multiples
    <3>2. QED
      BY <2>1, <2>2, <2>3, <3>1
  <2>6. p = q
    BY <2>2, <2>3, <2>4, <2>5
  <2>7. QED
    BY <2>2, <2>3, <2>6
<1>4. ASSUME NEW k \in T PROVE \E r \in W : r % N = k
  <2> DEFINE q == a \div N
             t == a % N
  <2>1. a = N * q + t /\ t \in 0 .. N - 1 /\ q \in Nat
    BY DivMod
  <2>2. k \in 0 .. N - 1
    OBVIOUS
  <2> HIDE DEF q, t
  <2>3. CASE t <= k
    <3> DEFINE r == N * q + k
    <3>1. r % N = k
      BY <2>1, <2>2, ModUnique
    <3>2. N * q \in Nat
      BY <2>1
    <3>3. r \in a .. a + N - 1
      BY <2>1, <2>2, <2>3, <3>2
    <3> HIDE DEF r
    <3>4. QED
      BY <3>1, <3>3
  <2>4. CASE k < t
    <3> DEFINE r == N * (q + 1) + k
    <3>1. r % N = k
      BY <2>1, <2>2, ModUnique
    <3>2. N * q \in Nat /\ N * (q + 1) = N * q + N
      BY <2>1
    <3>3. r \in a .. a + N - 1
      BY <2>1, <2>2, <2>4, <3>2
    <3> HIDE DEF r
    <3>4. QED
      BY <3>1, <3>3
  <2>5. QED
    BY <2>1, <2>2, <2>3, <2>4
<1>5. \A x, y \in W : f[x] = f[y] => x = y
  BY <1>3
<1>6. \A k \in T : \E r \in W : f[r] = k
  BY <1>4
<1>7. Cardinality(T) = m
  BY IntervalSize
<1> HIDE DEF W, T, f
<1>8. Cardinality(T) = Cardinality(W)
  BY <1>1, <1>2, <1>5, <1>6, SameSize
<1>9. QED
  BY <1>7, <1>8 DEF W, Window

-----------------------------------------------------------------------------
(* The copies of a candidate in the pool.                                  *)

(* More candidates have more units.                                        *)
LEMMA PoolTotalMonotone ==
    ASSUME NEW cands, NEW list, IsFiniteSet(list),
           \A c \in list : PoolWeight(cands, c) \in Nat,
           NEW T \in SUBSET list, NEW S \in SUBSET T
    PROVE  PoolTotal(cands, S) \in Nat /\ PoolTotal(cands, T) \in Nat
           /\ PoolTotal(cands, S) <= PoolTotal(cands, T)
<1>1. IsFiniteSet(T)
  BY FS_Subset
<1>2. IsFiniteSet(Units(cands, T))
  BY <1>1, UnitsFinite
<1>3. Units(cands, S) \in SUBSET Units(cands, T)
  BY DEF Units
<1>4. /\ IsFiniteSet(Units(cands, S))
      /\ Cardinality(Units(cands, S)) <= Cardinality(Units(cands, T))
  BY <1>2, <1>3, FS_Subset
<1>5. QED
  BY <1>2, <1>4, FS_CardinalityType DEF PoolTotal, Units

(* Where the copies of c end, those of a later candidate have not begun,   *)
(* and the pool has not ended.                                             *)
LEMMA PoolOrder ==
    ASSUME NEW cands, NEW list, IsFiniteSet(list), list \subseteq Nat,
           \A c \in list : PoolWeight(cands, c) \in Nat \ {0},
           NEW c \in list, NEW T \in SUBSET list, c \in T, \A d \in list : d < c => d \in T
    PROVE  /\ PoolTotal(cands, {d \in list : d < c}) \in Nat /\ PoolTotal(cands, T) \in Nat
           /\ PoolTotal(cands, {d \in list : d < c}) + PoolWeight(cands, c) <= PoolTotal(cands, T)
<1> DEFINE B == {d \in list : d < c}
<1>0. c \in Nat /\ ~(c < c)
  OBVIOUS
<1>1. B \in SUBSET list /\ c \notin B /\ B \cup {c} \in SUBSET T
  BY <1>0
<1> HIDE DEF B
<1>2. IsFiniteSet(B)
  BY <1>1, FS_Subset
<1>3. IsFiniteSet(Units(cands, B))
  BY <1>1, <1>2, UnitsFinite
<1>4. PoolTotal(cands, B) \in Nat /\ PoolTotal(cands, B \cup {c}) = PoolTotal(cands, B) + PoolWeight(cands, c)
  BY <1>1, <1>3, PoolTotalAdd
<1>5. PoolTotal(cands, T) \in Nat /\ PoolTotal(cands, B \cup {c}) <= PoolTotal(cands, T)
  BY <1>1, PoolTotalMonotone
<1>6. QED
  BY <1>4, <1>5 DEF B

(* In the pool, the positions of c are total * weight(c) consecutive ones. *)
LEMMA PoolCopies ==
    ASSUME NEW cands, CandsOK(cands), NEW list \in SUBSET DOMAIN cands, list # {}, NEW c \in list
    PROVE  LET total == PoolTotal(cands, list)
               start == total * PoolTotal(cands, {d \in list : d < c})
               pool  == WeightedPool(cands, list)
           IN  /\ total \in Nat /\ total > 0 /\ start \in Nat
               /\ total * PoolWeight(cands, c) \in Nat
               /\ start + total * PoolWeight(cands, c) <= total * total
               /\ Cardinality(DOMAIN pool) = total * total
               /\ \A k \in 0 .. total * total - 1 :
                     pool[k] = c <=> k \in start .. start + total * PoolWeight(cands, c) - 1
<1> DEFINE total == PoolTotal(cands, list)
           P(e) == PoolTotal(cands, {d \in list : d < e})
           w(e) == PoolWeight(cands, e)
           pool == WeightedPool(cands, list)
           In(e, k) == total * P(e) <= k /\ k < total * P(e) + total * w(e)
<1>1. /\ IsFiniteSet(list) /\ list \subseteq Nat
      /\ \A e \in list : PoolWeight(cands, e) \in Nat \ {0}
  BY FS_Subset, PoolWeightPositive DEF CandsOK
<1>2. /\ total \in Nat /\ total > 0
      /\ \A k \in 0 .. total * total - 1 : \E e \in list : In(e, k)
  <2>1. /\ total \in Nat \ {0}
        /\ \A k \in 0 .. total * total - 1 : \E e \in list : In(e, k)
    BY <1>1, PoolPosition
  <2> HIDE DEF total, In
  <2>2. QED
    BY <2>1
<1>3. ASSUME NEW e \in list
      PROVE  P(e) \in Nat /\ w(e) \in Nat /\ P(e) + w(e) <= total
  <2>1. list \in SUBSET list /\ \A d \in list : d < e => d \in list
    OBVIOUS
  <2>2. /\ PoolTotal(cands, {d \in list : d < e}) \in Nat
        /\ PoolTotal(cands, {d \in list : d < e}) + PoolWeight(cands, e) <= PoolTotal(cands, list)
    BY <1>1, <2>1, PoolOrder
  <2>3. QED
    BY <1>1, <2>2
<1>4. ASSUME NEW e \in list, NEW g \in list, e < g
      PROVE  P(e) + w(e) <= P(g)
  <2> DEFINE T == {d \in list : d < g}
  <2>1. T \in SUBSET list /\ e \in T /\ \A d \in list : d < e => d \in T
    BY <1>1, <1>4
  <2> HIDE DEF T
  <2>2. PoolTotal(cands, {d \in list : d < e}) + PoolWeight(cands, e) <= PoolTotal(cands, T)
    BY <1>1, <2>1, PoolOrder
  <2>3. QED
    BY <2>2 DEF T
<1>5. pool = [k \in 0 .. total * total - 1 |-> CHOOSE e \in list : In(e, k)]
  BY DEF WeightedPool
<1> HIDE DEF total, P, w, pool
<1>6. ASSUME NEW e \in list
      PROVE  /\ total * P(e) \in Nat /\ total * w(e) \in Nat
             /\ total * (P(e) + w(e)) = total * P(e) + total * w(e)
             /\ total * P(e) + total * w(e) <= total * total
  <2>1. P(e) \in Nat /\ w(e) \in Nat /\ P(e) + w(e) <= total
    BY <1>3
  <2>2. /\ total * P(e) \in Nat /\ total * w(e) \in Nat
        /\ total * (P(e) + w(e)) = total * P(e) + total * w(e)
    BY <1>2, <2>1, Distributes
  <2>3. total * (P(e) + w(e)) <= total * total
    BY <1>2, <2>1
  <2>4. QED
    BY <2>2, <2>3
<1>7. ASSUME NEW e \in list, NEW g \in list, e < g, NEW k \in Nat, In(e, k), In(g, k)
      PROVE  FALSE
  <2>1. P(e) + w(e) <= P(g) /\ P(e) + w(e) \in Nat /\ P(g) \in Nat
    BY <1>3, <1>4, <1>7
  <2>2. total * (P(e) + w(e)) <= total * P(g)
    BY <1>2, <2>1
  <2>3. k < total * P(e) + total * w(e) /\ total * P(g) <= k
    BY <1>7
  <2>4. QED
    BY <1>6, <2>2, <2>3
<1>8. ASSUME NEW e \in list, NEW g \in list, NEW k \in Nat, In(e, k), In(g, k)
      PROVE  e = g
  <2>1. e < g \/ g < e \/ e = g
    BY <1>1
  <2> HIDE DEF In
  <2>2. QED
    BY <1>7, <1>8, <2>1
<1>9. total * total \in Nat /\ total * total > 0
  BY <1>2
<1>10. ASSUME NEW k \in 0 .. total * total - 1
       PROVE  pool[k] = c <=> In(c, k)
  <2>1. PICK e \in list : In(e, k)
    BY <1>2
  <2>2. pool[k] = CHOOSE g \in list : In(g, k)
    BY <1>5
  <2> HIDE DEF In
  <2>3. pool[k] \in list /\ In(pool[k], k)
    BY <2>1, <2>2
  <2>4. k \in Nat
    BY <1>9
  <2>5. QED
    BY <1>8, <2>3, <2>4
<1>11. ASSUME NEW k \in 0 .. total * total - 1
       PROVE  In(c, k) <=> k \in total * P(c) .. total * P(c) + total * w(c) - 1
  BY <1>6, <1>9
<1>12. Cardinality(DOMAIN pool) = total * total
  <2> DEFINE n == total * total
  <2>1. DOMAIN pool = 0 .. n - 1
    BY <1>5
  <2>2. n \in Nat
    BY <1>9
  <2> HIDE DEF n
  <2>3. Cardinality(0 .. 0 + n - 1) = n /\ 0 + n - 1 = n - 1
    BY <2>2, IntervalSize
  <2>4. QED
    BY <2>1, <2>3 DEF n
<1>13. QED
  BY <1>2, <1>6, <1>10, <1>11, <1>12 DEF total, P, w, pool

(* The pool depends on the candidates through their weights only.          *)
LEMMA SamePool ==
    ASSUME NEW c1, NEW c2, NEW list, \A c \in list : PoolWeight(c1, c) = PoolWeight(c2, c)
    PROVE  /\ PoolTotal(c1, list) = PoolTotal(c2, list)
           /\ WeightedPool(c1, list) = WeightedPool(c2, list)
<1>1. ASSUME NEW S \in SUBSET list PROVE PoolTotal(c1, S) = PoolTotal(c2, S)
  <2>1. Units(c1, S) = Units(c2, S)
    BY DEF Units
  <2>2. QED
    BY <2>1 DEF PoolTotal, Units
<1> DEFINE t1 == PoolTotal(c1, list)
           t2 == PoolTotal(c2, list)
           I1(c, k) == /\ t1 * PoolTotal(c1, {d \in list : d < c}) <= k
                       /\ k < t1 * PoolTotal(c1, {d \in list : d < c}) + t1 * PoolWeight(c1, c)
           I2(c, k) == /\ t2 * PoolTotal(c2, {d \in list : d < c}) <= k
                       /\ k < t2 * PoolTotal(c2, {d \in list : d < c}) + t2 * PoolWeight(c2, c)
<1>2. t1 = t2
  BY <1>1
<1>3. \A c \in list : \A k : I1(c, k) <=> I2(c, k)
  <2> SUFFICES ASSUME NEW c \in list, NEW k PROVE I1(c, k) <=> I2(c, k)
    OBVIOUS
  <2>1. {d \in list : d < c} \in SUBSET list
    OBVIOUS
  <2>2. PoolTotal(c1, {d \in list : d < c}) = PoolTotal(c2, {d \in list : d < c})
    BY <1>1, <2>1
  <2>3. QED
    BY <1>2, <2>2
<1>4. /\ WeightedPool(c1, list) = [k \in 0 .. t1 * t1 - 1 |-> CHOOSE c \in list : I1(c, k)]
      /\ WeightedPool(c2, list) = [k \in 0 .. t2 * t2 - 1 |-> CHOOSE c \in list : I2(c, k)]
  BY DEF WeightedPool
<1> HIDE DEF t1, t2, I1, I2
<1>5. \A k : (CHOOSE c \in list : I1(c, k)) = (CHOOSE c \in list : I2(c, k))
  BY <1>3
<1>6. WeightedPool(c1, list) = WeightedPool(c2, list)
  BY <1>2, <1>4, <1>5
<1>7. QED
  BY <1>2, <1>6 DEF t1, t2

-----------------------------------------------------------------------------
\* The values of the counter, among N from a on, at which it is the turn of c.
TurnsOf(cands, list, c, a, N) == {r \in a .. a + N - 1 : RoundRobinPick(cands, list, r) = c}

(* The share of an interface in a full turn.                               *)
LEMMA TurnShare ==
    ASSUME NEW cands, CandsOK(cands), NEW list \in SUBSET DOMAIN cands, list # {},
           NEW c \in list, NEW a \in Nat,
           NEW N, N = PoolTotal(cands, list) * PoolTotal(cands, list)
    PROVE  Cardinality(TurnsOf(cands, list, c, a, N))
              = PoolTotal(cands, list) * PoolWeight(cands, c)
<1> DEFINE total == PoolTotal(cands, list)
           start == total * PoolTotal(cands, {d \in list : d < c})
           m     == total * PoolWeight(cands, c)
           pool  == WeightedPool(cands, list)
<1>1. /\ total \in Nat /\ total > 0 /\ start \in Nat /\ m \in Nat
      /\ start + m <= total * total /\ Cardinality(DOMAIN pool) = total * total
      /\ \A k \in 0 .. total * total - 1 : pool[k] = c <=> k \in start .. start + m - 1
  BY PoolCopies
<1>2. \A r : RoundRobinPick(cands, list, r) = pool[r % Cardinality(DOMAIN pool)]
  BY DEF RoundRobinPick
<1>3. N = total * total
  OBVIOUS
<1> HIDE DEF total, start, m, pool
<1>4. N \in Nat /\ N > 0
  BY <1>1, <1>3
<1>5. ASSUME NEW r \in a .. a + N - 1
      PROVE  RoundRobinPick(cands, list, r) = c <=> r % N \in start .. start + m - 1
  <2>1. r \in Nat
    BY <1>4
  <2>2. r % N \in 0 .. N - 1
    BY <1>4, <2>1
  <2>3. RoundRobinPick(cands, list, r) = pool[r % N]
    BY <1>1, <1>2, <1>3
  <2>4. QED
    BY <1>1, <1>3, <2>2, <2>3
<1>6. TurnsOf(cands, list, c, a, N) = Window(a, N, start, m)
  BY <1>5 DEF Window, TurnsOf
<1>7. start + m <= N
  BY <1>1, <1>3
<1>8. Cardinality(Window(a, N, start, m)) = m
  BY <1>1, <1>4, <1>7, WindowCount
<1>9. QED
  BY <1>6, <1>8 DEF m, total

-----------------------------------------------------------------------------
(* The engine with its history.                                            *)

\* The picks of n successive values of the counter, from a on.
Picks(a, n) == {<<r, Turn(r)>> : r \in a .. a + n - 1}

PicksOf(a, n, c) == {t \in Picks(a, n) : t[2] = c}

(* There is a pool as long as there is a usable interface.                 *)
LEMMA PoolNow ==
    ASSUME EngineOK(Ifaces)
    PROVE  /\ CandsOK(candidates) /\ Usable(candidates) \in SUBSET DOMAIN candidates
           /\ Total \in Nat /\ Total * Total \in Nat
           /\ Usable(candidates) # {} => Total * Total > 0
<1>1. CandsOK(candidates) /\ Usable(candidates) \in SUBSET DOMAIN candidates
  BY IfacesNames, CandidatesOK DEF Usable
<1>2. CASE Usable(candidates) = {}
  <2>1. PoolTotal(candidates, {}) = 0
    <3>1. UNION {{c} \X (1 .. PoolWeight(candidates, c)) : c \in {}} = {}
      OBVIOUS
    <3>2. QED
      BY <3>1, FS_EmptySet DEF PoolTotal
  <2>2. QED
    BY <1>1, <1>2, <2>1 DEF Total
<1>3. CASE Usable(candidates) # {}
  <2>1. PICK c : c \in Usable(candidates)
    BY <1>3
  <2>2. PICK list \in SUBSET DOMAIN candidates : list = Usable(candidates)
    BY <1>1
  <2>3. PoolTotal(candidates, list) \in Nat /\ PoolTotal(candidates, list) > 0
    BY <1>1, <1>3, <2>1, <2>2, PoolCopies
  <2>4. Total \in Nat /\ Total > 0
    BY <2>2, <2>3 DEF Total
  <2>5. QED
    BY <1>1, <2>4
<1>4. QED
  BY <1>2, <1>3

(* n successive picks are n picks.                                         *)
LEMMA PicksSize ==
    ASSUME NEW a \in Nat, NEW n \in Nat
    PROVE  IsFiniteSet(Picks(a, n)) /\ Cardinality(Picks(a, n)) = n
<1> DEFINE S == a .. a + n - 1
           T == Picks(a, n)
           f == [r \in S |-> <<r, Turn(r)>>]
<1>1. IsFiniteSet(S) /\ Cardinality(S) = n
  <2>1. a \in Int
    OBVIOUS
  <2>2. QED
    BY <2>1, IntervalSize, Zenon
<1>2. f \in [S -> T] /\ (\A x, y \in S : f[x] = f[y] => x = y) /\ (\A t \in T : \E x \in S : f[x] = t)
  BY DEF Picks
<1> HIDE DEF S, T, f
<1>3. IsFiniteSet(T) /\ Cardinality(T) = Cardinality(S)
  BY <1>1, <1>2, SameSize
<1>4. QED
  BY <1>1, <1>3 DEF T

(* Successive picks for c are the values of the counter whose turn it is.  *)
LEMMA PicksOfSize ==
    ASSUME NEW a \in Nat, NEW n \in Nat, NEW c
    PROVE  Cardinality(PicksOf(a, n, c)) = Cardinality(TurnsOf(candidates, Usable(candidates), c, a, n))
<1> DEFINE S == TurnsOf(candidates, Usable(candidates), c, a, n)
           T == PicksOf(a, n, c)
           f == [r \in S |-> <<r, Turn(r)>>]
<1>1. IsFiniteSet(S)
  <2>0. a \in Int
    OBVIOUS
  <2>1. IsFiniteSet(a .. a + n - 1)
    BY <2>0, IntervalSize, Zenon
  <2>2. S \in SUBSET (a .. a + n - 1)
    BY DEF TurnsOf
  <2> HIDE DEF S
  <2>3. QED
    BY <2>1, <2>2, FS_Subset
<1>2. f \in [S -> T] /\ (\A x, y \in S : f[x] = f[y] => x = y) /\ (\A t \in T : \E x \in S : f[x] = t)
  BY DEF PicksOf, Picks, Turn, TurnsOf
<1> HIDE DEF S, T, f
<1>3. Cardinality(T) = Cardinality(S)
  BY <1>1, <1>2, SameSize
<1>4. QED
  BY <1>3 DEF S, T

LEMMA InOrder ==
    TurnsInOrder <=> \E a \in 0 .. RRModulus, n \in 0 .. Total * Total :
                        /\ turns = Picks(a, n)
                        /\ n > 0 => a + n <= RRModulus /\ rr_counter = (a + n) % RRModulus
  BY DEF TurnsInOrder, Picks

(* A window of Total * Total successive picks has every interface's share. *)
LEMMA InOrderShares ==
    ASSUME EngineOK(Ifaces), TurnsInOrder
    PROVE  RoundRobinShare
<1> SUFFICES ASSUME TurnOver, NEW c \in Usable(candidates)
             PROVE  Cardinality({t \in turns : t[2] = c}) = Total * PoolWeight(candidates, c)
  BY DEF RoundRobinShare
<1>1. /\ CandsOK(candidates) /\ Usable(candidates) \in SUBSET DOMAIN candidates
      /\ Total * Total \in Nat
  BY PoolNow
<1>2. PICK a \in 0 .. RRModulus, n \in 0 .. Total * Total : turns = Picks(a, n)
  BY InOrder
<1>3. a \in Nat /\ n \in Nat
  BY <1>1, <1>2
<1>4. n = Total * Total
  BY <1>2, <1>3, PicksSize DEF TurnOver
<1>5. Cardinality(PicksOf(a, n, c)) = Cardinality(TurnsOf(candidates, Usable(candidates), c, a, n))
  BY <1>3, PicksOfSize
<1>6. PICK list \in SUBSET DOMAIN candidates : list = Usable(candidates)
  BY <1>1
<1>7. n = PoolTotal(candidates, list) * PoolTotal(candidates, list)
  BY <1>4, <1>6 DEF Total
<1>8. Cardinality(TurnsOf(candidates, list, c, a, n))
         = PoolTotal(candidates, list) * PoolWeight(candidates, c)
  <2>1. CandsOK(candidates) /\ list # {} /\ c \in list /\ a \in Nat
    BY <1>1, <1>3, <1>6
  <2>2. QED
    BY <1>7, <2>1, TurnShare, Zenon
<1>9. QED
  BY <1>2, <1>5, <1>6, <1>8 DEF PicksOf, Total

-----------------------------------------------------------------------------
(* route() with RoundRobin takes the turn of the counter and advances it;  *)
(* otherwise it leaves the counter alone.                                  *)
LEMMA PickTurn ==
    ASSUME EngineOK(Ifaces), NEW k \in FlowKeys, Route(k)
    PROVE  IF RoundRobinRuns /\ Pick(k) # NoIface
           THEN /\ Pick(k) = Turn(rr_counter) /\ Usable(candidates) # {}
                /\ rr_counter' = (rr_counter + 1) % RRModulus
           ELSE rr_counter' = rr_counter
<1>1. CandsOK(candidates)
  BY PoolNow
<1>2. CASE ~RoundRobinRuns
  BY <1>2 DEF Route, NextRR, RoundRobinRuns
<1>3. CASE RoundRobinRuns /\ Usable(candidates) = {}
  <2>1. Pick(k) = NoIface
    BY <1>3 DEF Pick, SelectInterface, RoundRobinRuns
  <2>2. rr_counter' = rr_counter
    BY <1>3 DEF Route, NextRR
  <2>3. QED
    BY <2>1, <2>2
<1>4. CASE RoundRobinRuns /\ Usable(candidates) # {}
  <2>1. Pick(k) = Turn(rr_counter)
    BY <1>4 DEF Pick, SelectInterface, RoundRobinRuns, Turn
  <2>2. rr_counter' = (rr_counter + 1) % RRModulus
    BY <1>4 DEF Route, NextRR, RoundRobinRuns
  <2>3. Pick(k) # NoIface
    <3>1. config.strategy \in Strategies /\ config.algorithm \in Algorithms /\ rr_counter \in Nat
      BY PolicyAssumption DEF EngineOK
    <3>2. SelectInterface(config, candidates, k, rr_counter) \in Usable(candidates)
      BY <1>1, <1>4, <3>1, SelectUsable
    <3>3. NoIface \notin Usable(candidates)
      BY <1>1 DEF CandsOK, Usable, NoIface
    <3>4. QED
      BY <1>4, <3>2, <3>3 DEF Pick, RoundRobinRuns
  <2>4. QED
    BY <1>4, <2>1, <2>2, <2>3
<1>5. QED
  BY <1>2, <1>3, <1>4

(* A packet extends the window by the next turn, or begins a new one.      *)
LEMMA RouteInOrder ==
    ASSUME EngineOK(Ifaces), TurnsInOrder, NEW k \in FlowKeys, RRRoute(k)
    PROVE  TurnsInOrder'
<1>1. Route(k) /\ candidates' = candidates
  BY DEF RRRoute, Route
<1>2. rr_counter \in 0 .. RRModulus - 1 /\ RRModulus \in Nat \ {0}
  BY PolicyAssumption DEF EngineOK
<1>3. Total * Total \in Nat /\ (Usable(candidates) # {} => Total * Total > 0)
  BY PoolNow
<1>4. ASSUME NEW a \in 0 .. RRModulus, NEW n \in 0 .. Total * Total, turns' = Picks(a, n),
             n > 0 => a + n <= RRModulus /\ rr_counter' = (a + n) % RRModulus
      PROVE  TurnsInOrder'
  <2>1. Total' = Total /\ \A r : Turn(r)' = Turn(r)
    BY <1>1 DEF Total, Turn
  <2>2. QED
    BY <1>4, <2>1 DEF TurnsInOrder, Picks
<1>5. PICK a \in 0 .. RRModulus, n \in 0 .. Total * Total :
         /\ turns = Picks(a, n)
         /\ n > 0 => a + n <= RRModulus /\ rr_counter = (a + n) % RRModulus
  BY InOrder
<1>6. a \in Nat /\ n \in Nat
  BY <1>2, <1>3
<1>7. CASE ~(RoundRobinRuns /\ Pick(k) # NoIface)
  <2>1. turns' = turns /\ rr_counter' = rr_counter
    BY <1>1, <1>7, PickTurn DEF RRRoute
  <2>2. QED
    BY <1>4, <1>5, <2>1
<1>8. CASE RoundRobinRuns /\ Pick(k) # NoIface
  <2>1. /\ Pick(k) = Turn(rr_counter) /\ Usable(candidates) # {}
        /\ rr_counter' = (rr_counter + 1) % RRModulus
    BY <1>1, <1>8, PickTurn
  <2>2. turns' = (IF TurnOver \/ rr_counter = 0 THEN {} ELSE turns) \cup {<<rr_counter, Turn(rr_counter)>>}
    BY <1>8, <2>1 DEF RRRoute
  <2>3. CASE turns' = {<<rr_counter, Turn(rr_counter)>>}
    <3>1. rr_counter .. rr_counter + 1 - 1 = {rr_counter}
      BY <1>2
    <3>2. turns' = Picks(rr_counter, 1)
      BY <2>3, <3>1 DEF Picks
    <3>3. rr_counter \in 0 .. RRModulus /\ 1 \in 0 .. Total * Total /\ rr_counter + 1 <= RRModulus
      BY <1>2, <1>3, <2>1
    <3>4. QED
      BY <1>4, <2>1, <3>2, <3>3
  <2>4. CASE n = 0
    <3>1. a .. a + n - 1 = {}
      BY <1>6, <2>4
    <3>2. turns = {}
      BY <1>5, <3>1 DEF Picks
    <3>3. QED
      BY <2>2, <2>3, <3>2
  <2>5. CASE n > 0 /\ ~TurnOver /\ rr_counter # 0
    <3>1. a + n # RRModulus
      BY <1>2, <1>5, <2>5
    <3>2. a + n < RRModulus
      BY <1>2, <1>5, <1>6, <2>5, <3>1
    <3>3. rr_counter = a + n
      BY <1>2, <1>5, <1>6, <2>5, <3>2
    <3>4. n # Total * Total
      BY <1>5, <1>6, <2>5, PicksSize DEF TurnOver
    <3>5. n + 1 \in 0 .. Total * Total /\ a + (n + 1) <= RRModulus
      BY <1>2, <1>3, <1>6, <3>2, <3>4
    <3>6. a .. a + (n + 1) - 1 = (a .. a + n - 1) \cup {a + n}
      BY <1>6
    <3>7. turns' = Picks(a, n + 1)
      BY <1>5, <2>2, <2>5, <3>3, <3>6 DEF Picks
    <3>8. rr_counter' = (a + (n + 1)) % RRModulus
      BY <1>6, <2>1, <3>3
    <3>9. QED
      BY <1>4, <3>5, <3>7, <3>8
  <2>6. QED
    BY <1>6, <2>2, <2>3, <2>4, <2>5
<1>9. QED
  BY <1>7, <1>8

(* As long as the pool has the same shares, the turns stay what they were. *)
LEMMA KeptInOrder ==
    ASSUME TurnsInOrder, UNCHANGED <<turns, rr_counter>>, Shares' = Shares
    PROVE  TurnsInOrder'
<1>1. PICK c1, c2, list : c1 = candidates' /\ c2 = candidates /\ list = Usable(candidates)
  OBVIOUS
<1>2. Usable(candidates)' = list
  <2>1. DOMAIN Shares = Usable(candidates) /\ DOMAIN Shares' = Usable(candidates)'
    BY DEF Shares
  <2>2. QED
    BY <1>1, <2>1
<1>3. \A c \in list : PoolWeight(c1, c) = PoolWeight(c2, c)
  <2>1. \A c \in list : Shares[c] = PoolWeight(c2, c)
    BY <1>1 DEF Shares
  <2>2. \A c \in list : Shares'[c] = PoolWeight(c1, c)
    BY <1>1, <1>2 DEF Shares
  <2>3. QED
    BY <2>1, <2>2
<1>4. PoolTotal(c1, list) = PoolTotal(c2, list) /\ WeightedPool(c1, list) = WeightedPool(c2, list)
  BY <1>3, SamePool
<1>5. Total' = Total
  BY <1>1, <1>2, <1>4 DEF Total
<1>6. \A r : Turn(r)' = Turn(r)
  BY <1>1, <1>2, <1>4 DEF Turn, RoundRobinPick
<1>7. QED
  BY <1>5, <1>6 DEF TurnsInOrder

(* Every step keeps the picks in order.                                    *)
LEMMA StepInOrder ==
    ASSUME EngineOK(Ifaces), (Total * Total \in Nat)', TurnsInOrder, [RRNext]_rrVars
    PROVE  TurnsInOrder'
<1>1. CASE \E k \in FlowKeys : RRRoute(k)
  BY <1>1, RouteInOrder
<1>2. CASE (Tick \/ Render \/ Click) /\ turns' = IF Shares' = Shares THEN turns ELSE {}
  <2>1. rr_counter' = rr_counter
    BY <1>2 DEF Tick, Render, Click, ToggleEnabled, SetStrategy, SetAlgorithm, IfaceAction,
                EnableClick, PriorityClick, WeightClick, EditPolicy
  <2>2. CASE Shares' = Shares
    BY <1>2, <2>1, <2>2, KeptInOrder
  <2>3. CASE turns' = {}
    <3>1. 0 \in 0 .. RRModulus /\ 0 \in 0 .. (Total * Total)'
      BY PolicyAssumption
    <3>2. 0 .. 0 + 0 - 1 = {}
      OBVIOUS
    <3>3. QED
      BY <2>3, <3>1, <3>2 DEF TurnsInOrder
  <2>4. QED
    BY <1>2, <2>2, <2>3
<1>3. CASE UNCHANGED <<turns, rr_counter, candidates>>
  <2>1. Shares' = Shares
    BY <1>3 DEF Shares
  <2>2. QED
    BY <1>3, <2>1, KeptInOrder
<1>4. QED
  BY <1>1, <1>2, <1>3 DEF RRNext, HostChange, aggVars, rrVars, vars

(* weighted_pool under RoundRobin: one turn of the pool, started anywhere, *)
(* gives each usable interface exactly total * weight of the total * total *)
(* picks, for any number of interfaces, any weights and any width of the   *)
(* counter, however ticks, clicks, pauses and failures fell between the    *)
(* packets.                                                                *)
THEOREM RoundRobinShares == RRSpec => []RoundRobinShare
<1> DEFINE PoolOK == Total * Total \in Nat
<1>1. RRSpec => [](EngineInv(Ifaces) /\ PoolOK)
  <2>1. RRInit => Init
    BY DEF RRInit
  <2>2. [RRNext]_rrVars => [Next]_vars
    BY DEF RRNext, RRRoute, Next, rrVars, vars
  <2>3. EngineInv(Ifaces) => PoolOK
    BY PoolNow DEF EngineInv
  <2>4. QED
    BY <2>1, <2>2, <2>3, EngineInvHolds, PTL DEF RRSpec
<1>2. RRInit /\ PoolOK => TurnsInOrder
  <2>1. 0 .. 0 + 0 - 1 = {} /\ 0 \in 0 .. RRModulus
    BY PolicyAssumption
  <2>2. QED
    BY <2>1 DEF RRInit, TurnsInOrder
<1>3. EngineInv(Ifaces) /\ PoolOK' /\ TurnsInOrder /\ [RRNext]_rrVars => TurnsInOrder'
  BY StepInOrder DEF EngineInv
<1>4. EngineInv(Ifaces) /\ TurnsInOrder => RoundRobinShare
  BY InOrderShares DEF EngineInv
<1>5. QED
  BY <1>1, <1>2, <1>3, <1>4, PTL DEF RRSpec
=============================================================================
