---------------------------- MODULE PacketProofs ----------------------------
(***************************************************************************)
(* Packets are taken for what they are and right after a rewrite, for any  *)
(* addresses, ports, header lengths, extension headers and contents.       *)
(***************************************************************************)
EXTENDS PacketRewrite, FiniteSetTheorems, TLAPS

-----------------------------------------------------------------------------
(* Induction and recursion up to a bound.  The claim is a set, which the   *)
(* provers can instantiate.                                                *)

LEMMA LeastNumber ==
    ASSUME NEW T, T \subseteq Nat, T # {}
    PROVE  \E x \in T : \A y \in T : x <= y
<1>1. PICK x \in T : \A y \in T : ~(<<y, x>> \in OpToRel(<, Nat))
  BY NatLessThanWellFounded, WFMin
<1>2. \A y \in T : ~(y < x)
  BY <1>1 DEF OpToRel
<1>3. QED
  BY <1>2

LEMMA UpTo ==
    ASSUME NEW N \in Nat, NEW G, 0 \in G, \A n \in 0 .. N - 1 : n \in G => n + 1 \in G
    PROVE  \A n \in 0 .. N : n \in G
<1> SUFFICES ASSUME \E n \in 0 .. N : n \notin G PROVE FALSE
  OBVIOUS
<1> DEFINE T == {n \in 0 .. N : n \notin G}
<1>1. T \subseteq Nat /\ T # {}
  OBVIOUS
<1>2. PICK x \in T : \A y \in T : x <= y
  BY <1>1, LeastNumber
<1>3. x \in 1 .. N /\ x - 1 \in 0 .. N - 1 /\ (x - 1) + 1 = x
  OBVIOUS
<1>4. x - 1 \notin T
  BY <1>2, <1>3
<1>5. x - 1 \in G
  BY <1>3, <1>4
<1>6. QED
  BY <1>3, <1>5

\* f goes from x0 through S, by step[k] from f[k] to f[k + 1].
Iterates(N, S, x0, step, f) ==
    f \in [0 .. N -> S] /\ f[0] = x0 /\ \A k \in 0 .. N - 1 : f[k + 1] = step[k][f[k]]

(* A recursive function on 0 .. N exists.                                  *)
LEMMA Recursion ==
    ASSUME NEW N \in Nat, NEW S, NEW x0 \in S, NEW step \in [0 .. N - 1 -> [S -> S]]
    PROVE  \E f : Iterates(N, S, x0, step, f)
<1> DEFINE Rec(n, f) == f[0] = x0 /\ \A k \in 0 .. n - 1 : f[k + 1] = step[k][f[k]]
           G == {n \in 0 .. N : \E f \in [0 .. n -> S] : Rec(n, f)}
<1>1. 0 \in G
  <2> DEFINE f == [k \in 0 .. 0 |-> x0]
  <2>1. f \in [0 .. 0 -> S] /\ f[0] = x0 /\ 0 .. 0 - 1 = {}
    OBVIOUS
  <2> HIDE DEF f
  <2>2. QED
    BY <2>1
<1>2. ASSUME NEW n \in 0 .. N - 1, n \in G PROVE n + 1 \in G
  <2>1. PICK f \in [0 .. n -> S] : Rec(n, f)
    BY <1>2
  <2> DEFINE g == [k \in 0 .. n + 1 |-> IF k = n + 1 THEN step[n][f[n]] ELSE f[k]]
  <2>2. f[n] \in S /\ step[n][f[n]] \in S
    OBVIOUS
  <2>3. g \in [0 .. n + 1 -> S]
    BY <2>2
  <2>4. g[0] = x0
    BY <2>1
  <2>5. ASSUME NEW k \in 0 .. (n + 1) - 1 PROVE g[k + 1] = step[k][g[k]]
    <3>1. CASE k = n
      <4>1. n \in 0 .. n + 1 /\ n # n + 1 /\ n + 1 \in 0 .. n + 1
        OBVIOUS
      <4>2. g[n] = f[n] /\ g[n + 1] = step[n][f[n]]
        BY <4>1
      <4> HIDE DEF g
      <4>3. QED
        BY <3>1, <4>2
    <3>2. CASE k \in 0 .. n - 1
      BY <2>1, <3>2
    <3>3. QED
      BY <3>1, <3>2
  <2> HIDE DEF g
  <2>6. QED
    BY <2>3, <2>4, <2>5
<1> HIDE DEF G
<1>3. \A n \in 0 .. N : n \in G
  <2>1. \A n \in 0 .. N - 1 : n \in G => n + 1 \in G
    BY <1>2
  <2>2. QED
    BY <1>1, <2>1, UpTo, Zenon
<1>4. N \in G
  <2>1. N \in 0 .. N
    OBVIOUS
  <2>2. QED
    BY <1>3, <2>1
<1>5. QED
  BY <1>4 DEF G, Iterates

LEMMA LengthIs ==
    ASSUME NEW n \in Nat, NEW b, DOMAIN b = 0 .. n - 1
    PROVE  Length(b) = n
<1>1. 0 \in Int /\ n - 1 \in Int
  OBVIOUS
<1>2. Cardinality(0 .. n - 1) = IF 0 > n - 1 THEN 0 ELSE (n - 1) - 0 + 1
  BY <1>1, FS_Interval, Zenon
<1>3. QED
  BY <1>2 DEF Length

LEMMA PartialSumsStep ==
    ASSUME NEW n \in Nat, NEW f \in [0 .. n - 1 -> Nat]
    PROVE  /\ PartialSums(f) \in [0 .. n -> Nat] /\ PartialSums(f)[0] = 0
           /\ \A k \in 0 .. n - 1 : PartialSums(f)[k + 1] = PartialSums(f)[k] + f[k]
<1> DEFINE Def(g) == [k \in 0 .. n |-> IF k = 0 THEN 0 ELSE g[k - 1] + f[k - 1]]
           step == [k \in 0 .. n - 1 |-> [s \in Nat |-> s + f[k]]]
<1>1. Length(f) = n
  BY LengthIs
<1>2. step \in [0 .. n - 1 -> [Nat -> Nat]]
  OBVIOUS
<1>3. \A k \in 0 .. n - 1, s \in Nat : step[k][s] = s + f[k]
  OBVIOUS
<1> HIDE DEF step
<1>4. PICK g : g \in [0 .. n -> Nat] /\ g[0] = 0 /\ \A k \in 0 .. n - 1 : g[k + 1] = step[k][g[k]]
  <2>1. 0 \in Nat
    OBVIOUS
  <2>2. \E g : Iterates(n, Nat, 0, step, g)
    BY <1>2, <2>1, Recursion
  <2>3. QED
    BY <2>2 DEF Iterates
<1>5. ASSUME NEW k \in 0 .. n PROVE g[k] = IF k = 0 THEN 0 ELSE g[k - 1] + f[k - 1]
  <2>1. CASE k = 0
    BY <1>4, <2>1
  <2>2. CASE k # 0
    <3>1. k - 1 \in 0 .. n - 1 /\ (k - 1) + 1 = k /\ g[k - 1] \in Nat
      BY <1>4, <2>2
    <3>2. g[(k - 1) + 1] = step[k - 1][g[k - 1]]
      BY <1>4, <3>1
    <3>3. QED
      BY <1>3, <2>2, <3>1, <3>2
  <2>3. QED
    BY <2>1, <2>2
<1>6. g = Def(g)
  BY <1>4, <1>5
<1>7. PartialSums(f) = CHOOSE h : h = Def(h)
  BY <1>1 DEF PartialSums
<1>8. PartialSums(f) = Def(PartialSums(f))
  BY <1>6, <1>7
<1> DEFINE p == PartialSums(f)
<1> HIDE DEF p
<1>9. \A k \in 0 .. n : p[k] = IF k = 0 THEN 0 ELSE p[k - 1] + f[k - 1]
  BY <1>8 DEF p
<1>10. DOMAIN p = 0 .. n /\ p = [k \in 0 .. n |-> p[k]]
  BY <1>8 DEF p
<1> DEFINE G == {k \in 0 .. n : p[k] \in Nat}
<1>11. \A k \in 0 .. n : k \in G
  <2>1. 0 \in G
    BY <1>9
  <2>2. ASSUME NEW k \in 0 .. n - 1, k \in G PROVE k + 1 \in G
    <3>1. k + 1 \in 0 .. n /\ k + 1 # 0 /\ (k + 1) - 1 = k
      OBVIOUS
    <3>2. p[k + 1] = p[k] + f[k]
      BY <1>9, <3>1
    <3>3. QED
      BY <2>2, <3>1, <3>2
  <2> HIDE DEF G
  <2>3. QED
    BY <2>1, <2>2, UpTo
<1>12. p \in [0 .. n -> Nat]
  BY <1>10, <1>11
<1>13. \A k \in 0 .. n - 1 : p[k + 1] = p[k] + f[k]
  <2> SUFFICES ASSUME NEW k \in 0 .. n - 1 PROVE p[k + 1] = p[k] + f[k]
    OBVIOUS
  <2>1. k + 1 \in 0 .. n /\ k + 1 # 0 /\ (k + 1) - 1 = k
    OBVIOUS
  <2>2. QED
    BY <1>9, <2>1
<1>14. p[0] = 0
  BY <1>9
<1>15. QED
  BY <1>12, <1>13, <1>14 DEF p

-----------------------------------------------------------------------------
(* Sums and checksums.  The provers write a literal interval out, number   *)
(* by number: bytes and words are kept under a name.                       *)

Byte == 0 .. 255
Short == {n \in Nat : n < 65536}

Octets(n) == [0 .. n - 1 -> Byte]

LEMMA InInterval ==
    ASSUME NEW m \in Nat
    PROVE  \A x : x \in 0 .. m <=> x \in Nat /\ x <= m
OBVIOUS

LEMMA ByteIs ==
    \A x : x \in Byte <=> x \in Nat /\ x <= 255
<1>1. 255 \in Nat
  OBVIOUS
<1>2. QED
  BY <1>1, InInterval, Zenon DEF Byte

LEMMA ShortIs ==
    \A x : x \in Short <=> x \in Nat /\ x <= 65535
BY DEF Short

LEMMA OctetAt ==
    ASSUME NEW n \in Nat, NEW b \in Octets(n)
    PROVE  /\ DOMAIN b = 0 .. n - 1 /\ Length(b) = n
           /\ \A i \in 0 .. n - 1 : b[i] \in Byte /\ b[i] \in Nat
<1>1. DOMAIN b = 0 .. n - 1 /\ \A i \in 0 .. n - 1 : b[i] \in Byte
  BY DEF Octets
<1>2. Length(b) = n
  BY <1>1, LengthIs
<1>3. QED
  BY <1>1, <1>2, ByteIs

LEMMA DivMod ==
    ASSUME NEW n \in Nat
    PROVE  /\ n \div 256 \in Nat /\ n % 256 \in Nat /\ n % 256 < 256
           /\ n = 256 * (n \div 256) + (n % 256)
<1>1. n \div 256 \in Nat
  OBVIOUS
<1>2. n % 256 \in Nat /\ n % 256 < 256
  OBVIOUS
<1>3. n = 256 * (n \div 256) + (n % 256)
  OBVIOUS
<1>4. QED
  BY <1>1, <1>2, <1>3

(* Each side of an equation of sums gains the same two numbers.            *)
LEMMA SumsExchanged ==
    ASSUME NEW t \in Nat, NEW u \in Nat, NEW s \in Nat, NEW v \in Nat,
           NEW x \in Nat, NEW y \in Nat, t + u = s + v
    PROVE  (t + y) + (u + x) = (s + x) + (v + y)
  OBVIOUS

\* f and g differ at two neighbouring places only.
SameBut(n, at, f, g) == \A i \in 0 .. n - 1 : i = at \/ i = at + 1 \/ f[i] = g[i]

(* Sums of numbers that differ at two neighbouring places only.            *)
LEMMA SumsDiffer ==
    ASSUME NEW n \in Nat, NEW f \in [0 .. n - 1 -> Nat], NEW g \in [0 .. n - 1 -> Nat],
           NEW at \in Nat, at + 2 <= n, SameBut(n, at, f, g)
    PROVE  PartialSums(g)[n] + (f[at] + f[at + 1]) = PartialSums(f)[n] + (g[at] + g[at + 1])
<1>c. \A i \in 0 .. n - 1 : i = at \/ i = at + 1 \/ f[i] = g[i]
  BY DEF SameBut
<1>1. PICK s : s = PartialSums(f)
  OBVIOUS
<1>2. PICK t : t = PartialSums(g)
  OBVIOUS
<1>3. s \in [0 .. n -> Nat] /\ s[0] = 0 /\ \A k \in 0 .. n - 1 : s[k + 1] = s[k] + f[k]
  BY <1>1, PartialSumsStep
<1>a. t \in [0 .. n -> Nat] /\ t[0] = 0 /\ \A k \in 0 .. n - 1 : t[k + 1] = t[k] + g[k]
  BY <1>2, PartialSumsStep
<1>b. \A k \in 0 .. n : s[k] \in Nat /\ t[k] \in Nat
  BY <1>3, <1>a
<1> DEFINE D(k) == /\ k <= at => t[k] = s[k]
                   /\ k = at + 1 => t[k] + f[at] = s[k] + g[at]
                   /\ k >= at + 2 => t[k] + (f[at] + f[at + 1]) = s[k] + (g[at] + g[at + 1])
           G == {k \in 0 .. n : D(k)}
<1>4. 0 \in G
  BY <1>3, <1>a
<1>5. ASSUME NEW k \in 0 .. n - 1, D(k) PROVE D(k + 1)
  <2>1. s[k + 1] = s[k] + f[k] /\ t[k + 1] = t[k] + g[k]
    BY <1>3, <1>a
  <2>2. s[k] \in Nat /\ t[k] \in Nat
    BY <1>b
  <2>3. f[k] \in Nat /\ g[k] \in Nat
    OBVIOUS
  <2>4. f[at] \in Nat /\ g[at] \in Nat /\ f[at + 1] \in Nat /\ g[at + 1] \in Nat
    OBVIOUS
  <2>5. CASE k < at
    <3>1. f[k] = g[k] /\ t[k] = s[k] /\ k + 1 <= at
      BY <1>5, <1>c, <2>5
    <3>2. QED
      BY <2>1, <3>1
  <2>6. CASE k = at
    BY <1>5, <2>1, <2>2, <2>3, <2>6
  <2>7. CASE k = at + 1
    <3>1. t[k] + f[at] = s[k] + g[at]
      BY <1>5, <2>7
    <3>2. k + 1 >= at + 2 /\ ~(k + 1 <= at) /\ k + 1 # at + 1
      BY <2>7
    <3>3. t[k + 1] + (f[at] + f[k]) = s[k + 1] + (g[at] + g[k])
      <4>1. PICK a \in Nat, b \in Nat : a = t[k] /\ b = s[k]
        BY <2>2
      <4>2. PICK x \in Nat, y \in Nat : x = f[k] /\ y = g[k]
        BY <2>3
      <4>3. PICK u \in Nat, v \in Nat : u = f[at] /\ v = g[at]
        BY <2>4
      <4>4. a + u = b + v
        BY <3>1, <4>1, <4>3, Zenon
      <4>5. (a + y) + (u + x) = (b + x) + (v + y)
        BY <4>4, SumsExchanged
      <4>6. QED
        BY <2>1, <4>1, <4>2, <4>3, <4>5, Zenon
    <3>4. QED
      BY <2>7, <3>2, <3>3
  <2>8. CASE k >= at + 2
    <3>a. f[k] = g[k]
      BY <1>c, <2>8
    <3>b. t[k] + (f[at] + f[at + 1]) = s[k] + (g[at] + g[at + 1])
      BY <1>5, <2>8
    <3>1. f[k] = g[k] /\ t[k] + (f[at] + f[at + 1]) = s[k] + (g[at] + g[at + 1])
      BY <3>a, <3>b
    <3>2. PICK F \in Nat : F = f[at] + f[at + 1]
      BY <2>4
    <3>3. PICK H \in Nat : H = g[at] + g[at + 1]
      BY <2>4
    <3>4. t[k + 1] + F = s[k + 1] + H
      <4>1. t[k] + F = s[k] + H
        BY <3>1, <3>2, <3>3
      <4>2. PICK x \in Nat : x = f[k] /\ x = g[k]
        BY <2>3, <3>1
      <4>3. t[k + 1] = t[k] + x /\ s[k + 1] = s[k] + x
        BY <2>1, <4>2
      <4>4. PICK y \in Nat, z \in Nat : y = t[k] /\ z = s[k]
        BY <2>2
      <4>5. t[k + 1] = y + x /\ s[k + 1] = z + x /\ y + F = z + H
        BY <4>1, <4>3, <4>4
      <4>6. (y + x) + F = (z + x) + H
        BY <4>5
      <4>7. QED
        BY <4>5, <4>6
    <3>5. QED
      BY <2>8, <3>2, <3>3, <3>4
  <2>9. QED
    BY <2>5, <2>6, <2>7, <2>8
<1> HIDE DEF D
<1>6. \A k \in 0 .. n - 1 : k \in G => k + 1 \in G
  <2> SUFFICES ASSUME NEW k \in 0 .. n - 1, k \in G PROVE k + 1 \in G
    OBVIOUS
  <2>1. k + 1 \in 0 .. n /\ D(k)
    OBVIOUS
  <2>2. QED
    BY <1>5, <2>1
<1>7. n \in 0 .. n /\ \A k \in G : D(k)
  OBVIOUS
<1> HIDE DEF G
<1>8. n \in G
  BY <1>4, <1>6, <1>7, UpTo
<1>9. D(n)
  BY <1>7, <1>8
<1>10. QED
  BY <1>1, <1>2, <1>9 DEF D

\* What the words of b add up from.
Parts(b) == [i \in DOMAIN b |-> IF i % 2 = 0 THEN 256 * b[i] ELSE b[i]]

\* f holds the bytes of b as parts of words.
Weighted(n, b, f) ==
    /\ f \in [0 .. n - 1 -> Nat]
    /\ \A i \in 0 .. n - 1 : f[i] = IF i % 2 = 0 THEN 256 * b[i] ELSE b[i]

LEMMA WordSumIs ==
    ASSUME NEW n \in Nat, NEW b \in Octets(n)
    PROVE  /\ WordSum(b) = PartialSums(Parts(b))[n] /\ WordSum(b) \in Nat
           /\ Weighted(n, b, Parts(b))
<1>1. DOMAIN b = 0 .. n - 1 /\ Length(b) = n /\ \A i \in 0 .. n - 1 : b[i] \in Nat
  BY OctetAt
<1>2. Parts(b) \in [0 .. n - 1 -> Nat]
  <2>1. \A x \in Nat : 256 * x \in Nat
    OBVIOUS
  <2>2. QED
    BY <1>1, <2>1 DEF Parts
<1>3. \A i \in 0 .. n - 1 : Parts(b)[i] = IF i % 2 = 0 THEN 256 * b[i] ELSE b[i]
  BY <1>1 DEF Parts
<1>4. WordSum(b) = PartialSums(Parts(b))[n]
  BY <1>1 DEF WordSum, Parts
<1>5. PICK f : f = Parts(b)
  OBVIOUS
<1>6. PartialSums(f) \in [0 .. n -> Nat]
  BY <1>2, <1>5, PartialSumsStep
<1>7. n \in 0 .. n
  OBVIOUS
<1>8. WordSum(b) \in Nat
  BY <1>4, <1>5, <1>6, <1>7
<1>9. QED
  BY <1>2, <1>3, <1>4, <1>8 DEF Weighted

(* Writing a word over zeros, at an even offset, adds the word to the sum. *)
LEMMA WordSumWritten ==
    ASSUME NEW n \in Nat, NEW b \in Octets(n), NEW c \in Octets(n),
           NEW at \in Nat, at % 2 = 0, at + 2 <= n, b[at] = 0, b[at + 1] = 0,
           \A i \in 0 .. n - 1 : i = at \/ i = at + 1 \/ b[i] = c[i]
    PROVE  WordSum(c) = WordSum(b) + Word(c, at)
<1>1. PICK f : f = Parts(b)
  OBVIOUS
<1>2. PICK g : g = Parts(c)
  OBVIOUS
<1>3. /\ WordSum(b) = PartialSums(f)[n] /\ WordSum(b) \in Nat /\ f \in [0 .. n - 1 -> Nat]
      /\ \A i \in 0 .. n - 1 : f[i] = IF i % 2 = 0 THEN 256 * b[i] ELSE b[i]
  <2>1. WordSum(b) = PartialSums(f)[n] /\ WordSum(b) \in Nat /\ Weighted(n, b, f)
    BY <1>1, WordSumIs, Zenon
  <2>2. QED
    BY <2>1 DEF Weighted
<1>4. /\ WordSum(c) = PartialSums(g)[n] /\ WordSum(c) \in Nat /\ g \in [0 .. n - 1 -> Nat]
      /\ \A i \in 0 .. n - 1 : g[i] = IF i % 2 = 0 THEN 256 * c[i] ELSE c[i]
  <2>1. WordSum(c) = PartialSums(g)[n] /\ WordSum(c) \in Nat /\ Weighted(n, c, g)
    BY <1>2, WordSumIs, Zenon
  <2>2. QED
    BY <2>1 DEF Weighted
<1>5. at \in 0 .. n - 1 /\ at + 1 \in 0 .. n - 1
  OBVIOUS
<1>6. (at + 1) % 2 = 1
  OBVIOUS
<1>7. f[at] = 0 /\ f[at + 1] = 0
  BY <1>3, <1>5, <1>6
<1>8. g[at] = 256 * c[at] /\ g[at + 1] = c[at + 1]
  BY <1>4, <1>5, <1>6
<1>9. ASSUME NEW i \in 0 .. n - 1, i # at, i # at + 1 PROVE f[i] = g[i]
  <2>1. f[i] = IF i % 2 = 0 THEN 256 * b[i] ELSE b[i]
    BY <1>3
  <2>2. g[i] = IF i % 2 = 0 THEN 256 * c[i] ELSE c[i]
    BY <1>4
  <2>3. b[i] = c[i]
    BY <1>9
  <2>4. QED
    BY <2>1, <2>2, <2>3
<1>a. f \in [0 .. n - 1 -> Nat] /\ g \in [0 .. n - 1 -> Nat]
  BY <1>3, <1>4
<1>b. SameBut(n, at, f, g)
  BY <1>9 DEF SameBut
<1>10. PartialSums(g)[n] + (f[at] + f[at + 1]) = PartialSums(f)[n] + (g[at] + g[at + 1])
  BY <1>a, <1>b, SumsDiffer, ZenonT(60)
<1>11. Word(c, at) = g[at] + g[at + 1] /\ g[at] \in Nat /\ g[at + 1] \in Nat
  BY <1>5, <1>8, <1>a DEF Word
<1>12. WordSum(c) + (0 + 0) = WordSum(b) + (g[at] + g[at + 1])
  BY <1>3, <1>4, <1>7, <1>10
<1>13. WordSum(b) \in Nat /\ WordSum(c) \in Nat
  BY <1>3, <1>4
<1>14. QED
  BY <1>11, <1>12, <1>13

(* Zeros behind the bytes of b add nothing.                                *)
LEMMA WordSumPadded ==
    ASSUME NEW n \in Nat, NEW k \in Nat, n <= k, NEW b \in Octets(n), NEW c \in Octets(k),
           \A i \in 0 .. k - 1 : c[i] = IF i < n THEN b[i] ELSE 0
    PROVE  WordSum(c) = WordSum(b)
<1>1. PICK f : f = Parts(b)
  OBVIOUS
<1>2. PICK g : g = Parts(c)
  OBVIOUS
<1>3. PICK s : s = PartialSums(f)
  OBVIOUS
<1>4. PICK t : t = PartialSums(g)
  OBVIOUS
<1>5. WordSum(b) = s[n] /\ Weighted(n, b, f)
  BY <1>1, <1>3, WordSumIs, Zenon
<1>6. WordSum(c) = t[k] /\ Weighted(k, c, g)
  BY <1>2, <1>4, WordSumIs, Zenon
<1>7. f \in [0 .. n - 1 -> Nat] /\ g \in [0 .. k - 1 -> Nat]
  BY <1>5, <1>6 DEF Weighted
<1>8. s \in [0 .. n -> Nat] /\ s[0] = 0 /\ \A j \in 0 .. n - 1 : s[j + 1] = s[j] + f[j]
  BY <1>3, <1>7, PartialSumsStep
<1>9. t \in [0 .. k -> Nat] /\ t[0] = 0 /\ \A j \in 0 .. k - 1 : t[j + 1] = t[j] + g[j]
  BY <1>4, <1>7, PartialSumsStep
<1>10. ASSUME NEW i \in 0 .. k - 1 PROVE g[i] = IF i < n THEN f[i] ELSE 0
  <2>1. g[i] = IF i % 2 = 0 THEN 256 * c[i] ELSE c[i]
    BY <1>6 DEF Weighted
  <2>2. CASE i < n
    <3>1. f[i] = IF i % 2 = 0 THEN 256 * b[i] ELSE b[i]
      BY <1>5, <2>2 DEF Weighted
    <3>2. c[i] = b[i]
      BY <2>2
    <3>3. QED
      BY <2>1, <2>2, <3>1, <3>2
  <2>3. CASE ~(i < n)
    <3>1. c[i] = 0
      BY <2>3
    <3>2. QED
      BY <2>1, <2>3, <3>1
  <2>4. QED
    BY <2>2, <2>3
<1> DEFINE E(j) == t[j] = IF j <= n THEN s[j] ELSE s[n]
           G == {j \in 0 .. k : E(j)}
<1>11. 0 \in G
  BY <1>8, <1>9
<1>12. ASSUME NEW j \in 0 .. k - 1, j \in G PROVE j + 1 \in G
  <2>1. j + 1 \in 0 .. k /\ t[j + 1] = t[j] + g[j] /\ t[j] \in Nat /\ s[n] \in Nat
    BY <1>8, <1>9
  <2>2. CASE j < n
    <3>1. t[j] = s[j] /\ g[j] = f[j] /\ s[j + 1] = s[j] + f[j]
      BY <1>8, <1>10, <1>12, <2>2
    <3>2. t[j + 1] = s[j + 1] /\ j + 1 <= n
      BY <2>1, <2>2, <3>1
    <3>3. QED
      BY <2>1, <3>2
  <2>3. CASE ~(j < n)
    <3>1. t[j] = s[n] /\ g[j] = 0
      BY <1>10, <1>12, <2>3
    <3>2. t[j + 1] = s[n] /\ ~(j + 1 <= n)
      BY <2>1, <2>3, <3>1
    <3>3. QED
      BY <2>1, <3>2
  <2>4. QED
    BY <2>2, <2>3
<1> HIDE DEF G
<1>13. \A j \in 0 .. k : j \in G
  BY <1>11, <1>12, UpTo
<1>14. k \in G
  BY <1>13
<1>15. t[k] = s[n]
  BY <1>14 DEF G
<1>16. QED
  BY <1>5, <1>6, <1>15

(* A sum and its complement fold to all ones.                              *)
LEMMA FoldComplement ==
    ASSUME NEW s \in Nat
    PROVE  /\ 65535 - FoldCarries(s) \in Short
           /\ FoldCarries(s + (65535 - FoldCarries(s))) = 65535
<1>1. CASE s = 0
  <2>1. FoldCarries(s) = 0
    BY <1>1 DEF FoldCarries
  <2>2. FoldCarries(65535) = 65535
    BY DEF FoldCarries
  <2>3. s + (65535 - FoldCarries(s)) = 65535 /\ 65535 - FoldCarries(s) = 65535
    BY <1>1, <2>1
  <2>4. QED
    BY <2>2, <2>3, ShortIs
<1>2. CASE s # 0
  <2>1. PICK r \in Nat : s = r + 1
    <3>1. s - 1 \in Nat /\ s = (s - 1) + 1
      BY <1>2
    <3>2. QED
      BY <3>1
  <2>2. PICK m \in Nat : m = r % 65535 /\ m < 65535
    OBVIOUS
  <2>3. PICK q \in Nat : q = r \div 65535
    OBVIOUS
  <2>4. r = 65535 * q + m
    BY <2>2, <2>3
  <2>5. FoldCarries(s) = 1 + m
    <3>1. s - 1 = r
      BY <2>1
    <3>2. QED
      BY <1>2, <2>2, <3>1 DEF FoldCarries
  <2>6. s + (65535 - FoldCarries(s)) = (65535 * q + 65534) + 1
    BY <2>1, <2>4, <2>5
  <2>7. (65535 * q + 65534) % 65535 = 65534
    OBVIOUS
  <2>8. PICK z \in Nat : z = 65535 * q + 65534
    OBVIOUS
  <2>9. FoldCarries(z + 1) = 65535
    <3>1. z + 1 # 0 /\ (z + 1) - 1 = z
      OBVIOUS
    <3>2. QED
      BY <2>7, <2>8, <3>1 DEF FoldCarries
  <2>10. 65535 - FoldCarries(s) \in Nat /\ 65535 - FoldCarries(s) <= 65535
    BY <2>2, <2>5
  <2>11. QED
    BY <2>6, <2>8, <2>9, <2>10, ShortIs
<1>3. QED
  BY <1>1, <1>2

(* What sums fold to all ones.                                             *)
LEMMA FoldIs ==
    ASSUME NEW s \in Nat
    PROVE  FoldCarries(s) = 65535 <=> s # 0 /\ s % 65535 = 0
<1>1. CASE s = 0
  BY <1>1 DEF FoldCarries
<1>2. CASE s # 0
  <2>1. PICK r \in Nat : s = r + 1
    <3>1. s - 1 \in Nat /\ s = (s - 1) + 1
      BY <1>2
    <3>2. QED
      BY <3>1
  <2>2. PICK m \in Nat : m = r % 65535 /\ m < 65535
    OBVIOUS
  <2>3. PICK q \in Nat : q = r \div 65535
    OBVIOUS
  <2>4. s = 65535 * q + (m + 1)
    BY <2>1, <2>2, <2>3
  <2>5. FoldCarries(s) = 1 + m
    <3>1. s - 1 = r
      BY <2>1
    <3>2. QED
      BY <1>2, <2>2, <3>1 DEF FoldCarries
  <2>6. s % 65535 = 0 <=> m = 65534
    BY <2>2, <2>4
  <2>7. QED
    BY <1>2, <2>2, <2>5, <2>6
<1>3. QED
  BY <1>1, <1>2

(* A sum that is right is wrong once something is taken off.               *)
LEMMA FoldLess ==
    ASSUME NEW s \in Nat, s # 0, NEW t \in Nat, s <= t, t < s + 65535, FoldCarries(t) = 65535
    PROVE  FoldCarries(s) = 65535 <=> s = t
<1>1. t % 65535 = 0
  BY FoldIs
<1>2. PICK q \in Nat : q = t \div 65535
  OBVIOUS
<1>3. t = 65535 * q
  BY <1>1, <1>2
<1>4. PICK m \in Nat : m = s % 65535 /\ m < 65535
  OBVIOUS
<1>5. PICK v \in Nat : v = s \div 65535
  OBVIOUS
<1>6. s = 65535 * v + m
  BY <1>4, <1>5
<1>7. m = 0 <=> s = t
  BY <1>3, <1>4, <1>6
<1>8. QED
  BY <1>4, <1>7, FoldIs

Congruent(a, c) == a % 65535 = c % 65535

Division(a, m, v) == m = a % 65535 /\ m < 65535 /\ a = 65535 * v + m

LEMMA Divided ==
    ASSUME NEW a \in Nat
    PROVE  \E m \in Nat, v \in Nat : Division(a, m, v)
<1>1. PICK m \in Nat : m = a % 65535 /\ m < 65535
  OBVIOUS
<1>2. PICK v \in Nat : v = a \div 65535
  OBVIOUS
<1>3. a = 65535 * v + m
  BY <1>1, <1>2
<1>4. QED
  BY <1>1, <1>3 DEF Division

\* The sum of what a receiver accepts.
AddsUp(n) == FoldCarries(n) = 65535

(* A number in a sum that is right may be exchanged for one with the same  *)
(* remainder only.                                                         *)
LEMMA FoldExchange ==
    ASSUME NEW a \in Nat, NEW c \in Nat, NEW t \in Nat, AddsUp(t),
           NEW u \in Nat, u # 0, t + c = u + a
    PROVE  AddsUp(u) <=> Congruent(a, c)
<1>1. t % 65535 = 0
  BY FoldIs DEF AddsUp
<1>2. PICK z \in Nat, q \in Nat : Division(t, z, q)
  BY Divided, Zenon
<1>3. t = 65535 * q
  BY <1>1, <1>2 DEF Division
<1>4. PICK m \in Nat, v \in Nat : Division(a, m, v)
  BY Divided, Zenon
<1>5. PICK l \in Nat, w \in Nat : Division(c, l, w)
  BY Divided, Zenon
<1>6. PICK e \in Nat, y \in Nat : Division(u, e, y)
  BY Divided, Zenon
<1>7. e = 0 <=> m = l
  BY <1>3, <1>4, <1>5, <1>6 DEF Division
<1>8. AddsUp(u) <=> e = 0
  BY <1>6, FoldIs DEF AddsUp, Division
<1>9. Congruent(a, c) <=> m = l
  BY <1>4, <1>5 DEF Congruent, Division
<1>10. QED
  BY <1>7, <1>8, <1>9

LEMMA ToBytesWord ==
    ASSUME NEW n \in Short
    PROVE  /\ ToBytes(n) \in Octets(2) /\ DOMAIN ToBytes(n) = 0 .. 1
           /\ ToBytes(n)[0] \in Byte /\ ToBytes(n)[1] \in Byte
           /\ Word(ToBytes(n), 0) = n
<1>1. n \in Nat /\ n <= 65535
  BY ShortIs
<1>2. PICK q \in Nat : q = n \div 256
  BY <1>1, DivMod
<1>3. PICK m \in Nat : m = n % 256 /\ m < 256
  BY <1>1, DivMod
<1>4. n = 256 * q + m
  BY <1>1, <1>2, <1>3, DivMod
<1>5. q \in Byte /\ m \in Byte
  BY <1>1, <1>3, <1>4, ByteIs
<1>6. ToBytes(n) = [i \in 0 .. 1 |-> IF i = 0 THEN q ELSE m]
  BY <1>2, <1>3 DEF ToBytes
<1>7. 0 .. 2 - 1 = 0 .. 1 /\ 0 \in 0 .. 1 /\ 1 \in 0 .. 1
  OBVIOUS
<1>8. QED
  BY <1>4, <1>5, <1>6, <1>7 DEF Octets, Word

-----------------------------------------------------------------------------
(* Bytes written into a packet and taken out of one.                       *)

\* d is b, of length n, with the k bytes of v written at offset `at'.
Patched(n, b, at, k, v, d) ==
    /\ d \in Octets(n)
    /\ \A i \in 0 .. n - 1 : /\ i < at \/ at + k <= i => d[i] = b[i]
                             /\ at <= i /\ i < at + k => d[i] = v[i - at]

\* d is the k bytes of b from offset `from' on.
Sliced(b, from, k, d) ==
    d \in Octets(k) /\ \A i \in 0 .. k - 1 : d[i] = b[from + i]

LEMMA PatchIs ==
    ASSUME NEW n \in Nat, NEW b \in Octets(n), NEW at \in Nat, NEW k \in Nat, NEW v \in Octets(k)
    PROVE  Patched(n, b, at, k, v, Patch(b, at, v))
<1>1. DOMAIN b = 0 .. n - 1 /\ DOMAIN v = 0 .. k - 1
  BY OctetAt
<1>2. \A i \in 0 .. n - 1 : Patch(b, at, v)[i] = IF i - at \in 0 .. k - 1 THEN v[i - at] ELSE b[i]
  BY <1>1 DEF Patch
<1>3. \A i \in 0 .. n - 1 : i - at \in 0 .. k - 1 <=> at <= i /\ i < at + k
  OBVIOUS
<1>4. \A i \in 0 .. n - 1 : Patch(b, at, v)[i] \in Byte
  BY <1>2, OctetAt
<1>5. Patch(b, at, v) \in Octets(n)
  BY <1>1, <1>4 DEF Patch, Octets
<1>6. QED
  BY <1>2, <1>3, <1>5 DEF Patched

LEMMA SliceIs ==
    ASSUME NEW n \in Nat, NEW b \in Octets(n), NEW from \in Nat, NEW to \in Nat,
           from <= to, to <= n
    PROVE  Sliced(b, from, to - from, Slice(b, from, to))
<1>1. \A i \in 0 .. (to - from) - 1 : from + i \in 0 .. n - 1
  OBVIOUS
<1>2. \A i \in 0 .. (to - from) - 1 : b[from + i] \in Byte
  BY <1>1, OctetAt
<1>3. QED
  BY <1>2 DEF Slice, Octets, Sliced

(* Zeros are two bytes.                                                    *)
LEMMA ZeroBytes == ToBytes(0) \in Octets(2) /\ ToBytes(0)[0] = 0 /\ ToBytes(0)[1] = 0
<1>1. 0 \in Short
  BY ShortIs
<1>2. ToBytes(0) \in Octets(2)
  BY <1>1, ToBytesWord
<1>3. ToBytes(0)[0] = 0 /\ ToBytes(0)[1] = 0
  BY DEF ToBytes
<1>4. QED
  BY <1>2, <1>3

(* Two bytes written at an even offset over whatever was there.            *)
LEMMA WordPut ==
    ASSUME NEW n \in Nat, NEW b \in Octets(n), NEW c \in Octets(n), NEW w \in Short,
           NEW at \in Nat, at % 2 = 0, at + 2 <= n,
           c[at] = ToBytes(w)[0], c[at + 1] = ToBytes(w)[1],
           \A i \in 0 .. n - 1 : i = at \/ i = at + 1 \/ b[i] = c[i]
    PROVE  WordSum(c) = WordSum(Patch(b, at, ToBytes(0))) + w
<1>1. PICK z : z = ToBytes(0)
  OBVIOUS
<1>2. z \in Octets(2) /\ z[0] = 0 /\ z[1] = 0
  BY <1>1, ZeroBytes
<1>3. PICK d : d = Patch(b, at, z)
  OBVIOUS
<1>4. Patched(n, b, at, 2, z, d)
  <2>1. 2 \in Nat
    OBVIOUS
  <2>2. QED
    BY <1>2, <1>3, <2>1, PatchIs
<1>5. /\ d \in Octets(n)
      /\ \A i \in 0 .. n - 1 : /\ i < at \/ at + 2 <= i => d[i] = b[i]
                               /\ at <= i /\ i < at + 2 => d[i] = z[i - at]
  BY <1>4 DEF Patched
<1>6. at \in 0 .. n - 1 /\ at + 1 \in 0 .. n - 1 /\ at - at = 0 /\ (at + 1) - at = 1
  OBVIOUS
<1>7. d[at] = 0 /\ d[at + 1] = 0
  BY <1>2, <1>5, <1>6
<1>8. \A i \in 0 .. n - 1 : i = at \/ i = at + 1 \/ d[i] = c[i]
  BY <1>5
<1>9. d \in Octets(n)
  BY <1>5
<1>10. WordSum(c) = WordSum(d) + Word(c, at)
  BY <1>7, <1>8, <1>9, WordSumWritten
<1>11. Word(ToBytes(w), 0) = w
  BY ToBytesWord
<1>12. Word(c, at) = Word(ToBytes(w), 0)
  BY DEF Word
<1>13. QED
  BY <1>1, <1>3, <1>10, <1>11, <1>12

-----------------------------------------------------------------------------
(* The rewrite.                                                            *)

\* An IPv4 packet of n bytes that ParseV4 accepts.
Accepted4(n, p) == n \in Nat /\ p \in Octets(n) /\ n >= 20 /\ Ihl(p) >= 20 /\ n >= Ihl(p)

LEMMA IhlIs ==
    ASSUME NEW n \in Nat, NEW p \in Octets(n), n > 0
    PROVE  Ihl(p) \in Nat
<1>1. p[0] \in Nat
  BY OctetAt
<1>2. PICK x \in Nat : x = p[0]
  BY <1>1
<1>3. x % 16 \in Nat
  OBVIOUS
<1>4. PICK y \in Nat : y = x % 16
  BY <1>3
<1>5. QED
  BY <1>2, <1>4 DEF Ihl

LEMMA PseudoIs ==
    ASSUME NEW src \in Octets(4), NEW dst \in Octets(4), NEW proto \in Nat, NEW len \in Nat
    PROVE  Pseudo(src, dst, proto, len) \in Nat
<1>1. 4 \in Nat
  OBVIOUS
<1>2. WordSum(src) \in Nat /\ WordSum(dst) \in Nat
  BY <1>1, WordSumIs
<1>3. len % 65536 \in Nat
  OBVIOUS
<1>4. QED
  BY <1>2, <1>3 DEF Pseudo

LEMMA PacketPseudoIs ==
    ASSUME NEW n \in Nat, NEW p \in Octets(n), n >= 20, NEW len \in Nat
    PROVE  Pseudo(Slice(p, 12, 16), Slice(p, 16, 20), p[9], len) \in Nat
<1>1. Sliced(p, 12, 16 - 12, Slice(p, 12, 16)) /\ Sliced(p, 16, 20 - 16, Slice(p, 16, 20))
  BY SliceIs
<1>2. 16 - 12 = 4 /\ 20 - 16 = 4
  OBVIOUS
<1>3. Slice(p, 12, 16) \in Octets(4) /\ Slice(p, 16, 20) \in Octets(4)
  BY <1>1, <1>2 DEF Sliced
<1>4. p[9] \in Nat
  BY OctetAt
<1>5. QED
  BY <1>3, <1>4, PseudoIs

(* FixChecksums writes the checksum fields only, and the header adds up.   *)
LEMMA HeaderFixed ==
    ASSUME NEW n \in Nat, NEW p \in Octets(n), Accepted4(n, p)
    PROVE  /\ FixChecksums(p) \in Octets(n)
           /\ \A i \in 0 .. n - 1 :
                 \/ i = 10 \/ i = 11 \/ FixChecksums(p)[i] = p[i]
                 \/ p[9] \in {TCP, UDP} /\ n >= Ihl(p) + 18 /\ (i = Ihl(p) + 16 \/ i = Ihl(p) + 17)
           /\ IpValid(FixChecksums(p))
<1>1. PICK H \in Nat : H = Ihl(p)
  BY IhlIs DEF Accepted4
<1>2. H >= 20 /\ n >= H /\ n >= 20 /\ Length(p) = n
  BY <1>1, OctetAt DEF Accepted4
<1>3. PICK h : h = Slice(p, 0, H)
  OBVIOUS
<1>4. h \in Octets(H) /\ \A i \in 0 .. H - 1 : h[i] = p[i]
  <2>1. Sliced(p, 0, H - 0, h)
    BY <1>2, <1>3, SliceIs
  <2>2. H - 0 = H /\ \A i \in 0 .. H - 1 : 0 + i = i
    OBVIOUS
  <2>3. QED
    BY <2>1, <2>2 DEF Sliced
<1>5. PICK z : z = Patch(h, 10, ToBytes(0))
  OBVIOUS
<1>6. z \in Octets(H) /\ WordSum(z) \in Nat
  <2>1. Patched(H, h, 10, 2, ToBytes(0), z)
    BY <1>4, <1>5, ZeroBytes, PatchIs
  <2>2. z \in Octets(H)
    BY <2>1 DEF Patched
  <2>3. QED
    BY <2>2, WordSumIs
<1>7. PICK w : w = Checksum(z)
  OBVIOUS
<1>8. w \in Short /\ w = 65535 - FoldCarries(WordSum(z)) /\ FoldCarries(WordSum(z) + w) = 65535
  BY <1>6, <1>7, FoldComplement DEF Checksum
<1>9. PICK ip : ip = Patch(p, 10, ToBytes(w))
  OBVIOUS
<1>10. ToBytes(w) \in Octets(2)
  BY <1>8, ToBytesWord
<1>11. Patched(n, p, 10, 2, ToBytes(w), ip)
  BY <1>9, <1>10, PatchIs
<1>12. /\ ip \in Octets(n) /\ \A i \in 0 .. n - 1 : i = 10 \/ i = 11 \/ ip[i] = p[i]
       /\ ip[10] = ToBytes(w)[0] /\ ip[11] = ToBytes(w)[1]
  <2>1. 10 \in 0 .. n - 1 /\ 11 \in 0 .. n - 1 /\ 10 - 10 = 0 /\ 11 - 10 = 1
    BY <1>2
  <2>2. QED
    BY <1>11, <2>1 DEF Patched
<1>13. PICK sum : sum = TransportChecksum(Slice(p, 12, 16), Slice(p, 16, 20), p[9], Slice(p, H, n))
  OBVIOUS
<1>14. sum \in Short
  <2>1. PICK l : l = Slice(p, H, n)
    OBVIOUS
  <2>2. PICK k \in Nat : k = n - H
    BY <1>2
  <2>3. l \in Octets(k) /\ Length(l) = k
    <3>1. Sliced(p, H, n - H, l)
      BY <1>2, <2>1, SliceIs
    <3>2. l \in Octets(k)
      BY <2>2, <3>1 DEF Sliced
    <3>3. QED
      BY <3>2, OctetAt
  <2>4. PICK y : y = Patch(l, 16, ToBytes(0))
    OBVIOUS
  <2>5. Patched(k, l, 16, 2, ToBytes(0), y)
    BY <2>3, <2>4, ZeroBytes, PatchIs
  <2>6. y \in Octets(k)
    BY <2>5 DEF Patched
  <2>7. PICK s \in Nat : s = Pseudo(Slice(p, 12, 16), Slice(p, 16, 20), p[9], k) + WordSum(y)
    <3>1. Pseudo(Slice(p, 12, 16), Slice(p, 16, 20), p[9], k) \in Nat
      BY <1>2, PacketPseudoIs
    <3>2. WordSum(y) \in Nat
      BY <2>6, WordSumIs
    <3>3. QED
      BY <3>1, <3>2
  <2>8. sum = 65535 - FoldCarries(s)
    BY <1>13, <2>1, <2>3, <2>4, <2>7 DEF TransportChecksum
  <2>9. QED
    BY <2>8, FoldComplement
<1>15. PICK r : r = FixChecksums(p)
  OBVIOUS
<1>16. r = IF p[9] \in {TCP, UDP} /\ n >= H + 18 THEN Patch(ip, H + 16, ToBytes(sum)) ELSE ip
  BY <1>1, <1>2, <1>3, <1>5, <1>7, <1>9, <1>13, <1>15 DEF FixChecksums
<1>17. Patched(n, ip, H + 16, 2, ToBytes(sum), Patch(ip, H + 16, ToBytes(sum)))
  <2>1. ToBytes(sum) \in Octets(2)
    BY <1>14, ToBytesWord
  <2>2. H + 16 \in Nat /\ 2 \in Nat
    OBVIOUS
  <2>3. QED
    BY <1>12, <2>1, <2>2, PatchIs
<1>18. /\ r \in Octets(n)
       /\ \A i \in 0 .. n - 1 :
             \/ r[i] = ip[i]
             \/ p[9] \in {TCP, UDP} /\ n >= H + 18 /\ (i = H + 16 \/ i = H + 17)
  <2>1. CASE p[9] \in {TCP, UDP} /\ n >= H + 18
    <3>1. r = Patch(ip, H + 16, ToBytes(sum))
      BY <1>16, <2>1
    <3>2. r \in Octets(n) /\ \A i \in 0 .. n - 1 : i < H + 16 \/ (H + 16) + 2 <= i => r[i] = ip[i]
      BY <1>17, <3>1 DEF Patched
    <3>3. \A i \in 0 .. n - 1 : i < H + 16 \/ (H + 16) + 2 <= i \/ i = H + 16 \/ i = H + 17
      OBVIOUS
    <3>4. QED
      BY <2>1, <3>2, <3>3
  <2>2. CASE ~(p[9] \in {TCP, UDP} /\ n >= H + 18)
    BY <1>12, <1>16, <2>2
  <2>3. QED
    BY <2>1, <2>2
<1>19. \A i \in 0 .. H - 1 : r[i] = ip[i] /\ i \in 0 .. n - 1
  BY <1>2, <1>18
<1>20. IpValid(r)
  <2>1. r[0] = p[0]
    BY <1>2, <1>12, <1>19
  <2>2. Ihl(r) = H
    BY <1>1, <2>1 DEF Ihl
  <2>3. PICK c : c = Slice(r, 0, H)
    OBVIOUS
  <2>4. c \in Octets(H) /\ \A i \in 0 .. H - 1 : c[i] = r[i]
    <3>1. Sliced(r, 0, H - 0, c)
      BY <1>2, <1>18, <2>3, SliceIs
    <3>2. H - 0 = H /\ \A i \in 0 .. H - 1 : 0 + i = i
      OBVIOUS
    <3>3. QED
      BY <3>1, <3>2 DEF Sliced
  <2>5. c[10] = ToBytes(w)[0] /\ c[10 + 1] = ToBytes(w)[1]
    BY <1>2, <1>12, <1>19, <2>4
  <2>6. \A i \in 0 .. H - 1 : i = 10 \/ i = 10 + 1 \/ h[i] = c[i]
    BY <1>4, <1>12, <1>19, <2>4
  <2>7. 10 \in Nat /\ 10 % 2 = 0 /\ 10 + 2 <= H
    BY <1>2
  <2>8. WordSum(c) = WordSum(Patch(h, 10, ToBytes(0))) + w
    BY <1>4, <1>8, <2>4, <2>5, <2>6, <2>7, WordPut
  <2>9. QED
    BY <1>5, <1>8, <2>2, <2>3, <2>8 DEF IpValid
<1>21. QED
  BY <1>1, <1>12, <1>15, <1>18, <1>20

(* A packet whose checksum field at offset 16 of the segment was filled in *)
(* adds up with its pseudo-header.                                         *)
LEMMA SegmentFixed ==
    ASSUME NEW n \in Nat, NEW p \in Octets(n), Accepted4(n, p),
           p[9] \in {TCP, UDP}, n >= Ihl(p) + 18, NEW r, r = FixChecksums(p)
    PROVE  FoldCarries(Pseudo(Slice(r, 12, 16), Slice(r, 16, 20), r[9], n - Ihl(p))
                         + WordSum(Slice(r, Ihl(p), n))) = 65535
<1>1. PICK H \in Nat : H = Ihl(p)
  BY IhlIs DEF Accepted4
<1>2. H >= 20 /\ n >= H + 18 /\ n >= 20 /\ Length(p) = n
  BY <1>1, OctetAt DEF Accepted4
<1>3. /\ r \in Octets(n)
      /\ \A i \in 0 .. n - 1 : i = 10 \/ i = 11 \/ r[i] = p[i] \/ i = H + 16 \/ i = H + 17
  BY <1>1, HeaderFixed
<1>4. r[9] = p[9] /\ Slice(r, 12, 16) = Slice(p, 12, 16) /\ Slice(r, 16, 20) = Slice(p, 16, 20)
  <2>1. \A i \in 0 .. 3 : r[12 + i] = p[12 + i] /\ r[16 + i] = p[16 + i]
    <3>1. \A j \in 12 .. 19 : r[j] = p[j]
      BY <1>2, <1>3
    <3>2. QED
      BY <3>1
  <2>2. 16 - 12 - 1 = 3 /\ 20 - 16 - 1 = 3
    OBVIOUS
  <2>3. r[9] = p[9]
    BY <1>2, <1>3
  <2>4. QED
    BY <2>1, <2>2, <2>3 DEF Slice
<1>5. PICK k \in Nat : k = n - H
  BY <1>2
<1>6. PICK l : l = Slice(p, H, n)
  OBVIOUS
<1>7. l \in Octets(k) /\ Length(l) = k /\ \A i \in 0 .. k - 1 : l[i] = p[H + i]
  <2>1. Sliced(p, H, n - H, l)
    BY <1>2, <1>6, SliceIs
  <2>2. l \in Octets(k) /\ \A i \in 0 .. k - 1 : l[i] = p[H + i]
    BY <1>5, <2>1 DEF Sliced
  <2>3. QED
    BY <2>2, OctetAt
<1>8. PICK c : c = Slice(r, H, n)
  OBVIOUS
<1>9. c \in Octets(k) /\ \A i \in 0 .. k - 1 : c[i] = r[H + i]
  <2>1. Sliced(r, H, n - H, c)
    BY <1>2, <1>3, <1>8, SliceIs
  <2>2. QED
    BY <1>5, <2>1 DEF Sliced
<1>10. PICK y : y = Patch(l, 16, ToBytes(0))
  OBVIOUS
<1>11. y \in Octets(k)
  <2>1. Patched(k, l, 16, 2, ToBytes(0), y)
    BY <1>7, <1>10, ZeroBytes, PatchIs
  <2>2. QED
    BY <2>1 DEF Patched
<1>12. PICK P \in Nat : P = Pseudo(Slice(p, 12, 16), Slice(p, 16, 20), p[9], k)
  BY <1>2, PacketPseudoIs
<1>a. PICK s \in Nat : s = P + WordSum(y)
  BY <1>11, WordSumIs
<1>13. PICK w : w = TransportChecksum(Slice(p, 12, 16), Slice(p, 16, 20), p[9], l)
  OBVIOUS
<1>14. w = 65535 - FoldCarries(s)
  BY <1>7, <1>10, <1>12, <1>13, <1>a DEF TransportChecksum
<1>15. w \in Short /\ FoldCarries(s + w) = 65535
  BY <1>14, FoldComplement
<1>16. /\ r[H + 16] = ToBytes(w)[0] /\ r[H + 17] = ToBytes(w)[1]
  <2>1. PICK v : v = Checksum(Patch(Slice(p, 0, H), 10, ToBytes(0)))
    OBVIOUS
  <2>2. PICK ip : ip = Patch(p, 10, ToBytes(v))
    OBVIOUS
  <2>3. r = Patch(ip, H + 16, ToBytes(w))
    BY <1>1, <1>2, <1>6, <1>13, <2>1, <2>2 DEF FixChecksums
  <2>4. DOMAIN ip = 0 .. n - 1 /\ DOMAIN ToBytes(w) = 0 .. 1
    BY <1>15, <2>2, ToBytesWord, OctetAt DEF Patch
  <2>5. H + 16 \in 0 .. n - 1 /\ H + 17 \in 0 .. n - 1 /\ (H + 16) - (H + 16) = 0 /\ (H + 17) - (H + 16) = 1
    BY <1>2
  <2>6. QED
    BY <2>3, <2>4, <2>5 DEF Patch
<1>17. c[16] = ToBytes(w)[0] /\ c[16 + 1] = ToBytes(w)[1]
  BY <1>2, <1>5, <1>9, <1>16
<1>18. \A i \in 0 .. k - 1 : i = 16 \/ i = 16 + 1 \/ l[i] = c[i]
  <2> SUFFICES ASSUME NEW i \in 0 .. k - 1, i # 16, i # 16 + 1 PROVE l[i] = c[i]
    OBVIOUS
  <2>1. H + i \in 0 .. n - 1 /\ H + i # 10 /\ H + i # 11 /\ H + i # H + 16 /\ H + i # H + 17
    BY <1>2, <1>5
  <2>2. r[H + i] = p[H + i]
    BY <1>3, <2>1
  <2>3. QED
    BY <1>7, <1>9, <2>2
<1>19. WordSum(c) = WordSum(Patch(l, 16, ToBytes(0))) + w
  <2>1. 16 \in Nat /\ 16 % 2 = 0 /\ 16 + 2 <= k
    BY <1>2, <1>5
  <2>2. QED
    BY <1>7, <1>9, <1>15, <1>17, <1>18, <2>1, WordPut
<1>20. P + WordSum(c) = s + w
  <2>1. WordSum(y) \in Nat /\ w \in Nat
    BY <1>11, <1>15, WordSumIs, ShortIs
  <2>2. QED
    BY <1>10, <1>19, <1>a, <2>1
<1>21. QED
  BY <1>1, <1>4, <1>5, <1>8, <1>12, <1>15, <1>20

(* What a rewrite does to a packet that parse() took for IPv4.             *)
LEMMA Rewritten ==
    ASSUME NEW n \in Nat, NEW p \in Octets(n), Accepted4(n, p),
           NEW at \in {12, 16}, NEW new \in Octets(4), NEW r, r = FixChecksums(Patch(p, at, new))
    PROVE  /\ r \in Octets(n) /\ Ihl(r) = Ihl(p) /\ IpValid(r)
           /\ \A i \in 0 .. n - 1 :
                 \/ i \in 10 .. 19 \/ r[i] = p[i]
                 \/ p[9] \in {TCP, UDP} /\ n >= Ihl(p) + 18 /\ (i = Ihl(p) + 16 \/ i = Ihl(p) + 17)
           /\ \A i \in 0 .. 3 : r[at + i] = new[i] /\ r[(28 - at) + i] = p[(28 - at) + i]
           /\ p[9] \in {TCP, UDP} /\ n >= Ihl(p) + 18 =>
                 FoldCarries(Pseudo(Slice(r, 12, 16), Slice(r, 16, 20), r[9], n - Ihl(p))
                               + WordSum(Slice(r, Ihl(p), n))) = 65535
<1>1. PICK q : q = Patch(p, at, new)
  OBVIOUS
<1>2. Patched(n, p, at, 4, new, q)
  <2>1. 4 \in Nat /\ at \in Nat
    OBVIOUS
  <2>2. QED
    BY <1>1, <2>1, PatchIs
<1>3. q \in Octets(n) /\ \A i \in 0 .. n - 1 : i \in 12 .. 19 \/ q[i] = p[i]
  <2>1. q \in Octets(n) /\ \A i \in 0 .. n - 1 : i < at \/ at + 4 <= i => q[i] = p[i]
    BY <1>2 DEF Patched
  <2>2. \A i \in 0 .. n - 1 : i \in 12 .. 19 \/ i < at \/ at + 4 <= i
    OBVIOUS
  <2>3. QED
    BY <2>1, <2>2
<1>4. n >= 20 /\ q[0] = p[0] /\ q[9] = p[9]
  BY <1>3 DEF Accepted4
<1>5. Ihl(q) = Ihl(p)
  BY <1>4 DEF Ihl
<1>6. Accepted4(n, q)
  BY <1>3, <1>5 DEF Accepted4
<1>7. PICK H \in Nat : H = Ihl(p) /\ H >= 20
  BY IhlIs DEF Accepted4
<1>8. /\ r \in Octets(n) /\ IpValid(r)
      /\ \A i \in 0 .. n - 1 :
            \/ i = 10 \/ i = 11 \/ r[i] = q[i]
            \/ p[9] \in {TCP, UDP} /\ n >= H + 18 /\ (i = H + 16 \/ i = H + 17)
  BY <1>1, <1>3, <1>4, <1>5, <1>6, <1>7, HeaderFixed
<1>9. r[0] = q[0]
  <2>1. 0 \in 0 .. n - 1 /\ 0 # H + 16 /\ 0 # H + 17
    BY <1>4, <1>7
  <2>2. QED
    BY <1>8, <2>1
<1>10. Ihl(r) = Ihl(p)
  BY <1>4, <1>9 DEF Ihl
<1>11. \A i \in 0 .. n - 1 :
          \/ i \in 10 .. 19 \/ r[i] = p[i]
          \/ p[9] \in {TCP, UDP} /\ n >= H + 18 /\ (i = H + 16 \/ i = H + 17)
  BY <1>3, <1>8
<1>12. p[9] \in {TCP, UDP} /\ n >= Ihl(p) + 18 =>
          FoldCarries(Pseudo(Slice(r, 12, 16), Slice(r, 16, 20), r[9], n - Ihl(p))
                        + WordSum(Slice(r, Ihl(p), n))) = 65535
  <2> SUFFICES ASSUME p[9] \in {TCP, UDP}, n >= Ihl(p) + 18
               PROVE  FoldCarries(Pseudo(Slice(r, 12, 16), Slice(r, 16, 20), r[9], n - Ihl(p))
                                    + WordSum(Slice(r, Ihl(p), n))) = 65535
    OBVIOUS
  <2>1. q[9] \in {TCP, UDP} /\ n >= Ihl(q) + 18 /\ r = FixChecksums(q)
    BY <1>1, <1>4, <1>5
  <2>2. FoldCarries(Pseudo(Slice(r, 12, 16), Slice(r, 16, 20), r[9], n - Ihl(q))
                      + WordSum(Slice(r, Ihl(q), n))) = 65535
    BY <1>3, <1>6, <2>1, SegmentFixed
  <2>3. QED
    BY <1>5, <2>2
<1>13. ASSUME NEW i \in 0 .. 3 PROVE r[at + i] = new[i] /\ r[(28 - at) + i] = p[(28 - at) + i]
  <2>1. \A j \in 12 .. 19 : r[j] = q[j]
    <3>1. \A j \in 12 .. 19 : j \in 0 .. n - 1 /\ j # 10 /\ j # 11 /\ j # H + 16 /\ j # H + 17
      BY <1>4, <1>7
    <3>2. QED
      BY <1>8, <3>1
  <2>2. /\ at + i \in 12 .. 19 /\ at + i \in 0 .. n - 1 /\ at <= at + i /\ at + i < at + 4
        /\ (at + i) - at = i
    BY <1>4
  <2>3. q[at + i] = new[i]
    BY <1>2, <2>2 DEF Patched
  <2>4. /\ (28 - at) + i \in 12 .. 19 /\ (28 - at) + i \in 0 .. n - 1
        /\ (28 - at) + i < at \/ at + 4 <= (28 - at) + i
    BY <1>4
  <2>5. q[(28 - at) + i] = p[(28 - at) + i]
    BY <1>2, <2>4 DEF Patched
  <2>6. QED
    BY <2>1, <2>2, <2>3, <2>4, <2>5
<1>14. QED
  BY <1>7, <1>8, <1>10, <1>11, <1>12, <1>13

-----------------------------------------------------------------------------
(* The packets of the senders.                                             *)

\* What is known of an IPv4 packet whatever its addresses and ports.
Like4(m) ==
    /\ m.version = 4 /\ m.src \in Octets(4) /\ m.dst \in Octets(4)
    /\ m.sport \in Short /\ m.dport \in Short /\ m.proto \in Byte /\ m.fill \in Byte
    /\ m.ihl \in {4 * h : h \in 5 .. 15} /\ m.len \in Nat /\ m.len <= 65000
    /\ m.later \in BOOLEAN /\ m.keep \in Nat
    /\ m.proto = TCP => m.len >= 20
    /\ m.proto = UDP => m.len >= 8
    /\ m.later => m.proto \in FragmentProtos

LEMMA OctetsFour == Octets(4) = [0 .. 3 -> 0 .. 255]
<1>1. 4 - 1 = 3
  OBVIOUS
<1>2. QED
  BY <1>1 DEF Octets, Byte

LEMMA Packets4Like ==
    ASSUME NEW src \in Octets(4), NEW dst \in Octets(4), NEW sport \in Short, NEW dport \in Short,
           NEW m \in Packets4(src, dst, sport, dport)
    PROVE  Like4(m) /\ m.src = src /\ m.dst = dst /\ m.sport = sport /\ m.dport = dport
           /\ m.proto \in Protos /\ m.len \in L4Lengths
<1>1. /\ m.version = 4 /\ m.src = src /\ m.dst = dst /\ m.sport = sport /\ m.dport = dport
      /\ m.proto \in Protos /\ m.ihl \in HeaderLengths /\ m.len \in L4Lengths
      /\ m.fill \in Fills /\ m.later \in BOOLEAN /\ m.keep \in Kept \cup {All}
      /\ m.len >= LeastL4(m.proto) /\ (m.later => m.proto \in FragmentProtos)
  BY DEF Packets4
<1>2. m.proto \in Byte /\ m.fill \in Byte
  <2>1. Protos \subseteq Byte /\ Fills \subseteq Byte
    BY ProtocolAssumption, Zenon DEF Byte
  <2>2. QED
    BY <1>1, <2>1
<1>3. m.ihl \in {4 * h : h \in 5 .. 15}
  BY <1>1, NumberAssumption
<1>4. m.len \in Nat /\ m.len <= 65000 /\ m.keep \in Nat
  <2>1. \A n \in L4Lengths \cup Kept : n \in Nat /\ n <= 65000
    BY NumberAssumption
  <2>2. QED
    BY <1>1, <2>1 DEF All
<1>5. (m.proto = TCP => m.len >= 20) /\ (m.proto = UDP => m.len >= 8)
  BY <1>1 DEF LeastL4, TCP, UDP
<1>6. QED
  BY <1>1, <1>2, <1>3, <1>4, <1>5 DEF Like4

LEMMA PortsIs ==
    ASSUME NEW m, m.sport \in Short, m.dport \in Short
    PROVE  /\ Ports(m) \in Octets(4)
           /\ 256 * Ports(m)[0] + Ports(m)[1] = m.sport
           /\ 256 * Ports(m)[2] + Ports(m)[3] = m.dport
<1>1. PICK z : z = [i \in 0 .. 3 |-> 0]
  OBVIOUS
<1>2. z \in Octets(4)
  <2>1. 0 \in Byte /\ 4 - 1 = 3
    BY ByteIs
  <2>2. QED
    BY <1>1, <2>1 DEF Octets
<1>3. PICK s : s = ToBytes(m.sport)
  OBVIOUS
<1>4. PICK d : d = ToBytes(m.dport)
  OBVIOUS
<1>5. s \in Octets(2) /\ 256 * s[0] + s[1] = m.sport
  <2>1. Word(s, 0) = m.sport /\ s \in Octets(2)
    BY <1>3, ToBytesWord
  <2>2. 0 + 1 = 1
    OBVIOUS
  <2>3. QED
    BY <2>1, <2>2 DEF Word
<1>6. d \in Octets(2) /\ 256 * d[0] + d[1] = m.dport
  <2>1. Word(d, 0) = m.dport /\ d \in Octets(2)
    BY <1>4, ToBytesWord
  <2>2. 0 + 1 = 1
    OBVIOUS
  <2>3. QED
    BY <2>1, <2>2 DEF Word
<1>7. PICK y : y = Patch(z, 0, s)
  OBVIOUS
<1>8. Patched(4, z, 0, 2, s, y)
  BY <1>2, <1>5, <1>7, PatchIs
<1>9. y \in Octets(4) /\ y[0] = s[0] /\ y[1] = s[1]
  BY <1>8 DEF Patched
<1>10. PICK x : x = Patch(y, 2, d)
  OBVIOUS
<1>11. Patched(4, y, 2, 2, d, x)
  BY <1>6, <1>9, <1>10, PatchIs
<1>12. x \in Octets(4) /\ x[0] = y[0] /\ x[1] = y[1] /\ x[2] = d[0] /\ x[3] = d[1]
  BY <1>11 DEF Patched
<1>13. Ports(m) = x
  BY <1>1, <1>3, <1>4, <1>7, <1>10 DEF Ports
<1>14. QED
  BY <1>5, <1>6, <1>9, <1>12, <1>13

\* What a packet p made from m has to hold, but for the checksums.
Shape4(m, p) ==
    /\ p \in Octets(m.ihl + m.len) /\ m.ihl + m.len \in Short
    /\ p[0] \div 16 = 4 /\ Ihl(p) = m.ihl /\ TotalLength(p) = m.ihl + m.len /\ p[9] = m.proto
    /\ Word(p, 6) = IF m.later THEN 1 ELSE 0
    /\ \A i \in 0 .. 3 : p[12 + i] = m.src[i] /\ p[16 + i] = m.dst[i]
    /\ Ported(m) => Word(p, m.ihl) = m.sport /\ Word(p, m.ihl + 2) = m.dport

\* The checksum its sender gave it is right.
Summed(m, p) ==
    Ported(m) => FoldCarries(Pseudo(m.src, m.dst, m.proto, m.len)
                               + WordSum(Slice(p, m.ihl, m.ihl + m.len))) = 65535

LEMMA Like4Numbers ==
    ASSUME NEW m, Like4(m)
    PROVE  /\ m.ihl \in Nat /\ m.ihl >= 20 /\ m.ihl <= 60 /\ m.ihl + m.len \in Short
           /\ m.ihl \div 4 \in Nat /\ m.ihl \div 4 <= 15
           /\ 64 + (m.ihl \div 4) \in Byte /\ (64 + (m.ihl \div 4)) \div 16 = 4
           /\ ((64 + (m.ihl \div 4)) % 16) * 4 = m.ihl
<1>1. PICK h \in 5 .. 15 : m.ihl = 4 * h
  BY DEF Like4
<1>2. m.ihl \in Nat /\ m.ihl >= 20 /\ m.ihl <= 60
  BY <1>1
<1>3. m.ihl + m.len \in Short
  BY <1>2, ShortIs DEF Like4
<1>4. m.ihl \div 4 = h
  BY <1>1
<1>5. (64 + h) \div 16 = 4 /\ ((64 + h) % 16) * 4 = 4 * h
  OBVIOUS
<1>6. 64 + h \in Byte /\ h \in Nat /\ h <= 15
  BY ByteIs
<1>7. QED
  BY <1>1, <1>2, <1>3, <1>4, <1>5, <1>6

LEMMA Made4Shape ==
    ASSUME NEW m, Like4(m)
    PROVE  Shape4(m, Made4(m)) /\ Summed(m, Made4(m))
<1>1. PICK H \in Nat : H = m.ihl /\ H >= 20
  BY Like4Numbers
<1>2. PICK n \in Nat : n = H + m.len /\ n \in Short /\ n >= H
  <2>1. H + m.len \in Short /\ m.len \in Nat
    BY <1>1, Like4Numbers DEF Like4
  <2>2. H + m.len \in Nat /\ H + m.len >= H
    BY <2>1
  <2>3. QED
    BY <2>1, <2>2
<1>c. PICK frag : frag = IF m.later THEN 1 ELSE 0
  OBVIOUS
<1>3. PICK first : first = 64 + (m.ihl \div 4)
  OBVIOUS
<1>4. first \in Byte /\ first \div 16 = 4 /\ (first % 16) * 4 = H
  BY <1>1, <1>3, Like4Numbers
<1>5. PICK blank : blank = Blank4(m)
  OBVIOUS
<1>6. blank \in Octets(n) /\ blank[0] = first /\ blank[9] = m.proto /\ Word(blank, 6) = frag
  <2>1. 0 \in Byte /\ 1 \in Byte /\ 64 \in Byte /\ m.proto \in Byte /\ m.fill \in Byte
    BY ByteIs DEF Like4
  <2>2. blank = [i \in 0 .. n - 1 |->
                    CASE i = 0 -> first
                      [] i = 7 -> IF m.later THEN 1 ELSE 0
                      [] i = 8 -> 64
                      [] i = 9 -> m.proto
                      [] i \in {1, 4, 5, 6, 10, 11} -> 0
                      [] OTHER -> m.fill]
    <3>1. m.ihl + m.len - 1 = n - 1
      BY <1>1, <1>2 DEF Like4
    <3>2. QED
      BY <1>3, <1>5, <3>1 DEF Blank4
  <2>3. \A i \in 0 .. n - 1 : blank[i] \in Byte
    BY <1>4, <2>1, <2>2
  <2>4. blank \in Octets(n)
    BY <2>2, <2>3 DEF Octets
  <2>5. 0 \in 0 .. n - 1 /\ 9 \in 0 .. n - 1 /\ 6 \in 0 .. n - 1 /\ 7 \in 0 .. n - 1
    BY <1>1, <1>2
  <2>6. blank[0] = first /\ blank[9] = m.proto /\ blank[6] = 0 /\ blank[7] = frag
    BY <1>c, <2>2, <2>5
  <2>7. Word(blank, 6) = frag
    BY <1>c, <2>6 DEF Word
  <2>8. QED
    BY <2>4, <2>6, <2>7
<1>7. PICK lengths : lengths = ToBytes(n)
  OBVIOUS
<1>8. lengths \in Octets(2) /\ 256 * lengths[0] + lengths[1] = n
  <2>1. Word(lengths, 0) = n /\ lengths \in Octets(2) /\ 0 + 1 = 1
    BY <1>2, <1>7, ToBytesWord
  <2>2. QED
    BY <2>1 DEF Word
<1>9. PICK b1 : b1 = Patch(blank, 2, lengths)
  OBVIOUS
<1>10. /\ b1 \in Octets(n) /\ Word(b1, 6) = frag
       /\ b1[0] = first /\ b1[9] = m.proto /\ b1[2] = lengths[0] /\ b1[3] = lengths[1]
  <2>1. Patched(n, blank, 2, 2, lengths, b1)
    BY <1>6, <1>8, <1>9, PatchIs
  <2>2. QED
    BY <1>1, <1>2, <1>6, <2>1 DEF Patched, Word
<1>11. PICK b2 : b2 = Patch(b1, 12, m.src)
  OBVIOUS
<1>12. m.src \in Octets(4) /\ m.dst \in Octets(4)
  BY DEF Like4
<1>13. /\ b2 \in Octets(n) /\ Word(b2, 6) = frag
       /\ b2[0] = first /\ b2[9] = m.proto /\ b2[2] = lengths[0] /\ b2[3] = lengths[1]
       /\ \A i \in 0 .. 3 : b2[12 + i] = m.src[i]
  <2>1. Patched(n, b1, 12, 4, m.src, b2)
    BY <1>10, <1>11, <1>12, PatchIs
  <2>2. QED
    BY <1>1, <1>2, <1>10, <2>1 DEF Patched, Word
<1>14. PICK base : base = Patch(b2, 16, m.dst)
  OBVIOUS
<1>15. /\ base \in Octets(n) /\ Word(base, 6) = frag
       /\ base[0] = first /\ base[9] = m.proto /\ base[2] = lengths[0] /\ base[3] = lengths[1]
       /\ \A i \in 0 .. 3 : base[12 + i] = m.src[i] /\ base[16 + i] = m.dst[i]
  <2>1. Patched(n, b2, 16, 4, m.dst, base)
    BY <1>12, <1>13, <1>14, PatchIs
  <2>2. QED
    BY <1>1, <1>2, <1>13, <2>1 DEF Patched, Word
<1>16. PICK ck : ck = Checksum(Slice(base, 0, H))
  OBVIOUS
<1>17. ck \in Short
  <2>1. Sliced(base, 0, H - 0, Slice(base, 0, H))
    BY <1>2, <1>15, SliceIs
  <2>2. H - 0 = H
    OBVIOUS
  <2>3. Slice(base, 0, H) \in Octets(H)
    BY <2>1, <2>2 DEF Sliced
  <2>4. WordSum(Slice(base, 0, H)) \in Nat
    BY <2>3, WordSumIs
  <2>5. QED
    BY <1>16, <2>4, FoldComplement DEF Checksum
<1>18. PICK ip : ip = Patch(base, 10, ToBytes(ck))
  OBVIOUS
<1>19. /\ ip \in Octets(n) /\ Word(ip, 6) = frag
       /\ ip[0] = first /\ ip[9] = m.proto /\ ip[2] = lengths[0] /\ ip[3] = lengths[1]
       /\ \A i \in 0 .. 3 : ip[12 + i] = m.src[i] /\ ip[16 + i] = m.dst[i]
  <2>1. ToBytes(ck) \in Octets(2)
    BY <1>17, ToBytesWord
  <2>2. Patched(n, base, 10, 2, ToBytes(ck), ip)
    BY <1>15, <1>18, <2>1, PatchIs
  <2>3. QED
    BY <1>1, <1>2, <1>15, <2>2 DEF Patched, Word
<1>a. ip = Headed4(m)
  BY <1>1, <1>2, <1>5, <1>7, <1>9, <1>11, <1>14, <1>16, <1>18 DEF Headed4
<1> DEFINE Header(p) == /\ p \in Octets(n) /\ Word(p, 6) = frag
                        /\ p[0] = first /\ p[9] = m.proto /\ p[2] = lengths[0] /\ p[3] = lengths[1]
                        /\ \A i \in 0 .. 3 : p[12 + i] = m.src[i] /\ p[16 + i] = m.dst[i]
<1>20. ASSUME NEW p, Header(p), Ported(m) => Word(p, H) = m.sport /\ Word(p, H + 2) = m.dport
       PROVE  Shape4(m, p)
  <2>1. Ihl(p) = H /\ p[0] \div 16 = 4
    BY <1>4, <1>20 DEF Ihl
  <2>2. TotalLength(p) = n
    BY <1>8, <1>20 DEF TotalLength
  <2>3. QED
    BY <1>1, <1>2, <1>20, <1>c, <2>1, <2>2 DEF Shape4
<1>21. CASE ~Ported(m)
  <2>1. Made4(m) = ip
    BY <1>21, <1>a DEF Made4
  <2>2. Shape4(m, ip)
    BY <1>19, <1>20, <1>21
  <2>3. QED
    BY <1>21, <2>1, <2>2 DEF Summed
<1>22. CASE Ported(m)
  <2>1. PICK full : full = Patch(ip, H, Ports(m))
    OBVIOUS
  <2>2. m.sport \in Short /\ m.dport \in Short
    BY DEF Like4
  <2>3. Ports(m) \in Octets(4)
    BY <2>2, PortsIs
  <2>4. Patched(n, ip, H, 4, Ports(m), full)
    BY <1>19, <2>1, <2>3, PatchIs
  <2>5. PICK o \in Nat : o = SumOffset(m.proto) /\ o >= 6 /\ o + 2 <= m.len
    BY <1>22 DEF SumOffset, Ported, Like4, TCP, UDP
  <2>6. /\ Header(full) /\ full[H] = Ports(m)[0] /\ full[H + 1] = Ports(m)[1]
        /\ full[H + 2] = Ports(m)[2] /\ full[H + 3] = Ports(m)[3]
    <3>1. H \in 0 .. n - 1 /\ H + 1 \in 0 .. n - 1 /\ H + 2 \in 0 .. n - 1 /\ H + 3 \in 0 .. n - 1
      BY <1>2, <2>5 DEF Like4
    <3>2. /\ full[H] = Ports(m)[0] /\ full[H + 1] = Ports(m)[1]
          /\ full[H + 2] = Ports(m)[2] /\ full[H + 3] = Ports(m)[3]
      <4>1. H - H = 0 /\ (H + 1) - H = 1 /\ (H + 2) - H = 2 /\ (H + 3) - H = 3
        OBVIOUS
      <4>2. QED
        BY <2>4, <3>1, <4>1 DEF Patched
    <3>3. full \in Octets(n) /\ \A i \in 0 .. 19 : full[i] = ip[i]
      BY <1>1, <1>2, <2>4 DEF Patched
    <3>4. Header(full)
      BY <1>19, <3>3 DEF Word
    <3>5. QED
      BY <3>2, <3>4
  <2>7. PICK sum : sum = 65535 - FoldCarries(Pseudo(m.src, m.dst, m.proto, m.len)
                          + WordSum(Patch(Slice(full, m.ihl, m.ihl + m.len), SumOffset(m.proto), ToBytes(0))))
    OBVIOUS
  <2>a. m.len \in Nat /\ m.proto \in Nat /\ n - H = m.len
    BY <1>2, ByteIs DEF Like4
  <2>b. PICK l : l = Slice(full, H, n)
    OBVIOUS
  <2>c. Sliced(full, H, m.len, l)
    <3>1. Sliced(full, H, n - H, l)
      BY <1>2, <2>6, <2>b, SliceIs
    <3>2. QED
      BY <2>a, <3>1
  <2>d. l \in Octets(m.len)
    BY <2>c DEF Sliced
  <2>e. PICK z : z = Patch(l, o, ToBytes(0))
    OBVIOUS
  <2>f. PICK W \in Nat : W = WordSum(z)
    <3>1. Patched(m.len, l, o, 2, ToBytes(0), z)
      BY <2>a, <2>d, <2>e, ZeroBytes, PatchIs
    <3>2. z \in Octets(m.len)
      BY <3>1 DEF Patched
    <3>3. QED
      BY <2>a, <3>2, WordSumIs
  <2>g. PICK P \in Nat : P = Pseudo(m.src, m.dst, m.proto, m.len)
    BY <1>12, <2>a, PseudoIs
  <2>h. sum = 65535 - FoldCarries(P + W)
    BY <1>1, <1>2, <2>5, <2>7, <2>b, <2>e, <2>f, <2>g
  <2>8. sum \in Short /\ FoldCarries((P + W) + sum) = 65535
    <3>1. P + W \in Nat
      OBVIOUS
    <3>2. QED
      BY <2>h, <3>1, FoldComplement
  <2>9. PICK p : p = Patch(full, H + o, ToBytes(sum))
    OBVIOUS
  <2>10. Made4(m) = p
    BY <1>1, <1>22, <1>a, <2>1, <2>5, <2>7, <2>9 DEF Made4
  <2>11. Patched(n, full, H + o, 2, ToBytes(sum), p)
    <3>1. ToBytes(sum) \in Octets(2)
      BY <2>8, ToBytesWord
    <3>2. QED
      BY <2>6, <2>9, <3>1, PatchIs
  <2>12. p \in Octets(n) /\ \A i \in 0 .. H + 3 : p[i] = full[i]
    BY <1>2, <2>5, <2>11 DEF Patched, Like4
  <2>13. Header(p)
    BY <1>1, <2>6, <2>12 DEF Word
  <2>14. Word(p, H) = m.sport /\ Word(p, H + 2) = m.dport
    <3>1. p[H] = Ports(m)[0] /\ p[H + 1] = Ports(m)[1] /\ p[H + 2] = Ports(m)[2] /\ p[H + 3] = Ports(m)[3]
      BY <2>6, <2>12
    <3>2. (H + 2) + 1 = H + 3
      OBVIOUS
    <3>3. QED
      BY <2>2, <3>1, <3>2, PortsIs DEF Word
  <2>15. Shape4(m, p)
    BY <1>20, <2>13, <2>14
  <2>16. PICK c : c = Slice(p, H, n)
    OBVIOUS
  <2>17. Sliced(p, H, m.len, c)
    <3>1. Sliced(p, H, n - H, c)
      BY <1>2, <2>12, <2>16, SliceIs
    <3>2. QED
      BY <2>a, <3>1
  <2>18. o % 2 = 0
    BY <2>5 DEF SumOffset
  <2>19. WordSum(c) = W + sum
    <3>1. c \in Octets(m.len)
      BY <2>17 DEF Sliced
    <3>2. c[o] = ToBytes(sum)[0] /\ c[o + 1] = ToBytes(sum)[1]
      <4>1. o \in 0 .. m.len - 1 /\ o + 1 \in 0 .. m.len - 1
        BY <2>5, <2>a
      <4>2. c[o] = p[H + o] /\ c[o + 1] = p[H + (o + 1)]
        BY <2>17, <4>1 DEF Sliced
      <4>3. /\ H + o \in 0 .. n - 1 /\ H + (o + 1) \in 0 .. n - 1
            /\ (H + o) - (H + o) = 0 /\ (H + (o + 1)) - (H + o) = 1
            /\ H + o < (H + o) + 2 /\ H + o <= H + (o + 1) /\ H + (o + 1) < (H + o) + 2
        BY <2>5, <2>a, <1>2
      <4>4. QED
        BY <2>11, <4>2, <4>3 DEF Patched
    <3>3. \A i \in 0 .. m.len - 1 : i = o \/ i = o + 1 \/ l[i] = c[i]
      <4> SUFFICES ASSUME NEW i \in 0 .. m.len - 1, i # o, i # o + 1 PROVE l[i] = c[i]
        OBVIOUS
      <4>1. H + i \in 0 .. n - 1 /\ (H + i < H + o \/ (H + o) + 2 <= H + i)
        BY <1>2, <2>5, <2>a
      <4>2. p[H + i] = full[H + i]
        BY <2>11, <4>1 DEF Patched
      <4>3. QED
        BY <2>c, <2>17, <4>2 DEF Sliced
    <3>4. o + 2 <= m.len
      BY <2>5
    <3>5. QED
      BY <2>8, <2>18, <2>a, <2>d, <2>e, <2>f, <3>1, <3>2, <3>3, <3>4, WordPut
  <2>20. Summed(m, p)
    <3>1. sum \in Nat
      BY <2>8, ShortIs
    <3>2. P + (W + sum) = (P + W) + sum
      BY <3>1
    <3>3. c = Slice(p, m.ihl, m.ihl + m.len)
      BY <1>1, <1>2, <2>16
    <3>4. FoldCarries(P + WordSum(c)) = 65535
      BY <2>8, <2>19, <3>2
    <3>5. QED
      BY <2>g, <3>3, <3>4 DEF Summed
  <2>21. QED
    BY <2>10, <2>15, <2>20
<1>23. QED
  BY <1>21, <1>22

\* What is known of an IPv6 packet whatever its addresses and ports.
Like6(m) ==
    /\ m.version = 6 /\ m.src \in Octets(16) /\ m.dst \in Octets(16)
    /\ m.sport \in Short /\ m.dport \in Short /\ m.proto \in Byte /\ m.fill \in Byte
    /\ m.proto \notin ExtHeaders /\ m.later = FALSE /\ m.keep \in Nat
    /\ \E n \in 0 .. MaxWalk : m.exts \in [1 .. n -> ExtHeaders \X Byte]

LEMMA Packets6Like ==
    ASSUME NEW m \in Packets6
    PROVE  Like6(m) /\ m.dst \in Servers6
<1>1. /\ m.version = 6 /\ m.src = Client6 /\ m.dst \in Servers6 /\ m.sport = ClientPort
      /\ m.dport = ServerPort /\ m.proto \in Protos6 /\ m.exts \in ExtChains /\ m.fill \in Fills
      /\ m.later = FALSE /\ m.keep \in Kept \cup {All}
  BY DEF Packets6
<1>2. m.proto \in Byte /\ m.fill \in Byte /\ m.proto \notin ExtHeaders
  <2>1. Protos6 \subseteq Byte /\ Fills \subseteq Byte /\ Protos6 \cap ExtHeaders = {}
    BY ProtocolAssumption, Zenon DEF Byte
  <2>2. QED
    BY <1>1, <2>1
<1>3. \E n \in 0 .. MaxWalk : m.exts \in [1 .. n -> ExtHeaders \X Byte]
  BY <1>1, ProtocolAssumption, Zenon DEF Byte
<1>4. m.src \in Octets(16) /\ m.dst \in Octets(16)
  <2>1. Octets(16) = [0 .. 15 -> 0 .. 255]
    <3>1. 16 - 1 = 15
      OBVIOUS
    <3>2. QED
      BY <3>1, Zenon DEF Octets, Byte
  <2>2. \A a \in {Client6, Server6} \cup Servers6 : a \in Octets(16)
    BY <2>1, AddressAssumption, Zenon
  <2>3. QED
    BY <1>1, <2>2, Zenon
<1>5. m.keep \in Nat /\ m.sport \in Short /\ m.dport \in Short
  <2>1. (\A n \in Kept : n \in Nat) /\ ClientPort \in Short /\ ServerPort \in Short
    <3>1. \A n \in Kept : n \in Nat
      BY NumberAssumption
    <3>2. ClientPort \in Short /\ ServerPort \in Short
      <4>1. ClientPort \in Nat /\ ClientPort < 65536
        BY NumberAssumption
      <4>2. ServerPort \in Nat /\ ServerPort < 65536
        BY NumberAssumption
      <4>3. QED
        BY <4>1, <4>2 DEF Short
    <3>3. QED
      BY <3>1, <3>2
  <2>2. QED
    BY <1>1, <2>1 DEF All
<1>6. QED
  BY <1>1, <1>2, <1>3, <1>4, <1>5, Zenon DEF Like6

\* The n headers of m follow each other at st.
Following(n, m, st) ==
    /\ st \in [1 .. n + 1 -> Nat] /\ st[1] = 40
    /\ \A k \in 1 .. n : st[k + 1] = st[k] + (m.exts[k][2] + 1) * 8

(* The extension headers follow each other, each at least eight bytes.     *)
LEMMA StartsAre ==
    ASSUME NEW n \in 0 .. MaxWalk, NEW m, m.exts \in [1 .. n -> ExtHeaders \X Byte]
    PROVE  Len(m.exts) = n /\ Following(n, m, Starts(m))
<1>1. n \in Nat /\ n <= 8
  BY DEF MaxWalk
<1>2. Len(m.exts) = n
  <2>1. m.exts \in Seq(ExtHeaders \X Byte) /\ DOMAIN m.exts = 1 .. n
    BY <1>1
  <2>2. QED
    BY <1>1, <2>1
<1>3. \A k \in 1 .. n : m.exts[k][2] \in Nat
  <2>1. \A k \in 1 .. n : m.exts[k] \in ExtHeaders \X Byte
    OBVIOUS
  <2>2. \A e \in ExtHeaders \X Byte : e[2] \in Byte
    OBVIOUS
  <2>3. QED
    BY <2>1, <2>2, ByteIs
<1>4. PICK f : f = [k \in 0 .. n - 1 |-> 8 * (m.exts[k + 1][2] + 1)]
  OBVIOUS
<1>5. f \in [0 .. n - 1 -> Nat]
  <2>1. \A k \in 0 .. n - 1 : m.exts[k + 1][2] \in Nat
    BY <1>1, <1>3
  <2>2. \A x \in Nat : 8 * (x + 1) \in Nat
    OBVIOUS
  <2>3. QED
    BY <1>4, <2>1, <2>2
<1>6. PICK s : s = PartialSums(f)
  OBVIOUS
<1>7. s \in [0 .. n -> Nat] /\ s[0] = 0 /\ \A k \in 0 .. n - 1 : s[k + 1] = s[k] + f[k]
  BY <1>1, <1>5, <1>6, PartialSumsStep
<1>8. Starts(m) = [k \in 1 .. n + 1 |-> 40 + s[k - 1]]
  BY <1>2, <1>4, <1>6 DEF Starts
<1>9. \A k \in 1 .. n + 1 : k - 1 \in 0 .. n /\ s[k - 1] \in Nat /\ 40 + s[k - 1] \in Nat
  BY <1>1, <1>7
<1>10. Starts(m) \in [1 .. n + 1 -> Nat] /\ Starts(m)[1] = 40
  BY <1>1, <1>7, <1>8, <1>9
<1>11. ASSUME NEW k \in 1 .. n PROVE Starts(m)[k + 1] = Starts(m)[k] + (m.exts[k][2] + 1) * 8
  <2>1. k \in 1 .. n + 1 /\ k + 1 \in 1 .. n + 1 /\ (k + 1) - 1 = (k - 1) + 1 /\ k - 1 \in 0 .. n - 1
        /\ (k - 1) + 1 = k
    BY <1>1
  <2>2. PICK x \in Nat : x = m.exts[k][2]
    BY <1>3
  <2>3. f[k - 1] = 8 * (x + 1)
    BY <1>4, <2>1, <2>2
  <2>4. PICK y \in Nat : y = s[k - 1]
    BY <1>9, <2>1
  <2>5. s[k] = y + 8 * (x + 1)
    BY <1>7, <2>1, <2>3, <2>4
  <2>6. Starts(m)[k] = 40 + y /\ Starts(m)[k + 1] = 40 + s[k]
    BY <1>8, <2>1, <2>4
  <2>7. 40 + (y + 8 * (x + 1)) = (40 + y) + (x + 1) * 8
    OBVIOUS
  <2>8. QED
    BY <2>2, <2>5, <2>6, <2>7
<1>12. QED
  BY <1>2, <1>10, <1>11 DEF Following

\* n headers start at st, each at least eight bytes behind the one before.
Growing(n, st) ==
    \A k \in 1 .. n + 1 : /\ st[k] \in Nat /\ 40 <= st[k] /\ st[k] <= 40 + 2048 * (k - 1)
                         /\ \A j \in 1 .. k - 1 : st[j] + 8 <= st[k]

LEMMA StartsGrow ==
    ASSUME NEW n \in 0 .. MaxWalk, NEW m, m.exts \in [1 .. n -> ExtHeaders \X Byte]
    PROVE  Growing(n, Starts(m))
<1>0. PICK st : st = Starts(m)
  OBVIOUS
<1>1. n \in Nat
  BY DEF MaxWalk
<1>2. /\ st \in [1 .. n + 1 -> Nat] /\ st[1] = 40
      /\ \A k \in 1 .. n : st[k + 1] = st[k] + (m.exts[k][2] + 1) * 8
  <2>1. Following(n, m, st)
    BY <1>0, StartsAre, Zenon
  <2>2. QED
    BY <2>1 DEF Following
<1>3. \A k \in 1 .. n : m.exts[k][2] \in Byte
  <2>1. \A k \in 1 .. n : m.exts[k] \in ExtHeaders \X Byte
    OBVIOUS
  <2>2. \A e \in ExtHeaders \X Byte : e[2] \in Byte
    OBVIOUS
  <2>3. QED
    BY <2>1, <2>2
<1> DEFINE Q(k) == /\ st[k] \in Nat /\ 40 <= st[k] /\ st[k] <= 40 + 2048 * (k - 1)
                   /\ \A j \in 1 .. k - 1 : st[j] + 8 <= st[k]
           G == {k \in 0 .. n : Q(k + 1)}
<1>4. 0 \in G
  <2>1. 0 + 1 = 1 /\ 1 - 1 = 0 /\ 1 .. 0 = {}
    OBVIOUS
  <2>2. Q(1)
    BY <1>2, <2>1
  <2> HIDE DEF Q
  <2>3. QED
    BY <1>1, <2>1, <2>2
<1>5. ASSUME NEW k \in 0 .. n - 1, k \in G PROVE k + 1 \in G
  <2>1. PICK a \in 1 .. n : a = k + 1
    BY <1>1
  <2>2. Q(a)
    BY <1>5, <2>1
  <2>3. PICK x \in Nat : x = m.exts[a][2] /\ x <= 255
    BY <1>3, ByteIs
  <2>4. PICK y \in Nat : y = st[a]
    BY <2>2
  <2>5. st[a + 1] = y + (x + 1) * 8
    BY <1>2, <2>3, <2>4
  <2>6. st[a + 1] \in Nat /\ y + 8 <= st[a + 1] /\ st[a + 1] <= y + 2048
    <3>1. PICK z \in Nat : z = y + (x + 1) * 8
      OBVIOUS
    <3>2. x <= 255
      BY <2>3
    <3>3. y + 8 <= z /\ z <= y + 2048
      BY <3>1, <3>2
    <3>4. st[a + 1] = z
      BY <2>5, <3>1
    <3>5. QED
      BY <3>3, <3>4
  <2>7. 40 <= y /\ y <= 40 + 2048 * (a - 1)
    BY <2>2, <2>4
  <2>8. 40 <= st[a + 1] /\ st[a + 1] <= 40 + 2048 * ((a + 1) - 1)
    BY <2>6, <2>7
  <2>9. ASSUME NEW j \in 1 .. (a + 1) - 1 PROVE st[j] + 8 <= st[a + 1]
    <3>1. CASE j = a
      BY <2>4, <2>6, <3>1
    <3>2. CASE j # a
      <4>1. j \in 1 .. a - 1 /\ j \in 1 .. n + 1
        BY <1>1, <3>2
      <4>2. st[j] + 8 <= y /\ st[j] \in Nat
        BY <1>2, <2>2, <2>4, <4>1
      <4>3. QED
        BY <2>6, <4>2
    <3>3. QED
      BY <3>1, <3>2
  <2>10. Q(a + 1)
    BY <2>6, <2>8, <2>9
  <2> HIDE DEF Q
  <2>11. k + 1 \in 0 .. n
    BY <1>1
  <2>12. QED
    BY <2>1, <2>10, <2>11
<1> HIDE DEF G
<1>6. \A k \in 0 .. n : k \in G
  <2>1. \A k \in 0 .. n - 1 : k \in G => k + 1 \in G
    BY <1>5
  <2>2. QED
    BY <1>1, <1>4, <2>1, UpTo, Zenon
<1>7. ASSUME NEW k \in 1 .. n + 1 PROVE Q(k)
  <2>1. k - 1 \in 0 .. n /\ (k - 1) + 1 = k
    BY <1>1
  <2>2. k - 1 \in G
    BY <1>6, <2>1
  <2> HIDE DEF Q
  <2>3. Q((k - 1) + 1)
    BY <2>2 DEF G
  <2>4. QED
    BY <2>1, <2>3
<1>8. Growing(n, st)
  BY <1>7 DEF Growing
<1>9. QED
  BY <1>0, <1>8, Zenon

LEMMA HeaderAtIs ==
    ASSUME NEW st, NEW n, NEW i, StartsAt(st, n, i)
    PROVE  HeaderAt(st, n, i) \in 1 .. n /\ st[HeaderAt(st, n, i)] = i
BY Zenon DEF StartsAt, HeaderAt

LEMMA TypesAre ==
    ASSUME NEW m, Like6(m), NEW k \in 1 .. Len(m.exts) + 1
    PROVE  /\ TypeOf(m, k) \in Byte
           /\ k <= Len(m.exts) => TypeOf(m, k) \in ExtHeaders /\ m.exts[k][2] \in Byte
           /\ k > Len(m.exts) => TypeOf(m, k) = m.proto /\ TypeOf(m, k) \notin ExtHeaders
<1>1. PICK n \in 0 .. MaxWalk : m.exts \in [1 .. n -> ExtHeaders \X Byte]
  BY DEF Like6
<1>2. Len(m.exts) = n /\ n \in Nat
  BY <1>1, StartsAre DEF MaxWalk
<1>3. m.proto \in Byte /\ m.proto \notin ExtHeaders /\ ExtHeaders \subseteq Byte
  <2>1. \A x \in ExtHeaders : x \in Nat /\ x <= 255
    BY DEF ExtHeaders
  <2>2. QED
    BY <2>1, ByteIs DEF Like6
<1>4. CASE k > n
  BY <1>2, <1>3, <1>4 DEF TypeOf
<1>5. CASE k <= n
  <2>1. m.exts[k] \in ExtHeaders \X Byte
    BY <1>1, <1>2, <1>5
  <2>2. m.exts[k][1] \in ExtHeaders /\ m.exts[k][2] \in Byte
    BY <2>1
  <2>3. TypeOf(m, k) = m.exts[k][1]
    BY <1>2, <1>5 DEF TypeOf
  <2>4. QED
    BY <1>2, <1>3, <1>5, <2>2, <2>3
<1>6. QED
  BY <1>2, <1>4, <1>5

\* What a packet p made from m has to hold, with n headers that start at st.
Shape6(m, n, st, p) ==
    /\ p \in Octets(st[n + 1] + 20)
    /\ p[0] \div 16 = 6 /\ p[6] = TypeOf(m, 1)
    /\ \A i \in 0 .. 15 : p[8 + i] = m.src[i] /\ p[24 + i] = m.dst[i]
    /\ \A k \in 1 .. n : p[st[k]] = TypeOf(m, k + 1) /\ p[st[k] + 1] = m.exts[k][2]
    /\ Ported(m) => Word(p, st[n + 1]) = m.sport /\ Word(p, st[n + 1] + 2) = m.dport

\* The same before addresses and ports are entered.
ShapeBlank6(m, n, st, b) ==
    /\ b \in Octets(st[n + 1] + 20) /\ b[0] = 96 /\ b[6] = TypeOf(m, 1)
    /\ \A k \in 1 .. n : b[st[k]] = TypeOf(m, k + 1) /\ b[st[k] + 1] = m.exts[k][2]

LEMMA Blank6Is ==
    ASSUME NEW m, Like6(m), NEW n \in 0 .. MaxWalk, m.exts \in [1 .. n -> ExtHeaders \X Byte]
    PROVE  ShapeBlank6(m, n, Starts(m), Blank6(m))
<1>x. PICK st : st = Starts(m)
  OBVIOUS
<1>y. PICK b : b = Blank6(m)
  OBVIOUS
<1>1. n \in Nat /\ n <= 8
  BY DEF MaxWalk
<1>2. Len(m.exts) = n
  BY StartsAre
<1>3. \A k \in 1 .. n + 1 : /\ st[k] \in Nat /\ 40 <= st[k] /\ st[k] <= 40 + 2048 * (k - 1)
                            /\ \A j \in 1 .. k - 1 : st[j] + 8 <= st[k]
  <2>1. Growing(n, st)
    BY <1>x, StartsGrow, Zenon
  <2>2. QED
    BY <2>1 DEF Growing
<1>a. ASSUME NEW i \in Int, StartsAt(st, n, i) PROVE i >= 40 /\ ~StartsAt(st, n, i - 1)
  <2>1. PICK k \in 1 .. n : st[k] = i
    BY <1>a DEF StartsAt
  <2>2. i >= 40
    BY <1>1, <1>3, <2>1
  <2>3. ASSUME NEW j \in 1 .. n, st[j] = i - 1 PROVE FALSE
    <3>1. CASE j < k
      BY <1>1, <1>3, <2>1, <2>3, <3>1
    <3>2. CASE k < j
      BY <1>1, <1>3, <2>1, <2>3, <3>2
    <3>3. CASE j = k
      BY <2>1, <2>3, <3>3
    <3>4. QED
      BY <1>1, <3>1, <3>2, <3>3
  <2>4. QED
    BY <2>2, <2>3 DEF StartsAt
<1>b. PICK last \in Nat : last = st[n + 1] /\ 40 <= last /\ last <= 16424
  <2>1. n + 1 \in 1 .. n + 1 /\ 40 + 2048 * ((n + 1) - 1) <= 16424
    BY <1>1
  <2>2. PICK y \in Nat : y = st[n + 1] /\ 40 <= y /\ y <= 40 + 2048 * ((n + 1) - 1)
    BY <1>3, <2>1
  <2>3. y <= 16424
    BY <1>1, <2>1, <2>2
  <2>4. QED
    BY <2>2, <2>3
<1>4. PICK size \in Nat : size = last + 20
  OBVIOUS
<1>5. PICK len : len = ToBytes(size - 40)
  OBVIOUS
<1>6. len[0] \in Byte /\ len[1] \in Byte
  <2>1. size - 40 \in Short
    <3>1. size - 40 \in Nat /\ size - 40 <= 65535
      BY <1>b, <1>4
    <3>2. QED
      BY <3>1, ShortIs
  <2>2. QED
    BY <1>5, <2>1, ToBytesWord
<1> DEFINE At(i) == CASE i = 0 -> 96
                      [] i \in 1 .. 3 -> 0
                      [] i \in 4 .. 5 -> len[i - 4]
                      [] i = 6 -> TypeOf(m, 1)
                      [] StartsAt(st, n, i) -> TypeOf(m, HeaderAt(st, n, i) + 1)
                      [] StartsAt(st, n, i - 1) -> m.exts[HeaderAt(st, n, i - 1)][2]
                      [] OTHER -> m.fill
<1>7. b = [i \in 0 .. size - 1 |-> At(i)]
  BY <1>2, <1>4, <1>5, <1>b, <1>x, <1>y DEF Blank6
<1>8. ASSUME NEW i \in 0 .. size - 1 PROVE b[i] \in Byte
  <2>1. b[i] = At(i)
    BY <1>7
  <2>a. StartsAt(st, n, i) => i >= 40 /\ ~StartsAt(st, n, i - 1)
    BY <1>4, <1>a
  <2>b. StartsAt(st, n, i - 1) => i >= 41
    <3>1. i - 1 \in Int
      OBVIOUS
    <3>2. StartsAt(st, n, i - 1) => i - 1 >= 40
      BY <1>a, <3>1
    <3>3. QED
      BY <3>2
  <2>2. CASE i = 0 \/ i \in 1 .. 3
    <3>1. At(i) = 96 \/ At(i) = 0
      <4>1. CASE i = 0
        BY <2>a, <2>b, <4>1
      <4>2. CASE i \in 1 .. 3
        BY <2>a, <2>b, <4>2
      <4>3. QED
        BY <2>2, <4>1, <4>2
    <3>2. QED
      <4>1. 96 \in Byte /\ 0 \in Byte
        BY ByteIs
      <4>2. QED
        BY <2>1, <3>1, <4>1
  <2>3. CASE i \in 4 .. 5
    <3>1. At(i) = len[0] \/ At(i) = len[1]
      BY <2>3, <2>a, <2>b
    <3>2. QED
      BY <1>6, <2>1, <3>1
  <2>4. CASE i = 6
    <3>1. At(i) = TypeOf(m, 1) /\ 1 \in 1 .. n + 1
      BY <1>1, <2>4, <2>a, <2>b
    <3>2. QED
      <4>1. TypeOf(m, 1) \in Byte
        BY <1>2, <3>1, TypesAre
      <4>2. QED
        BY <2>1, <3>1, <4>1
  <2>5. CASE i > 6 /\ StartsAt(st, n, i)
    <3>1. At(i) = TypeOf(m, HeaderAt(st, n, i) + 1)
      BY <2>5, <2>a
    <3>2. PICK k \in 1 .. n : k = HeaderAt(st, n, i)
      BY <2>5, HeaderAtIs
    <3>3. k + 1 \in 1 .. n + 1
      BY <1>1
    <3>4. TypeOf(m, k + 1) \in Byte
      BY <1>2, <3>3, TypesAre
    <3>5. QED
      BY <2>1, <3>1, <3>2, <3>4
  <2>6. CASE i > 6 /\ ~StartsAt(st, n, i) /\ StartsAt(st, n, i - 1)
    <3>1. At(i) = m.exts[HeaderAt(st, n, i - 1)][2]
      BY <2>6
    <3>2. PICK k \in 1 .. n : k = HeaderAt(st, n, i - 1)
      BY <2>6, HeaderAtIs
    <3>3. k \in 1 .. n + 1 /\ k <= n
      BY <1>1
    <3>4. m.exts[k][2] \in Byte
      BY <1>2, <3>3, TypesAre
    <3>5. QED
      BY <2>1, <3>1, <3>2, <3>4
  <2>7. CASE i > 6 /\ ~StartsAt(st, n, i) /\ ~StartsAt(st, n, i - 1)
    <3>1. At(i) = m.fill
      BY <2>7
    <3>2. QED
      BY <2>1, <3>1 DEF Like6
  <2>8. QED
    BY <2>2, <2>3, <2>4, <2>5, <2>6, <2>7
<1>9. b \in Octets(size)
  BY <1>7, <1>8 DEF Octets
<1>10. b[0] = 96 /\ b[6] = TypeOf(m, 1)
  <2>1. ~StartsAt(st, n, 0) /\ ~StartsAt(st, n, 0 - 1) /\ ~StartsAt(st, n, 6) /\ ~StartsAt(st, n, 6 - 1)
    <3>1. ASSUME NEW i \in Int, i < 40 PROVE ~StartsAt(st, n, i)
      <4>1. ~(i >= 40)
        BY <3>1
      <4>2. QED
        BY <1>a, <4>1, Zenon
    <3>2. QED
      BY <3>1
  <2>2. At(0) = 96 /\ At(6) = TypeOf(m, 1)
    BY <2>1
  <2>3. 0 \in 0 .. size - 1 /\ 6 \in 0 .. size - 1
    BY <1>4
  <2> HIDE DEF At
  <2>4. QED
    BY <1>7, <2>2, <2>3
<1>11. ASSUME NEW j \in 1 .. n, NEW k \in 1 .. n, st[j] = st[k] PROVE j = k
  <2>1. CASE j < k
    BY <1>1, <1>3, <1>11, <2>1
  <2>2. CASE k < j
    BY <1>1, <1>3, <1>11, <2>2
  <2>3. QED
    BY <1>1, <2>1, <2>2
<1>12. ASSUME NEW k \in 1 .. n PROVE b[st[k]] = TypeOf(m, k + 1) /\ b[st[k] + 1] = m.exts[k][2]
  <2>1. st[k] \in Nat /\ st[k] >= 40 /\ st[k] + 8 <= last
    <3>1. n + 1 \in 1 .. n + 1 /\ k \in 1 .. (n + 1) - 1 /\ k \in 1 .. n + 1
      BY <1>1
    <3>2. st[k] \in Nat /\ st[k] >= 40
      BY <1>3, <3>1
    <3>3. st[k] + 8 <= st[n + 1]
      BY <1>3, <3>1
    <3>4. QED
      BY <1>b, <3>2, <3>3
  <2>2. st[k] \in 0 .. size - 1 /\ st[k] + 1 \in 0 .. size - 1 /\ (st[k] + 1) - 1 = st[k]
    <3>1. PICK x \in Nat : x = st[k]
      BY <2>1
    <3>2. x + 8 <= last
      BY <2>1, <3>1
    <3>3. size = last + 20
      BY <1>4
    <3>4. x \in 0 .. size - 1 /\ x + 1 \in 0 .. size - 1 /\ (x + 1) - 1 = x
      BY <3>2, <3>3
    <3>5. QED
      BY <3>1, <3>4
  <2>3. StartsAt(st, n, st[k])
    BY DEF StartsAt
  <2>4. HeaderAt(st, n, st[k]) = k
    BY <1>11, <2>3, HeaderAtIs
  <2>5. ~StartsAt(st, n, st[k] + 1) /\ ~StartsAt(st, n, st[k] - 1)
    <3>1. st[k] + 1 \in Int /\ (st[k] + 1) - 1 = st[k] /\ st[k] \in Int
      BY <2>1
    <3>2. QED
      BY <1>a, <2>3, <3>1
  <2>6. At(st[k]) = TypeOf(m, k + 1)
    BY <2>1, <2>3, <2>4, <2>5
  <2>7. At(st[k] + 1) = m.exts[k][2]
    <3>1. PICK x \in Nat : x = st[k] + 1 /\ x > 40
      BY <2>1
    <3>2. x - 1 = st[k] /\ x > 40
      BY <2>2, <3>1
    <3>3. ~StartsAt(st, n, x) /\ StartsAt(st, n, x - 1) /\ HeaderAt(st, n, x - 1) = k
      BY <2>3, <2>4, <2>5, <3>1, <3>2
    <3>4. x # 0 /\ x \notin 1 .. 3 /\ x \notin 4 .. 5 /\ x # 6
      BY <3>2
    <3>5. At(x) = m.exts[k][2]
      BY <3>3, <3>4
    <3>6. QED
      BY <3>1, <3>5
  <2> HIDE DEF At
  <2>8. QED
    BY <1>7, <2>2, <2>6, <2>7
<1>13. ShapeBlank6(m, n, st, b)
  BY <1>4, <1>9, <1>10, <1>12, <1>b DEF ShapeBlank6
<1>14. QED
  BY <1>13, <1>x, <1>y, Zenon

LEMMA Made6Shape ==
    ASSUME NEW m, Like6(m), NEW n \in 0 .. MaxWalk, m.exts \in [1 .. n -> ExtHeaders \X Byte]
    PROVE  Shape6(m, n, Starts(m), Made6(m))
<1>1. n \in Nat
  BY DEF MaxWalk
<1>2. Len(m.exts) = n
  BY StartsAre
<1>3. PICK st : st = Starts(m)
  OBVIOUS
<1>4. \A k \in 1 .. n + 1 : /\ st[k] \in Nat /\ 40 <= st[k]
                            /\ \A j \in 1 .. k - 1 : st[j] + 8 <= st[k]
  <2>1. Growing(n, st)
    BY <1>3, StartsGrow, Zenon
  <2>2. QED
    BY <2>1 DEF Growing
<1>5. PICK last \in Nat : last = st[n + 1] /\ 40 <= last
  BY <1>1, <1>4
<1>6. ASSUME NEW k \in 1 .. n PROVE st[k] \in Nat /\ 40 <= st[k] /\ st[k] + 8 <= last
  <2>1. n + 1 \in 1 .. n + 1 /\ k \in 1 .. (n + 1) - 1 /\ k \in 1 .. n + 1
    BY <1>1
  <2>2. st[k] \in Nat /\ st[k] >= 40
    BY <1>4, <2>1
  <2>3. st[k] + 8 <= st[n + 1]
    BY <1>4, <2>1
  <2>4. QED
    BY <1>5, <2>2, <2>3
<1>a. 40 <= last
  BY <1>5
<1>7. PICK size \in Nat : size = last + 20
  OBVIOUS
<1>8. PICK b : b = Blank6(m)
  OBVIOUS
<1>9. /\ b \in Octets(size) /\ b[0] = 96 /\ b[6] = TypeOf(m, 1)
      /\ \A k \in 1 .. n : b[st[k]] = TypeOf(m, k + 1) /\ b[st[k] + 1] = m.exts[k][2]
  <2>1. ShapeBlank6(m, n, st, b)
    BY <1>3, <1>8, Blank6Is, Zenon
  <2>2. QED
    BY <1>5, <1>7, <2>1 DEF ShapeBlank6
<1>10. m.src \in Octets(16) /\ m.dst \in Octets(16)
  BY DEF Like6
<1>11. PICK c : c = Patch(b, 8, m.src)
  OBVIOUS
<1>12. Patched(size, b, 8, 16, m.src, c)
  BY <1>9, <1>10, <1>11, PatchIs
<1>13. /\ c \in Octets(size) /\ \A i \in 0 .. size - 1 : i < 8 \/ i >= 40 => c[i] = b[i]
       /\ \A i \in 0 .. 15 : c[8 + i] = m.src[i]
  <2>1. \A i \in 0 .. 15 : 8 + i \in 0 .. size - 1 /\ (8 + i) - 8 = i
    BY <1>7, <1>a
  <2>2. /\ c \in Octets(size)
        /\ \A i \in 0 .. size - 1 : /\ i < 8 \/ 8 + 16 <= i => c[i] = b[i]
                                    /\ 8 <= i /\ i < 8 + 16 => c[i] = m.src[i - 8]
    BY <1>12 DEF Patched
  <2>3. \A i \in 0 .. size - 1 : i < 8 \/ i >= 40 => c[i] = b[i]
    BY <2>2
  <2>4. ASSUME NEW i \in 0 .. 15 PROVE c[8 + i] = m.src[i]
    <3>1. 8 <= 8 + i /\ 8 + i < 8 + 16
      OBVIOUS
    <3>2. QED
      BY <2>1, <2>2, <3>1
  <2>5. QED
    BY <2>2, <2>3, <2>4
<1>14. PICK full : full = Patch(c, 24, m.dst)
  OBVIOUS
<1>15. Patched(size, c, 24, 16, m.dst, full)
  BY <1>10, <1>13, <1>14, PatchIs
<1>16. /\ full \in Octets(size) /\ \A i \in 0 .. size - 1 : i < 8 \/ i >= 40 => full[i] = b[i]
       /\ \A i \in 0 .. 15 : full[8 + i] = m.src[i] /\ full[24 + i] = m.dst[i]
  <2>1. /\ full \in Octets(size)
        /\ \A i \in 0 .. size - 1 : /\ i < 24 \/ 40 <= i => full[i] = c[i]
                                    /\ 24 <= i /\ i < 40 => full[i] = m.dst[i - 24]
    BY <1>15 DEF Patched
  <2>2. \A i \in 0 .. size - 1 : i < 8 \/ i >= 40 => full[i] = b[i]
    BY <1>13, <2>1
  <2>3. ASSUME NEW i \in 0 .. 15 PROVE full[8 + i] = m.src[i] /\ full[24 + i] = m.dst[i]
    <3>1. /\ 8 + i \in 0 .. size - 1 /\ 24 + i \in 0 .. size - 1 /\ (24 + i) - 24 = i
          /\ 8 + i < 24 /\ 24 <= 24 + i /\ 24 + i < 40
      BY <1>5, <1>7
    <3>2. full[8 + i] = c[8 + i] /\ full[24 + i] = m.dst[(24 + i) - 24]
      BY <2>1, <3>1
    <3>3. QED
      BY <1>13, <3>1, <3>2
  <2>4. QED
    BY <2>1, <2>2, <2>3
<1>17. ASSUME NEW p, p \in Octets(size), \A i \in 0 .. last - 1 : p[i] = full[i],
              Ported(m) => Word(p, last) = m.sport /\ Word(p, last + 2) = m.dport
       PROVE  Shape6(m, n, st, p)
  <2>1. \A i \in 0 .. last - 1 : (i < 8 \/ i >= 40) => p[i] = b[i]
    <3> SUFFICES ASSUME NEW i \in 0 .. last - 1, i < 8 \/ i >= 40 PROVE p[i] = b[i]
      OBVIOUS
    <3>1. i \in 0 .. size - 1
      BY <1>7
    <3>2. full[i] = b[i]
      BY <1>16, <3>1
    <3>3. QED
      BY <1>17, <3>2
  <2>2. p[0] = 96 /\ p[6] = TypeOf(m, 1)
    <3>1. 0 \in 0 .. last - 1 /\ 6 \in 0 .. last - 1 /\ 0 < 8 /\ 6 < 8
      BY <1>a
    <3>2. p[0] = b[0] /\ p[6] = b[6]
      BY <2>1, <3>1
    <3>3. QED
      BY <1>9, <3>2
  <2>3. p[0] \div 16 = 6
    BY <2>2
  <2>4. \A i \in 0 .. 15 : p[8 + i] = m.src[i] /\ p[24 + i] = m.dst[i]
    <3>1. \A i \in 0 .. 15 : 8 + i \in 0 .. last - 1 /\ 24 + i \in 0 .. last - 1
      BY <1>a
    <3>2. \A i \in 0 .. 15 : p[8 + i] = full[8 + i] /\ p[24 + i] = full[24 + i]
      BY <1>17, <3>1, Zenon
    <3>3. \A i \in 0 .. 15 : full[8 + i] = m.src[i] /\ full[24 + i] = m.dst[i]
      BY <1>16
    <3>4. QED
      BY <3>2, <3>3, Zenon
  <2>5. ASSUME NEW k \in 1 .. n PROVE p[st[k]] = TypeOf(m, k + 1) /\ p[st[k] + 1] = m.exts[k][2]
    <3>1. PICK x \in Nat : x = st[k] /\ 40 <= x /\ x + 8 <= last
      BY <1>6
    <3>2. PICK y \in Nat : y = x + 1
      OBVIOUS
    <3>3. x \in 0 .. last - 1 /\ x >= 40 /\ y \in 0 .. last - 1 /\ y >= 40
      BY <3>1, <3>2
    <3>4. p[x] = b[x] /\ p[y] = b[y]
      BY <2>1, <3>3, Zenon
    <3>5. p[st[k]] = b[st[k]] /\ p[st[k] + 1] = b[st[k] + 1]
      BY <3>1, <3>2, <3>4
    <3>6. QED
      BY <1>9, <3>5
  <2>6. QED
    BY <1>5, <1>7, <1>17, <2>2, <2>3, <2>4, <2>5 DEF Shape6
<1>18. CASE ~Ported(m)
  <2>1. Made6(m) = full
    BY <1>8, <1>11, <1>14, <1>18 DEF Made6
  <2>2. QED
    BY <1>3, <1>16, <1>17, <1>18, <2>1
<1>19. CASE Ported(m)
  <2>1. m.sport \in Short /\ m.dport \in Short
    BY DEF Like6
  <2>2. PICK v : v = Ports(m)
    OBVIOUS
  <2>3. v \in Octets(4) /\ 256 * v[0] + v[1] = m.sport /\ 256 * v[2] + v[3] = m.dport
    BY <2>1, <2>2, PortsIs
  <2>4. PICK p : p = Patch(full, last, v)
    OBVIOUS
  <2>5. Made6(m) = p
    BY <1>2, <1>3, <1>5, <1>8, <1>11, <1>14, <1>19, <2>2, <2>4 DEF Made6
  <2>6. Patched(size, full, last, 4, v, p)
    BY <1>16, <2>3, <2>4, PatchIs
  <2>7. p \in Octets(size) /\ \A i \in 0 .. last - 1 : p[i] = full[i]
    BY <1>7, <2>6 DEF Patched
  <2>8. p[last] = v[0] /\ p[last + 1] = v[1] /\ p[last + 2] = v[2] /\ p[(last + 2) + 1] = v[3]
    <3>1. /\ last \in 0 .. size - 1 /\ last + 1 \in 0 .. size - 1 /\ last + 2 \in 0 .. size - 1
          /\ (last + 2) + 1 \in 0 .. size - 1 /\ last - last = 0 /\ (last + 1) - last = 1
          /\ (last + 2) - last = 2 /\ ((last + 2) + 1) - last = 3
      BY <1>7
    <3>2. QED
      BY <2>6, <3>1 DEF Patched
  <2>9. Word(p, last) = m.sport /\ Word(p, last + 2) = m.dport
    BY <2>3, <2>8 DEF Word
  <2>10. QED
    BY <1>3, <1>17, <2>5, <2>7, <2>9
<1>20. QED
  BY <1>18, <1>19

-----------------------------------------------------------------------------
(* What parse() makes of a packet, or of what is left of it.               *)

\* b, of length k, holds what is left of p, of length n, and perhaps padding.
Remains(n, p, k, b) == b \in Octets(k) /\ \A i \in 0 .. k - 1 : i < n => b[i] = p[i]

\* f is the flow of m but for ports that may be missing.
AlmostFlow(m, f) ==
    /\ f = [proto |-> SentFlow(m).proto, src |-> SentFlow(m).src, dst |-> SentFlow(m).dst,
            sport |-> f.sport, dport |-> f.dport]
    /\ f.sport \in {0, SentFlow(m).sport} /\ f.dport \in {0, SentFlow(m).dport}

(* Whole, a packet has the sender's flow; in parts, it is refused or has   *)
(* the flow but for the ports.                                             *)
LEMMA FlowIs ==
    ASSUME NEW m, Ported(m) <=> m.proto \in {TCP, UDP},
           NEW n \in Nat, NEW k \in Nat, NEW p, NEW b, Remains(n, p, k, b),
           NEW o \in Nat, Ported(m) => o + 4 <= n /\ Word(p, o) = m.sport /\ Word(p, o + 2) = m.dport,
           NEW f, f = FlowOf(b, SentFlow(m).src, SentFlow(m).dst, m.proto, o)
    PROVE  (k >= n => f = SentFlow(m)) /\ (k <= n => AlmostFlow(m, f)) /\ f.proto = m.proto
<1>1. Length(b) = k
  BY OctetAt DEF Remains
<1>2. PICK g : g = SentFlow(m)
  OBVIOUS
<1>3. g = [proto |-> m.proto, src |-> g.src, dst |-> g.dst,
           sport |-> IF Ported(m) THEN m.sport ELSE 0, dport |-> IF Ported(m) THEN m.dport ELSE 0]
  BY <1>2 DEF SentFlow
<1>4. f = [proto |-> m.proto, src |-> g.src, dst |-> g.dst,
           sport |-> IF Ported(m) /\ k >= o + 4 THEN Word(b, o) ELSE 0,
           dport |-> IF Ported(m) /\ k >= o + 4 THEN Word(b, o + 2) ELSE 0]
  BY <1>1, <1>2 DEF FlowOf
<1>5. ASSUME Ported(m), k >= o + 4 PROVE Word(b, o) = m.sport /\ Word(b, o + 2) = m.dport
  <2>1. o + 4 <= n
    BY <1>5
  <2>2. \A i \in o .. o + 3 : b[i] = p[i]
    BY <1>5, <2>1 DEF Remains
  <2>3. b[o] = p[o] /\ b[o + 1] = p[o + 1] /\ b[o + 2] = p[o + 2] /\ b[(o + 2) + 1] = p[(o + 2) + 1]
    BY <2>2
  <2>4. QED
    BY <1>5, <2>3 DEF Word
<1>6. CASE ~Ported(m)
  <2>1. f = g
    BY <1>3, <1>4, <1>6
  <2>2. f.sport = g.sport /\ f.proto = m.proto
    BY <1>3, <2>1
  <2>3. f = [proto |-> g.proto, src |-> g.src, dst |-> g.dst, sport |-> f.sport, dport |-> f.dport]
    BY <1>3, <2>1
  <2>4. QED
    BY <1>2, <2>1, <2>2, <2>3 DEF AlmostFlow
<1>7. CASE Ported(m) /\ k >= o + 4
  <2>1. f = g
    BY <1>3, <1>4, <1>5, <1>7
  <2>2. f.sport = g.sport /\ f.proto = m.proto
    BY <1>3, <2>1
  <2>3. f = [proto |-> g.proto, src |-> g.src, dst |-> g.dst, sport |-> f.sport, dport |-> f.dport]
    BY <1>3, <2>1
  <2>4. QED
    BY <1>2, <2>1, <2>2, <2>3 DEF AlmostFlow
<1>8. CASE Ported(m) /\ ~(k >= o + 4)
  <2>1. ~(k >= n)
    BY <1>8
  <2>2. f.sport = 0 /\ f.dport = 0 /\ f.proto = m.proto /\ f.src = g.src /\ f.dst = g.dst
    BY <1>4, <1>8
  <2>3. g.proto = m.proto
    BY <1>3
  <2>4. f = [proto |-> g.proto, src |-> g.src, dst |-> g.dst, sport |-> f.sport, dport |-> f.dport]
    BY <1>4, <2>2, <2>3
  <2>5. QED
    BY <1>2, <2>1, <2>2, <2>4 DEF AlmostFlow
<1>9. QED
  BY <1>6, <1>7, <1>8

(* A packet whose first byte says IPv4 is refused or parsed as such.       *)
LEMMA ParseOf4 ==
    ASSUME NEW k \in Nat, NEW b \in Octets(k), k > 0, b[0] \div 16 = 4
    PROVE  /\ Accepted4(k, b) \/ Parse(b) = None
           /\ Accepted4(k, b) =>
                 Parse(b) = FlowOf(b, Ip4(Slice(b, 12, 16)), Ip4(Slice(b, 16, 20)), b[9], Ihl(b))
<1>1. Length(b) = k /\ Length(b) # 0
  BY OctetAt
<1>2. Parse(b) = ParseV4(b)
  BY <1>1 DEF Parse
<1>3. Ihl(b) \in Nat
  BY IhlIs
<1>4. CASE Accepted4(k, b)
  <2>1. ~(Length(b) < 20 \/ Ihl(b) < 20 \/ Length(b) < Ihl(b))
    BY <1>1, <1>3, <1>4 DEF Accepted4
  <2>2. QED
    BY <1>2, <1>4, <2>1 DEF ParseV4
<1>5. CASE ~Accepted4(k, b)
  <2>1. Length(b) < 20 \/ Ihl(b) < 20 \/ Length(b) < Ihl(b)
    BY <1>1, <1>3, <1>5 DEF Accepted4
  <2>2. QED
    BY <1>2, <1>5, <2>1 DEF ParseV4
<1>6. QED
  BY <1>4, <1>5

LEMMA Parse4 ==
    ASSUME NEW m, Like4(m), FragmentProtos \cap {TCP, UDP} = {},
           NEW k \in Nat, NEW b, Remains(m.ihl + m.len, Made4(m), k, b)
    PROVE  /\ k >= m.ihl + m.len => Parse(b) = SentFlow(m)
           /\ k <= m.ihl + m.len => Parse(b) = None \/ AlmostFlow(m, Parse(b))
<1>1. PICK H \in Nat : H = m.ihl /\ H >= 20
  BY Like4Numbers
<1>2. PICK n \in Nat : n = H + m.len /\ n >= H
  <2>1. m.len \in Nat
    BY DEF Like4
  <2>2. H + m.len \in Nat /\ H + m.len >= H
    BY <2>1
  <2>3. QED
    BY <2>2
<1>3. PICK p : p = Made4(m)
  OBVIOUS
<1>4. /\ p[0] \div 16 = 4 /\ Ihl(p) = H /\ p[9] = m.proto
      /\ \A i \in 0 .. 3 : p[12 + i] = m.src[i] /\ p[16 + i] = m.dst[i]
      /\ Ported(m) => Word(p, H) = m.sport /\ Word(p, H + 2) = m.dport
  BY <1>1, <1>3, Made4Shape DEF Shape4
<1>5. Remains(n, p, k, b)
  BY <1>1, <1>2, <1>3
<1>6. b \in Octets(k) /\ \A i \in 0 .. k - 1 : i < n => b[i] = p[i]
  BY <1>5 DEF Remains
<1>7. CASE k = 0
  <2>1. Parse(b) = None
    <3>1. Length(b) = 0
      BY <1>6, <1>7, OctetAt
    <3>2. QED
      BY <3>1 DEF Parse
  <2>2. ~(k >= n)
    BY <1>1, <1>2, <1>7
  <2>3. QED
    BY <1>1, <1>2, <2>1, <2>2
<1>8. CASE k # 0
  <2>1. b[0] = p[0]
    BY <1>1, <1>2, <1>6, <1>8
  <2>2. Ihl(b) = H /\ b[0] \div 16 = 4
    BY <1>4, <2>1 DEF Ihl
  <2>3. /\ Accepted4(k, b) \/ Parse(b) = None
        /\ Accepted4(k, b) =>
              Parse(b) = FlowOf(b, Ip4(Slice(b, 12, 16)), Ip4(Slice(b, 16, 20)), b[9], H)
    BY <1>6, <1>8, <2>2, ParseOf4
  <2>4. k >= n => Accepted4(k, b)
    BY <1>1, <1>2, <1>6, <2>2 DEF Accepted4
  <2>5. CASE Accepted4(k, b)
    <3>1. k >= H
      BY <2>2, <2>5 DEF Accepted4
    <3>2. \A i \in 0 .. 19 : b[i] = p[i]
      BY <1>1, <1>2, <1>6, <3>1
    <3>3. b[9] = m.proto
      BY <1>4, <3>2
    <3>4. Slice(b, 12, 16) = m.src /\ Slice(b, 16, 20) = m.dst
      <4>1. \A i \in 0 .. 3 : b[12 + i] = m.src[i] /\ b[16 + i] = m.dst[i]
        BY <1>4, <3>2
      <4>2. Slice(b, 12, 16) = [i \in 0 .. 3 |-> b[12 + i]] /\ Slice(b, 16, 20) = [i \in 0 .. 3 |-> b[16 + i]]
        <5>1. 16 - 12 - 1 = 3 /\ 20 - 16 - 1 = 3
          OBVIOUS
        <5>2. QED
          BY <5>1 DEF Slice
      <4>3. m.src = [i \in 0 .. 3 |-> m.src[i]] /\ m.dst = [i \in 0 .. 3 |-> m.dst[i]]
        <5>1. m.src \in Octets(4) /\ m.dst \in Octets(4) /\ 4 - 1 = 3
          BY DEF Like4
        <5>2. QED
          BY <5>1 DEF Octets
      <4>4. QED
        BY <4>1, <4>2, <4>3
    <3>5. SentFlow(m).src = Ip4(m.src) /\ SentFlow(m).dst = Ip4(m.dst)
      BY DEF SentFlow, Like4
    <3>6. Parse(b) = FlowOf(b, SentFlow(m).src, SentFlow(m).dst, m.proto, H)
      BY <2>3, <2>5, <3>3, <3>4, <3>5
    <3>7. Ported(m) <=> m.proto \in {TCP, UDP}
      BY DEF Ported, Like4
    <3>8. Ported(m) => H + 4 <= n /\ Word(p, H) = m.sport /\ Word(p, H + 2) = m.dport
      <4>1. Ported(m) => m.len >= 8 /\ m.len \in Nat
        BY DEF Ported, Like4
      <4>2. QED
        BY <1>2, <1>4, <4>1
    <3>9. (k >= n => Parse(b) = SentFlow(m)) /\ (k <= n => AlmostFlow(m, Parse(b)))
      BY <1>5, <3>6, <3>7, <3>8, FlowIs
    <3>10. QED
      BY <1>1, <1>2, <3>9
  <2>6. CASE ~Accepted4(k, b)
    BY <1>1, <1>2, <2>3, <2>4, <2>6
  <2>7. QED
    BY <2>5, <2>6
<1>9. QED
  BY <1>7, <1>8

\* Where the walk over the headers of b is after each turn.
Walks(b, walk) ==
    /\ walk[0] = [ok |-> TRUE, next |-> b[6], offset |-> 40]
    /\ \A k \in 0 .. MaxWalk - 1 : walk[k + 1] = NextHeader(b, walk[k])
    /\ WalkHeaders(b) = walk[MaxWalk]

\* Places of a walk over extension headers.
Places == [ok : BOOLEAN, next : Byte, offset : Nat]

LEMMA NextHeaderIs ==
    ASSUME NEW k \in Nat, NEW b \in Octets(k), NEW w \in Places
    PROVE  NextHeader(b, w) \in Places
<1>0. Length(b) = k /\ \A i \in 0 .. k - 1 : b[i] \in Byte /\ b[i] \in Nat
  BY OctetAt
<1> USE DEF Places
<1>1. CASE ~w.ok \/ w.next \notin ExtHeaders
  BY <1>1 DEF NextHeader
<1>2. CASE ~(~w.ok \/ w.next \notin ExtHeaders) /\ Length(b) < w.offset + 2
  BY <1>2 DEF NextHeader
<1>3. CASE ~(~w.ok \/ w.next \notin ExtHeaders) /\ ~(Length(b) < w.offset + 2)
  <2>1. NextHeader(b, w) = [ok |-> TRUE, next |-> b[w.offset],
                            offset |-> w.offset + (b[w.offset + 1] + 1) * 8]
    BY <1>3 DEF NextHeader
  <2>2. PICK o \in Nat : o = w.offset /\ ~(k < o + 2)
    BY <1>0, <1>3
  <2>3. b[o] \in Byte /\ b[o + 1] \in Nat
    BY <1>0, <2>2
  <2>4. o + (b[o + 1] + 1) * 8 \in Nat
    BY <2>3
  <2>5. QED
    BY <2>1, <2>2, <2>3, <2>4
<1>4. QED
  BY <1>1, <1>2, <1>3

LEMMA WalkExists ==
    ASSUME NEW k \in Nat, NEW b \in Octets(k), k >= 40
    PROVE  \E walk : Walks(b, walk)
<1> DEFINE Def(g) == [i \in 0 .. MaxWalk |->
                         IF i = 0 THEN [ok |-> TRUE, next |-> b[6], offset |-> 40]
                         ELSE NextHeader(b, g[i - 1])]
           x0 == [ok |-> TRUE, next |-> b[6], offset |-> 40]
           step == [i \in 0 .. MaxWalk - 1 |-> [w \in Places |-> NextHeader(b, w)]]
<1>1. Length(b) = k /\ \A i \in 0 .. k - 1 : b[i] \in Byte /\ b[i] \in Nat
  BY OctetAt
<1>2. x0 \in Places
  BY <1>1 DEF Places
<1>3. \A w \in Places : NextHeader(b, w) \in Places
  BY NextHeaderIs
<1>4. step \in [0 .. MaxWalk - 1 -> [Places -> Places]]
  BY <1>3
<1>5. \A i \in 0 .. MaxWalk - 1, w \in Places : step[i][w] = NextHeader(b, w)
  OBVIOUS
<1> HIDE DEF x0, step
<1>6. PICK g : g \in [0 .. MaxWalk -> Places] /\ g[0] = x0 /\ \A i \in 0 .. MaxWalk - 1 : g[i + 1] = step[i][g[i]]
  <2>1. MaxWalk \in Nat
    BY DEF MaxWalk
  <2>2. \E g : Iterates(MaxWalk, Places, x0, step, g)
    BY <1>2, <1>4, <2>1, Recursion
  <2>3. QED
    BY <2>2 DEF Iterates
<1>7. MaxWalk \in Nat
  BY DEF MaxWalk
<1>8. ASSUME NEW i \in 0 .. MaxWalk - 1 PROVE g[i + 1] = NextHeader(b, g[i])
  <2>1. g[i] \in Places /\ g[i + 1] = step[i][g[i]]
    BY <1>6, <1>7
  <2>2. QED
    BY <1>5, <2>1
<1>9. ASSUME NEW i \in 0 .. MaxWalk
      PROVE  g[i] = IF i = 0 THEN x0 ELSE NextHeader(b, g[i - 1])
  <2>1. CASE i = 0
    BY <1>6, <2>1
  <2>2. CASE i # 0
    <3>1. i - 1 \in 0 .. MaxWalk - 1 /\ (i - 1) + 1 = i
      BY <1>7, <2>2
    <3>2. g[(i - 1) + 1] = NextHeader(b, g[i - 1])
      BY <1>8, <3>1
    <3>3. QED
      BY <2>2, <3>1, <3>2
  <2>3. QED
    BY <2>1, <2>2
<1>10. g = Def(g)
  BY <1>6, <1>9 DEF x0
<1>11. PICK walk : walk = CHOOSE h : h = Def(h)
  OBVIOUS
<1>12. walk = Def(walk)
  BY <1>10, <1>11
<1>13. WalkHeaders(b) = walk[MaxWalk]
  BY <1>11 DEF WalkHeaders
<1>14. \A i \in 0 .. MaxWalk : walk[i] = IF i = 0 THEN x0 ELSE NextHeader(b, walk[i - 1])
  BY <1>12 DEF x0
<1>15. walk[0] = x0
  BY <1>7, <1>14
<1>16. ASSUME NEW i \in 0 .. MaxWalk - 1 PROVE walk[i + 1] = NextHeader(b, walk[i])
  <2>1. i + 1 \in 0 .. MaxWalk /\ i + 1 # 0 /\ (i + 1) - 1 = i
    BY <1>7
  <2>2. QED
    BY <1>14, <2>1
<1>17. QED
  BY <1>13, <1>15, <1>16 DEF Walks, x0

(* The walk goes from header to header, past all of them in a whole packet *)
(* and never elsewhere in a packet cut off.                                *)
LEMMA WalkIs ==
    ASSUME NEW m, Like6(m), NEW n \in 0 .. MaxWalk, m.exts \in [1 .. n -> ExtHeaders \X Byte],
           NEW k \in Nat, k >= 40, NEW b, Remains(Starts(m)[n + 1] + 20, Made6(m), k, b)
    PROVE  /\ WalkHeaders(b).ok => WalkHeaders(b).next = m.proto /\ WalkHeaders(b).offset = Starts(m)[n + 1]
           /\ k >= Starts(m)[n + 1] + 20 => WalkHeaders(b).ok
<1>1. n \in Nat /\ n <= MaxWalk /\ MaxWalk \in Nat
  BY DEF MaxWalk
<1>2. Len(m.exts) = n
  BY StartsAre
<1>3. PICK st : st = Starts(m)
  OBVIOUS
<1>4. PICK p : p = Made6(m)
  OBVIOUS
<1>5. \A j \in 1 .. n + 1 : /\ st[j] \in Nat /\ 40 <= st[j]
                            /\ \A i \in 1 .. j - 1 : st[i] + 8 <= st[j]
  <2>1. Growing(n, st)
    BY <1>3, StartsGrow, Zenon
  <2>2. QED
    BY <2>1 DEF Growing
<1>6. /\ p[6] = TypeOf(m, 1) /\ st[1] = 40
      /\ \A j \in 1 .. n : /\ p[st[j]] = TypeOf(m, j + 1) /\ p[st[j] + 1] = m.exts[j][2]
                           /\ st[j + 1] = st[j] + (m.exts[j][2] + 1) * 8
  <2>1. /\ p[6] = TypeOf(m, 1)
        /\ \A j \in 1 .. n : p[st[j]] = TypeOf(m, j + 1) /\ p[st[j] + 1] = m.exts[j][2]
    BY <1>3, <1>4, Made6Shape DEF Shape6
  <2>2. st[1] = 40 /\ \A j \in 1 .. n : st[j + 1] = st[j] + (m.exts[j][2] + 1) * 8
    <3>1. Following(n, m, st)
      BY <1>3, StartsAre, Zenon
    <3>2. QED
      BY <3>1 DEF Following
  <2>3. QED
    BY <2>1, <2>2, Zenon
<1>7. PICK last \in Nat : last = st[n + 1] /\ 40 <= last
  BY <1>1, <1>5
<1>8. b \in Octets(k) /\ Length(b) = k /\ \A i \in 0 .. k - 1 : i < last + 20 => b[i] = p[i]
  <2>1. b \in Octets(k) /\ \A i \in 0 .. k - 1 : i < last + 20 => b[i] = p[i]
    BY <1>3, <1>4, <1>7 DEF Remains
  <2>2. QED
    BY <2>1, OctetAt
<1>9. PICK walk : Walks(b, walk)
  BY <1>8, WalkExists
<1>10. /\ walk[0] = [ok |-> TRUE, next |-> b[6], offset |-> 40]
       /\ \A j \in 0 .. MaxWalk - 1 : walk[j + 1] = NextHeader(b, walk[j])
       /\ WalkHeaders(b) = walk[MaxWalk]
  BY <1>9 DEF Walks
<1> DEFINE At(j, i) == walk[j].next = TypeOf(m, i) /\ walk[j].offset = st[i]
           C(j) == /\ walk[j] \in Places
                   /\ walk[j].ok /\ j <= n => At(j, j + 1)
                   /\ walk[j].ok /\ j > n => At(j, n + 1)
                   /\ k >= last + 20 => walk[j].ok
           G == {j \in 0 .. MaxWalk : C(j)}
<1>11. 0 \in G
  <2>1. b[6] = p[6] /\ b[6] \in Byte
    BY <1>7, <1>8, OctetAt
  <2>2. walk[0].ok = TRUE /\ walk[0].next = TypeOf(m, 1) /\ walk[0].offset = st[1] /\ walk[0] \in Places
    BY <1>6, <1>10, <2>1 DEF Places
  <2>3. 0 + 1 = 1 /\ ~(0 > n) /\ 0 \in 0 .. MaxWalk
    BY <1>1
  <2>4. QED
    BY <2>2, <2>3
<1>12. ASSUME NEW j \in 0 .. MaxWalk - 1, C(j) PROVE C(j + 1)
  <2>1. PICK w \in Places : w = walk[j]
    BY <1>12
  <2>2. PICK v : v = walk[j + 1]
    OBVIOUS
  <2>3. v = NextHeader(b, w) /\ v \in Places
    <3>1. v = NextHeader(b, w)
      BY <1>10, <2>1, <2>2
    <3>2. QED
      BY <1>8, <3>1, NextHeaderIs
  <2>4. w.ok /\ j <= n => w.next = TypeOf(m, j + 1) /\ w.offset = st[j + 1]
    BY <1>12, <2>1
  <2>5. w.ok /\ j > n => w.next = TypeOf(m, n + 1) /\ w.offset = st[n + 1]
    BY <1>12, <2>1
  <2>6. k >= last + 20 => w.ok
    BY <1>12, <2>1
  <2>a. w.ok \in BOOLEAN /\ w.offset \in Nat
    BY DEF Places
  <2>7. CASE ~w.ok
    <3>1. v = w
      BY <2>3, <2>7 DEF NextHeader
    <3>2. QED
      BY <2>2, <2>3, <2>6, <2>7, <3>1
  <2>8. CASE w.ok /\ j >= n
    <3>1. w.next = TypeOf(m, n + 1) /\ w.offset = st[n + 1]
      <4>1. j = n \/ j > n
        BY <1>1, <2>8
      <4>2. QED
        BY <2>4, <2>5, <2>8, <4>1
    <3>2. TypeOf(m, n + 1) \notin ExtHeaders
      <4>1. n + 1 \in 1 .. n + 1 /\ n + 1 > n
        BY <1>1
      <4>2. QED
        BY <1>2, <4>1, TypesAre
    <3>3. v = w
      BY <2>3, <3>1, <3>2 DEF NextHeader
    <3>4. ~(j + 1 <= n)
      BY <1>1, <2>8
    <3>5. QED
      BY <2>2, <2>3, <2>6, <3>1, <3>3, <3>4
  <2>9. CASE w.ok /\ j < n
    <3>1. PICK a \in 1 .. n : a = j + 1
      BY <1>1, <2>9
    <3>2. w.next = TypeOf(m, a) /\ w.offset = st[a]
      BY <2>4, <2>9, <3>1
    <3>3. w.next \in ExtHeaders
      <4>1. a \in 1 .. n + 1 /\ a <= n
        BY <1>1
      <4>2. TypeOf(m, a) \in ExtHeaders
        BY <1>2, <4>1, TypesAre
      <4>3. QED
        BY <3>2, <4>2
    <3>4. PICK o \in Nat : o = st[a] /\ o + 8 <= last
      <4>1. n + 1 \in 1 .. n + 1 /\ a \in 1 .. (n + 1) - 1 /\ a \in 1 .. n + 1
        BY <1>1
      <4>2. st[a] \in Nat
        BY <1>5, <4>1
      <4>3. st[a] + 8 <= st[n + 1]
        BY <1>5, <4>1
      <4>4. QED
        BY <1>7, <4>2, <4>3
    <3>5. CASE k < o + 2
      <4>1. v = [w EXCEPT !.ok = FALSE]
        BY <1>8, <2>3, <2>9, <3>2, <3>3, <3>4, <3>5 DEF NextHeader
      <4>2. v.ok = FALSE
        BY <4>1 DEF Places
      <4>3. ~(k >= last + 20)
        BY <3>4, <3>5
      <4>4. QED
        BY <2>2, <2>3, <4>2, <4>3
    <3>6. CASE ~(k < o + 2)
      <4>1. v = [ok |-> TRUE, next |-> b[o], offset |-> o + (b[o + 1] + 1) * 8]
        BY <1>8, <2>3, <2>9, <3>2, <3>3, <3>4, <3>6 DEF NextHeader
      <4>2. b[o] = p[o] /\ b[o + 1] = p[o + 1]
        <5>a. o \in Nat /\ o + 8 <= last /\ o + 2 <= k
          BY <3>4, <3>6
        <5>1. o \in 0 .. k - 1 /\ o + 1 \in 0 .. k - 1 /\ o < last + 20 /\ o + 1 < last + 20
          BY <5>a
        <5>2. \A i \in 0 .. k - 1 : i < last + 20 => b[i] = p[i]
          BY <1>8
        <5>3. QED
          BY <5>1, <5>2, Zenon
      <4>3. p[o] = TypeOf(m, a + 1) /\ p[o + 1] = m.exts[a][2] /\ st[a + 1] = o + (m.exts[a][2] + 1) * 8
        BY <1>6, <3>4
      <4>4. v.ok = TRUE /\ v.next = TypeOf(m, a + 1) /\ v.offset = st[a + 1]
        BY <4>1, <4>2, <4>3
      <4>5. j + 1 = a /\ ~(j + 1 > n)
        BY <1>1, <3>1
      <4>6. QED
        BY <2>2, <2>3, <4>4, <4>5
    <3>7. QED
      BY <3>5, <3>6
  <2>10. QED
    BY <1>1, <2>7, <2>8, <2>9, <2>a
<1> HIDE DEF C
<1>13. \A j \in 0 .. MaxWalk - 1 : j \in G => j + 1 \in G
  <2> SUFFICES ASSUME NEW j \in 0 .. MaxWalk - 1, j \in G PROVE j + 1 \in G
    OBVIOUS
  <2>1. j + 1 \in 0 .. MaxWalk /\ C(j)
    BY <1>1
  <2>2. QED
    BY <1>12, <2>1
<1>14. MaxWalk \in 0 .. MaxWalk /\ \A j \in G : C(j)
  BY <1>1
<1> HIDE DEF G
<1>15. \A j \in 0 .. MaxWalk : j \in G
  BY <1>1, <1>11, <1>13, UpTo, Zenon
<1>16. C(MaxWalk)
  BY <1>14, <1>15
<1>17. PICK w : w = WalkHeaders(b)
  OBVIOUS
<1>18. /\ w.ok => w.next = TypeOf(m, n + 1) /\ w.offset = st[n + 1]
       /\ k >= last + 20 => w.ok
  <2>1. CASE MaxWalk = n
    BY <1>10, <1>16, <1>17, <2>1 DEF C
  <2>2. CASE MaxWalk > n
    BY <1>10, <1>16, <1>17, <2>2 DEF C
  <2>3. QED
    BY <1>1, <2>1, <2>2
<1>19. TypeOf(m, n + 1) = m.proto
  <2>1. n + 1 \in 1 .. n + 1 /\ n + 1 > n
    BY <1>1
  <2>2. QED
    BY <1>2, <2>1, TypesAre
<1>20. QED
  BY <1>3, <1>7, <1>17, <1>18, <1>19

LEMMA Parse6 ==
    ASSUME NEW m, Like6(m), NEW n \in 0 .. MaxWalk, m.exts \in [1 .. n -> ExtHeaders \X Byte],
           NEW k \in Nat, NEW b, Remains(Starts(m)[n + 1] + 20, Made6(m), k, b)
    PROVE  /\ k >= Starts(m)[n + 1] + 20 => Parse(b) = SentFlow(m)
           /\ k <= Starts(m)[n + 1] + 20 => Parse(b) = None \/ AlmostFlow(m, Parse(b))
<1>1. PICK last \in Nat : last = Starts(m)[n + 1] /\ 40 <= last
  <2>1. n + 1 \in 1 .. n + 1
    BY DEF MaxWalk
  <2>2. Growing(n, Starts(m))
    BY StartsGrow, Zenon
  <2>3. QED
    BY <2>1, <2>2 DEF Growing
<1>2. PICK size \in Nat : size = last + 20 /\ size >= 60
  BY <1>1
<1>3. PICK p : p = Made6(m)
  OBVIOUS
<1>4. /\ p[0] \div 16 = 6
      /\ \A i \in 0 .. 15 : p[8 + i] = m.src[i] /\ p[24 + i] = m.dst[i]
      /\ Ported(m) => Word(p, last) = m.sport /\ Word(p, last + 2) = m.dport
  BY <1>1, <1>3, Made6Shape DEF Shape6
<1>5. Remains(size, p, k, b)
  BY <1>1, <1>2, <1>3
<1>6. b \in Octets(k) /\ Length(b) = k /\ \A i \in 0 .. k - 1 : i < size => b[i] = p[i]
  <2>1. b \in Octets(k) /\ \A i \in 0 .. k - 1 : i < size => b[i] = p[i]
    BY <1>5 DEF Remains
  <2>2. QED
    BY <2>1, OctetAt
<1>7. CASE k < 40
  <2>1. ~(k >= size)
    BY <1>2, <1>7
  <2>2. CASE k = 0
    <3>1. Parse(b) = None
      BY <1>6, <2>2 DEF Parse
    <3>2. QED
      BY <1>1, <1>2, <2>1, <3>1
  <2>3. CASE k # 0
    <3>1. 0 \in 0 .. k - 1 /\ 0 < size
      BY <1>2, <2>3
    <3>2. b[0] = p[0]
      BY <1>6, <3>1
    <3>3. Parse(b) = ParseV6(b)
      BY <1>4, <1>6, <2>3, <3>2 DEF Parse
    <3>4. Parse(b) = None
      BY <1>6, <1>7, <3>3 DEF ParseV6
    <3>5. QED
      BY <1>1, <1>2, <2>1, <3>4
  <2>4. QED
    BY <2>2, <2>3
<1>8. CASE k >= 40
  <2>1. \A i \in 0 .. 39 : i \in 0 .. k - 1 /\ i < size
    BY <1>2, <1>8
  <2>2. \A i \in 0 .. 39 : b[i] = p[i]
    BY <1>6, <2>1
  <2>3. Parse(b) = ParseV6(b)
    <3>1. b[0] = p[0] /\ k # 0
      BY <1>8, <2>2
    <3>2. QED
      BY <1>4, <1>6, <3>1 DEF Parse
  <2>4. PICK w : w = WalkHeaders(b)
    OBVIOUS
  <2>5. /\ w.ok => w.next = m.proto /\ w.offset = last
        /\ k >= size => w.ok
    <3>1. Remains(Starts(m)[n + 1] + 20, Made6(m), k, b)
      OBVIOUS
    <3>2. /\ w.ok => w.next = m.proto /\ w.offset = Starts(m)[n + 1]
          /\ k >= Starts(m)[n + 1] + 20 => w.ok
      BY <1>8, <2>4, <3>1, WalkIs
    <3>3. QED
      BY <1>1, <1>2, <3>2
  <2>6. Slice(b, 8, 24) = m.src /\ Slice(b, 24, 40) = m.dst
    <3>1. \A i \in 0 .. 15 : b[8 + i] = m.src[i] /\ b[24 + i] = m.dst[i]
      <4>1. \A i \in 0 .. 15 : 8 + i \in 0 .. 39 /\ 24 + i \in 0 .. 39
        OBVIOUS
      <4>2. QED
        BY <1>4, <2>2, <4>1
    <3>2. Slice(b, 8, 24) = [i \in 0 .. 15 |-> b[8 + i]] /\ Slice(b, 24, 40) = [i \in 0 .. 15 |-> b[24 + i]]
      <4>1. 24 - 8 - 1 = 15 /\ 40 - 24 - 1 = 15
        OBVIOUS
      <4>2. QED
        BY <4>1 DEF Slice
    <3>3. m.src = [i \in 0 .. 15 |-> m.src[i]] /\ m.dst = [i \in 0 .. 15 |-> m.dst[i]]
      <4>1. m.src \in Octets(16) /\ m.dst \in Octets(16) /\ 16 - 1 = 15
        BY DEF Like6
      <4>2. QED
        BY <4>1 DEF Octets
    <3>4. QED
      BY <3>1, <3>2, <3>3
  <2>7. SentFlow(m).src = Ip6(m.src) /\ SentFlow(m).dst = Ip6(m.dst)
    BY DEF SentFlow, Like6
  <2>8. CASE ~w.ok
    <3>1. Parse(b) = None
      BY <1>6, <1>8, <2>3, <2>4, <2>8 DEF ParseV6
    <3>2. QED
      BY <1>1, <1>2, <2>5, <2>8, <3>1
  <2>9. CASE w.ok
    <3>1. Parse(b) = FlowOf(b, SentFlow(m).src, SentFlow(m).dst, m.proto, last)
      BY <1>6, <1>8, <2>3, <2>4, <2>5, <2>6, <2>7, <2>9 DEF ParseV6
    <3>2. Ported(m) <=> m.proto \in {TCP, UDP}
      BY DEF Ported, Like6
    <3>3. Ported(m) => last + 4 <= size /\ Word(p, last) = m.sport /\ Word(p, last + 2) = m.dport
      BY <1>2, <1>4
    <3>4. (k >= size => Parse(b) = SentFlow(m)) /\ (k <= size => AlmostFlow(m, Parse(b)))
      BY <1>5, <3>1, <3>2, <3>3, FlowIs
    <3>5. QED
      BY <1>1, <1>2, <3>4
  <2>10. QED
    BY <2>8, <2>9
<1>9. QED
  BY <1>7, <1>8

-----------------------------------------------------------------------------
(* Minimum and maximum.                                                    *)

LEMMA MinOfTwo ==
    ASSUME NEW x \in Nat, NEW y \in Nat
    PROVE  Min({x, y}) = IF x <= y THEN x ELSE y
<1>1. Min({x, y}) = CHOOSE a \in {x, y} : \A c \in {x, y} : a <= c
  BY DEF Min
<1>2. \E a \in {x, y} : \A c \in {x, y} : a <= c
  OBVIOUS
<1>3. Min({x, y}) \in {x, y} /\ \A c \in {x, y} : Min({x, y}) <= c
  BY <1>1, <1>2, Zenon
<1>4. QED
  BY <1>3

LEMMA MaxOfTwo ==
    ASSUME NEW x \in Nat, NEW y \in Nat
    PROVE  Max({x, y}) = IF x >= y THEN x ELSE y
<1>1. Max({x, y}) = CHOOSE a \in {x, y} : \A c \in {x, y} : a >= c
  BY DEF Max
<1>2. \E a \in {x, y} : \A c \in {x, y} : a >= c
  OBVIOUS
<1>3. Max({x, y}) \in {x, y} /\ \A c \in {x, y} : Max({x, y}) >= c
  BY <1>1, <1>2, Zenon
<1>4. QED
  BY <1>3

-----------------------------------------------------------------------------
(* What arrives of a packet.                                               *)

LEMMA CutIs ==
    ASSUME NEW m, NEW n \in Nat, n <= 65535, Made(m) \in Octets(n), m.keep \in Nat
    PROVE  \E k \in Nat : Remains(n, Made(m), k, Cut(m)) /\ k <= n /\ (Whole(m) => k = n)
<1>1. PICK p : p = Made(m)
  OBVIOUS
<1>2. p \in Octets(n) /\ Length(p) = n
  BY <1>1, OctetAt
<1>3. PICK k : k = Min({m.keep, n})
  OBVIOUS
<1>4. k = IF m.keep <= n THEN m.keep ELSE n
  BY <1>3, MinOfTwo
<1>5. k \in Nat /\ k <= n
  BY <1>4
<1>6. Whole(m) => k = n
  BY <1>4 DEF Whole, All
<1>7. Cut(m) = Slice(p, 0, k)
  BY <1>1, <1>2, <1>3 DEF Cut
<1>8. Sliced(p, 0, k - 0, Slice(p, 0, k))
  BY <1>2, <1>5, SliceIs
<1>9. k - 0 = k /\ \A i \in 0 .. k - 1 : 0 + i = i
  BY <1>5
<1>10. Remains(n, p, k, Cut(m))
  BY <1>7, <1>8, <1>9 DEF Sliced, Remains
<1>11. QED
  BY <1>1, <1>5, <1>6, <1>10

\* b is p, of length n, with zeros behind it up to length k.
Stretched(n, p, k, b) ==
    b \in Octets(k) /\ k >= n /\ \A i \in 0 .. k - 1 : b[i] = IF i < n THEN p[i] ELSE 0

(* recv() takes off the header of a frame and nothing else.                *)
LEMMA RecvFramed ==
    ASSUME NEW n \in Nat, NEW p \in Octets(n), NEW least \in Nat
    PROVE  \E k \in Nat : /\ Stretched(n, p, k, Recv(Framed(p, least)))
                          /\ k = IF n >= least THEN n ELSE least
<1>1. Length(p) = n /\ \A i \in 0 .. n - 1 : p[i] \in Byte
  BY OctetAt
<1>2. PICK k \in Nat : k = Max({n, least}) /\ k = (IF n >= least THEN n ELSE least) /\ k >= n
  BY MaxOfTwo
<1>3. PICK N \in Nat : N = 14 + k
  BY <1>2
<1>4. PICK f : f = Framed(p, least)
  OBVIOUS
<1>5. f = [i \in 0 .. N - 1 |-> IF i - 14 \in 0 .. n - 1 THEN p[i - 14] ELSE 0]
  BY <1>1, <1>2, <1>3, <1>4 DEF Framed, LinkHeader
<1>6. f \in Octets(N)
  <2>1. 0 \in Byte
    BY ByteIs
  <2>2. \A i \in 0 .. N - 1 : (IF i - 14 \in 0 .. n - 1 THEN p[i - 14] ELSE 0) \in Byte
    BY <1>1, <2>1
  <2>3. QED
    BY <1>5, <2>2 DEF Octets
<1>7. Length(f) = N
  BY <1>6, OctetAt
<1>8. PICK b : b = Recv(f)
  OBVIOUS
<1>9. b \in Octets(k) /\ \A i \in 0 .. k - 1 : b[i] = f[14 + i]
  <2>1. CASE k > 0
    <3>1. b = Slice(f, 14, N)
      BY <1>3, <1>7, <1>8, <2>1 DEF Recv, LinkHeader
    <3>2. Sliced(f, 14, N - 14, b)
      BY <1>3, <1>6, <3>1, SliceIs
    <3>3. N - 14 = k
      BY <1>3
    <3>4. QED
      BY <3>2, <3>3 DEF Sliced
  <2>2. CASE k = 0
    <3>1. b = Slice(f, 0, 0)
      BY <1>3, <1>7, <1>8, <2>2 DEF Recv, LinkHeader
    <3>2. Sliced(f, 0, 0 - 0, b)
      BY <1>6, <3>1, SliceIs
    <3>3. 0 - 0 = 0 /\ 0 .. 0 - 1 = {}
      OBVIOUS
    <3>4. QED
      BY <2>2, <3>2, <3>3 DEF Sliced
  <2>3. QED
    BY <2>1, <2>2
<1>10. ASSUME NEW i \in 0 .. k - 1 PROVE b[i] = IF i < n THEN p[i] ELSE 0
  <2>1. 14 + i \in 0 .. N - 1 /\ (14 + i) - 14 = i
    BY <1>3
  <2>2. f[14 + i] = IF i \in 0 .. n - 1 THEN p[i] ELSE 0
    BY <1>5, <2>1
  <2>3. QED
    BY <1>9, <2>2
<1>11. Stretched(n, p, k, b)
  BY <1>2, <1>9, <1>10 DEF Stretched
<1>12. QED
  BY <1>2, <1>4, <1>8, <1>11

-----------------------------------------------------------------------------
(* The text of an IPv6 address.                                            *)

LEMMA RunIs ==
    ASSUME NEW a
    PROVE  /\ LongestRun(a).start \in 0 .. 8 /\ LongestRun(a).len \in 0 .. 8
           /\ ZeroRun(a, LongestRun(a).start, LongestRun(a).len)
<1> DEFINE S == {n \in 0 .. 8 : \E i \in 0 .. 8 : ZeroRun(a, i, n)}
           T == {x \in Nat : x <= 8 /\ 8 - x \in S}
<1>1. ZeroRun(a, 0, 0)
  BY DEF ZeroRun
<1>2. 0 \in S
  BY <1>1
<1>3. 8 \in T
  BY <1>2
<1>4. PICK x \in T : \A y \in T : x <= y
  BY <1>3, LeastNumber
<1>5. 8 - x \in S /\ \A n \in S : 8 - x >= n
  <2>1. 8 - x \in S
    BY <1>4
  <2>2. ASSUME NEW n \in S PROVE 8 - x >= n
    <3>1. 8 - n \in Nat /\ 8 - n <= 8 /\ 8 - (8 - n) = n
      OBVIOUS
    <3>2. 8 - n \in T
      BY <3>1
    <3>3. x <= 8 - n
      BY <1>4, <3>2
    <3>4. x \in Nat /\ n \in Nat
      OBVIOUS
    <3> HIDE DEF S, T
    <3>5. QED
      BY <3>3, <3>4
  <2>3. QED
    BY <2>1, <2>2
<1>6. PICK len : len = Max(S)
  OBVIOUS
<1>7. len \in S
  <2>1. len = CHOOSE y \in S : \A n \in S : y >= n
    BY <1>6 DEF Max
  <2> HIDE DEF S
  <2>2. QED
    BY <1>5, <2>1
<1> DEFINE R == {i \in 0 .. 8 : ZeroRun(a, i, len)}
<1>8. R \subseteq Nat /\ R # {}
  BY <1>7
<1>9. PICK z \in R : \A y \in R : z <= y
  BY <1>8, LeastNumber
<1>10. PICK start : start = Min(R)
  OBVIOUS
<1>11. start \in R
  <2>1. start = CHOOSE y \in R : \A n \in R : y <= n
    BY <1>10 DEF Min
  <2> HIDE DEF R
  <2>2. QED
    BY <1>9, <2>1
<1>12. LongestRun(a) = [start |-> start, len |-> len]
  BY <1>6, <1>10 DEF LongestRun
<1>13. QED
  BY <1>7, <1>11, <1>12

\* Word number j of an address.
WordNo(a, j) == Word(a, 2 * j)

\* A text of n numbers and colons.
Text(n, t) == t \in Seq(Int) /\ Len(t) = n /\ \A i \in 1 .. n : t[i] \in Nat \/ t[i] = Colon

\* t is a text of words number `from' up to, but not including, `to'.
Spelled(a, from, to, t) ==
    /\ Text(IF to = from THEN 0 ELSE 2 * (to - from) - 1, t)
    /\ \A j \in 0 .. (to - from) - 1 : t[2 * j + 1] = WordNo(a, from + j)

LEMMA WordNoIs ==
    ASSUME NEW a \in Octets(16), NEW j \in 0 .. 7
    PROVE  WordNo(a, j) \in Nat
<1>1. 2 * j \in 0 .. 16 - 1 /\ 2 * j + 1 \in 0 .. 16 - 1 /\ 16 \in Nat
  OBVIOUS
<1>2. a[2 * j] \in Nat /\ a[2 * j + 1] \in Nat
  BY <1>1, OctetAt
<1>3. QED
  BY <1>2 DEF WordNo, Word

LEMMA WordsAre ==
    ASSUME NEW a \in Octets(16), NEW from \in 0 .. 8, NEW to \in 0 .. 8, from <= to
    PROVE  Spelled(a, from, to, Words(a, from, to))
<1>1. PICK n \in Nat : n = to - from
  OBVIOUS
<1>2. PICK s : s = [k \in 1 .. to - from |-> Word(a, 2 * (from + k - 1))]
  OBVIOUS
<1>3. s = [k \in 1 .. n |-> WordNo(a, from + k - 1)]
  BY <1>1, <1>2 DEF WordNo
<1>4. \A k \in 1 .. n : from + k - 1 \in 0 .. 7
  BY <1>1
<1>5. \A k \in 1 .. n : s[k] \in Nat
  BY <1>3, <1>4, WordNoIs
<1>6. Len(s) = n
  BY <1>3
<1>7. PICK t : t = Words(a, from, to)
  OBVIOUS
<1>8. t = [k \in 1 .. 2 * n - 1 |-> IF k % 2 = 1 THEN s[(k + 1) \div 2] ELSE Colon]
  BY <1>2, <1>6, <1>7 DEF Words, Join
<1>9. PICK l \in Nat : l = IF n = 0 THEN 0 ELSE 2 * n - 1
  OBVIOUS
<1>10. 1 .. 2 * n - 1 = 1 .. l
  BY <1>9
<1>11. \A i \in 1 .. l : t[i] \in Nat \/ t[i] = Colon
  <2> SUFFICES ASSUME NEW i \in 1 .. l, i % 2 = 1 PROVE t[i] \in Nat
    BY <1>8, <1>10
  <2>1. (i + 1) \div 2 \in 1 .. n
    BY <1>9
  <2>2. QED
    BY <1>5, <1>8, <1>10, <2>1
<1>12. t \in Seq(Int) /\ Len(t) = l
  <2>1. Colon \in Int
    BY DEF Colon
  <2>2. \A i \in 1 .. l : t[i] \in Int
    BY <1>11, <2>1
  <2>3. t = [i \in 1 .. l |-> t[i]]
    <3>1. t = [k \in 1 .. l |-> IF k % 2 = 1 THEN s[(k + 1) \div 2] ELSE Colon]
      BY <1>8, <1>10
    <3>2. QED
      BY <3>1
  <2>4. t \in [1 .. l -> Int]
    BY <2>2, <2>3
  <2>5. QED
    BY <2>4
<1>13. ASSUME NEW j \in 0 .. n - 1 PROVE t[2 * j + 1] = WordNo(a, from + j)
  <2>1. 2 * j + 1 \in 1 .. 2 * n - 1 /\ (2 * j + 1) % 2 = 1 /\ ((2 * j + 1) + 1) \div 2 = j + 1
    OBVIOUS
  <2>2. t[2 * j + 1] = s[j + 1]
    BY <1>8, <2>1
  <2>3. j + 1 \in 1 .. n /\ from + (j + 1) - 1 = from + j
    OBVIOUS
  <2>4. QED
    BY <1>3, <2>2, <2>3
<1>14. Text(l, t)
  BY <1>11, <1>12 DEF Text
<1>15. QED
  BY <1>1, <1>7, <1>9, <1>13, <1>14 DEF Spelled

LEMMA Concatenated ==
    ASSUME NEW x \in Seq(Int), NEW y \in Seq(Int)
    PROVE  /\ x \o y \in Seq(Int) /\ Len(x \o y) = Len(x) + Len(y)
           /\ \A i \in 1 .. Len(x) : (x \o y)[i] = x[i]
           /\ \A i \in 1 .. Len(y) : (x \o y)[Len(x) + i] = y[i]
<1>1. x \o y \in Seq(Int) /\ Len(x \o y) = Len(x) + Len(y)
  OBVIOUS
<1>2. \A i \in 1 .. Len(x) : (x \o y)[i] = x[i]
  OBVIOUS
<1>3. ASSUME NEW i \in 1 .. Len(y) PROVE (x \o y)[Len(x) + i] = y[i]
  <2>1. Len(x) + i \in 1 .. Len(x) + Len(y) /\ Len(x) + i > Len(x) /\ (Len(x) + i) - Len(x) = i
    OBVIOUS
  <2>2. QED
    BY <2>1
<1>4. QED
  BY <1>1, <1>2, <1>3

\* t is a text of the words before number s and from number e on.
Shortened(a, s, e, t) ==
    /\ Text((IF s = 0 THEN 1 ELSE 2 * s) + (IF e = 8 THEN 1 ELSE 2 * (8 - e) - 1), t)
    /\ s = 0 => t[1] = Colon
    /\ e = 8 => t[Len(t)] = Colon
    /\ \A j \in 0 .. s - 1 : t[2 * j + 1] = WordNo(a, j)
    /\ \A j \in 0 .. (8 - e) - 1 :
          t[(IF s = 0 THEN 1 ELSE 2 * s) + 2 * j + 1] = WordNo(a, e + j)

(* The text of an address with a run of zeros.                             *)
LEMMA RunText ==
    ASSUME NEW a \in Octets(16), NEW s \in 0 .. 8, NEW e \in 0 .. 8, s + 2 <= e,
           NEW t, t = Words(a, 0, s) \o <<Colon>> \o Words(a, e, 8)
                        \o (IF e = 8 THEN <<Colon>> ELSE <<>>)
    PROVE  Shortened(a, s, e, t)
<1>1. PICK u : u = Words(a, 0, s)
  OBVIOUS
<1>2. PICK v : v = Words(a, e, 8)
  OBVIOUS
<1>3. PICK w : w = IF e = 8 THEN <<Colon>> ELSE <<>>
  OBVIOUS
<1>4. PICK lu \in Nat : lu = IF s = 0 THEN 0 ELSE 2 * s - 1
  OBVIOUS
<1>5. PICK lv \in Nat : lv = IF e = 8 THEN 0 ELSE 2 * (8 - e) - 1
  OBVIOUS
<1>6. PICK lw \in Nat : lw = IF e = 8 THEN 1 ELSE 0
  OBVIOUS
<1>7. Text(lu, u) /\ \A j \in 0 .. s - 1 : u[2 * j + 1] = WordNo(a, j)
  <2>1. Spelled(a, 0, s, u)
    BY <1>1, WordsAre
  <2>2. s - 0 = s /\ \A j \in 0 .. s - 1 : 0 + j = j
    OBVIOUS
  <2>3. QED
    BY <1>4, <2>1, <2>2 DEF Spelled
<1>8. Text(lv, v) /\ \A j \in 0 .. (8 - e) - 1 : v[2 * j + 1] = WordNo(a, e + j)
  <2>1. Spelled(a, e, 8, v)
    BY <1>2, WordsAre
  <2>2. QED
    BY <1>5, <2>1 DEF Spelled
<1>9. Text(lw, w) /\ (e = 8 => w[1] = Colon)
  <2>1. Colon \in Int
    BY DEF Colon
  <2>2. CASE e = 8
    BY <1>3, <1>6, <2>1, <2>2 DEF Text
  <2>3. CASE e # 8
    BY <1>3, <1>6, <2>3 DEF Text
  <2>4. QED
    BY <2>2, <2>3
<1>10. PICK y : y = u \o <<Colon>>
  OBVIOUS
<1>11. /\ y \in Seq(Int) /\ Len(y) = lu + 1 /\ y[lu + 1] = Colon
       /\ \A i \in 1 .. lu : y[i] = u[i]
  <2>1. Colon \in Int
    BY DEF Colon
  <2>2. u \in Seq(Int) /\ Len(u) = lu
    BY <1>7 DEF Text
  <2>a. <<Colon>> \in Seq(Int) /\ Len(<<Colon>>) = 1 /\ <<Colon>>[1] = Colon
    BY <2>1
  <2>3. PICK c \in Seq(Int) : c = <<Colon>> /\ Len(c) = 1 /\ c[1] = Colon
    BY <2>a, Zenon
  <2>4. /\ y \in Seq(Int) /\ Len(y) = lu + 1
        /\ \A i \in 1 .. lu : y[i] = u[i]
        /\ \A i \in 1 .. 1 : y[lu + i] = c[i]
    BY <1>10, <2>2, <2>3, Concatenated
  <2>5. y[lu + 1] = Colon
    BY <2>3, <2>4
  <2>6. QED
    BY <2>4, <2>5
<1>12. PICK z : z = y \o v
  OBVIOUS
<1>13. v \in Seq(Int) /\ Len(v) = lv /\ w \in Seq(Int) /\ Len(w) = lw
  BY <1>8, <1>9 DEF Text
<1>14. /\ z \in Seq(Int) /\ Len(z) = lu + 1 + lv
       /\ \A i \in 1 .. lu + 1 : z[i] = y[i]
       /\ \A i \in 1 .. lv : z[lu + 1 + i] = v[i]
  <2>1. /\ z \in Seq(Int) /\ Len(z) = Len(y) + Len(v)
        /\ \A i \in 1 .. Len(y) : z[i] = y[i]
        /\ \A i \in 1 .. Len(v) : z[Len(y) + i] = v[i]
    BY <1>11, <1>12, <1>13, Concatenated, Zenon
  <2>2. QED
    BY <1>11, <1>13, <2>1
<1>15. t = z \o w
  BY <1>1, <1>2, <1>3, <1>10, <1>12
<1>16. PICK n \in Nat : n = lu + 1 + lv + lw
  OBVIOUS
<1>17. /\ t \in Seq(Int) /\ Len(t) = n
       /\ \A i \in 1 .. lu + 1 + lv : t[i] = z[i]
       /\ \A i \in 1 .. lw : t[lu + 1 + lv + i] = w[i]
  <2>1. PICK x : x = z \o w
    OBVIOUS
  <2>2. /\ x \in Seq(Int) /\ Len(x) = Len(z) + Len(w)
        /\ \A i \in 1 .. Len(z) : x[i] = z[i]
        /\ \A i \in 1 .. Len(w) : x[Len(z) + i] = w[i]
    BY <1>13, <1>14, <2>1, Concatenated, Zenon
  <2>3. QED
    BY <1>13, <1>14, <1>15, <1>16, <2>1, <2>2
<1>18. ASSUME NEW i \in 1 .. lu PROVE t[i] = u[i]
  <2>1. i \in 1 .. lu + 1 /\ i \in 1 .. lu + 1 + lv
    OBVIOUS
  <2>2. QED
    BY <1>11, <1>14, <1>17, <2>1
<1>19. t[lu + 1] = Colon
  <2>1. lu + 1 \in 1 .. lu + 1 /\ lu + 1 \in 1 .. lu + 1 + lv
    OBVIOUS
  <2>2. QED
    BY <1>11, <1>14, <1>17, <2>1
<1>20. \A i \in 1 .. lv : t[lu + 1 + i] = v[i]
  <2> SUFFICES ASSUME NEW i \in 1 .. lv PROVE t[lu + 1 + i] = v[i]
    OBVIOUS
  <2>1. lu + 1 + i \in 1 .. lu + 1 + lv
    OBVIOUS
  <2>2. QED
    BY <1>14, <1>17, <2>1
<1>21. \A i \in 1 .. n : t[i] \in Nat \/ t[i] = Colon
  <2> SUFFICES ASSUME NEW i \in 1 .. n PROVE t[i] \in Nat \/ t[i] = Colon
    OBVIOUS
  <2>1. CASE i <= lu
    <3>1. i \in 1 .. lu
      BY <2>1
    <3>2. QED
      BY <1>7, <1>18, <3>1 DEF Text
  <2>2. CASE i = lu + 1
    BY <1>19, <2>2
  <2>3. CASE i > lu + 1 /\ i <= lu + 1 + lv
    <3>1. i - (lu + 1) \in 1 .. lv /\ lu + 1 + (i - (lu + 1)) = i
      BY <2>3
    <3>2. t[i] = v[i - (lu + 1)]
      BY <1>20, <3>1
    <3>3. QED
      BY <1>8, <3>1, <3>2 DEF Text
  <2>4. CASE i > lu + 1 + lv
    <3>1. i - (lu + 1 + lv) \in 1 .. lw /\ lu + 1 + lv + (i - (lu + 1 + lv)) = i
      BY <1>16, <2>4
    <3>2. t[i] = w[i - (lu + 1 + lv)]
      BY <1>17, <3>1
    <3>3. QED
      BY <1>9, <3>1, <3>2 DEF Text
  <2>5. i \in Nat /\ (i <= lu \/ i = lu + 1 \/ (i > lu + 1 /\ i <= lu + 1 + lv) \/ i > lu + 1 + lv)
    OBVIOUS
  <2>6. QED
    BY <2>1, <2>2, <2>3, <2>4, <2>5, Zenon
<1>22. lu + 1 = IF s = 0 THEN 1 ELSE 2 * s
  BY <1>4
<1>23. n = (lu + 1) + (IF e = 8 THEN 1 ELSE 2 * (8 - e) - 1)
  BY <1>5, <1>6, <1>16
<1>24. Text(n, t)
  BY <1>17, <1>21 DEF Text
<1>25. s = 0 => t[1] = Colon
  BY <1>4, <1>19
<1>26. e = 8 => t[Len(t)] = Colon
  <2> SUFFICES ASSUME e = 8 PROVE t[Len(t)] = Colon
    OBVIOUS
  <2>1. lw = 1 /\ n = lu + 1 + lv + 1 /\ 1 \in 1 .. lw
    BY <1>6, <1>16
  <2>2. QED
    BY <1>9, <1>17, <2>1
<1>27. \A j \in 0 .. s - 1 : t[2 * j + 1] = WordNo(a, j)
  <2> SUFFICES ASSUME NEW j \in 0 .. s - 1 PROVE t[2 * j + 1] = WordNo(a, j)
    OBVIOUS
  <2>1. 2 * j + 1 \in 1 .. lu
    BY <1>4
  <2>2. QED
    BY <1>7, <1>18, <2>1
<1>28. \A j \in 0 .. (8 - e) - 1 : t[(lu + 1) + 2 * j + 1] = WordNo(a, e + j)
  <2> SUFFICES ASSUME NEW j \in 0 .. (8 - e) - 1 PROVE t[(lu + 1) + 2 * j + 1] = WordNo(a, e + j)
    OBVIOUS
  <2>1. 2 * j + 1 \in 1 .. lv /\ lu + 1 + (2 * j + 1) = (lu + 1) + 2 * j + 1
    BY <1>5
  <2>2. QED
    BY <1>8, <1>20, <2>1
<1>29. QED
  BY <1>22, <1>23, <1>24, <1>25, <1>26, <1>27, <1>28 DEF Shortened

\* The words of a from number s up to e are zero and left out of its text.
RunOf(a, s, e) ==
    /\ s \in 0 .. 8 /\ e \in 0 .. 8 /\ s + 2 <= e
    /\ \A j \in s .. e - 1 : WordNo(a, j) = 0
    /\ Shortened(a, s, e, Ip6(a))

(* An address is written in full, or with its run of zeros left out.       *)
LEMMA Ip6Is ==
    ASSUME NEW a \in Octets(16)
    PROVE  \/ Spelled(a, 0, 8, Ip6(a)) /\ ~InnerRun(a)
           \/ \E s, e : RunOf(a, s, e) /\ (InnerRun(a) <=> s > 0 /\ e < 8)
<1>1. PICK run : run = LongestRun(a)
  OBVIOUS
<1>2. PICK s \in 0 .. 8 : s = run.start
  BY <1>1, RunIs
<1>3. PICK l \in 0 .. 8 : l = run.len
  BY <1>1, RunIs
<1>4. ZeroRun(a, s, l)
  BY <1>1, <1>2, <1>3, RunIs
<1>5. PICK e \in 0 .. 8 : e = s + l
  BY <1>4 DEF ZeroRun
<1>6. PICK t : t = Ip6(a)
  OBVIOUS
<1>7. t = IF l < 2 THEN Words(a, 0, 8)
          ELSE Words(a, 0, s) \o <<Colon>> \o Words(a, e, 8) \o (IF e = 8 THEN <<Colon>> ELSE <<>>)
  BY <1>1, <1>2, <1>3, <1>5, <1>6 DEF Ip6
<1>8. InnerRun(a) <=> l >= 2 /\ s > 0 /\ e < 8
  BY <1>1, <1>2, <1>3, <1>5 DEF InnerRun
<1>9. CASE l < 2
  <2>1. Spelled(a, 0, 8, t)
    BY <1>7, <1>9, WordsAre
  <2>2. ~InnerRun(a)
    BY <1>8, <1>9
  <2>3. QED
    BY <1>6, <2>1, <2>2
<1>10. CASE l >= 2
  <2>1. ~(l < 2) /\ s + 2 <= e
    BY <1>5, <1>10
  <2>2. \A j \in s .. e - 1 : WordNo(a, j) = 0
    BY <1>4, <1>5 DEF ZeroRun, WordNo
  <2>3. t = Words(a, 0, s) \o <<Colon>> \o Words(a, e, 8) \o (IF e = 8 THEN <<Colon>> ELSE <<>>)
    BY <1>7, <2>1
  <2>4. Shortened(a, s, e, t)
    BY <2>1, <2>3, RunText
  <2>5. RunOf(a, s, e)
    BY <1>6, <2>1, <2>2, <2>4 DEF RunOf
  <2>6. QED
    BY <1>8, <1>10, <2>5
<1>11. QED
  BY <1>9, <1>10

LEMMA Ip6IsText ==
    ASSUME NEW a \in Octets(16)
    PROVE  \E n \in Nat : Text(n, Ip6(a))
<1>1. CASE Spelled(a, 0, 8, Ip6(a))
  <2>1. Text(15, Ip6(a))
    BY <1>1 DEF Spelled
  <2>2. QED
    BY <2>1
<1>2. ASSUME NEW s, NEW e, RunOf(a, s, e) PROVE \E n \in Nat : Text(n, Ip6(a))
  <2>1. s \in 0 .. 8 /\ e \in 0 .. 8
    BY <1>2 DEF RunOf
  <2>2. PICK n \in Nat : n = (IF s = 0 THEN 1 ELSE 2 * s) + (IF e = 8 THEN 1 ELSE 2 * (8 - e) - 1)
    BY <2>1
  <2>3. Text(n, Ip6(a))
    BY <1>2, <2>2 DEF RunOf, Shortened
  <2>4. QED
    BY <2>3
<1>3. QED
  BY <1>1, <1>2, Ip6Is

(* No IPv6 address is taken for an IPv4 address.                           *)
LEMMA Ip6NotV4 ==
    ASSUME NEW a \in Octets(16)
    PROVE  ~IsV4Text(Ip6(a))
<1>1. PICK t : t = Ip6(a)
  OBVIOUS
<1>2. PICK n \in Nat : Text(n, t)
  BY <1>1, Ip6IsText
<1>3. DOMAIN t = 1 .. n /\ \A i \in 1 .. n : t[i] \in Nat \/ t[i] = Colon
  BY <1>2 DEF Text
<1>4. \A i \in DOMAIN t : t[i] # Dot
  BY <1>3 DEF Dot, Colon
<1>5. QED
  BY <1>1, <1>4 DEF IsV4Text

(* The words of an address are the address.                                *)
LEMMA SameWords ==
    ASSUME NEW a \in Octets(16), NEW d \in Octets(16), \A j \in 0 .. 7 : WordNo(a, j) = WordNo(d, j)
    PROVE  a = d
<1>1. ASSUME NEW j \in 0 .. 7 PROVE a[2 * j] = d[2 * j] /\ a[2 * j + 1] = d[2 * j + 1]
  <2>1. 2 * j \in 0 .. 16 - 1 /\ 2 * j + 1 \in 0 .. 16 - 1 /\ 16 \in Nat
    OBVIOUS
  <2>2. PICK x \in Nat : x = a[2 * j] /\ x <= 255
    BY <2>1, OctetAt, ByteIs
  <2>3. PICK y \in Nat : y = a[2 * j + 1] /\ y <= 255
    BY <2>1, OctetAt, ByteIs
  <2>4. PICK u \in Nat : u = d[2 * j] /\ u <= 255
    BY <2>1, OctetAt, ByteIs
  <2>5. PICK v \in Nat : v = d[2 * j + 1] /\ v <= 255
    BY <2>1, OctetAt, ByteIs
  <2>6. 256 * x + y = 256 * u + v
    BY <2>2, <2>3, <2>4, <2>5 DEF WordNo, Word
  <2>7. x <= 255 /\ y <= 255 /\ u <= 255 /\ v <= 255
    BY <2>2, <2>3, <2>4, <2>5
  <2>8. x = u /\ y = v
    BY <2>6, <2>7
  <2>9. QED
    BY <2>2, <2>3, <2>4, <2>5, <2>8
<1>2. ASSUME NEW i \in 0 .. 15 PROVE a[i] = d[i]
  <2>1. PICK j \in 0 .. 7 : i = 2 * j \/ i = 2 * j + 1
    <3>1. i \div 2 \in 0 .. 7 /\ (i = 2 * (i \div 2) \/ i = 2 * (i \div 2) + 1)
      OBVIOUS
    <3>2. QED
      BY <3>1
  <2>2. QED
    BY <1>1, <2>1
<1>3. 16 - 1 = 15
  OBVIOUS
<1>4. QED
  BY <1>2, <1>3 DEF Octets

(* Only a run of zeros inside an address makes its text ambiguous.         *)
LEMMA Ip6Tells ==
    ASSUME NEW a \in Octets(16), NEW d \in Octets(16), Ip6(a) = Ip6(d), ~InnerRun(a)
    PROVE  a = d
<1>1. PICK t : t = Ip6(a) /\ t = Ip6(d)
  OBVIOUS
<1> DEFINE Full(x) == Len(t) = 15 /\ t[1] \in Nat /\ t[Len(t)] \in Nat
                         /\ \A j \in 0 .. 7 : t[2 * j + 1] = WordNo(x, j)
<1>2. ASSUME NEW x \in Octets(16), Spelled(x, 0, 8, t)
      PROVE  Full(x)
  <2>1. Len(t) = 15 /\ \A j \in 0 .. 7 : t[2 * j + 1] = WordNo(x, 0 + j)
    BY <1>2 DEF Spelled, Text
  <2>2. \A j \in 0 .. 7 : t[2 * j + 1] = WordNo(x, j)
    <3>1. \A j \in 0 .. 7 : 0 + j = j
      OBVIOUS
    <3>2. QED
      BY <2>1, <3>1
  <2>3. t[2 * 0 + 1] \in Nat /\ t[2 * 7 + 1] \in Nat
    BY <2>2, WordNoIs
  <2>4. QED
    BY <2>1, <2>2, <2>3
<1> DEFINE Run(x, s, e) ==
              /\ s \in 0 .. 8 /\ e \in 0 .. 8 /\ s + 2 <= e
              /\ \A j \in s .. e - 1 : WordNo(x, j) = 0
              /\ Len(t) = (IF s = 0 THEN 1 ELSE 2 * s) + (IF e = 8 THEN 1 ELSE 2 * (8 - e) - 1)
              /\ (s = 0 /\ t[1] = Colon) \/ (s > 0 /\ t[1] \in Nat)
              /\ (e = 8 /\ t[Len(t)] = Colon) \/ (e < 8 /\ t[Len(t)] \in Nat)
              /\ \A j \in 0 .. s - 1 : t[2 * j + 1] = WordNo(x, j)
              /\ \A j \in 0 .. (8 - e) - 1 :
                    t[(IF s = 0 THEN 1 ELSE 2 * s) + 2 * j + 1] = WordNo(x, e + j)
<1>3. ASSUME NEW x \in Octets(16), t = Ip6(x), NEW s, NEW e, RunOf(x, s, e)
      PROVE  Run(x, s, e)
  <2>1. s \in 0 .. 8 /\ e \in 0 .. 8 /\ s + 2 <= e
    BY <1>3 DEF RunOf
  <2>2. /\ \A j \in s .. e - 1 : WordNo(x, j) = 0
        /\ Len(t) = (IF s = 0 THEN 1 ELSE 2 * s) + (IF e = 8 THEN 1 ELSE 2 * (8 - e) - 1)
        /\ s = 0 => t[1] = Colon
        /\ e = 8 => t[Len(t)] = Colon
        /\ \A j \in 0 .. s - 1 : t[2 * j + 1] = WordNo(x, j)
        /\ \A j \in 0 .. (8 - e) - 1 :
              t[(IF s = 0 THEN 1 ELSE 2 * s) + 2 * j + 1] = WordNo(x, e + j)
    BY <1>3 DEF RunOf, Shortened, Text
  <2>3. (s = 0 /\ t[1] = Colon) \/ (s > 0 /\ t[1] \in Nat)
    <3>1. CASE s = 0
      BY <2>2, <3>1
    <3>2. CASE s > 0
      <4>1. 0 \in 0 .. s - 1 /\ 2 * 0 + 1 = 1 /\ 0 \in 0 .. 7
        BY <2>1, <3>2
      <4>2. t[1] = WordNo(x, 0)
        BY <2>2, <4>1
      <4>3. QED
        BY <3>2, <4>1, <4>2, WordNoIs
    <3>3. QED
      BY <2>1, <3>1, <3>2
  <2>4. (e = 8 /\ t[Len(t)] = Colon) \/ (e < 8 /\ t[Len(t)] \in Nat)
    <3>1. CASE e = 8
      BY <2>2, <3>1
    <3>2. CASE e < 8
      <4>1. PICK o \in Nat : o = IF s = 0 THEN 1 ELSE 2 * s
        BY <2>1
      <4>2. Len(t) = o + 2 * (8 - e) - 1
        BY <2>1, <2>2, <3>2, <4>1
      <4>3. PICK j \in 0 .. (8 - e) - 1 : j = 7 - e
        BY <2>1, <3>2
      <4>4. Len(t) = o + 2 * j + 1 /\ e + j \in 0 .. 7
        BY <2>1, <4>2, <4>3
      <4>5. t[o + 2 * j + 1] = WordNo(x, e + j)
        BY <2>2, <4>1
      <4>6. QED
        BY <3>2, <4>4, <4>5, WordNoIs
    <3>3. QED
      BY <2>1, <3>1, <3>2
  <2>5. QED
    BY <2>1, <2>2, <2>3, <2>4
<1>b. /\ \A x \in Octets(16) : Spelled(x, 0, 8, t) => Full(x)
      /\ \A x \in Octets(16) : t = Ip6(x) => \A s, e : RunOf(x, s, e) => Run(x, s, e)
  BY <1>2, <1>3
<1> HIDE DEF Full, Run
<1>4. Full(a) \/ \E s, e : Run(a, s, e) /\ ~(s > 0 /\ e < 8)
  <2>1. CASE Spelled(a, 0, 8, t)
    BY <1>b, <2>1
  <2>2. ASSUME NEW s, NEW e, RunOf(a, s, e), InnerRun(a) <=> s > 0 /\ e < 8
        PROVE  \E u, v : Run(a, u, v) /\ ~(u > 0 /\ v < 8)
    BY <1>1, <1>b, <2>2
  <2>3. QED
    BY <1>1, <2>1, <2>2, Ip6Is
<1>5. Full(d) \/ \E s, e : Run(d, s, e)
  BY <1>1, <1>b, Ip6Is
<1> USE DEF Full, Run
<1>a. ~(Colon \in Nat)
  BY DEF Colon
<1>6. CASE Full(a)
  <2>1. Full(d)
    <3>1. ASSUME NEW s, NEW e, Run(d, s, e) PROVE FALSE
      <4>1. s > 0 /\ e < 8 /\ s \in 0 .. 8 /\ e \in 0 .. 8 /\ s + 2 <= e
        BY <1>6, <1>a, <3>1
      <4>2. Len(t) = 2 * s + (2 * (8 - e) - 1)
        BY <3>1, <4>1
      <4>3. 15 = 2 * s + (2 * (8 - e) - 1)
        BY <1>6, <4>2
      <4>4. QED
        BY <4>1, <4>3
    <3>2. QED
      BY <1>5, <3>1
  <2>2. \A j \in 0 .. 7 : WordNo(a, j) = WordNo(d, j)
    BY <1>6, <2>1
  <2>3. QED
    BY <2>2, SameWords
<1>7. ASSUME NEW s, NEW e, Run(a, s, e), ~(s > 0 /\ e < 8) PROVE a = d
  <2>1. s \in 0 .. 8 /\ e \in 0 .. 8 /\ s + 2 <= e /\ (s = 0 \/ e = 8)
    BY <1>7
  <2>2. ~Full(d)
    BY <1>7, <1>a, <2>1
  <2>3. PICK s2, e2 : Run(d, s2, e2)
    BY <1>5, <2>2
  <2>4. s2 \in 0 .. 8 /\ e2 \in 0 .. 8 /\ s2 + 2 <= e2
    BY <2>3
  <2>5. (s = 0 <=> s2 = 0) /\ (e = 8 <=> e2 = 8)
    BY <1>7, <1>a, <2>1, <2>3, <2>4
  <2>6. s = s2 /\ e = e2
    <3>1. (IF s = 0 THEN 1 ELSE 2 * s) + (IF e = 8 THEN 1 ELSE 2 * (8 - e) - 1)
            = (IF s2 = 0 THEN 1 ELSE 2 * s2) + (IF e2 = 8 THEN 1 ELSE 2 * (8 - e2) - 1)
      BY <1>7, <2>3
    <3>2. QED
      BY <2>1, <2>4, <2>5, <3>1
  <2>7. ASSUME NEW j \in 0 .. 7 PROVE WordNo(a, j) = WordNo(d, j)
    <3>1. CASE j < s
      <4>1. j \in 0 .. s - 1
        BY <2>1, <3>1
      <4>2. QED
        BY <1>7, <2>3, <2>6, <4>1
    <3>2. CASE s <= j /\ j < e
      <4>1. j \in s .. e - 1
        BY <2>1, <3>2
      <4>2. QED
        BY <1>7, <2>3, <2>6, <4>1
    <3>3. CASE e <= j
      <4>1. PICK i \in 0 .. (8 - e) - 1 : e + i = j
        <5>1. j - e \in 0 .. (8 - e) - 1 /\ e + (j - e) = j
          BY <2>1, <3>3
        <5>2. QED
          BY <5>1
      <4>2. QED
        BY <1>7, <2>3, <2>6, <4>1
    <3>4. QED
      BY <2>1, <3>1, <3>2, <3>3
  <2>8. QED
    BY <2>7, SameWords
<1>8. QED
  BY <1>4, <1>6, <1>7

-----------------------------------------------------------------------------
(* A packet after the rewrite.                                             *)

\* r is b with another address: the header and both checksums aside, the same bytes.
Readdressed(k, b, at, new, r) ==
    /\ r \in Octets(k) /\ Ihl(r) = Ihl(b) /\ IpValid(r)
    /\ \A i \in 0 .. k - 1 :
          \/ i \in 10 .. 19 \/ r[i] = b[i]
          \/ b[9] \in {TCP, UDP} /\ k >= Ihl(b) + 18 /\ (i = Ihl(b) + 16 \/ i = Ihl(b) + 17)
    /\ \A i \in 0 .. 3 : r[at + i] = new[i] /\ r[(28 - at) + i] = b[(28 - at) + i]
    /\ b[9] \in {TCP, UDP} /\ k >= Ihl(b) + 18 =>
          FoldCarries(Pseudo(Slice(r, 12, 16), Slice(r, 16, 20), r[9], k - Ihl(b))
                        + WordSum(Slice(r, Ihl(b), k))) = 65535

(* Lengths and protocol stay, and the segment but for bytes 16 and 17.     *)
LEMMA SegmentKept ==
    ASSUME NEW m, Like4(m), NEW n \in Nat, n = m.ihl + m.len, NEW k \in Nat, NEW b,
           Remains(n, Made4(m), k, b), k >= n, NEW at, NEW new, NEW r, Readdressed(k, b, at, new, r)
    PROVE  /\ r[9] = m.proto /\ Ihl(r) = m.ihl /\ Ihl(b) = m.ihl /\ b[9] = m.proto
           /\ TotalLength(r) = n /\ Word(r, 6) = Word(Made4(m), 6)
           /\ Segment(r) \in Octets(m.len) /\ Segment(Made4(m)) \in Octets(m.len)
           /\ \A i \in 0 .. m.len - 1 :
                 \/ Segment(r)[i] = Segment(Made4(m))[i]
                 \/ m.proto \in {TCP, UDP} /\ (i = 16 \/ i = 17)
<1>1. PICK H \in Nat : H = m.ihl /\ H >= 20
  BY Like4Numbers
<1>2. PICK l \in Nat : l = m.len
  BY DEF Like4
<1>3. n = H + l
  BY <1>1, <1>2
<1>4. PICK p : p = Made4(m)
  OBVIOUS
<1>5. p \in Octets(n) /\ Ihl(p) = H /\ TotalLength(p) = n /\ p[9] = m.proto
  BY <1>1, <1>3, <1>4, Made4Shape DEF Shape4
<1>6. b \in Octets(k) /\ \A i \in 0 .. k - 1 : i < n => b[i] = p[i]
  BY <1>4 DEF Remains
<1>7. b[0] = p[0] /\ b[2] = p[2] /\ b[3] = p[3] /\ b[6] = p[6] /\ b[7] = p[7] /\ b[9] = p[9]
  BY <1>1, <1>3, <1>6
<1>8. Ihl(b) = H
  BY <1>5, <1>7 DEF Ihl
<1>9. /\ r \in Octets(k) /\ Ihl(r) = H
      /\ \A i \in 0 .. k - 1 :
            \/ i \in 10 .. 19 \/ r[i] = b[i]
            \/ m.proto \in {TCP, UDP} /\ (i = H + 16 \/ i = H + 17)
  BY <1>5, <1>7, <1>8 DEF Readdressed
<1>10. ASSUME NEW i \in {0, 2, 3, 6, 7, 9} PROVE r[i] = b[i]
  <2>1. i \in 0 .. k - 1 /\ ~(i \in 10 .. 19) /\ i # H + 16 /\ i # H + 17
    BY <1>1, <1>3
  <2>2. QED
    BY <1>9, <2>1
<1>11. r[9] = m.proto /\ TotalLength(r) = n /\ Word(r, 6) = Word(p, 6)
  <2>1. r[2] = p[2] /\ r[3] = p[3] /\ r[6] = p[6] /\ r[7] = p[7] /\ r[9] = p[9]
    BY <1>7, <1>10
  <2>2. 6 + 1 = 7
    OBVIOUS
  <2>3. QED
    BY <1>5, <2>1, <2>2 DEF TotalLength, Word
<1>12. PICK s : s = Segment(r)
  OBVIOUS
<1>13. PICK t : t = Segment(p)
  OBVIOUS
<1>14. Sliced(r, H, n - H, s)
  <2>1. s = Slice(r, H, n)
    BY <1>9, <1>11, <1>12 DEF Segment
  <2>2. QED
    BY <1>3, <1>9, <2>1, SliceIs
<1>15. Sliced(p, H, n - H, t)
  <2>1. t = Slice(p, H, n)
    BY <1>5, <1>13 DEF Segment
  <2>2. QED
    BY <1>3, <1>5, <2>1, SliceIs
<1>16. n - H = l
  BY <1>3
<1>17. /\ s \in Octets(l) /\ t \in Octets(l)
       /\ \A i \in 0 .. l - 1 : s[i] = r[H + i] /\ t[i] = p[H + i]
  BY <1>14, <1>15, <1>16 DEF Sliced
<1>18. ASSUME NEW i \in 0 .. l - 1
       PROVE  s[i] = t[i] \/ (m.proto \in {TCP, UDP} /\ (i = 16 \/ i = 17))
  <2>1. H + i \in 0 .. k - 1 /\ H + i < n /\ ~(H + i \in 10 .. 19)
    BY <1>1, <1>3
  <2>2. b[H + i] = p[H + i]
    BY <1>6, <2>1
  <2>3. H + i = H + 16 => i = 16
    OBVIOUS
  <2>4. H + i = H + 17 => i = 17
    OBVIOUS
  <2>5. QED
    BY <1>9, <1>17, <2>1, <2>2, <2>3, <2>4
<1>19. QED
  BY <1>1, <1>2, <1>4, <1>5, <1>7, <1>8, <1>9, <1>11, <1>12, <1>13, <1>17, <1>18

(* The content stays, but for bytes 16 and 17 where there is no checksum.  *)
LEMMA ContentStays ==
    ASSUME NEW m, Like4(m), NEW n \in Nat, n = m.ihl + m.len, NEW k \in Nat, NEW b,
           Remains(n, Made4(m), k, b), k >= n, NEW at, NEW new, NEW r, Readdressed(k, b, at, new, r)
    PROVE  /\ DOMAIN Content(r) = DOMAIN Content(Made4(m))
           /\ \A i \in DOMAIN Content(Made4(m)) \ Overwritten(m) :
                 Content(r)[i] = Content(Made4(m))[i]
<1>1. PICK l \in Nat : l = m.len
  BY DEF Like4
<1>2. PICK s : s = Segment(r)
  OBVIOUS
<1>3. PICK p : p = Made4(m)
  OBVIOUS
<1>4. PICK t : t = Segment(p)
  OBVIOUS
<1>5. /\ r[9] = m.proto /\ Word(r, 6) = Word(p, 6) /\ s \in Octets(l) /\ t \in Octets(l)
      /\ \A i \in 0 .. l - 1 : s[i] = t[i] \/ (m.proto \in {TCP, UDP} /\ (i = 16 \/ i = 17))
  BY <1>1, <1>2, <1>3, <1>4, SegmentKept
<1>6. p[9] = m.proto /\ Word(p, 6) = IF m.later THEN 1 ELSE 0
  BY <1>3, Made4Shape DEF Shape4
<1>7. FirstFragment(r) = FirstFragment(p) /\ (FirstFragment(p) <=> ~m.later)
  <2>1. 0 % 8192 = 0 /\ 1 % 8192 # 0
    OBVIOUS
  <2>2. QED
    BY <1>5, <1>6, <2>1 DEF FirstFragment, Like4
<1>8. CASE m.proto \in {TCP, UDP} /\ ~m.later
  <2>1. PICK o \in Nat : o = SumOffset(m.proto) /\ (m.proto = TCP => o = 16)
    BY <1>8 DEF SumOffset
  <2>2. PICK z : z = ToBytes(0)
    OBVIOUS
  <2>3. z \in Octets(2)
    BY <2>2, ZeroBytes
  <2>4. PICK c : c = Patch(s, o, z)
    OBVIOUS
  <2>5. PICK d : d = Patch(t, o, z)
    OBVIOUS
  <2>6. Content(r) = c /\ Content(p) = d
    BY <1>2, <1>4, <1>5, <1>6, <1>7, <1>8, <2>1, <2>2, <2>4, <2>5 DEF Content
  <2>7. Patched(l, s, o, 2, z, c) /\ Patched(l, t, o, 2, z, d)
    <3>1. 2 \in Nat
      OBVIOUS
    <3>2. QED
      BY <1>5, <2>3, <2>4, <2>5, <3>1, PatchIs
  <2>8. c \in Octets(l) /\ d \in Octets(l)
    BY <2>7 DEF Patched
  <2>9. DOMAIN c = 0 .. l - 1 /\ DOMAIN d = 0 .. l - 1
    BY <2>8 DEF Octets
  <2>10. ASSUME NEW i \in 0 .. l - 1, i \notin Overwritten(m) PROVE c[i] = d[i]
    <3>1. CASE o <= i /\ i < o + 2
      <4>1. c[i] = z[i - o] /\ d[i] = z[i - o]
        BY <2>7, <3>1 DEF Patched
      <4>2. QED
        BY <4>1
    <3>2. CASE i < o \/ o + 2 <= i
      <4>1. c[i] = s[i] /\ d[i] = t[i]
        BY <2>7, <3>2 DEF Patched
      <4>2. i # 16 /\ i # 17
        <5>1. CASE m.proto = TCP
          BY <2>1, <3>2, <5>1
        <5>2. CASE m.proto = UDP
          BY <2>10, <5>2 DEF Overwritten
        <5>3. QED
          BY <1>8, <5>1, <5>2
      <4>3. QED
        BY <1>5, <4>1, <4>2
    <3>3. QED
      BY <2>1, <3>1, <3>2
  <2>11. QED
    BY <1>3, <2>6, <2>9, <2>10
<1>9. CASE ~(m.proto \in {TCP, UDP} /\ ~m.later)
  <2>1. Content(r) = s /\ Content(p) = t
    BY <1>2, <1>4, <1>5, <1>6, <1>7, <1>9 DEF Content
  <2>2. DOMAIN s = 0 .. l - 1 /\ DOMAIN t = 0 .. l - 1
    BY <1>5 DEF Octets
  <2>3. ASSUME NEW i \in 0 .. l - 1, i \notin Overwritten(m) PROVE s[i] = t[i]
    <3>1. m.proto \in {TCP, UDP} => i # 16 /\ i # 17
      BY <1>9, <2>3 DEF Overwritten
    <3>2. QED
      BY <1>5, <3>1
  <2>4. QED
    BY <1>3, <2>1, <2>2, <2>3
<1>10. QED
  BY <1>8, <1>9

\* What a receiver adds up.
Received(r, len, q) == Pseudo(Slice(r, 12, 16), Slice(r, 16, 20), r[9], len) + WordSum(q)

LEMMA L4ValidIs ==
    ASSUME NEW r, r[9] \in {TCP, UDP}
    PROVE  L4Valid(r) <=> FoldCarries(Received(r, Length(Segment(r)), Segment(r))) = 65535
BY DEF L4Valid, Received

(* A sum that was made right over a frame's padding is right for the       *)
(* receiver, who does not see the padding, if there was none.              *)
LEMMA LongSegment ==
    ASSUME NEW m, Like4(m), m.proto \in {TCP, UDP}, m.len >= 18,
           NEW n \in Nat, n = m.ihl + m.len, NEW k \in Nat, k <= 65535, NEW b,
           Stretched(n, Made4(m), k, b), NEW at, NEW new, NEW r, Readdressed(k, b, at, new, r)
    PROVE  L4Valid(r) <=> k = n
<1>1. PICK H \in Nat : H = m.ihl /\ H >= 20
  BY Like4Numbers
<1>2. PICK l \in Nat : l = m.len /\ l >= 18
  BY DEF Like4
<1>3. n = H + l /\ k >= n
  BY <1>1, <1>2 DEF Stretched
<1>4. PICK j \in Nat : j = k - H /\ j >= l /\ j <= 65535 /\ (j = l <=> k = n)
  BY <1>3
<1>5. Remains(n, Made4(m), k, b)
  BY DEF Stretched, Remains
<1>6. /\ r[9] = m.proto /\ Ihl(r) = H /\ Ihl(b) = H /\ b[9] = m.proto /\ TotalLength(r) = n
      /\ Segment(r) \in Octets(l)
  BY <1>1, <1>2, <1>3, <1>5, SegmentKept
<1>7. PICK s : s = Segment(r)
  OBVIOUS
<1>8. s = Slice(r, H, n) /\ s \in Octets(l) /\ Length(s) = l
  BY <1>6, <1>7, OctetAt DEF Segment
<1>9. PICK c : c = Slice(r, H, k)
  OBVIOUS
<1>10. /\ r \in Octets(k)
       /\ \A i \in 0 .. k - 1 : i \in 10 .. 19 \/ r[i] = b[i] \/ i = H + 16 \/ i = H + 17
       /\ FoldCarries(Received(r, j, c)) = 65535
  BY <1>3, <1>4, <1>6, <1>9, <1>2 DEF Readdressed, Received
<1>11. c \in Octets(j) /\ \A i \in 0 .. j - 1 : c[i] = r[H + i]
  <2>1. Sliced(r, H, k - H, c)
    BY <1>3, <1>9, <1>10, SliceIs
  <2>2. QED
    BY <1>4, <2>1 DEF Sliced
<1>12. \A i \in 0 .. l - 1 : s[i] = r[H + i]
  <2>1. Sliced(r, H, n - H, s)
    BY <1>3, <1>8, <1>10, SliceIs
  <2>2. n - H = l
    BY <1>3
  <2>3. QED
    BY <2>1, <2>2 DEF Sliced
<1>13. ASSUME NEW i \in 0 .. j - 1 PROVE c[i] = IF i < l THEN s[i] ELSE 0
  <2>1. CASE i < l
    BY <1>11, <1>12, <2>1
  <2>2. CASE ~(i < l)
    <3>1. /\ H + i \in 0 .. k - 1 /\ ~(H + i \in 10 .. 19) /\ ~(H + i < n)
          /\ H + i # H + 16 /\ H + i # H + 17
      BY <1>1, <1>2, <1>3, <1>4, <2>2
    <3>2. r[H + i] = b[H + i] /\ b[H + i] = 0
      BY <1>10, <3>1 DEF Stretched
    <3>3. QED
      BY <1>11, <2>2, <3>2
  <2>3. QED
    BY <2>1, <2>2
<1>14. PICK W \in Nat : W = WordSum(s) /\ W = WordSum(c)
  <2>1. WordSum(c) = WordSum(s)
    BY <1>4, <1>8, <1>11, <1>13, WordSumPadded
  <2>2. WordSum(s) \in Nat
    BY <1>8, WordSumIs
  <2>3. QED
    BY <2>1, <2>2
<1>15. PICK A \in Nat : A > 0 /\ \A x \in Nat : x <= 65535 =>
                 Pseudo(Slice(r, 12, 16), Slice(r, 16, 20), r[9], x) = A + x
  <2>1. PICK u \in Nat, v \in Nat : u = WordSum(Slice(r, 12, 16)) /\ v = WordSum(Slice(r, 16, 20))
    <3>1. Sliced(r, 12, 16 - 12, Slice(r, 12, 16)) /\ Sliced(r, 16, 20 - 16, Slice(r, 16, 20))
      BY <1>1, <1>3, <1>10, SliceIs
    <3>2. 16 - 12 = 4 /\ 20 - 16 = 4 /\ 4 \in Nat
      OBVIOUS
    <3>3. Slice(r, 12, 16) \in Octets(4) /\ Slice(r, 16, 20) \in Octets(4)
      BY <3>1, <3>2 DEF Sliced
    <3>4. QED
      BY <3>2, <3>3, WordSumIs
  <2>2. PICK q \in Nat : q = r[9] /\ q > 0
    BY <1>6 DEF TCP, UDP
  <2>3. \A x \in Nat : x <= 65535 => x % 65536 = x
    OBVIOUS
  <2>4. (u + v) + q \in Nat /\ (u + v) + q > 0
    BY <2>2
  <2>5. \A x \in Nat : x <= 65535 =>
           Pseudo(Slice(r, 12, 16), Slice(r, 16, 20), r[9], x) = ((u + v) + q) + x
    BY <2>1, <2>2, <2>3 DEF Pseudo
  <2>6. QED
    BY <2>4, <2>5
<1>16. Received(r, j, c) = (A + j) + W /\ Received(r, l, s) = (A + l) + W
  BY <1>4, <1>14, <1>15 DEF Received
<1>17. PICK t \in Nat : t = (A + l) + W /\ t # 0
  BY <1>15
<1>18. PICK x \in Nat : x = (A + j) + W /\ t <= x /\ x < t + 65535 /\ (t = x <=> k = n)
  BY <1>2, <1>4, <1>17
<1>19. FoldCarries(t) = 65535 <=> t = x
  <2>1. FoldCarries(x) = 65535
    BY <1>10, <1>16, <1>18
  <2>2. QED
    BY <1>17, <1>18, <2>1, FoldLess
<1>20. FoldCarries(Received(r, l, s)) = 65535 <=> k = n
  BY <1>16, <1>17, <1>18, <1>19
<1>21. L4Valid(r) <=> FoldCarries(Received(r, l, s)) = 65535
  <2>1. r[9] \in {TCP, UDP}
    BY <1>6
  <2>2. L4Valid(r) <=> FoldCarries(Received(r, Length(Segment(r)), Segment(r))) = 65535
    BY <2>1, L4ValidIs
  <2>3. Segment(r) = s /\ Length(Segment(r)) = l
    BY <1>7, <1>8
  <2>4. QED
    BY <2>2, <2>3
<1>22. QED
  BY <1>20, <1>21

(* Of a segment too short for offset 16 the old checksum stays: it is      *)
(* right if the new address adds up to what the old one did.               *)
LEMMA ShortSegment ==
    ASSUME NEW m, Like4(m), Ported(m), m.len <= 16,
           NEW n \in Nat, n = m.ihl + m.len, NEW k \in Nat, NEW b,
           Stretched(n, Made4(m), k, b), NEW at \in {12, 16}, NEW new \in Octets(4),
           NEW r, Readdressed(k, b, at, new, r), NEW old, old = IF at = 12 THEN m.src ELSE m.dst
    PROVE  L4Valid(r) <=> Congruent(WordSum(old), WordSum(new))
<1>1. PICK H \in Nat : H = m.ihl /\ H >= 20
  BY Like4Numbers
<1>2. PICK l \in Nat : l = m.len /\ l <= 16
  BY DEF Like4
<1>3. n = H + l /\ k >= n /\ b \in Octets(k)
  BY <1>1, <1>2 DEF Stretched
<1>4. PICK p : p = Made4(m)
  OBVIOUS
<1>5. Remains(n, p, k, b)
  BY <1>4 DEF Stretched, Remains
<1>6. PICK s : s = Segment(r)
  OBVIOUS
<1>7. /\ r[9] = m.proto /\ s \in Octets(l) /\ Segment(p) \in Octets(l)
      /\ \A i \in 0 .. l - 1 : s[i] = Segment(p)[i] \/ i = 16 \/ i = 17
  BY <1>2, <1>4, <1>5, <1>6, <1>3, SegmentKept
<1>8. s = Segment(p) /\ Length(s) = l
  <2>1. \A i \in 0 .. l - 1 : s[i] = Segment(p)[i]
    BY <1>2, <1>7
  <2>2. s = Segment(p)
    BY <1>7, <2>1 DEF Octets
  <2>3. QED
    BY <1>7, <2>2, OctetAt
<1>9. /\ Ihl(p) = H /\ TotalLength(p) = n
      /\ \A i \in 0 .. 3 : p[12 + i] = m.src[i] /\ p[16 + i] = m.dst[i]
  BY <1>1, <1>4, Made4Shape DEF Shape4
<1>10. FoldCarries(Pseudo(m.src, m.dst, m.proto, l) + WordSum(s)) = 65535
  <2>1. s = Slice(p, m.ihl, m.ihl + m.len)
    BY <1>1, <1>8, <1>9 DEF Segment
  <2>2. QED
    BY <1>2, <1>4, <2>1, Made4Shape DEF Summed
<1>11. m.src \in Octets(4) /\ m.dst \in Octets(4)
  BY DEF Like4
<1>12. \A i \in 0 .. 3 : b[12 + i] = m.src[i] /\ b[16 + i] = m.dst[i]
  <2>1. \A i \in 0 .. 3 : /\ 12 + i \in 0 .. k - 1 /\ 12 + i < n
                           /\ 16 + i \in 0 .. k - 1 /\ 16 + i < n
    BY <1>1, <1>3
  <2>2. QED
    BY <1>5, <1>9, <2>1 DEF Remains
<1>13. \A i \in 0 .. 3 : r[at + i] = new[i] /\ r[(28 - at) + i] = b[(28 - at) + i]
  BY DEF Readdressed
<1>14. /\ Slice(r, 12, 16) = IF at = 12 THEN new ELSE m.src
       /\ Slice(r, 16, 20) = IF at = 12 THEN m.dst ELSE new
  <2>1. \A a \in Octets(4) : a = [i \in 0 .. 3 |-> a[i]]
    <3>1. 4 - 1 = 3
      OBVIOUS
    <3>2. QED
      BY <3>1 DEF Octets
  <2>2. /\ Slice(r, 12, 16) = [i \in 0 .. 3 |-> r[12 + i]]
        /\ Slice(r, 16, 20) = [i \in 0 .. 3 |-> r[16 + i]]
    <3>1. 16 - 12 - 1 = 3 /\ 20 - 16 - 1 = 3
      OBVIOUS
    <3>2. QED
      BY <3>1 DEF Slice
  <2>3. CASE at = 12
    <3>1. 28 - at = 16
      BY <2>3
    <3>2. \A i \in 0 .. 3 : r[12 + i] = new[i] /\ r[16 + i] = m.dst[i]
      BY <1>12, <1>13, <2>3, <3>1
    <3>3. QED
      BY <1>11, <2>1, <2>2, <2>3, <3>2
  <2>4. CASE at = 16
    <3>1. 28 - at = 12
      BY <2>4
    <3>2. \A i \in 0 .. 3 : r[16 + i] = new[i] /\ r[12 + i] = m.src[i]
      BY <1>12, <1>13, <2>4, <3>1
    <3>3. QED
      BY <1>11, <2>1, <2>2, <2>4, <3>2
  <2>5. QED
    BY <2>3, <2>4
<1>15. PICK S \in Nat, D \in Nat, C \in Nat, W \in Nat :
          S = WordSum(m.src) /\ D = WordSum(m.dst) /\ C = WordSum(new) /\ W = WordSum(s)
  <2>1. 4 \in Nat
    OBVIOUS
  <2>2. QED
    BY <1>7, <1>11, <2>1, WordSumIs
<1>16. PICK q \in Nat : q = m.proto /\ q > 0
  BY DEF Ported, TCP, UDP
<1>17. l % 65536 = l
  BY <1>2
<1>18. FoldCarries(((S + D) + q + l) + W) = 65535
  BY <1>10, <1>15, <1>16, <1>17 DEF Pseudo
<1>a. L4Valid(r) <=> FoldCarries(Received(r, l, s)) = 65535
  <2>1. r[9] \in {TCP, UDP}
    BY <1>7 DEF Ported
  <2>2. L4Valid(r) <=> FoldCarries(Received(r, Length(Segment(r)), Segment(r))) = 65535
    BY <2>1, L4ValidIs
  <2>3. Segment(r) = s /\ Length(Segment(r)) = l
    BY <1>6, <1>8
  <2>4. QED
    BY <2>2, <2>3
<1>19. CASE at = 12
  <2>1. PICK t \in Nat : t = ((S + D) + q + l) + W
    OBVIOUS
  <2>2. PICK u \in Nat : u = ((C + D) + q + l) + W /\ u # 0 /\ t + C = u + S
    BY <1>16, <2>1
  <2>3. Received(r, l, s) = u
    BY <1>7, <1>14, <1>15, <1>16, <1>17, <1>19, <2>2 DEF Received, Pseudo
  <2>4. FoldCarries(t) = 65535
    BY <1>18, <2>1
  <2>5. AddsUp(t)
    BY <2>4 DEF AddsUp
  <2>6. AddsUp(u) <=> Congruent(S, C)
    BY <2>2, <2>5, FoldExchange, Zenon
  <2>7. QED
    BY <1>15, <1>a, <1>19, <2>3, <2>6 DEF AddsUp
<1>20. CASE at = 16
  <2>1. PICK t \in Nat : t = ((S + D) + q + l) + W
    OBVIOUS
  <2>2. PICK u \in Nat : u = ((S + C) + q + l) + W /\ u # 0 /\ t + C = u + D
    BY <1>16, <2>1
  <2>3. Received(r, l, s) = u
    BY <1>7, <1>14, <1>15, <1>16, <1>17, <1>20, <2>2 DEF Received, Pseudo
  <2>4. FoldCarries(t) = 65535
    BY <1>18, <2>1
  <2>5. AddsUp(t)
    BY <2>4 DEF AddsUp
  <2>6. AddsUp(u) <=> Congruent(D, C)
    BY <2>2, <2>5, FoldExchange, Zenon
  <2>7. QED
    BY <1>15, <1>a, <1>20, <2>3, <2>6 DEF AddsUp
<1>21. QED
  BY <1>19, <1>20

-----------------------------------------------------------------------------
(* The way of a packet.                                                    *)

Outgoing == Packets4(Client, Server, ClientPort, ServerPort) \cup Packets6

Incoming == Packets4(Server, EgressIp, ServerPort, ClientPort)

\* What recv() returns of a packet.
Arrived(m) == Recv(OnLink(m))

LooksV4(b) == Length(b) >= 20 /\ b[0] \div 16 = 4

(* Where the packet, the flow and the maker of a packet belong together.   *)
PacketInv ==
    /\ stage = "tun" => made \in Outgoing /\ pkt = Cut(made)
    /\ stage = "sent" =>
          /\ made \in Outgoing /\ flow = Parse(Cut(made)) /\ flow # None /\ IsV4Text(flow.dst)
          /\ pkt = RewriteSource(Cut(made), EgressIp)
    /\ stage = "frame" => made \in Incoming /\ pkt = OnLink(made)
    /\ stage = "client" =>
          /\ made \in Incoming /\ flow = Parse(Arrived(made)) /\ flow # None
          /\ pkt = RewriteDest(Arrived(made), Client)
    /\ stage = "dropped" =>
          \/ made \in Outgoing /\ flow = Parse(Cut(made))
          \/ /\ made \in Incoming
             /\ flow = IF LooksV4(Arrived(made)) THEN Parse(Arrived(made)) ELSE None

LEMMA ConstantsAre ==
    /\ Client \in Octets(4) /\ Server \in Octets(4) /\ EgressIp \in Octets(4)
    /\ ClientPort \in Short /\ ServerPort \in Short
<1>1. \A a \in {Client, Server, EgressIp} : a \in Octets(4)
  BY AddressAssumption, OctetsFour, Zenon
<1>2. ClientPort \in Nat /\ ClientPort < 65536
  BY NumberAssumption
<1>3. ServerPort \in Nat /\ ServerPort < 65536
  BY NumberAssumption
<1>4. QED
  BY <1>1, <1>2, <1>3 DEF Short

\* b is what is left of the IPv4 packet made from m, all of it and padding if it is whole.
LeftOf4(m, k, b) ==
    /\ k \in Nat /\ Remains(m.ihl + m.len, Made4(m), k, b)
    /\ Whole(m) \/ k <= m.ihl + m.len
    /\ Whole(m) => k >= m.ihl + m.len

LEMMA CutLeft4 ==
    ASSUME NEW m, Like4(m)
    PROVE  \E k : LeftOf4(m, k, Cut(m)) /\ (Whole(m) => k = m.ihl + m.len)
<1>1. PICK n \in Nat : n = m.ihl + m.len /\ n <= 65535
  BY Like4Numbers, ShortIs
<1>2. Made(m) = Made4(m)
  BY DEF Made, Like4
<1>3. Made(m) \in Octets(n)
  BY <1>1, <1>2, Made4Shape DEF Shape4
<1>4. m.keep \in Nat
  BY DEF Like4
<1>5. PICK k \in Nat : Remains(n, Made(m), k, Cut(m)) /\ k <= n /\ (Whole(m) => k = n)
  BY <1>1, <1>3, <1>4, CutIs
<1>6. QED
  BY <1>1, <1>2, <1>5 DEF LeftOf4

(* What comes in of a packet: all of it, padded to its frame, or a part.   *)
LEMMA ArrivedLeft4 ==
    ASSUME NEW m, Like4(m)
    PROVE  \E k : /\ LeftOf4(m, k, Arrived(m))
                  /\ Whole(m) => /\ Stretched(m.ihl + m.len, Made4(m), k, Arrived(m))
                                 /\ k = IF m.ihl + m.len >= Frame THEN m.ihl + m.len ELSE Frame
<1>1. PICK n \in Nat : n = m.ihl + m.len
  BY Like4Numbers, ShortIs
<1>2. Made(m) = Made4(m)
  BY DEF Made, Like4
<1>3. Made(m) \in Octets(n)
  BY <1>1, <1>2, Made4Shape DEF Shape4
<1>4. CASE Whole(m)
  <2>1. Arrived(m) = Recv(Framed(Made(m), Frame)) /\ Frame \in Nat
    BY <1>4, NumberAssumption DEF Arrived, OnLink
  <2>2. PICK k \in Nat : /\ Stretched(n, Made(m), k, Arrived(m))
                         /\ k = IF n >= Frame THEN n ELSE Frame
    BY <1>3, <2>1, RecvFramed
  <2>3. Remains(n, Made(m), k, Arrived(m)) /\ k >= n
    BY <2>2 DEF Stretched, Remains
  <2>4. QED
    BY <1>1, <1>2, <1>4, <2>2, <2>3 DEF LeftOf4
<1>5. CASE ~Whole(m)
  <2>1. PICK k : LeftOf4(m, k, Cut(m))
    BY CutLeft4
  <2>2. k \in Nat /\ Cut(m) \in Octets(k)
    BY <2>1 DEF LeftOf4, Remains
  <2>3. PICK j \in Nat : /\ Stretched(k, Cut(m), j, Recv(Framed(Cut(m), 0)))
                         /\ j = IF k >= 0 THEN k ELSE 0
    BY <2>2, RecvFramed
  <2>4. j = k /\ Arrived(m) = Recv(Framed(Cut(m), 0))
    BY <1>5, <2>2, <2>3 DEF Arrived, OnLink
  <2>5. Arrived(m) \in Octets(k) /\ \A i \in 0 .. k - 1 : Arrived(m)[i] = Cut(m)[i]
    BY <2>2, <2>3, <2>4 DEF Stretched
  <2>6. Arrived(m) = Cut(m)
    BY <2>2, <2>5 DEF Octets
  <2>7. QED
    BY <1>5, <2>1, <2>6
<1>6. QED
  BY <1>4, <1>5

(* What is left of an IPv4 packet is refused, or is IPv4 and rewritten     *)
(* right.                                                                  *)
LEMMA Left4Rewritten ==
    ASSUME NEW m, Like4(m), NEW k, NEW b, LeftOf4(m, k, b), Parse(b) # None,
           NEW at \in {12, 16}, NEW new \in Octets(4)
    PROVE  Readdressed(k, b, at, new, FixChecksums(Patch(b, at, new)))
<1>1. k \in Nat /\ Remains(m.ihl + m.len, Made4(m), k, b)
  BY DEF LeftOf4
<1>2. b \in Octets(k) /\ \A i \in 0 .. k - 1 : i < m.ihl + m.len => b[i] = Made4(m)[i]
  BY <1>1 DEF Remains
<1>3. k > 0
  <2> SUFFICES ASSUME k = 0 PROVE FALSE
    BY <1>1
  <2>1. Length(b) = 0
    BY <1>1, <1>2, OctetAt
  <2>2. QED
    BY <2>1 DEF Parse
<1>4. b[0] \div 16 = 4
  <2>1. m.ihl + m.len \in Nat /\ m.ihl + m.len > 0
    <3>1. m.ihl \in Nat /\ m.ihl >= 20
      BY Like4Numbers
    <3>2. m.len \in Nat
      BY DEF Like4
    <3>3. QED
      BY <3>1, <3>2
  <2>2. b[0] = Made4(m)[0]
    BY <1>1, <1>2, <1>3, <2>1
  <2>3. Made4(m)[0] \div 16 = 4
    BY Made4Shape DEF Shape4
  <2>4. QED
    BY <2>2, <2>3
<1>5. Accepted4(k, b)
  BY <1>1, <1>2, <1>3, <1>4, ParseOf4
<1>6. QED
  BY <1>1, <1>2, <1>5, Rewritten DEF Readdressed

LEMMA Left4Parsed ==
    ASSUME NEW m, Like4(m), FragmentProtos \cap {TCP, UDP} = {}, NEW k, NEW b, LeftOf4(m, k, b)
    PROVE  /\ Whole(m) => Parse(b) = SentFlow(m)
           /\ ~Whole(m) => Parse(b) = None \/ AlmostFlow(m, Parse(b))
BY Parse4 DEF LeftOf4

LEMMA Cut6Parsed ==
    ASSUME NEW m, Like6(m)
    PROVE  /\ Whole(m) => Parse(Cut(m)) = SentFlow(m)
           /\ Parse(Cut(m)) = None \/ AlmostFlow(m, Parse(Cut(m)))
           /\ SentFlow(m).dst = Ip6(m.dst)
<1>1. PICK n \in 0 .. MaxWalk : m.exts \in [1 .. n -> ExtHeaders \X Byte]
  BY DEF Like6
<1>2. PICK st : st = Starts(m)
  OBVIOUS
<1>3. n \in Nat /\ n <= 8
  BY DEF MaxWalk
<1>4. PICK last \in Nat : last = st[n + 1] /\ last <= 40 + 2048 * 8
  <2>1. n + 1 \in 1 .. n + 1
    BY <1>3
  <2>a. Growing(n, st)
    BY <1>1, <1>2, StartsGrow, Zenon
  <2>2. st[n + 1] \in Nat /\ st[n + 1] <= 40 + 2048 * ((n + 1) - 1)
    BY <2>1, <2>a DEF Growing
  <2>3. QED
    BY <1>3, <2>2
<1>5. PICK size \in Nat : size = last + 20 /\ size <= 65535
  BY <1>4
<1>6. Made(m) = Made6(m)
  BY DEF Made, Like6
<1>7. Made(m) \in Octets(size)
  BY <1>1, <1>2, <1>4, <1>5, <1>6, Made6Shape DEF Shape6
<1>8. m.keep \in Nat
  BY DEF Like6
<1>9. PICK k \in Nat : Remains(size, Made(m), k, Cut(m)) /\ k <= size /\ (Whole(m) => k = size)
  BY <1>5, <1>7, <1>8, CutIs
<1>10. Remains(Starts(m)[n + 1] + 20, Made6(m), k, Cut(m))
  BY <1>2, <1>4, <1>5, <1>6, <1>9
<1>11. /\ k >= size => Parse(Cut(m)) = SentFlow(m)
       /\ k <= size => Parse(Cut(m)) = None \/ AlmostFlow(m, Parse(Cut(m)))
  <2>1. Starts(m)[n + 1] + 20 = size
    BY <1>2, <1>4, <1>5
  <2>2. QED
    BY <1>1, <1>10, <2>1, Parse6
<1>12. SentFlow(m).dst = Ip6(m.dst)
  BY DEF SentFlow, Like6
<1>13. QED
  BY <1>9, <1>11, <1>12

LEMMA MadeIs ==
    /\ \A m \in Outgoing : Like4(m) \/ (Like6(m) /\ m.dst \in Servers6)
    /\ \A m \in Outgoing : Like4(m) => m.src = Client
    /\ \A m \in Incoming : Like4(m) /\ m.dst = EgressIp
<1>1. \A m \in Packets4(Client, Server, ClientPort, ServerPort) : Like4(m) /\ m.src = Client
  BY ConstantsAre, Packets4Like
<1>2. \A m \in Incoming : Like4(m) /\ m.dst = EgressIp
  BY ConstantsAre, Packets4Like DEF Incoming
<1>3. \A m \in Packets6 : Like6(m) /\ m.dst \in Servers6
  BY Packets6Like
<1>4. \A m : ~(Like4(m) /\ Like6(m))
  BY DEF Like4, Like6
<1>5. QED
  BY <1>1, <1>2, <1>3, <1>4 DEF Outgoing

LEMMA InitInv == RewriteInit => PacketInv
BY DEF RewriteInit, PacketInv, Outgoing

LEMMA EgressInv ==
    ASSUME PacketInv, Egress
    PROVE  PacketInv'
<1>1. made \in Outgoing /\ pkt = Cut(made) /\ made' = made /\ flow' = Parse(Cut(made))
  BY DEF PacketInv, Egress
<1>2. CASE flow' # None /\ IsV4Text(flow'.dst)
  <2>1. stage' = "sent" /\ pkt' = RewriteSource(Cut(made), EgressIp)
    BY <1>1, <1>2 DEF Egress
  <2>2. QED
    BY <1>1, <1>2, <2>1 DEF PacketInv
<1>3. CASE ~(flow' # None /\ IsV4Text(flow'.dst))
  <2>1. stage' = "dropped"
    BY <1>3 DEF Egress
  <2>2. QED
    BY <1>1, <2>1 DEF PacketInv
<1>4. QED
  BY <1>2, <1>3

(* A reply that answers a flow was parsed: its destination is an address.  *)
LEMMA AnswerParsed ==
    ASSUME NEW f, Answers(f)
    PROVE  f # None
<1>1. f.dst = Ip4(EgressIp)
  BY DEF Answers
<1>2. DOMAIN Ip4(EgressIp) = 1 .. 7
  <2>1. PICK s : s = [k \in 1 .. 4 |-> EgressIp[k - 1]]
    OBVIOUS
  <2>2. Len(s) = 4
    BY <2>1
  <2>3. QED
    BY <2>1, <2>2 DEF Ip4, Join
<1>3. 1 \in DOMAIN Ip4(EgressIp) /\ ~(1 \in DOMAIN <<>>)
  BY <1>2
<1>4. None.dst = <<>>
  BY DEF None
<1>5. QED
  BY <1>1, <1>3, <1>4

LEMMA CaptureInv ==
    ASSUME PacketInv, Capture
    PROVE  PacketInv'
<1>1. made \in Incoming /\ Recv(pkt) = Arrived(made) /\ made' = made
  BY DEF PacketInv, Capture, Arrived
<1>2. flow' = IF LooksV4(Arrived(made)) THEN Parse(Arrived(made)) ELSE None
  BY <1>1 DEF Capture, LooksV4
<1>3. CASE Answers(flow')
  <2>1. stage' = "client" /\ pkt' = RewriteDest(Arrived(made), Client)
    BY <1>1, <1>3 DEF Capture
  <2>2. flow' # None
    BY <1>3, AnswerParsed
  <2>3. flow' = Parse(Arrived(made))
    BY <1>2, <2>2
  <2>4. QED
    BY <1>1, <2>1, <2>2, <2>3 DEF PacketInv
<1>4. CASE ~Answers(flow')
  <2>1. stage' = "dropped"
    BY <1>4 DEF Capture
  <2>2. QED
    BY <1>1, <1>2, <2>1 DEF PacketInv
<1>5. QED
  BY <1>3, <1>4

LEMMA NextInv == PacketInv /\ [RewriteNext]_rwVars => PacketInv'
<1> SUFFICES ASSUME PacketInv, [RewriteNext]_rwVars PROVE PacketInv'
  OBVIOUS
<1>1. CASE Egress
  BY <1>1, EgressInv
<1>2. CASE Arrive
  BY <1>2 DEF Arrive, PacketInv
<1>3. CASE Reply
  BY <1>3 DEF Reply, PacketInv, Incoming
<1>4. CASE Capture
  BY <1>4, CaptureInv
<1>5. CASE UNCHANGED rwVars
  BY <1>5 DEF rwVars, PacketInv
<1>6. QED
  BY <1>1, <1>2, <1>3, <1>4, <1>5 DEF RewriteNext

LEMMA AlwaysPacketInv == RewriteSpec => []PacketInv
<1>1. QED
  BY InitInv, NextInv, PTL DEF RewriteSpec

\* pkt is b, what is left of the packet, with one address changed.
Repacked(k, b, at, new) ==
    /\ LeftOf4(made, k, b) /\ Readdressed(k, b, at, new, pkt)
    /\ Whole(made) =>
          /\ Stretched(made.ihl + made.len, Made4(made), k, b)
          /\ k = IF stage = "sent" \/ made.ihl + made.len >= Frame THEN made.ihl + made.len ELSE Frame
    /\ \/ stage = "sent" /\ at = 12 /\ new = EgressIp /\ made.src = Client
       \/ stage = "client" /\ at = 16 /\ new = Client /\ made.dst = EgressIp

(* What goes out or to the client is IPv4 and was rewritten.               *)
LEMMA RewrittenPacket ==
    ASSUME PacketInv, stage \in {"sent", "client"}
    PROVE  Like4(made) /\ \E k, b, at, new : Repacked(k, b, at, new)
<1>1. CASE stage = "sent"
  <2>1. /\ made \in Outgoing /\ flow = Parse(Cut(made)) /\ flow # None /\ IsV4Text(flow.dst)
        /\ pkt = FixChecksums(Patch(Cut(made), 12, EgressIp))
    BY <1>1 DEF PacketInv, RewriteSource
  <2>2. Like4(made)
    <3> SUFFICES ASSUME Like6(made) PROVE FALSE
      BY <2>1, MadeIs
    <3>1. AlmostFlow(made, flow) /\ SentFlow(made).dst = Ip6(made.dst)
      BY <2>1, Cut6Parsed
    <3>2. flow.dst = Ip6(made.dst)
      <4>1. flow = [proto |-> SentFlow(made).proto, src |-> SentFlow(made).src,
                    dst |-> SentFlow(made).dst, sport |-> flow.sport, dport |-> flow.dport]
        BY <3>1 DEF AlmostFlow
      <4>2. QED
        BY <3>1, <4>1
    <3>3. made.dst \in Octets(16)
      BY DEF Like6
    <3>4. QED
      BY <2>1, <3>2, <3>3, Ip6NotV4
  <2>3. PICK k : LeftOf4(made, k, Cut(made)) /\ (Whole(made) => k = made.ihl + made.len)
    BY <2>2, CutLeft4
  <2>4. Readdressed(k, Cut(made), 12, EgressIp, pkt)
    <3>1. 12 \in {12, 16} /\ EgressIp \in Octets(4)
      BY ConstantsAre
    <3>2. QED
      BY <2>1, <2>2, <2>3, <3>1, Left4Rewritten
  <2>5. made.src = Client
    BY <2>1, <2>2, MadeIs
  <2>6. Whole(made) => Stretched(made.ihl + made.len, Made4(made), k, Cut(made))
    <3> SUFFICES ASSUME Whole(made) PROVE Stretched(made.ihl + made.len, Made4(made), k, Cut(made))
      OBVIOUS
    <3>1. k \in Nat /\ k = made.ihl + made.len /\ Remains(k, Made4(made), k, Cut(made))
      BY <2>3 DEF LeftOf4
    <3>2. Stretched(k, Made4(made), k, Cut(made))
      BY <3>1 DEF Remains, Stretched
    <3>3. QED
      BY <3>1, <3>2
  <2>7. Repacked(k, Cut(made), 12, EgressIp)
    BY <1>1, <2>3, <2>4, <2>5, <2>6 DEF Repacked
  <2>8. QED
    BY <2>2, <2>7
<1>2. CASE stage = "client"
  <2>1. /\ made \in Incoming /\ flow = Parse(Arrived(made)) /\ flow # None
        /\ pkt = FixChecksums(Patch(Arrived(made), 16, Client))
    BY <1>2 DEF PacketInv, RewriteDest
  <2>2. Like4(made) /\ made.dst = EgressIp
    BY <2>1, MadeIs
  <2>3. PICK k : /\ LeftOf4(made, k, Arrived(made))
                 /\ Whole(made) =>
                       /\ Stretched(made.ihl + made.len, Made4(made), k, Arrived(made))
                       /\ k = IF made.ihl + made.len >= Frame THEN made.ihl + made.len ELSE Frame
    BY <2>2, ArrivedLeft4
  <2>4. Readdressed(k, Arrived(made), 16, Client, pkt)
    <3>1. 16 \in {12, 16} /\ Client \in Octets(4)
      BY ConstantsAre
    <3>2. QED
      BY <2>1, <2>2, <2>3, <3>1, Left4Rewritten
  <2>5. Repacked(k, Arrived(made), 16, Client)
    BY <1>2, <2>2, <2>3, <2>4 DEF Repacked
  <2>6. QED
    BY <2>2, <2>5
<1>3. QED
  BY <1>1, <1>2

(* A whole IPv4 packet looks like one, padded or not.                      *)
LEMMA WholeLooksV4 ==
    ASSUME NEW m, Like4(m), Whole(m)
    PROVE  LooksV4(Arrived(m))
<1>1. PICK k : LeftOf4(m, k, Arrived(m))
  BY ArrivedLeft4
<1>2. PICK n \in Nat : n = m.ihl + m.len /\ n >= 20
  <2>1. m.ihl \in Nat /\ m.ihl >= 20
    BY Like4Numbers
  <2>2. m.len \in Nat
    BY DEF Like4
  <2>3. QED
    BY <2>1, <2>2
<1>3. PICK b : b = Arrived(m)
  OBVIOUS
<1>4. k \in Nat /\ k >= n /\ b \in Octets(k) /\ \A i \in 0 .. k - 1 : i < n => b[i] = Made4(m)[i]
  BY <1>1, <1>2, <1>3 DEF LeftOf4, Remains
<1>5. Length(b) = k
  BY <1>4, OctetAt
<1>6. b[0] = Made4(m)[0]
  BY <1>2, <1>4
<1>7. Made4(m)[0] \div 16 = 4
  BY Made4Shape DEF Shape4
<1>8. QED
  BY <1>2, <1>3, <1>4, <1>5, <1>6, <1>7 DEF LooksV4

(* What parse() returned is right, for all of a packet and for a part.     *)
LEMMA ParsedRight ==
    ASSUME PacketInv, Parsed, FragmentProtos \cap {TCP, UDP} = {}
    PROVE  /\ Whole(made) => flow = SentFlow(made)
           /\ ~Whole(made) => flow = None \/ AlmostFlow(made, flow)
<1>1. CASE made \in Outgoing /\ flow = Parse(Cut(made))
  <2>1. CASE Like4(made)
    <3>1. PICK k : LeftOf4(made, k, Cut(made))
      BY <2>1, CutLeft4
    <3>2. QED
      BY <1>1, <2>1, <3>1, Left4Parsed
  <2>2. CASE Like6(made)
    BY <1>1, <2>2, Cut6Parsed
  <2>3. QED
    BY <1>1, <2>1, <2>2, MadeIs
<1>2. CASE made \in Incoming /\ flow = IF LooksV4(Arrived(made)) THEN Parse(Arrived(made)) ELSE None
  <2>1. Like4(made)
    BY <1>2, MadeIs
  <2>2. PICK k : LeftOf4(made, k, Arrived(made))
    BY <2>1, ArrivedLeft4
  <2>3. CASE LooksV4(Arrived(made))
    BY <1>2, <2>1, <2>2, <2>3, Left4Parsed
  <2>4. CASE ~LooksV4(Arrived(made))
    BY <1>2, <2>1, <2>4, WholeLooksV4
  <2>5. QED
    BY <2>3, <2>4
<1>3. CASE stage = "client"
  <2>1. made \in Incoming /\ flow = Parse(Arrived(made))
    BY <1>3 DEF PacketInv
  <2>2. Like4(made)
    BY <2>1, MadeIs
  <2>3. PICK k : LeftOf4(made, k, Arrived(made))
    BY <2>2, ArrivedLeft4
  <2>4. QED
    BY <2>1, <2>2, <2>3, Left4Parsed
<1>4. stage = "sent" => made \in Outgoing /\ flow = Parse(Cut(made))
  BY DEF PacketInv
<1>5. stage = "dropped" =>
         \/ made \in Outgoing /\ flow = Parse(Cut(made))
         \/ /\ made \in Incoming
            /\ flow = IF LooksV4(Arrived(made)) THEN Parse(Arrived(made)) ELSE None
  BY DEF PacketInv
<1>6. QED
  BY <1>1, <1>2, <1>3, <1>4, <1>5 DEF Parsed

-----------------------------------------------------------------------------
(* The theorems.                                                           *)

(* Whatever the packet, parse() finds the sender's flow: addresses and     *)
(* ports behind IPv4 options of any length and any chain of at most eight  *)
(* IPv6 extension headers (packet.rs parse).  Later fragments of TCP and   *)
(* UDP packets, whose payload parse() takes for ports, are excepted.       *)
THEOREM WholePacketParsed ==
    ASSUME FragmentProtos \cap {TCP, UDP} = {}
    PROVE  RewriteSpec => []FlowRight
<1>1. PacketInv => FlowRight
  BY ParsedRight DEF FlowRight
<1>2. QED
  BY <1>1, AlwaysPacketInv, PTL

(* Wherever a packet was cut off, parse() refuses it or finds the sender's *)
(* addresses and protocol, and each port or zero: no truncated packet      *)
(* takes the session of another flow.                                      *)
THEOREM CutPacketParsed ==
    ASSUME FragmentProtos \cap {TCP, UDP} = {}
    PROVE  RewriteSpec => []CutNeverMisread
<1>1. PacketInv => CutNeverMisread
  <2> SUFFICES ASSUME PacketInv, Parsed, ~Whole(made), flow # None
               PROVE  /\ flow.proto = SentFlow(made).proto
                      /\ flow.src = SentFlow(made).src /\ flow.dst = SentFlow(made).dst
                      /\ flow.sport \in {0, SentFlow(made).sport}
                      /\ flow.dport \in {0, SentFlow(made).dport}
    BY DEF CutNeverMisread
  <2>1. AlmostFlow(made, flow)
    BY ParsedRight
  <2>2. flow = [proto |-> SentFlow(made).proto, src |-> SentFlow(made).src,
                dst |-> SentFlow(made).dst, sport |-> flow.sport, dport |-> flow.dport]
    BY <2>1 DEF AlmostFlow
  <2>3. QED
    BY <2>1, <2>2 DEF AlmostFlow
<1>2. QED
  BY <1>1, AlwaysPacketInv, PTL

(* The text ip6 makes of an IPv6 address names that address only, whatever *)
(* the other addresses are, unless zeros inside it were shortened.         *)
THEOREM AddressesTold == RewriteSpec => []Ip6Faithful
<1>1. PacketInv => Ip6Faithful
  <2> SUFFICES ASSUME PacketInv, stage = "dropped", made.version = 6, flow # None,
                      NEW a \in Servers6, Texts[a] = flow.dst, ~InnerRun(a)
               PROVE  a = made.dst
    BY DEF Ip6Faithful
  <2>1. made \in Outgoing /\ flow = Parse(Cut(made)) /\ Like6(made)
    <3>1. ~Like4(made)
      BY DEF Like4
    <3>2. QED
      BY <3>1, MadeIs DEF PacketInv
  <2>2. AlmostFlow(made, flow) /\ SentFlow(made).dst = Ip6(made.dst)
    BY <2>1, Cut6Parsed
  <2>3. flow = [proto |-> SentFlow(made).proto, src |-> SentFlow(made).src,
                dst |-> SentFlow(made).dst, sport |-> flow.sport, dport |-> flow.dport]
    BY <2>2 DEF AlmostFlow
  <2>4. flow.dst = Ip6(made.dst)
    BY <2>2, <2>3
  <2>5. Texts[a] = Ip6(a)
    BY DEF Texts
  <2>6. a \in Octets(16) /\ made.dst \in Octets(16)
    <3>1. Octets(16) = [0 .. 15 -> 0 .. 255]
      <4>1. 16 - 1 = 15
        OBVIOUS
      <4>2. QED
        BY <4>1, Zenon DEF Octets, Byte
    <3>2. \A x \in {Client6, Server6} \cup Servers6 : x \in Octets(16)
      BY <3>1, AddressAssumption, Zenon
    <3>3. QED
      BY <2>1, <3>2, Zenon DEF Like6
  <2>7. QED
    BY <2>4, <2>5, <2>6, Ip6Tells
<1>2. QED
  BY <1>1, AlwaysPacketInv, PTL

(* The header checksum of every packet that the program sends or writes to *)
(* the TUN is right (rewrite_ipv4_source, rewrite_ipv4_dest), whatever the *)
(* addresses, the options and the bytes, cut off packets included.         *)
THEOREM HeaderAlwaysRight == RewriteSpec => []HeaderChecksumRight
<1>1. PacketInv => HeaderChecksumRight
  BY RewrittenPacket DEF HeaderChecksumRight, Repacked, Readdressed
<1>2. QED
  BY <1>1, AlwaysPacketInv, PTL

(* Which TCP segments and UDP datagrams a receiver accepts after their     *)
(* rewrite (transport_checksum), for all addresses, options, lengths and   *)
(* bytes: all of at least 18 bytes on the way out; of those that come back *)
(* the ones that filled their frame, and no padded one, a bare ACK say; of *)
(* the shorter ones none, unless the two addresses have the same sum.      *)
THEOREM SegmentAcceptedExactly == RewriteSpec => []SegmentAccepted
<1>1. PacketInv => SegmentAccepted
  <2> SUFFICES ASSUME PacketInv, stage \in {"sent", "client"}, Whole(made), Ported(made)
               PROVE  /\ made.len >= 18 =>
                            (L4Valid(pkt) <=> stage = "sent" \/ made.ihl + made.len >= Frame)
                      /\ made.len <= 16 => (L4Valid(pkt) <=> SameSums)
    BY DEF SegmentAccepted, Fixed
  <2>1. Like4(made) /\ made.proto \in {TCP, UDP}
    BY RewrittenPacket DEF Ported
  <2>2. PICK k, b, at, new : Repacked(k, b, at, new)
    BY RewrittenPacket
  <2>3. PICK n \in Nat : n = made.ihl + made.len /\ n <= 65535
    BY <2>1, Like4Numbers, ShortIs
  <2>4. /\ Readdressed(k, b, at, new, pkt) /\ Stretched(n, Made4(made), k, b)
        /\ k = IF stage = "sent" \/ n >= Frame THEN n ELSE Frame
    BY <2>2, <2>3 DEF Repacked
  <2>5. Frame \in Nat /\ Frame <= 65000
    BY NumberAssumption
  <2>6. k \in Nat /\ k <= 65535 /\ (k = n <=> stage = "sent" \/ n >= Frame)
    BY <2>3, <2>4, <2>5
  <2>7. ASSUME made.len >= 18
        PROVE  L4Valid(pkt) <=> stage = "sent" \/ made.ihl + made.len >= Frame
    <3>1. L4Valid(pkt) <=> k = n
      BY <2>1, <2>3, <2>4, <2>6, <2>7, LongSegment
    <3>2. QED
      BY <2>3, <2>6, <3>1
  <2>8. ASSUME made.len <= 16 PROVE L4Valid(pkt) <=> SameSums
    <3>1. PICK old : old = IF at = 12 THEN made.src ELSE made.dst
      OBVIOUS
    <3>2. \/ at = 12 /\ new = EgressIp /\ old = Client
          \/ at = 16 /\ new = Client /\ old = EgressIp
      BY <2>2, <3>1 DEF Repacked
    <3>3. at \in {12, 16} /\ new \in Octets(4)
      BY <3>2, ConstantsAre
    <3>4. L4Valid(pkt) <=> Congruent(WordSum(old), WordSum(new))
      BY <2>1, <2>3, <2>4, <2>6, <2>8, <3>1, <3>3, ShortSegment
    <3>5. QED
      BY <3>2, <3>4 DEF SameSums, Congruent
  <2>9. QED
    BY <2>7, <2>8
<1>2. QED
  BY <1>1, AlwaysPacketInv, PTL

(* A rewrite leaves what the sender sent alone: but for the checksum the   *)
(* receiver gets the same segment, padded frames included.  The only bytes *)
(* that can change are 16 and 17 of a UDP datagram or of a later fragment  *)
(* of TCP, where transport_checksum's result is written into payload.      *)
THEOREM ContentKeptAlways == RewriteSpec => []ContentKept
<1>1. PacketInv => ContentKept
  <2> SUFFICES ASSUME PacketInv, stage \in {"sent", "client"}, Whole(made)
               PROVE  /\ DOMAIN Content(pkt) = DOMAIN Content(Made(made))
                      /\ \A i \in DOMAIN Content(Made(made)) \ Overwritten(made) :
                            Content(pkt)[i] = Content(Made(made))[i]
    BY DEF ContentKept, Fixed
  <2>1. Like4(made)
    BY RewrittenPacket
  <2>2. PICK k, b, at, new : Repacked(k, b, at, new)
    BY RewrittenPacket
  <2>3. PICK n \in Nat : n = made.ihl + made.len
    BY <2>1, Like4Numbers, ShortIs
  <2>4. k \in Nat /\ k >= n /\ Remains(n, Made4(made), k, b) /\ Readdressed(k, b, at, new, pkt)
    BY <2>2, <2>3 DEF Repacked, LeftOf4
  <2>5. Made(made) = Made4(made)
    BY <2>1 DEF Made, Like4
  <2>6. QED
    BY <2>1, <2>3, <2>4, <2>5, ContentStays
<1>2. QED
  BY <1>1, AlwaysPacketInv, PTL
=============================================================================
