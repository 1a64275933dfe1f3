---------------------------- MODULE FillerProofs ----------------------------
(***************************************************************************)
(* The fill is exact, for every ladder, floor and cap and for all rows a   *)
(* run can leave.  Sums and powers are recursive functions; induction over *)
(* the naturals is by the least element of the set of counterexamples.     *)
(***************************************************************************)
EXTENDS Filler, TLAPS, WellFoundedInduction

LessThan == {ss \in Nat \X Nat : ss[1] < ss[2]}

(* A nonempty set of naturals has a least element.                         *)
LEMMA LeastExists ==
  ASSUME NEW S \in SUBSET Nat, S # {}
  PROVE  \E i \in S : \A j \in S : i <= j
<1>1. OpToRel(<, Nat) = LessThan
  BY DEF OpToRel, LessThan
<1>2. IsWellFoundedOn(LessThan, Nat)
  BY ONLY <1>1, NatLessThanWellFounded
<1>3. PICK i \in S : \A j \in S : <<j, i>> \notin LessThan
  BY <1>2, WFMin
<1>4. \A j \in S : ~(j < i)
  BY <1>3 DEF LessThan
<1> QED
  BY <1>4

(* Induction: a set with 0 and with the successors of its naturals has     *)
(* them all.                                                               *)
LEMMA Induction ==
  ASSUME NEW S, 0 \in S, \A n \in Nat : n \in S => n + 1 \in S
  PROVE  \A n \in Nat : n \in S
<1> DEFINE C == Nat \ S
<1>1. SUFFICES ASSUME C # {}
              PROVE  FALSE
  OBVIOUS
<1>2. PICK m \in C : \A j \in C : m <= j
  BY <1>1, LeastExists
<1>3. m - 1 \in Nat /\ m - 1 \notin C
  BY <1>2
<1> QED
  BY <1>2, <1>3

-----------------------------------------------------------------------------
(* Functions by recursion on the naturals.                                 *)

IsRun(g, n, s, F) == g[0] = s /\ \A k \in 0..n - 1 : g[k + 1] = F[<<k, g[k]>>]

(* Two runs of the same recursion agree as far as both go.                 *)
LEMMA RunsAgree ==
  ASSUME NEW g, NEW h, NEW s, NEW F, NEW n \in Nat, NEW m \in Nat, m <= n,
         IsRun(g, n, s, F), IsRun(h, m, s, F)
  PROVE  \A k \in 0..m : g[k] = h[k]
<1> DEFINE S == {k \in Nat : k <= m => g[k] = h[k]}
<1>1. 0 \in S
  BY DEF IsRun
<1>2. ASSUME NEW k \in Nat, k \in S
      PROVE  k + 1 \in S
  <2>1. CASE k + 1 <= m
    <3>1. g[k] = h[k] /\ k \in 0..m - 1 /\ k \in 0..n - 1
      BY <1>2, <2>1
    <3>2. g[k + 1] = F[<<k, g[k]>>] /\ h[k + 1] = F[<<k, h[k]>>]
      BY <3>1 DEF IsRun
    <3> QED
      BY <3>1, <3>2
  <2> QED
    BY <2>1
<1> HIDE DEF S
<1>3. \A k \in Nat : k \in S
  BY <1>1, <1>2, Induction
<1> QED
  BY <1>3 DEF S

Follows(r, s, F) == r[0] = s /\ \A n \in Nat : r[n + 1] = F[<<n, r[n]>>]

(* Every recursion has a function that follows it.                         *)
LEMMA Recursion ==
  ASSUME NEW T, NEW s \in T, NEW F \in [Nat \X T -> T]
  PROVE  \E r \in [Nat -> T] : Follows(r, s, F)
<1> DEFINE P(n) == \E g \in [0..n -> T] : IsRun(g, n, s, F)
           S == {n \in Nat : P(n)}
<1>1. 0 \in S
  <2>1. [k \in 0..0 |-> s] \in [0..0 -> T] /\ IsRun([k \in 0..0 |-> s], 0, s, F)
    BY DEF IsRun
  <2> QED
    BY <2>1
<1>2. ASSUME NEW n \in Nat, n \in S
      PROVE  n + 1 \in S
  <2>1. PICK g \in [0..n -> T] : IsRun(g, n, s, F)
    BY <1>2
  <2> DEFINE h == [k \in 0..n + 1 |-> IF k <= n THEN g[k] ELSE F[<<n, g[n]>>]]
  <2>2. h \in [0..n + 1 -> T]
    <3>1. g[n] \in T /\ F[<<n, g[n]>>] \in T
      OBVIOUS
    <3> QED
      BY <3>1
  <2>3. h[0] = s
    BY <2>1 DEF IsRun
  <2>4. ASSUME NEW k \in 0..(n + 1) - 1
        PROVE  h[k + 1] = F[<<k, h[k]>>]
    <3>1. CASE k = n
      BY <3>1
    <3>2. CASE k # n
      <4>1. k \in 0..n - 1 /\ h[k] = g[k] /\ h[k + 1] = g[k + 1]
        BY <3>2
      <4> QED
        BY <4>1, <2>1 DEF IsRun
    <3> QED
      BY <3>1, <3>2
  <2>5. IsRun(h, n + 1, s, F)
    BY <2>3, <2>4 DEF IsRun
  <2> QED
    BY <2>2, <2>5
<1>3. \A n \in Nat : n \in S
  <2> HIDE DEF S
  <2> QED
    BY <1>1, <1>2, Induction
<1> DEFINE G(n) == CHOOSE g \in [0..n -> T] : IsRun(g, n, s, F)
           r == [n \in Nat |-> G(n)[n]]
<1>4. \A n \in Nat : G(n) \in [0..n -> T] /\ IsRun(G(n), n, s, F)
  BY <1>3
<1> HIDE DEF G, S
<1>5. r \in [Nat -> T]
  BY <1>4
<1>6. r[0] = s
  BY <1>4 DEF IsRun
<1>7. ASSUME NEW n \in Nat
      PROVE  r[n + 1] = F[<<n, r[n]>>]
  <2>1. G(n + 1)[n + 1] = F[<<n, G(n + 1)[n]>>]
    BY <1>4 DEF IsRun
  <2>2. G(n + 1)[n] = G(n)[n]
    <3>1. IsRun(G(n + 1), n + 1, s, F) /\ IsRun(G(n), n, s, F)
      BY <1>4
    <3>2. \A k \in 0..n : G(n + 1)[k] = G(n)[k]
      BY <3>1, RunsAgree
    <3> QED
      BY <3>2
  <2> QED
    BY <2>1, <2>2
<1> QED
  BY <1>5, <1>6, <1>7 DEF Follows

(* The powers of two.                                                      *)
LEMMA Pow2Unfolds ==
  /\ Pow2 \in [Nat -> Nat] /\ Pow2[0] = 1
  /\ \A n \in Nat : Pow2[n + 1] = 2 * Pow2[n]
<1>0. PICK F : F = [p \in Nat \X Nat |-> 2 * p[2]]
  OBVIOUS
<1>1. F \in [Nat \X Nat -> Nat]
  BY <1>0
<1>2. PICK r \in [Nat -> Nat] : Follows(r, 1, F)
  BY <1>1, Recursion
<1> USE DEF Follows
<1> DEFINE P == [n \in Nat |-> IF n = 0 THEN 1 ELSE 2 * r[n - 1]]
<1>3. ASSUME NEW n \in Nat
      PROVE  r[n] = P[n]
  <2>1. CASE n = 0
    BY <2>1, <1>2
  <2>2. CASE n # 0
    <3>1. n - 1 \in Nat /\ (n - 1) + 1 = n
      BY <2>2
    <3>2. r[(n - 1) + 1] = F[<<n - 1, r[n - 1]>>] /\ r[n - 1] \in Nat
      BY <3>1, <1>2
    <3> QED
      BY <3>1, <3>2, <2>2, <1>2, <1>0
  <2> QED
    BY <2>1, <2>2
<1>4. r = P
  BY <1>3
<1>5. \E g : g = [n \in Nat |-> IF n = 0 THEN 1 ELSE 2 * g[n - 1]]
  BY <1>4
<1>6. Pow2 = [n \in Nat |-> IF n = 0 THEN 1 ELSE 2 * Pow2[n - 1]]
  BY <1>5 DEF Pow2
<1>7. Pow2[0] = 1 /\ \A n \in Nat : Pow2[n + 1] = 2 * Pow2[n]
  BY <1>6
<1>8. \A n \in Nat : Pow2[n] \in Nat
  <2> DEFINE S == {n \in Nat : Pow2[n] \in Nat}
  <2>1. 0 \in S /\ \A n \in Nat : n \in S => n + 1 \in S
    BY <1>7
  <2> HIDE DEF S
  <2>2. \A n \in Nat : n \in S
    BY <2>1, Induction
  <2> QED
    BY <2>2 DEF S
<1> QED
  BY <1>6, <1>7, <1>8

(* Sums: the empty one, and one more term.                                 *)
LEMMA SumUnfolds ==
  ASSUME NEW f, NEW N \in Nat, \A i \in 0..N - 1 : f[i] \in Nat
  PROVE  /\ SumUpTo(f, 0) = 0
         /\ \A n \in 0..N : SumUpTo(f, n) \in Nat
         /\ \A n \in 0..N - 1 : SumUpTo(f, n + 1) = SumUpTo(f, n) + f[n]
<1>0. PICK F : F = [p \in Nat \X Nat |-> p[2] + (IF p[1] < N THEN f[p[1]] ELSE 0)]
  OBVIOUS
<1>1. F \in [Nat \X Nat -> Nat]
  BY <1>0
<1>2. PICK r \in [Nat -> Nat] : Follows(r, 0, F)
  BY <1>1, Recursion
<1> USE DEF Follows
<1>3. ASSUME NEW n \in 0..N - 1
      PROVE  r[n + 1] = r[n] + f[n]
  <2>1. r[n] \in Nat /\ n \in Nat /\ r[n + 1] = F[<<n, r[n]>>]
    BY <1>2
  <2>2. F[<<n, r[n]>>] = r[n] + f[n]
    BY <2>1, <1>0
  <2> QED
    BY <2>1, <2>2
<1>4. \A n \in Nat : r[n] \in Nat
  BY <1>2
<1>5. ASSUME NEW n \in 0..N
      PROVE  SumUpTo(f, n) = r[n]
  <2> DEFINE body(g) == [k \in 0..n |-> IF k = 0 THEN 0 ELSE g[k - 1] + f[k - 1]]
             g0 == [k \in 0..n |-> r[k]]
             up == CHOOSE g : g = body(g)
  <2>1. g0 = body(g0)
    <3>1. ASSUME NEW k \in 0..n
          PROVE  g0[k] = body(g0)[k]
      <4>1. CASE k = 0
        BY <4>1, <1>2
      <4>2. CASE k # 0
        <5>1. k - 1 \in 0..n /\ k - 1 \in 0..N - 1 /\ (k - 1) + 1 = k
          BY <4>2
        <5>2. r[k] = r[k - 1] + f[k - 1]
          BY <5>1, <1>3
        <5> QED
          BY <5>1, <5>2, <4>2
      <4> QED
        BY <4>1, <4>2
    <3> QED
      BY <3>1
  <2>2. up = body(up)
    <3> HIDE DEF body, g0
    <3> QED
      BY <2>1
  <2>3. SumUpTo(f, n) = up[n]
    BY DEF SumUpTo
  <2> DEFINE S == {k \in Nat : k <= n => up[k] = r[k]}
  <2>4. 0 \in S
    <3>0. \A g : body(g)[0] = 0
      OBVIOUS
    <3>1. up[0] = body(up)[0]
      <4> HIDE DEF up, body
      <4> QED
        BY <2>2
    <3> HIDE DEF up, body
    <3> QED
      BY <3>0, <3>1, <1>2
  <2>5. ASSUME NEW k \in Nat, k \in S
        PROVE  k + 1 \in S
    <3>1. CASE k + 1 <= n
      <4>1. up[k] = r[k] /\ k \in 0..N - 1 /\ k + 1 \in 0..n
        BY <2>5, <3>1
      <4>2. up[k + 1] = up[k] + f[k]
        <5>1. up[k + 1] = body(up)[k + 1]
          BY <2>2
        <5> QED
          BY <5>1, <4>1
      <4>3. r[k + 1] = r[k] + f[k]
        BY <4>1, <1>3
      <4> HIDE DEF up
      <4> QED
        BY <4>1, <4>2, <4>3
    <3> QED
      BY <3>1
  <2> HIDE DEF S
  <2>6. \A k \in Nat : k \in S
    BY <2>4, <2>5, Induction
  <2> HIDE DEF up
  <2>7. up[n] = r[n]
    BY <2>6 DEF S
  <2> QED
    BY <2>3, <2>7
<1> QED
  BY <1>2, <1>3, <1>4, <1>5

(* A sum of naturals grows.                                                *)
LEMMA SumGrows ==
  ASSUME NEW f, NEW N \in Nat, \A i \in 0..N - 1 : f[i] \in Nat,
         NEW m \in 0..N, NEW n \in 0..N, m <= n
  PROVE  SumUpTo(f, m) <= SumUpTo(f, n)
<1> DEFINE s(k) == SumUpTo(f, k)
<1>1. /\ \A k \in 0..N : s(k) \in Nat
      /\ \A k \in 0..N - 1 : s(k + 1) = s(k) + f[k]
  BY SumUnfolds
<1> HIDE DEF s
<1> DEFINE S == {d \in Nat : m + d <= N => s(m) <= s(m + d)}
<1>2. 0 \in S
  BY <1>1
<1>3. ASSUME NEW d \in Nat, d \in S
      PROVE  d + 1 \in S
  <2>1. CASE m + d + 1 <= N
    <3>1. m + d \in 0..N - 1 /\ s(m) <= s(m + d)
      BY <2>1, <1>3
    <3>2. s(m + d + 1) = s(m + d) + f[m + d] /\ f[m + d] \in Nat /\ s(m) \in Nat /\ s(m + d) \in Nat
      BY <3>1, <1>1
    <3> QED
      BY <3>1, <3>2
  <2> QED
    BY <2>1
<1> HIDE DEF S
<1>4. \A d \in Nat : d \in S
  BY <1>2, <1>3, Induction
<1>5. n - m \in S /\ m + (n - m) = n
  BY <1>4
<1> QED
  BY <1>5 DEF S, s

(* Powers of two are positive, above their exponents, and grow.            *)
LEMMA Pow2Facts ==
  /\ \A n \in Nat : Pow2[n] \in Nat \ {0} /\ n < Pow2[n]
  /\ \A m, n \in Nat : m < n => Pow2[m] < Pow2[n]
<1>1. \A n \in Nat : Pow2[n] \in Nat /\ n < Pow2[n]
  <2> DEFINE S == {n \in Nat : n < Pow2[n]}
  <2>1. 0 \in S /\ \A n \in Nat : n \in S => n + 1 \in S
    BY Pow2Unfolds
  <2> HIDE DEF S
  <2>2. \A n \in Nat : n \in S
    BY <2>1, Induction
  <2> QED
    BY <2>2, Pow2Unfolds DEF S
<1>2. ASSUME NEW m \in Nat
      PROVE  \A n \in Nat : m < n => Pow2[m] < Pow2[n]
  <2> DEFINE S == {d \in Nat : Pow2[m] < Pow2[m + d + 1]}
  <2>1. 0 \in S
    BY <1>1, Pow2Unfolds
  <2>2. ASSUME NEW d \in Nat, d \in S
        PROVE  d + 1 \in S
    <3>1. m + d + 1 \in Nat /\ m + (d + 1) + 1 = (m + d + 1) + 1 /\ Pow2[m] < Pow2[m + d + 1]
      BY <2>2
    <3>2. Pow2[(m + d + 1) + 1] = 2 * Pow2[m + d + 1] /\ Pow2[m + d + 1] \in Nat /\ Pow2[m] \in Nat
      BY <3>1, <1>1, Pow2Unfolds
    <3> QED
      BY <3>1, <3>2
  <2> HIDE DEF S
  <2>3. \A d \in Nat : d \in S
    BY <2>1, <2>2, Induction
  <2>4. ASSUME NEW n \in Nat, m < n
        PROVE  Pow2[m] < Pow2[n]
    <3>1. n - m - 1 \in S /\ m + (n - m - 1) + 1 = n
      BY <2>3, <2>4
    <3> QED
      BY <3>1 DEF S
  <2> QED
    BY <2>4
<1> QED
  BY <1>1, <1>2

(* Quotient and remainder.                                                 *)
LEMMA DivMod ==
  ASSUME NEW x \in Nat, NEW s \in Nat \ {0}
  PROVE  /\ x \div s \in Nat /\ x % s \in 0..s - 1
         /\ x = s * (x \div s) + (x % s)
<1>1. x \div s \in Nat
  OBVIOUS
<1>2. x % s \in 0..s - 1
  OBVIOUS
<1>3. x = s * (x \div s) + (x % s)
  OBVIOUS
<1> QED
  BY <1>1, <1>2, <1>3

(* They are unique.                                                        *)
LEMMA DivModUnique ==
  ASSUME NEW s \in Nat \ {0}, NEW q \in Nat, NEW r \in 0..s - 1, NEW x, x = s * q + r
  PROVE  x \div s = q /\ x % s = r
<1>1. x \in Nat
  OBVIOUS
<1> DEFINE p == x \div s
           u == x % s
<1>2. p \in Nat /\ u \in 0..s - 1 /\ x = s * p + u
  BY <1>1, DivMod
<1> HIDE DEF p, u
<1>3. ~(p < q)
  <2>1. SUFFICES ASSUME p + 1 <= q
                PROVE  FALSE
    BY <1>2
  <2>2. s * q >= s * (p + 1) /\ s * (p + 1) = s * p + s
    BY <2>1, <1>2
  <2> QED
    BY <2>2, <1>2
<1>4. ~(q < p)
  <2>1. SUFFICES ASSUME q + 1 <= p
                PROVE  FALSE
    BY <1>2
  <2>2. s * p >= s * (q + 1) /\ s * (q + 1) = s * q + s
    BY <2>1, <1>2
  <2> QED
    BY <2>2, <1>2
<1>5. p = q /\ u = r
  BY <1>2, <1>3, <1>4
<1> QED
  BY <1>5 DEF p, u

(* What is left after a block is left after the next smaller one.          *)
LEMMA HalvesModulo ==
  ASSUME NEW p \in Nat, NEW s \in Nat \ {0}
  PROVE  /\ (p % (2 * s)) \div s \in Nat /\ p % s \in Nat
         /\ p % (2 * s) = ((p % (2 * s)) \div s) * s + (p % s)
<1> DEFINE t == 2 * s
           x == p % t
           y == p \div t
           q == x \div s
           r == x % s
<1>0. t \in Nat \ {0} /\ t = 2 * s
  OBVIOUS
<1> HIDE DEF t
<1>1. y \in Nat /\ x \in Nat /\ p = t * y + x
  <2>1. y \in Nat /\ x \in 0..t - 1 /\ p = t * y + x
    BY <1>0, DivMod, Zenon
  <2> HIDE DEF x, y
  <2> QED
    BY <2>1, <1>0
<1>2. q \in Nat /\ r \in 0..s - 1 /\ x = s * q + r
  <2> HIDE DEF x
  <2> QED
    BY <1>1, DivMod
<1> HIDE DEF x, y, q, r
<1>3. p = s * (2 * y + q) + r
  <2>1. t * y = s * (2 * y) /\ s * (2 * y + q) = s * (2 * y) + s * q
    BY <1>0, <1>1, <1>2
  <2> QED
    BY <2>1, <1>1, <1>2
<1>4. 2 * y + q \in Nat
  BY <1>1, <1>2
<1>5. p % s = r
  BY <1>2, <1>3, <1>4, DivModUnique
<1>6. q \in Nat /\ p % s \in Nat /\ x = q * s + (p % s)
  BY <1>2, <1>5
<1> QED
  BY <1>6 DEF t, x, q

-----------------------------------------------------------------------------
(* The plan.                                                               *)

Sizes == LadderTop + 1

dummies(n) == [k \in Ladder |-> n[k] * fillSizes[k]]

(* The sizes of the ladder: each the half of the one before, one the last. *)
LEMMA LadderSizes ==
  /\ Sizes \in Nat \ {0} /\ Ladder = 0..Sizes - 1
  /\ \A k \in Ladder : fillSizes[k] \in Nat \ {0}
  /\ \A k \in Ladder \ {0} : fillSizes[k - 1] = 2 * fillSizes[k]
  /\ fillSizes[LadderTop] = 1 /\ fillSizes[LadderTop - 1] = 2
<1>1. Sizes \in Nat \ {0} /\ Ladder = 0..Sizes - 1
  BY LadderAssumption DEF Sizes, Ladder
<1>2. \A k \in Ladder : fillSizes[k] = Pow2[LadderTop - k]
  BY DEF fillSizes
<1>3. \A k \in Ladder : LadderTop - k \in Nat
  BY LadderAssumption DEF Ladder
<1>4. \A k \in Ladder : fillSizes[k] \in Nat \ {0}
  BY <1>2, <1>3, Pow2Facts
<1>5. ASSUME NEW k \in Ladder \ {0}
      PROVE  fillSizes[k - 1] = 2 * fillSizes[k]
  <2>1. k - 1 \in Ladder /\ LadderTop - (k - 1) = (LadderTop - k) + 1
    BY LadderAssumption DEF Ladder
  <2> QED
    BY <2>1, <1>2, <1>3, Pow2Unfolds
<1>6. LadderTop \in Ladder \ {0} /\ LadderTop - LadderTop = 0
  BY LadderAssumption DEF Ladder
<1>7. fillSizes[LadderTop] = 1
  BY <1>2, <1>6, Pow2Unfolds
<1> QED
  BY <1>1, <1>4, <1>5, <1>6, <1>7

(* The greedy counts are naturals, and what the blocks of the first k      *)
(* sizes have not delivered is the remainder by the last of them.          *)
LEMMA GreedySum ==
  ASSUME NEW p \in Nat
  PROVE  /\ fillGreedy(p) \in [Ladder -> Nat]
         /\ SumUpTo(dummies(fillGreedy(p)), Sizes) = p
<1> DEFINE n == fillGreedy(p)
           f == dummies(n)
           rest(k) == IF k = 0 THEN p ELSE p % fillSizes[k - 1]
<1>1. /\ n[0] \in Nat /\ p % fillSizes[0] \in Nat
      /\ p = n[0] * fillSizes[0] + (p % fillSizes[0])
  <2>1. 0 \in Ladder /\ fillSizes[0] \in Nat \ {0}
    BY LadderSizes
  <2>2. n[0] = p \div fillSizes[0]
    BY <2>1 DEF fillGreedy
  <2>3. /\ p \div fillSizes[0] \in Nat /\ p % fillSizes[0] \in 0..fillSizes[0] - 1
        /\ p = fillSizes[0] * (p \div fillSizes[0]) + (p % fillSizes[0])
    BY <2>1, DivMod, Zenon
  <2> HIDE DEF n
  <2> QED
    BY <2>1, <2>2, <2>3
<1>2. ASSUME NEW k \in Ladder \ {0}
      PROVE  /\ n[k] \in Nat /\ p % fillSizes[k] \in Nat
             /\ p % fillSizes[k - 1] = n[k] * fillSizes[k] + (p % fillSizes[k])
  <2>1. fillSizes[k] \in Nat \ {0} /\ fillSizes[k - 1] = 2 * fillSizes[k]
    BY LadderSizes
  <2>2. n[k] = (p % (2 * fillSizes[k])) \div fillSizes[k]
    BY <2>1 DEF fillGreedy
  <2>3. /\ (p % (2 * fillSizes[k])) \div fillSizes[k] \in Nat /\ p % fillSizes[k] \in Nat
        /\ p % (2 * fillSizes[k])
             = ((p % (2 * fillSizes[k])) \div fillSizes[k]) * fillSizes[k] + (p % fillSizes[k])
    BY <2>1, HalvesModulo
  <2> HIDE DEF n
  <2> QED
    BY <2>1, <2>2, <2>3
<1>3. n \in [Ladder -> Nat]
  <2>1. \A k \in Ladder : n[k] \in Nat
    BY <1>1, <1>2
  <2>2. n = [k \in Ladder |-> n[k]]
    BY DEF fillGreedy
  <2> HIDE DEF n
  <2> QED
    BY <2>1, <2>2
<1>4. \A k \in Ladder : f[k] = n[k] * fillSizes[k] /\ f[k] \in Nat
  <2>1. \A k \in Ladder : f[k] = n[k] * fillSizes[k]
    BY DEF dummies
  <2> HIDE DEF n, f
  <2>2. \A k \in Ladder : fillSizes[k] \in Nat /\ n[k] \in Nat
    BY LadderSizes, <1>3
  <2> QED
    BY <2>1, <2>2
<1> HIDE DEF n, f
<1>5. Sizes \in Nat \ {0} /\ Ladder = 0..Sizes - 1
  BY LadderSizes
<1>6. /\ SumUpTo(f, 0) = 0 /\ \A k \in 0..Sizes : SumUpTo(f, k) \in Nat
      /\ \A k \in 0..Sizes - 1 : SumUpTo(f, k + 1) = SumUpTo(f, k) + f[k]
  BY <1>4, <1>5, SumUnfolds
<1> DEFINE S == {k \in Nat : k <= Sizes => SumUpTo(f, k) + rest(k) = p}
<1>7. 0 \in S
  BY <1>6
<1>8. ASSUME NEW k \in Nat, k \in S
      PROVE  k + 1 \in S
  <2>1. SUFFICES ASSUME k + 1 <= Sizes
                PROVE  SumUpTo(f, k + 1) + rest(k + 1) = p
    OBVIOUS
  <2>2. k \in Ladder /\ k \in 0..Sizes - 1 /\ SumUpTo(f, k) + rest(k) = p
    BY <2>1, <1>5, <1>8
  <2>3. SumUpTo(f, k + 1) = SumUpTo(f, k) + f[k] /\ SumUpTo(f, k) \in Nat
    <3>1. k \in 0..Sizes - 1 /\ k \in 0..Sizes
      BY <2>2, <1>5
    <3> QED
      BY <3>1, <1>6, Zenon
  <2>4. rest(k) = f[k] + rest(k + 1) /\ rest(k + 1) \in Nat /\ f[k] \in Nat
    <3>1. f[k] = n[k] * fillSizes[k] /\ f[k] \in Nat /\ rest(k + 1) = p % fillSizes[k]
      BY <1>4, <2>2
    <3>2. CASE k = 0
      BY <3>1, <3>2, <1>1
    <3>3. CASE k # 0
      BY <3>1, <3>3, <1>2, <2>2
    <3> QED
      BY <3>2, <3>3
  <2> HIDE DEF rest
  <2> QED
    BY <2>2, <2>3, <2>4
<1>9. Sizes \in S
  <2> HIDE DEF S
  <2> QED
    BY <1>5, <1>7, <1>8, Induction
<1>10. rest(Sizes) = 0
  <2>1. Sizes # 0 /\ Sizes - 1 = LadderTop /\ fillSizes[LadderTop] = 1
    BY LadderSizes, LadderAssumption DEF Sizes
  <2>2. p % 1 = 0
    BY DivMod
  <2> QED
    BY <2>1, <2>2
<1>11. SumUpTo(f, Sizes) = p
  <2> HIDE DEF rest
  <2> QED
    BY <1>5, <1>6, <1>9, <1>10
<1> QED
  BY <1>3, <1>11 DEF n, f

(* The target is a power of two, and holds the rows and the floor.         *)
LEMMA TargetFacts ==
  ASSUME NEW n \in Nat, NEW floor \in Nat \ {0}
  PROVE  /\ \E e \in Nat : fillTarget(n, floor) = Pow2[e]
         /\ fillTarget(n, floor) \in Nat
         /\ n <= fillTarget(n, floor) /\ floor <= fillTarget(n, floor)
<1> DEFINE m == Max({n, floor, 1})
<1>1. m \in Nat /\ n <= m /\ floor <= m
  <2>1. \E x \in {n, floor, 1} : \A y \in {n, floor, 1} : x >= y
    <3>1. CASE n <= floor
      BY <3>1
    <3>2. CASE floor <= n
      BY <3>2
    <3> QED
      BY <3>1, <3>2
  <2>2. m \in {n, floor, 1} /\ \A y \in {n, floor, 1} : m >= y
    BY <2>1 DEF Max
  <2> HIDE DEF m
  <2> QED
    BY <2>2
<1> HIDE DEF m
<1> DEFINE S == {e \in Nat : m <= Pow2[e]}
<1>2. m \in S
  BY <1>1, Pow2Facts
<1>3. PICK e \in S : \A d \in S : e <= d
  BY <1>2, LeastExists
<1>4. e \in 0..m /\ m <= Pow2[e] /\ \A f \in 0..e - 1 : Pow2[f] < m
  <2>1. e <= m
    BY <1>2, <1>3
  <2>2. ASSUME NEW f \in 0..e - 1
        PROVE  Pow2[f] < m
    <3>1. f \in Nat /\ f \notin S /\ Pow2[f] \in Nat
      BY <1>3, Pow2Facts
    <3> QED
      BY <3>1, <1>1
  <2> QED
    BY <2>1, <2>2, <1>1, <1>3
<1>5. clog2(m) \in 0..m /\ m <= Pow2[clog2(m)]
  BY <1>4 DEF clog2
<1>6. clog2(m) \in Nat /\ Pow2[clog2(m)] \in Nat
  BY <1>1, <1>5, Pow2Facts
<1>7. fillTarget(n, floor) = Pow2[clog2(m)]
  BY DEF fillTarget, m
<1> HIDE DEF S
<1> QED
  BY <1>1, <1>5, <1>6, <1>7

(* A gap other than one is twos and at most one three (jumpMix_spec).      *)
LEMMA JumpMixSpec ==
  ASSUME NEW gap \in Nat, gap # 1
  PROVE  /\ jumpMix(gap).one \in Nat /\ jumpMix(gap).two \in Nat
         /\ 2 * jumpMix(gap).one + 3 * jumpMix(gap).two = gap
<1>1. CASE gap % 2 = 0
  <2>1. jumpMix(gap).one = gap \div 2 /\ jumpMix(gap).two = 0
    BY <1>1 DEF jumpMix
  <2>2. gap \div 2 \in Nat /\ 2 * (gap \div 2) = gap
    BY <1>1
  <2> QED
    BY <2>1, <2>2
<1>2. CASE gap % 2 # 0
  <2>1. jumpMix(gap).one = Max({gap - 3, 0}) \div 2 /\ jumpMix(gap).two = 1
    BY <1>2 DEF jumpMix
  <2>2. gap >= 3 /\ gap % 2 = 1
    BY <1>2
  <2>3. Max({gap - 3, 0}) = gap - 3
    <3>1. \E x \in {gap - 3, 0} : \A y \in {gap - 3, 0} : x >= y
      BY <2>2
    <3>2. Max({gap - 3, 0}) \in {gap - 3, 0} /\ \A y \in {gap - 3, 0} : Max({gap - 3, 0}) >= y
      BY <3>1 DEF Max
    <3> QED
      BY <3>2, <2>2
  <2>4. (gap - 3) \div 2 \in Nat /\ 2 * ((gap - 3) \div 2) = gap - 3
    BY <2>2
  <2> QED
    BY <2>1, <2>3, <2>4
<1> QED
  BY <1>1, <1>2

(* Sums over the ladder that only the last two sizes enter.                *)
LEMMA LastTwo ==
  ASSUME NEW f, \A k \in Ladder : f[k] \in Nat,
         \A k \in Ladder : k < LadderTop - 1 => f[k] = 0
  PROVE  SumUpTo(f, Sizes) = f[LadderTop - 1] + f[LadderTop]
<1>1. /\ Sizes \in Nat /\ Ladder = 0..Sizes - 1 /\ LadderTop - 1 \in Ladder
      /\ LadderTop \in Ladder /\ Sizes = LadderTop + 1
  BY LadderAssumption DEF Sizes, Ladder
<1> DEFINE s(k) == SumUpTo(f, k)
<1>2. /\ s(0) = 0 /\ \A k \in 0..Sizes : s(k) \in Nat
      /\ \A k \in 0..Sizes - 1 : s(k + 1) = s(k) + f[k]
  BY <1>1, SumUnfolds
<1> HIDE DEF s
<1> DEFINE S == {k \in Nat : k <= LadderTop - 1 => s(k) = 0}
<1>3. 0 \in S
  BY <1>2
<1>4. ASSUME NEW k \in Nat, k \in S
      PROVE  k + 1 \in S
  <2>1. CASE k + 1 <= LadderTop - 1
    <3>1. k \in 0..Sizes - 1 /\ k \in Ladder /\ k < LadderTop - 1 /\ s(k) = 0
      BY <2>1, <1>1, <1>4, LadderAssumption
    <3>2. s(k + 1) = s(k) + f[k] /\ f[k] = 0
      BY <3>1, <1>2
    <3> QED
      BY <3>1, <3>2
  <2> QED
    BY <2>1
<1> HIDE DEF S
<1>5. LadderTop - 1 \in S
  BY <1>1, <1>3, <1>4, Induction
<1>6. s(LadderTop - 1) = 0
  BY <1>5, LadderAssumption DEF S
<1>7. s((LadderTop - 1) + 1) = s(LadderTop - 1) + f[LadderTop - 1]
  BY <1>1, <1>2
<1>8. s(LadderTop + 1) = s(LadderTop) + f[LadderTop]
  BY <1>1, <1>2
<1>9. (LadderTop - 1) + 1 = LadderTop /\ f[LadderTop - 1] \in Nat /\ f[LadderTop] \in Nat
  BY <1>1, LadderAssumption
<1>10. s(Sizes) = f[LadderTop - 1] + f[LadderTop]
  BY <1>1, <1>6, <1>7, <1>8, <1>9
<1> QED
  BY <1>10 DEF s

(* The blocks of JUMP and their closing jumps fill the gap.                *)
LEMMA JumpSum ==
  ASSUME NEW gap \in Nat, gap # 1
  PROVE  /\ jumpCount(gap) \in [Ladder -> Nat]
         /\ SumUpTo(dummies(jumpCount(gap)), Sizes) \in Nat
         /\ SumUpTo(jumpCount(gap), Sizes) \in Nat
         /\ SumUpTo(dummies(jumpCount(gap)), Sizes) + SumUpTo(jumpCount(gap), Sizes) = gap
<1> DEFINE n == jumpCount(gap)
           one == jumpMix(gap).one
           two == jumpMix(gap).two
<1>1. one \in Nat /\ two \in Nat /\ 2 * one + 3 * two = gap
  BY JumpMixSpec
<1> HIDE DEF one, two
<1>2. \A k \in Ladder :
        n[k] = IF k = LadderTop THEN one ELSE IF k = LadderTop - 1 THEN two ELSE 0
  BY LadderAssumption DEF jumpCount, one, two, Ladder
<1>3. n \in [Ladder -> Nat]
  <2>1. n = [k \in Ladder |-> n[k]]
    BY DEF jumpCount
  <2> HIDE DEF n
  <2>2. \A k \in Ladder : n[k] \in Nat
    BY <1>1, <1>2
  <2> QED
    BY <2>1, <2>2
<1> DEFINE d == dummies(n)
<1>4. \A k \in Ladder : d[k] = n[k] * fillSizes[k]
  BY DEF dummies
<1> HIDE DEF n, d
<1>5. LadderTop \in Ladder /\ LadderTop - 1 \in Ladder /\ LadderTop - 1 # LadderTop
  BY LadderAssumption DEF Ladder
<1>6. n[LadderTop] = one /\ n[LadderTop - 1] = two
  BY <1>2, <1>5
<1>7. \A k \in Ladder : k < LadderTop - 1 => n[k] = 0
  BY <1>2, LadderAssumption DEF Ladder
<1>8. SumUpTo(n, Sizes) = two + one
  BY <1>3, <1>6, <1>7, LastTwo
<1>9. ASSUME NEW k \in Ladder
      PROVE  d[k] \in Nat
  <2>1. n[k] \in Nat /\ fillSizes[k] \in Nat /\ d[k] = n[k] * fillSizes[k]
    BY <1>3, <1>4, LadderSizes
  <2> QED
    BY <2>1
<1>10. \A k \in Ladder : k < LadderTop - 1 => d[k] = 0
  BY <1>4, <1>7, LadderSizes
<1>11. d[LadderTop] = one /\ d[LadderTop - 1] = 2 * two
  BY <1>1, <1>4, <1>5, <1>6, LadderSizes
<1>12. SumUpTo(d, Sizes) = 2 * two + one
  BY <1>9, <1>10, <1>11, LastTwo
<1>13. /\ SumUpTo(d, Sizes) \in Nat /\ SumUpTo(n, Sizes) \in Nat
       /\ SumUpTo(d, Sizes) + SumUpTo(n, Sizes) = gap
  BY <1>1, <1>8, <1>12
<1> QED
  BY <1>3, <1>13 DEF n, d

-----------------------------------------------------------------------------
(* The fill.                                                               *)

plan(i) == planCount(rows, tau, fillTables[i])

(* How many of the i-th table's blocks have been dealt with.               *)
done(i, c) == IF c <= Sizes * (i - 1) THEN 0
              ELSE IF c >= Sizes * i THEN Sizes ELSE c - Sizes * (i - 1)

own(i, c)     == SumUpTo(dummies(plan(i)), done(i, c))
closing(i, c) == SumUpTo(plan(i), done(i, c))

closingAll(c) == closing(1, c) + closing(2, c) + closing(3, c)
                   + closing(4, c) + closing(5, c) + closing(6, c)

added(i, c) == own(i, c) + (IF i = 5 THEN closingAll(c) ELSE 0)

FilledSoFar ==
  /\ rows \in [Tables -> Nat] /\ Fits(rows, tau)
  /\ cycle \in 0..Cycles
  /\ heights \in [Tables -> Nat]
  /\ \A i \in 1..6 : heights[fillTables[i]] = rows[fillTables[i]] + added(i, cycle)

(* The six tables are different, JUMP the fifth.                           *)
LEMMA TheTables ==
  /\ \A i \in 1..6 : fillTables[i] \in Tables
  /\ \A t \in Tables : \E i \in 1..6 : t = fillTables[i]
  /\ \A i, j \in 1..6 : fillTables[i] = fillTables[j] => i = j
  /\ \A i \in 1..6 : fillTables[i] = "jump" <=> i = 5
  /\ Len(fillTables) = 6
  /\ fillTables = <<"xor", "mulNative", "setConstant", "deref", "jump", "blake2s">>
  /\ Tables = {"xor", "mulNative", "setConstant", "deref", "jump", "blake2s"}
BY DEF fillTables, Tables

(* What the plan counts are naturals, and what they add up to.             *)
LEMMA PlanFacts ==
  ASSUME rows \in [Tables -> Nat], Fits(rows, tau)
  PROVE  /\ \A i \in 1..6 : plan(i) \in [Ladder -> Nat]
         /\ \A i \in 1..6 : i # 5 =>
              SumUpTo(dummies(plan(i)), Sizes)
                = tableHeight(rows, tau, fillTables[i]) - rows[fillTables[i]]
         /\ SumUpTo(dummies(plan(5)), Sizes) + SumUpTo(plan(5), Sizes)
              = Pow2[tau] - jumpOwed(rows)
         /\ jumpOwed(rows) = rows["jump"] + SumUpTo(plan(1), Sizes) + SumUpTo(plan(2), Sizes)
              + SumUpTo(plan(3), Sizes) + SumUpTo(plan(4), Sizes) + SumUpTo(plan(6), Sizes)
<1>1. ASSUME NEW i \in 1..6, i # 5
      PROVE  /\ plan(i) = fillOf(rows, fillTables[i])
             /\ plan(i) \in [Ladder -> Nat]
             /\ SumUpTo(dummies(plan(i)), Sizes)
                  = tableHeight(rows, tau, fillTables[i]) - rows[fillTables[i]]
  <2> DEFINE t == fillTables[i]
             p == fillTarget(rows[t], minRows(t)) - rows[t]
  <2>1. t \in Tables /\ t # "jump" /\ rows[t] \in Nat
    BY <1>1, TheTables
  <2>2. minRows(t) \in Nat \ {0}
    BY LadderAssumption DEF minRows
  <2>3. plan(i) = fillGreedy(p) /\ plan(i) = fillOf(rows, t)
    BY <2>1 DEF plan, planCount, fillOf
  <2>4. p \in Nat
    <3>1. fillTarget(rows[t], minRows(t)) \in Nat /\ rows[t] <= fillTarget(rows[t], minRows(t))
      BY <2>1, <2>2, TargetFacts
    <3> QED
      BY <3>1, <2>1
  <2>5. tableHeight(rows, tau, t) = fillTarget(rows[t], minRows(t))
    BY <2>1 DEF tableHeight
  <2>6. tableHeight(rows, tau, t) - rows[t] = p
    BY <2>5
  <2> HIDE DEF p
  <2>7. fillGreedy(p) \in [Ladder -> Nat] /\ SumUpTo(dummies(fillGreedy(p)), Sizes) = p
    BY <2>4, GreedySum
  <2> QED
    BY <2>3, <2>6, <2>7
<1>2. \A i \in 1..6 : i # 5 =>
        fillJumps(rows, fillTables[i]) = SumUpTo(plan(i), Sizes)
  BY <1>1 DEF fillJumps, Traversals, Sizes
<1>3. jumpOwed(rows) = rows["jump"] + SumUpTo(plan(1), Sizes) + SumUpTo(plan(2), Sizes)
              + SumUpTo(plan(3), Sizes) + SumUpTo(plan(4), Sizes) + SumUpTo(plan(6), Sizes)
  <2>1. /\ fillTables[1] = "xor" /\ fillTables[2] = "mulNative" /\ fillTables[3] = "setConstant"
        /\ fillTables[4] = "deref" /\ fillTables[6] = "blake2s"
    BY DEF fillTables
  <2>2. /\ fillJumps(rows, "xor") = SumUpTo(plan(1), Sizes)
        /\ fillJumps(rows, "mulNative") = SumUpTo(plan(2), Sizes)
        /\ fillJumps(rows, "setConstant") = SumUpTo(plan(3), Sizes)
        /\ fillJumps(rows, "deref") = SumUpTo(plan(4), Sizes)
        /\ fillJumps(rows, "blake2s") = SumUpTo(plan(6), Sizes)
    BY <1>2, <2>1
  <2> QED
    BY <2>2 DEF jumpOwed
<1>4. \A i \in 1..6 : i # 5 => SumUpTo(plan(i), Sizes) \in Nat
  <2>1. SUFFICES ASSUME NEW i \in 1..6, i # 5
                PROVE  SumUpTo(plan(i), Sizes) \in Nat
    OBVIOUS
  <2>2. Sizes \in Nat /\ \A k \in 0..Sizes - 1 : plan(i)[k] \in Nat
    BY <1>1, <2>1, LadderSizes
  <2> HIDE DEF plan
  <2>3. \A k \in 0..Sizes : SumUpTo(plan(i), k) \in Nat
    BY <2>2, SumUnfolds
  <2> QED
    BY <2>2, <2>3
<1>5. jumpOwed(rows) \in Nat
  BY <1>3, <1>4, TheTables
<1> DEFINE gap == Pow2[tau] - jumpOwed(rows)
<1>6. gap \in Nat /\ gap # 1
  <2>1. tau \in Nat /\ jumpOwed(rows) <= Pow2[tau] /\ Pow2[tau] # jumpOwed(rows) + 1
    BY DEF Fits, JumpFits
  <2>2. Pow2[tau] \in Nat
    BY <2>1, Pow2Facts
  <2> QED
    BY <2>1, <2>2, <1>5
<1>7. plan(5) = jumpCount(gap)
  BY DEF plan, planCount, fillTables
<1> HIDE DEF gap
<1>8. /\ plan(5) \in [Ladder -> Nat]
      /\ SumUpTo(dummies(plan(5)), Sizes) + SumUpTo(plan(5), Sizes) = gap
  BY <1>6, <1>7, JumpSum
<1> QED
  BY <1>1, <1>3, <1>8 DEF gap

(* A cycle is a table's, and one of its sizes.                             *)
LEMMA CycleParts ==
  ASSUME NEW c \in Nat, c < Cycles
  PROVE  \E i \in 1..6, k \in Ladder :
           c = Sizes * (i - 1) + k /\ tableOf(c) = fillTables[i] /\ indexOf(c) = k
<1> DEFINE q == c \div Sizes
           k == c % Sizes
<1>1. Sizes \in Nat \ {0} /\ Ladder = 0..Sizes - 1
  BY LadderSizes
<1>2. q \in Nat /\ k \in 0..Sizes - 1 /\ c = Sizes * q + k
  BY <1>1, DivMod, Zenon
<1>3. tableOf(c) = fillTables[q + 1] /\ indexOf(c) = k
  BY DEF tableOf, indexOf, Sizes
<1>4. c < Sizes * 6
  BY <1>1, TheTables DEF Cycles, Sizes
<1> HIDE DEF q, k
<1>5. q < 6
  <2>1. SUFFICES ASSUME q >= 6
                PROVE  FALSE
    BY <1>2
  <2>2. Sizes * q >= Sizes * 6
    BY <2>1, <1>1, <1>2
  <2> QED
    BY <2>2, <1>1, <1>2, <1>4
<1>6. q + 1 \in 1..6 /\ (q + 1) - 1 = q
  BY <1>2, <1>5
<1> QED
  BY <1>1, <1>2, <1>3, <1>6

(* A cycle moves its own table on by one block, and no other.              *)
LEMMA DoneStep ==
  ASSUME NEW i \in 1..6, NEW k \in Ladder, NEW c, c = Sizes * (i - 1) + k, NEW j \in 1..6
  PROVE  /\ done(j, c) \in 0..Sizes
         /\ j = i => done(j, c) = k /\ done(j, c + 1) = k + 1
         /\ j # i => done(j, c + 1) = done(j, c)
<1>1. Sizes \in Nat \ {0} /\ Ladder = 0..Sizes - 1
  BY LadderSizes
<1>2. Sizes * 0 = 0 /\ Sizes * 1 = Sizes
  BY <1>1
<1>3. /\ Sizes * (i - 1) = IF i = 1 THEN 0 ELSE IF i = 2 THEN Sizes ELSE IF i = 3 THEN 2 * Sizes
                            ELSE IF i = 4 THEN 3 * Sizes ELSE IF i = 5 THEN 4 * Sizes ELSE 5 * Sizes
      /\ Sizes * (j - 1) = IF j = 1 THEN 0 ELSE IF j = 2 THEN Sizes ELSE IF j = 3 THEN 2 * Sizes
                            ELSE IF j = 4 THEN 3 * Sizes ELSE IF j = 5 THEN 4 * Sizes ELSE 5 * Sizes
      /\ Sizes * j = Sizes * (j - 1) + Sizes
  BY <1>1
<1> DEFINE a == Sizes * (i - 1)
           b == Sizes * (j - 1)
<1>4. \A x : done(j, x) = IF x <= b THEN 0 ELSE IF x >= b + Sizes THEN Sizes ELSE x - b
  <2>1. Sizes * j = b + Sizes
    BY <1>3
  <2> QED
    BY <2>1 DEF done
<1>5. a \in Nat /\ b \in Nat /\ c = a + k /\ (j = i => a = b)
      /\ (j < i => a >= b + Sizes) /\ (i < j => b >= a + Sizes)
  BY <1>1, <1>3
<1> HIDE DEF a, b
<1>6. k \in Nat /\ k < Sizes
  BY <1>1
<1>7. CASE j = i
  BY <1>1, <1>4, <1>5, <1>6, <1>7
<1>8. CASE j < i
  BY <1>1, <1>4, <1>5, <1>6, <1>8
<1>9. CASE i < j
  BY <1>1, <1>4, <1>5, <1>6, <1>9
<1> QED
  BY <1>7, <1>8, <1>9

(* At the start nothing is added, at the end every block is done.          *)
LEMMA DoneEnds ==
  ASSUME NEW j \in 1..6
  PROVE  /\ done(j, 0) = 0 /\ done(j, Cycles) = Sizes
         /\ \A c \in 0..Cycles : done(j, c) \in 0..Sizes
<1>1. Sizes \in Nat \ {0} /\ Cycles = 6 * Sizes
  BY LadderSizes, TheTables, LadderAssumption DEF Cycles, Sizes
<1>2. /\ Sizes * (j - 1) \in Nat /\ Sizes * j = Sizes * (j - 1) + Sizes
      /\ Sizes * j <= 6 * Sizes
  BY <1>1
<1> DEFINE b == Sizes * (j - 1)
<1>3. \A c : done(j, c) = IF c <= b THEN 0 ELSE IF c >= b + Sizes THEN Sizes ELSE c - b
  BY <1>2 DEF done
<1>4. b \in Nat /\ b + Sizes <= Cycles
  BY <1>1, <1>2
<1> HIDE DEF b
<1> QED
  BY <1>1, <1>3, <1>4

(* What one cycle adds.                                                    *)
LEMMA SumsStep ==
  ASSUME rows \in [Tables -> Nat], Fits(rows, tau),
         NEW i \in 1..6, NEW k \in Ladder, NEW c, c = Sizes * (i - 1) + k, NEW j \in 1..6
  PROVE  /\ own(j, c) \in Nat /\ closing(j, c) \in Nat
         /\ plan(i)[k] \in Nat /\ plan(i)[k] * fillSizes[k] \in Nat
         /\ own(j, c + 1) = own(j, c) + (IF j = i THEN plan(i)[k] * fillSizes[k] ELSE 0)
         /\ closing(j, c + 1) = closing(j, c) + (IF j = i THEN plan(i)[k] ELSE 0)
<1>1. Sizes \in Nat \ {0} /\ Ladder = 0..Sizes - 1
  BY LadderSizes
<1>2. \A l \in 1..6 : plan(l) \in [Ladder -> Nat]
  BY PlanFacts
<1> DEFINE n == plan(j)
           d == dummies(n)
<1>3. \A l \in Ladder : d[l] = n[l] * fillSizes[l]
  BY DEF dummies
<1>4. n \in [Ladder -> Nat]
  BY <1>2
<1> HIDE DEF n, d
<1>5. ASSUME NEW l \in Ladder
      PROVE  n[l] \in Nat /\ d[l] \in Nat
  <2>1. n[l] \in Nat /\ fillSizes[l] \in Nat /\ d[l] = n[l] * fillSizes[l]
    BY <1>3, <1>4, LadderSizes
  <2> QED
    BY <2>1
<1>6. /\ \A l \in 0..Sizes : SumUpTo(n, l) \in Nat
      /\ \A l \in 0..Sizes - 1 : SumUpTo(n, l + 1) = SumUpTo(n, l) + n[l]
  BY <1>1, <1>5, SumUnfolds
<1>7. /\ \A l \in 0..Sizes : SumUpTo(d, l) \in Nat
      /\ \A l \in 0..Sizes - 1 : SumUpTo(d, l + 1) = SumUpTo(d, l) + d[l]
  BY <1>1, <1>5, SumUnfolds
<1>8. /\ done(j, c) \in 0..Sizes
      /\ j = i => done(j, c) = k /\ done(j, c + 1) = k + 1
      /\ j # i => done(j, c + 1) = done(j, c)
  BY DoneStep
<1>9. own(j, c) = SumUpTo(d, done(j, c)) /\ own(j, c + 1) = SumUpTo(d, done(j, c + 1))
  BY DEF own, d, n
<1>10. closing(j, c) = SumUpTo(n, done(j, c)) /\ closing(j, c + 1) = SumUpTo(n, done(j, c + 1))
  BY DEF closing, n
<1>11. own(j, c) \in Nat /\ closing(j, c) \in Nat
  BY <1>6, <1>7, <1>8, <1>9, <1>10
<1>12. plan(i)[k] \in Nat /\ plan(i)[k] * fillSizes[k] \in Nat
  <2>1. plan(i)[k] \in Nat /\ fillSizes[k] \in Nat
    BY <1>2, LadderSizes
  <2> QED
    BY <2>1
<1>13. CASE j = i
  <2>1. n = plan(i)
    BY <1>13 DEF n
  <2>2. SumUpTo(n, k + 1) = SumUpTo(n, k) + n[k] /\ SumUpTo(d, k + 1) = SumUpTo(d, k) + d[k]
    BY <1>1, <1>6, <1>7
  <2>3. d[k] = n[k] * fillSizes[k]
    BY <1>3
  <2> QED
    BY <1>8, <1>9, <1>10, <1>11, <1>12, <1>13, <2>1, <2>2, <2>3
<1>14. CASE j # i
  BY <1>8, <1>9, <1>10, <1>11, <1>12, <1>14
<1> QED
  BY <1>13, <1>14

(* The sums never exceed what the whole plan adds.                         *)
LEMMA SumsBounded ==
  ASSUME rows \in [Tables -> Nat], Fits(rows, tau), NEW c \in 0..Cycles, NEW j \in 1..6
  PROVE  /\ own(j, c) \in Nat /\ closing(j, c) \in Nat
         /\ own(j, c) <= SumUpTo(dummies(plan(j)), Sizes)
         /\ closing(j, c) <= SumUpTo(plan(j), Sizes)
         /\ SumUpTo(dummies(plan(j)), Sizes) \in Nat /\ SumUpTo(plan(j), Sizes) \in Nat
<1>1. Sizes \in Nat \ {0} /\ Ladder = 0..Sizes - 1
  BY LadderSizes
<1> DEFINE n == plan(j)
           d == dummies(n)
<1>3. \A l \in Ladder : d[l] = n[l] * fillSizes[l]
  BY DEF dummies
<1>4. n \in [Ladder -> Nat]
  BY PlanFacts
<1> HIDE DEF n, d
<1>5. ASSUME NEW l \in Ladder
      PROVE  n[l] \in Nat /\ d[l] \in Nat
  <2>1. n[l] \in Nat /\ fillSizes[l] \in Nat /\ d[l] = n[l] * fillSizes[l]
    BY <1>3, <1>4, LadderSizes
  <2> QED
    BY <2>1
<1>6. \A l \in 0..Sizes : SumUpTo(n, l) \in Nat /\ SumUpTo(d, l) \in Nat
  <2>1. \A l \in 0..Sizes : SumUpTo(n, l) \in Nat
    BY <1>1, <1>5, SumUnfolds
  <2>2. \A l \in 0..Sizes : SumUpTo(d, l) \in Nat
    BY <1>1, <1>5, SumUnfolds
  <2> QED
    BY <2>1, <2>2
<1>7. done(j, c) \in 0..Sizes /\ Sizes \in 0..Sizes /\ done(j, c) <= Sizes
  BY <1>1, DoneEnds
<1> DEFINE l == done(j, c)
<1> HIDE DEF l
<1>8. l \in 0..Sizes /\ l <= Sizes
  BY <1>7 DEF l
<1>9. SumUpTo(n, l) <= SumUpTo(n, Sizes)
  BY <1>1, <1>5, <1>7, <1>8, SumGrows
<1>10. SumUpTo(d, l) <= SumUpTo(d, Sizes)
  BY <1>1, <1>5, <1>7, <1>8, SumGrows
<1>11. own(j, c) = SumUpTo(d, l) /\ closing(j, c) = SumUpTo(n, l)
  BY DEF own, closing, d, n, l
<1>12. /\ own(j, c) \in Nat /\ closing(j, c) \in Nat
       /\ own(j, c) <= SumUpTo(d, Sizes) /\ closing(j, c) <= SumUpTo(n, Sizes)
       /\ SumUpTo(d, Sizes) \in Nat /\ SumUpTo(n, Sizes) \in Nat
  BY <1>6, <1>7, <1>8, <1>9, <1>10, <1>11
<1> QED
  BY <1>12 DEF d, n

(* Where nothing has been traversed, nothing is added.                     *)
LEMMA FilledInit == Init => FilledSoFar
<1> SUFFICES ASSUME Init
             PROVE  FilledSoFar
  OBVIOUS
<1>1. rows \in [Tables -> Nat] /\ Fits(rows, tau) /\ cycle = 0 /\ heights = rows
  BY CountsAssumption DEF Init
<1>2. 0 \in 0..Cycles
  BY TheTables, LadderAssumption DEF Cycles
<1>3. ASSUME NEW i \in 1..6
      PROVE  own(i, 0) = 0 /\ closing(i, 0) = 0
  <2>1. \A f : SumUpTo(f, 0) = 0
    <3>1. ASSUME NEW f
          PROVE  SumUpTo(f, 0) = 0
      <4>1. \A l \in 0..0 - 1 : f[l] \in Nat
        OBVIOUS
      <4> QED
        BY <4>1, SumUnfolds
    <3> QED
      BY <3>1
  <2>2. done(i, 0) = 0
    BY DoneEnds
  <2> QED
    BY <2>1, <2>2 DEF own, closing
<1>4. \A i \in 1..6 : added(i, 0) = 0
  BY <1>3 DEF added, closingAll
<1>5. \A i \in 1..6 : rows[fillTables[i]] \in Nat
  BY <1>1, TheTables
<1> QED
  BY <1>1, <1>2, <1>4, <1>5 DEF FilledSoFar

(* A cycle adds to its own table its dummies, to JUMP its closing jumps.   *)
LEMMA FilledTraverse == FilledSoFar /\ Traverse => FilledSoFar'
<1> SUFFICES ASSUME FilledSoFar, Traverse
             PROVE  FilledSoFar'
  OBVIOUS
<1>1. /\ rows \in [Tables -> Nat] /\ Fits(rows, tau) /\ cycle \in 0..Cycles
      /\ heights \in [Tables -> Nat]
      /\ \A i \in 1..6 : heights[fillTables[i]] = rows[fillTables[i]] + added(i, cycle)
  BY DEF FilledSoFar
<1>2. cycle < Cycles /\ cycle' = cycle + 1 /\ rows' = rows /\ tau' = tau
  BY DEF Traverse
<1>3. Cycles \in Nat
  BY TheTables, LadderAssumption DEF Cycles
<1>4. PICK i \in 1..6, k \in Ladder :
        cycle = Sizes * (i - 1) + k /\ tableOf(cycle) = fillTables[i] /\ indexOf(cycle) = k
  BY <1>1, <1>2, <1>3, CycleParts
<1> DEFINE n == plan(i)[k]
           m == n * fillSizes[k]
           c == cycle
<1>5. heights' = [u \in Tables |-> heights[u] + (IF u = fillTables[i] THEN m ELSE 0)
                                              + (IF u = "jump" THEN n ELSE 0)]
  BY <1>4 DEF Traverse, plan
<1>6. ASSUME NEW j \in 1..6
      PROVE  /\ own(j, c) \in Nat /\ closing(j, c) \in Nat /\ n \in Nat /\ m \in Nat
             /\ own(j, c + 1) = own(j, c) + (IF j = i THEN m ELSE 0)
             /\ closing(j, c + 1) = closing(j, c) + (IF j = i THEN n ELSE 0)
  BY <1>1, <1>4, SumsStep
<1> HIDE DEF n, m, c
<1>7. n \in Nat /\ m \in Nat
  <2>1. 1 \in 1..6
    OBVIOUS
  <2> QED
    BY <2>1, <1>6
<1>8. closingAll(c + 1) = closingAll(c) + n /\ closingAll(c) \in Nat
  <2>1. /\ closing(1, c + 1) = closing(1, c) + (IF 1 = i THEN n ELSE 0) /\ closing(1, c) \in Nat
        /\ closing(2, c + 1) = closing(2, c) + (IF 2 = i THEN n ELSE 0) /\ closing(2, c) \in Nat
        /\ closing(3, c + 1) = closing(3, c) + (IF 3 = i THEN n ELSE 0) /\ closing(3, c) \in Nat
        /\ closing(4, c + 1) = closing(4, c) + (IF 4 = i THEN n ELSE 0) /\ closing(4, c) \in Nat
        /\ closing(5, c + 1) = closing(5, c) + (IF 5 = i THEN n ELSE 0) /\ closing(5, c) \in Nat
        /\ closing(6, c + 1) = closing(6, c) + (IF 6 = i THEN n ELSE 0) /\ closing(6, c) \in Nat
    BY <1>6
  <2>2. closingAll(c) = closing(1, c) + closing(2, c) + closing(3, c)
                          + closing(4, c) + closing(5, c) + closing(6, c)
    BY DEF closingAll
  <2>3. closingAll(c + 1) = closing(1, c + 1) + closing(2, c + 1) + closing(3, c + 1)
                          + closing(4, c + 1) + closing(5, c + 1) + closing(6, c + 1)
    BY DEF closingAll
  <2> QED
    BY <1>7, <2>1, <2>2, <2>3
<1>9. ASSUME NEW j \in 1..6
      PROVE  /\ heights'[fillTables[j]] = rows[fillTables[j]] + added(j, c + 1)
             /\ heights'[fillTables[j]] \in Nat
  <2>1. fillTables[j] \in Tables /\ (fillTables[j] = fillTables[i] <=> j = i)
        /\ (fillTables[j] = "jump" <=> j = 5)
    BY TheTables
  <2>2. heights'[fillTables[j]] = heights[fillTables[j]] + (IF j = i THEN m ELSE 0)
                                     + (IF j = 5 THEN n ELSE 0)
    BY <1>5, <2>1
  <2>3. heights[fillTables[j]] = rows[fillTables[j]] + added(j, c) /\ rows[fillTables[j]] \in Nat
    BY <1>1, <2>1 DEF c
  <2>4. added(j, c) = own(j, c) + (IF j = 5 THEN closingAll(c) ELSE 0)
    BY DEF added
  <2>5. added(j, c + 1) = own(j, c + 1) + (IF j = 5 THEN closingAll(c + 1) ELSE 0)
    BY DEF added
  <2> QED
    BY <1>6, <1>7, <1>8, <2>2, <2>3, <2>4, <2>5
<1>10. heights' \in [Tables -> Nat]
  <2>1. \A u \in Tables : heights'[u] \in Nat
    BY <1>9, TheTables
  <2> QED
    BY <1>5, <2>1
<1>11. cycle + 1 \in 0..Cycles
  BY <1>1, <1>2, <1>3
<1>12. \A j \in 1..6 : added(j, cycle)' = added(j, c + 1)
  BY <1>2 DEF added, closingAll, own, closing, plan, c
<1> QED
  BY <1>1, <1>2, <1>9, <1>10, <1>11, <1>12 DEF FilledSoFar, Cycles

(* The heights are the run's rows and what the cycles traversed so far add.*)
THEOREM FilledAsPlanned == Spec => []FilledSoFar
<1>1. FilledSoFar /\ [Next]_fillVars => FilledSoFar'
  <2>1. ASSUME FilledSoFar, UNCHANGED fillVars
        PROVE  FilledSoFar'
    BY <2>1 DEF FilledSoFar, fillVars, added, closingAll, own, closing, plan
  <2> QED
    BY <2>1, FilledTraverse DEF Next
<1> QED
  BY <1>1, FilledInit, PTL DEF Spec

(* What is added stays within the height, and ends as the height.          *)
LEMMA HeightsReached ==
  ASSUME FilledSoFar, NEW i \in 1..6
  PROVE  /\ heights[fillTables[i]] <= tableHeight(rows, tau, fillTables[i])
         /\ cycle = Cycles => heights[fillTables[i]] = tableHeight(rows, tau, fillTables[i])
<1> DEFINE full(j) == SumUpTo(plan(j), Sizes)
           fullOwn(j) == SumUpTo(dummies(plan(j)), Sizes)
           t == fillTables[i]
<1>1. /\ rows \in [Tables -> Nat] /\ Fits(rows, tau) /\ cycle \in 0..Cycles
      /\ heights[t] = rows[t] + added(i, cycle)
  BY DEF FilledSoFar
<1>2. ASSUME NEW j \in 1..6
      PROVE  /\ own(j, cycle) \in Nat /\ closing(j, cycle) \in Nat
             /\ own(j, cycle) <= fullOwn(j) /\ closing(j, cycle) <= full(j)
             /\ fullOwn(j) \in Nat /\ full(j) \in Nat
             /\ cycle = Cycles => own(j, cycle) = fullOwn(j) /\ closing(j, cycle) = full(j)
  <2>1. cycle = Cycles => own(j, cycle) = fullOwn(j) /\ closing(j, cycle) = full(j)
    BY DoneEnds DEF own, closing
  <2>2. /\ own(j, cycle) \in Nat /\ closing(j, cycle) \in Nat
        /\ own(j, cycle) <= fullOwn(j) /\ closing(j, cycle) <= full(j)
        /\ fullOwn(j) \in Nat /\ full(j) \in Nat
    BY <1>1, SumsBounded
  <2> QED
    BY <2>1, <2>2
<1>3. t \in Tables /\ rows[t] \in Nat /\ (t = "jump" <=> i = 5)
  BY <1>1, TheTables
<1>4. \A j \in 1..6 : j # 5 =>
        fullOwn(j) = tableHeight(rows, tau, fillTables[j]) - rows[fillTables[j]]
  BY <1>1, PlanFacts
<1>5. /\ fullOwn(5) + full(5) = Pow2[tau] - jumpOwed(rows)
      /\ jumpOwed(rows) = rows["jump"] + full(1) + full(2) + full(3) + full(4) + full(6)
  BY <1>1, PlanFacts
<1> HIDE DEF full, fullOwn
<1>6. CASE i # 5
  <2>1. added(i, cycle) = own(i, cycle)
    BY <1>2, <1>6 DEF added
  <2>2. tableHeight(rows, tau, t) \in Nat
    <3>1. minRows(t) \in Nat \ {0}
      BY LadderAssumption DEF minRows
    <3>2. tableHeight(rows, tau, t) = fillTarget(rows[t], minRows(t))
      BY <1>3, <1>6 DEF tableHeight
    <3> QED
      BY <3>1, <3>2, <1>3, TargetFacts
  <2>3. fullOwn(i) = tableHeight(rows, tau, t) - rows[t]
    BY <1>4, <1>6
  <2> QED
    BY <1>1, <1>2, <1>3, <2>1, <2>2, <2>3
<1>7. CASE i = 5
  <2>1. t = "jump" /\ tableHeight(rows, tau, t) = Pow2[tau]
    BY <1>3, <1>7 DEF tableHeight
  <2>2. added(i, cycle) = own(5, cycle) + closingAll(cycle)
    BY <1>7 DEF added
  <2>3. closingAll(cycle) = closing(1, cycle) + closing(2, cycle) + closing(3, cycle)
                              + closing(4, cycle) + closing(5, cycle) + closing(6, cycle)
    BY DEF closingAll
  <2>4. Pow2[tau] \in Nat
    BY <1>1, Pow2Facts DEF Fits, JumpFits
  <2>5. /\ own(5, cycle) \in Nat /\ own(5, cycle) <= fullOwn(5) /\ fullOwn(5) \in Nat
        /\ closing(1, cycle) \in Nat /\ closing(1, cycle) <= full(1) /\ full(1) \in Nat
        /\ closing(2, cycle) \in Nat /\ closing(2, cycle) <= full(2) /\ full(2) \in Nat
        /\ closing(3, cycle) \in Nat /\ closing(3, cycle) <= full(3) /\ full(3) \in Nat
        /\ closing(4, cycle) \in Nat /\ closing(4, cycle) <= full(4) /\ full(4) \in Nat
        /\ closing(5, cycle) \in Nat /\ closing(5, cycle) <= full(5) /\ full(5) \in Nat
        /\ closing(6, cycle) \in Nat /\ closing(6, cycle) <= full(6) /\ full(6) \in Nat
    BY <1>2
  <2>6. cycle = Cycles =>
          /\ own(5, cycle) = fullOwn(5) /\ closing(1, cycle) = full(1)
          /\ closing(2, cycle) = full(2) /\ closing(3, cycle) = full(3)
          /\ closing(4, cycle) = full(4) /\ closing(5, cycle) = full(5)
          /\ closing(6, cycle) = full(6)
    BY <1>2
  <2>7. heights["jump"] = rows["jump"] + (own(5, cycle) + closingAll(cycle)) /\ rows["jump"] \in Nat
    BY <1>1, <1>3, <2>1, <2>2
  <2>8. rows["jump"] + fullOwn(5) + full(1) + full(2) + full(3) + full(4) + full(5) + full(6)
          = Pow2[tau]
    BY ONLY <1>5, <2>4, <2>5, <2>7
  <2> QED
    BY <2>1, <2>3, <2>4, <2>5, <2>6, <2>7, <2>8
<1> QED
  BY <1>6, <1>7

(* No table ever has more rows than its announced height.                  *)
THEOREM NeverTooHigh == Spec => []NeverAboveHeight
<1>1. FilledSoFar => NeverAboveHeight
  <2>1. SUFFICES ASSUME FilledSoFar, NEW t \in Tables
                PROVE  heights[t] <= tableHeight(rows, tau, t)
    BY DEF NeverAboveHeight
  <2>2. PICK i \in 1..6 : t = fillTables[i]
    BY TheTables
  <2> QED
    BY <2>1, <2>2, HeightsReached
<1> QED
  BY <1>1, FilledAsPlanned, PTL

(* An announced height is a power of two within the caps, at least the     *)
(* table's floor.                                                          *)
LEMMA HeightsAreAnnounceable ==
  ASSUME rows \in [Tables -> Nat], Fits(rows, tau), NEW t \in Tables
  PROVE  IsPowerOfTwo(tableHeight(rows, tau, t)) /\ tableHeight(rows, tau, t) >= minRows(t)
<1>1. tau \in 0..MaxLogRows /\ MaxLogRows \in Nat
  BY LadderAssumption DEF Fits, JumpFits
<1>2. CASE t = "jump"
  <2>1. tableHeight(rows, tau, t) = Pow2[tau] /\ minRows(t) = 1
    BY <1>2 DEF tableHeight, minRows
  <2>2. Pow2[tau] \in Nat \ {0}
    BY <1>1, Pow2Facts
  <2> QED
    BY <1>1, <2>1, <2>2 DEF IsPowerOfTwo
<1>3. CASE t # "jump"
  <2>1. tableHeight(rows, tau, t) = fillTarget(rows[t], minRows(t))
    BY <1>3 DEF tableHeight
  <2>2. minRows(t) \in Nat \ {0}
    BY LadderAssumption DEF minRows
  <2>3. PICK e \in Nat : fillTarget(rows[t], minRows(t)) = Pow2[e]
    BY <2>2, TargetFacts
  <2>4. fillTarget(rows[t], minRows(t)) >= minRows(t)
    <3>1. fillTarget(rows[t], minRows(t)) \in Nat /\ minRows(t) <= fillTarget(rows[t], minRows(t))
      BY <2>2, TargetFacts
    <3> QED
      BY <3>1, <2>2
  <2>5. Pow2[e] <= Pow2[MaxLogRows]
    BY <1>3, <2>3 DEF Fits
  <2>6. e <= MaxLogRows
    <3>1. SUFFICES ASSUME MaxLogRows < e
                  PROVE  FALSE
      BY <1>1
    <3>2. Pow2[MaxLogRows] < Pow2[e] /\ Pow2[e] \in Nat /\ Pow2[MaxLogRows] \in Nat
      BY <1>1, <3>1, Pow2Facts
    <3> QED
      BY <3>2, <2>5
  <2> QED
    BY <2>1, <2>3, <2>4, <2>6, <1>1 DEF IsPowerOfTwo
<1> QED
  BY <1>2, <1>3

(* The fill ends with every table exactly at its announced height.         *)
THEOREM FillEndsExact == Spec => []FillIsExact
<1>1. FilledSoFar => FillIsExact
  <2>1. SUFFICES ASSUME FilledSoFar, cycle = Cycles, NEW t \in Tables
                PROVE  /\ heights[t] = tableHeight(rows, tau, t)
                       /\ IsPowerOfTwo(heights[t]) /\ heights[t] >= minRows(t)
    BY DEF FillIsExact
  <2>2. PICK i \in 1..6 : t = fillTables[i]
    BY TheTables
  <2>3. heights[t] = tableHeight(rows, tau, t)
    BY <2>1, <2>2, HeightsReached
  <2>4. rows \in [Tables -> Nat] /\ Fits(rows, tau)
    BY <2>1 DEF FilledSoFar
  <2> QED
    BY <2>3, <2>4, HeightsAreAnnounceable
<1> QED
  BY <1>1, FilledAsPlanned, PTL


(* So no table ever has more rows than the greatest height of a table.     *)
WithinCap == \A t \in Tables : heights[t] <= Pow2[MaxLogRows]

(* The fill keeps within the cap on its way.                               *)
THEOREM NeverAboveCap == Spec => []WithinCap
<1>1. FilledSoFar /\ NeverAboveHeight => WithinCap
  <2>1. SUFFICES ASSUME FilledSoFar, NeverAboveHeight, NEW t \in Tables
                PROVE  heights[t] <= Pow2[MaxLogRows]
    BY DEF WithinCap
  <2>2. rows \in [Tables -> Nat] /\ Fits(rows, tau) /\ heights \in [Tables -> Nat]
    BY <2>1 DEF FilledSoFar
  <2>3. IsPowerOfTwo(tableHeight(rows, tau, t))
    BY <2>2, HeightsAreAnnounceable
  <2>4. PICK e \in 0..MaxLogRows : tableHeight(rows, tau, t) = Pow2[e]
    BY <2>3 DEF IsPowerOfTwo
  <2>5. Pow2[e] \in Nat /\ Pow2[MaxLogRows] \in Nat /\ Pow2[e] <= Pow2[MaxLogRows]
    <3>1. e \in Nat /\ MaxLogRows \in Nat /\ (e < MaxLogRows \/ e = MaxLogRows)
      BY LadderAssumption
    <3>2. Pow2[e] \in Nat /\ Pow2[MaxLogRows] \in Nat
      BY <3>1, Pow2Facts
    <3>3. CASE e < MaxLogRows
      <4>1. Pow2[e] < Pow2[MaxLogRows]
        BY <3>1, <3>3, Pow2Facts
      <4> QED
        BY <3>2, <4>1
    <3>4. CASE e = MaxLogRows
      BY <3>2, <3>4
    <3> QED
      BY <3>1, <3>2, <3>3, <3>4
  <2>6. heights[t] <= Pow2[e] /\ heights[t] \in Nat
    BY <2>1, <2>2, <2>4 DEF NeverAboveHeight
  <2> QED
    BY <2>5, <2>6
<1> QED
  BY <1>1, FilledAsPlanned, NeverTooHigh, PTL

=============================================================================
