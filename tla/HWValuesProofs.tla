--------------------------- MODULE HWValuesProofs ---------------------------
(***************************************************************************)
(* What division by a power of two, remainder, shifts, complement, & and | *)
(* do to the bits of a number, and how bits compare numbers; what follows  *)
(* for a condition of the driver and the values that the analysis and the  *)
(* device model make for it.                                               *)
(***************************************************************************)
EXTENDS HWInputs, FiniteSetTheorems, WellFoundedInduction, TLAPS

(* A set that has a natural number has a least one.                        *)
LEMMA LeastNat ==
    ASSUME NEW S \in SUBSET Nat, S # {}
    PROVE  \E x \in S : \A y \in S : x <= y
<1>1. PICK x \in S : \A y \in S : ~(<<y, x>> \in OpToRel(<, Nat))
  BY NatLessThanWellFounded, WFMin, Zenon
<1>2. \A y \in S : x <= y
  <2>1. ASSUME NEW y \in S, y < x PROVE FALSE
    <3>1. <<y, x>> \in OpToRel(<, Nat)
      BY <2>1, Zenon DEF OpToRel
    <3>2. QED
      BY <1>1, <3>1, Zenon
  <2>2. QED
    BY <2>1
<1>3. QED
  BY <1>2, Zenon

(* Induction, for a set of numbers.                                        *)
LEMMA NatSet ==
    ASSUME NEW S, 0 \in S, \A n \in Nat : n \in S => n + 1 \in S
    PROVE  Nat \subseteq S
<1> SUFFICES ASSUME Nat \ S # {}
             PROVE  FALSE
  BY Zenon
<1>1. PICK x \in Nat \ S : \A y \in Nat \ S : x <= y
  BY LeastNat, Zenon
<1>2. x # 0 /\ x - 1 \in Nat
  BY <1>1
<1>3. x - 1 \in S
  BY <1>1, <1>2
<1>4. (x - 1) + 1 \in S
  BY <1>2, <1>3, Zenon
<1>5. QED
  BY <1>1, <1>2, <1>4

(* Induction from all smaller numbers, for a set of numbers.               *)
LEMMA NatSetStrong ==
    ASSUME NEW S, \A n \in Nat : (\A m \in Nat : m < n => m \in S) => n \in S
    PROVE  Nat \subseteq S
<1> SUFFICES ASSUME Nat \ S # {}
             PROVE  FALSE
  BY Zenon
<1>1. PICK x \in Nat \ S : \A y \in Nat \ S : x <= y
  BY LeastNat, Zenon
<1>2. \A m \in Nat : m < x => m \in S
  BY <1>1
<1>3. QED
  BY <1>1, <1>2, Zenon

-----------------------------------------------------------------------------
(* A step gives the value at n, and looks only at values below n.          *)
Causal(S, step) ==
    /\ step \in [Nat -> [[Nat -> S] -> S]]
    /\ \A n \in Nat : \A f, g \in [Nat -> S] :
          (\A i \in Nat : i < n => f[i] = g[i]) => step[n][f] = step[n][g]

Solves(f, step) == \A n \in Nat : f[n] = step[n][f]

(* A function whose value at n is determined by its values below n exists. *)
LEMMA Recursion ==
    ASSUME NEW S, NEW s0 \in S, NEW step, Causal(S, step)
    PROVE  \E f \in [Nat -> S] : Solves(f, step)
<1> USE DEF Causal, Solves
<1> DEFINE Sol(f, m) == f \in [Nat -> S] /\ \A n \in Nat : n < m => f[n] = step[n][f]
           F(m) == CHOOSE f : Sol(f, m)
           Good == {m \in Nat : \E f : Sol(f, m)}
<1>1. 0 \in Good
  <2>1. Sol([n \in Nat |-> s0], 0)
    OBVIOUS
  <2> HIDE DEF Sol
  <2>2. QED
    BY <2>1, Zenon
<1>2. ASSUME NEW m \in Nat, m \in Good
      PROVE  m + 1 \in Good
  <2>1. PICK f : Sol(f, m)
    BY <1>2, Zenon
  <2>2. f \in [Nat -> S] /\ step[m][f] \in S
    BY <2>1, Zenon
  <2> DEFINE g == [f EXCEPT ![m] = step[m][f]]
  <2>3. g \in [Nat -> S] /\ g[m] = step[m][f] /\ \A i \in Nat : i < m => g[i] = f[i]
    BY <2>2
  <2> HIDE DEF g
  <2>4. ASSUME NEW n \in Nat, n < m + 1
        PROVE  g[n] = step[n][g]
    <3>1. \A i \in Nat : i < n => g[i] = f[i]
      BY <2>3, <2>4
    <3>2. step[n][g] = step[n][f]
      BY <2>2, <2>3, <3>1, Zenon
    <3>3. CASE n = m
      BY <2>3, <3>2, <3>3, Zenon
    <3>4. CASE n # m
      BY <2>1, <2>3, <2>4, <3>2, <3>4
    <3>5. QED
      BY <3>3, <3>4, Zenon
  <2>5. Sol(g, m + 1)
    BY <2>3, <2>4, Zenon
  <2> HIDE DEF Sol
  <2>6. QED
    BY <2>5
<1>3. Nat \subseteq Good
  <2> HIDE DEF Good
  <2>1. QED
    BY <1>1, <1>2, NatSet, Zenon
<1>4. \A m \in Nat : Sol(F(m), m)
  <2> HIDE DEF Sol
  <2>1. QED
    BY <1>3, Zenon
<1> HIDE DEF F
<1>5. ASSUME NEW f, NEW g, NEW m \in Nat, Sol(f, m), Sol(g, m), NEW k \in Nat, k < m
      PROVE  f[k] = g[k]
  <2> DEFINE Same == {n \in Nat : n < m => f[n] = g[n]}
  <2>1. ASSUME NEW n \in Nat, \A i \in Nat : i < n => i \in Same
        PROVE  n \in Same
    <3> SUFFICES ASSUME n < m
                 PROVE  f[n] = g[n]
      BY Zenon
    <3>1. \A i \in Nat : i < n => f[i] = g[i]
      BY <2>1
    <3>2. step[n][f] = step[n][g]
      BY <1>5, <3>1, Zenon
    <3>3. QED
      BY <1>5, <3>2, Zenon
  <2>2. Nat \subseteq Same
    <3> HIDE DEF Same
    <3>1. QED
      BY <2>1, NatSetStrong, Zenon
  <2>3. QED
    BY <1>5, <2>2, Zenon
<1> DEFINE h == [n \in Nat |-> F(n + 1)[n]]
<1>6. h \in [Nat -> S]
  BY <1>4
<1>7. ASSUME NEW n \in Nat
      PROVE  h[n] = step[n][h]
  <2> DEFINE f == F(n + 1)
  <2>1. Sol(f, n + 1)
    BY <1>4
  <2>2. ASSUME NEW i \in Nat, i < n
        PROVE  h[i] = f[i]
    <3>1. Sol(F(i + 1), i + 1)
      BY <1>4
    <3>2. Sol(f, i + 1)
      <4> HIDE DEF f
      <4>1. QED
        BY <2>1, <2>2
    <3>3. F(i + 1)[i] = f[i]
      <4> HIDE DEF Sol
      <4>1. i + 1 \in Nat /\ i < i + 1
        OBVIOUS
      <4>2. QED
        BY <1>5, <3>1, <3>2, <4>1
    <3>4. QED
      BY <3>3, Zenon
  <2>3. h[n] = f[n]
    BY Zenon
  <2>4. f \in [Nat -> S] /\ f[n] = step[n][f]
    <3> HIDE DEF f
    <3>1. QED
      BY <2>1
  <2> HIDE DEF h, f
  <2>5. step[n][h] = step[n][f]
    BY <1>6, <2>2, <2>4, Zenon
  <2>6. QED
    BY <2>3, <2>4, <2>5, Zenon
<1> HIDE DEF h
<1>8. QED
  BY <1>6, <1>7, Zenon

(* Pow2 is doubled from each exponent to the next.                         *)
LEMMA Pow2Def ==
    /\ Pow2 \in [Nat -> Nat] /\ Pow2[0] = 1
    /\ \A n \in Nat : Pow2[n + 1] = 2 * Pow2[n]
<1> DEFINE step == [n \in Nat |-> [f \in [Nat -> Nat] |-> IF n = 0 THEN 1 ELSE 2 * f[n - 1]]]
<1>1. step \in [Nat -> [[Nat -> Nat] -> Nat]]
  OBVIOUS
<1>2. ASSUME NEW n \in Nat, NEW f \in [Nat -> Nat], NEW g \in [Nat -> Nat],
             \A i \in Nat : i < n => f[i] = g[i]
      PROVE  step[n][f] = step[n][g]
  BY <1>2
<1>3. \A n \in Nat : \A f \in [Nat -> Nat] : step[n][f] = IF n = 0 THEN 1 ELSE 2 * f[n - 1]
  BY Zenon
<1> HIDE DEF step
<1>4. PICK f \in [Nat -> Nat] : Solves(f, step)
  <2>1. Causal(Nat, step) /\ 1 \in Nat
    BY <1>1, <1>2, Zenon DEF Causal
  <2>2. QED
    BY <2>1, Recursion, Zenon
<1>5. f = [n \in Nat |-> IF n = 0 THEN 1 ELSE 2 * f[n - 1]]
  BY <1>3, <1>4, Zenon DEF Solves
<1>6. Pow2 = [n \in Nat |-> IF n = 0 THEN 1 ELSE 2 * Pow2[n - 1]]
  BY <1>5, Zenon DEF Pow2
<1>7. ASSUME NEW n \in Nat
      PROVE  Pow2[n] = IF n = 0 THEN 1 ELSE 2 * Pow2[n - 1]
  BY <1>6, Zenon
<1> DEFINE N == {n \in Nat : Pow2[n] \in Nat}
<1>8. Nat \subseteq N
  <2>1. 0 \in N
    BY <1>7, Zenon
  <2>2. ASSUME NEW n \in Nat, n \in N
        PROVE  n + 1 \in N
    BY <1>7, <2>2
  <2> HIDE DEF N
  <2>3. QED
    BY <2>1, <2>2, NatSet, Zenon
<1>9. Pow2 \in [Nat -> Nat]
  BY <1>6, <1>8, Zenon
<1>10. QED
  BY <1>7, <1>9

(* & takes the lowest bits of both numbers and goes on with the rest.      *)
LEMMA AndDef ==
    /\ \A x, y \in Nat : And[x][y] \in Nat
    /\ \A x, y \in Nat : And[x][y] =
          IF x = 0 THEN 0
          ELSE 2 * And[x \div 2][y \div 2] + (IF x % 2 = 1 /\ y % 2 = 1 THEN 1 ELSE 0)
<1> DEFINE S == [Nat -> Nat]
           one(x, y) == IF x % 2 = 1 /\ y % 2 = 1 THEN 1 ELSE 0
           step == [x \in Nat |-> [f \in [Nat -> S] |->
                      [y \in Nat |-> IF x = 0 THEN 0 ELSE 2 * f[x \div 2][y \div 2] + one(x, y)]]]
<1>1. step \in [Nat -> [[Nat -> S] -> S]]
  <2> SUFFICES ASSUME NEW x \in Nat, NEW f \in [Nat -> S], NEW y \in Nat
               PROVE  (IF x = 0 THEN 0 ELSE 2 * f[x \div 2][y \div 2] + one(x, y)) \in Nat
    BY Zenon
  <2>1. x \div 2 \in Nat /\ y \div 2 \in Nat
    OBVIOUS
  <2>2. f[x \div 2][y \div 2] \in Nat
    BY <2>1, Zenon
  <2>3. one(x, y) \in Nat
    BY Zenon
  <2> HIDE DEF one
  <2>4. \A a, b \in Nat : 2 * a + b \in Nat
    OBVIOUS
  <2>5. QED
    BY <2>2, <2>3, <2>4, Zenon
<1>2. ASSUME NEW x \in Nat, NEW f \in [Nat -> S], NEW g \in [Nat -> S],
             \A i \in Nat : i < x => f[i] = g[i]
      PROVE  step[x][f] = step[x][g]
  <2>1. x # 0 => f[x \div 2] = g[x \div 2]
    <3>1. x # 0 => x \div 2 \in Nat /\ x \div 2 < x
      OBVIOUS
    <3>2. QED
      BY <1>2, <3>1, Zenon
  <2>2. QED
    BY <2>1, Zenon
<1>3. \A x \in Nat : \A f \in [Nat -> S] :
         step[x][f] = [y \in Nat |-> IF x = 0 THEN 0 ELSE 2 * f[x \div 2][y \div 2] + one(x, y)]
  BY Zenon
<1>4. [y \in Nat |-> 0] \in S
  BY Zenon
<1> HIDE DEF step, S
<1>5. PICK f \in [Nat -> S] : Solves(f, step)
  <2>1. Causal(S, step)
    BY <1>1, <1>2, Zenon DEF Causal
  <2>2. QED
    BY <1>4, <2>1, Recursion, Zenon
<1>6. f = [x \in Nat |-> [y \in Nat |->
              IF x = 0 THEN 0 ELSE 2 * f[x \div 2][y \div 2] + one(x, y)]]
  <2> HIDE DEF one
  <2>1. QED
    BY <1>3, <1>5, ZenonT(40) DEF Solves
<1>7. And = [x \in Nat |-> [y \in Nat |->
              IF x = 0 THEN 0 ELSE 2 * And[x \div 2][y \div 2] + one(x, y)]]
  BY <1>6, Zenon DEF And
<1>8. ASSUME NEW x \in Nat, NEW y \in Nat
      PROVE  And[x][y] = IF x = 0 THEN 0 ELSE 2 * And[x \div 2][y \div 2] + one(x, y)
  <2> HIDE DEF one
  <2>1. QED
    BY <1>7
<1> DEFINE N == {x \in Nat : \A y \in Nat : And[x][y] \in Nat}
<1>9. Nat \subseteq N
  <2>1. ASSUME NEW x \in Nat, \A i \in Nat : i < x => i \in N
        PROVE  x \in N
    <3> SUFFICES ASSUME NEW y \in Nat
                 PROVE  And[x][y] \in Nat
      BY Zenon
    <3>1. y \div 2 \in Nat /\ (x # 0 => x \div 2 \in Nat /\ x \div 2 < x)
      OBVIOUS
    <3>2. x # 0 => And[x \div 2][y \div 2] \in Nat
      BY <2>1, <3>1, Zenon
    <3>3. one(x, y) \in Nat
      BY Zenon
    <3>4. \A a, b \in Nat : 2 * a + b \in Nat
      OBVIOUS
    <3> HIDE DEF one
    <3>5. QED
      BY <1>8, <3>2, <3>3, <3>4, ZenonT(40)
  <2> HIDE DEF N
  <2>2. QED
    BY <2>1, NatSetStrong, Zenon
<1>10. QED
  BY <1>8, <1>9, Zenon

(* | does the same, and keeps the second number when the first is used up. *)
LEMMA OrDef ==
    /\ \A x, y \in Nat : Or[x][y] \in Nat
    /\ \A x, y \in Nat : Or[x][y] =
          IF x = 0 THEN y
          ELSE 2 * Or[x \div 2][y \div 2] + (IF x % 2 = 1 \/ y % 2 = 1 THEN 1 ELSE 0)
<1> DEFINE S == [Nat -> Nat]
           one(x, y) == IF x % 2 = 1 \/ y % 2 = 1 THEN 1 ELSE 0
           step == [x \in Nat |-> [f \in [Nat -> S] |->
                      [y \in Nat |-> IF x = 0 THEN y ELSE 2 * f[x \div 2][y \div 2] + one(x, y)]]]
<1>1. step \in [Nat -> [[Nat -> S] -> S]]
  <2> SUFFICES ASSUME NEW x \in Nat, NEW f \in [Nat -> S], NEW y \in Nat
               PROVE  (IF x = 0 THEN y ELSE 2 * f[x \div 2][y \div 2] + one(x, y)) \in Nat
    BY Zenon
  <2>1. x \div 2 \in Nat /\ y \div 2 \in Nat
    OBVIOUS
  <2>2. f[x \div 2][y \div 2] \in Nat
    BY <2>1, Zenon
  <2>3. one(x, y) \in Nat
    BY Zenon
  <2> HIDE DEF one
  <2>4. \A a, b \in Nat : 2 * a + b \in Nat
    OBVIOUS
  <2>5. QED
    BY <2>2, <2>3, <2>4, Zenon
<1>2. ASSUME NEW x \in Nat, NEW f \in [Nat -> S], NEW g \in [Nat -> S],
             \A i \in Nat : i < x => f[i] = g[i]
      PROVE  step[x][f] = step[x][g]
  <2>1. x # 0 => f[x \div 2] = g[x \div 2]
    <3>1. x # 0 => x \div 2 \in Nat /\ x \div 2 < x
      OBVIOUS
    <3>2. QED
      BY <1>2, <3>1, Zenon
  <2>2. QED
    BY <2>1, Zenon
<1>3. \A x \in Nat : \A f \in [Nat -> S] :
         step[x][f] = [y \in Nat |-> IF x = 0 THEN y ELSE 2 * f[x \div 2][y \div 2] + one(x, y)]
  BY Zenon
<1>4. [y \in Nat |-> y] \in S
  BY Zenon
<1> HIDE DEF step, S
<1>5. PICK f \in [Nat -> S] : Solves(f, step)
  <2>1. Causal(S, step)
    BY <1>1, <1>2, Zenon DEF Causal
  <2>2. QED
    BY <1>4, <2>1, Recursion, Zenon
<1>6. f = [x \in Nat |-> [y \in Nat |->
              IF x = 0 THEN y ELSE 2 * f[x \div 2][y \div 2] + one(x, y)]]
  <2> HIDE DEF one
  <2>1. QED
    BY <1>3, <1>5, ZenonT(40) DEF Solves
<1>7. Or = [x \in Nat |-> [y \in Nat |->
              IF x = 0 THEN y ELSE 2 * Or[x \div 2][y \div 2] + one(x, y)]]
  BY <1>6, Zenon DEF Or
<1>8. ASSUME NEW x \in Nat, NEW y \in Nat
      PROVE  Or[x][y] = IF x = 0 THEN y ELSE 2 * Or[x \div 2][y \div 2] + one(x, y)
  <2> HIDE DEF one
  <2>1. QED
    BY <1>7
<1> DEFINE N == {x \in Nat : \A y \in Nat : Or[x][y] \in Nat}
<1>9. Nat \subseteq N
  <2>1. ASSUME NEW x \in Nat, \A i \in Nat : i < x => i \in N
        PROVE  x \in N
    <3> SUFFICES ASSUME NEW y \in Nat
                 PROVE  Or[x][y] \in Nat
      BY Zenon
    <3>1. y \div 2 \in Nat /\ (x # 0 => x \div 2 \in Nat /\ x \div 2 < x)
      OBVIOUS
    <3>2. x # 0 => Or[x \div 2][y \div 2] \in Nat
      BY <2>1, <3>1, Zenon
    <3>3. one(x, y) \in Nat
      BY Zenon
    <3>4. \A a, b \in Nat : 2 * a + b \in Nat
      OBVIOUS
    <3> HIDE DEF one
    <3>5. QED
      BY <1>8, <3>2, <3>3, <3>4
  <2> HIDE DEF N
  <2>2. QED
    BY <2>1, NatSetStrong, Zenon
<1>10. QED
  BY <1>8, <1>9, Zenon

-----------------------------------------------------------------------------
(* Quotient and remainder are the only ones.                               *)
LEMMA DivUnique ==
    ASSUME NEW a \in Nat, NEW b \in Nat \ {0}, NEW q \in Nat, NEW r \in Nat, r < b,
           a = b * q + r
    PROVE  a \div b = q /\ a % b = r
  OBVIOUS

(* Every number has a quotient and a remainder.                            *)
LEMMA DivMod ==
    ASSUME NEW a \in Nat, NEW b \in Nat \ {0}
    PROVE  /\ a \div b \in Nat /\ a % b \in Nat /\ a % b < b
           /\ a = b * (a \div b) + (a % b)
  OBVIOUS

(* Powers of two are positive.                                             *)
LEMMA Pow2Pos == \A n \in Nat : Pow2[n] \in Nat \ {0}
<1> DEFINE N == {n \in Nat : Pow2[n] # 0}
<1>1. 0 \in N /\ \A n \in Nat : n \in N => n + 1 \in N
  BY Pow2Def
<1> HIDE DEF N
<1>2. Nat \subseteq N
  BY <1>1, NatSet, Zenon
<1>3. QED
  BY <1>2, Pow2Def, Zenon DEF N

(* Dividing by two and then by p is dividing by two p.                     *)
LEMMA DivTwice ==
    ASSUME NEW x \in Nat, NEW p \in Nat \ {0}
    PROVE  /\ x \div (2 * p) = (x \div 2) \div p
           /\ x % (2 * p) = 2 * ((x \div 2) % p) + (x % 2)
<1> DEFINE h == x \div 2
           i == x % 2
           q == h \div p
           r == h % p
<1>1. h \in Nat /\ i \in 0..1 /\ x = 2 * h + i
  OBVIOUS
<1> HIDE DEF h, i
<1>2. q \in Nat /\ r \in Nat /\ r < p /\ h = p * q + r
  BY <1>1, DivMod, Zenon
<1> HIDE DEF q, r
<1>3. x = (2 * p) * q + (2 * r + i)
  <2>1. (2 * p) * q = 2 * (p * q)
    BY <1>2
  <2>2. p * q \in Nat
    BY <1>2
  <2> DEFINE pq == p * q
  <2> HIDE DEF pq
  <2>3. h = pq + r /\ pq \in Nat /\ (2 * p) * q = 2 * pq
    BY <1>2, <2>1, <2>2, Zenon DEF pq
  <2>4. QED
    BY <1>1, <1>2, <2>3
<1>4. 2 * r + i \in Nat /\ 2 * r + i < 2 * p /\ 2 * p \in Nat \ {0}
  BY <1>1, <1>2
<1>5. x \div (2 * p) = q /\ x % (2 * p) = 2 * r + i
  <2> DEFINE b == 2 * p
             rr == 2 * r + i
  <2> HIDE DEF b, rr
  <2>1. x = b * q + rr /\ b \in Nat \ {0} /\ rr \in Nat /\ rr < b
    BY <1>3, <1>4, Zenon DEF b, rr
  <2>2. x \div b = q /\ x % b = rr
    BY <1>2, <2>1, DivUnique, Zenon
  <2>3. QED
    BY <2>2, Zenon DEF b, rr
<1>6. QED
  BY <1>5, Zenon DEF h, i, q, r

(* The lowest bit, and the others as the bits of the half.                 *)
LEMMA BitHalf ==
    ASSUME NEW x \in Nat
    PROVE  /\ Bit(x, 0) <=> x % 2 = 1
           /\ \A k \in Nat : Bit(x, k + 1) <=> Bit(x \div 2, k)
<1>1. Bit(x, 0) <=> x % 2 = 1
  BY Pow2Def DEF Bit
<1>2. ASSUME NEW k \in Nat
      PROVE  x \div Pow2[k + 1] = (x \div 2) \div Pow2[k]
  BY Pow2Def, Pow2Pos, DivTwice, ZenonT(20)
<1>3. QED
  BY <1>1, <1>2, Zenon DEF Bit

(* Zero has no bits.                                                       *)
LEMMA BitZero == \A k \in Nat : ~Bit(0, k)
<1> DEFINE N == {k \in Nat : ~Bit(0, k)}
<1>1. 0 \in N /\ \A k \in Nat : k \in N => k + 1 \in N
  BY BitHalf, 0 % 2 = 0, 0 \div 2 = 0
<1> HIDE DEF N
<1>2. Nat \subseteq N
  BY <1>1, NatSet, Zenon
<1>3. QED
  BY <1>2, Zenon DEF N

-----------------------------------------------------------------------------
(* A number whose bits are bits of another is not greater.                 *)
LEMMA BitsBelow ==
    ASSUME NEW x \in Nat, NEW y \in Nat, \A k \in Nat : Bit(x, k) => Bit(y, k)
    PROVE  x <= y
<1> DEFINE Sub(a, b) == \A k \in Nat : Bit(a, k) => Bit(b, k)
           N == {a \in Nat : \A b \in Nat : Sub(a, b) => a <= b}
<1>1. ASSUME NEW a \in Nat, \A i \in Nat : i < a => i \in N
      PROVE  a \in N
  <2> SUFFICES ASSUME NEW b \in Nat, Sub(a, b)
               PROVE  a <= b
    BY Zenon
  <2>1. a \div 2 \in Nat /\ b \div 2 \in Nat
    OBVIOUS
  <2>2. Sub(a \div 2, b \div 2)
    <3>1. ASSUME NEW k \in Nat, Bit(a \div 2, k)
          PROVE  Bit(b \div 2, k)
      <4>1. k + 1 \in Nat /\ Bit(a, k + 1)
        BY <3>1, BitHalf
      <4>2. Bit(b, k + 1)
        BY <4>1, Zenon
      <4>3. QED
        BY <4>2, BitHalf, Zenon
    <3>2. QED
      BY <3>1, Zenon
  <2>3. a % 2 = 1 => b % 2 = 1
    BY BitHalf, 0 \in Nat, Zenon
  <2> HIDE DEF Sub
  <2>4. CASE a = 0
    BY <2>4
  <2>5. CASE a # 0
    <3>1. a \div 2 < a
      BY <2>5
    <3>2. a \div 2 <= b \div 2
      BY <1>1, <2>1, <2>2, <3>1, Zenon
    <3>3. QED
      BY <2>3, <3>2
  <2>6. QED
    BY <2>4, <2>5, Zenon
<1>2. Nat \subseteq N
  <2> HIDE DEF N
  <2>1. QED
    BY <1>1, NatSetStrong, Zenon
<1>3. Sub(x, y)
  BY Zenon
<1> HIDE DEF Sub
<1>4. QED
  BY <1>2, <1>3, Zenon

(* A number is its bits.                                                   *)
LEMMA BitsEqual ==
    ASSUME NEW x \in Nat, NEW y \in Nat, \A k \in Nat : Bit(x, k) <=> Bit(y, k)
    PROVE  x = y
<1>1. x <= y /\ y <= x
  BY BitsBelow, Zenon
<1>2. QED
  BY <1>1

(* A number that is not zero has a bit.                                    *)
LEMMA SomeBit ==
    ASSUME NEW x \in Nat, x # 0
    PROVE  \E k \in Nat : Bit(x, k)
<1> SUFFICES ASSUME \A k \in Nat : ~Bit(x, k)
             PROVE  FALSE
  BY Zenon
<1>1. x <= 0
  BY BitsBelow, 0 \in Nat, Zenon
<1>2. QED
  BY <1>1

(* A shift to the right.                                                   *)
LEMMA BitDiv ==
    ASSUME NEW s \in Nat
    PROVE  \A x, k \in Nat : x \div Pow2[s] \in Nat /\ (Bit(x \div Pow2[s], k) <=> Bit(x, k + s))
<1> DEFINE N == {n \in Nat : \A x, k \in Nat : Bit(x \div Pow2[n], k) <=> Bit(x, k + n)}
<1>1. 0 \in N
  BY Pow2Def
<1>2. ASSUME NEW n \in Nat, n \in N
      PROVE  n + 1 \in N
  <2> SUFFICES ASSUME NEW x \in Nat, NEW k \in Nat
               PROVE  Bit(x \div Pow2[n + 1], k) <=> Bit(x, k + (n + 1))
    OBVIOUS
  <2>1. x \div Pow2[n + 1] = (x \div 2) \div Pow2[n]
    BY Pow2Def, Pow2Pos, DivTwice, ZenonT(20)
  <2>2. x \div 2 \in Nat /\ k + n \in Nat /\ k + (n + 1) = (k + n) + 1
    OBVIOUS
  <2>3. Bit((x \div 2) \div Pow2[n], k) <=> Bit(x \div 2, k + n)
    BY <1>2, <2>2, Zenon
  <2>4. Bit(x \div 2, k + n) <=> Bit(x, (k + n) + 1)
    BY <2>2, BitHalf, Zenon
  <2>5. QED
    BY <2>1, <2>2, <2>3, <2>4, Zenon
<1> HIDE DEF N
<1>3. Nat \subseteq N
  BY <1>1, <1>2, NatSet, Zenon
<1>4. \A x \in Nat : x \div Pow2[s] \in Nat
  BY Pow2Pos, DivMod, Zenon
<1>5. QED
  BY <1>3, <1>4, Zenon DEF N

(* A shift to the left.                                                    *)
LEMMA BitMul ==
    ASSUME NEW s \in Nat
    PROVE  \A x, k \in Nat : /\ x * Pow2[s] \in Nat
                             /\ Bit(x * Pow2[s], k) <=> k >= s /\ Bit(x, k - s)
<1> DEFINE N == {n \in Nat : \A x, k \in Nat : Bit(x * Pow2[n], k) <=> k >= n /\ Bit(x, k - n)}
<1>1. 0 \in N
  BY Pow2Def
<1>2. ASSUME NEW n \in Nat, n \in N
      PROVE  n + 1 \in N
  <2> SUFFICES ASSUME NEW x \in Nat, NEW k \in Nat
               PROVE  Bit(x * Pow2[n + 1], k) <=> k >= n + 1 /\ Bit(x, k - (n + 1))
    OBVIOUS
  <2> DEFINE z == x * Pow2[n]
  <2>1. z \in Nat
    BY Pow2Def
  <2>2. x * Pow2[n + 1] = 2 * z
    BY Pow2Def
  <2>3. \A j \in Nat : Bit(z, j) <=> j >= n /\ Bit(x, j - n)
    BY <1>2, Zenon
  <2> HIDE DEF z
  <2>4. (2 * z) % 2 = 0 /\ (2 * z) \div 2 = z /\ 2 * z \in Nat
    BY <2>1
  <2>5. CASE k = 0
    BY <2>2, <2>4, <2>5, BitHalf
  <2>6. CASE k # 0
    <3>1. k - 1 \in Nat /\ k = (k - 1) + 1 /\ k - (n + 1) = (k - 1) - n
          /\ (k >= n + 1 <=> k - 1 >= n)
      BY <2>6
    <3>2. Bit(2 * z, (k - 1) + 1) <=> Bit(z, k - 1)
      BY <2>4, <3>1, BitHalf, Zenon
    <3>3. QED
      BY <2>2, <2>3, <3>1, <3>2, Zenon
  <2>7. QED
    BY <2>5, <2>6, Zenon
<1> HIDE DEF N
<1>3. Nat \subseteq N
  BY <1>1, <1>2, NatSet, Zenon
<1>4. \A x \in Nat : x * Pow2[s] \in Nat
  BY Pow2Def
<1>5. QED
  BY <1>3, <1>4, Zenon DEF N

(* The remainder keeps the lowest bits.                                    *)
LEMMA BitMod ==
    ASSUME NEW w \in Nat
    PROVE  \A x, k \in Nat : /\ x % Pow2[w] \in Nat /\ x % Pow2[w] < Pow2[w]
                             /\ Bit(x % Pow2[w], k) <=> k < w /\ Bit(x, k)
<1> DEFINE N == {n \in Nat : \A x, k \in Nat : Bit(x % Pow2[n], k) <=> k < n /\ Bit(x, k)}
<1>1. 0 \in N
  <2>1. \A x \in Nat : x % 1 = 0
    OBVIOUS
  <2>2. QED
    BY <2>1, Pow2Def, BitZero
<1>2. ASSUME NEW n \in Nat, n \in N
      PROVE  n + 1 \in N
  <2> SUFFICES ASSUME NEW x \in Nat, NEW k \in Nat
               PROVE  Bit(x % Pow2[n + 1], k) <=> k < n + 1 /\ Bit(x, k)
    OBVIOUS
  <2> DEFINE h == x \div 2
             r == h % Pow2[n]
             z == x % Pow2[n + 1]
  <2>1. h \in Nat /\ x % 2 \in 0..1
    OBVIOUS
  <2>2. r \in Nat
    BY <2>1, Pow2Pos, DivMod, Zenon
  <2>3. z = 2 * r + (x % 2)
    BY Pow2Def, Pow2Pos, DivTwice, Zenon
  <2>4. \A j \in Nat : Bit(r, j) <=> j < n /\ Bit(h, j)
    BY <1>2, <2>1, Zenon
  <2> HIDE DEF r, z
  <2>5. z \in Nat /\ z % 2 = x % 2 /\ z \div 2 = r
    BY <2>1, <2>2, <2>3
  <2>6. CASE k = 0
    <3>1. Bit(z, 0) <=> Bit(x, 0)
      BY <2>5, BitHalf, Zenon
    <3>2. QED
      BY <2>6, <3>1 DEF z
  <2>7. CASE k # 0
    <3>1. k - 1 \in Nat /\ k = (k - 1) + 1 /\ (k < n + 1 <=> k - 1 < n)
      BY <2>7
    <3>2. Bit(z, (k - 1) + 1) <=> Bit(r, k - 1)
      BY <2>5, <3>1, BitHalf, Zenon
    <3>3. Bit(x, (k - 1) + 1) <=> Bit(h, k - 1)
      BY <3>1, BitHalf, Zenon
    <3>4. QED
      BY <2>4, <3>1, <3>2, <3>3, Zenon DEF z
  <2>8. QED
    BY <2>6, <2>7, Zenon DEF z
<1> HIDE DEF N
<1>3. Nat \subseteq N
  BY <1>1, <1>2, NatSet, Zenon
<1>4. \A x \in Nat : x % Pow2[w] \in Nat /\ x % Pow2[w] < Pow2[w]
  BY Pow2Pos, DivMod, Zenon
<1>5. QED
  BY <1>3, <1>4, Zenon DEF N

(* A number is less than a power of two if it has no bits from there on.   *)
LEMMA BelowPow2 ==
    ASSUME NEW w \in Nat, NEW x \in Nat
    PROVE  x < Pow2[w] <=> \A k \in Nat : Bit(x, k) => k < w
<1>1. ASSUME x < Pow2[w], NEW k \in Nat, Bit(x, k)
      PROVE  k < w
  <2>1. x % Pow2[w] = x
    BY <1>1, Pow2Pos
  <2>2. QED
    BY <1>1, <2>1, BitMod
<1>2. ASSUME \A k \in Nat : Bit(x, k) => k < w
      PROVE  x < Pow2[w]
  <2> DEFINE z == x % Pow2[w]
  <2>1. z \in Nat /\ z < Pow2[w] /\ \A k \in Nat : Bit(z, k) <=> k < w /\ Bit(x, k)
    BY BitMod, Zenon
  <2> HIDE DEF z
  <2>2. \A k \in Nat : Bit(z, k) <=> Bit(x, k)
    BY <1>2, <2>1, Zenon
  <2>3. z = x
    BY <2>1, <2>2, BitsEqual, Zenon
  <2>4. QED
    BY <2>1, <2>3, Zenon
<1>3. QED
  BY <1>1, <1>2, Zenon

(* The complement has the bits that the number does not have.              *)
LEMMA BitComplement ==
    ASSUME NEW w \in Nat, NEW x \in Nat, x < Pow2[w]
    PROVE  /\ Pow2[w] - 1 - x \in Nat
           /\ \A k \in Nat : Bit(Pow2[w] - 1 - x, k) <=> k < w /\ ~Bit(x, k)
<1> DEFINE Claim(n, a, k) == Bit(Pow2[n] - 1 - a, k) <=> k < n /\ ~Bit(a, k)
           N == {k \in Nat : \A n, a \in Nat : a < Pow2[n] => Claim(n, a, k)}
<1>1. ASSUME NEW n \in Nat, NEW a \in Nat, a < Pow2[n], n = 0, NEW k \in Nat
      PROVE  Claim(n, a, k)
  <2>1. Pow2[n] - 1 - a = 0
    BY <1>1, Pow2Def
  <2>2. QED
    BY <1>1, <2>1, BitZero
<1>2. ASSUME NEW n \in Nat, NEW a \in Nat, a < Pow2[n], n # 0
      PROVE  /\ n - 1 \in Nat /\ a \div 2 \in Nat /\ a \div 2 < Pow2[n - 1]
             /\ Pow2[n] - 1 - a \in Nat
             /\ (Pow2[n] - 1 - a) % 2 = 1 <=> ~(a % 2 = 1)
             /\ (Pow2[n] - 1 - a) \div 2 = Pow2[n - 1] - 1 - (a \div 2)
  <2> DEFINE p == Pow2[n - 1]
  <2>1. n - 1 \in Nat /\ (n - 1) + 1 = n
    BY <1>2
  <2>2. p \in Nat /\ Pow2[n] = 2 * p
    BY <2>1, Pow2Def, Zenon
  <2> HIDE DEF p
  <2>3. a < 2 * p
    BY <1>2, <2>2, Zenon
  <2>4. /\ a \div 2 < p /\ 2 * p - 1 - a \in Nat
        /\ (2 * p - 1 - a) % 2 = 1 <=> ~(a % 2 = 1)
        /\ (2 * p - 1 - a) \div 2 = p - 1 - (a \div 2)
    BY <2>2, <2>3
  <2>5. a \div 2 \in Nat
    OBVIOUS
  <2>6. QED
    BY <2>1, <2>2, <2>4, <2>5, Zenon DEF p
<1>3. 0 \in N
  <2> SUFFICES ASSUME NEW n \in Nat, NEW a \in Nat, a < Pow2[n]
               PROVE  Claim(n, a, 0)
    BY Zenon
  <2>1. CASE n = 0
    BY <1>1, <2>1, Zenon
  <2>2. CASE n # 0
    BY <1>2, <2>2, BitHalf
  <2>3. QED
    BY <2>1, <2>2, Zenon
<1>4. ASSUME NEW k \in Nat, k \in N
      PROVE  k + 1 \in N
  <2> SUFFICES ASSUME NEW n \in Nat, NEW a \in Nat, a < Pow2[n]
               PROVE  Claim(n, a, k + 1)
    OBVIOUS
  <2>1. CASE n = 0
    BY <1>1, <2>1
  <2>2. CASE n # 0
    <3>1. Claim(n - 1, a \div 2, k)
      BY <1>2, <1>4, <2>2, Zenon
    <3>2. Bit(Pow2[n] - 1 - a, k + 1) <=> Bit(Pow2[n - 1] - 1 - (a \div 2), k)
      <4> DEFINE z == Pow2[n] - 1 - a
      <4>1. z \in Nat /\ z \div 2 = Pow2[n - 1] - 1 - (a \div 2)
        BY <1>2, <2>2, Zenon
      <4> HIDE DEF z
      <4>2. Bit(z, k + 1) <=> Bit(z \div 2, k)
        BY <4>1, BitHalf, Zenon
      <4>3. QED
        BY <4>1, <4>2, Zenon DEF z
    <3>3. Bit(a, k + 1) <=> Bit(a \div 2, k)
      BY BitHalf, Zenon
    <3>4. k < n - 1 <=> k + 1 < n
      OBVIOUS
    <3>5. QED
      BY <3>1, <3>2, <3>3, <3>4, Zenon
  <2>3. QED
    BY <2>1, <2>2, Zenon
<1> HIDE DEF N
<1>5. Nat \subseteq N
  BY <1>3, <1>4, NatSet, Zenon
<1>6. Pow2[w] - 1 - x \in Nat
  BY Pow2Def
<1>7. QED
  BY <1>5, <1>6, Zenon DEF N

(* The greatest number of w bits has all of them.                          *)
LEMMA BitOnes ==
    ASSUME NEW w \in Nat
    PROVE  /\ Pow2[w] - 1 \in Nat
           /\ \A k \in Nat : Bit(Pow2[w] - 1, k) <=> k < w
<1>1. 0 < Pow2[w] /\ Pow2[w] - 1 - 0 = Pow2[w] - 1
  BY Pow2Pos
<1>2. QED
  BY <1>1, BitComplement, BitZero, 0 \in Nat, Zenon

(* & has the bits that both have.                                          *)
LEMMA BitsOfAnd ==
    ASSUME NEW x \in Nat, NEW y \in Nat
    PROVE  /\ BitAnd(x, y) \in Nat
           /\ \A k \in Nat : Bit(BitAnd(x, y), k) <=> Bit(x, k) /\ Bit(y, k)
<1> DEFINE N == {k \in Nat : \A a, b \in Nat : Bit(And[a][b], k) <=> Bit(a, k) /\ Bit(b, k)}
<1>1. ASSUME NEW a \in Nat, NEW b \in Nat
      PROVE  /\ And[a][b] \in Nat
             /\ And[a][b] % 2 = 1 <=> a % 2 = 1 /\ b % 2 = 1
             /\ a # 0 => And[a][b] \div 2 = And[a \div 2][b \div 2]
  <2> DEFINE z == And[a \div 2][b \div 2]
             i == IF a % 2 = 1 /\ b % 2 = 1 THEN 1 ELSE 0
  <2>1. a \div 2 \in Nat /\ b \div 2 \in Nat
    OBVIOUS
  <2>2. z \in Nat /\ And[a][b] \in Nat /\ And[a][b] = IF a = 0 THEN 0 ELSE 2 * z + i
    BY <2>1, AndDef, Zenon
  <2>3. i \in 0..1 /\ (i = 1 <=> a % 2 = 1 /\ b % 2 = 1) /\ (a = 0 => i = 0)
    OBVIOUS
  <2> HIDE DEF z, i
  <2>4. (2 * z + i) % 2 = i /\ (2 * z + i) \div 2 = z /\ 0 % 2 = 0
    BY <2>2, <2>3
  <2>5. QED
    BY <2>2, <2>3, <2>4, Zenon DEF z
<1>2. 0 \in N
  <2>1. ASSUME NEW a \in Nat, NEW b \in Nat
        PROVE  Bit(And[a][b], 0) <=> Bit(a, 0) /\ Bit(b, 0)
    BY <1>1, BitHalf
  <2>2. QED
    BY <2>1, Zenon
<1>3. ASSUME NEW k \in Nat, k \in N
      PROVE  k + 1 \in N
  <2> SUFFICES ASSUME NEW a \in Nat, NEW b \in Nat
               PROVE  Bit(And[a][b], k + 1) <=> Bit(a, k + 1) /\ Bit(b, k + 1)
    OBVIOUS
  <2>1. a \div 2 \in Nat /\ b \div 2 \in Nat
    OBVIOUS
  <2>2. CASE a = 0
    BY <2>2, AndDef, BitZero
  <2>3. CASE a # 0
    <3>1. Bit(And[a \div 2][b \div 2], k) <=> Bit(a \div 2, k) /\ Bit(b \div 2, k)
      BY <1>3, <2>1, Zenon
    <3>2. Bit(And[a][b], k + 1) <=> Bit(And[a \div 2][b \div 2], k)
      <4> DEFINE z == And[a][b]
      <4>1. z \in Nat /\ z \div 2 = And[a \div 2][b \div 2]
        BY <1>1, <2>3, Zenon
      <4> HIDE DEF z
      <4>2. Bit(z, k + 1) <=> Bit(z \div 2, k)
        BY <4>1, BitHalf, Zenon
      <4>3. QED
        BY <4>1, <4>2, Zenon DEF z
    <3>3. QED
      BY <3>1, <3>2, BitHalf, Zenon
  <2>4. QED
    BY <2>2, <2>3, Zenon
<1> HIDE DEF N
<1>4. Nat \subseteq N
  BY <1>2, <1>3, NatSet, Zenon
<1>5. QED
  BY <1>4, AndDef, Zenon DEF N, BitAnd

(* | has the bits that either has.                                         *)
LEMMA BitsOfOr ==
    ASSUME NEW x \in Nat, NEW y \in Nat
    PROVE  /\ BitOr(x, y) \in Nat
           /\ \A k \in Nat : Bit(BitOr(x, y), k) <=> Bit(x, k) \/ Bit(y, k)
<1> DEFINE N == {k \in Nat : \A a, b \in Nat : Bit(Or[a][b], k) <=> Bit(a, k) \/ Bit(b, k)}
<1>1. ASSUME NEW a \in Nat, NEW b \in Nat
      PROVE  /\ Or[a][b] \in Nat
             /\ Or[a][b] % 2 = 1 <=> a % 2 = 1 \/ b % 2 = 1
             /\ a # 0 => Or[a][b] \div 2 = Or[a \div 2][b \div 2]
  <2> DEFINE z == Or[a \div 2][b \div 2]
             i == IF a % 2 = 1 \/ b % 2 = 1 THEN 1 ELSE 0
  <2>1. a \div 2 \in Nat /\ b \div 2 \in Nat
    OBVIOUS
  <2>2. z \in Nat /\ Or[a][b] \in Nat /\ Or[a][b] = IF a = 0 THEN b ELSE 2 * z + i
    BY <2>1, OrDef, Zenon
  <2>3. i \in 0..1 /\ (i = 1 <=> a % 2 = 1 \/ b % 2 = 1) /\ (a = 0 => a % 2 = 0)
    OBVIOUS
  <2> HIDE DEF z, i
  <2>4. (2 * z + i) % 2 = i /\ (2 * z + i) \div 2 = z /\ 0 % 2 = 0
    BY <2>2, <2>3
  <2>5. QED
    BY <2>2, <2>3, <2>4 DEF z
<1>2. 0 \in N
  <2>1. ASSUME NEW a \in Nat, NEW b \in Nat
        PROVE  Bit(Or[a][b], 0) <=> Bit(a, 0) \/ Bit(b, 0)
    BY <1>1, BitHalf
  <2>2. QED
    BY <2>1, Zenon
<1>3. ASSUME NEW k \in Nat, k \in N
      PROVE  k + 1 \in N
  <2> SUFFICES ASSUME NEW a \in Nat, NEW b \in Nat
               PROVE  Bit(Or[a][b], k + 1) <=> Bit(a, k + 1) \/ Bit(b, k + 1)
    OBVIOUS
  <2>1. a \div 2 \in Nat /\ b \div 2 \in Nat
    OBVIOUS
  <2>2. CASE a = 0
    BY <2>2, OrDef, BitZero
  <2>3. CASE a # 0
    <3>1. Bit(Or[a \div 2][b \div 2], k) <=> Bit(a \div 2, k) \/ Bit(b \div 2, k)
      BY <1>3, <2>1, Zenon
    <3>2. Bit(Or[a][b], k + 1) <=> Bit(Or[a \div 2][b \div 2], k)
      <4> DEFINE z == Or[a][b]
      <4>1. z \in Nat /\ z \div 2 = Or[a \div 2][b \div 2]
        BY <1>1, <2>3, Zenon
      <4> HIDE DEF z
      <4>2. Bit(z, k + 1) <=> Bit(z \div 2, k)
        BY <4>1, BitHalf, Zenon
      <4>3. QED
        BY <4>1, <4>2, Zenon DEF z
    <3>3. QED
      BY <3>1, <3>2, BitHalf, Zenon
  <2>4. QED
    BY <2>2, <2>3, Zenon
<1> HIDE DEF N
<1>4. Nat \subseteq N
  BY <1>2, <1>3, NatSet, Zenon
<1>5. QED
  BY <1>4, OrDef, Zenon DEF N, BitOr

-----------------------------------------------------------------------------
(* The number of bits of n bytes, and of a word.                           *)
BitsOf(n) == ByteBits * n

LEMMA SizeOfWord ==
    ASSUME NEW n \in 1..WordBytes
    PROVE  /\ BitsOf(n) \in Nat \ {0} /\ BitsOf(n) <= BitsOf(WordBytes)
           /\ BitsOf(WordBytes) \in Nat \ {0} /\ Word = Pow2[BitsOf(WordBytes)]
           /\ Word \in Nat \ {0}
           /\ MaxValue(n) = Pow2[BitsOf(n)] - 1 /\ MaxValue(n) \in Nat
           /\ \A v : Trunc(v, n) = v % Pow2[BitsOf(n)]
<1>1. \A a, b, c \in Nat \ {0} : b <= c => a * b <= a * c /\ a * b \in Nat \ {0}
  OBVIOUS
<1>2. n \in Nat \ {0} /\ n <= WordBytes
  BY SizesAssumption
<1>3. /\ BitsOf(n) \in Nat \ {0} /\ BitsOf(n) <= BitsOf(WordBytes)
      /\ BitsOf(WordBytes) \in Nat \ {0}
  BY <1>1, <1>2, SizesAssumption DEF BitsOf
<1>4. Word = Pow2[BitsOf(WordBytes)] /\ MaxValue(n) = Pow2[BitsOf(n)] - 1
  BY Zenon DEF Word, BitsOf, MaxValue
<1>5. Word \in Nat \ {0} /\ MaxValue(n) \in Nat
  BY <1>3, <1>4, Pow2Pos
<1>6. QED
  BY <1>3, <1>4, <1>5, Zenon DEF Trunc, BitsOf

(* A number below a power of two is below the next ones.                   *)
LEMMA Pow2Grows ==
    ASSUME NEW a \in Nat, NEW b \in Nat, a <= b
    PROVE  Pow2[a] <= Pow2[b]
<1>1. Pow2[a] \in Nat \ {0} /\ Pow2[b] \in Nat \ {0}
  BY Pow2Pos, Zenon
<1>2. Pow2[a] - 1 \in Nat /\ Pow2[a] - 1 < Pow2[a]
  BY <1>1
<1>3. \A k \in Nat : Bit(Pow2[a] - 1, k) => k < b
  BY BitOnes
<1>4. Pow2[a] - 1 < Pow2[b]
  BY <1>2, <1>3, BelowPow2, Zenon
<1>5. QED
  BY <1>1, <1>4

(* Bit k of what is compared is bit Source of the input, if it is carried. *)
Source(e, k) == CASE e.shape = "shl" -> k - e.shift
                  [] e.shape = "shr" -> k + e.shift
                  [] OTHER           -> k

Carried(e, k) == /\ e.shape # "value" => Bit(e.mask, k)
                 /\ e.shape = "shl" => k >= e.shift /\ k < BitsOf(WordBytes)

(* What Exprs is known to have.                                            *)
LEMMA ExprFields ==
    ASSUME NEW e \in Exprs
    PROVE  /\ e.op \in {"EQ", "NE", "LT", "LE", "GT", "GE", "none"} /\ e.left \in BOOLEAN
           /\ e.shape \in {"value", "and", "shl", "shr"}
           /\ e.mask \in Nat /\ e.mask < Word /\ e.c \in Nat /\ e.c < Word
           /\ e.shift \in Nat /\ e.shift < BitsOf(WordBytes)
<1>1. e \in [op : {"EQ", "NE", "LT", "LE", "GT", "GE", "none"}, left : BOOLEAN,
             shape : {"value", "and", "shl", "shr"}, direct : BOOLEAN,
             masked : BOOLEAN, mask : 0..Word - 1,
             shift : 0..ByteBits * WordBytes - 1, c : 0..Word - 1]
  BY ExprsAssumption, Zenon
<1>2. WordBytes \in 1..WordBytes
  BY SizesAssumption
<1>3. Word \in Nat /\ BitsOf(WordBytes) \in Nat
  BY <1>2, SizeOfWord, Zenon
<1>4. e.shift \in 0..BitsOf(WordBytes) - 1
  BY <1>1, Zenon DEF BitsOf
<1>5. e.mask \in 0..Word - 1 /\ e.c \in 0..Word - 1
  BY <1>1, Zenon
<1>6. QED
  BY <1>1, <1>3, <1>4, <1>5

(* A condition looks at the carried bits of the input.                     *)
LEMMA TestedBits ==
    ASSUME NEW e \in Exprs, NEW x \in Nat, x < Word
    PROVE  /\ Tested(e, x) \in Nat
           /\ \A k \in Nat : /\ Carried(e, k) => Source(e, k) \in Nat
                             /\ Bit(Tested(e, x), k) <=> Carried(e, k) /\ Bit(x, Source(e, k))
<1> DEFINE W == BitsOf(WordBytes)
           Inside(k) == e.shape = "shl" => k >= e.shift /\ k < W
           Moved(z)  == \A k \in Nat : Bit(z, k) <=> Inside(k) /\ Bit(x, Source(e, k))
<1>1. W \in Nat /\ Word = Pow2[W]
  BY SizesAssumption, SizeOfWord
<1>2. /\ e.shape \in {"value", "and", "shl", "shr"} /\ e.mask \in Nat
      /\ e.shift \in Nat
  BY ExprFields, Zenon
<1> HIDE DEF W
<1>3. ASSUME NEW k \in Nat, Carried(e, k)
      PROVE  Source(e, k) \in Nat
  BY <1>2, <1>3 DEF Carried, Source
<1>4. CASE e.shape = "value"
  BY <1>4, Zenon DEF Tested, Carried, Source
<1>5. ASSUME e.shape # "value", NEW z \in Nat, Moved(z), Tested(e, x) = BitAnd(z, e.mask)
      PROVE  /\ Tested(e, x) \in Nat
             /\ \A k \in Nat : Bit(Tested(e, x), k) <=> Carried(e, k) /\ Bit(x, Source(e, k))
  <2>1. /\ BitAnd(z, e.mask) \in Nat
        /\ \A k \in Nat : Bit(BitAnd(z, e.mask), k) <=> Bit(z, k) /\ Bit(e.mask, k)
    BY <1>2, BitsOfAnd, Zenon
  <2>2. \A k \in Nat : Carried(e, k) <=> Bit(e.mask, k) /\ Inside(k)
    BY <1>5, Zenon DEF Carried, W
  <2> HIDE DEF Inside
  <2>3. QED
    BY <1>5, <2>1, <2>2, Zenon
<1>6. CASE e.shape = "and"
  <2>1. Tested(e, x) = BitAnd(x, e.mask) /\ Moved(x)
    BY <1>6, Zenon DEF Tested, Source
  <2>2. QED
    BY <1>3, <1>5, <1>6, <2>1, Zenon
<1>7. CASE e.shape = "shl"
  <2> DEFINE y == x * Pow2[e.shift]
             z == y % Pow2[W]
  <2>1. y \in Nat /\ \A k \in Nat : Bit(y, k) <=> k >= e.shift /\ Bit(x, k - e.shift)
    BY <1>2, BitMul, Zenon
  <2>2. Tested(e, x) = BitAnd(z, e.mask)
    BY <1>1, <1>7, Zenon DEF Tested
  <2> HIDE DEF y
  <2>3. z \in Nat /\ \A k \in Nat : Bit(z, k) <=> k < W /\ Bit(y, k)
    BY <1>1, <2>1, BitMod, Zenon
  <2> HIDE DEF z
  <2>4. \A k \in Nat : Source(e, k) = k - e.shift /\ (Inside(k) <=> k >= e.shift /\ k < W)
    BY <1>7, Zenon DEF Source
  <2>5. Moved(z)
    BY <2>1, <2>3, <2>4, Zenon
  <2>6. QED
    BY <1>3, <1>5, <1>7, <2>2, <2>3, <2>5
<1>8. CASE e.shape = "shr"
  <2> DEFINE z == x \div Pow2[e.shift]
  <2>1. z \in Nat /\ \A k \in Nat : Bit(z, k) <=> Bit(x, k + e.shift)
    BY <1>2, BitDiv, Zenon
  <2>2. Tested(e, x) = BitAnd(z, e.mask)
    BY <1>8, Zenon DEF Tested
  <2> HIDE DEF z
  <2>3. \A k \in Nat : Source(e, k) = k + e.shift /\ Inside(k)
    BY <1>8, Zenon DEF Source
  <2>4. Moved(z)
    BY <2>1, <2>3, Zenon
  <2>5. QED
    BY <1>3, <1>5, <1>8, <2>1, <2>2, <2>4
<1>9. QED
  BY <1>2, <1>4, <1>6, <1>7, <1>8

(* Unshift moves the bits of a mask or a constant to their sources.        *)
LEMMA UnshiftBits ==
    ASSUME NEW e \in Exprs, NEW v \in Nat, v < Word
    PROVE  /\ Unshift(e, v) \in Nat /\ Unshift(e, v) < Word
           /\ \A k \in Nat : Carried(e, k) /\ Source(e, k) < BitsOf(WordBytes) =>
                 (Bit(Unshift(e, v), Source(e, k)) <=> Bit(v, k))
<1> DEFINE W == BitsOf(WordBytes)
           u == Unshift(e, v)
<1>1. W \in Nat /\ Word = Pow2[W]
  BY SizesAssumption, SizeOfWord
<1>2. e.shape \in {"value", "and", "shl", "shr"} /\ e.shift \in Nat
  BY ExprFields, Zenon
<1> HIDE DEF W, u
<1>3. CASE e.shape \in {"value", "and"}
  <2>1. u = v /\ \A k \in Nat : Source(e, k) = k
    BY <1>3, Zenon DEF u, Unshift, Source
  <2>2. QED
    BY <2>1, Zenon DEF u
<1>4. CASE e.shape = "shl"
  <2>1. u = v \div Pow2[e.shift]
    BY <1>4, Zenon DEF u, Unshift
  <2>2. u \in Nat /\ \A j \in Nat : Bit(u, j) <=> Bit(v, j + e.shift)
    BY <1>2, <2>1, BitDiv, Zenon
  <2>3. \A k \in Nat : Bit(v, k) => k < W
    BY <1>1, BelowPow2, Zenon
  <2>4. \A j \in Nat : Bit(u, j) => j < W
    BY <1>1, <1>2, <2>2, <2>3
  <2>5. u < Word
    BY <1>1, <2>2, <2>4, BelowPow2, Zenon
  <2>6. ASSUME NEW k \in Nat, Carried(e, k)
        PROVE  Bit(u, Source(e, k)) <=> Bit(v, k)
    <3>1. Source(e, k) = k - e.shift /\ k >= e.shift
      BY <1>4, <2>6, Zenon DEF Source, Carried
    <3>2. k - e.shift \in Nat /\ (k - e.shift) + e.shift = k
      BY <1>2, <3>1
    <3>3. QED
      BY <2>2, <3>1, <3>2, Zenon
  <2>7. QED
    BY <2>2, <2>5, <2>6, Zenon DEF u
<1>5. CASE e.shape = "shr"
  <2> DEFINE y == v * Pow2[e.shift]
  <2>1. u = y % Pow2[W]
    BY <1>1, <1>5, Zenon DEF u, Unshift
  <2>2. y \in Nat /\ \A j \in Nat : Bit(y, j) <=> j >= e.shift /\ Bit(v, j - e.shift)
    BY <1>2, BitMul, Zenon
  <2> HIDE DEF y
  <2>3. /\ u \in Nat /\ u < Pow2[W]
        /\ \A j \in Nat : Bit(u, j) <=> j < W /\ j >= e.shift /\ Bit(v, j - e.shift)
    BY <1>1, <2>1, <2>2, BitMod, ZenonT(20)
  <2>4. ASSUME NEW k \in Nat, Source(e, k) < W
        PROVE  Bit(u, Source(e, k)) <=> Bit(v, k)
    <3>1. Source(e, k) = k + e.shift
      BY <1>5, Zenon DEF Source
    <3>2. k + e.shift \in Nat /\ k + e.shift >= e.shift /\ (k + e.shift) - e.shift = k
      BY <1>2
    <3>3. QED
      BY <2>3, <2>4, <3>1, <3>2, Zenon
  <2>5. QED
    BY <1>1, <2>3, <2>4, Zenon DEF u, W
<1>6. QED
  BY <1>2, <1>3, <1>4, <1>5, Zenon

(* The input takes the low bits of a value.                                *)
LEMMA TruncBits ==
    ASSUME NEW n \in 1..WordBytes, NEW v \in Nat
    PROVE  /\ Trunc(v, n) \in Nat /\ Trunc(v, n) <= MaxValue(n) /\ Trunc(v, n) < Word
           /\ \A k \in Nat : Bit(Trunc(v, n), k) <=> k < BitsOf(n) /\ Bit(v, k)
<1> DEFINE T == BitsOf(n)
           W == BitsOf(WordBytes)
<1>1. /\ T \in Nat /\ W \in Nat /\ T <= W /\ Word = Pow2[W] /\ MaxValue(n) = Pow2[T] - 1
      /\ Trunc(v, n) = v % Pow2[T]
  BY SizeOfWord, Zenon
<1> HIDE DEF T, W
<1>2. Pow2[T] <= Pow2[W] /\ Pow2[T] \in Nat /\ Pow2[W] \in Nat
  BY <1>1, Pow2Grows, Pow2Pos, Zenon
<1>3. /\ v % Pow2[T] \in Nat /\ v % Pow2[T] < Pow2[T]
      /\ \A k \in Nat : Bit(v % Pow2[T], k) <=> k < T /\ Bit(v, k)
  BY <1>1, BitMod, Zenon
<1> DEFINE z == v % Pow2[T]
<1> HIDE DEF z
<1>4. z \in Nat /\ z < Pow2[T] /\ Trunc(v, n) = z
  BY <1>1, <1>3, Zenon DEF z
<1>5. QED
  BY <1>1, <1>2, <1>3, <1>4 DEF z, T

(* The bits of an input of n bytes, and of the greatest one.               *)
LEMMA InputBits ==
    ASSUME NEW n \in 1..WordBytes
    PROVE  /\ MaxValue(n) \in Nat /\ MaxValue(n) < Word
           /\ \A k \in Nat : Bit(MaxValue(n), k) <=> k < BitsOf(n)
           /\ \A x \in 0..MaxValue(n) :
                 x \in Nat /\ x < Word /\ \A k \in Nat : Bit(x, k) => k < BitsOf(n)
<1> DEFINE T == BitsOf(n)
<1>1. /\ T \in Nat /\ BitsOf(WordBytes) \in Nat /\ T <= BitsOf(WordBytes)
      /\ Word = Pow2[BitsOf(WordBytes)] /\ MaxValue(n) = Pow2[T] - 1
  BY SizeOfWord, Zenon
<1> HIDE DEF T
<1>2. /\ Pow2[T] <= Word /\ Pow2[T] \in Nat /\ Word \in Nat
      /\ Pow2[T] - 1 \in Nat
      /\ \A k \in Nat : Bit(Pow2[T] - 1, k) <=> k < T
  BY <1>1, Pow2Grows, Pow2Pos, BitOnes
<1>3. ASSUME NEW x \in 0..MaxValue(n)
      PROVE  x \in Nat /\ x < Word /\ \A k \in Nat : Bit(x, k) => k < T
  <2>1. x \in Nat /\ x < Pow2[T] /\ x < Word
    BY <1>1, <1>2
  <2>2. QED
    BY <1>1, <2>1, BelowPow2, Zenon
<1>4. MaxValue(n) \in Nat /\ MaxValue(n) < Word
  BY <1>1, <1>2
<1>5. QED
  BY <1>1, <1>2, <1>3, <1>4, Zenon DEF T

(* A condition sees nothing of zero, and most of the greatest input.       *)
LEMMA TestedMonotone ==
    ASSUME NEW e \in Exprs, NEW n \in 1..WordBytes
    PROVE  /\ Tested(e, 0) = 0 /\ Tested(e, MaxValue(n)) \in Nat
           /\ \A x \in 0..MaxValue(n) :
                 Tested(e, x) \in Nat /\ Tested(e, x) <= Tested(e, MaxValue(n))
<1>1. Word \in Nat \ {0}
  BY SizeOfWord, Zenon
<1>2. Tested(e, 0) = 0
  <2>1. Tested(e, 0) \in Nat /\ \A k \in Nat : ~Bit(Tested(e, 0), k)
    BY <1>1, TestedBits, BitZero
  <2>2. QED
    BY <2>1, SomeBit, Zenon
<1>3. MaxValue(n) \in Nat /\ MaxValue(n) < Word /\ Tested(e, MaxValue(n)) \in Nat
  BY InputBits, TestedBits, Zenon
<1>4. ASSUME NEW x \in 0..MaxValue(n)
      PROVE  Tested(e, x) \in Nat /\ Tested(e, x) <= Tested(e, MaxValue(n))
  <2>1. x \in Nat /\ x < Word /\ \A k \in Nat : Bit(x, k) => Bit(MaxValue(n), k)
    BY InputBits, Zenon
  <2>2. ASSUME NEW k \in Nat, Bit(Tested(e, x), k)
        PROVE  Bit(Tested(e, MaxValue(n)), k)
    <3>1. Carried(e, k) /\ Source(e, k) \in Nat /\ Bit(x, Source(e, k))
      BY <2>1, <2>2, TestedBits, Zenon
    <3>2. QED
      BY <1>3, <2>1, <3>1, TestedBits, Zenon
  <2>3. Tested(e, x) \in Nat
    BY <2>1, TestedBits, Zenon
  <2>4. QED
    BY <1>3, <2>2, <2>3, BitsBelow, Zenon
<1>5. QED
  BY <1>2, <1>3, <1>4, Zenon

(* A carried bit that the input has is in v or in its complement.          *)
LEMMA TestedComplement ==
    ASSUME NEW e \in Exprs, NEW n \in 1..WordBytes, NEW v \in Nat, v < Word, NEW i \in Nat,
           Tested(e, MaxValue(n)) >= Pow2[i]
    PROVE  /\ Complement(v) \in Nat
           /\ \/ Tested(e, Trunc(v, n)) >= Pow2[i]
              \/ Tested(e, Trunc(Complement(v), n)) >= Pow2[i]
<1> DEFINE W == BitsOf(WordBytes)
<1>1. /\ W \in Nat /\ BitsOf(n) <= W /\ BitsOf(n) \in Nat /\ Word = Pow2[W]
      /\ Pow2[i] \in Nat
  BY SizeOfWord, Pow2Pos, Zenon
<1> HIDE DEF W
<1>2. /\ Complement(v) \in Nat
      /\ \A k \in Nat : Bit(Complement(v), k) <=> k < W /\ ~Bit(v, k)
  BY <1>1, BitComplement, Zenon DEF Complement
<1>3. MaxValue(n) \in Nat /\ MaxValue(n) < Word /\ Tested(e, MaxValue(n)) \in Nat
  BY InputBits, TestedBits, Zenon
<1>4. PICK k \in Nat : Bit(Tested(e, MaxValue(n)), k) /\ k >= i
  <2>1. ~(Tested(e, MaxValue(n)) < Pow2[i])
    BY <1>1, <1>3
  <2>2. QED
    BY <1>3, <2>1, BelowPow2
<1>5. Carried(e, k) /\ Source(e, k) \in Nat /\ Source(e, k) < BitsOf(n)
  BY <1>3, <1>4, TestedBits, InputBits
<1>6. ASSUME NEW w \in Nat, Bit(w, Source(e, k))
      PROVE  Tested(e, Trunc(w, n)) >= Pow2[i]
  <2>1. /\ Trunc(w, n) \in Nat /\ Trunc(w, n) < Word
        /\ Bit(Trunc(w, n), Source(e, k))
    BY <1>5, <1>6, TruncBits, Zenon
  <2>2. Tested(e, Trunc(w, n)) \in Nat /\ Bit(Tested(e, Trunc(w, n)), k)
    BY <1>5, <2>1, TestedBits
  <2>3. ~(Tested(e, Trunc(w, n)) < Pow2[i])
    BY <1>4, <2>2, BelowPow2
  <2>4. QED
    BY <1>1, <2>2, <2>3
<1>7. Bit(v, Source(e, k)) \/ Bit(Complement(v), Source(e, k))
  BY <1>1, <1>2, <1>5
<1>8. QED
  BY <1>2, <1>6, <1>7

(* The constant of a test, moved to its sources, passes the test if any    *)
(* input does.                                                             *)
LEMMA TestedConstant ==
    ASSUME NEW e \in Exprs, NEW n \in 1..WordBytes, NEW x \in 0..MaxValue(n),
           Tested(e, x) = e.c, e.c # 0
    PROVE  /\ Unshift(e, e.c) # 0
           /\ Tested(e, Trunc(Unshift(e, e.c), n)) = e.c
<1> DEFINE u == Unshift(e, e.c)
           y == Trunc(u, n)
<1>1. e.c \in Nat /\ e.c < Word
  BY ExprFields, Zenon
<1>2. x \in Nat /\ x < Word /\ \A k \in Nat : Bit(x, k) => k < BitsOf(n)
  BY InputBits, Zenon
<1>3. BitsOf(n) \in Nat /\ BitsOf(WordBytes) \in Nat /\ BitsOf(n) <= BitsOf(WordBytes)
  BY SizeOfWord, Zenon
<1>4. \A k \in Nat : /\ Carried(e, k) => Source(e, k) \in Nat
                     /\ Bit(e.c, k) <=> Carried(e, k) /\ Bit(x, Source(e, k))
  BY <1>2, TestedBits, Zenon
<1>5. /\ u \in Nat
      /\ \A k \in Nat : Carried(e, k) /\ Source(e, k) < BitsOf(WordBytes) =>
                           (Bit(u, Source(e, k)) <=> Bit(e.c, k))
  BY <1>1, UnshiftBits, Zenon
<1> HIDE DEF u
<1>6. /\ y \in Nat /\ y < Word /\ \A j \in Nat : Bit(y, j) <=> j < BitsOf(n) /\ Bit(u, j)
  BY <1>5, TruncBits, Zenon
<1> HIDE DEF y
<1>7. /\ Tested(e, y) \in Nat
      /\ \A k \in Nat : Bit(Tested(e, y), k) <=> Carried(e, k) /\ Bit(y, Source(e, k))
  BY <1>6, TestedBits, Zenon
<1>8. ASSUME NEW k \in Nat
      PROVE  Bit(Tested(e, y), k) <=> Bit(e.c, k)
  <2>1. CASE Carried(e, k)
    <3>1. Source(e, k) \in Nat
      BY <1>4, <2>1
    <3>2. CASE Source(e, k) < BitsOf(n)
      BY <1>3, <1>5, <1>6, <1>7, <2>1, <3>1, <3>2
    <3>3. CASE ~(Source(e, k) < BitsOf(n))
      BY <1>2, <1>4, <1>6, <1>7, <2>1, <3>1, <3>3
    <3>4. QED
      BY <3>2, <3>3, Zenon
  <2>2. CASE ~Carried(e, k)
    BY <1>4, <1>7, <2>2
  <2>3. QED
    BY <2>1, <2>2, Zenon
<1>9. Tested(e, y) = e.c
  BY <1>1, <1>7, <1>8, BitsEqual, Zenon
<1>10. u # 0
  <2>1. PICK k \in Nat : Bit(e.c, k)
    BY <1>1, SomeBit, Zenon
  <2>2. Carried(e, k) /\ Source(e, k) \in Nat /\ Source(e, k) < BitsOf(WordBytes)
    BY <1>2, <1>3, <1>4, <2>1
  <2>3. Bit(u, Source(e, k))
    BY <1>5, <2>1, <2>2, Zenon
  <2>4. QED
    BY <2>2, <2>3, BitZero
<1>11. QED
  BY <1>9, <1>10, Zenon DEF u, y

(* The mask of a test, moved to its sources, is seen by the test if any    *)
(* input is.                                                               *)
LEMMA TestedMask ==
    ASSUME NEW e \in Exprs, e.shape # "value", NEW n \in 1..WordBytes,
           NEW x \in 0..MaxValue(n), Tested(e, x) # 0
    PROVE  Tested(e, Trunc(Unshift(e, e.mask), n)) # 0
<1> DEFINE u == Unshift(e, e.mask)
           y == Trunc(u, n)
<1>1. e.mask \in Nat /\ e.mask < Word
  BY ExprFields, Zenon
<1>2. x \in Nat /\ x < Word /\ \A k \in Nat : Bit(x, k) => k < BitsOf(n)
  BY InputBits, Zenon
<1>3. BitsOf(n) \in Nat /\ BitsOf(WordBytes) \in Nat /\ BitsOf(n) <= BitsOf(WordBytes)
  BY SizeOfWord, Zenon
<1>4. PICK k \in Nat : Bit(Tested(e, x), k)
  BY <1>2, TestedBits, SomeBit
<1>5. Carried(e, k) /\ Source(e, k) \in Nat /\ Bit(x, Source(e, k))
  BY <1>2, <1>4, TestedBits, Zenon
<1>6. Bit(e.mask, k)
  BY <1>5 DEF Carried
<1>7. Source(e, k) < BitsOf(n) /\ Source(e, k) < BitsOf(WordBytes)
  BY <1>2, <1>3, <1>5
<1>8. u \in Nat /\ Bit(u, Source(e, k))
  BY <1>1, <1>5, <1>6, <1>7, UnshiftBits, Zenon
<1> HIDE DEF u
<1>9. y \in Nat /\ y < Word /\ Bit(y, Source(e, k))
  BY <1>5, <1>7, <1>8, TruncBits
<1> HIDE DEF y
<1>10. Bit(Tested(e, y), k)
  BY <1>5, <1>9, TestedBits, Zenon
<1>11. QED
  BY <1>10, BitZero, Zenon DEF u, y

-----------------------------------------------------------------------------
(* The highest bit of an input is one of its values.                       *)
LEMMA TopBitInput ==
    ASSUME NEW n \in 1..WordBytes
    PROVE  /\ TopBit(n) \in Nat /\ TopBit(n) > 0 /\ TopBit(n) <= MaxValue(n)
           /\ TopBit(n) < Word /\ Trunc(TopBit(n), n) = TopBit(n)
<1> DEFINE t == BitsOf(n) - 1
           p == Pow2[t]
<1>1. /\ t \in Nat /\ BitsOf(n) = t + 1 /\ MaxValue(n) = Pow2[BitsOf(n)] - 1
      /\ Trunc(TopBit(n), n) = TopBit(n) % Pow2[BitsOf(n)]
  BY SizeOfWord
<1>2. p \in Nat \ {0} /\ TopBit(n) = p
  BY <1>1, Pow2Pos, Zenon DEF TopBit, BitsOf
<1>3. Pow2[BitsOf(n)] = 2 * p
  BY <1>1, Pow2Def, Zenon
<1> HIDE DEF p, t
<1>4. p % (2 * p) = p
  BY <1>2
<1>5. MaxValue(n) \in Nat /\ MaxValue(n) < Word /\ Word \in Nat
  BY InputBits, SizeOfWord, Zenon
<1>6. QED
  BY <1>1, <1>2, <1>3, <1>4, <1>5

(* The bytes of a number whose lowest i bytes are ones.                    *)
LEMMA BytesOfOnes ==
    ASSUME NEW i \in 1..WordBytes, NEW j \in Nat
    PROVE  /\ j < i  => ByteOf(MaxValue(i), j) = Pow2[ByteBits] - 1
           /\ j >= i => ByteOf(MaxValue(i), j) = 0
<1> DEFINE B == ByteBits
           d == MaxValue(i) \div Pow2[B * j]
           b == d % Pow2[B]
<1>1. B \in Nat \ {0} /\ B * j \in Nat /\ i \in Nat /\ B * i \in Nat
  BY SizesAssumption
<1>2. MaxValue(i) \in Nat /\ \A k \in Nat : Bit(MaxValue(i), k) <=> k < B * i
  BY InputBits, Zenon DEF BitsOf
<1>3. d \in Nat /\ \A k \in Nat : Bit(d, k) <=> Bit(MaxValue(i), k + B * j)
  BY <1>1, <1>2, BitDiv, Zenon
<1>4. ByteOf(MaxValue(i), j) = b
  BY Zenon DEF ByteOf
<1> HIDE DEF d
<1>5. b \in Nat /\ \A k \in Nat : Bit(b, k) <=> k < B /\ Bit(d, k)
  BY <1>1, <1>3, BitMod, Zenon
<1> HIDE DEF b, B
<1>6. \A k \in Nat : Bit(b, k) <=> k < B /\ k + B * j < B * i
  <2>1. \A k \in Nat : k + B * j \in Nat
    BY <1>1
  <2>2. QED
    BY <1>2, <1>3, <1>5, <2>1
<1>7. ASSUME j < i
      PROVE  b = Pow2[B] - 1
  <2>1. B * (j + 1) <= B * i /\ B * (j + 1) = B * j + B
    BY <1>1, <1>7
  <2>2. \A k \in Nat : k < B => k + B * j < B * i
    BY <1>1, <2>1
  <2>3. Pow2[B] - 1 \in Nat /\ \A k \in Nat : Bit(Pow2[B] - 1, k) <=> k < B
    BY <1>1, BitOnes
  <2>4. \A k \in Nat : Bit(b, k) <=> Bit(Pow2[B] - 1, k)
    BY <1>6, <2>2, <2>3, Zenon
  <2>5. QED
    BY <1>5, <2>3, <2>4, BitsEqual, Zenon
<1>8. ASSUME j >= i
      PROVE  b = 0
  <2>1. B * i <= B * j
    BY <1>1, <1>8
  <2>2. \A k \in Nat : ~(k + B * j < B * i)
    BY <1>1, <2>1
  <2>3. \A k \in Nat : ~Bit(b, k)
    BY <1>6, <2>2, Zenon
  <2>4. QED
    BY <1>5, <2>3, SomeBit
<1>9. QED
  BY <1>4, <1>7, <1>8, Zenon DEF B

(* A bounded set of numbers has a greatest one.                            *)
LEMMA GreatestNat ==
    ASSUME NEW m \in Nat, NEW S \in SUBSET (0..m), S # {}
    PROVE  /\ Max(S) \in S /\ \A y \in S : y <= Max(S)
<1> DEFINE R == {k \in Nat : m - k \in S}
<1>1. PICK x \in S : TRUE
  BY Zenon
<1>2. m - x \in R
  <2>1. x \in 0..m
    BY Zenon
  <2>2. m - x \in Nat /\ m - (m - x) = x
    BY <2>1
  <2>3. QED
    BY <2>2, Zenon
<1>3. PICK r \in R : \A k \in R : r <= k
  BY <1>2, LeastNat, Zenon
<1>4. m - r \in S /\ r \in Nat
  BY Zenon
<1>5. ASSUME NEW y \in S
      PROVE  m - r >= y
  <2>1. y \in 0..m
    BY Zenon
  <2>2. m - y \in Nat /\ m - (m - y) = y
    BY <2>1
  <2>3. m - y \in R
    BY <2>2, Zenon
  <2>4. r <= m - y
    BY <1>3, <2>3, Zenon
  <2>5. QED
    BY <1>4, <2>1, <2>2, <2>4
<1> HIDE DEF R
<1>6. \E z \in S : \A y \in S : z >= y
  BY <1>4, <1>5, Zenon
<1>7. Max(S) \in S /\ \A y \in S : Max(S) >= y
  BY <1>6, Zenon DEF Max
<1>8. \A y \in S : y \in 0..m
  BY Zenon
<1>9. \A a, b \in 0..m : a >= b => b <= a
  BY Zenon
<1>10. QED
  BY <1>7, <1>8, <1>9, Zenon

(* checkAllOneValue finds the highest bit of an input, or nothing, and it  *)
(* finds it for a constant that has the ones of the lowest bytes.          *)
LEMMA AllOneValue ==
    /\ \A v : \/ checkAllOneValue(v) = 0
              \/ \E i \in 1..WordBytes : checkAllOneValue(v) = TopBit(i)
    /\ \A i \in 1..WordBytes : checkAllOneValue(MaxValue(i)) = TopBit(i)
<1> DEFINE ones(v) == {k \in 0..WordBytes : \A j \in 0..k - 1 : ByteOf(v, j) = Pow2[ByteBits] - 1}
           Found(v, i) == IF i = WordBytes THEN TopBit(WordBytes)
                          ELSE IF i = 0 \/ ByteOf(v, i) # 0 THEN 0 ELSE TopBit(i)
<1>1. \A v : checkAllOneValue(v) = Found(v, Max(ones(v)))
  BY Zenon DEF checkAllOneValue
<1>2. WordBytes \in Nat \ {0}
  BY SizesAssumption, Zenon
<1>3. ASSUME NEW v
      PROVE  Max(ones(v)) \in 0..WordBytes /\ Max(ones(v)) \in ones(v)
             /\ \A k \in ones(v) : k <= Max(ones(v))
  <2> DEFINE S == ones(v)
  <2>1. 0 \in S /\ S \in SUBSET (0..WordBytes)
    BY <1>2
  <2> HIDE DEF S
  <2>2. Max(S) \in S /\ \A k \in S : k <= Max(S)
    BY <1>2, <2>1, GreatestNat, Zenon
  <2>3. QED
    BY <2>1, <2>2, Zenon DEF S
<1>4. ASSUME NEW v
      PROVE  checkAllOneValue(v) = 0 \/ \E i \in 1..WordBytes : checkAllOneValue(v) = TopBit(i)
  <2> DEFINE i == Max(ones(v))
  <2>1. i \in 0..WordBytes
    BY <1>3, Zenon
  <2>2. checkAllOneValue(v) = Found(v, i)
    BY <1>1, Zenon
  <2> HIDE DEF i
  <2>3. CASE i = WordBytes
    <3>1. WordBytes \in 1..WordBytes
      BY <1>2
    <3>2. QED
      BY <2>2, <2>3, <3>1, Zenon
  <2>4. CASE i # WordBytes
    BY <1>2, <2>1, <2>2, <2>4
  <2>5. QED
    BY <2>3, <2>4, Zenon
<1>5. ASSUME NEW i \in 1..WordBytes
      PROVE  checkAllOneValue(MaxValue(i)) = TopBit(i)
  <2> DEFINE v == MaxValue(i)
             m == Max(ones(v))
  <2>1. \A j \in Nat : /\ j < i  => ByteOf(v, j) = Pow2[ByteBits] - 1
                       /\ j >= i => ByteOf(v, j) = 0
    BY BytesOfOnes, Zenon
  <2>2. Pow2[ByteBits] - 1 # 0
    <3>1. ByteBits - 1 \in Nat /\ ByteBits = (ByteBits - 1) + 1
      BY SizesAssumption
    <3>2. Pow2[ByteBits] = 2 * Pow2[ByteBits - 1] /\ Pow2[ByteBits - 1] \in Nat \ {0}
      BY <3>1, Pow2Def, Pow2Pos, Zenon
    <3>3. QED
      BY <3>2
  <2>3. i \in ones(v)
    BY <1>2, <2>1
  <2>4. m \in 0..WordBytes /\ m \in ones(v) /\ i <= m
    BY <1>3, <2>3, Zenon
  <2>5. m <= i
    <3> SUFFICES ASSUME ~(m <= i)
                 PROVE  FALSE
      BY Zenon
    <3>1. i \in 0..m - 1 /\ i \in Nat /\ i >= i
      BY <2>4
    <3>2. ByteOf(v, i) = Pow2[ByteBits] - 1
      BY <2>4, <3>1, Zenon
    <3>3. QED
      BY <2>1, <2>2, <3>1, <3>2, Zenon
  <2>6. m = i
    BY <2>4, <2>5
  <2>7. ByteOf(v, i) = 0 /\ i # 0
    BY <2>1
  <2>8. checkAllOneValue(v) = Found(v, i)
    BY <1>1, <2>6, Zenon
  <2>9. QED
    BY <2>7, <2>8, Zenon
<1>6. QED
  BY <1>4, <1>5, Zenon

-----------------------------------------------------------------------------
(* The outcomes of a condition that the values of D give to an input of n  *)
(* bytes.                                                                  *)
Seen(e, n, D) == {Holds(e, n, Trunc(v, n)) : v \in D}

(* Whatever the values are, they give no impossible outcome; and they give *)
(* all, if the outcome of every input is that of one of them.              *)
LEMMA SeenPossible ==
    ASSUME NEW e, NEW n \in 1..WordBytes, NEW D \in SUBSET Nat
    PROVE  /\ Seen(e, n, D) \subseteq Outcomes(e, n)
           /\ (\A x \in 0..MaxValue(n) : \E v \in D : Holds(e, n, x) = Holds(e, n, Trunc(v, n)))
              => Seen(e, n, D) = Outcomes(e, n)
<1>1. \A v \in D : Trunc(v, n) \in 0..MaxValue(n)
  <2> SUFFICES ASSUME NEW v \in D
               PROVE  Trunc(v, n) \in 0..MaxValue(n)
    BY Zenon
  <2>1. Trunc(v, n) \in Nat /\ Trunc(v, n) <= MaxValue(n) /\ MaxValue(n) \in Nat
    BY TruncBits, SizeOfWord, Zenon
  <2>2. QED
    BY <2>1
<1>2. QED
  BY <1>1, Zenon DEF Seen, Outcomes

(* A test of the bits under a mask is covered by zero and by the bits that *)
(* the analysis adds for it.                                               *)
LEMMA MaskCovered ==
    ASSUME NEW e \in Exprs, NEW n \in 1..WordBytes, NEW D \in SUBSET Nat,
           e.op \in {"EQ", "NE"}, e.shape # "value", 0 \in D, NewBits(e) \subseteq D
    PROVE  Seen(e, n, D) = Outcomes(e, n)
<1> DEFINE c == Unshift(e, e.c)
           b == IF c = 0 THEN Unshift(e, e.mask) ELSE c
<1>1. b \in D
  BY Zenon DEF NewBits
<1>2. \A x : Holds(e, n, x) = (IF e.op = "EQ" THEN e.c = Tested(e, x) ELSE e.c # Tested(e, x))
  BY ExprFields, Zenon DEF Holds
<1>3. Trunc(0, n) = 0 /\ Tested(e, 0) = 0
  <2>1. Pow2[BitsOf(n)] \in Nat \ {0} /\ Trunc(0, n) = 0 % Pow2[BitsOf(n)]
    BY SizeOfWord, Pow2Pos, Zenon
  <2>2. QED
    BY <2>1, TestedMonotone
<1>4. ASSUME NEW x \in 0..MaxValue(n)
      PROVE  \E v \in D : e.c = Tested(e, x) <=> e.c = Tested(e, Trunc(v, n))
  <2>1. CASE e.c # 0 /\ e.c = Tested(e, x)
    <3>1. b = c /\ Tested(e, Trunc(c, n)) = e.c
      BY <2>1, TestedConstant
    <3>2. QED
      BY <1>1, <2>1, <3>1, Zenon
  <2>2. CASE e.c = 0 /\ e.c # Tested(e, x)
    <3>1. Unshift(e, 0) = 0
      <4>1. Word \in Nat \ {0} /\ e.shift \in Nat
        BY SizeOfWord, ExprFields, Zenon
      <4>2. Pow2[e.shift] \in Nat \ {0}
        BY <4>1, Pow2Pos, Zenon
      <4>3. \A p, w \in Nat \ {0} : 0 \div p = 0 /\ 0 * p = 0 /\ 0 % w = 0
        OBVIOUS
      <4>4. QED
        BY <4>1, <4>2, <4>3, Zenon DEF Unshift
    <3>2. b = Unshift(e, e.mask) /\ Tested(e, Trunc(Unshift(e, e.mask), n)) # 0
      BY <2>2, <3>1, TestedMask, Zenon
    <3>3. QED
      BY <1>1, <2>2, <3>2, Zenon
  <2>3. CASE e.c # 0 /\ e.c # Tested(e, x)
    BY <1>3, <2>3, Zenon
  <2>4. CASE e.c = 0 /\ e.c = Tested(e, x)
    BY <1>3, <2>4, Zenon
  <2>5. QED
    BY <2>1, <2>2, <2>3, <2>4
<1>5. \A x \in 0..MaxValue(n) : \E v \in D : Holds(e, n, x) = Holds(e, n, Trunc(v, n))
  BY <1>2, <1>4
<1>6. QED
  BY <1>5, SeenPossible, Zenon

(* A comparison is covered by the least and the greatest input, unless it  *)
(* is one of the tests of the sign.                                        *)
LEMMA RangeCovered ==
    ASSUME NEW e \in Exprs, NEW n \in 1..WordBytes, NEW D \in SUBSET Nat,
           e.op \in {"LT", "LE", "GT", "GE"},
           ~(e.op = "LT" /\ e.c = 0), ~(e.op = "GT" /\ e.c = MaxValue(n)),
           NEW v0 \in D, NEW v1 \in D, Trunc(v0, n) = 0, Trunc(v1, n) = MaxValue(n)
    PROVE  Seen(e, n, D) = Outcomes(e, n)
<1> DEFINE t(x) == Tested(e, x)
           l(x) == IF e.left THEN e.c ELSE t(x)
           r(x) == IF e.left THEN t(x) ELSE e.c
           H(x) == CASE e.op = "LT" -> l(x) < r(x)
                     [] e.op = "LE" -> l(x) <= r(x)
                     [] e.op = "GT" -> l(x) > r(x)
                     [] e.op = "GE" -> l(x) >= r(x)
<1>1. \A x : Holds(e, n, x) = H(x)
  BY DEF Holds
<1>2. e.c \in Nat /\ e.left \in BOOLEAN
  BY ExprFields, Zenon
<1>3. /\ t(0) = 0 /\ t(MaxValue(n)) \in Nat
      /\ \A x \in 0..MaxValue(n) : t(x) \in Nat /\ t(x) <= t(MaxValue(n))
  BY TestedMonotone, Zenon
<1> HIDE DEF t
<1>4. ASSUME NEW x \in 0..MaxValue(n)
      PROVE  H(x) = H(0) \/ H(x) = H(MaxValue(n))
  <2>1. t(x) \in Nat /\ t(x) <= t(MaxValue(n))
    BY <1>3, Zenon
  <2>2. QED
    BY <1>2, <1>3, <2>1
<1> HIDE DEF H
<1>5. \A x \in 0..MaxValue(n) : \E v \in D : Holds(e, n, x) = Holds(e, n, Trunc(v, n))
  BY <1>1, <1>4, Zenon
<1>6. QED
  BY <1>5, SeenPossible, Zenon

(* A test whether some bit from bit i on is set is covered by zero, by any *)
(* value and by its complement.                                            *)
LEMMA SomeBitCovered ==
    ASSUME NEW e \in Exprs, NEW n \in 1..WordBytes, NEW i \in Nat, NEW D \in SUBSET Nat,
           NEW high \in BOOLEAN,
           \A x \in 0..MaxValue(n) : Holds(e, n, x) = (high = (Tested(e, x) >= Pow2[i])),
           NEW v \in D, v < Word, 0 \in D, Complement(v) \in D
    PROVE  Seen(e, n, D) = Outcomes(e, n)
<1> DEFINE Far(x) == Tested(e, x) >= Pow2[i]
<1>1. \A w \in D : Trunc(w, n) \in 0..MaxValue(n)
  <2> SUFFICES ASSUME NEW w \in D
               PROVE  Trunc(w, n) \in 0..MaxValue(n)
    BY Zenon
  <2>1. Trunc(w, n) \in Nat /\ Trunc(w, n) <= MaxValue(n) /\ MaxValue(n) \in Nat
    BY TruncBits, SizeOfWord, Zenon
  <2>2. QED
    BY <2>1
<1>2. Pow2[i] \in Nat \ {0} /\ Pow2[BitsOf(n)] \in Nat \ {0}
  BY SizeOfWord, Pow2Pos, Zenon
<1>3. Trunc(0, n) = 0 /\ ~Far(0)
  <2>1. Trunc(0, n) = 0 % Pow2[BitsOf(n)] /\ Tested(e, 0) = 0
    BY SizeOfWord, TestedMonotone, Zenon
  <2>2. QED
    BY <1>2, <2>1
<1>4. ASSUME NEW x \in 0..MaxValue(n), Far(x)
      PROVE  Far(Trunc(v, n)) \/ Far(Trunc(Complement(v), n))
  <2>1. /\ Tested(e, x) \in Nat /\ Tested(e, x) <= Tested(e, MaxValue(n))
        /\ Tested(e, MaxValue(n)) \in Nat
    BY TestedMonotone, Zenon
  <2>2. Tested(e, MaxValue(n)) >= Pow2[i]
    BY <1>2, <1>4, <2>1
  <2>3. v \in Nat
    BY Zenon
  <2>4. QED
    BY <2>2, <2>3, TestedComplement, Zenon
<1>5. \A x \in 0..MaxValue(n) : Holds(e, n, x) = (high = Far(x))
  BY Zenon
<1>6. \A x : Far(x) \in BOOLEAN
  OBVIOUS
<1> HIDE DEF Far
<1>7. ASSUME NEW x \in 0..MaxValue(n)
      PROVE  \E w \in D : Far(x) = Far(Trunc(w, n))
  BY <1>3, <1>4, <1>6, Zenon
<1>8. \A x \in 0..MaxValue(n) : \E w \in D : Holds(e, n, x) = Holds(e, n, Trunc(w, n))
  BY <1>1, <1>5, <1>7
<1>9. QED
  BY <1>8, SeenPossible, Zenon

(* A test of the sign is covered by zero and the highest bit.              *)
LEMMA SignCovered ==
    ASSUME NEW e \in Exprs, NEW n \in 1..WordBytes, NEW D \in SUBSET Nat,
           e.shape = "value", ~e.left, 0 \in D, TopBit(n) \in D,
           \/ e.op = "LT" /\ e.c = 0
           \/ e.op = "GT" /\ e.c = MaxValue(n)
    PROVE  Seen(e, n, D) = Outcomes(e, n)
<1> DEFINE T == TopBit(n)
<1>1. T \in Nat /\ T > 0 /\ Trunc(T, n) = T
  BY TopBitInput, Zenon
<1>2. Trunc(0, n) = 0
  <2>1. Pow2[BitsOf(n)] \in Nat \ {0} /\ Trunc(0, n) = 0 % Pow2[BitsOf(n)]
    BY SizeOfWord, Pow2Pos, Zenon
  <2>2. QED
    BY <2>1
<1>3. MaxValue(n) \in Nat
  BY SizeOfWord, Zenon
<1>4. \A x : Tested(e, x) = x
  BY Zenon DEF Tested
<1>5. \A x : Holds(e, n, x) = IF e.op = "LT" THEN x >= T ELSE x < T
  BY <1>4, Zenon DEF Holds
<1> HIDE DEF T
<1>6. ASSUME NEW x \in 0..MaxValue(n)
      PROVE  Holds(e, n, x) = Holds(e, n, 0) \/ Holds(e, n, x) = Holds(e, n, T)
  <2>1. x \in Nat
    BY <1>3
  <2>2. CASE e.op = "LT"
    <3>1. (x >= T) = (0 >= T) \/ (x >= T) = (T >= T)
      BY <1>1, <2>1
    <3>2. QED
      BY <1>5, <2>2, <3>1, Zenon
  <2>3. CASE e.op # "LT"
    <3>1. (x < T) = (0 < T) \/ (x < T) = (T < T)
      BY <1>1, <2>1
    <3>2. QED
      BY <1>5, <2>3, <3>1, Zenon
  <2>4. QED
    BY <2>2, <2>3, Zenon
<1>7. \A x \in 0..MaxValue(n) : \E v \in D : Holds(e, n, x) = Holds(e, n, Trunc(v, n))
  BY <1>1, <1>2, <1>6, Zenon DEF T
<1>8. QED
  BY <1>7, SeenPossible, Zenon

-----------------------------------------------------------------------------
(* The iteration over a std::set visits each of its elements.              *)
LEMMA SortedRange ==
    ASSUME NEW S \in SUBSET Nat, IsFiniteSet(S)
    PROVE  Range(Sorted(S)) = S /\ DOMAIN Sorted(S) = 1..Cardinality(S)
<1> DEFINE n == Cardinality(S)
           below(x) == {y \in S : y < x}
           rank == [x \in S |-> Cardinality(below(x))]
<1>1. n \in Nat
  BY FS_CardinalityType, Zenon
<1>2. \A x \in S : IsFiniteSet(below(x)) /\ Cardinality(below(x)) \in Nat
  <2> SUFFICES ASSUME NEW x \in S
               PROVE  IsFiniteSet(below(x)) /\ Cardinality(below(x)) \in Nat
    BY Zenon
  <2>1. below(x) \in SUBSET S
    BY Zenon
  <2> HIDE DEF below
  <2>2. IsFiniteSet(below(x))
    BY <2>1, FS_Subset, Zenon
  <2>3. QED
    BY <2>2, FS_CardinalityType, Zenon
<1>3. ASSUME NEW x \in S, NEW T \in SUBSET S, below(x) \subseteq T, x \notin below(x), x \in T
      PROVE  Cardinality(below(x)) < Cardinality(T)
  <2>1. IsFiniteSet(T) /\ Cardinality(T) \in Nat
    BY FS_Subset, FS_CardinalityType, Zenon
  <2>2. below(x) \in SUBSET T /\ below(x) # T
    BY <1>3, Zenon
  <2> HIDE DEF below
  <2>3. Cardinality(below(x)) <= Cardinality(T) /\ Cardinality(below(x)) # Cardinality(T)
    BY <2>1, <2>2, FS_Subset
  <2>4. QED
    BY <1>2, <2>1, <2>3
<1>4. \A x \in S : Cardinality(below(x)) \in 0..n - 1
  <2> SUFFICES ASSUME NEW x \in S
               PROVE  Cardinality(below(x)) \in 0..n - 1
    BY Zenon
  <2>1. below(x) \subseteq S /\ x \notin below(x)
    OBVIOUS
  <2> HIDE DEF below
  <2>2. Cardinality(below(x)) < n
    BY <1>3, <2>1, Zenon
  <2>3. QED
    BY <1>1, <1>2, <2>2
<1>5. \A x, z \in S : x < z => Cardinality(below(x)) < Cardinality(below(z))
  <2> SUFFICES ASSUME NEW x \in S, NEW z \in S, x < z
               PROVE  Cardinality(below(x)) < Cardinality(below(z))
    BY Zenon
  <2>1. /\ below(z) \in SUBSET S /\ below(x) \subseteq below(z)
        /\ x \notin below(x) /\ x \in below(z)
    <3>1. \A y \in S : y < x => y < z
      OBVIOUS
    <3>2. ~(x < x)
      OBVIOUS
    <3>3. QED
      BY <3>1, <3>2, Zenon
  <2> HIDE DEF below
  <2>2. QED
    BY <1>3, <2>1
<1> HIDE DEF below
<1>6. \A x, z \in S : Cardinality(below(x)) = Cardinality(below(z)) => x = z
  <2> SUFFICES ASSUME NEW x \in S, NEW z \in S, Cardinality(below(x)) = Cardinality(below(z)),
                      x # z
               PROVE  FALSE
    BY Zenon
  <2>1. x < z \/ z < x
    OBVIOUS
  <2>2. Cardinality(below(x)) \in Nat
    BY <1>2, Zenon
  <2>3. QED
    BY <1>5, <2>1, <2>2
<1>7. rank \in Injection(S, 0..n - 1)
  <2>1. rank \in [S -> 0..n - 1]
    BY <1>4, Zenon
  <2>2. \A x, z \in S : rank[x] = rank[z] => x = z
    BY <1>6, Zenon
  <2>3. DOMAIN rank = S
    BY Zenon
  <2> HIDE DEF rank
  <2>4. QED
    BY <2>1, <2>2, <2>3 DEF Injection, IsInjective
<1>8. IsFiniteSet(0..n - 1) /\ Cardinality(0..n - 1) = n
  <2>1. 0 \in Int /\ n - 1 \in Int
    BY <1>1
  <2>2. /\ IsFiniteSet(0..n - 1)
        /\ Cardinality(0..n - 1) = IF 0 > n - 1 THEN 0 ELSE (n - 1) - 0 + 1
    BY <2>1, FS_Interval, Zenon
  <2>3. QED
    BY <1>1, <2>2
<1>9. \A k \in 0..n - 1 : \E x \in S : rank[x] = k
  <2> HIDE DEF rank
  <2>1. rank \in Surjection(S, 0..n - 1)
    BY <1>7, <1>8, FS_Injection, Zenon
  <2>2. QED
    BY <2>1, Zenon DEF Surjection
<1>10. Sorted(S) = [k \in 1..n |-> CHOOSE x \in S : Cardinality(below(x)) = k - 1]
  BY Zenon DEF Sorted, below
<1>11. ASSUME NEW k \in 1..n
       PROVE  Sorted(S)[k] \in S /\ Cardinality(below(Sorted(S)[k])) = k - 1
  <2>1. k - 1 \in 0..n - 1
    BY <1>1
  <2>2. \E x \in S : Cardinality(below(x)) = k - 1
    BY <1>9, <2>1, Zenon
  <2>3. QED
    BY <1>10, <2>2
<1>12. ASSUME NEW x \in S
       PROVE  \E k \in 1..n : Sorted(S)[k] = x
  <2> DEFINE k == Cardinality(below(x)) + 1
  <2>1. k \in 1..n /\ k - 1 = Cardinality(below(x))
    BY <1>1, <1>4
  <2> HIDE DEF k
  <2>2. Sorted(S)[k] = x
    BY <1>6, <1>11, <2>1, Zenon
  <2>3. QED
    BY <2>1, <2>2
<1>13. DOMAIN Sorted(S) = 1..n
  BY <1>10, Zenon
<1>14. QED
  BY <1>11, <1>12, <1>13, Zenon DEF Range

(* z has the bits that an element of S has.                                *)
IsOr(z, S) == z \in Nat /\ \A k \in Nat : Bit(z, k) <=> \E x \in S : Bit(x, k)

(* One more element adds its bits.                                         *)
LEMMA OrOfMore ==
    ASSUME NEW S \in SUBSET Nat, NEW x \in S, NEW z, IsOr(z, S \ {x})
    PROVE  IsOr(BitOr(x, z), S)
<1>1. x \in Nat /\ z \in Nat /\ \A k \in Nat : Bit(z, k) <=> \E y \in S \ {x} : Bit(y, k)
  BY Zenon DEF IsOr
<1>2. /\ BitOr(x, z) \in Nat
      /\ \A k \in Nat : Bit(BitOr(x, z), k) <=> Bit(x, k) \/ Bit(z, k)
  BY <1>1, BitsOfOr, Zenon
<1>3. ASSUME NEW k \in Nat
      PROVE  Bit(x, k) \/ Bit(z, k) <=> \E y \in S : Bit(y, k)
  BY <1>1, Zenon
<1>4. QED
  BY <1>2, <1>3, Zenon DEF IsOr

(* There is a number with the bits of finitely many.                       *)
LEMMA OrExists ==
    ASSUME NEW S \in SUBSET Nat, IsFiniteSet(S)
    PROVE  \E z : IsOr(z, S)
<1> DEFINE N == {n \in Nat : \A T \in SUBSET Nat :
                   IsFiniteSet(T) /\ Cardinality(T) = n => \E z : IsOr(z, T)}
<1>1. 0 \in N
  <2> SUFFICES ASSUME NEW T \in SUBSET Nat, IsFiniteSet(T), Cardinality(T) = 0
               PROVE  \E z : IsOr(z, T)
    BY Zenon
  <2>1. T = {}
    BY FS_EmptySet, Zenon
  <2>2. IsOr(0, T)
    BY <2>1, BitZero DEF IsOr
  <2>3. QED
    BY <2>2, Zenon
<1>2. ASSUME NEW n \in Nat, n \in N
      PROVE  n + 1 \in N
  <2> SUFFICES ASSUME NEW T \in SUBSET Nat, IsFiniteSet(T), Cardinality(T) = n + 1
               PROVE  \E z : IsOr(z, T)
    OBVIOUS
  <2>1. PICK x \in T : TRUE
    <3>1. T # {}
      BY FS_EmptySet
    <3>2. QED
      BY <3>1, Zenon
  <2>2. IsFiniteSet(T \ {x}) /\ Cardinality(T \ {x}) = Cardinality(T) - 1
    BY <2>1, FS_RemoveElement, Zenon
  <2>3. PICK z : IsOr(z, T \ {x})
    <3>1. Cardinality(T \ {x}) = n /\ T \ {x} \in SUBSET Nat
      BY <2>2
    <3>2. QED
      BY <1>2, <2>2, <3>1, Zenon
  <2>4. QED
    BY <2>1, <2>3, OrOfMore, Zenon
<1> HIDE DEF N
<1>3. Cardinality(S) \in N
  BY <1>1, <1>2, NatSet, FS_CardinalityType, Zenon
<1>4. QED
  BY <1>3, Zenon DEF N

(* The number that OrAll makes has the bits of all.                        *)
LEMMA OrAllBits ==
    ASSUME NEW S \in SUBSET Nat, IsFiniteSet(S)
    PROVE  IsOr(OrAll(S), S)
<1> DEFINE pick(s) == CHOOSE x \in s : TRUE
           step(g) == [s \in SUBSET S |-> IF s = {} THEN 0 ELSE BitOr(pick(s), g[s \ {pick(s)}])]
           iter == CHOOSE g : g = step(g)
           or == [s \in SUBSET S |-> CHOOSE z : IsOr(z, s)]
<1>1. OrAll(S) = iter[S]
  BY Zenon DEF OrAll, FoldSet, MapThenFoldSet
<1>2. ASSUME NEW s \in SUBSET S
      PROVE  IsFiniteSet(s) /\ s \in SUBSET Nat /\ (s # {} => pick(s) \in s)
  BY FS_Subset, ZenonT(20)
<1>3. ASSUME NEW s \in SUBSET S
      PROVE  IsOr(or[s], s)
  BY <1>2, OrExists, Zenon
<1> HIDE DEF or, pick
<1>4. or = step(or)
  <2>1. DOMAIN or = SUBSET S /\ or = [s \in SUBSET S |-> or[s]]
    BY DEF or
  <2>2. ASSUME NEW s \in SUBSET S
        PROVE  or[s] = IF s = {} THEN 0 ELSE BitOr(pick(s), or[s \ {pick(s)}])
    <3>1. ASSUME NEW z, IsOr(z, s)
          PROVE  or[s] = z
      <4>1. or[s] \in Nat /\ z \in Nat /\ \A k \in Nat : Bit(or[s], k) <=> Bit(z, k)
        BY <1>3, <3>1, Zenon DEF IsOr
      <4>2. QED
        BY <4>1, BitsEqual
    <3>2. CASE s = {}
      <4>1. IsOr(0, s)
        BY <3>2, BitZero, Zenon DEF IsOr
      <4>2. QED
        BY <3>1, <3>2, <4>1
    <3>3. CASE s # {}
      <4>1. pick(s) \in s /\ s \ {pick(s)} \in SUBSET S /\ s \in SUBSET Nat
        BY <1>2, <3>3, Zenon
      <4>2. IsOr(or[s \ {pick(s)}], s \ {pick(s)})
        BY <1>3, <4>1
      <4>3. IsOr(BitOr(pick(s), or[s \ {pick(s)}]), s)
        BY <4>1, <4>2, OrOfMore, Zenon
      <4>4. QED
        BY <3>1, <3>3, <4>3, ZenonT(20)
    <3>4. QED
      BY <3>2, <3>3, Zenon
  <2>3. QED
    BY <2>1, <2>2, Zenon
<1>5. iter = step(iter)
  <2> HIDE DEF step
  <2>1. QED
    BY <1>4, Zenon
<1> HIDE DEF iter
<1>6. \A s \in SUBSET S : iter[s] = IF s = {} THEN 0 ELSE BitOr(pick(s), iter[s \ {pick(s)}])
  BY <1>5, Zenon
<1> DEFINE N == {n \in Nat : \A s \in SUBSET S : Cardinality(s) = n => IsOr(iter[s], s)}
<1>7. 0 \in N
  <2> SUFFICES ASSUME NEW s \in SUBSET S, Cardinality(s) = 0
               PROVE  IsOr(iter[s], s)
    BY Zenon
  <2>1. s = {}
    BY <1>2, FS_EmptySet, Zenon
  <2>2. QED
    BY <1>6, <2>1, BitZero DEF IsOr
<1>8. ASSUME NEW n \in Nat, n \in N
      PROVE  n + 1 \in N
  <2> SUFFICES ASSUME NEW s \in SUBSET S, Cardinality(s) = n + 1
               PROVE  IsOr(iter[s], s)
    OBVIOUS
  <2>1. s # {}
    BY FS_EmptySet
  <2>2. pick(s) \in s /\ s \ {pick(s)} \in SUBSET S /\ s \in SUBSET Nat /\ IsFiniteSet(s)
    BY <1>2, <2>1, Zenon
  <2>3. Cardinality(s \ {pick(s)}) = n
    <3>1. Cardinality(s \ {pick(s)}) = Cardinality(s) - 1
      BY <2>2, FS_RemoveElement, Zenon
    <3>2. QED
      BY <3>1
  <2>4. IsOr(iter[s \ {pick(s)}], s \ {pick(s)})
    BY <1>8, <2>2, <2>3
  <2>5. IsOr(BitOr(pick(s), iter[s \ {pick(s)}]), s)
    BY <2>2, <2>4, OrOfMore, Zenon
  <2>6. iter[s] = BitOr(pick(s), iter[s \ {pick(s)}])
    BY <1>6, <2>1, ZenonT(20)
  <2>7. QED
    BY <2>5, <2>6, Zenon
<1> HIDE DEF N
<1>9. Cardinality(S) \in N
  BY <1>7, <1>8, NatSet, FS_CardinalityType, Zenon
<1>10. QED
  BY <1>1, <1>9, Zenon DEF N

(* A word is made of words, and a single value is left as it is.           *)
LEMMA OrAllWord ==
    ASSUME NEW S \in SUBSET Nat, IsFiniteSet(S)
    PROVE  /\ OrAll(S) \in Nat /\ ((\A x \in S : x < Word) => OrAll(S) < Word)
           /\ \A v : S = {v} => OrAll(S) = v
<1> DEFINE z == OrAll(S)
<1>1. z \in Nat /\ \A k \in Nat : Bit(z, k) <=> \E x \in S : Bit(x, k)
  BY OrAllBits, Zenon DEF IsOr
<1> HIDE DEF z
<1>2. ASSUME \A x \in S : x < Word
      PROVE  z < Word
  <2>1. BitsOf(WordBytes) \in Nat /\ Word = Pow2[BitsOf(WordBytes)]
    BY SizesAssumption, SizeOfWord
  <2>2. \A x \in S : \A k \in Nat : Bit(x, k) => k < BitsOf(WordBytes)
    BY <1>2, <2>1, BelowPow2, Zenon
  <2>3. \A k \in Nat : Bit(z, k) => k < BitsOf(WordBytes)
    BY <1>1, <2>2
  <2>4. QED
    BY <1>1, <2>1, <2>3, BelowPow2
<1>3. ASSUME NEW v, S = {v}
      PROVE  z = v
  <2>1. v \in Nat /\ \A k \in Nat : Bit(z, k) <=> Bit(v, k)
    BY <1>1, <1>3, Zenon
  <2>2. QED
    BY <1>1, <2>1, BitsEqual, Zenon
<1>4. QED
  BY <1>1, <1>2, <1>3 DEF z
=============================================================================
