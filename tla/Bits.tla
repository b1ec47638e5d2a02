-------------------------------- MODULE Bits --------------------------------
(***************************************************************************)
(* Powers of two and the operators & and | of C on unsigned numbers, as    *)
(* recursive functions over the bits.                                      *)
(***************************************************************************)
EXTENDS Integers

Pow2[n \in Nat] == IF n = 0 THEN 1 ELSE 2 * Pow2[n - 1]

And[x \in Nat] ==
    [y \in Nat |-> IF x = 0 THEN 0
                   ELSE 2 * And[x \div 2][y \div 2] + (IF x % 2 = 1 /\ y % 2 = 1 THEN 1 ELSE 0)]

Or[x \in Nat] ==
    [y \in Nat |-> IF x = 0 THEN y
                   ELSE 2 * Or[x \div 2][y \div 2] + (IF x % 2 = 1 \/ y % 2 = 1 THEN 1 ELSE 0)]

BitAnd(a, b) == And[a][b]
BitOr(a, b)  == Or[a][b]

(* Bit k of x.                                                             *)
Bit(x, k) == (x \div Pow2[k]) % 2 = 1
=============================================================================
