----------------------------- MODULE BinaryField -----------------------------
(***************************************************************************)
(* The two fields of the machine.                                          *)
(*                                                                         *)
(* K is GF(2^64) in the code.  Every nonzero element is a power of the     *)
(* generator g, and the only thing addresses ever do is multiply, so an    *)
(* element of K is written here by its exponent: i in 0..Ord-1 stands for  *)
(* g^i, and Zero (= Ord) for the element 0.  Ord is the order of g,        *)
(* 2^64 - 1 in the code.  Addition is given by the Zech logarithm of g:     *)
(* Zech[n + 1] names the element 1 + g^n.  E = K[y]/(y^3 + y + 1) is a     *)
(* triple of elements of K, its limbs.                                     *)
(***************************************************************************)
EXTENDS Integers

CONSTANTS
  Ord,    \* the order of the generator g
  Zech    \* 1 + g^n for n = 0, 1, ..., Ord - 1

Zero == Ord
One  == 0
K    == 0..Ord
E    == K \X K \X K

ASSUME OrdAssumption == Ord \in Nat \ {0}

ASSUME ZechAssumption == Zech \in [1..Ord -> K]

(* Exponent addressing: logical index i is the address g^i.  Past the      *)
(* order of g the powers repeat.                                           *)
gpow(i) == i % Ord

KMul(a, b) == IF a = Zero \/ b = Zero THEN Zero ELSE (a + b) % Ord

KAdd(a, b) ==
  CASE a = Zero -> b
    [] b = Zero -> a
    [] OTHER    -> KMul(a, Zech[((b - a) % Ord) + 1])

(* Addition is commutative and associative and every element is its own    *)
(* opposite; that the product distributes over it is in KAdd.  One is      *)
(* enough for the third operand, the others follow by a multiplication.    *)
ASSUME FieldAssumption ==
  \A a, b \in K :
    /\ KAdd(a, b) = KAdd(b, a) /\ KAdd(a, a) = Zero
    /\ KAdd(KAdd(One, a), b) = KAdd(One, KAdd(a, b))

(* Limb i of a word is its coefficient of y^i; ofK embeds K as limb 0.     *)
Limb(x, i) == x[i + 1]
ofLimbs(c0, c1, c2) == <<c0, c1, c2>>
ofK(a) == ofLimbs(a, Zero, Zero)

IsInK(x)          == Limb(x, 1) = Zero /\ Limb(x, 2) = Zero
IsCanonical128(x) == Limb(x, 2) = Zero

EAdd(x, z) == [i \in 1..3 |-> KAdd(x[i], z[i])]

(* The product of two words, the twelve limb products folded by            *)
(* y^3 = y + 1 and y^4 = y^2 + y.                                          *)
EMul(x, z) ==
  LET p(i, j) == KMul(Limb(x, i), Limb(z, j))
      y3      == KAdd(p(1, 2), p(2, 1))
  IN  ofLimbs(KAdd(p(0, 0), y3),
              KAdd(KAdd(p(0, 1), p(1, 0)), KAdd(y3, p(2, 2))),
              KAdd(KAdd(p(0, 2), p(2, 0)), KAdd(p(1, 1), p(2, 2))))

=============================================================================
