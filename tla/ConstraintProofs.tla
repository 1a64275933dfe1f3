--------------------------- MODULE ConstraintProofs ---------------------------
(***************************************************************************)
(* Facts of the constraint system alone, for every field, program, image   *)
(* and row: what balance gives a lookup (Lemma 6.3), what an entry tells   *)
(* of its instruction, and that a row with its cells and its instruction   *)
(* is a step.  The reader of traces and the builder of witnesses both rest *)
(* on them.                                                                *)
(***************************************************************************)
EXTENDS ConstraintSystem, TLAPS, FiniteSetTheorems, SequenceTheorems,
        WellFoundedInduction

-----------------------------------------------------------------------------
(* A nonempty set of naturals has a least element.                         *)
LessThan == {ss \in Nat \X Nat : ss[1] < ss[2]}

(* Well-foundedness, put as a minimum.                                     *)
LEMMA LeastExists ==
  ASSUME NEW S \in SUBSET Nat, S # {}
  PROVE  \E i \in S : \A j \in S : i <= j
<1>1. OpToRel(<, Nat) = LessThan
  BY DEF OpToRel, LessThan
<1>2. IsWellFoundedOn(LessThan, Nat)
  BY ONLY <1>1, NatLessThanWellFounded
<1>3. PICK i \in S : \A j \in S : <<j, i>> \notin LessThan
  BY <1>2, WFMin
<1>4. \A j \in S : ~(j < i)
  BY <1>3 DEF LessThan
<1> QED
  BY <1>4

(* The exponents below the order, and the product by g.                    *)
LEMMA BelowOrder ==
  /\ \A i \in 0..Ord - 1 : gpow(i) = i
  /\ \A c \in 0..Ord - 1 : KMul(gpow(1), c) = IF c + 1 < Ord THEN c + 1 ELSE 0
<1>1. \A i \in 0..Ord - 1 : i % Ord = i
  BY OrdAssumption
<1>2. Ord % Ord = 0
  BY OrdAssumption
<1>3. ASSUME NEW c \in 0..Ord - 1
      PROVE  KMul(gpow(1), c) = IF c + 1 < Ord THEN c + 1 ELSE 0
  <2>1. CASE Ord = 1
    <3>1. gpow(1) = 0 /\ c = 0
      BY <2>1, <1>2, <1>3 DEF gpow
    <3> QED
      BY <2>1, <3>1, <1>1 DEF KMul, Zero
  <2>2. CASE Ord > 1
    <3>1. gpow(1) = 1
      BY <1>1, <2>2, OrdAssumption DEF gpow
    <3>2. KMul(gpow(1), c) = (1 + c) % Ord
      BY <2>2, <3>1, <1>3, OrdAssumption DEF KMul, Zero
    <3>3. CASE c + 1 < Ord
      BY <1>1, <3>2, <3>3, <1>3, OrdAssumption
    <3>4. CASE c + 1 = Ord
      BY <1>2, <3>2, <3>4, <1>3, OrdAssumption
    <3> QED
      BY <3>3, <3>4, <1>3, OrdAssumption
  <2> QED
    BY <2>1, <2>2, OrdAssumption
<1> QED
  BY <1>1, <1>3 DEF gpow

(* A set of counts that holds with a count its product by g holds every    *)
(* power of g.                                                             *)
LEMMA ClosedUnderGIsAll ==
  ASSUME NEW C \in SUBSET (0..Ord - 1), C # {},
         \A c \in C : KMul(gpow(1), c) \in C
  PROVE  C = 0..Ord - 1
<1>1. \A c \in C : (IF c + 1 < Ord THEN c + 1 ELSE 0) \in C
  BY BelowOrder
<1>2. ASSUME NEW i \in 0..Ord - 1, i \in C, NEW m \in 0..Ord - 1, m \notin C, m > i
      PROVE  FALSE
  <2> DEFINE S == {k \in Nat : k > i /\ k < Ord /\ k \notin C}
  <2>1. m \in S
    BY <1>2, OrdAssumption
  <2>2. S \in SUBSET Nat /\ S # {}
    BY <2>1
  <2>3. PICK k \in S : \A j \in S : k <= j
    BY <2>2, LeastExists
  <2>4. k - 1 \in C
    BY <2>3, <1>2, OrdAssumption
  <2> QED
    BY <1>1, <2>3, <2>4, OrdAssumption
<1>3. PICK c \in C : TRUE
  OBVIOUS
<1>4. c \in 0..Ord - 1
  BY <1>3
<1>5. Ord - 1 \in C
  BY <1>2, <1>4, <1>3, OrdAssumption
<1>6. 0 \in C
  BY <1>1, <1>5, OrdAssumption
<1>7. \A m \in 0..Ord - 1 : m \in C
  BY <1>2, <1>6, OrdAssumption
<1> QED
  BY <1>7

(* Balance: what one family of a finite set of places has, so has the      *)
(* other.                                                                  *)
LEMMA BalancedHasAll ==
  ASSUME NEW D, IsFiniteSet(D), NEW F, NEW G, DOMAIN F = D, DOMAIN G = D,
         Perm(F, G), NEW x \in D
  PROVE  /\ \E y \in D : G[y] = F[x]
         /\ \E y \in D : F[y] = G[x]
<1>1. ASSUME NEW m, m \in {F[y] : y \in D} \cup {G[y] : y \in D}
      PROVE  {y \in D : F[y] = m} = {} <=> {y \in D : G[y] = m} = {}
  <2> DEFINE A == {y \in D : F[y] = m}
             B == {y \in D : G[y] = m}
  <2>1. IsFiniteSet(A) /\ IsFiniteSet(B)
    BY FS_Subset
  <2>2. Cardinality(A) = Cardinality(B)
    BY <1>1 DEF Perm, Occurrences
  <2> HIDE DEF A, B
  <2>3. A = {} <=> B = {}
    BY <2>1, <2>2, FS_EmptySet
  <2> QED
    BY <2>3 DEF A, B
<1> QED
  BY <1>1

(* A lookup: reads R over the places B of a block, pulled as G and pushed  *)
(* as F, with counts that are not 0, and fewer reads than g has powers.    *)
Lookup(R, B, F, G) ==
  /\ IsFiniteSet(R) /\ Cardinality(R) <= MaxReads
  /\ IsFiniteSet(B) /\ R \cap B = {}
  /\ DOMAIN F = R \cup B /\ DOMAIN G = R \cup B /\ Perm(F, G)
  /\ \A x \in R : /\ F[x].addr = G[x].addr /\ F[x].val = G[x].val
                   /\ F[x].count = KMul(gpow(1), G[x].count)
                   /\ G[x].count \in K \ {Zero}
  /\ \A b \in B : G[b].addr = F[b].addr /\ G[b].val = F[b].val

(* Lemma 6.3.  Every read of a lookup finds a row of the block with its    *)
(* address and its value: the counts of the reads that find none would be  *)
(* all the powers of g.                                                    *)
LEMMA NoForgedReads ==
  ASSUME NEW R, NEW B, NEW F, NEW G, Lookup(R, B, F, G), NEW x \in R
  PROVE  \E b \in B : F[b].addr = G[x].addr /\ F[b].val = G[x].val
<1> USE DEF Lookup
<1> SUFFICES ASSUME \A b \in B : ~(F[b].addr = G[x].addr /\ F[b].val = G[x].val)
             PROVE  FALSE
  OBVIOUS
<1> DEFINE Same == {y \in R : G[y].addr = G[x].addr /\ G[y].val = G[x].val}
           C    == {G[y].count : y \in Same}
<1>1. C \in SUBSET (0..Ord - 1) /\ C # {}
  BY OrdAssumption DEF K, Zero
<1>2. ASSUME NEW c \in C PROVE KMul(gpow(1), c) \in C
  <2>1. PICK y \in Same : G[y].count = c
    BY <1>2
  <2>2. IsFiniteSet(R \cup B)
    BY FS_Union
  <2>3. PICK z \in R \cup B : G[z] = F[y]
    BY <2>1, <2>2, BalancedHasAll
  <2>4. G[z].addr = G[x].addr /\ G[z].val = G[x].val /\ G[z].count = KMul(gpow(1), c)
    BY <2>1, <2>3
  <2>5. z \in Same
    BY <2>4
  <2> QED
    BY <2>4, <2>5
<1>3. C = 0..Ord - 1
  <2> HIDE DEF C
  <2> QED
    BY <1>1, <1>2, ClosedUnderGIsAll
<1>4. IsFiniteSet(Same) /\ Cardinality(Same) <= Cardinality(R)
  BY FS_Subset
<1>5. Cardinality(C) <= Cardinality(Same)
  <2> DEFINE f == [y \in Same |-> G[y].count]
  <2>1. f \in Surjection(Same, C)
    BY DEF Surjection
  <2> HIDE DEF Same, C, f
  <2> QED
    BY <2>1, <1>4, FS_Surjection
<1>6. Cardinality(C) = Ord
  <2>1. Cardinality(0..Ord - 1) = Ord
    BY FS_Interval, OrdAssumption
  <2> HIDE DEF C
  <2> QED
    BY <1>3, <2>1
<1>7. Cardinality(Same) \in Nat /\ Cardinality(R) \in Nat
  BY <1>4, FS_CardinalityType
<1> QED
  BY <1>4, <1>5, <1>6, <1>7, CapsAssumption, OrdAssumption

(* A block has finitely many places.                                       *)
LEMMA BlockPlacesFinite ==
  ASSUME NEW size \in Nat
  PROVE  IsFiniteSet(BlockPlaces(size))
<1>1. IsFiniteSet(0..size - 1)
  BY FS_Interval
<1>2. IsFiniteSet({0} \X (0..size - 1))
  BY <1>1, FS_Singleton, FS_Product
<1>3. BlockPlaces(size) \in SUBSET ({0} \X (0..size - 1))
  BY DEF BlockPlaces
<1> QED
  BY <1>2, <1>3, FS_Subset

-----------------------------------------------------------------------------
(* The field, as far as the rows use it.                                   *)
LEMMA FieldTypes ==
  /\ Zero \in K /\ One \in K /\ One # Zero
  /\ \A a, b \in K : KMul(a, b) \in K /\ KAdd(a, b) \in K
<1>1. \A i \in Int : i % Ord \in 0..Ord - 1
  BY OrdAssumption
<1>2. \A a, b \in K : KMul(a, b) \in K
  BY <1>1, OrdAssumption DEF KMul, K, Zero
<1>3. \A a, b \in K : ((b - a) % Ord) + 1 \in 1..Ord
  BY <1>1, OrdAssumption DEF K
<1>4. \A a, b \in K : KAdd(a, b) \in K
  BY <1>2, <1>3, ZechAssumption DEF KAdd
<1> QED
  BY <1>2, <1>4, OrdAssumption DEF Zero, One, K

(* The powers of g are in the field.                                       *)
LEMMA PowersInK == \A i \in Nat : gpow(i) \in K
BY OrdAssumption DEF gpow, K

(* What Zero and One do in sums and products.                              *)
LEMMA FieldUnits ==
  ASSUME NEW a \in K
  PROVE  /\ KAdd(a, Zero) = a /\ KAdd(Zero, a) = a /\ KAdd(a, a) = Zero
         /\ KMul(a, Zero) = Zero /\ KMul(Zero, a) = Zero
         /\ KMul(One, a) = a
<1>1. a # Zero => (0 + a) % Ord = a
  BY OrdAssumption DEF K, Zero
<1> QED
  BY <1>1, FieldAssumption, OrdAssumption DEF KAdd, KMul, One, Zero

(* A product is zero only if a factor is.                                  *)
LEMMA NoZeroDivisors ==
  ASSUME NEW a \in K, NEW b \in K, KMul(a, b) = Zero
  PROVE  a = Zero \/ b = Zero
<1>1. (a + b) % Ord \in 0..Ord - 1
  BY OrdAssumption DEF K
<1> QED
  BY <1>1, OrdAssumption DEF KMul, Zero

(* The indicator of a taken JUMP is One.                                   *)
LEMMA OneIsItsOwnOpposite ==
  ASSUME NEW b \in K, KAdd(b, One) = Zero
  PROVE  b = One
<1>1. KAdd(KAdd(One, One), b) = KAdd(One, KAdd(One, b))
  BY FieldTypes, FieldAssumption
<1>2. KAdd(One, b) = Zero /\ KAdd(One, One) = Zero
  BY FieldTypes, FieldAssumption
<1> QED
  BY <1>1, <1>2, FieldTypes, FieldUnits

(* Exponents modulo the order.                                             *)
LEMMA Exponents ==
  ASSUME NEW a \in 0..Ord - 1, NEW b \in 0..Ord - 1
  PROVE  /\ (a + b) % Ord = IF a + b < Ord THEN a + b ELSE a + b - Ord
         /\ (b - a) % Ord = IF a <= b THEN b - a ELSE b - a + Ord
         /\ (a + b) % Ord \in 0..Ord - 1 /\ (b - a) % Ord \in 0..Ord - 1
         /\ (a + ((b - a) % Ord)) % Ord = b
         /\ (((a + b) % Ord) - a) % Ord = b
<1>1. \A x \in 0..Ord - 1 : x % Ord = x /\ (x + Ord) % Ord = x /\ (x - Ord) % Ord = x
  BY OrdAssumption
<1>2. (a + b) % Ord = IF a + b < Ord THEN a + b ELSE a + b - Ord
  BY <1>1, OrdAssumption
<1>3. (b - a) % Ord = IF a <= b THEN b - a ELSE b - a + Ord
  BY <1>1, OrdAssumption
<1>4. (a + b) % Ord \in 0..Ord - 1 /\ (b - a) % Ord \in 0..Ord - 1
  BY <1>2, <1>3, OrdAssumption
<1>5. (a + ((b - a) % Ord)) % Ord = b
  BY <1>1, <1>3, OrdAssumption
<1>6. (((a + b) % Ord) - a) % Ord = b
  BY <1>1, <1>2, OrdAssumption
<1> QED
  BY <1>2, <1>3, <1>4, <1>5, <1>6

(* An element added twice is gone.                                         *)
LEMMA AddedTwice ==
  ASSUME NEW v \in K, NEW n \in K
  PROVE  KAdd(KAdd(v, n), n) = v
<1>1. CASE n = Zero
  BY <1>1, FieldUnits
<1>2. CASE v = Zero
  BY <1>2, FieldUnits
<1>3. CASE n # Zero /\ v # Zero
  <2> DEFINE d == (v - n) % Ord
             e == Zech[d + 1]
  <2>1. n \in 0..Ord - 1 /\ v \in 0..Ord - 1
    BY <1>3, OrdAssumption DEF K, Zero
  <2>2. d \in 0..Ord - 1 /\ (n + d) % Ord = v
    BY <2>1, Exponents
  <2>3. e \in K
    BY <2>2, ZechAssumption, OrdAssumption
  <2>4. KAdd(v, n) = KAdd(n, v) /\ KAdd(n, v) = KMul(n, e)
    BY <1>3, FieldAssumption DEF KAdd
  <2>5. KAdd(One, d) = e
    <3>1. d \in K /\ d # Zero /\ (d - One) % Ord = d
      BY <2>2, OrdAssumption DEF K, Zero, One
    <3>2. KAdd(One, d) = KMul(One, e)
      BY <3>1, FieldTypes DEF KAdd
    <3> QED
      BY <2>3, <3>2, FieldUnits
  <2>6. KAdd(One, e) = d
    <3>1. d \in K
      BY <2>2, OrdAssumption DEF K
    <3>2. KAdd(KAdd(One, One), d) = KAdd(One, KAdd(One, d))
      BY <3>1, FieldTypes, FieldAssumption
    <3>3. KAdd(One, One) = Zero
      BY FieldTypes, FieldUnits
    <3> QED
      BY <2>5, <3>1, <3>2, <3>3, FieldUnits
  <2>7. CASE e = Zero
    <3>1. d = One
      BY <2>6, <2>7, FieldTypes, FieldUnits
    <3>2. v = n
      BY <2>1, <2>2, <3>1, OrdAssumption DEF One
    <3> QED
      BY <3>2, FieldUnits
  <2>8. CASE e # Zero
    <3> DEFINE t == (n + e) % Ord
    <3>1. e \in 0..Ord - 1
      BY <2>3, <2>8, OrdAssumption DEF K, Zero
    <3>2. t \in 0..Ord - 1 /\ (t - n) % Ord = e
      BY <2>1, <3>1, Exponents
    <3>3. KAdd(v, n) = t
      BY <1>3, <2>4, <2>8 DEF KMul
    <3>4. t \in K /\ t # Zero
      BY <3>2, OrdAssumption DEF K, Zero
    <3>5. KAdd(t, n) = KMul(n, Zech[e + 1])
      <4>1. KAdd(t, n) = KAdd(n, t)
        BY <3>4, FieldAssumption
      <4> HIDE DEF t, e
      <4> QED
        BY <1>3, <3>2, <3>4, <4>1 DEF KAdd
    <3>6. KAdd(One, e) = Zech[e + 1]
      <4>1. (e - One) % Ord = e
        BY <3>1, OrdAssumption DEF One
      <4>2. KAdd(One, e) = KMul(One, Zech[e + 1])
        BY <2>8, <4>1, FieldTypes DEF KAdd
      <4>3. Zech[e + 1] \in K
        BY <3>1, ZechAssumption, OrdAssumption
      <4> QED
        BY <4>2, <4>3, FieldUnits
    <3>7. KMul(n, d) = v
      BY <1>3, <2>2, OrdAssumption DEF KMul, Zero
    <3> QED
      BY <2>6, <3>3, <3>5, <3>6, <3>7
  <2> QED
    BY <2>7, <2>8
<1> QED
  BY <1>1, <1>2, <1>3

-----------------------------------------------------------------------------
(* The slots of an entry tell the operands from what follows them.         *)
SameSlots(s, u, t, v) ==
  /\ s \in Seq(K) /\ t \in Seq(K) /\ u \in Seq(K) /\ v \in Seq(K)
  /\ Len(s) = Len(t) /\ Len(u) = Len(v) /\ Len(s) + Len(u) <= 7
  /\ Pad(s \o u) = Pad(t \o v)

(* Two lists of the same lengths with the same slots are the same.         *)
LEMMA PadTells ==
  ASSUME NEW s, NEW u, NEW t, NEW v, SameSlots(s, u, t, v)
  PROVE  s = t /\ u = v
<1> USE DEF SameSlots
<1>1. \A j \in 1..Len(s) + Len(u) : (s \o u)[j] = (t \o v)[j]
  <2> SUFFICES ASSUME NEW j \in 1..Len(s) + Len(u) PROVE (s \o u)[j] = (t \o v)[j]
    OBVIOUS
  <2>1. j \in 1..7 /\ j <= Len(s \o u) /\ j <= Len(t \o v)
    OBVIOUS
  <2>2. Pad(s \o u)[j] = (s \o u)[j] /\ Pad(t \o v)[j] = (t \o v)[j]
    BY <2>1 DEF Pad
  <2> QED
    BY <2>2
<1>2. ASSUME NEW j \in 1..Len(s) PROVE s[j] = t[j]
  <2>1. (s \o u)[j] = s[j] /\ (t \o v)[j] = t[j]
    OBVIOUS
  <2> QED
    BY <1>1, <2>1
<1>3. ASSUME NEW j \in 1..Len(u) PROVE u[j] = v[j]
  <2>1. (s \o u)[Len(s) + j] = u[j] /\ (t \o v)[Len(s) + j] = v[j]
    OBVIOUS
  <2>2. Len(s) + j \in 1..Len(s) + Len(u)
    OBVIOUS
  <2> QED
    BY <1>1, <2>1, <2>2
<1> QED
  BY <1>2, <1>3, SeqEqual

(* Operands are a sequence of their number.                                *)
LEMMA OperandsAreSequences ==
  \A n \in Nat : \A o \in [1..n -> K] : o \in Seq(K) /\ Len(o) = n
OBVIOUS

(* A word is a sequence of three.                                          *)
LEMMA WordsAreSequences ==
  \A x \in E : x \in Seq(K) /\ Len(x) = 3
<1> SUFFICES ASSUME NEW x \in E PROVE x \in Seq(K) /\ Len(x) = 3
  OBVIOUS
<1>1. PICK a \in K, b \in K, c \in K : x = <<a, b, c>>
  BY DEF E
<1> QED
  BY <1>1

(* Flags are a sequence of two.                                            *)
LEMMA FlagsAreSequences ==
  \A mode \in {"cell", "pc", "fp"} : derefFlags(mode) \in Seq(K) /\ Len(derefFlags(mode)) = 2
BY FieldTypes DEF derefFlags

(* A row with the entry of an instruction has its operands, its constant   *)
(* and its store mode.                                                     *)
LEMMA EntryTells ==
  ASSUME NEW row, IsRow(row), NEW ins \in Instr, rowEntry(row) = entry(ins)
  PROVE  /\ row.op = ins.op /\ row.o = ins.o
         /\ ins.op = "setConstant" => row.v[1] = ins.k
         /\ ins.op = "deref" => row.aux = derefFlags(ins.mode)
<1>1. row.op = ins.op
  BY DEF rowEntry, entry
<1>2. rowEntry(row).slots = entry(ins).slots
  OBVIOUS
<1>3. row.o \in Seq(K) /\ Len(row.o) = Arity(row.op)
  BY OperandsAreSequences DEF IsRow, Arity
<1>4. <<>> \in Seq(K) /\ Len(<<>>) = 0
  OBVIOUS
<1>5. CASE ins.op = "setConstant"
  <2>1. row.v[1] \in E /\ Len(row.o) = 1
    BY <1>1, <1>3, <1>5 DEF IsRow, Words, Reads, Arity
  <2>2. ins.o \in Seq(K) /\ Len(ins.o) = 1 /\ ins.k \in E
    BY <1>5, OperandsAreSequences DEF Instr, Operands
  <2>3. Pad(row.o \o row.v[1]) = Pad(ins.o \o ins.k)
    BY <1>1, <1>2, <1>5 DEF rowEntry, entry
  <2>4. row.v[1] \in Seq(K) /\ ins.k \in Seq(K) /\ Len(row.v[1]) = 3 /\ Len(ins.k) = 3
    BY <2>1, <2>2, WordsAreSequences
  <2>5. SameSlots(row.o, row.v[1], ins.o, ins.k)
    BY <1>3, <2>1, <2>2, <2>3, <2>4 DEF SameSlots
  <2>6. row.o = ins.o /\ row.v[1] = ins.k
    BY <2>5, PadTells
  <2> QED
    BY <1>1, <1>5, <2>6
<1>6. CASE ins.op = "deref"
  <2>1. row.aux \in Seq(K) /\ Len(row.aux) = 2 /\ Len(row.o) = 3
    BY <1>1, <1>3, <1>6, OperandsAreSequences DEF IsRow, Aux, Arity
  <2>2. ins.o \in Seq(K) /\ Len(ins.o) = 3 /\ ins.mode \in {"cell", "pc", "fp"}
    BY <1>6, OperandsAreSequences DEF Instr, Operands
  <2>3. Pad(row.o \o row.aux) = Pad(ins.o \o derefFlags(ins.mode))
    BY <1>1, <1>2, <1>6 DEF rowEntry, entry
  <2>4. derefFlags(ins.mode) \in Seq(K) /\ Len(derefFlags(ins.mode)) = 2
    BY <2>2, FlagsAreSequences
  <2>5. SameSlots(row.o, row.aux, ins.o, derefFlags(ins.mode))
    BY <1>3, <2>1, <2>2, <2>3, <2>4 DEF SameSlots
  <2>6. row.o = ins.o /\ row.aux = derefFlags(ins.mode)
    BY <2>5, PadTells
  <2> QED
    BY <1>1, <1>6, <2>6
<1>7. CASE ins.op \notin {"setConstant", "deref"}
  <2>1. ins.o \in Seq(K) /\ Len(ins.o) = Arity(ins.op) /\ Arity(ins.op) \in {3, 7}
    BY <1>7, OperandsAreSequences DEF Instr, Operands, Arity
  <2>2. Pad(row.o \o <<>>) = Pad(ins.o \o <<>>)
    BY <1>1, <1>2, <1>7 DEF rowEntry, entry
  <2>3. SameSlots(row.o, <<>>, ins.o, <<>>)
    BY <1>1, <1>3, <1>4, <2>1, <2>2 DEF SameSlots
  <2>4. row.o = ins.o
    BY <2>3, PadTells
  <2> QED
    BY <1>1, <1>7, <2>4
<1> QED
  BY <1>5, <1>6, <1>7

-----------------------------------------------------------------------------
(* A row that has its instruction, and the image's word in every cell it   *)
(* reads.                                                                  *)
Supported(row, ins, L) ==
  /\ IsRow(row) /\ ins \in Instr /\ rowEntry(row) = entry(ins)
  /\ Residuals(row) /\ Blake2sRelation(row)
  /\ \A j \in 1..Reads(row.op) :
       read(L, readAddrs(row)[j]) = readWords(row)[j] /\ readWords(row)[j] \in E

(* The coordinates a DEREF row stores are the source its mode names.       *)
LEMMA StoreIsSource ==
  ASSUME NEW row, IsRow(row), row.op = "deref", NEW mode \in {"cell", "pc", "fp"},
         row.aux = derefFlags(mode)
  PROVE  storeCoords(row) = derefSource(mode, pull(row), row.v[2])
<1>1. row.pc \in K /\ row.fp \in K /\ row.v[2] \in E /\ gpow(2) \in K
  BY OrdAssumption DEF IsRow, Words, gpow, K
<1>2. PICK a \in K, b \in K, c \in K : row.v[2] = <<a, b, c>>
  BY <1>1 DEF E
<1>3. /\ row.aux[1] = (IF mode = "pc" THEN One ELSE Zero)
      /\ row.aux[2] = (IF mode = "fp" THEN One ELSE Zero)
  BY DEF derefFlags
<1>4. KMul(gpow(2), row.pc) \in K
  BY <1>1, FieldTypes
<1>5. KAdd(KAdd(One, row.aux[1]), row.aux[2]) = IF mode = "cell" THEN One ELSE Zero
  BY <1>3, FieldTypes, FieldUnits
<1> DEFINE x == KMul(gpow(2), row.pc)
<1>6. CASE mode = "cell"
  BY <1>1, <1>2, <1>3, <1>4, <1>5, <1>6, FieldTypes, FieldUnits DEF storeCoords, derefSource, ofLimbs, Limb
<1>7. CASE mode = "pc"
  BY <1>1, <1>2, <1>3, <1>4, <1>5, <1>7, FieldTypes, FieldUnits DEF storeCoords, derefSource, ofLimbs, Limb, ofK, pull
<1>8. CASE mode = "fp"
  BY <1>1, <1>2, <1>3, <1>4, <1>5, <1>8, FieldTypes, FieldUnits DEF storeCoords, derefSource, ofLimbs, Limb, ofK, pull
<1> QED
  BY <1>6, <1>7, <1>8

(* JUMP's residuals make its indicator the truth of its condition, so that *)
(* the selector pushes the state the instruction goes to.                  *)
LEMMA JumpPushes ==
  ASSUME NEW row, IsRow(row), row.op = "jump", Residuals(row)
  PROVE  push(row) = IF Limb(row.v[1], 0) # Zero
                       THEN [pc |-> Limb(row.v[2], 0), fp |-> Limb(row.v[3], 0)]
                       ELSE NextRegs(pull(row))
<1> DEFINE c == Limb(row.v[1], 0)
           w == row.aux[1]
           b == row.aux[2]
           pc2 == Limb(row.v[2], 0)
           fp2 == Limb(row.v[3], 0)
           next == KMul(gpow(1), row.pc)
<1>1. row.v \in [1..3 -> E] /\ w \in K /\ b \in K /\ row.pc \in K /\ row.fp \in K
  BY DEF IsRow, Words, Reads, Aux
<1>2. c \in K /\ pc2 \in K /\ fp2 \in K
  BY <1>1 DEF Limb, E
<1>3. next \in K
  BY <1>1, FieldTypes, PowersInK
<1>4. KAdd(b, KMul(c, w)) = Zero /\ KMul(c, KAdd(b, One)) = Zero
  BY DEF Residuals
<1>5. push(row) = [pc |-> Selected(b, pc2, next), fp |-> Selected(b, fp2, row.fp)]
  BY DEF push, jumpPush
<1>6. CASE c = Zero
  <2>1. b = Zero
    BY <1>1, <1>4, <1>6, FieldUnits
  <2>2. \A v, n \in K : Selected(b, v, n) = n
    BY <2>1, FieldTypes, FieldUnits DEF Selected
  <2>3. push(row) = [pc |-> next, fp |-> row.fp]
    BY <1>1, <1>2, <1>3, <1>5, <2>2
  <2> QED
    BY <1>6, <2>3 DEF NextRegs, pull
<1>7. CASE c # Zero
  <2>1. KAdd(b, One) \in K
    BY <1>1, FieldTypes
  <2>2. KAdd(b, One) = Zero
    BY <1>2, <1>4, <1>7, <2>1, NoZeroDivisors
  <2>3. b = One
    BY <1>1, <2>2, OneIsItsOwnOpposite
  <2>4. \A v, n \in K : Selected(b, v, n) = v
    BY <2>3, FieldUnits, AddedTwice DEF Selected
  <2>5. push(row) = [pc |-> pc2, fp |-> fp2]
    BY <1>1, <1>2, <1>3, <1>5, <2>4
  <2> QED
    BY <1>7, <2>5
<1> QED
  BY <1>6, <1>7

(* So a supported row is a step of the machine: the relation of its        *)
(* instruction holds, and it goes where the row pushes.                    *)
LEMMA SupportedIsStep ==
  ASSUME NEW row, NEW ins, NEW L, Supported(row, ins, L)
  PROVE  executeWith(reader(L), pull(row), ins) = push(row)
<1> DEFINE rd == reader(L)
           regs == pull(row)
<1>1. /\ row.op = ins.op /\ row.o = ins.o
      /\ ins.op = "setConstant" => row.v[1] = ins.k
      /\ ins.op = "deref" => row.aux = derefFlags(ins.mode)
  BY EntryTells DEF Supported
<1>2. IsRow(row) /\ ins \in Instr
  BY DEF Supported
<1>3. Addresses(regs, ins) = Addresses(regs, row)
  BY <1>1 DEF Addresses
<1>4. /\ DOMAIN ins.o = 1..Arity(ins.op) /\ \A j \in DOMAIN ins.o : ins.o[j] \in K
      /\ regs.pc \in K /\ regs.fp \in K /\ regs.pc = row.pc /\ regs.fp = row.fp
  BY <1>1, <1>2 DEF IsRow, pull
<1>5. \A j \in DOMAIN ins.o : /\ Addresses(regs, ins)[j] = KMul(regs.fp, ins.o[j])
                              /\ KMul(regs.fp, ins.o[j]) \in K
  BY <1>4, FieldTypes DEF Addresses
<1>6. \A a \in K : rd[a] = read(L, a)
  BY DEF reader
<1>7. ASSUME NEW j \in 1..Reads(ins.op), readAddrs(row)[j] \in K
      PROVE  rd[readAddrs(row)[j]] = readWords(row)[j] /\ readWords(row)[j] # NoWord
  BY <1>1, <1>6, <1>7, NoWordAssumption DEF Supported
<1>8. ins # NoInstr
  BY <1>2, NoInstrAssumption
<1>9. ins.op \in Opcodes
  BY <1>1, <1>2 DEF IsRow
<1>10. CASE ins.op \in {"xor", "mulNative"}
  <2>1. DOMAIN ins.o = 1..3 /\ 1..Reads(ins.op) = 1..3
    BY <1>4, <1>10 DEF Arity, Reads
  <2>2. \A j \in 1..3 : readAddrs(row)[j] = Addresses(regs, ins)[j]
    BY <1>1, <1>3, <1>10 DEF readAddrs
  <2>3. \A j \in 1..3 : rd[Addresses(regs, ins)[j]] = readWords(row)[j] /\ readWords(row)[j] # NoWord
    BY <1>5, <1>7, <2>1, <2>2
  <2>4. CASE ins.op = "xor"
    <3>1. readWords(row)[3] = EAdd(readWords(row)[1], readWords(row)[2])
      BY <1>1, <2>4 DEF readWords
    <3> QED
      BY <1>1, <1>8, <2>1, <2>3, <2>4, <3>1 DEF executeWith, Holds, After, push
  <2>5. CASE ins.op = "mulNative"
    <3>1. readWords(row)[3] = EMul(readWords(row)[1], readWords(row)[2])
      BY <1>1, <2>5 DEF readWords
    <3> QED
      BY <1>1, <1>8, <2>1, <2>3, <2>5, <3>1 DEF executeWith, Holds, After, push
  <2> QED
    BY <1>10, <2>4, <2>5
<1>11. CASE ins.op = "setConstant"
  <2>1. DOMAIN ins.o = 1..1 /\ 1..Reads(ins.op) = 1..1
    BY <1>4, <1>11 DEF Arity, Reads
  <2>2. readAddrs(row)[1] = Addresses(regs, ins)[1] /\ readWords(row)[1] = ins.k
    BY <1>1, <1>3, <1>11 DEF readAddrs, readWords
  <2>3. rd[Addresses(regs, ins)[1]] = ins.k /\ ins.k # NoWord
    BY <1>5, <1>7, <2>1, <2>2
  <2> QED
    BY <1>1, <1>8, <1>11, <2>1, <2>3 DEF executeWith, Holds, After, push
<1>12. CASE ins.op = "deref"
  <2>1. DOMAIN ins.o = 1..3 /\ 1..Reads(ins.op) = 1..3
    BY <1>4, <1>12 DEF Arity, Reads
  <2>2. row.v[1] \in E /\ IsInK(row.v[1]) /\ ins.mode \in {"cell", "pc", "fp"}
    BY <1>1, <1>2, <1>12 DEF IsRow, Words, Instr
  <2>3. /\ readAddrs(row)[1] = Addresses(regs, ins)[1]
        /\ readAddrs(row)[2] = KMul(Limb(row.v[1], 0), ins.o[2])
        /\ readAddrs(row)[3] = Addresses(regs, ins)[3]
        /\ readWords(row)[1] = row.v[1] /\ readWords(row)[2] = storeCoords(row)
        /\ readWords(row)[3] = row.v[2]
    BY <1>1, <1>3, <1>12 DEF readAddrs, readWords
  <2>4. readAddrs(row)[2] \in K
    <3>1. Limb(row.v[1], 0) \in K
      BY <2>2 DEF Limb, E
    <3>2. ins.o \in [1..3 -> K]
      BY <1>1, <1>2, <1>12 DEF IsRow, Arity
    <3> QED
      BY <2>3, <3>1, <3>2, FieldTypes
  <2>5. /\ rd[Addresses(regs, ins)[1]] = row.v[1] /\ row.v[1] # NoWord
        /\ rd[KMul(Limb(row.v[1], 0), ins.o[2])] = storeCoords(row) /\ storeCoords(row) # NoWord
        /\ rd[Addresses(regs, ins)[3]] = row.v[2] /\ row.v[2] # NoWord
    BY <1>5, <1>7, <2>1, <2>3, <2>4
  <2>6. storeCoords(row) = derefSource(ins.mode, regs, row.v[2])
    BY <1>1, <1>2, <1>12, <2>2, StoreIsSource
  <2> QED
    BY <1>1, <1>8, <1>12, <2>1, <2>2, <2>5, <2>6 DEF executeWith, Holds, After, push
<1>13. CASE ins.op = "jump"
  <2>1. DOMAIN ins.o = 1..3 /\ 1..Reads(ins.op) = 1..3
    BY <1>4, <1>13 DEF Arity, Reads
  <2>2. \A j \in 1..3 : /\ readAddrs(row)[j] = Addresses(regs, ins)[j] /\ readWords(row)[j] = row.v[j]
                         /\ IsInK(row.v[j])
    BY <1>1, <1>2, <1>3, <1>13 DEF readAddrs, readWords, IsRow
  <2>3. \A j \in 1..3 : rd[Addresses(regs, ins)[j]] = row.v[j] /\ row.v[j] # NoWord
    BY <1>5, <1>7, <2>1, <2>2
  <2>4. Holds(rd, regs, ins)
    BY <1>13, <2>1, <2>2, <2>3 DEF Holds
  <2>5. \A j \in 1..3 : rd[KMul(regs.fp, ins.o[j])] = row.v[j]
    BY <1>5, <2>1, <2>3
  <2>6. After(rd, regs, ins) = IF Limb(row.v[1], 0) # Zero
                                 THEN [pc |-> Limb(row.v[2], 0), fp |-> Limb(row.v[3], 0)]
                                 ELSE NextRegs(regs)
    BY <1>13, <2>5 DEF After
  <2>7. After(rd, regs, ins) = push(row)
    BY <1>1, <1>2, <1>13, <2>6, JumpPushes DEF Supported
  <2> QED
    BY <1>8, <2>4, <2>7 DEF executeWith
<1>14. CASE ins.op = "blake2s"
  <2>1. DOMAIN ins.o = 1..7 /\ 1..Reads(ins.op) = 1..9
    BY <1>4, <1>14 DEF Arity, Reads
  <2>2. Blake2sAddresses(regs, ins) = Blake2sAddresses(regs, row)
    BY <1>3 DEF Blake2sAddresses
  <2>3. \A j \in 1..9 : /\ readAddrs(row)[j] = Blake2sAddresses(regs, ins)[j]
                         /\ readWords(row)[j] = row.v[j]
    BY <1>1, <1>14, <2>2 DEF readAddrs, readWords
  <2>4. \A j \in 1..9 : Blake2sAddresses(regs, ins)[j] \in K
    BY <1>5, <2>1, FieldTypes, PowersInK DEF Blake2sAddresses
  <2>5. \A j \in 1..9 : rd[Blake2sAddresses(regs, ins)[j]] = row.v[j] /\ row.v[j] # NoWord
    BY <1>7, <2>1, <2>3, <2>4
  <2>6. row.v \in [1..9 -> E]
    BY <1>1, <1>2, <1>14 DEF IsRow, Words, Reads
  <2>7. [j \in 1..9 |-> rd[Blake2sAddresses(regs, ins)[j]]] = row.v
    BY <2>5, <2>6
  <2>8. CompressCells(SubSeq(row.v, 1, 4), <<row.v[5], row.v[6]>>, <<row.v[7], row.v[8]>>, row.v[9])
    BY <1>1, <1>14 DEF Supported, Blake2sRelation
  <2>9. Holds(rd, regs, ins)
    BY <1>14, <2>5, <2>7, <2>8 DEF Holds
  <2> QED
    BY <1>1, <1>8, <1>14, <2>9 DEF executeWith, After, push
<1> QED
  BY <1>9, <1>10, <1>11, <1>12, <1>13, <1>14 DEF Opcodes

-----------------------------------------------------------------------------
(* A read that succeeds gives a word of the image, and the word the rows   *)
(* read back.                                                              *)
LEMMA ReadTyped ==
  ASSUME NEW L, IsImage(L), NEW a
  PROVE  /\ HasIndex(L.size, a) <=> read(L, a) # NoWord
         /\ HasIndex(L.size, a) => read(L, a) \in E /\ limbsAt(L, a) = read(L, a)
                                   /\ gLog(L.size, a) \in 0..L.size - 1 /\ gpow(gLog(L.size, a)) = a
<1>1. HasIndex(L.size, a) => gLog(L.size, a) \in 0..L.size - 1 /\ gpow(gLog(L.size, a)) = a
  BY DEF HasIndex, gLog
<1>2. HasIndex(L.size, a) => read(L, a) \in E
  BY <1>1 DEF read, IsImage
<1> QED
  BY <1>1, <1>2, NoWordAssumption DEF read, limbsAt

(* The honest inverse.                                                     *)
LEMMA InverseOfK ==
  ASSUME NEW a \in K
  PROVE  /\ KInv(a) \in K
         /\ a # Zero => KMul(a, KInv(a)) = One
<1>1. CASE a = Zero
  BY <1>1, FieldTypes DEF KInv
<1>2. CASE a # Zero
  <2>1. a \in 0..Ord - 1
    BY <1>2, OrdAssumption DEF K, Zero
  <2>2. \A x \in 0..Ord - 1 : x % Ord = x
    BY OrdAssumption
  <2>3. Ord % Ord = 0
    BY OrdAssumption
  <2>4. (Ord - a) % Ord \in 0..Ord - 1 /\ (a + ((Ord - a) % Ord)) % Ord = 0
    BY <2>1, <2>2, <2>3, OrdAssumption
  <2> QED
    BY <1>2, <2>4, OrdAssumption DEF KInv, KMul, K, Zero, One
<1> QED
  BY <1>1, <1>2

(* What the builder knows of a row it writes: an instruction whose         *)
(* relation holds of the image, and counts for its reads.                  *)
Honest(L, regs, ins, cnt, rbc) ==
  /\ IsImage(L) /\ regs \in Regs /\ ins \in Instr /\ Holds(reader(L), regs, ins)
  /\ cnt \in [1..Reads(ins.op) -> K] /\ rbc \in K

(* The shape of an instruction by its opcode.                              *)
LEMMA InstrShape ==
  ASSUME NEW ins \in Instr
  PROVE  /\ ins.op \in Opcodes
         /\ ins.o \in [1..Arity(ins.op) -> K] /\ DOMAIN ins.o = 1..Arity(ins.op)
         /\ ins.op = "setConstant" => ins.k \in E
         /\ ins.op = "deref" => ins.mode \in {"cell", "pc", "fp"}
BY DEF Instr, Operands, Opcodes, Arity

(* The fields of the row written.                                          *)
LEMMA RowFields ==
  ASSUME NEW L, NEW regs \in Regs, NEW ins, NEW cnt, NEW rbc
  PROVE  LET row == rowOf(L, regs, ins, cnt, rbc)
         IN  /\ row = [op |-> row.op, pc |-> row.pc, fp |-> row.fp, o |-> row.o,
                       v  |-> row.v, aux |-> row.aux, r |-> row.r, rbc |-> row.rbc]
             /\ row.op = ins.op /\ row.pc = regs.pc /\ row.fp = regs.fp /\ row.o = ins.o
             /\ row.v = rowWords(L, regs, ins) /\ row.aux = rowAux(L, regs, ins)
             /\ row.r = cnt /\ row.rbc = rbc /\ pull(row) = regs
             /\ Addresses(pull(row), row) = Addresses(regs, ins)
             /\ Blake2sAddresses(pull(row), row) = Blake2sAddresses(regs, ins)
<1> DEFINE row == rowOf(L, regs, ins, cnt, rbc)
<1>1. /\ row = [op |-> row.op, pc |-> row.pc, fp |-> row.fp, o |-> row.o,
                v  |-> row.v, aux |-> row.aux, r |-> row.r, rbc |-> row.rbc]
      /\ row.op = ins.op /\ row.pc = regs.pc /\ row.fp = regs.fp /\ row.o = ins.o
      /\ row.v = rowWords(L, regs, ins) /\ row.aux = rowAux(L, regs, ins)
      /\ row.r = cnt /\ row.rbc = rbc
  BY DEF rowOf
<1>2. pull(row) = regs
  BY <1>1 DEF pull, Regs
<1>3. Addresses(pull(row), row) = Addresses(regs, ins)
  BY <1>1, <1>2 DEF Addresses
<1> HIDE DEF row
<1>4. Blake2sAddresses(pull(row), row) = Blake2sAddresses(regs, ins)
  BY <1>3 DEF Blake2sAddresses
<1> QED
  BY <1>1, <1>2, <1>3, <1>4 DEF row

(* The addresses of operands, and what is read there.                      *)
LEMMA OperandReads ==
  ASSUME NEW L, NEW regs, NEW ins, NEW cnt, NEW rbc, Honest(L, regs, ins, cnt, rbc)
  PROVE  \A j \in 1..Arity(ins.op) :
           /\ Addresses(regs, ins)[j] \in K /\ Addresses(regs, ins)[j] = KMul(regs.fp, ins.o[j])
           /\ reader(L)[Addresses(regs, ins)[j]] = read(L, Addresses(regs, ins)[j])
<1>1. regs.fp \in K
  BY DEF Honest, Regs
<1>2. ins.o \in [1..Arity(ins.op) -> K]
  BY InstrShape DEF Honest
<1>3. \A j \in 1..Arity(ins.op) :
        Addresses(regs, ins)[j] \in K /\ Addresses(regs, ins)[j] = KMul(regs.fp, ins.o[j])
  BY <1>1, <1>2, FieldTypes DEF Addresses
<1> QED
  BY <1>3 DEF reader

(* What distinguishes the rows of the six tables.                          *)
WellWritten(row, ins, L) ==
  /\ row.v \in [1..Words(ins.op) -> E] /\ row.aux \in [1..Aux(ins.op) -> K]
  /\ ins.op = "deref" => IsInK(row.v[1])
  /\ ins.op = "jump" => \A j \in 1..3 : IsInK(row.v[j])
  /\ ins.op = "blake2s" => \A j \in 1..9 : IsCanonical128(row.v[j])
  /\ Residuals(row) /\ Blake2sRelation(row) /\ rowEntry(row) = entry(ins)
  /\ \A j \in 1..Reads(ins.op) :
       /\ readAddrs(row)[j] \in K
       /\ read(L, readAddrs(row)[j]) = readWords(row)[j] /\ readWords(row)[j] \in E

(* XOR, MUL_NATIVE: the third word is the sum or product of the others.    *)
LEMMA SumRow ==
  ASSUME NEW L, NEW regs, NEW ins, NEW cnt, NEW rbc, Honest(L, regs, ins, cnt, rbc),
         ins.op \in {"xor", "mulNative"}
  PROVE  WellWritten(rowOf(L, regs, ins, cnt, rbc), ins, L)
<1> DEFINE row == rowOf(L, regs, ins, cnt, rbc)
           a == Addresses(regs, ins)
           w == [j \in DOMAIN ins.o |-> reader(L)[a[j]]]
<1>1. regs \in Regs /\ ins \in Instr /\ IsImage(L) /\ Holds(reader(L), regs, ins)
  BY DEF Honest
<1>2. /\ row.op = ins.op /\ row.o = ins.o /\ row.v = rowWords(L, regs, ins) /\ row.aux = rowAux(L, regs, ins)
      /\ Addresses(pull(row), row) = a
  BY <1>1, RowFields
<1>3. DOMAIN ins.o = 1..3 /\ Arity(ins.op) = 3 /\ Reads(ins.op) = 3 /\ Words(ins.op) = 2 /\ Aux(ins.op) = 0
  BY <1>1, InstrShape DEF Arity, Reads, Words, Aux
<1>4. \A j \in 1..3 : a[j] \in K /\ w[j] = read(L, a[j])
  BY <1>3, OperandReads
<1>5. /\ \A j \in 1..3 : w[j] # NoWord
      /\ w[3] = IF ins.op = "xor" THEN EAdd(w[1], w[2]) ELSE EMul(w[1], w[2])
  <2>1. CASE ins.op = "xor"
    BY <1>1, <1>3, <2>1 DEF Holds
  <2>2. CASE ins.op = "mulNative"
    BY <1>1, <1>3, <2>2 DEF Holds
  <2> QED
    BY <2>1, <2>2
<1> HIDE DEF row, w, a
<1>6. \A j \in 1..3 : read(L, a[j]) = w[j] /\ w[j] \in E /\ limbsAt(L, a[j]) = w[j]
  BY <1>1, <1>4, <1>5, ReadTyped
<1>7. row.v = <<w[1], w[2]>>
  BY <1>2, <1>6 DEF rowWords, a
<1>8. row.aux = <<>>
  BY <1>2 DEF rowAux
<1>9. readWords(row) = <<w[1], w[2], w[3]>>
  BY <1>2, <1>5, <1>7 DEF readWords
<1>10. readAddrs(row) = a
  BY <1>2 DEF readAddrs
<1>11. rowEntry(row) = entry(ins)
  BY <1>2 DEF rowEntry, entry
<1>12. Residuals(row) /\ Blake2sRelation(row)
  BY <1>2 DEF Residuals, Blake2sRelation
<1>13. row.v \in [1..2 -> E] /\ row.aux \in [1..0 -> K]
  BY <1>6, <1>7, <1>8
<1> QED
  BY <1>3, <1>4, <1>6, <1>9, <1>10, <1>11, <1>12, <1>13 DEF WellWritten, row

(* SET_CONSTANT: its word is the constant.                                 *)
LEMMA SetRow ==
  ASSUME NEW L, NEW regs, NEW ins, NEW cnt, NEW rbc, Honest(L, regs, ins, cnt, rbc),
         ins.op = "setConstant"
  PROVE  WellWritten(rowOf(L, regs, ins, cnt, rbc), ins, L)
<1> DEFINE row == rowOf(L, regs, ins, cnt, rbc)
           a == Addresses(regs, ins)
<1>1. regs \in Regs /\ ins \in Instr /\ IsImage(L) /\ Holds(reader(L), regs, ins)
  BY DEF Honest
<1>2. /\ row.op = ins.op /\ row.o = ins.o /\ row.v = rowWords(L, regs, ins) /\ row.aux = rowAux(L, regs, ins)
      /\ Addresses(pull(row), row) = a
  BY <1>1, RowFields
<1>3. DOMAIN ins.o = 1..1 /\ Arity(ins.op) = 1 /\ Reads(ins.op) = 1 /\ Words(ins.op) = 1 /\ Aux(ins.op) = 0
      /\ ins.k \in E
  BY <1>1, InstrShape DEF Arity, Reads, Words, Aux
<1>4. a[1] \in K /\ reader(L)[a[1]] = read(L, a[1])
  BY <1>3, OperandReads
<1>5. reader(L)[a[1]] = ins.k
  BY <1>1, <1>3 DEF Holds
<1> HIDE DEF row, a
<1>6. row.v = <<ins.k>>
  BY <1>2 DEF rowWords
<1>7. row.aux = <<>>
  BY <1>2 DEF rowAux
<1>8. readWords(row) = <<ins.k>> /\ readAddrs(row) = a
  BY <1>2, <1>6 DEF readWords, readAddrs
<1>9. rowEntry(row) = entry(ins)
  BY <1>2, <1>6 DEF rowEntry, entry
<1>10. Residuals(row) /\ Blake2sRelation(row)
  BY <1>2 DEF Residuals, Blake2sRelation
<1>11. row.v \in [1..1 -> E] /\ row.aux \in [1..0 -> K]
  BY <1>3, <1>6, <1>7
<1>12. \A j \in 1..1 : /\ readAddrs(row)[j] \in K
                       /\ read(L, readAddrs(row)[j]) = readWords(row)[j] /\ readWords(row)[j] \in E
  <2>1. \A j \in 1..1 : j = 1
    OBVIOUS
  <2>2. readWords(row)[1] = ins.k /\ readAddrs(row)[1] = a[1]
    BY <1>8
  <2> QED
    BY <1>3, <1>4, <1>5, <2>1, <2>2
<1> QED
  BY <1>3, <1>9, <1>10, <1>11, <1>12 DEF WellWritten, row

(* DEREF: the pointer is its low limb, and the word stored is the one      *)
(* found there.                                                            *)
LEMMA DerefRow ==
  ASSUME NEW L, NEW regs, NEW ins, NEW cnt, NEW rbc, Honest(L, regs, ins, cnt, rbc),
         ins.op = "deref"
  PROVE  WellWritten(rowOf(L, regs, ins, cnt, rbc), ins, L)
<1> DEFINE row == rowOf(L, regs, ins, cnt, rbc)
           a == Addresses(regs, ins)
           w == [j \in DOMAIN ins.o |-> reader(L)[a[j]]]
           b == KMul(Limb(w[1], 0), ins.o[2])
<1>1. regs \in Regs /\ ins \in Instr /\ IsImage(L) /\ Holds(reader(L), regs, ins)
      /\ cnt \in [1..Reads(ins.op) -> K] /\ rbc \in K
  BY DEF Honest
<1>2. /\ row.op = ins.op /\ row.o = ins.o /\ row.v = rowWords(L, regs, ins) /\ row.aux = rowAux(L, regs, ins)
      /\ row.pc = regs.pc /\ row.fp = regs.fp /\ row.r = cnt /\ row.rbc = rbc /\ pull(row) = regs
      /\ Addresses(pull(row), row) = a
      /\ row = [op |-> row.op, pc |-> row.pc, fp |-> row.fp, o |-> row.o,
                v  |-> row.v, aux |-> row.aux, r |-> row.r, rbc |-> row.rbc]
  BY <1>1, RowFields
<1>3. DOMAIN ins.o = 1..3 /\ Arity(ins.op) = 3 /\ Reads(ins.op) = 3 /\ Words(ins.op) = 2 /\ Aux(ins.op) = 2
      /\ ins.mode \in {"cell", "pc", "fp"} /\ ins.o \in [1..3 -> K]
  BY <1>1, InstrShape DEF Arity, Reads, Words, Aux
<1>4. \A j \in 1..3 : a[j] \in K /\ w[j] = read(L, a[j])
  BY <1>3, OperandReads
<1>5. /\ w[1] # NoWord /\ IsInK(w[1]) /\ w[3] # NoWord
      /\ reader(L)[b] # NoWord /\ reader(L)[b] = derefSource(ins.mode, regs, w[3])
  BY <1>1, <1>3 DEF Holds
<1> HIDE DEF row, w, a
<1>6. \A j \in {1, 3} : read(L, a[j]) = w[j] /\ w[j] \in E /\ limbsAt(L, a[j]) = w[j]
  BY <1>1, <1>4, <1>5, ReadTyped
<1>7. b \in K /\ reader(L)[b] = read(L, b) /\ read(L, b) \in E
  <2>1. Limb(w[1], 0) \in K
    BY <1>6 DEF E, Limb
  <2>2. b \in K
    BY <1>3, <2>1, FieldTypes
  <2>3. reader(L)[b] = read(L, b)
    BY <2>2 DEF reader
  <2> QED
    BY <1>1, <1>5, <2>2, <2>3, ReadTyped
<1>8. ofK(Limb(w[1], 0)) = w[1]
  <2>1. PICK x \in K, y \in K, z \in K : w[1] = <<x, y, z>>
    BY <1>6 DEF E
  <2> QED
    BY <1>5, <2>1 DEF IsInK, Limb, ofK, ofLimbs
<1>9. row.v = <<w[1], w[3]>>
  BY <1>2, <1>6, <1>8 DEF rowWords, low, a
<1>10. row.aux = derefFlags(ins.mode)
  BY <1>2 DEF rowAux
<1>11. row.aux \in [1..2 -> K]
  BY <1>3, <1>10, FieldTypes DEF derefFlags
<1>12. row.v \in [1..2 -> E]
  BY <1>6, <1>9
<1>13. IsRow(row)
  <2>1. row.pc \in K /\ row.fp \in K
    BY <1>1, <1>2 DEF Regs
  <2>2. row.op \in Opcodes /\ row.o \in [1..Arity(row.op) -> K] /\ row.r \in [1..Reads(row.op) -> K] /\ row.rbc \in K
    BY <1>1, <1>2, <1>3 DEF Opcodes
  <2>3. row.v \in [1..Words(row.op) -> E] /\ row.aux \in [1..Aux(row.op) -> K] /\ IsInK(row.v[1])
    BY <1>2, <1>3, <1>5, <1>9, <1>11, <1>12
  <2>4. row.op = "deref"
    BY <1>2
  <2> QED
    BY <1>2, <2>1, <2>2, <2>3, <2>4 DEF IsRow
<1>14. storeCoords(row) = derefSource(ins.mode, regs, w[3])
  <2>1. storeCoords(row) = derefSource(ins.mode, pull(row), row.v[2])
    BY <1>2, <1>3, <1>10, <1>13, StoreIsSource
  <2> QED
    BY <1>2, <1>9, <2>1
<1>15. readWords(row) = <<w[1], read(L, b), w[3]>>
  <2>1. storeCoords(row) = read(L, b)
    BY <1>5, <1>7, <1>14
  <2>2. row.op = "deref" /\ row.v[1] = w[1] /\ row.v[2] = w[3]
    BY <1>2, <1>9
  <2> QED
    BY <2>1, <2>2 DEF readWords
<1>16. readAddrs(row) = <<a[1], b, a[3]>>
  BY <1>2, <1>9 DEF readAddrs
<1>17. rowEntry(row) = entry(ins)
  BY <1>2, <1>10 DEF rowEntry, entry
<1>18. Residuals(row) /\ Blake2sRelation(row)
  BY <1>2 DEF Residuals, Blake2sRelation
<1>19. \A j \in 1..3 :
         /\ readAddrs(row)[j] \in K
         /\ read(L, readAddrs(row)[j]) = readWords(row)[j] /\ readWords(row)[j] \in E
  <2> HIDE DEF b
  <2>1. \A j \in 1..3 : j = 1 \/ j = 2 \/ j = 3
    OBVIOUS
  <2> QED
    BY <1>4, <1>6, <1>7, <1>15, <1>16, <2>1
<1>20. IsInK(row.v[1])
  BY <1>5, <1>9
<1> QED
  BY <1>3, <1>11, <1>12, <1>17, <1>18, <1>19, <1>20 DEF WellWritten, row

(* JUMP: the words are in K, and the honest inverse and indicator satisfy  *)
(* both residuals.                                                         *)
LEMMA JumpRow ==
  ASSUME NEW L, NEW regs, NEW ins, NEW cnt, NEW rbc, Honest(L, regs, ins, cnt, rbc),
         ins.op = "jump"
  PROVE  WellWritten(rowOf(L, regs, ins, cnt, rbc), ins, L)
<1> DEFINE row == rowOf(L, regs, ins, cnt, rbc)
           a == Addresses(regs, ins)
           w == [j \in DOMAIN ins.o |-> reader(L)[a[j]]]
           c == Limb(w[1], 0)
<1>1. regs \in Regs /\ ins \in Instr /\ IsImage(L) /\ Holds(reader(L), regs, ins)
  BY DEF Honest
<1>2. /\ row.op = ins.op /\ row.o = ins.o /\ row.v = rowWords(L, regs, ins) /\ row.aux = rowAux(L, regs, ins)
      /\ Addresses(pull(row), row) = a
  BY <1>1, RowFields
<1>3. DOMAIN ins.o = 1..3 /\ Arity(ins.op) = 3 /\ Reads(ins.op) = 3 /\ Words(ins.op) = 3 /\ Aux(ins.op) = 2
  BY <1>1, InstrShape DEF Arity, Reads, Words, Aux
<1>4. \A j \in 1..3 : a[j] \in K /\ w[j] = read(L, a[j])
  BY <1>3, OperandReads
<1>5. \A j \in 1..3 : w[j] # NoWord /\ IsInK(w[j])
  BY <1>1, <1>3 DEF Holds
<1> HIDE DEF row, w, a
<1>6. \A j \in 1..3 : read(L, a[j]) = w[j] /\ w[j] \in E /\ limbsAt(L, a[j]) = w[j]
  BY <1>1, <1>4, <1>5, ReadTyped
<1>7. \A x \in E : IsInK(x) => ofK(Limb(x, 0)) = x
  <2> SUFFICES ASSUME NEW x \in E, IsInK(x) PROVE ofK(Limb(x, 0)) = x
    OBVIOUS
  <2>1. PICK p \in K, q \in K, t \in K : x = <<p, q, t>>
    BY DEF E
  <2> QED
    BY <2>1 DEF IsInK, Limb, ofK, ofLimbs
<1>8. row.v = [j \in 1..3 |-> w[j]]
  <2>1. row.v = [j \in 1..3 |-> low(L, a[j])]
    BY <1>2 DEF rowWords, a
  <2>2. \A j \in 1..3 : low(L, a[j]) = w[j]
    BY <1>5, <1>6, <1>7 DEF low
  <2> QED
    BY <2>1, <2>2
<1>9. row.aux = <<KInv(c), IF c = Zero THEN Zero ELSE One>>
  <2>1. limbsAt(L, a[1]) = w[1]
    BY <1>6
  <2> QED
    BY <1>2, <2>1 DEF rowAux, a
<1>10. c \in K
  BY <1>6 DEF E, Limb
<1>11. row.aux \in [1..2 -> K]
  BY <1>9, <1>10, InverseOfK, FieldTypes
<1>12. Limb(row.v[1], 0) = c
  BY <1>8
<1> HIDE DEF c
<1>13. Residuals(row)
  <2>1. row.aux[1] = KInv(c) /\ row.aux[2] = IF c = Zero THEN Zero ELSE One
    BY <1>9
  <2>2. CASE c = Zero
    <3>1. row.aux[2] = Zero /\ KInv(c) \in K
      BY <1>10, <2>1, <2>2, InverseOfK
    <3>2. KAdd(Zero, KMul(Zero, KInv(c))) = Zero /\ KMul(Zero, KAdd(Zero, One)) = Zero
      BY <3>1, FieldTypes, FieldUnits
    <3> QED
      BY <1>12, <2>1, <2>2, <3>1, <3>2 DEF Residuals
  <2>3. CASE c # Zero
    <3>1. row.aux[2] = One /\ KMul(c, KInv(c)) = One
      BY <1>10, <2>1, <2>3, InverseOfK
    <3>2. KAdd(One, One) = Zero /\ KMul(c, Zero) = Zero
      BY <1>10, FieldTypes, FieldUnits
    <3> QED
      BY <1>12, <2>1, <3>1, <3>2 DEF Residuals
  <2> QED
    BY <2>2, <2>3
<1>14. readWords(row) = row.v /\ readAddrs(row) = a
  BY <1>1, <1>2 DEF readWords, readAddrs
<1>15. rowEntry(row) = entry(ins)
  BY <1>2 DEF rowEntry, entry
<1>16. Blake2sRelation(row)
  BY <1>2 DEF Blake2sRelation
<1>17. \A j \in 1..3 : row.v[j] = w[j]
  BY <1>8
<1>18. row.v \in [1..3 -> E]
  BY <1>6, <1>8
<1> QED
  BY <1>3, <1>4, <1>5, <1>6, <1>11, <1>13, <1>14, <1>15, <1>16, <1>17, <1>18 DEF WellWritten, row

(* BLAKE2S: nine canonical cells, the compression among them.              *)
LEMMA Blake2sRow ==
  ASSUME NEW L, NEW regs, NEW ins, NEW cnt, NEW rbc, Honest(L, regs, ins, cnt, rbc),
         ins.op = "blake2s"
  PROVE  WellWritten(rowOf(L, regs, ins, cnt, rbc), ins, L)
<1> DEFINE row == rowOf(L, regs, ins, cnt, rbc)
           a == Addresses(regs, ins)
           b == Blake2sAddresses(regs, ins)
           c == [j \in 1..9 |-> reader(L)[b[j]]]
           two(x) == ofLimbs(Limb(limbsAt(L, x), 0), Limb(limbsAt(L, x), 1), Zero)
<1>1. regs \in Regs /\ ins \in Instr /\ IsImage(L) /\ Holds(reader(L), regs, ins)
  BY DEF Honest
<1>2. /\ row.op = ins.op /\ row.o = ins.o /\ row.v = rowWords(L, regs, ins) /\ row.aux = rowAux(L, regs, ins)
      /\ Blake2sAddresses(pull(row), row) = b
  BY <1>1, RowFields
<1>3. DOMAIN ins.o = 1..7 /\ Arity(ins.op) = 7 /\ Reads(ins.op) = 9 /\ Words(ins.op) = 9 /\ Aux(ins.op) = 0
  BY <1>1, InstrShape DEF Arity, Reads, Words, Aux
<1>4. \A j \in 1..9 : b[j] \in K
  <2>1. \A j \in 1..7 : a[j] \in K
    BY <1>3, OperandReads
  <2>2. gpow(1) \in K
    BY PowersInK
  <2> HIDE DEF a
  <2>3. KMul(gpow(1), a[5]) \in K /\ KMul(gpow(1), a[6]) \in K
    BY <2>1, <2>2, FieldTypes
  <2>4. b = <<a[1], a[2], a[3], a[4], a[5], KMul(gpow(1), a[5]), a[6], KMul(gpow(1), a[6]), a[7]>>
    BY DEF Blake2sAddresses, a
  <2> QED
    BY <2>1, <2>3, <2>4
<1>5. \A j \in 1..9 : c[j] = read(L, b[j])
  BY <1>4 DEF reader
<1>6. /\ \A j \in 1..9 : c[j] # NoWord
      /\ CompressCells(SubSeq(c, 1, 4), <<c[5], c[6]>>, <<c[7], c[8]>>, c[9])
  BY <1>1 DEF Holds
<1> HIDE DEF row, a, b
<1>7. c \in [1..9 -> E] /\ \A j \in 1..9 : limbsAt(L, b[j]) = c[j]
  BY <1>1, <1>5, <1>6, ReadTyped
<1> HIDE DEF c
<1>8. \A j \in 1..9 : IsCanonical128(c[j])
  <2> DEFINE m == SubSeq(c, 1, 4)
  <2>1. \A x \in {m[i] : i \in 1..4} \cup {c[5], c[6], c[7], c[8], c[9]} : IsCanonical128(x)
    BY <1>6 DEF CompressCells
  <2>2. \A i \in 1..4 : m[i] = c[i]
    BY <1>7
  <2> HIDE DEF m
  <2>3. \A i \in 1..4 : IsCanonical128(c[i])
    BY <2>1, <2>2
  <2>4. \A j \in 1..9 : j \in 1..4 \/ j = 5 \/ j = 6 \/ j = 7 \/ j = 8 \/ j = 9
    OBVIOUS
  <2> QED
    BY <2>1, <2>3, <2>4
<1>9. \A x \in E : IsCanonical128(x) => ofLimbs(Limb(x, 0), Limb(x, 1), Zero) = x
  <2> SUFFICES ASSUME NEW x \in E, IsCanonical128(x) PROVE ofLimbs(Limb(x, 0), Limb(x, 1), Zero) = x
    OBVIOUS
  <2>1. PICK p \in K, q \in K, t \in K : x = <<p, q, t>>
    BY DEF E
  <2> QED
    BY <2>1 DEF IsCanonical128, Limb, ofLimbs
<1>10. row.v = c
  <2>1. row.v = [j \in 1..9 |-> two(b[j])]
    BY <1>2 DEF rowWords, b
  <2>2. \A j \in 1..9 : two(b[j]) = c[j]
    BY <1>7, <1>8, <1>9
  <2> HIDE DEF two
  <2> QED
    BY <1>7, <2>1, <2>2
<1>11. row.aux = <<>>
  BY <1>2 DEF rowAux
<1>12. readWords(row) = row.v /\ readAddrs(row) = b
  BY <1>1, <1>2 DEF readWords, readAddrs
<1>13. rowEntry(row) = entry(ins)
  BY <1>2 DEF rowEntry, entry
<1>14. Residuals(row)
  BY <1>2 DEF Residuals
<1>15. Blake2sRelation(row)
  BY <1>6, <1>10 DEF Blake2sRelation
<1>16. row.aux \in [1..0 -> K]
  BY <1>11
<1> QED
  BY <1>2, <1>3, <1>4, <1>5, <1>7, <1>8, <1>10, <1>12, <1>13, <1>14, <1>15, <1>16 DEF WellWritten, row

(* The row the builder writes has its instruction, and the image's word in *)
(* every cell it reads.                                                    *)
LEMMA HonestIsSupported ==
  ASSUME NEW L, NEW regs, NEW ins, NEW cnt, NEW rbc, Honest(L, regs, ins, cnt, rbc)
  PROVE  LET row == rowOf(L, regs, ins, cnt, rbc)
         IN  /\ Supported(row, ins, L) /\ pull(row) = regs
             /\ \A j \in 1..Reads(ins.op) : readAddrs(row)[j] \in K /\ HasIndex(L.size, readAddrs(row)[j])
<1> DEFINE row == rowOf(L, regs, ins, cnt, rbc)
<1>1. /\ regs \in Regs /\ ins \in Instr /\ IsImage(L)
      /\ cnt \in [1..Reads(ins.op) -> K] /\ rbc \in K
  BY DEF Honest
<1>2. ins.op \in Opcodes
  BY <1>1, InstrShape
<1>3. WellWritten(row, ins, L)
  BY <1>2, SumRow, SetRow, DerefRow, JumpRow, Blake2sRow DEF Opcodes
<1>4. /\ row = [op |-> row.op, pc |-> row.pc, fp |-> row.fp, o |-> row.o,
                v  |-> row.v, aux |-> row.aux, r |-> row.r, rbc |-> row.rbc]
      /\ row.op = ins.op /\ row.pc = regs.pc /\ row.fp = regs.fp /\ row.o = ins.o
      /\ row.r = cnt /\ row.rbc = rbc /\ pull(row) = regs
  BY <1>1, RowFields
<1> HIDE DEF row
<1>5. row.pc \in K /\ row.fp \in K /\ row.o \in [1..Arity(row.op) -> K]
  BY <1>1, <1>4, InstrShape DEF Regs
<1>6. IsRow(row)
  BY <1>1, <1>2, <1>3, <1>4, <1>5 DEF IsRow, WellWritten
<1>7. Supported(row, ins, L)
  BY <1>1, <1>3, <1>4, <1>6 DEF Supported, WellWritten
<1>8. \A j \in 1..Reads(ins.op) : readAddrs(row)[j] \in K /\ HasIndex(L.size, readAddrs(row)[j])
  BY <1>1, <1>3, ReadTyped, NoWordAssumption DEF WellWritten
<1> QED
  BY <1>4, <1>7, <1>8 DEF row

-----------------------------------------------------------------------------
(* Families that balance.  What is counted in a family does not depend on  *)
(* how its places are named.                                               *)
Renames(f, S, T, F, G) ==
  /\ IsFiniteSet(S) /\ f \in Bijection(S, T) /\ DOMAIN F = S /\ DOMAIN G = T
  /\ \A x \in S : F[x] = G[f[x]]

(* A message occurs as often in a family as in the family renamed.         *)
LEMMA SameOccurrences ==
  ASSUME NEW f, NEW S, NEW T, NEW F, NEW G, Renames(f, S, T, F, G), NEW m
  PROVE  Occurrences(F, m) = Occurrences(G, m)
<1> DEFINE A == {x \in S : F[x] = m}
           B == {y \in T : G[y] = m}
           g == [x \in A |-> f[x]]
<1>1. /\ f \in [S -> T] /\ \A x, y \in S : f[x] = f[y] => x = y
      /\ \A y \in T : \E x \in S : f[x] = y
  BY DEF Renames, Bijection, Injection, Surjection, IsInjective
<1>2. g \in [A -> B] /\ (\A x, y \in A : g[x] = g[y] => x = y) /\ \A y \in B : \E x \in A : g[x] = y
  BY <1>1 DEF Renames
<1>3. g \in Bijection(A, B)
  <2> HIDE DEF g, A, B
  <2> QED
    BY <1>2 DEF Bijection, Injection, Surjection, IsInjective
<1>4. IsFiniteSet(A)
  BY FS_Subset DEF Renames
<1>5. Cardinality(A) = Cardinality(B)
  <2> HIDE DEF g, A, B
  <2>1. ExistsBijection(A, B)
    BY <1>3 DEF ExistsBijection
  <2> QED
    BY <1>4, <2>1, FS_Bijection
<1> QED
  BY <1>5 DEF Renames, Occurrences

(* A family balances with the same under other names.                      *)
LEMMA PermRenamed ==
  ASSUME NEW f, NEW S, NEW T, NEW F, NEW G, Renames(f, S, T, F, G)
  PROVE  Perm(F, G)
BY SameOccurrences DEF Perm

(* Two families that balance do so whatever the order of their places.     *)
LEMMA PermAnyOrder ==
  ASSUME NEW f, NEW S, NEW T, NEW F1, NEW G1, NEW F, NEW G,
         Renames(f, S, T, F1, F), Renames(f, S, T, G1, G), Perm(F, G)
  PROVE  Perm(F1, G1)
<1>1. f \in [S -> T]
  BY DEF Renames, Bijection, Injection
<1>2. SUFFICES ASSUME NEW m \in {F1[x] : x \in DOMAIN F1} \cup {G1[x] : x \in DOMAIN G1}
               PROVE  Occurrences(F1, m) = Occurrences(G1, m)
  BY DEF Perm
<1>3. m \in {F[x] : x \in DOMAIN F} \cup {G[x] : x \in DOMAIN G}
  BY <1>1, <1>2 DEF Renames
<1>4. Occurrences(F, m) = Occurrences(G, m)
  BY <1>3 DEF Perm
<1>5. Occurrences(F1, m) = Occurrences(F, m) /\ Occurrences(G1, m) = Occurrences(G, m)
  BY SameOccurrences
<1> QED
  BY <1>4, <1>5

(* Families without repetitions balance when they have the same messages.  *)
Distinct(F) == \A x, y \in DOMAIN F : F[x] = F[y] => x = y

(* Messages sent once each and received once each balance.                 *)
LEMMA PermOfDistinct ==
  ASSUME NEW F, NEW G, Distinct(F), Distinct(G),
         \A x \in DOMAIN F : \E y \in DOMAIN G : G[y] = F[x],
         \A y \in DOMAIN G : \E x \in DOMAIN F : F[x] = G[y]
  PROVE  Perm(F, G)
<1> SUFFICES ASSUME NEW m \in {F[x] : x \in DOMAIN F} \cup {G[x] : x \in DOMAIN G}
             PROVE  Occurrences(F, m) = Occurrences(G, m)
  BY DEF Perm
<1>1. PICK x \in DOMAIN F : F[x] = m
  OBVIOUS
<1>2. PICK y \in DOMAIN G : G[y] = m
  OBVIOUS
<1>3. {z \in DOMAIN F : F[z] = m} = {x} /\ {z \in DOMAIN G : G[z] = m} = {y}
  BY <1>1, <1>2 DEF Distinct
<1>4. Cardinality({x}) = 1 /\ Cardinality({y}) = 1
  BY FS_Singleton
<1> QED
  BY <1>3, <1>4 DEF Occurrences

-----------------------------------------------------------------------------
(* Reads at the places P, numbered address by address: the reads of a      *)
(* carry each number below counter[a] once.                                *)
Numbered(P, addr, num, counter) ==
  /\ IsFiniteSet(P)
  /\ \A x \in P : addr[x] \in K /\ num[x] \in Nat /\ num[x] < counter[addr[x]]
  /\ \A x, y \in P : addr[x] = addr[y] /\ num[x] = num[y] => x = y
  /\ \A a \in K : counter[a] \in Nat
                  /\ \A e \in 0..counter[a] - 1 : \E x \in P : addr[x] = a /\ num[x] = e

(* No counter exceeds the number of reads.                                 *)
LEMMA CounterBound ==
  ASSUME NEW P, NEW addr, NEW num, NEW counter, Numbered(P, addr, num, counter), NEW a \in K
  PROVE  counter[a] \in Nat /\ counter[a] <= Cardinality(P) /\ Cardinality(P) \in Nat
<1> DEFINE S == 0..counter[a] - 1
           f == [e \in S |-> CHOOSE x \in P : addr[x] = a /\ num[x] = e]
<1>1. counter[a] \in Nat /\ \A e \in S : \E x \in P : addr[x] = a /\ num[x] = e
  BY DEF Numbered
<1>2. \A e \in S : f[e] \in P /\ num[f[e]] = e
  BY <1>1
<1>3. f \in Injection(S, P)
  <2>1. f \in [S -> P]
    BY <1>2
  <2> HIDE DEF f, S
  <2> QED
    BY <1>2, <2>1 DEF Injection, IsInjective
<1>4. IsFiniteSet(P)
  BY DEF Numbered
<1>5. Cardinality(S) <= Cardinality(P)
  <2> HIDE DEF f, S
  <2> QED
    BY <1>3, <1>4, FS_Injection
<1>6. Cardinality(S) = counter[a]
  BY <1>1, FS_Interval
<1> QED
  BY <1>1, <1>4, <1>5, <1>6, FS_CardinalityType

(* A lookup of numbered reads, each finding its word in a block of n rows, *)
(* whose finalize counts are what the counters hold.                       *)
Consistent(P, addr, val, n, cell) ==
  /\ n \in Nat /\ n <= Ord /\ P \cap BlockPlaces(n) = {}
  /\ \A x \in P : addr[x] \in 0..n - 1 /\ val[x] = cell[addr[x]]

Sent(P, addr, num, val, n, cell, counter, F, G) ==
  /\ DOMAIN F = P \cup BlockPlaces(n) /\ DOMAIN G = P \cup BlockPlaces(n)
  /\ \A x \in P : F[x] = Msg(addr[x], num[x] + 1, val[x]) /\ G[x] = Msg(addr[x], num[x], val[x])
  /\ \A i \in 0..n - 1 : F[<<0, i>>] = Msg(i, 0, cell[i]) /\ G[<<0, i>>] = Msg(i, counter[i], cell[i])

(* Such a lookup balances: both sides send, for each row of the block, the *)
(* counts from 0 to its counter, once each (chain_perm).                   *)
LEMMA NumberedBalances ==
  ASSUME NEW P, NEW addr, NEW num, NEW val, NEW n, NEW cell, NEW counter, NEW F, NEW G,
         Numbered(P, addr, num, counter), Consistent(P, addr, val, n, cell),
         Sent(P, addr, num, val, n, cell, counter, F, G)
  PROVE  Perm(F, G)
<1> DEFINE B == BlockPlaces(n)
<1>1. /\ \A b \in B : b[2] \in 0..n - 1 /\ b = <<0, b[2]>>
      /\ \A i \in 0..n - 1 : <<0, i>> \in B
  BY DEF BlockPlaces
<1>2. /\ n \in Nat /\ n <= Ord /\ P \cap B = {} /\ DOMAIN F = P \cup B /\ DOMAIN G = P \cup B
      /\ \A x \in P : addr[x] \in 0..n - 1 /\ val[x] = cell[addr[x]]
  BY DEF Consistent, Sent
<1>3. /\ \A x \in P : F[x] = Msg(addr[x], num[x] + 1, cell[addr[x]]) /\ G[x] = Msg(addr[x], num[x], cell[addr[x]])
      /\ \A b \in B : F[b] = Msg(b[2], 0, cell[b[2]]) /\ G[b] = Msg(b[2], counter[b[2]], cell[b[2]])
  BY <1>1, <1>2 DEF Sent
<1>4. \A i \in 0..n - 1 : i \in K
  BY <1>2, OrdAssumption DEF K
<1>5. /\ \A x \in P : num[x] \in Nat /\ num[x] < counter[addr[x]]
      /\ \A x, y \in P : addr[x] = addr[y] /\ num[x] = num[y] => x = y
      /\ \A i \in 0..n - 1 : counter[i] \in Nat
                             /\ \A e \in 0..counter[i] - 1 : \E x \in P : addr[x] = i /\ num[x] = e
  BY <1>4 DEF Numbered
<1>6. \A a1, c1, v1, a2, c2, v2 : Msg(a1, c1, v1) = Msg(a2, c2, v2) => a1 = a2 /\ c1 = c2
  BY DEF Msg
<1> HIDE DEF B
<1>7. Distinct(F)
  <2> SUFFICES ASSUME NEW x \in P \cup B, NEW y \in P \cup B, F[x] = F[y] PROVE x = y
    BY <1>2 DEF Distinct
  <2>1. CASE x \in P /\ y \in P
    BY <1>3, <1>5, <1>6, <2>1
  <2>2. CASE x \in P /\ y \in B
    BY <1>3, <1>5, <1>6, <2>2
  <2>3. CASE x \in B /\ y \in P
    BY <1>3, <1>5, <1>6, <2>3
  <2>4. CASE x \in B /\ y \in B
    BY <1>1, <1>3, <1>6, <2>4
  <2> QED
    BY <2>1, <2>2, <2>3, <2>4
<1>8. Distinct(G)
  <2> SUFFICES ASSUME NEW x \in P \cup B, NEW y \in P \cup B, G[x] = G[y] PROVE x = y
    BY <1>2 DEF Distinct
  <2>1. CASE x \in P /\ y \in P
    BY <1>3, <1>5, <1>6, <2>1
  <2>2. CASE x \in P /\ y \in B
    BY <1>1, <1>3, <1>5, <1>6, <2>2
  <2>3. CASE x \in B /\ y \in P
    BY <1>1, <1>3, <1>5, <1>6, <2>3
  <2>4. CASE x \in B /\ y \in B
    BY <1>1, <1>3, <1>6, <2>4
  <2> QED
    BY <2>1, <2>2, <2>3, <2>4
<1>9. ASSUME NEW x \in P \cup B PROVE \E y \in P \cup B : G[y] = F[x]
  <2>1. PICK i \in 0..n - 1, c \in Nat : F[x] = Msg(i, c, cell[i]) /\ c <= counter[i]
    <3>1. CASE x \in P
      <4>1. num[x] + 1 \in Nat /\ num[x] + 1 <= counter[addr[x]]
        BY <1>2, <1>5, <3>1
      <4> QED
        BY <1>2, <1>3, <3>1, <4>1
    <3>2. CASE x \in B
      BY <1>1, <1>3, <1>5, <3>2
    <3> QED
      BY <3>1, <3>2
  <2>2. CASE c < counter[i]
    <3>1. PICK y \in P : addr[y] = i /\ num[y] = c
      BY <1>5, <2>2
    <3> QED
      BY <1>3, <2>1, <3>1
  <2>3. CASE c = counter[i]
    <3>1. <<0, i>> \in B /\ <<0, i>>[2] = i
      BY <1>1
    <3> QED
      BY <1>3, <2>1, <2>3, <3>1
  <2> QED
    BY <1>5, <2>1, <2>2, <2>3
<1>10. ASSUME NEW y \in P \cup B PROVE \E x \in P \cup B : F[x] = G[y]
  <2>1. PICK i \in 0..n - 1, c \in Nat : G[y] = Msg(i, c, cell[i]) /\ c <= counter[i]
    <3>1. CASE y \in P
      BY <1>2, <1>3, <1>5, <3>1
    <3>2. CASE y \in B
      BY <1>1, <1>3, <1>5, <3>2
    <3> QED
      BY <3>1, <3>2
  <2>2. CASE c = 0
    <3>1. <<0, i>> \in B /\ <<0, i>>[2] = i
      BY <1>1
    <3> QED
      BY <1>3, <2>1, <2>2, <3>1
  <2>3. CASE c > 0
    <3>1. c - 1 \in 0..counter[i] - 1
      BY <1>5, <2>1, <2>3
    <3>2. PICK x \in P : addr[x] = i /\ num[x] = c - 1
      BY <1>5, <3>1
    <3>3. num[x] + 1 = c
      BY <3>2
    <3> QED
      BY <1>3, <2>1, <3>2, <3>3
  <2> QED
    BY <2>1, <2>2, <2>3
<1> QED
  BY <1>2, <1>7, <1>8, <1>9, <1>10, PermOfDistinct

-----------------------------------------------------------------------------
(* A one-to-one map of a finite set into itself reaches every member.      *)
LEMMA OneToOneIsOnto ==
  ASSUME NEW S, IsFiniteSet(S), NEW f \in [S -> S],
         \A x, y \in S : f[x] = f[y] => x = y
  PROVE  f \in Bijection(S, S)
<1>1. f \in Injection(S, S)
  BY DEF Injection, IsInjective
<1>2. f \in Surjection(S, S)
  BY <1>1, FS_Injection
<1> QED
  BY <1>1, <1>2 DEF Bijection

-----------------------------------------------------------------------------
(* The order of the rows.  Two witnesses with the same blocks, and the     *)
(* same rows in another order.                                             *)
Reordered(w1, w2, N, sigma) ==
  /\ N \in Nat /\ sigma \in Bijection(1..N, 1..N)
  /\ w1.image = w2.image /\ w1.memFin = w2.memFin /\ w1.bcFin = w2.bcFin
  /\ DOMAIN w1.rows = 1..N /\ DOMAIN w2.rows = 1..N
  /\ \A n \in 1..N : w1.rows[n] = w2.rows[sigma[n]]

(* Places of rows in one order and in another, beside a block.             *)
Shuffled(sigma, D, R1, R2, B) ==
  /\ sigma \in Bijection(D, D)
  /\ \A x \in R1 : x = <<x[1], x[2]>> /\ x[1] \in D /\ <<sigma[x[1]], x[2]>> \in R2
  /\ \A y \in R2 : \A l \in D : sigma[l] = y[1] => <<l, y[2]>> \in R1
  /\ \A y \in R2 : y = <<y[1], y[2]>> /\ y[1] \in D
  /\ \A b \in B : b[1] \notin D

shuffle(sigma, R, B) == [x \in R \cup B |-> IF x \in B THEN x ELSE <<sigma[x[1]], x[2]>>]

(* They correspond.                                                        *)
LEMMA ShuffledPlaces ==
  ASSUME NEW sigma, NEW D, NEW R1, NEW R2, NEW B, Shuffled(sigma, D, R1, R2, B)
  PROVE  /\ shuffle(sigma, R1, B) \in Bijection(R1 \cup B, R2 \cup B)
         /\ R1 \cap B = {} /\ R2 \cap B = {}
<1> DEFINE f == shuffle(sigma, R1, B)
           S == R1 \cup B
           T == R2 \cup B
<1>1. /\ sigma \in [D -> D] /\ (\A x, y \in D : sigma[x] = sigma[y] => x = y)
      /\ \A y \in D : \E x \in D : sigma[x] = y
  BY DEF Shuffled, Bijection, Injection, Surjection, IsInjective
<1>2. /\ \A x \in R1 : x = <<x[1], x[2]>> /\ x[1] \in D /\ <<sigma[x[1]], x[2]>> \in R2
      /\ \A y \in R2 : \A l \in D : sigma[l] = y[1] => <<l, y[2]>> \in R1
      /\ \A y \in R2 : y = <<y[1], y[2]>> /\ y[1] \in D
      /\ \A b \in B : b[1] \notin D
  BY DEF Shuffled
<1>3. R1 \cap B = {} /\ R2 \cap B = {}
  BY <1>2
<1>4. \A x \in B : f[x] = x
  BY DEF shuffle
<1>5. \A x \in R1 : f[x] = <<sigma[x[1]], x[2]>> /\ f[x] \in R2
  BY <1>2, <1>3 DEF shuffle
<1>6. f \in [S -> T]
  <2>1. f = [x \in S |-> f[x]]
    BY DEF shuffle
  <2> HIDE DEF f
  <2> QED
    BY <1>4, <1>5, <2>1
<1> HIDE DEF f
<1>7. ASSUME NEW x \in S, NEW y \in S, f[x] = f[y] PROVE x = y
  <2>1. CASE x \in R1 /\ y \in R1
    <3>1. sigma[x[1]] = sigma[y[1]] /\ x[2] = y[2]
      BY <1>5, <1>7, <2>1
    <3>2. x[1] = y[1]
      BY <1>1, <1>2, <2>1, <3>1
    <3> QED
      BY <1>2, <2>1, <3>1, <3>2
  <2>2. CASE x \in R1 /\ y \in B
    BY <1>3, <1>4, <1>5, <1>7, <2>2
  <2>3. CASE x \in B /\ y \in R1
    BY <1>3, <1>4, <1>5, <1>7, <2>3
  <2>4. CASE x \in B /\ y \in B
    BY <1>4, <1>7, <2>4
  <2> QED
    BY <1>7, <2>1, <2>2, <2>3, <2>4
<1>8. ASSUME NEW y \in T PROVE \E x \in S : f[x] = y
  <2>1. CASE y \in B
    BY <1>4, <2>1
  <2>2. CASE y \in R2
    <3>1. PICK l \in D : sigma[l] = y[1]
      BY <1>1, <1>2, <2>2
    <3>2. <<l, y[2]>> \in R1
      BY <1>2, <2>2, <3>1
    <3>3. f[<<l, y[2]>>] = <<y[1], y[2]>>
      BY <1>5, <3>1, <3>2
    <3> QED
      BY <1>2, <2>2, <3>2, <3>3
  <2> QED
    BY <1>8, <2>1, <2>2
<1>9. f \in Bijection(S, T)
  BY <1>6, <1>7, <1>8 DEF Bijection, Injection, Surjection, IsInjective
<1> QED
  BY <1>3, <1>9 DEF f

(* The reads of rows.                                                      *)
LEMMA ReadPlacesListed ==
  \A w, x : x \in ReadPlaces(w) <=>
              \E l \in DOMAIN w.rows : \E k \in 1..Reads(w.rows[l].op) : x = <<l, k>>
BY DEF ReadPlaces

(* They are finitely many.                                                 *)
LEMMA ReadPlacesFinite ==
  ASSUME NEW w, NEW N \in Nat, DOMAIN w.rows = 1..N
  PROVE  IsFiniteSet(ReadPlaces(w))
<1>1. \A op : 1..Reads(op) \subseteq 1..9
  BY DEF Reads
<1>2. IsFiniteSet((1..N) \X (1..9))
  <2>1. \A n \in Nat : IsFiniteSet(1..n)
    BY FS_Interval
  <2>2. IsFiniteSet(1..N) /\ IsFiniteSet(1..9)
    BY <2>1
  <2> QED
    BY <2>2, FS_Product
<1>3. ReadPlaces(w) \in SUBSET ((1..N) \X (1..9))
  BY <1>1, ReadPlacesListed
<1> QED
  BY <1>2, <1>3, FS_Subset

(* Those of reordered rows, beside a block.                                *)
LEMMA ReorderedPlaces ==
  ASSUME NEW w1, NEW w2, NEW N, NEW sigma, Reordered(w1, w2, N, sigma), NEW size
  PROVE  /\ Shuffled(sigma, 1..N, ReadPlaces(w1), ReadPlaces(w2), BlockPlaces(size))
         /\ Shuffled(sigma, 1..N, {<<i, 1>> : i \in 1..N}, {<<i, 1>> : i \in 1..N}, BlockPlaces(size))
<1>1. /\ N \in Nat /\ DOMAIN w1.rows = 1..N /\ DOMAIN w2.rows = 1..N
      /\ \A n \in 1..N : w1.rows[n] = w2.rows[sigma[n]]
      /\ sigma \in Bijection(1..N, 1..N)
  BY DEF Reordered
<1>2. sigma \in [1..N -> 1..N]
  BY <1>1 DEF Bijection, Injection
<1>3. \A x : x \in ReadPlaces(w1) <=> \E l \in 1..N : \E k \in 1..Reads(w1.rows[l].op) : x = <<l, k>>
  BY <1>1, ReadPlacesListed
<1>4. \A x : x \in ReadPlaces(w2) <=> \E l \in 1..N : \E k \in 1..Reads(w2.rows[l].op) : x = <<l, k>>
  BY <1>1, ReadPlacesListed
<1>5. \A b \in BlockPlaces(size) : b[1] \notin 1..N
  BY <1>1 DEF BlockPlaces
<1>6. ASSUME NEW x \in ReadPlaces(w1)
      PROVE  x = <<x[1], x[2]>> /\ x[1] \in 1..N /\ <<sigma[x[1]], x[2]>> \in ReadPlaces(w2)
  <2>1. PICK l \in 1..N : \E k \in 1..Reads(w1.rows[l].op) : x = <<l, k>>
    BY <1>3, <1>6
  <2>2. PICK k \in 1..Reads(w1.rows[l].op) : x = <<l, k>>
    BY <2>1
  <2>3. sigma[l] \in 1..N /\ k \in 1..Reads(w2.rows[sigma[l]].op)
    BY <1>1, <1>2, <2>1, <2>2
  <2>4. <<sigma[l], k>> \in ReadPlaces(w2)
    BY <1>4, <2>3
  <2> QED
    BY <2>1, <2>2, <2>4
<1>7. ASSUME NEW y \in ReadPlaces(w2)
      PROVE  /\ y = <<y[1], y[2]>> /\ y[1] \in 1..N
             /\ \A l \in 1..N : sigma[l] = y[1] => <<l, y[2]>> \in ReadPlaces(w1)
  <2>1. PICK m \in 1..N : \E k \in 1..Reads(w2.rows[m].op) : y = <<m, k>>
    BY <1>4, <1>7
  <2>2. PICK k \in 1..Reads(w2.rows[m].op) : y = <<m, k>>
    BY <2>1
  <2>3. ASSUME NEW l \in 1..N, sigma[l] = y[1] PROVE <<l, y[2]>> \in ReadPlaces(w1)
    <3>1. w1.rows[l] = w2.rows[m] /\ y[2] = k
      BY <1>1, <2>2, <2>3
    <3>2. k \in 1..Reads(w1.rows[l].op)
      BY <2>2, <3>1
    <3> QED
      BY <1>3, <2>3, <3>1, <3>2
  <2> QED
    BY <2>1, <2>2, <2>3
<1>8. Shuffled(sigma, 1..N, ReadPlaces(w1), ReadPlaces(w2), BlockPlaces(size))
  BY <1>1, <1>5, <1>6, <1>7 DEF Shuffled
<1>9. Shuffled(sigma, 1..N, {<<i, 1>> : i \in 1..N}, {<<i, 1>> : i \in 1..N}, BlockPlaces(size))
  BY <1>1, <1>2, <1>5 DEF Shuffled
<1> QED
  BY <1>8, <1>9

(* The states balance in any order of the rows.                            *)
LEMMA StateAnyOrder ==
  ASSUME NEW p, NEW w1, NEW w2, NEW N, NEW sigma, Reordered(w1, w2, N, sigma), StateBalanced(p, w2)
  PROVE  StateBalanced(p, w1)
<1> DEFINE S == 1..N \cup {0}
           f == [i \in S |-> IF i = 0 THEN 0 ELSE sigma[i]]
           F(w) == [i \in S |-> IF i = 0 THEN InitialRegs ELSE push(w.rows[i])]
           G(w) == [i \in S |-> IF i = 0 THEN FinalRegs(p) ELSE pull(w.rows[i])]
<1>1. /\ N \in Nat /\ DOMAIN w1.rows = 1..N /\ DOMAIN w2.rows = 1..N
      /\ \A n \in 1..N : w1.rows[n] = w2.rows[sigma[n]]
      /\ sigma \in Bijection(1..N, 1..N)
  BY DEF Reordered
<1>2. sigma \in [1..N -> 1..N] /\ \A x, y \in 1..N : sigma[x] = sigma[y] => x = y
  BY <1>1 DEF Bijection, Injection, IsInjective
<1>3. 0 \notin 1..N
  BY <1>1
<1>4. IsFiniteSet(S)
  <2>1. IsFiniteSet(1..N)
    BY <1>1, FS_Interval
  <2> QED
    BY <2>1, FS_AddElement
<1>5. f[0] = 0 /\ \A i \in 1..N : f[i] = sigma[i] /\ f[i] \in 1..N
  BY <1>2, <1>3
<1>6. f \in Bijection(S, S)
  <2>1. f \in [S -> S]
    BY <1>2
  <2>2. \A x, y \in S : f[x] = f[y] => x = y
    BY <1>2, <1>3, <1>5
  <2> HIDE DEF f, S
  <2> QED
    BY <1>4, <2>1, <2>2, OneToOneIsOnto
<1>7. Renames(f, S, S, F(w1), F(w2)) /\ Renames(f, S, S, G(w1), G(w2))
  <2>1. \A i \in S : F(w1)[i] = F(w2)[f[i]]
    BY <1>1, <1>3, <1>5
  <2>2. \A i \in S : G(w1)[i] = G(w2)[f[i]]
    BY <1>1, <1>3, <1>5
  <2>3. DOMAIN F(w1) = S /\ DOMAIN F(w2) = S /\ DOMAIN G(w1) = S /\ DOMAIN G(w2) = S
    OBVIOUS
  <2> HIDE DEF f, S, F, G
  <2> QED
    BY <1>4, <1>6, <2>1, <2>2, <2>3 DEF Renames
<1>8. Perm(F(w2), G(w2))
  BY <1>1 DEF StateBalanced
<1>9. Perm(F(w1), G(w1))
  <2> HIDE DEF f, S, F, G
  <2> QED
    BY <1>7, <1>8, PermAnyOrder
<1> QED
  BY <1>1, <1>9 DEF StateBalanced

(* So does the memory.                                                     *)
LEMMA MemoryAnyOrder ==
  ASSUME NEW w1, NEW w2, NEW N, NEW sigma, Reordered(w1, w2, N, sigma), w2.image.size \in Nat,
         MemoryBalanced(w2)
  PROVE  MemoryBalanced(w1)
<1> DEFINE B == BlockPlaces(w2.image.size)
           R1 == ReadPlaces(w1)
           R2 == ReadPlaces(w2)
           f == shuffle(sigma, R1, B)
           seed(x) == Msg(gpow(x[2]), One, w2.image.cell[x[2]])
           fin(x) == Msg(gpow(x[2]), w2.memFin[x[2]], w2.image.cell[x[2]])
           F(w, R) == [x \in R \cup B |-> IF x \in B THEN seed(x) ELSE bump(memRead(w, x))]
           G(w, R) == [x \in R \cup B |-> IF x \in B THEN fin(x) ELSE memRead(w, x)]
<1>1. /\ N \in Nat /\ DOMAIN w1.rows = 1..N /\ DOMAIN w2.rows = 1..N
      /\ w1.image = w2.image /\ w1.memFin = w2.memFin
      /\ \A n \in 1..N : w1.rows[n] = w2.rows[sigma[n]]
  BY DEF Reordered
<1>2. Shuffled(sigma, 1..N, R1, R2, B)
  BY ReorderedPlaces
<1>3. f \in Bijection(R1 \cup B, R2 \cup B) /\ R1 \cap B = {} /\ R2 \cap B = {}
  <2> HIDE DEF R1, R2, B
  <2> QED
    BY <1>2, ShuffledPlaces
<1>4. IsFiniteSet(R1 \cup B)
  BY <1>1, ReadPlacesFinite, BlockPlacesFinite, FS_Union
<1>5. \A x \in B : f[x] = x
  BY DEF shuffle
<1>6. \A x \in R1 : f[x] = <<sigma[x[1]], x[2]>> /\ f[x] \in R2 /\ x[1] \in 1..N
  BY <1>2, <1>3 DEF shuffle, Shuffled
<1>7. \A x \in R1 : memRead(w1, x) = memRead(w2, f[x])
  <2> HIDE DEF f, R1, R2, B
  <2> SUFFICES ASSUME NEW x \in R1 PROVE memRead(w1, x) = memRead(w2, f[x])
    OBVIOUS
  <2>1. x[1] \in 1..N /\ f[x][1] = sigma[x[1]] /\ f[x][2] = x[2]
    BY <1>6
  <2>2. w1.rows[x[1]] = w2.rows[f[x][1]]
    BY <1>1, <2>1
  <2> QED
    BY <2>1, <2>2 DEF memRead
<1>8. Perm(F(w2, R2), G(w2, R2))
  BY DEF MemoryBalanced
<1> HIDE DEF f, B, R1, R2, seed, fin
<1>9. /\ DOMAIN F(w1, R1) = R1 \cup B /\ DOMAIN F(w2, R2) = R2 \cup B
      /\ DOMAIN G(w1, R1) = R1 \cup B /\ DOMAIN G(w2, R2) = R2 \cup B
  OBVIOUS
<1>10. ASSUME NEW x \in R1 \cup B
       PROVE  F(w1, R1)[x] = F(w2, R2)[f[x]] /\ G(w1, R1)[x] = G(w2, R2)[f[x]]
  <2>1. CASE x \in B
    BY <1>5, <2>1
  <2>2. CASE x \in R1
    <3>1. x \notin B /\ f[x] \notin B /\ f[x] \in R2
      BY <1>3, <1>6, <2>2
    <3> QED
      BY <1>7, <2>2, <3>1
  <2> QED
    BY <1>10, <2>1, <2>2
<1>11. Perm(F(w1, R1), G(w1, R1))
  <2> HIDE DEF F, G
  <2>1. /\ Renames(f, R1 \cup B, R2 \cup B, F(w1, R1), F(w2, R2))
        /\ Renames(f, R1 \cup B, R2 \cup B, G(w1, R1), G(w2, R2))
    BY <1>3, <1>4, <1>9, <1>10 DEF Renames
  <2> QED
    BY <1>8, <2>1, PermAnyOrder
<1> QED
  BY <1>1, <1>11 DEF MemoryBalanced, B, R1, seed, fin

(* And the bytecode.                                                       *)
LEMMA BytecodeAnyOrder ==
  ASSUME NEW p, NEW w1, NEW w2, NEW N, NEW sigma, Reordered(w1, w2, N, sigma), p.size \in Nat,
         BytecodeBalanced(p, w2)
  PROVE  BytecodeBalanced(p, w1)
<1> DEFINE B == BlockPlaces(p.size)
           R == {<<i, 1>> : i \in 1..N}
           f == shuffle(sigma, R, B)
           seed(x) == Msg(gpow(x[2]), One, entry(p.code[x[2]]))
           fin(x) == Msg(gpow(x[2]), w2.bcFin[x[2]], entry(p.code[x[2]]))
           F(w) == [x \in R \cup B |-> IF x \in B THEN seed(x) ELSE bump(bytecodeRead(w, x[1]))]
           G(w) == [x \in R \cup B |-> IF x \in B THEN fin(x) ELSE bytecodeRead(w, x[1])]
<1>1. /\ N \in Nat /\ DOMAIN w1.rows = 1..N /\ DOMAIN w2.rows = 1..N
      /\ w1.bcFin = w2.bcFin
      /\ \A n \in 1..N : w1.rows[n] = w2.rows[sigma[n]]
  BY DEF Reordered
<1>2. Shuffled(sigma, 1..N, R, R, B)
  BY ReorderedPlaces
<1>3. f \in Bijection(R \cup B, R \cup B) /\ R \cap B = {}
  <2> HIDE DEF R, B
  <2> QED
    BY <1>2, ShuffledPlaces
<1>4. IsFiniteSet(R \cup B)
  <2>1. IsFiniteSet(1..N)
    BY <1>1, FS_Interval
  <2>2. IsFiniteSet({1})
    BY FS_Singleton
  <2>3. IsFiniteSet((1..N) \X {1})
    BY <2>1, <2>2, FS_Product
  <2>4. R \in SUBSET ((1..N) \X {1})
    OBVIOUS
  <2>5. IsFiniteSet(R)
    BY <2>3, <2>4, FS_Subset
  <2> QED
    BY <2>5, BlockPlacesFinite, FS_Union
<1>5. \A x \in B : f[x] = x
  BY DEF shuffle
<1>6. \A x \in R : f[x] = <<sigma[x[1]], x[2]>> /\ f[x] \in R /\ x[1] \in 1..N
  BY <1>2, <1>3 DEF shuffle, Shuffled
<1>7. \A x \in R : bytecodeRead(w1, x[1]) = bytecodeRead(w2, f[x][1])
  <2> HIDE DEF f, R
  <2> QED
    BY <1>1, <1>6 DEF bytecodeRead
<1>8. Perm(F(w2), G(w2))
  BY <1>1 DEF BytecodeBalanced
<1>9. DOMAIN F(w1) = R \cup B /\ DOMAIN F(w2) = R \cup B /\ DOMAIN G(w1) = R \cup B /\ DOMAIN G(w2) = R \cup B
  OBVIOUS
<1> HIDE DEF f, B, R, seed, fin
<1>10. ASSUME NEW x \in R \cup B
       PROVE  F(w1)[x] = F(w2)[f[x]] /\ G(w1)[x] = G(w2)[f[x]]
  <2>1. CASE x \in B
    BY <1>5, <2>1
  <2>2. CASE x \in R
    <3>1. x \notin B /\ f[x] \notin B /\ f[x] \in R
      BY <1>3, <1>6, <2>2
    <3> QED
      BY <1>7, <2>2, <3>1
  <2> QED
    BY <1>10, <2>1, <2>2
<1>11. Perm(F(w1), G(w1))
  <2> HIDE DEF F, G
  <2>1. /\ Renames(f, R \cup B, R \cup B, F(w1), F(w2))
        /\ Renames(f, R \cup B, R \cup B, G(w1), G(w2))
    BY <1>3, <1>4, <1>9, <1>10 DEF Renames
  <2> QED
    BY <1>8, <2>1, PermAnyOrder
<1> QED
  BY <1>1, <1>11 DEF BytecodeBalanced, B, R, seed, fin

(* The constraint system does not see the order of the rows: the tables    *)
(* may be written in any.                                                  *)
THEOREM OrderIsFree ==
  ASSUME NEW p, NEW words, NEW w1, NEW w2, NEW N, NEW sigma, Reordered(w1, w2, N, sigma),
         p.size \in Nat, w2.image.size \in Nat, SatisfiedBy(p, words, w2)
  PROVE  SatisfiedBy(p, words, w1)
<1>1. /\ N \in Nat /\ DOMAIN w1.rows = 1..N /\ DOMAIN w2.rows = 1..N
      /\ w1.image = w2.image
      /\ \A n \in 1..N : w1.rows[n] = w2.rows[sigma[n]]
      /\ sigma \in Bijection(1..N, 1..N)
  BY DEF Reordered
<1>2. \A n \in 1..N : sigma[n] \in 1..N
  BY <1>1 DEF Bijection, Injection
<1>3. StateBalanced(p, w1) /\ MemoryBalanced(w1) /\ BytecodeBalanced(p, w1)
  BY StateAnyOrder, MemoryAnyOrder, BytecodeAnyOrder DEF SatisfiedBy
<1>4. Constraints(w1) /\ Blake2sRowsValid(w1)
  BY <1>1, <1>2 DEF SatisfiedBy, Constraints, Blake2sRowsValid
<1>5. CountsNonzero(w1)
  BY <1>1, <1>2 DEF SatisfiedBy, CountsNonzero
<1>6. Caps(w1)
  <2> DEFINE R1 == ReadPlaces(w1)
             R2 == ReadPlaces(w2)
  <2>1. Shuffled(sigma, 1..N, R1, R2, BlockPlaces(0))
    BY ReorderedPlaces
  <2>2. BlockPlaces(0) = {}
    BY DEF BlockPlaces
  <2>3. shuffle(sigma, R1, {}) \in Bijection(R1, R2)
    <3> HIDE DEF R1, R2
    <3>1. Shuffled(sigma, 1..N, R1, R2, {})
      BY <2>1, <2>2
    <3>2. shuffle(sigma, R1, {}) \in Bijection(R1 \cup {}, R2 \cup {})
      BY <3>1, ShuffledPlaces
    <3>3. R1 \cup {} = R1 /\ R2 \cup {} = R2
      OBVIOUS
    <3> QED
      BY <3>2, <3>3
  <2>4. ExistsBijection(R1, R2) /\ IsFiniteSet(R1)
    BY <1>1, <2>3, ReadPlacesFinite DEF ExistsBijection
  <2>5. Cardinality(R1) = Cardinality(R2)
    BY <2>4, FS_Bijection
  <2> QED
    BY <1>1, <2>5 DEF SatisfiedBy, Caps
<1> QED
  BY <1>1, <1>3, <1>4, <1>5, <1>6 DEF SatisfiedBy

=============================================================================
