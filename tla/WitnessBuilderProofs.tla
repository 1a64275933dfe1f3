------------------------ MODULE WitnessBuilderProofs ------------------------
(***************************************************************************)
(* The builder of witnesses is right: whatever the program, the image, the *)
(* run and the plan of the fill, the rows it writes number the reads of    *)
(* every cell and slot, the finished witness satisfies the constraint      *)
(* system, and it represents the execution it was built for.  Its          *)
(* skeletons fill the tables as the counted fill does, so that the caps on *)
(* heights bound the reads; read back, its witness gives the run again.    *)
(***************************************************************************)
EXTENDS RoundTrip, ConstraintProofs

-----------------------------------------------------------------------------
(* Counting the occurrences of a value in the first places of a sequence.  *)
CountsUp(s, a) ==
  /\ \A n \in Nat : Occurs(s, a, n) \in Nat
  /\ Occurs(s, a, 0) = 0
  /\ \A n \in Nat : Occurs(s, a, n + 1) = Occurs(s, a, n) + (IF s[n + 1] = a THEN 1 ELSE 0)

(* One more place is one more occurrence or none.                          *)
LEMMA OccursSteps == \A s, a : CountsUp(s, a)
<1> SUFFICES ASSUME NEW s, NEW a PROVE CountsUp(s, a)
  OBVIOUS
<1> DEFINE H(n) == {i \in 1..n : s[i] = a}
<1>1. \A n \in Nat : IsFiniteSet(H(n)) /\ Occurs(s, a, n) = Cardinality(H(n))
                     /\ Cardinality(H(n)) \in Nat
  <2> SUFFICES ASSUME NEW n \in Nat
               PROVE  IsFiniteSet(H(n)) /\ Cardinality(H(n)) \in Nat
    BY DEF Occurs
  <2>1. IsFiniteSet(1..n)
    BY FS_Interval
  <2> QED
    BY <2>1, FS_Subset, FS_CardinalityType
<1>2. Occurs(s, a, 0) = 0
  <2>1. H(0) = {}
    OBVIOUS
  <2> QED
    BY <1>1, <2>1, FS_EmptySet
<1>3. ASSUME NEW n \in Nat
      PROVE  Occurs(s, a, n + 1) = Occurs(s, a, n) + (IF s[n + 1] = a THEN 1 ELSE 0)
  <2>1. CASE s[n + 1] = a
    <3>1. H(n + 1) = H(n) \cup {n + 1} /\ n + 1 \notin H(n)
      BY <2>1
    <3>2. Cardinality(H(n + 1)) = Cardinality(H(n)) + 1
      <4> HIDE DEF H
      <4> QED
        BY <1>1, <3>1, FS_AddElement
    <3>3. Occurs(s, a, n + 1) = Cardinality(H(n + 1)) /\ Occurs(s, a, n) = Cardinality(H(n))
      BY DEF Occurs
    <3> HIDE DEF H
    <3> QED
      BY <2>1, <3>2, <3>3
  <2>2. CASE s[n + 1] # a
    <3>1. H(n + 1) = H(n)
      BY <2>2
    <3>2. Occurs(s, a, n + 1) = Occurs(s, a, n) /\ Occurs(s, a, n) \in Nat
      BY <1>1, <3>1 DEF Occurs
    <3> HIDE DEF H
    <3> QED
      BY <2>2, <3>2
  <2> QED
    BY <2>1, <2>2
<1>4. \A n \in Nat : Occurs(s, a, n) \in Nat
  BY <1>1
<1> QED
  BY <1>2, <1>3, <1>4 DEF CountsUp

(* The count does not fall, and the occurrences carry the numbers 0, 1, ...*)
LEMMA OccursCounts ==
  ASSUME NEW s, NEW a, NEW N \in Nat
  PROVE  /\ \A n, m \in Nat : n <= m => Occurs(s, a, n) <= Occurs(s, a, m)
         /\ \A j \in 1..N : s[j] = a => Occurs(s, a, j - 1) < Occurs(s, a, N)
         /\ \A j, l \in 1..N : s[j] = a /\ j < l => Occurs(s, a, j - 1) < Occurs(s, a, l - 1)
         /\ \A e \in Nat : e < Occurs(s, a, N) => \E j \in 1..N : s[j] = a /\ Occurs(s, a, j - 1) = e
<1>1. /\ \A n \in Nat : Occurs(s, a, n) \in Nat
      /\ Occurs(s, a, 0) = 0
      /\ \A n \in Nat : Occurs(s, a, n + 1) = Occurs(s, a, n) + (IF s[n + 1] = a THEN 1 ELSE 0)
  BY OccursSteps DEF CountsUp
<1>2. ASSUME NEW n \in Nat, NEW m \in Nat, n <= m
      PROVE  Occurs(s, a, n) <= Occurs(s, a, m)
  <2>1. IsFiniteSet({i \in 1..m : s[i] = a})
    <3>1. IsFiniteSet(1..m) /\ {i \in 1..m : s[i] = a} \subseteq 1..m
      BY FS_Interval
    <3> QED
      BY <3>1, FS_Subset
  <2>2. {i \in 1..n : s[i] = a} \subseteq {i \in 1..m : s[i] = a}
    BY <1>2
  <2> QED
    BY <2>1, <2>2, FS_Subset DEF Occurs
<1>3. ASSUME NEW j \in Nat, NEW m \in Nat, 1 <= j, j <= m, s[j] = a
      PROVE  Occurs(s, a, j - 1) < Occurs(s, a, m)
  <2>1. j - 1 \in Nat /\ (j - 1) + 1 = j
    BY <1>3
  <2>2. Occurs(s, a, j) = Occurs(s, a, j - 1) + 1
    BY <1>1, <1>3, <2>1
  <2> QED
    BY <1>1, <1>2, <1>3, <2>1, <2>2
<1>4. ASSUME NEW e \in Nat, e < Occurs(s, a, N)
      PROVE  \E j \in 1..N : s[j] = a /\ Occurs(s, a, j - 1) = e
  <2> DEFINE M == {m \in Nat : e < Occurs(s, a, m)}
  <2>1. PICK n \in M : \A m \in M : n <= m
    <3>1. N \in M /\ M \subseteq Nat
      BY <1>4
    <3> HIDE DEF M
    <3> QED
      BY <3>1, LeastExists
  <2>2. n # 0 /\ n \in Nat /\ n <= N
    BY <1>1, <1>4, <2>1
  <2>3. n - 1 \in Nat /\ (n - 1) + 1 = n /\ ~(e < Occurs(s, a, n - 1))
    BY <2>1, <2>2
  <2>4. Occurs(s, a, n) = Occurs(s, a, n - 1) + (IF s[n] = a THEN 1 ELSE 0)
    BY <1>1, <2>3
  <2>5. e < Occurs(s, a, n) /\ Occurs(s, a, n - 1) \in Nat
    BY <1>1, <2>1, <2>3
  <2>6. s[n] = a /\ Occurs(s, a, n - 1) = e
    BY <2>3, <2>4, <2>5
  <2>7. n \in 1..N
    BY <2>2
  <2> QED
    BY <2>6, <2>7
<1> QED
  BY <1>2, <1>3, <1>4

(* The reads of a sequence: how many of its cell come before each, and how *)
(* many there are of each cell.                                            *)
Before(ads) == [j \in DOMAIN ads |-> Occurs(ads, ads[j], j - 1)]
Total(ads)  == [a \in K |-> Occurs(ads, a, Len(ads))]

Counted(ads, N, before, total) ==
  /\ before \in [1..N -> Nat] /\ total \in [K -> Nat]
  /\ \A j \in 1..N : before[j] < total[ads[j]]
  /\ \A j, l \in 1..N : ads[j] = ads[l] /\ j < l => before[j] < before[l]
  /\ \A a \in K : \A e \in Nat : e < total[a] => \E j \in 1..N : ads[j] = a /\ before[j] = e

(* The reads of one row, each numbered by the reads of its address before  *)
(* it in the row, are counted from 0 without a gap (readExps).             *)
LEMMA ReadsCounted ==
  ASSUME NEW N \in Nat, NEW ads, DOMAIN ads = 1..N, Len(ads) = N, \A j \in 1..N : ads[j] \in K
  PROVE  Counted(ads, N, Before(ads), Total(ads))
<1>1. ASSUME NEW a
      PROVE  \A n \in Nat : Occurs(ads, a, n) \in Nat
  BY <1>1, OccursSteps DEF CountsUp
<1>2. ASSUME NEW j \in 1..N
      PROVE  /\ Before(ads)[j] = Occurs(ads, ads[j], j - 1) /\ Before(ads)[j] \in Nat
             /\ Total(ads)[ads[j]] = Occurs(ads, ads[j], N)
  <2>1. j - 1 \in Nat /\ ads[j] \in K
    BY <1>2
  <2> QED
    BY <1>2, <1>1, <2>1 DEF Before, Total
<1>3. Before(ads) \in [1..N -> Nat] /\ Total(ads) \in [K -> Nat]
  BY <1>1, <1>2 DEF Before, Total
<1>4. ASSUME NEW j \in 1..N
      PROVE  Before(ads)[j] < Total(ads)[ads[j]]
  BY <1>4, <1>2, OccursCounts
<1>5. ASSUME NEW j \in 1..N, NEW l \in 1..N, ads[j] = ads[l], j < l
      PROVE  Before(ads)[j] < Before(ads)[l]
  <2>1. \A c, d \in 1..N : ads[c] = ads[j] /\ c < d => Occurs(ads, ads[j], c - 1) < Occurs(ads, ads[j], d - 1)
    BY OccursCounts
  <2>2. Occurs(ads, ads[j], j - 1) < Occurs(ads, ads[j], l - 1)
    BY <1>5, <2>1
  <2> QED
    BY <1>2, <1>5, <2>2
<1>6. ASSUME NEW a \in K, NEW e \in Nat, e < Total(ads)[a]
      PROVE  \E j \in 1..N : ads[j] = a /\ Before(ads)[j] = e
  <2>1. e < Occurs(ads, a, N)
    BY <1>6 DEF Total
  <2>2. PICK j \in 1..N : ads[j] = a /\ Occurs(ads, a, j - 1) = e
    BY <1>6, <2>1, OccursCounts
  <2> QED
    BY <1>6, <1>2, <2>2
<1> QED
  BY <1>3, <1>4, <1>5, <1>6 DEF Counted

-----------------------------------------------------------------------------
(* A numbering grows: the reads ads of one more row, at the places <<i, 1>>,*)
(* <<i, 2>>, ..., are numbered from what the counters hold.                *)
RowPlaces(i, ads) == {<<i, j>> : j \in DOMAIN ads}

Grows(P, addr, num, counter, i, ads, addr2, num2) ==
  /\ Numbered(P, addr, num, counter)
  /\ DOMAIN ads = 1..Len(ads) /\ Len(ads) \in Nat
  /\ \A j \in DOMAIN ads : ads[j] \in K
  /\ P \cap RowPlaces(i, ads) = {}
  /\ \A x \in P : addr2[x] = addr[x] /\ num2[x] = num[x]
  /\ \A j \in DOMAIN ads : addr2[<<i, j>>] = ads[j] /\ num2[<<i, j>>] = readExps(counter, ads)[j]

(* A row whose reads take their numbers from the counters, which then      *)
(* advance, leaves every read so far numbered (readExps and readBump).     *)
LEMMA NumberedGrows ==
  ASSUME NEW P, NEW addr, NEW num, NEW counter, NEW i, NEW ads, NEW addr2, NEW num2,
         Grows(P, addr, num, counter, i, ads, addr2, num2)
  PROVE  Numbered(P \cup RowPlaces(i, ads), addr2, num2, readBump(counter, ads))
<1> DEFINE Q == RowPlaces(i, ads)
           bumped == readBump(counter, ads)
<1>1. PICK N \in Nat : N = Len(ads) /\ DOMAIN ads = 1..N /\ \A j \in 1..N : ads[j] \in K
  BY DEF Grows
<1> DEFINE before == Before(ads)
           total  == Total(ads)
<1>2. Counted(ads, N, before, total)
  BY <1>1, ReadsCounted
<1> HIDE DEF before, total
<1>3. /\ before \in [1..N -> Nat] /\ total \in [K -> Nat]
      /\ \A j \in 1..N : before[j] < total[ads[j]]
      /\ \A j, l \in 1..N : ads[j] = ads[l] /\ j < l => before[j] < before[l]
      /\ \A a \in K : \A e \in Nat : e < total[a] => \E j \in 1..N : ads[j] = a /\ before[j] = e
  BY <1>2 DEF Counted
<1>4. /\ IsFiniteSet(P)
      /\ \A x \in P : addr2[x] \in K /\ num2[x] \in Nat /\ num2[x] < counter[addr2[x]]
      /\ \A x, y \in P : addr2[x] = addr2[y] /\ num2[x] = num2[y] => x = y
      /\ \A a \in K : counter[a] \in Nat
      /\ \A a \in K : \A e \in 0..counter[a] - 1 : \E x \in P : addr2[x] = a /\ num2[x] = e
  BY DEF Grows, Numbered
<1>5. /\ \A x \in Q : x[2] \in 1..N /\ x = <<i, x[2]>>
      /\ \A j \in 1..N : <<i, j>> \in Q /\ <<i, j>>[2] = j
  <2>1. Q = {<<i, j>> : j \in 1..N}
    BY <1>1 DEF RowPlaces
  <2> HIDE DEF Q
  <2> QED
    BY <2>1
<1>6. ASSUME NEW j \in 1..N
      PROVE  addr2[<<i, j>>] = ads[j] /\ num2[<<i, j>>] = counter[ads[j]] + before[j]
  BY <1>6, <1>1, <1>2 DEF Grows, readExps, Before, before
<1>7. \A a \in K : bumped[a] = counter[a] + total[a]
  BY <1>1, <1>2 DEF readBump, Total, total
<1>8. IsFiniteSet(P \cup Q)
  <2>1. IsFiniteSet(1..N)
    BY FS_Interval
  <2>2. Q = {<<i, j>> : j \in 1..N}
    BY <1>1 DEF RowPlaces
  <2>3. IsFiniteSet(Q)
    <3> DEFINE f == [j \in 1..N |-> <<i, j>>]
    <3>1. f \in Surjection(1..N, Q)
      BY <2>2 DEF Surjection
    <3> HIDE DEF f, Q
    <3> QED
      BY <2>1, <3>1, FS_Surjection
  <2> HIDE DEF Q
  <2> QED
    BY <1>4, <2>3, FS_Union
<1>9. P \cap Q = {}
  BY DEF Grows
<1> HIDE DEF Q, bumped
<1>10. ASSUME NEW x \in Q
      PROVE  \E j \in 1..N : /\ x = <<i, j>> /\ addr2[x] = ads[j] /\ ads[j] \in K /\ counter[ads[j]] \in Nat
                             /\ num2[x] = counter[ads[j]] + before[j]
  BY <1>10, <1>1, <1>4, <1>5, <1>6
<1>11. ASSUME NEW x \in P \cup Q
       PROVE  /\ addr2[x] \in K /\ num2[x] \in Nat /\ num2[x] < bumped[addr2[x]]
              /\ x \in Q => num2[x] >= counter[addr2[x]]
  <2>1. CASE x \in P
    <3>1. addr2[x] \in K /\ num2[x] \in Nat /\ num2[x] < counter[addr2[x]] /\ counter[addr2[x]] \in Nat
      BY <1>11, <1>4, <2>1
    <3>2. bumped[addr2[x]] = counter[addr2[x]] + total[addr2[x]] /\ total[addr2[x]] \in Nat
      BY <1>3, <1>11, <1>7, <3>1
    <3>3. x \notin Q
      BY <1>11, <1>9, <2>1
    <3> QED
      BY <1>11, <3>1, <3>2, <3>3
  <2>2. CASE x \in Q
    <3>1. PICK j \in 1..N : /\ addr2[x] = ads[j] /\ ads[j] \in K /\ counter[ads[j]] \in Nat
                            /\ num2[x] = counter[ads[j]] + before[j]
      BY <1>11, <1>10, <2>2
    <3>2. before[j] \in Nat /\ total[ads[j]] \in Nat /\ before[j] < total[ads[j]]
      BY <1>11, <1>3, <3>1
    <3>3. bumped[ads[j]] = counter[ads[j]] + total[ads[j]]
      BY <1>11, <1>7, <3>1
    <3> QED
      BY <1>11, <3>1, <3>2, <3>3
  <2> QED
    BY <1>11, <2>1, <2>2
<1>12. ASSUME NEW x \in P \cup Q, NEW y \in P \cup Q, addr2[x] = addr2[y], num2[x] = num2[y]
       PROVE  x = y
  <2>1. CASE x \in P /\ y \in P
    BY <1>4, <1>12, <2>1
  <2>2. ASSUME NEW u \in P, NEW z \in Q, addr2[u] = addr2[z]
        PROVE  num2[u] # num2[z]
    <3>1. num2[u] < counter[addr2[u]] /\ counter[addr2[u]] \in Nat /\ num2[u] \in Nat
      BY <1>12, <2>2, <1>4
    <3>2. num2[z] >= counter[addr2[z]] /\ num2[z] \in Nat
      BY <1>12, <2>2, <1>11
    <3> QED
      BY <1>12, <2>2, <3>1, <3>2
  <2>3. CASE x \in Q /\ y \in Q
    <3>1. PICK j \in 1..N : /\ x = <<i, j>> /\ addr2[x] = ads[j] /\ counter[ads[j]] \in Nat
                            /\ num2[x] = counter[ads[j]] + before[j]
      BY <1>12, <1>10, <2>3
    <3>2. PICK l \in 1..N : /\ y = <<i, l>> /\ addr2[y] = ads[l] /\ num2[y] = counter[ads[l]] + before[l]
      BY <1>12, <1>10, <2>3
    <3>3. ads[j] = ads[l] /\ before[j] \in Nat /\ before[l] \in Nat /\ before[j] = before[l]
      BY <1>3, <1>12, <3>1, <3>2
    <3>4. ~(j < l) /\ ~(l < j)
      BY <1>12, <1>3, <3>3
    <3> QED
      BY <1>12, <3>1, <3>2, <3>4
  <2> QED
    BY <1>12, <2>1, <2>2, <2>3
<1>13. ASSUME NEW a \in K
       PROVE  /\ bumped[a] \in Nat
              /\ \A e \in 0..bumped[a] - 1 : \E x \in P \cup Q : addr2[x] = a /\ num2[x] = e
  <2>1. counter[a] \in Nat /\ total[a] \in Nat /\ bumped[a] = counter[a] + total[a]
    BY <1>3, <1>13, <1>4, <1>7
  <2>2. ASSUME NEW e \in 0..bumped[a] - 1
        PROVE  \E x \in P \cup Q : addr2[x] = a /\ num2[x] = e
    <3>1. CASE e < counter[a]
      BY <1>13, <1>4, <2>1, <2>2, <3>1
    <3>2. CASE e >= counter[a]
      <4>1. e - counter[a] \in Nat /\ e - counter[a] < total[a]
        BY <1>13, <2>1, <2>2, <3>2
      <4>2. PICK j \in 1..N : ads[j] = a /\ before[j] = e - counter[a]
        BY <1>13, <2>2, <1>3, <4>1
      <4>3. <<i, j>> \in Q
        BY <1>13, <2>2, <1>5
      <4>4. addr2[<<i, j>>] = a /\ num2[<<i, j>>] = counter[a] + (e - counter[a])
        BY <1>13, <2>2, <1>6, <4>2, <4>3
      <4> QED
        BY <1>13, <2>2, <2>1, <4>3, <4>4
    <3> QED
      BY <1>13, <2>2, <2>1, <3>1, <3>2
  <2> QED
    BY <1>13, <2>1, <2>2
<1> QED
  BY <1>8, <1>11, <1>12, <1>13 DEF Numbered, Q, bumped

-----------------------------------------------------------------------------
(* The dummies of a block in its frame.  The words of the frame are what   *)
(* each instruction asks of them, and the closing jump goes back.          *)
FrameRead(rd, fp, w0, pc, base, t) ==
  /\ fp \in K /\ w0 \in E /\ pc \in Nat /\ base \in Nat /\ t \in Tables
  /\ \A o \in 0..11 : rd[KMul(fp, gpow(o))] = frameCell(w0, pc, base, t, o)
  /\ \A o \in 0..10 : KMul(gpow(1), KMul(fp, gpow(o))) = KMul(fp, gpow(o + 1))
  /\ rd[gpow(0)] = w0

Runs(rd, r, ins, next) == Holds(rd, r, ins) /\ After(rd, r, ins) = next

(* The words a block's instructions read from its frame: the program       *)
(* counters of its jumps, its constants and the word it works on.          *)
LEMMA FrameWords ==
  ASSUME NEW rd, NEW r \in Regs, NEW w0, NEW pc, NEW base, NEW t,
         FrameRead(rd, r.fp, w0, pc, base, t)
  PROVE  /\ rd[KMul(r.fp, gpow(0))] = ofK(gpow(pc))
         /\ rd[KMul(r.fp, gpow(1))] = ofK(gpow(base))
         /\ rd[KMul(r.fp, gpow(2))] = ofK(One)
         /\ rd[KMul(r.fp, gpow(3))] = ofK(Zero)
         /\ rd[KMul(r.fp, gpow(4))] = IF t = "deref" THEN w0 ELSE ofK(Zero)
         /\ rd[KMul(r.fp, gpow(5))] = ofK(Zero)
         /\ t = "blake2s" => /\ rd[KMul(r.fp, gpow(6))] = zeroDigest[1]
                             /\ rd[KMul(r.fp, gpow(7))] = zeroDigest[2]
         /\ \A o \in 8..11 : rd[KMul(r.fp, gpow(o))] = ofK(Zero)
         /\ ofK(gpow(pc)) \in E /\ ofK(gpow(base)) \in E /\ ofK(One) \in E /\ ofK(Zero) \in E
<1>1. \A o \in 0..11 : rd[KMul(r.fp, gpow(o))] = frameCell(w0, pc, base, t, o)
  BY DEF FrameRead
<1>2. \A k \in K : ofK(k) \in E
  BY FieldTypes DEF E, ofK, ofLimbs
<1>3. gpow(pc) \in K /\ gpow(base) \in K /\ One \in K /\ Zero \in K
  BY PowersInK, FieldTypes DEF FrameRead
<1>4. frameCell(w0, pc, base, t, 0) = ofK(gpow(pc)) /\ frameCell(w0, pc, base, t, 1) = ofK(gpow(base))
      /\ frameCell(w0, pc, base, t, 2) = ofK(One) /\ frameCell(w0, pc, base, t, 3) = ofK(Zero)
      /\ frameCell(w0, pc, base, t, 4) = (IF t = "deref" THEN w0 ELSE ofK(Zero))
      /\ frameCell(w0, pc, base, t, 5) = ofK(Zero)
  BY DEF frameCell, Frame
<1>5. t = "blake2s" => /\ frameCell(w0, pc, base, t, 6) = zeroDigest[1]
                       /\ frameCell(w0, pc, base, t, 7) = zeroDigest[2]
  BY DEF frameCell, Frame
<1>6. \A o \in 8..11 : frameCell(w0, pc, base, t, o) = ofK(Zero)
  BY DEF frameCell, Frame
<1> QED
  BY <1>1, <1>2, <1>3, <1>4, <1>5, <1>6

(* XOR, MUL_NATIVE, SET_CONSTANT and JUMP over zeros.                      *)
LEMMA PlainDummies ==
  ASSUME NEW rd, NEW r \in Regs, NEW w0, NEW pc, NEW base, NEW t,
         FrameRead(rd, r.fp, w0, pc, base, t), t \notin {"deref", "blake2s"}
  PROVE  Runs(rd, r, fillDummy(t), NextRegs(r))
<1> DEFINE ins == fillDummy(t)
           z == ofK(Zero)
<1>1. rd[KMul(r.fp, gpow(3))] = z /\ rd[KMul(r.fp, gpow(4))] = z /\ z \in E
  <2>1. rd[KMul(r.fp, gpow(4))] = IF t = "deref" THEN w0 ELSE ofK(Zero)
    BY FrameWords
  <2>2. rd[KMul(r.fp, gpow(3))] = ofK(Zero) /\ ofK(Zero) \in E
    BY FrameWords
  <2> QED
    BY <2>1, <2>2
<1>2. t \in {"xor", "mulNative", "setConstant", "jump"}
  BY DEF FrameRead, Tables, fillTables
<1>3. z # NoWord /\ z = <<Zero, Zero, Zero>> /\ Limb(z, 0) = Zero /\ IsInK(z)
  BY <1>1, NoWordAssumption DEF ofK, ofLimbs, Limb, IsInK
<1>4. EAdd(z, z) = z /\ EMul(z, z) = z
  BY <1>3, FieldTypes, FieldUnits DEF EAdd, EMul, ofLimbs, Limb
<1> HIDE DEF z
<1>5. CASE t = "xor"
  <2>1. ins.op = "xor" /\ ins.o = [j \in 1..3 |-> gpow(4)]
    BY <1>5 DEF fillDummy, Frame
  <2> HIDE DEF ins
  <2>2. \A j \in DOMAIN ins.o : rd[Addresses(r, ins)[j]] = z
    BY <1>1, <2>1 DEF Addresses
  <2> QED
    BY <1>3, <1>4, <2>1, <2>2 DEF Runs, Holds, After, ins
<1>6. CASE t = "mulNative"
  <2>1. ins.op = "mulNative" /\ ins.o = [j \in 1..3 |-> gpow(4)]
    BY <1>6 DEF fillDummy, Frame
  <2> HIDE DEF ins
  <2>2. \A j \in DOMAIN ins.o : rd[Addresses(r, ins)[j]] = z
    BY <1>1, <2>1 DEF Addresses
  <2> QED
    BY <1>3, <1>4, <2>1, <2>2 DEF Runs, Holds, After, ins
<1>7. CASE t = "setConstant"
  <2>1. ins.op = "setConstant" /\ ins.o = [j \in 1..1 |-> gpow(4)] /\ ins.k = z
    BY <1>7 DEF fillDummy, Frame, z
  <2> HIDE DEF ins
  <2>2. \A j \in DOMAIN ins.o : rd[Addresses(r, ins)[j]] = z
    BY <1>1, <2>1 DEF Addresses
  <2> QED
    BY <1>3, <2>1, <2>2 DEF Runs, Holds, After, ins
<1>8. CASE t = "jump"
  <2>1. ins.op = "jump" /\ ins.o = [j \in 1..3 |-> gpow(3)]
    BY <1>8 DEF fillDummy, Frame
  <2> HIDE DEF ins
  <2>2. \A j \in DOMAIN ins.o : rd[Addresses(r, ins)[j]] = z
    BY <1>1, <2>1 DEF Addresses
  <2>3. Holds(rd, r, ins)
    BY <1>3, <2>1, <2>2 DEF Holds
  <2>4. rd[KMul(r.fp, ins.o[1])] = z
    BY <1>1, <2>1
  <2>5. After(rd, r, ins) = NextRegs(r)
    BY <1>3, <2>4 DEF After
  <2> QED
    BY <2>3, <2>5 DEF Runs, ins
<1> QED
  BY <1>2, <1>5, <1>6, <1>7, <1>8

(* DEREF through the pointer 1, that is to the public word at cell 0.      *)
LEMMA DerefDummy ==
  ASSUME NEW rd, NEW r \in Regs, NEW w0, NEW pc, NEW base, NEW t,
         FrameRead(rd, r.fp, w0, pc, base, t), t = "deref"
  PROVE  Runs(rd, r, fillDummy(t), NextRegs(r))
<1> DEFINE ins == fillDummy(t)
<1>1. ins.op = "deref" /\ ins.mode = "cell" /\ ins.o = <<gpow(2), gpow(0), gpow(4)>>
  BY DEF fillDummy, Frame
<1>2. rd[KMul(r.fp, gpow(2))] = ofK(One) /\ ofK(One) \in E
  BY FrameWords
<1>3. rd[KMul(r.fp, gpow(4))] = w0
  <2>1. rd[KMul(r.fp, gpow(4))] = IF t = "deref" THEN w0 ELSE ofK(Zero)
    BY FrameWords
  <2> QED
    BY <2>1
<1>4. w0 \in E /\ rd[gpow(0)] = w0
  BY DEF FrameRead
<1> HIDE DEF ins
<1>5. /\ rd[Addresses(r, ins)[1]] = ofK(One) /\ rd[Addresses(r, ins)[3]] = w0
      /\ DOMAIN ins.o = 1..3 /\ ins.o[2] = gpow(0)
  BY <1>1, <1>2, <1>3 DEF Addresses
<1>6. IsInK(ofK(One)) /\ Limb(ofK(One), 0) = One
  BY DEF ofK, ofLimbs, IsInK, Limb
<1>7. gpow(0) \in K /\ KMul(One, gpow(0)) = gpow(0)
  BY PowersInK, FieldUnits
<1>8. ofK(One) # NoWord /\ w0 # NoWord
  BY <1>2, <1>4, NoWordAssumption
<1>9. Holds(rd, r, ins)
  <2>1. rd[KMul(Limb(ofK(One), 0), ins.o[2])] = w0
    BY <1>4, <1>5, <1>6, <1>7
  <2>2. derefSource("cell", r, w0) = w0
    BY DEF derefSource
  <2> QED
    BY <1>1, <1>5, <1>6, <1>8, <2>1, <2>2 DEF Holds
<1>10. After(rd, r, ins) = NextRegs(r)
  BY <1>1 DEF After
<1> QED
  BY <1>9, <1>10 DEF Runs, ins

(* BLAKE2S of zeros to the digest of zeros.                                *)
LEMMA Blake2sDummy ==
  ASSUME NEW rd, NEW r \in Regs, NEW w0, NEW pc, NEW base, NEW t,
         FrameRead(rd, r.fp, w0, pc, base, t), t = "blake2s"
  PROVE  Runs(rd, r, fillDummy(t), NextRegs(r))
<1> DEFINE ins == fillDummy(t)
           z == ofK(Zero)
           at(o) == KMul(r.fp, gpow(o))
<1>1. ins.op = "blake2s"
      /\ ins.o = <<gpow(8), gpow(9), gpow(10), gpow(11), gpow(4), gpow(6), gpow(3)>>
  <2> DEFINE m == [j \in 1..4 |-> gpow(Frame.digest + 1 + j)]
             rest == <<gpow(Frame.scratch), gpow(Frame.digest), gpow(Frame.zero)>>
  <2>1. ins = [op |-> t, o |-> m \o rest]
    <3>1. t = "blake2s"
      OBVIOUS
    <3> QED
      BY <3>1 DEF fillDummy
  <2>2. m = <<gpow(8), gpow(9), gpow(10), gpow(11)>>
    BY DEF Frame
  <2>3. rest = <<gpow(4), gpow(6), gpow(3)>>
    BY DEF Frame
  <2>4. <<gpow(8), gpow(9), gpow(10), gpow(11)>> \o <<gpow(4), gpow(6), gpow(3)>>
          = <<gpow(8), gpow(9), gpow(10), gpow(11), gpow(4), gpow(6), gpow(3)>>
    <3> DEFINE S == {gpow(8), gpow(9), gpow(10), gpow(11), gpow(4), gpow(6), gpow(3)}
               s == <<gpow(8), gpow(9), gpow(10), gpow(11)>>
               u == <<gpow(4), gpow(6), gpow(3)>>
               v == s \o u
    <3>1. /\ s \in Seq(S) /\ Len(s) = 4 /\ s[1] = gpow(8) /\ s[2] = gpow(9) /\ s[3] = gpow(10) /\ s[4] = gpow(11)
          /\ u \in Seq(S) /\ Len(u) = 3 /\ u[1] = gpow(4) /\ u[2] = gpow(6) /\ u[3] = gpow(3)
      OBVIOUS
    <3> HIDE DEF S, s, u
    <3>2. /\ v \in Seq(S) /\ Len(v) = Len(s) + Len(u)
          /\ \A i \in 1..Len(s) + Len(u) : v[i] = IF i <= Len(s) THEN s[i] ELSE u[i - Len(s)]
      BY <3>1, ConcatProperties
    <3> HIDE DEF v
    <3>3. /\ v \in Seq(S) /\ Len(v) = 7 /\ v[1] = s[1] /\ v[2] = s[2] /\ v[3] = s[3] /\ v[4] = s[4]
          /\ v[5] = u[1] /\ v[6] = u[2] /\ v[7] = u[3]
      BY <3>1, <3>2
    <3>4. v = <<gpow(8), gpow(9), gpow(10), gpow(11), gpow(4), gpow(6), gpow(3)>>
      BY <3>1, <3>3
    <3> QED
      BY <3>4 DEF v, s, u
  <2> HIDE DEF ins, m, rest
  <2> QED
    BY <2>1, <2>2, <2>3, <2>4
<1>2. /\ rd[at(8)] = z /\ rd[at(9)] = z /\ rd[at(10)] = z /\ rd[at(11)] = z /\ rd[at(3)] = z
      /\ z \in E
  <2>1. \A o \in 8..11 : rd[KMul(r.fp, gpow(o))] = ofK(Zero)
    BY FrameWords
  <2>2. rd[KMul(r.fp, gpow(3))] = ofK(Zero) /\ ofK(Zero) \in E
    BY FrameWords
  <2> QED
    BY <2>1, <2>2
<1>3. rd[at(4)] = z /\ rd[at(5)] = z
  <2>1. rd[KMul(r.fp, gpow(4))] = IF t = "deref" THEN w0 ELSE ofK(Zero)
    BY FrameWords
  <2>2. rd[KMul(r.fp, gpow(5))] = ofK(Zero)
    BY FrameWords
  <2> QED
    BY <2>1, <2>2
<1>4. rd[at(6)] = zeroDigest[1] /\ rd[at(7)] = zeroDigest[2]
  <2>1. t = "blake2s" => /\ rd[KMul(r.fp, gpow(6))] = zeroDigest[1]
                         /\ rd[KMul(r.fp, gpow(7))] = zeroDigest[2]
    BY FrameWords
  <2> QED
    BY <2>1
<1>5. KMul(gpow(1), at(4)) = at(5) /\ KMul(gpow(1), at(6)) = at(7)
  <2>1. \A o \in 0..10 : KMul(gpow(1), KMul(r.fp, gpow(o))) = KMul(r.fp, gpow(o + 1))
    BY DEF FrameRead
  <2> QED
    BY <2>1
<1> DEFINE c == [j \in 1..9 |-> rd[Blake2sAddresses(r, ins)[j]]]
<1>6. /\ c[1] = z /\ c[2] = z /\ c[3] = z /\ c[4] = z /\ c[5] = z /\ c[6] = z
      /\ c[7] = zeroDigest[1] /\ c[8] = zeroDigest[2] /\ c[9] = z
  <2>1. Addresses(r, ins) = [j \in DOMAIN ins.o |-> KMul(r.fp, ins.o[j])]
    BY DEF Addresses
  <2>2. /\ Addresses(r, ins)[1] = at(8) /\ Addresses(r, ins)[2] = at(9)
        /\ Addresses(r, ins)[3] = at(10) /\ Addresses(r, ins)[4] = at(11)
        /\ Addresses(r, ins)[5] = at(4) /\ Addresses(r, ins)[6] = at(6)
        /\ Addresses(r, ins)[7] = at(3)
    <3> HIDE DEF ins
    <3> QED
      BY <1>1, <2>1
  <2>3. Blake2sAddresses(r, ins) = <<at(8), at(9), at(10), at(11), at(4), at(5), at(6), at(7), at(3)>>
    <3> HIDE DEF ins, at
    <3> QED
      BY <1>5, <2>2 DEF Blake2sAddresses
  <2> HIDE DEF ins, at
  <2> QED
    BY <1>2, <1>3, <1>4, <2>3
<1>7. /\ z # NoWord /\ zeroDigest[1] # NoWord /\ zeroDigest[2] # NoWord
      /\ IsCanonical128(z) /\ IsCanonical128(zeroDigest[1]) /\ IsCanonical128(zeroDigest[2])
  <2>1. IsCanonical128(z)
    BY DEF ofK, ofLimbs, IsCanonical128, Limb
  <2>2. \A i \in 1..2 : zeroDigest[i] \in E /\ IsCanonical128(zeroDigest[i])
    BY DigestAssumption
  <2> QED
    BY <1>2, <2>1, <2>2, NoWordAssumption
<1>8. zeroDigest = Compress(<<z, z, z, z>>, <<z, z>>, z)
      /\ zeroDigest = <<zeroDigest[1], zeroDigest[2]>>
  BY DigestAssumption DEF zeroDigest
<1>9. c \in [1..9 -> {z, zeroDigest[1], zeroDigest[2]}]
  <2> HIDE DEF z
  <2>1. \A j \in 1..9 : c[j] \in {z, zeroDigest[1], zeroDigest[2]}
    <3> SUFFICES ASSUME NEW j \in 1..9 PROVE c[j] \in {z, zeroDigest[1], zeroDigest[2]}
      OBVIOUS
    <3>1. j \in {1, 2, 3, 4, 5, 6, 7, 8, 9}
      OBVIOUS
    <3> HIDE DEF c
    <3> QED
      BY <1>6, <3>1
  <2> QED
    BY <2>1
<1>10. Holds(rd, r, ins)
  <2> HIDE DEF z, c, ins
  <2>1. SubSeq(c, 1, 4) = <<z, z, z, z>>
    <3> DEFINE S == {z, zeroDigest[1], zeroDigest[2]}
               m == SubSeq(c, 1, 4)
    <3>1. \A i \in 1..4 : c[i] \in S
      BY <1>9
    <3> HIDE DEF S
    <3>2. /\ m \in Seq(S) /\ Len(m) = (IF 1 <= 4 THEN 4 - 1 + 1 ELSE 0)
          /\ \A i \in 1..4 - 1 + 1 : m[i] = c[1 + i - 1]
      BY <3>1, SubSeqProperties
    <3> HIDE DEF m
    <3>3. m \in Seq(S) /\ Len(m) = 4 /\ m[1] = c[1] /\ m[2] = c[2] /\ m[3] = c[3] /\ m[4] = c[4]
      BY <3>2
    <3>4. m = <<z, z, z, z>>
      BY <1>6, <3>3
    <3> QED
      BY <3>4 DEF m
  <2>2. CompressCells(<<z, z, z, z>>, <<z, z>>, <<zeroDigest[1], zeroDigest[2]>>, z)
    <3> DEFINE m == <<z, z, z, z>>
    <3>1. \A i \in 1..4 : m[i] = z
      OBVIOUS
    <3> HIDE DEF m
    <3>2. \A x \in {m[i] : i \in 1..4} \cup {z, zeroDigest[1], zeroDigest[2]} : IsCanonical128(x)
      BY <1>7, <3>1
    <3>3. CompressCells(m, <<z, z>>, <<zeroDigest[1], zeroDigest[2]>>, z)
      BY <1>8, <3>2 DEF CompressCells, m
    <3> QED
      BY <3>3 DEF m
  <2>3. \A j \in 1..9 : c[j] # NoWord
    BY <1>7, <1>9
  <2>4. CompressCells(SubSeq(c, 1, 4), <<c[5], c[6]>>, <<c[7], c[8]>>, c[9])
    BY <1>6, <2>1, <2>2
  <2> QED
    BY <1>1, <2>3, <2>4 DEF Holds, c
<1>11. After(rd, r, ins) = NextRegs(r)
  BY <1>1 DEF After
<1> QED
  BY <1>10, <1>11 DEF Runs

(* The closing jump.                                                       *)
LEMMA ClosingJump ==
  ASSUME NEW rd, NEW r \in Regs, NEW w0, NEW pc, NEW base, NEW t,
         FrameRead(rd, r.fp, w0, pc, base, t)
  PROVE  Runs(rd, r, fillClose, [pc |-> gpow(pc), fp |-> gpow(base)])
<1> DEFINE ins == fillClose
           u == ofK(gpow(pc))
           v == ofK(gpow(base))
<1>1. ins.op = "jump" /\ ins.o = <<gpow(0), gpow(0), gpow(1)>>
  BY DEF fillClose, Frame
<1>2. rd[KMul(r.fp, gpow(0))] = u /\ rd[KMul(r.fp, gpow(1))] = v /\ u \in E /\ v \in E
  <2>1. rd[KMul(r.fp, gpow(0))] = ofK(gpow(pc))
    BY FrameWords
  <2>2. rd[KMul(r.fp, gpow(1))] = ofK(gpow(base))
    BY FrameWords
  <2>3. ofK(gpow(pc)) \in E /\ ofK(gpow(base)) \in E
    BY FrameWords
  <2> QED
    BY <2>1, <2>2, <2>3
<1>3. /\ IsInK(u) /\ IsInK(v) /\ u # NoWord /\ v # NoWord
      /\ Limb(u, 0) = gpow(pc) /\ Limb(v, 0) = gpow(base)
  BY <1>2, NoWordAssumption DEF ofK, ofLimbs, Limb, IsInK
<1>4. gpow(pc) # Zero
  BY OrdAssumption DEF FrameRead, gpow, Zero
<1> HIDE DEF ins, u, v
<1>5. DOMAIN ins.o = 1..3 /\ ins.o[1] = gpow(0) /\ ins.o[2] = gpow(0) /\ ins.o[3] = gpow(1)
  BY <1>1
<1>6. \A j \in 1..3 : rd[Addresses(r, ins)[j]] = IF j = 3 THEN v ELSE u
  BY <1>2, <1>5 DEF Addresses
<1>7. Holds(rd, r, ins)
  BY <1>1, <1>3, <1>5, <1>6 DEF Holds
<1>8. After(rd, r, ins) = [pc |-> gpow(pc), fp |-> gpow(base)]
  BY <1>1, <1>2, <1>3, <1>4, <1>5 DEF After
<1> QED
  BY <1>7, <1>8 DEF Runs, ins

-----------------------------------------------------------------------------
(* The plan the fill follows is the counted fill's.                        *)
Plan ==
  INSTANCE FillerProofs WITH rows      <- runRows(job),
                       tau       <- job.tau,
                       heights   <- [t \in Tables |-> count(t, skels)],
                       RowCounts <- [Tables -> Nat]

(* What it says of sizes, room and counts is what the builder's plan says. *)
LEMMA SamePlan ==
  /\ Plan!Tables = Tables /\ Plan!Ladder = Ladder /\ Plan!fillSizes = fillSizes
  /\ \A r, e : Plan!Fits(r, e) <=> Fits(r, e)
  /\ \A r, e, t : Plan!planCount(r, e, t) = planCount(r, e, t)
<1> USE DEF Plan!Pow2, Pow2, Plan!Ladder, Ladder, Plan!fillTables, fillTables, Plan!Tables, Tables,
            Plan!Max, Max, Plan!fillSizes, fillSizes, Plan!SumUpTo, SumUpTo, Plan!minRows, minRows, Plan!clog2, clog2,
            Plan!fillTarget, fillTarget, Plan!fillGreedy, fillGreedy, Plan!fillOf, fillOf,
            Plan!Traversals, Traversals, Plan!fillJumps, fillJumps, Plan!jumpOwed, jumpOwed
<1>1. Plan!Tables = Tables /\ Plan!Ladder = Ladder /\ Plan!fillSizes = fillSizes
  OBVIOUS
<1>2. ASSUME NEW r, NEW e
      PROVE  Plan!Fits(r, e) = Fits(r, e)
  BY DEF Plan!Fits, Fits, Plan!JumpFits, JumpFits
<1>3. ASSUME NEW r, NEW e, NEW t
      PROVE  Plan!planCount(r, e, t) = planCount(r, e, t)
  BY DEF Plan!planCount, planCount, Plan!jumpCount, jumpCount, Plan!jumpMix, jumpMix
<1> QED
  BY ONLY <1>1, <1>2, <1>3

(* What it assumes of its constants holds of the builder's.                *)
LEMMA PlanAssumed == Plan!LadderAssumption /\ Plan!CountsAssumption
BY LadderAssumption, SamePlan DEF Plan!LadderAssumption, Plan!CountsAssumption

(* Quotients are unique.                                                   *)
LEMMA DivModOnce ==
  ASSUME NEW s \in Nat \ {0}, NEW q \in Nat, NEW r \in 0..s - 1, NEW x, x = s * q + r
  PROVE  x % s = r
BY PlanAssumed, Plan!DivModUnique

(* The blocks hold at least one row.                                       *)
LEMMA BlockSizes == \A k \in Ladder : fillSizes[k] \in Nat \ {0}
BY PlanAssumed, Plan!LadderSizes, SamePlan

(* A count is a natural.                                                   *)
LEMMA CountType ==
  ASSUME NEW s, NEW N \in Nat, DOMAIN s = 1..N, NEW t
  PROVE  count(t, s) \in Nat
<1> DEFINE A == {i \in DOMAIN s : s[i].ins.op = t}
<1>1. IsFiniteSet(1..N)
  BY FS_Interval
<1>2. IsFiniteSet(A) /\ Cardinality(A) \in Nat
  BY <1>1, FS_Subset, FS_CardinalityType
<1> QED
  BY <1>2 DEF count

(* A run leaves a natural number of rows in every table.                   *)
LEMMA RunRowsType ==
  ASSUME job \in Jobs
  PROVE  runRows(job) \in [Tables -> Nat] /\ Fits(runRows(job), job.tau)
<1>1. IsJob(job)
  BY JobAssumption
<1> DEFINE s == runSkels(job.prog, job.regs)
           N == Len(job.regs) - 1
<1>2. N \in Nat
  <2>1. Len(job.regs) \in Nat /\ Len(job.regs) # 0
    BY <1>1, EmptySeq, LenProperties DEF IsJob
  <2> QED
    BY <2>1
<1>3. DOMAIN s = 1..N
  BY DEF runSkels
<1> HIDE DEF s, N
<1>4. \A t \in Tables : count(t, s) \in Nat
  BY <1>2, <1>3, CountType
<1>5. runRows(job) = [t \in Tables |-> count(t, s)]
  BY DEF runRows, s
<1> QED
  BY <1>1, <1>4, <1>5 DEF IsJob

(* The plan traverses every block a natural number of times.               *)
LEMMA PlanCounts ==
  ASSUME job \in Jobs, NEW t \in Tables, NEW k \in Ladder
  PROVE  planCount(runRows(job), job.tau, t)[k] \in Nat
<1>1. PICK i \in 1..6 : t = fillTables[i]
  BY DEF Tables
<1>2. Plan!plan(i) \in [Ladder -> Nat]
  BY PlanAssumed, RunRowsType, Plan!PlanFacts, SamePlan
<1>3. Plan!fillTables = fillTables
  BY DEF Plan!fillTables, fillTables
<1>4. Plan!plan(i) = planCount(runRows(job), job.tau, t)
  BY <1>1, <1>3, SamePlan DEF Plan!plan
<1> QED
  BY <1>2, <1>4

-----------------------------------------------------------------------------
-----------------------------------------------------------------------------
(* Division, put once for all.                                             *)
LEMMA DivMod ==
  ASSUME NEW c \in Nat, NEW d \in Nat \ {0}
  PROVE  c \div d \in Nat /\ c % d \in 0..d - 1 /\ c = d * (c \div d) + (c % d)
OBVIOUS

(* What a job gives: the padded image stays within the order of g, and the *)
(* frames lie in its upper half.                                           *)
Depth == LadderTop + 1

(* The image of a job has room for the frames below its doubled size, and  *)
(* its doubled size is a height the caps allow.                            *)
LEMMA JobShape ==
  ASSUME NEW j \in Jobs
  PROVE  /\ IsProgram(j.prog) /\ IsImage(j.image)
         /\ j.image.size \in Nat \ {0} /\ 12 * Frames <= j.image.size /\ 2 * j.image.size <= MaxCells
         /\ j.image.size >= MinCells
         /\ MaxCells <= Ord /\ MaxCells \in Nat /\ MinCells \in Nat
         /\ Depth \in Nat /\ Depth >= 2 /\ Frames = 6 * Depth
<1>1. IsJob(j)
  BY JobAssumption
<1>2. /\ IsProgram(j.prog) /\ IsImage(j.image) /\ 2 * j.image.size <= MaxCells
      /\ j.image.size \in Nat \ {0} /\ j.image.size >= MinCells
  BY <1>1, WindowAssumption DEF IsJob, IsImage, ValidExecution, HasPublicBoundary
<1>3. Depth \in Nat /\ Depth >= 2
  BY LadderAssumption DEF Depth
<1>4. Frames = 6 * Depth
  BY DEF Frames, Depth, fillTables
<1>5. 12 * Frames <= MinCells
  BY RoomAssumption DEF FrameCells
<1> QED
  BY <1>2, <1>3, <1>4, <1>5, WindowAssumption

(* The cycles of the fill: six tables by the ladder.                       *)
LEMMA CyclePlaces ==
  ASSUME NEW c \in 0..Cycles - 1
  PROVE  /\ tableOf(c) \in Tables /\ indexOf(c) \in Ladder
         /\ frameOf(tableOf(c), indexOf(c)) = c
         /\ fillTables[(c \div (LadderTop + 1)) + 1] = tableOf(c) /\ c % (LadderTop + 1) = indexOf(c)
<1> DEFINE q == c \div Depth
<1>1. Depth \in Nat \ {0} /\ Cycles = 6 * Depth
  BY LadderAssumption DEF Depth, Cycles, Frames, fillTables
<1>2. q \in Nat /\ c % Depth \in 0..Depth - 1 /\ c = Depth * q + (c % Depth) /\ c < 6 * Depth
  <2>1. c \in Nat /\ c < 6 * Depth
    BY <1>1
  <2>2. c \div Depth \in Nat /\ c % Depth \in 0..Depth - 1 /\ c = Depth * (c \div Depth) + (c % Depth)
    BY <1>1, <2>1, DivMod
  <2> QED
    BY <2>1, <2>2
<1> HIDE DEF q
<1>3. q \in 0..5
  <2>1. CASE q >= 6
    <3>1. Depth * q >= Depth * 6
      BY <1>1, <1>2, <2>1
    <3> QED
      BY <1>1, <1>2, <3>1
  <2> QED
    BY <1>2, <2>1
<1>4. \A i \in 1..6 : fillTables[i] = fillTables[q + 1] => i = q + 1
  BY <1>3 DEF fillTables
<1>5. tableIdx(fillTables[q + 1]) = q
  <2>1. q + 1 \in 1..6
    BY <1>3
  <2>2. (CHOOSE i \in 1..6 : fillTables[i] = fillTables[q + 1]) = q + 1
    BY <1>4, <2>1
  <2>3. (q + 1) - 1 = q
    BY <1>3
  <2> QED
    BY <2>2, <2>3 DEF tableIdx
<1>6. tableOf(c) = fillTables[q + 1] /\ indexOf(c) = c % Depth
  BY DEF tableOf, indexOf, q, Depth
<1>7. frameOf(tableOf(c), indexOf(c)) = Depth * q + (c % Depth)
  BY <1>5, <1>6 DEF frameOf, Depth
<1>8. tableOf(c) \in Tables
  <2>1. q + 1 \in 1..6
    BY <1>3
  <2> QED
    BY <1>6, <2>1 DEF Tables
<1>9. indexOf(c) \in Ladder
  BY <1>1, <1>2, <1>6, LadderAssumption DEF Ladder, Depth
<1>10. frameOf(tableOf(c), indexOf(c)) = c
  BY <1>2, <1>7
<1> QED
  BY <1>8, <1>9, <1>10 DEF tableOf, indexOf

(* A word of the padded image: a committed one, or one of a frame.         *)
LEMMA PaddedCells ==
  ASSUME NEW j \in Jobs
  PROVE  /\ IsImage(padded(j)) /\ padded(j).size = 2 * j.image.size
         /\ \A i \in 0..j.image.size - 1 : padded(j).cell[i] = j.image.cell[i]
         /\ \A c \in 0..Cycles - 1 : \A o \in 0..11 :
              /\ frameBase(j.image.size, c) + o \in 0..2 * j.image.size - 1
              /\ padded(j).cell[frameBase(j.image.size, c) + o]
                  = frameCell(j.image.cell[0], j.pcs[tableOf(c)][indexOf(c)],
                              frameBase(j.image.size, c), tableOf(c), o)
<1> DEFINE n == j.image.size
           L == padded(j)
<1>1. /\ n \in Nat \ {0} /\ j.image.cell \in [0..n - 1 -> E] /\ 12 * Frames <= n
      /\ Frames \in Nat
  <2>1. /\ IsImage(j.image) /\ n \in Nat \ {0} /\ 12 * Frames <= n /\ Depth \in Nat /\ Frames = 6 * Depth
    BY JobShape
  <2>2. j.image.cell \in [0..n - 1 -> E]
    BY <2>1 DEF IsImage
  <2> HIDE DEF n
  <2> QED
    BY <2>1, <2>2
<1>2. L = [size |-> 2 * n,
           cell |-> [i \in 0..2 * n - 1 |->
                       IF i < n THEN j.image.cell[i] ELSE padCell(j.image.cell[0], j.pcs, n, i - n)]]
  BY DEF padded, padImage
<1>3. \A i \in 0..n - 1 : L.cell[i] = j.image.cell[i]
  BY <1>1, <1>2
<1>4. ASSUME NEW c \in 0..Cycles - 1, NEW o \in 0..11
      PROVE  /\ frameBase(n, c) + o \in 0..2 * n - 1
             /\ L.cell[frameBase(n, c) + o]
                 = frameCell(j.image.cell[0], j.pcs[tableOf(c)][indexOf(c)],
                             frameBase(n, c), tableOf(c), o)
  <2>1. c \in Nat /\ c < Frames
    BY <1>1, <1>4 DEF Cycles
  <2>2. (12 * c + o) \div 12 = c /\ (12 * c + o) % 12 = o
    BY <1>4, <2>1
  <2>3. frameBase(n, c) + o = n + (12 * c + o) /\ 12 * c + o \in 0..n - 1
    BY <1>1, <1>4, <2>1 DEF frameBase, FrameCells
  <2>4. frameBase(n, c) + o \in 0..2 * n - 1 /\ ~(frameBase(n, c) + o < n)
        /\ (frameBase(n, c) + o) - n = 12 * c + o
    BY <1>1, <2>3
  <2>5. L.cell[frameBase(n, c) + o] = padCell(j.image.cell[0], j.pcs, n, 12 * c + o)
    BY <1>2, <2>4
  <2>6. fillTables[(c \div (LadderTop + 1)) + 1] = tableOf(c) /\ c % (LadderTop + 1) = indexOf(c)
    BY <1>4, CyclePlaces
  <2>7. padCell(j.image.cell[0], j.pcs, n, 12 * c + o)
          = frameCell(j.image.cell[0], j.pcs[tableOf(c)][indexOf(c)], frameBase(n, c), tableOf(c), o)
    BY <2>1, <2>2, <2>6 DEF padCell, FrameCells
  <2> QED
    BY <2>4, <2>5, <2>7
<1>5. ASSUME NEW i \in 0..2 * n - 1
      PROVE  L.cell[i] \in E
  <2>1. CASE i < n
    BY <1>1, <1>2, <1>5, <2>1
  <2>2. CASE i >= n
    <3>1. L.cell[i] = padCell(j.image.cell[0], j.pcs, n, i - n) /\ i - n \in Nat
      BY <1>1, <1>2, <1>5, <2>2
    <3> DEFINE c == (i - n) \div 12
               o == (i - n) % 12
    <3>2. c \in Nat /\ o \in 0..11
      BY <3>1
    <3> HIDE DEF c, o
    <3>3. \A k \in K : ofK(k) \in E
      BY FieldTypes DEF E, ofK, ofLimbs
    <3>4. CASE c < Frames
      <4>1. L.cell[i] = frameCell(j.image.cell[0], j.pcs[tableOf(c)][indexOf(c)],
                                  frameBase(n, c), tableOf(c), o)
        BY <3>1, <3>4 DEF padCell, FrameCells, tableOf, indexOf, c, o
      <4>2. c \in 0..Cycles - 1
        BY <1>1, <3>2, <3>4 DEF Cycles
      <4>3. j.pcs[tableOf(c)][indexOf(c)] \in Nat
        <5>1. AreStarts(j.prog, j.pcs)
          BY JobAssumption DEF IsJob
        <5> QED
          BY <4>2, <5>1, CyclePlaces DEF AreStarts
      <4>4. frameBase(n, c) \in Nat
        BY <1>1, <3>2 DEF frameBase, FrameCells
      <4>5. /\ ofK(gpow(j.pcs[tableOf(c)][indexOf(c)])) \in E /\ ofK(gpow(frameBase(n, c))) \in E
            /\ ofK(One) \in E /\ ofK(Zero) \in E
        BY <3>3, <4>3, <4>4, PowersInK, FieldTypes
      <4>6. j.image.cell[0] \in E /\ zeroDigest[1] \in E /\ zeroDigest[2] \in E
        BY <1>1, DigestAssumption
      <4> QED
        BY <4>1, <4>5, <4>6 DEF frameCell
    <3>5. CASE ~(c < Frames)
      <4>1. L.cell[i] = ofK(Zero)
        BY <3>1, <3>5 DEF padCell, FrameCells, c
      <4> QED
        BY <3>3, <4>1, FieldTypes
    <3> QED
      BY <3>4, <3>5
  <2> QED
    BY <1>1, <1>5, <2>1, <2>2
<1>6. IsImage(L) /\ L.size = 2 * n
  <2>1. L.size = 2 * n /\ L = [size |-> L.size, cell |-> L.cell] /\ L.cell = [i \in 0..2 * n - 1 |-> L.cell[i]]
    BY <1>2
  <2> HIDE DEF L
  <2> HIDE DEF n
  <2>2. L.cell \in [0..L.size - 1 -> E] /\ L.size \in Nat \ {0}
    <3>1. 2 * n \in Nat \ {0}
      BY <1>1
    <3> QED
      BY <1>5, <2>1, <3>1
  <2> QED
    BY <2>1, <2>2 DEF IsImage
<1> QED
  BY <1>3, <1>4, <1>6

-----------------------------------------------------------------------------
(* Below the order an index and its address name each other.               *)
LEMMA IndexNames ==
  ASSUME NEW n \in Nat, n <= Ord, NEW i \in 0..n - 1
  PROVE  /\ gpow(i) = i /\ i \in K /\ i # Zero
         /\ HasIndex(n, gpow(i)) /\ gLog(n, gpow(i)) = i
<1>1. \A l \in 0..n - 1 : l \in 0..Ord - 1 /\ gpow(l) = l
  BY BelowOrder, OrdAssumption
<1>2. HasIndex(n, gpow(i))
  BY DEF HasIndex
<1>3. \A l \in 0..n - 1 : gpow(l) = gpow(i) => l = i
  BY <1>1
<1>4. gLog(n, gpow(i)) = i
  BY <1>3 DEF gLog
<1> QED
  BY <1>1, <1>2, <1>4, OrdAssumption DEF K, Zero

(* The frame of a cycle is read from its block.                            *)
LEMMA FrameIsRead ==
  ASSUME NEW j \in Jobs, NEW c \in 0..Cycles - 1
  PROVE  FrameRead(reader(padded(j)), gpow(frameBase(j.image.size, c)), j.image.cell[0],
                   j.pcs[tableOf(c)][indexOf(c)], frameBase(j.image.size, c), tableOf(c))
<1> DEFINE n == j.image.size
           L == padded(j)
           base == frameBase(n, c)
           pc == j.pcs[tableOf(c)][indexOf(c)]
           fp == gpow(base)
<1>1. /\ n \in Nat \ {0} /\ 2 * n <= Ord /\ n >= 24 /\ Frames \in Nat /\ 12 * Frames <= n
  <2>1. /\ j.image.size \in Nat \ {0} /\ 12 * Frames <= j.image.size /\ 2 * j.image.size <= MaxCells
        /\ MaxCells <= Ord /\ MaxCells \in Nat /\ Depth \in Nat /\ Depth >= 2 /\ Frames = 6 * Depth
    BY JobShape
  <2> QED
    BY <2>1, OrdAssumption
<1>2. c \in Nat /\ c + 1 <= Frames
  BY <1>1 DEF Cycles
<1>3. base \in Nat /\ base + 11 < 2 * n
  BY <1>1, <1>2 DEF frameBase, FrameCells
<1>4. IsImage(L) /\ L.size = 2 * n
  BY PaddedCells
<1>5. pc \in Nat /\ tableOf(c) \in Tables
  <2>1. AreStarts(j.prog, j.pcs)
    BY JobAssumption DEF IsJob
  <2> QED
    BY <2>1, CyclePlaces DEF AreStarts
<1>6. j.image.cell[0] \in E /\ L.cell[0] = j.image.cell[0]
  <2>1. IsImage(j.image) /\ 0 \in 0..n - 1
    BY <1>1, JobShape
  <2>2. j.image.cell[0] \in E
    BY <2>1 DEF IsImage
  <2> QED
    BY <2>1, <2>2, PaddedCells
<1> HIDE DEF n, L, pc
<1>7. ASSUME NEW o \in 0..11
      PROVE  KMul(fp, gpow(o)) = base + o /\ gpow(o) = o /\ fp = base
  <2>1. base \in 0..Ord - 1 /\ o \in 0..Ord - 1 /\ base + o \in 0..Ord - 1
    BY <1>1, <1>3, <1>7, OrdAssumption
  <2>2. gpow(base) = base /\ gpow(o) = o /\ gpow(base + o) = base + o
    BY <2>1, BelowOrder
  <2> HIDE DEF base
  <2>3. base # Zero /\ o # Zero
    BY <2>1, OrdAssumption DEF Zero
  <2>4. KMul(base, o) = (base + o) % Ord
    BY <2>3 DEF KMul
  <2> QED
    BY <2>2, <2>4 DEF gpow
<1>8. ASSUME NEW o \in 0..11
      PROVE  reader(L)[KMul(fp, gpow(o))] = frameCell(j.image.cell[0], pc, base, tableOf(c), o)
  <2>1. base + o \in 0..2 * n - 1
    BY <1>1, <1>3, <1>8
  <2>2. /\ gpow(base + o) = base + o /\ base + o \in K
        /\ HasIndex(2 * n, gpow(base + o)) /\ gLog(2 * n, gpow(base + o)) = base + o
    BY <1>1, <2>1, IndexNames
  <2>3. reader(L)[base + o] = L.cell[base + o]
    BY <1>4, <2>2 DEF reader, read
  <2>4. L.cell[base + o] = frameCell(j.image.cell[0], pc, base, tableOf(c), o)
    BY <1>8, PaddedCells DEF L, n, pc
  <2> QED
    BY <1>7, <1>8, <2>3, <2>4
<1>9. ASSUME NEW o \in 0..10
      PROVE  KMul(gpow(1), KMul(fp, gpow(o))) = KMul(fp, gpow(o + 1))
  <2>1. o \in 0..11 /\ o + 1 \in 0..11
    BY <1>9
  <2>2. KMul(fp, gpow(o)) = base + o /\ KMul(fp, gpow(o + 1)) = base + (o + 1)
    BY <1>7, <2>1
  <2>3. base + o \in 0..Ord - 1 /\ (base + o) + 1 < Ord
    BY <1>1, <1>3, <1>9, OrdAssumption
  <2>4. KMul(gpow(1), base + o) = (base + o) + 1
    BY <2>3, BelowOrder
  <2> QED
    BY <1>3, <1>9, <2>2, <2>4
<1>10. reader(L)[gpow(0)] = j.image.cell[0]
  <2>1. 0 \in 0..2 * n - 1 /\ 2 * n \in Nat
    BY <1>1
  <2>2. gpow(0) = 0 /\ 0 \in K /\ HasIndex(2 * n, gpow(0)) /\ gLog(2 * n, gpow(0)) = 0
    BY <1>1, <2>1, IndexNames
  <2> QED
    BY <1>4, <1>6, <2>2 DEF reader, read
<1>11. fp \in K
  BY <1>3, PowersInK
<1> QED
  BY <1>3, <1>5, <1>6, <1>8, <1>9, <1>10, <1>11 DEF FrameRead, n, L, pc

-----------------------------------------------------------------------------
(* The skeletons.  A sound one is an instruction of the program that holds *)
(* over the padded image.                                                  *)
Skels == [regs : Regs, ins : Instr]

Sound(j, s) ==
  /\ s \in Skels /\ s.ins = fetch(j.prog, s.regs.pc)
  /\ Holds(reader(padded(j)), s.regs, s.ins)

stepOf(j, r) == step(j.prog, padded(j), r)

(* A cycle: sound skeletons away from the sentinel, each stepping to the   *)
(* next one and the last to the first.                                     *)
ClosedCycle(j, cs) ==
  /\ cs \in Seq(Skels) /\ Len(cs) \in Nat \ {0}
  /\ \A i \in 1..Len(cs) :
       /\ Sound(j, cs[i]) /\ cs[i].regs.pc # FinalPc(j.prog)
       /\ stepOf(j, cs[i].regs) = cs[IF i = Len(cs) THEN 1 ELSE i + 1].regs

(* The skeletons of a cycle of blocks form a closed cycle: each steps to   *)
(* the next, and the last jumps back to the first (cycleSkels).            *)
LEMMA CycleCloses ==
  ASSUME NEW j \in Jobs, NEW c \in 0..Cycles - 1
  PROVE  ClosedCycle(j, cycleSkels(j.image.size, j.pcs, tableOf(c), indexOf(c)))
<1> DEFINE t == tableOf(c)
           k == indexOf(c)
           s == fillSizes[k]
           start == j.pcs[t][k]
           n == j.image.size
           base == frameBase(n, c)
           cs == cycleSkels(n, j.pcs, t, k)
           rd == reader(padded(j))
           P == j.prog
<1>1. t \in Tables /\ k \in Ladder /\ frameOf(t, k) = c
  BY CyclePlaces
<1>2. s \in Nat \ {0}
  BY <1>1, BlockSizes
<1>3. start \in Nat /\ IsFillBlock(P, t, s, start)
  <2>1. AreStarts(j.prog, j.pcs)
    BY JobAssumption DEF IsJob
  <2> QED
    BY <1>1, <2>1 DEF AreStarts
<1>4. P.size \in 1..Ord /\ P.code \in [0..P.size - 1 -> Instr]
  <2>1. IsProgram(P)
    BY JobShape
  <2> QED
    BY <2>1 DEF IsProgram
<1>5. FrameRead(rd, gpow(base), j.image.cell[0], start, base, t)
  BY FrameIsRead
<1>6. cs = [i \in 1..s + 1 |-> Skel([pc |-> gpow(start + i - 1), fp |-> gpow(base)],
                                   IF i <= s THEN fillDummy(t) ELSE fillClose)]
  BY <1>1 DEF cycleSkels
<1> HIDE DEF t, k, s, start, n, base, cs, rd, P
<1>7. ASSUME NEW i \in 1..s + 1
      PROVE  /\ start + i - 1 \in 0..P.size - 2 /\ gpow(start + i - 1) = start + i - 1
             /\ gpow(start + i - 1) \in K
             /\ P.code[start + i - 1] = (IF i <= s THEN fillDummy(t) ELSE fillClose)
             /\ P.code[start + i - 1] \in Instr
             /\ fetch(P, gpow(start + i - 1)) = P.code[start + i - 1]
             /\ gpow(start + i - 1) # FinalPc(P)
  <2> DEFINE at == start + i - 1
  <2>1. at \in Nat /\ start + s + 1 < P.size /\ at \in 0..P.size - 2 /\ at \in 0..P.size - 1
        /\ P.size \in Nat /\ P.size <= Ord
    BY <1>2, <1>3, <1>4, <1>7 DEF IsFillBlock
  <2>2. gpow(at) = at /\ at \in K /\ HasIndex(P.size, gpow(at)) /\ gLog(P.size, gpow(at)) = at
    BY <2>1, IndexNames
  <2>3. gpow(P.size - 1) = P.size - 1
    <3>1. P.size - 1 \in 0..P.size - 1
      BY <2>1
    <3> QED
      BY <2>1, <3>1, IndexNames
  <2>4. P.code[at] = (IF i <= s THEN fillDummy(t) ELSE fillClose)
    <3>1. CASE i <= s
      <4>1. i - 1 \in 0..s - 1 /\ start + (i - 1) = at
        BY <1>2, <1>3, <1>7, <3>1
      <4>2. P.code[start + (i - 1)] = fillDummy(t)
        BY <1>3, <4>1 DEF IsFillBlock
      <4> QED
        BY <3>1, <4>1, <4>2
    <3>2. CASE ~(i <= s)
      <4>1. at = start + s
        BY <1>2, <1>3, <1>7, <3>2
      <4>2. P.code[start + s] = fillClose
        BY <1>3 DEF IsFillBlock
      <4> QED
        BY <3>2, <4>1, <4>2
    <3> QED
      BY <3>1, <3>2
  <2>5. P.code[at] \in Instr
    BY <1>4, <2>1
  <2>6. fetch(P, gpow(at)) = P.code[at]
    BY <2>2 DEF fetch
  <2>7. gpow(at) # FinalPc(P)
    BY <2>1, <2>2, <2>3 DEF FinalPc
  <2> HIDE DEF at
  <2> QED
    BY <2>1, <2>2, <2>4, <2>5, <2>6, <2>7 DEF at
<1>8. gpow(base) \in K
  BY <1>5 DEF FrameRead
<1> DEFINE regs(i) == [pc |-> gpow(start + i - 1), fp |-> gpow(base)]
<1>9. ASSUME NEW i \in 1..s + 1
      PROVE  /\ cs[i].regs = regs(i) /\ cs[i].regs \in Regs
             /\ cs[i].ins = fetch(P, cs[i].regs.pc) /\ cs[i].ins \in Instr /\ cs[i] \in Skels
             /\ cs[i].ins = (IF i <= s THEN fillDummy(t) ELSE fillClose)
             /\ cs[i].regs.pc # FinalPc(P)
  <2> DEFINE ins == IF i <= s THEN fillDummy(t) ELSE fillClose
  <2>1. cs[i] = [regs |-> regs(i), ins |-> ins]
    BY <1>6, <1>9 DEF Skel
  <2>2. /\ gpow(start + i - 1) \in K /\ fetch(P, gpow(start + i - 1)) = ins /\ ins \in Instr
        /\ gpow(start + i - 1) # FinalPc(P)
    BY <1>7, <1>9
  <2>3. regs(i) \in Regs /\ regs(i).pc = gpow(start + i - 1)
    BY <1>8, <2>2 DEF Regs
  <2> HIDE DEF ins, regs
  <2>4. cs[i].regs = regs(i) /\ cs[i].ins = ins /\ cs[i] \in Skels
    BY <2>1, <2>2, <2>3 DEF Skels
  <2> QED
    BY <2>2, <2>3, <2>4 DEF ins
<1>10. ASSUME NEW i \in 1..s + 1
       PROVE  Runs(rd, cs[i].regs, cs[i].ins, cs[IF i = s + 1 THEN 1 ELSE i + 1].regs)
  <2>1. cs[i].regs = regs(i) /\ cs[i].regs \in Regs
        /\ cs[i].ins = (IF i <= s THEN fillDummy(t) ELSE fillClose)
    BY <1>9, <1>10
  <2>2. regs(i).fp = gpow(base) /\ regs(i).pc = gpow(start + i - 1)
    OBVIOUS
  <2>3. FrameRead(rd, cs[i].regs.fp, j.image.cell[0], start, base, t)
    BY <1>5, <2>2, <2>1
  <2>4. CASE i <= s
    <3>1. Runs(rd, cs[i].regs, fillDummy(t), NextRegs(cs[i].regs))
      BY <1>1, <2>1, <2>3, PlainDummies, DerefDummy, Blake2sDummy
    <3>2. i + 1 \in 1..s + 1 /\ i # s + 1
      BY <1>2, <1>10, <2>4
    <3> DEFINE at == start + i - 1
    <3>3. start + (i + 1) - 1 = at + 1 /\ at \in 0..P.size - 2 /\ gpow(at) = at
      BY <1>3, <1>7, <1>10
    <3> HIDE DEF at
    <3>4. at \in 0..Ord - 1 /\ at + 1 < Ord /\ at + 1 \in 0..Ord - 1
      BY <1>4, <3>3, OrdAssumption
    <3>5. KMul(gpow(1), gpow(at)) = at + 1 /\ gpow(at + 1) = at + 1
      BY <3>3, <3>4, BelowOrder
    <3>6. cs[i + 1].regs = regs(i + 1) /\ regs(i + 1) = [pc |-> gpow(at + 1), fp |-> gpow(base)]
      BY <1>9, <3>2, <3>3
    <3>7. NextRegs(cs[i].regs) = cs[i + 1].regs
      BY <2>2, <2>1, <3>5, <3>6 DEF NextRegs, at
    <3> QED
      BY <2>1, <2>4, <3>1, <3>2, <3>7
  <2>5. CASE ~(i <= s)
    <3>1. i = s + 1 /\ 1 \in 1..s + 1 /\ start + 1 - 1 = start
      BY <1>2, <1>3, <1>10, <2>5
    <3>2. Runs(rd, cs[i].regs, fillClose, [pc |-> gpow(start), fp |-> gpow(base)])
      BY <2>1, <2>3, ClosingJump
    <3>3. cs[1].regs = regs(1) /\ regs(1) = [pc |-> gpow(start), fp |-> gpow(base)]
      BY <1>9, <3>1
    <3> QED
      BY <2>1, <2>5, <3>1, <3>2, <3>3
  <2> QED
    BY <2>4, <2>5
<1>11. cs \in Seq(Skels) /\ Len(cs) = s + 1
  <2>1. s + 1 \in Nat /\ cs = [i \in 1..s + 1 |-> cs[i]]
    BY <1>2, <1>6
  <2>2. cs \in [1..s + 1 -> Skels]
    BY <1>9, <2>1
  <2> QED
    BY <2>1, <2>2
<1>12. ASSUME NEW i \in 1..s + 1
       PROVE  /\ Sound(j, cs[i]) /\ cs[i].regs.pc # FinalPc(P)
              /\ stepOf(j, cs[i].regs) = cs[IF i = s + 1 THEN 1 ELSE i + 1].regs
  <2>1. Holds(rd, cs[i].regs, cs[i].ins)
        /\ After(rd, cs[i].regs, cs[i].ins) = cs[IF i = s + 1 THEN 1 ELSE i + 1].regs
    BY <1>10, <1>12 DEF Runs
  <2>2. cs[i].ins # NoInstr
    BY <1>9, <1>12, NoInstrAssumption
  <2> QED
    BY <1>9, <1>12, <2>1, <2>2 DEF Sound, stepOf, step, executeWith, rd, P
<1>13. ClosedCycle(j, cs)
  BY <1>2, <1>11, <1>12 DEF ClosedCycle, P
<1> QED
  BY <1>13 DEF cs, n, t, k

-----------------------------------------------------------------------------
(* What holds over an image holds over one that extends it.                *)
Extended(rd1, rd2) ==
  \A a \in K : rd1[a] # NoWord => rd1[a] \in E /\ rd2[a] = rd1[a]

(* An instruction satisfied over an image is satisfied over one that       *)
(* extends it, with the same next registers.                               *)
LEMMA HoldsGrows ==
  ASSUME NEW rd1, NEW rd2, Extended(rd1, rd2), NEW r \in Regs, NEW ins \in Instr,
         Holds(rd1, r, ins)
  PROVE  Holds(rd2, r, ins) /\ After(rd2, r, ins) = After(rd1, r, ins)
<1> DEFINE a == Addresses(r, ins)
           b == Blake2sAddresses(r, ins)
<1>1. /\ ins.op \in Opcodes
      /\ ins.o \in [1..Arity(ins.op) -> K] /\ DOMAIN ins.o = 1..Arity(ins.op)
      /\ ins.op = "deref" => ins.mode \in {"cell", "pc", "fp"}
  BY InstrShape
<1>2. r.pc \in K /\ r.fp \in K
  BY DEF Regs
<1>3. \A j \in DOMAIN ins.o : a[j] = KMul(r.fp, ins.o[j]) /\ a[j] \in K
  BY <1>1, <1>2, FieldTypes DEF Addresses
<1>4. \A x \in K : rd1[x] # NoWord => rd1[x] \in E /\ rd2[x] = rd1[x] /\ rd2[x] # NoWord
  BY DEF Extended
<1> HIDE DEF a, b
<1>5. CASE ins.op \in {"xor", "mulNative", "setConstant", "jump"}
  <2>1. \A j \in DOMAIN ins.o : rd1[a[j]] # NoWord
    BY <1>5 DEF Holds, a
  <2>2. \A j \in DOMAIN ins.o : rd2[a[j]] = rd1[a[j]]
    BY <1>3, <1>4, <2>1
  <2>3. [j \in DOMAIN ins.o |-> rd2[a[j]]] = [j \in DOMAIN ins.o |-> rd1[a[j]]]
    BY <2>2
  <2>4. Holds(rd2, r, ins)
    BY <1>5, <2>3 DEF Holds, a
  <2>5. After(rd2, r, ins) = After(rd1, r, ins)
    <3>1. CASE ins.op = "jump"
      <4>1. 1 \in DOMAIN ins.o /\ 2 \in DOMAIN ins.o /\ 3 \in DOMAIN ins.o
        BY <1>1, <3>1 DEF Arity
      <4>2. /\ rd2[KMul(r.fp, ins.o[1])] = rd1[KMul(r.fp, ins.o[1])]
            /\ rd2[KMul(r.fp, ins.o[2])] = rd1[KMul(r.fp, ins.o[2])]
            /\ rd2[KMul(r.fp, ins.o[3])] = rd1[KMul(r.fp, ins.o[3])]
        BY <1>3, <2>2, <4>1
      <4> QED
        BY <4>2 DEF After
    <3>2. CASE ins.op # "jump"
      BY <3>2 DEF After
    <3> QED
      BY <3>1, <3>2
  <2> QED
    BY <2>4, <2>5
<1>6. CASE ins.op = "deref"
  <2>1. DOMAIN ins.o = 1..3 /\ ins.o[2] \in K
    BY <1>1, <1>6 DEF Arity
  <2>2. a[1] \in K /\ a[3] \in K
    BY <1>3, <2>1
  <2> DEFINE ptr == KMul(Limb(rd1[a[1]], 0), ins.o[2])
  <2>3. /\ rd1[a[1]] # NoWord /\ IsInK(rd1[a[1]]) /\ rd1[a[3]] # NoWord
        /\ rd1[ptr] # NoWord /\ rd1[ptr] = derefSource(ins.mode, r, rd1[a[3]])
    BY <1>6, <2>1 DEF Holds, a
  <2>4. rd2[a[1]] = rd1[a[1]] /\ rd2[a[3]] = rd1[a[3]] /\ rd1[a[1]] \in E
    BY <1>4, <2>2, <2>3
  <2>5. ptr \in K
    <3>1. Limb(rd1[a[1]], 0) \in K
      BY <2>4 DEF E, Limb
    <3> QED
      BY <2>1, <3>1, FieldTypes
  <2>6. rd2[ptr] = rd1[ptr]
    BY <1>4, <2>3, <2>5
  <2>7. /\ rd2[a[1]] # NoWord /\ IsInK(rd2[a[1]]) /\ rd2[a[3]] # NoWord
        /\ rd2[KMul(Limb(rd2[a[1]], 0), ins.o[2])] # NoWord
        /\ rd2[KMul(Limb(rd2[a[1]], 0), ins.o[2])] = derefSource(ins.mode, r, rd2[a[3]])
    BY <2>3, <2>4, <2>6
  <2>8. Holds(rd2, r, ins)
    BY <1>6, <2>1, <2>7 DEF Holds, a
  <2>9. After(rd2, r, ins) = After(rd1, r, ins)
    BY <1>6 DEF After
  <2> QED
    BY <2>8, <2>9
<1>7. CASE ins.op = "blake2s"
  <2>1. DOMAIN ins.o = 1..7
    BY <1>1, <1>7 DEF Arity
  <2>2. \A j \in 1..7 : a[j] \in K
    BY <1>3, <2>1
  <2>3. gpow(1) \in K
    BY PowersInK
  <2>4. KMul(gpow(1), a[5]) \in K /\ KMul(gpow(1), a[6]) \in K
    BY <2>2, <2>3, FieldTypes
  <2>5. b = <<a[1], a[2], a[3], a[4], a[5], KMul(gpow(1), a[5]), a[6], KMul(gpow(1), a[6]), a[7]>>
    BY DEF b, Blake2sAddresses, a
  <2>6. /\ b[1] \in K /\ b[2] \in K /\ b[3] \in K /\ b[4] \in K /\ b[5] \in K
        /\ b[6] \in K /\ b[7] \in K /\ b[8] \in K /\ b[9] \in K
    BY <2>2, <2>4, <2>5
  <2>7. \A j \in 1..9 : b[j] \in K
    <3>1. \A j \in 1..9 : j \in {1, 2, 3, 4, 5, 6, 7, 8, 9}
      OBVIOUS
    <3> QED
      BY <2>6, <3>1
  <2>8. \A j \in 1..9 : rd1[b[j]] # NoWord
    BY <1>7 DEF Holds, b
  <2>9. \A j \in 1..9 : rd2[b[j]] = rd1[b[j]]
    BY <1>4, <2>7, <2>8
  <2>10. [j \in 1..9 |-> rd2[b[j]]] = [j \in 1..9 |-> rd1[b[j]]]
    BY <2>9
  <2>11. Holds(rd2, r, ins)
    <3> DEFINE c == [j \in 1..9 |-> rd1[b[j]]]
    <3>1. /\ \A j \in 1..9 : c[j] # NoWord
          /\ CompressCells(SubSeq(c, 1, 4), <<c[5], c[6]>>, <<c[7], c[8]>>, c[9])
      BY <1>7 DEF Holds, b
    <3>2. c = [j \in 1..9 |-> rd2[Blake2sAddresses(r, ins)[j]]]
      BY <2>10 DEF b
    <3> HIDE DEF c
    <3> QED
      BY <1>7, <3>1, <3>2 DEF Holds
  <2>12. After(rd2, r, ins) = After(rd1, r, ins)
    BY <1>7 DEF After
  <2> QED
    BY <2>11, <2>12
<1> QED
  BY <1>1, <1>5, <1>6, <1>7 DEF Opcodes

(* The padded image extends the committed one.                             *)
LEMMA ImageExtended ==
  ASSUME NEW j \in Jobs
  PROVE  Extended(reader(j.image), reader(padded(j)))
<1> DEFINE n == j.image.size
           L == padded(j)
<1>1. n \in Nat \ {0} /\ 2 * n <= Ord /\ 2 * n \in Nat /\ n <= Ord
  <2>1. /\ j.image.size \in Nat \ {0} /\ 2 * j.image.size <= MaxCells
        /\ MaxCells <= Ord /\ MaxCells \in Nat
    BY JobShape
  <2> QED
    BY <2>1, OrdAssumption
<1>2. IsImage(j.image) /\ L.size = 2 * n
  BY JobShape, PaddedCells
<1> HIDE DEF n
<1>3. SUFFICES ASSUME NEW a \in K, read(j.image, a) # NoWord
               PROVE  read(j.image, a) \in E /\ read(L, a) = read(j.image, a)
  BY DEF Extended, reader
<1>4. HasIndex(n, a) /\ read(j.image, a) \in E
  BY <1>2, <1>3, ReadTyped DEF n
<1>5. PICK i \in 0..n - 1 : gpow(i) = a
  BY <1>4 DEF HasIndex
<1>6. gLog(n, a) = i
  BY <1>1, <1>5, IndexNames
<1>7. i \in 0..2 * n - 1
  BY <1>1, <1>5
<1>8. HasIndex(2 * n, a) /\ gLog(2 * n, a) = i
  BY <1>1, <1>5, <1>7, IndexNames
<1>9. L.cell[i] = j.image.cell[i]
  BY <1>5, PaddedCells DEF n
<1> QED
  BY <1>2, <1>4, <1>6, <1>8, <1>9 DEF read, n

(* The run stands over the padded image, and its skeletons are sound.      *)
LEMMA RunIsSound ==
  ASSUME NEW j \in Jobs
  PROVE  /\ runSkels(j.prog, j.regs) \in Seq(Skels) /\ Len(j.regs) \in Nat \ {0}
         /\ Len(runSkels(j.prog, j.regs)) = Len(j.regs) - 1
         /\ \A i \in 1..Len(j.regs) - 1 :
              /\ Sound(j, runSkels(j.prog, j.regs)[i])
              /\ runSkels(j.prog, j.regs)[i].regs = j.regs[i]
              /\ j.regs[i].pc # FinalPc(j.prog)
              /\ stepOf(j, j.regs[i]) = j.regs[i + 1]
         /\ j.regs[1] = InitialRegs /\ j.regs[Len(j.regs)] = FinalRegs(j.prog)
<1> DEFINE rs == j.regs
           run == runSkels(j.prog, rs)
           N == Len(rs)
           rd == reader(j.image)
<1>1. /\ rs \in Seq(Regs) /\ rs # <<>> /\ IsRun(j.prog, j.image, rs) /\ rs[N] = FinalRegs(j.prog)
      /\ IsProgram(j.prog)
  BY JobAssumption DEF IsJob, ValidExecution
<1>2. N \in Nat \ {0} /\ \A i \in 1..N : rs[i] \in Regs
  BY <1>1
<1>3. ASSUME NEW i \in 1..N - 1
      PROVE  /\ rs[i].pc # FinalPc(j.prog) /\ rs[i] \in Regs /\ fetch(j.prog, rs[i].pc) \in Instr
             /\ Holds(reader(padded(j)), rs[i], fetch(j.prog, rs[i].pc))
             /\ stepOf(j, rs[i]) = rs[i + 1]
  <2> DEFINE ins == fetch(j.prog, rs[i].pc)
  <2>1. rs[i].pc # FinalPc(j.prog) /\ step(j.prog, j.image, rs[i]) = rs[i + 1]
    BY <1>1, <1>3 DEF IsRun
  <2>2. rs[i] \in Regs /\ rs[i + 1] \in Regs
    BY <1>2, <1>3
  <2>3. ins # NoInstr /\ Holds(rd, rs[i], ins) /\ After(rd, rs[i], ins) = rs[i + 1]
    BY <2>1, <2>2, NoRegsAssumption DEF step, executeWith
  <2>4. ins \in Instr
    <3>1. HasIndex(j.prog.size, rs[i].pc)
      BY <2>3 DEF fetch
    <3>2. gLog(j.prog.size, rs[i].pc) \in 0..j.prog.size - 1
      BY <3>1 DEF HasIndex, gLog
    <3>3. j.prog.code \in [0..j.prog.size - 1 -> Instr]
      BY <1>1 DEF IsProgram
    <3> QED
      BY <3>1, <3>2, <3>3 DEF fetch
  <2> HIDE DEF ins
  <2>5. Holds(reader(padded(j)), rs[i], ins) /\ After(reader(padded(j)), rs[i], ins) = rs[i + 1]
    BY <2>2, <2>3, <2>4, ImageExtended, HoldsGrows
  <2>6. stepOf(j, rs[i]) = rs[i + 1]
    BY <2>3, <2>5 DEF stepOf, step, executeWith, ins
  <2> QED
    BY <2>1, <2>2, <2>4, <2>5, <2>6 DEF ins
<1>4. run = [i \in 1..N - 1 |-> [regs |-> rs[i], ins |-> fetch(j.prog, rs[i].pc)]]
  BY DEF runSkels, Skel
<1> HIDE DEF rs, run, N
<1>5. ASSUME NEW i \in 1..N - 1
      PROVE  run[i].regs = rs[i] /\ run[i] \in Skels /\ Sound(j, run[i])
  <2>1. run[i].regs = rs[i] /\ run[i].ins = fetch(j.prog, rs[i].pc) /\ run[i] \in Skels
    BY <1>3, <1>4, <1>5 DEF Skels
  <2> QED
    BY <1>3, <1>5, <2>1 DEF Sound
<1>6. N - 1 \in Nat /\ run \in [1..N - 1 -> Skels]
  BY <1>2, <1>4, <1>5
<1>7. run \in Seq(Skels) /\ Len(run) = N - 1
  BY <1>6
<1>8. rs[1] = InitialRegs
  BY <1>1 DEF IsRun
<1> QED
  BY <1>1, <1>2, <1>3, <1>5, <1>7, <1>8 DEF rs, run, N

-----------------------------------------------------------------------------
(* The place after a place in a sequence repeated: the next one, or the    *)
(* first of the same repetition after its last.                            *)
NextPlace(l, m) == IF (m - 1) % l = l - 1 THEN m - (l - 1) ELSE m + 1

(* The place that follows, in a sequence repeated, is in range and holds   *)
(* the skeleton that follows in one repetition.                            *)
LEMMA NextPlaces ==
  ASSUME NEW n \in Nat, NEW l \in Nat \ {0}, NEW m \in 1..n * l
  PROVE  /\ NextPlace(l, m) \in 1..n * l
         /\ (m - 1) % l \in 0..l - 1
         /\ (NextPlace(l, m) - 1) % l = IF (m - 1) % l = l - 1 THEN 0 ELSE ((m - 1) % l) + 1
<1> DEFINE a == m - 1
           q == a \div l
           r == a % l
<1>1. n * l \in Nat /\ a \in Nat /\ a < l * n
  OBVIOUS
<1> HIDE DEF a
<1>2. q \in Nat /\ r \in 0..l - 1 /\ a = l * q + r
  BY <1>1, DivMod
<1> HIDE DEF q, r
<1>3. q < n
  <2>1. CASE q >= n
    <3>1. l * q >= l * n
      BY <1>2, <2>1
    <3> QED
      BY <1>1, <1>2, <3>1
  <2> QED
    BY <1>2, <2>1
<1>4. l * q + l <= l * n
  BY <1>2, <1>3
<1>5. ASSUME NEW s \in 0..l - 1
      PROVE  (l * q + s) % l = s
  BY <1>2, <1>5
<1>6. m = a + 1 /\ l * q \in Nat /\ l * n = n * l
  BY <1>2 DEF a
<1>7. CASE r = l - 1
  <2>1. NextPlace(l, m) = m - (l - 1)
    BY <1>7 DEF NextPlace, r, a
  <2>2. m - (l - 1) = l * q + 1
    BY <1>2, <1>6, <1>7
  <2>3. (l * q + 0) % l = 0
    BY <1>5
  <2> QED
    BY <1>2, <1>4, <1>6, <1>7, <2>1, <2>2, <2>3 DEF r, a
<1>8. CASE r # l - 1
  <2>1. NextPlace(l, m) = m + 1
    BY <1>8 DEF NextPlace, r, a
  <2>2. m + 1 = l * q + (r + 1) + 1 /\ r + 1 \in 0..l - 1
    BY <1>2, <1>6, <1>8
  <2>3. (l * q + (r + 1)) % l = r + 1
    BY <1>5, <2>2
  <2>4. (m + 1) - 1 = l * q + (r + 1) /\ m + 1 \in 1..n * l
    BY <1>2, <1>4, <1>6, <2>2
  <2> QED
    BY <1>2, <1>8, <2>1, <2>3, <2>4 DEF r, a
<1> QED
  BY <1>7, <1>8

(* No two places have the same place after them.                           *)
LEMMA NextPlaceOnce ==
  ASSUME NEW n \in Nat, NEW l \in Nat \ {0}, NEW x \in 1..n * l, NEW y \in 1..n * l,
         NextPlace(l, x) = NextPlace(l, y)
  PROVE  x = y
<1>1. x \in Nat /\ y \in Nat /\ n * l \in Nat
  OBVIOUS
<1>2. (x - 1) % l = l - 1 <=> (y - 1) % l = l - 1
  <2>1. (x - 1) % l \in 0..l - 1 /\ (y - 1) % l \in 0..l - 1
        /\ (NextPlace(l, x) - 1) % l = (IF (x - 1) % l = l - 1 THEN 0 ELSE ((x - 1) % l) + 1)
        /\ (NextPlace(l, y) - 1) % l = (IF (y - 1) % l = l - 1 THEN 0 ELSE ((y - 1) % l) + 1)
    BY NextPlaces
  <2> DEFINE u == (x - 1) % l
             v == (y - 1) % l
  <2>2. u \in 0..l - 1 /\ v \in 0..l - 1
        /\ (IF u = l - 1 THEN 0 ELSE u + 1) = (IF v = l - 1 THEN 0 ELSE v + 1)
    BY <2>1
  <2> HIDE DEF u, v
  <2>3. u = l - 1 <=> v = l - 1
    BY <2>2
  <2> QED
    BY <2>3 DEF u, v
<1> QED
  BY <1>1, <1>2 DEF NextPlace

-----------------------------------------------------------------------------
(* The steps of some skeletons lead back to them, each to one and each     *)
(* from one.                                                               *)
Closed(j, s, S) ==
  \E pi \in Bijection(S, S) : \A i \in S : stepOf(j, s[i].regs) = s[pi[i]].regs

(* A closed cycle is closed however often it is repeated.                  *)
LEMMA RepeatedCloses ==
  ASSUME NEW j, NEW cs, ClosedCycle(j, cs), NEW n \in Nat
  PROVE  /\ Repeated(n, cs) \in Seq(Skels) /\ Len(Repeated(n, cs)) = n * Len(cs) /\ n * Len(cs) \in Nat
         /\ \A i \in 1..n * Len(cs) : /\ Sound(j, Repeated(n, cs)[i])
                                      /\ Repeated(n, cs)[i].regs.pc # FinalPc(j.prog)
         /\ Closed(j, Repeated(n, cs), 1..n * Len(cs))
<1> DEFINE l == Len(cs)
           M == n * l
           rep == Repeated(n, cs)
           pi == [m \in 1..M |-> NextPlace(l, m)]
<1>1. /\ l \in Nat \ {0} /\ cs \in Seq(Skels)
      /\ \A i \in 1..l : /\ cs[i] \in Skels /\ Sound(j, cs[i]) /\ cs[i].regs.pc # FinalPc(j.prog)
                         /\ stepOf(j, cs[i].regs) = cs[IF i = l THEN 1 ELSE i + 1].regs
  BY DEF ClosedCycle, Sound
<1>2. M \in Nat /\ rep = [i \in 1..M |-> cs[((i - 1) % l) + 1]]
  BY <1>1 DEF Repeated
<1> HIDE DEF l, rep
<1>3. ASSUME NEW i \in 1..M
      PROVE  (i - 1) % l \in 0..l - 1 /\ rep[i] = cs[((i - 1) % l) + 1] /\ ((i - 1) % l) + 1 \in 1..l
  BY <1>1, <1>2, <1>3, NextPlaces
<1>4. ASSUME NEW i \in 1..M
      PROVE  /\ NextPlace(l, i) \in 1..M
             /\ stepOf(j, rep[i].regs) = rep[NextPlace(l, i)].regs
  <2> DEFINE r == (i - 1) % l
             m == NextPlace(l, i)
  <2>1. r \in 0..l - 1 /\ m \in 1..M /\ (m - 1) % l = (IF r = l - 1 THEN 0 ELSE r + 1)
    BY <1>1, <1>4, NextPlaces
  <2>2. rep[i] = cs[r + 1] /\ rep[m] = cs[((m - 1) % l) + 1] /\ r + 1 \in 1..l
    BY <1>3, <1>4, <2>1
  <2> HIDE DEF r, m
  <2>3. stepOf(j, cs[r + 1].regs) = cs[IF r + 1 = l THEN 1 ELSE (r + 1) + 1].regs
    BY <1>1, <2>2
  <2>4. (IF r + 1 = l THEN 1 ELSE (r + 1) + 1) = (IF r = l - 1 THEN 0 ELSE r + 1) + 1
    BY <1>1, <2>1
  <2>5. stepOf(j, rep[i].regs) = rep[m].regs
    BY <2>1, <2>2, <2>3, <2>4
  <2> QED
    BY <2>1, <2>5 DEF m
<1>5. pi \in Bijection(1..M, 1..M)
  <2>1. pi \in [1..M -> 1..M]
    BY <1>4
  <2>2. \A x, y \in 1..M : pi[x] = pi[y] => x = y
    BY <1>1, NextPlaceOnce
  <2>3. IsFiniteSet(1..M)
    BY <1>2, FS_Interval
  <2> HIDE DEF pi, M
  <2> QED
    BY <2>1, <2>2, <2>3, OneToOneIsOnto
<1>6. Closed(j, rep, 1..M)
  <2>1. \A i \in 1..M : stepOf(j, rep[i].regs) = rep[pi[i]].regs
    BY <1>4
  <2> HIDE DEF pi, M
  <2> QED
    BY <1>5, <2>1 DEF Closed
<1>7. rep \in Seq(Skels) /\ Len(rep) = M
  <2>1. rep \in [1..M -> Skels]
    BY <1>1, <1>2, <1>3
  <2> HIDE DEF M
  <2> QED
    BY <1>2, <2>1
<1>8. \A i \in 1..M : Sound(j, rep[i]) /\ rep[i].regs.pc # FinalPc(j.prog)
  BY <1>1, <1>3
<1> QED
  BY <1>2, <1>6, <1>7, <1>8 DEF l, rep

-----------------------------------------------------------------------------
(* The inductive invariant of the skeletons: they are sound, those of the  *)
(* run come first, and the steps of the others lead back to them.          *)
RunLength(j)  == Len(j.regs) - 1
FillPlaces    == RunLength(job) + 1..Len(skels)

SkelsKept ==
  /\ job \in Jobs /\ cycle \in 0..Cycles
  /\ skels \in Seq(Skels) /\ RunLength(job) <= Len(skels)
  /\ \A i \in 1..Len(skels) : Sound(job, skels[i])
  /\ \A i \in 1..RunLength(job) : skels[i].regs = job.regs[i]
  /\ \A i \in FillPlaces : skels[i].regs.pc # FinalPc(job.prog)
  /\ Closed(job, skels, FillPlaces)

(* Two closed stretches, the second counted from 1, put together.          *)
LEMMA ClosedTogether ==
  ASSUME NEW j, NEW s, NEW u, NEW v, NEW a \in Nat, NEW N \in Nat, NEW M \in Nat, a <= N,
         Closed(j, s, a + 1..N), Closed(j, u, 1..M),
         \A i \in 1..N : v[i] = s[i], \A i \in 1..M : v[N + i] = u[i]
  PROVE  Closed(j, v, a + 1..N + M)
<1>1. PICK pi \in Bijection(a + 1..N, a + 1..N) :
        \A i \in a + 1..N : stepOf(j, s[i].regs) = s[pi[i]].regs
  BY DEF Closed
<1>2. PICK rho \in Bijection(1..M, 1..M) : \A i \in 1..M : stepOf(j, u[i].regs) = u[rho[i]].regs
  BY DEF Closed
<1>3. \A i \in a + 1..N : pi[i] \in a + 1..N
  BY <1>1 DEF Bijection, Injection
<1>4. \A x, y \in a + 1..N : pi[x] = pi[y] => x = y
  BY <1>1 DEF Bijection, Injection, IsInjective
<1>5. \A i \in 1..M : rho[i] \in 1..M
  BY <1>2 DEF Bijection, Injection
<1>6. \A x, y \in 1..M : rho[x] = rho[y] => x = y
  BY <1>2 DEF Bijection, Injection, IsInjective
<1> DEFINE S == a + 1..N + M
           f == [i \in S |-> IF i <= N THEN pi[i] ELSE N + rho[i - N]]
<1>7. ASSUME NEW i \in S, i <= N
      PROVE  i \in a + 1..N /\ f[i] = pi[i] /\ f[i] \in a + 1..N
  <2>1. i \in a + 1..N
    BY <1>7
  <2> QED
    BY <1>3, <1>7, <2>1
<1>8. ASSUME NEW i \in S, ~(i <= N)
      PROVE  \E k \in 1..M : i = N + k /\ f[i] = N + rho[k] /\ rho[k] \in 1..M
  <2>1. i - N \in 1..M /\ i = N + (i - N)
    BY <1>8
  <2> QED
    BY <1>5, <1>8, <2>1
<1> HIDE DEF f
<1>9. ASSUME NEW x \in S, NEW y \in S, f[x] = f[y]
      PROVE  x = y
  <2>1. CASE x <= N
    <3>1. x \in a + 1..N /\ f[x] = pi[x] /\ f[x] \in a + 1..N
      BY <1>7, <1>9, <2>1
    <3>2. CASE y <= N
      <4>1. y \in a + 1..N /\ f[y] = pi[y]
        BY <1>7, <1>9, <3>2
      <4>2. pi[x] = pi[y]
        BY <1>9, <3>1, <4>1
      <4> QED
        BY <1>4, <3>1, <4>1, <4>2
    <3>3. CASE ~(y <= N)
      <4>1. PICK l \in 1..M : f[y] = N + rho[l] /\ rho[l] \in 1..M
        BY <1>8, <1>9, <3>3
      <4>2. f[y] \notin a + 1..N
        BY <4>1
      <4> QED
        BY <1>9, <3>1, <4>2
    <3> QED
      BY <3>2, <3>3
  <2>2. CASE ~(x <= N)
    <3>1. PICK k \in 1..M : x = N + k /\ f[x] = N + rho[k] /\ rho[k] \in 1..M
      BY <1>8, <1>9, <2>2
    <3>2. CASE y <= N
      <4>1. f[y] \in a + 1..N
        BY <1>7, <1>9, <3>2
      <4> QED
        BY <1>9, <3>1, <4>1
    <3>3. CASE ~(y <= N)
      <4>1. PICK l \in 1..M : y = N + l /\ f[y] = N + rho[l] /\ rho[l] \in 1..M
        BY <1>8, <1>9, <3>3
      <4>2. rho[k] = rho[l]
        BY <1>9, <3>1, <4>1
      <4>3. k = l
        BY <1>6, <4>2
      <4> QED
        BY <3>1, <4>1, <4>3
    <3> QED
      BY <3>2, <3>3
  <2> QED
    BY <2>1, <2>2
<1>10. f \in Bijection(S, S)
  <2>1. \A i \in S : f[i] \in S
    <3> SUFFICES ASSUME NEW i \in S PROVE f[i] \in S
      OBVIOUS
    <3>1. CASE i <= N
      <4>1. f[i] \in a + 1..N
        BY <1>7, <3>1
      <4> QED
        BY <4>1
    <3>2. CASE ~(i <= N)
      <4>1. PICK k \in 1..M : f[i] = N + rho[k] /\ rho[k] \in 1..M
        BY <1>8, <3>2
      <4>2. N + rho[k] \in a + 1..N + M
        BY <4>1
      <4> QED
        BY <4>1, <4>2
    <3> QED
      BY <3>1, <3>2
  <2>2. f \in [S -> S]
    BY <2>1 DEF f
  <2>3. IsFiniteSet(S)
    BY FS_Interval
  <2> HIDE DEF S
  <2> QED
    BY <1>9, <2>2, <2>3, OneToOneIsOnto
<1>11. ASSUME NEW i \in S
       PROVE  stepOf(j, v[i].regs) = v[f[i]].regs
  <2>1. CASE i <= N
    <3>1. i \in a + 1..N /\ f[i] = pi[i] /\ f[i] \in a + 1..N
      BY <1>7, <1>11, <2>1
    <3>2. v[i] = s[i] /\ v[f[i]] = s[f[i]]
      BY <3>1
    <3> QED
      BY <1>1, <3>1, <3>2
  <2>2. CASE ~(i <= N)
    <3>1. PICK k \in 1..M : i = N + k /\ f[i] = N + rho[k] /\ rho[k] \in 1..M
      BY <1>8, <1>11, <2>2
    <3>2. v[N + k] = u[k] /\ v[N + rho[k]] = u[rho[k]]
      BY <3>1
    <3> QED
      BY <1>2, <3>1, <3>2
  <2> QED
    BY <2>1, <2>2
<1> QED
  BY <1>10, <1>11 DEF Closed, S

(* At the start there is the run and nothing to close.                     *)
LEMMA SkelsInit == Init => SkelsKept
<1> SUFFICES ASSUME Init PROVE SkelsKept
  OBVIOUS
<1>1. job \in Jobs /\ cycle = 0 /\ skels = runSkels(job.prog, job.regs)
  BY DEF Init
<1> DEFINE N == RunLength(job)
<1>2. /\ skels \in Seq(Skels) /\ N \in Nat /\ Len(skels) = N
      /\ \A i \in 1..N : Sound(job, skels[i]) /\ skels[i].regs = job.regs[i]
  BY <1>1, RunIsSound DEF RunLength
<1>3. Cycles \in Nat
  BY <1>1, JobShape DEF Cycles
<1>4. FillPlaces = {}
  BY <1>2 DEF FillPlaces
<1>5. Closed(job, skels, {})
  <2>1. <<>> \in Bijection({}, {})
    BY DEF Bijection, Injection, Surjection, IsInjective
  <2> QED
    BY <2>1 DEF Closed
<1> HIDE DEF N
<1> QED
  BY <1>1, <1>2, <1>3, <1>4, <1>5 DEF SkelsKept, N

(* A traversal adds sound skeletons that close among themselves and leaves *)
(* those before them alone.                                                *)
LEMMA TraverseKeepsSkels ==
  ASSUME SkelsKept, Traverse
  PROVE  /\ SkelsKept' /\ Len(skels) <= Len(skels')
         /\ \A i \in 1..Len(skels) : skels'[i] = skels[i]
<1> DEFINE n == planCount(runRows(job), job.tau, tableOf(cycle))[indexOf(cycle)]
           cs == cycleSkels(job.image.size, job.pcs, tableOf(cycle), indexOf(cycle))
           u == Repeated(n, cs)
           N == Len(skels)
           M == n * Len(cs)
           a == RunLength(job)
<1>1. /\ job \in Jobs /\ cycle \in 0..Cycles /\ skels \in Seq(Skels) /\ a <= N
      /\ \A i \in 1..N : Sound(job, skels[i])
      /\ \A i \in 1..a : skels[i].regs = job.regs[i]
      /\ \A i \in a + 1..N : skels[i].regs.pc # FinalPc(job.prog)
      /\ Closed(job, skels, a + 1..N)
  BY DEF SkelsKept, FillPlaces
<1>2. /\ cycle < Cycles /\ skels' = skels \o u /\ cycle' = cycle + 1 /\ job' = job
  BY DEF Traverse
<1>3. Cycles \in Nat /\ a \in Nat /\ cycle \in 0..Cycles - 1
  <2>1. Cycles \in Nat
    <3>1. Depth \in Nat /\ Frames = 6 * Depth
      BY <1>1, JobShape
    <3> QED
      BY <3>1 DEF Cycles
  <2>2. Len(job.regs) \in Nat \ {0}
    BY <1>1, RunIsSound
  <2> QED
    BY <1>1, <1>2, <2>1, <2>2 DEF RunLength
<1>4. n \in Nat
  BY <1>1, <1>3, CyclePlaces, PlanCounts
<1>5. ClosedCycle(job, cs)
  BY <1>1, <1>3, CycleCloses
<1> HIDE DEF n, cs
<1>6. /\ u \in Seq(Skels) /\ Len(u) = M /\ M \in Nat
      /\ \A i \in 1..M : Sound(job, u[i]) /\ u[i].regs.pc # FinalPc(job.prog)
      /\ Closed(job, u, 1..M)
  BY <1>4, <1>5, RepeatedCloses
<1> HIDE DEF u, M, a
<1>7. /\ skels' \in Seq(Skels) /\ Len(skels') = N + M /\ N \in Nat
      /\ \A i \in 1..N : skels'[i] = skels[i]
      /\ \A i \in 1..M : skels'[N + i] = u[i]
  <2>1. N \in Nat
    BY <1>1
  <2>2. /\ skels \o u \in Seq(Skels) /\ Len(skels \o u) = Len(skels) + Len(u)
        /\ \A i \in 1..Len(skels) + Len(u) :
             (skels \o u)[i] = IF i <= Len(skels) THEN skels[i] ELSE u[i - Len(skels)]
    BY <1>1, <1>6, ConcatProperties
  <2>3. \A i \in 1..N + M : skels'[i] = IF i <= N THEN skels[i] ELSE u[i - N]
    BY <1>2, <1>6, <2>2
  <2>4. ASSUME NEW i \in 1..M
        PROVE  skels'[N + i] = u[i]
    <3>1. N + i \in 1..N + M /\ ~(N + i <= N) /\ (N + i) - N = i
      BY <1>6, <2>1, <2>4
    <3> QED
      BY <2>3, <3>1
  <2>5. ASSUME NEW i \in 1..N
        PROVE  skels'[i] = skels[i]
    <3>1. i \in 1..N + M /\ i <= N
      BY <1>6, <2>1, <2>5
    <3> QED
      BY <2>3, <3>1
  <2> QED
    BY <1>2, <1>6, <2>1, <2>2, <2>4, <2>5
<1>8. \A i \in 1..N + M : i \in 1..N \/ (i > N /\ i - N \in 1..M /\ skels'[i] = u[i - N])
  <2> SUFFICES ASSUME NEW i \in 1..N + M, i > N
               PROVE  i - N \in 1..M /\ skels'[i] = u[i - N]
    BY <1>6, <1>7
  <2>1. i - N \in 1..M /\ N + (i - N) = i
    BY <1>6, <1>7
  <2> QED
    BY <1>7, <2>1
<1>9. \A i \in 1..N + M : Sound(job, skels'[i])
  BY <1>1, <1>6, <1>7, <1>8
<1>10. \A i \in 1..a : skels'[i].regs = job.regs[i]
  BY <1>1, <1>3, <1>7
<1>11. ASSUME NEW i \in a + 1..N + M
       PROVE  skels'[i].regs.pc # FinalPc(job.prog)
  <2>1. i \in 1..N + M
    BY <1>3, <1>6, <1>7, <1>11
  <2>2. CASE i <= N
    <3>1. i \in a + 1..N /\ i \in 1..N
      BY <1>11, <2>1, <2>2
    <3> QED
      BY <1>1, <1>7, <3>1
  <2>3. CASE i > N
    <3>1. i - N \in 1..M /\ skels'[i] = u[i - N]
      BY <1>7, <1>8, <2>1, <2>3
    <3> QED
      BY <1>6, <3>1
  <2> QED
    BY <1>7, <2>1, <2>2, <2>3
<1>12. Closed(job, skels', a + 1..N + M)
  <2>1. Closed(job, skels, a + 1..N) /\ Closed(job, u, 1..M) /\ a <= N
    BY <1>1, <1>6
  <2>2. a \in Nat /\ N \in Nat /\ M \in Nat
    BY <1>3, <1>6, <1>7
  <2>3. (\A i \in 1..N : skels'[i] = skels[i]) /\ \A i \in 1..M : skels'[N + i] = u[i]
    BY <1>7
  <2> HIDE DEF N
  <2> QED
    BY <2>1, <2>2, <2>3, ClosedTogether
<1>13. a <= N + M /\ cycle + 1 \in 0..Cycles
  BY <1>1, <1>3, <1>6, <1>7
<1>14. N <= N + M /\ \A i \in 1..N : skels'[i] = skels[i]
  BY <1>6, <1>7
<1> HIDE DEF N
<1>15. SkelsKept'
  BY <1>1, <1>2, <1>7, <1>9, <1>10, <1>11, <1>12, <1>13 DEF SkelsKept, FillPlaces, a
<1> QED
  BY <1>7, <1>14, <1>15 DEF N

-----------------------------------------------------------------------------
(* The rows.  The row of a sound skeleton has its cells and its            *)
(* instruction, whatever counts it carries; the addresses it reads do not  *)
(* depend on them and are those of cells.                                  *)
Columns(S) == UNION {[1..n -> S] : n \in Nat}
Rows == [op : Opcodes, pc : K, fp : K, o : Columns(K), v : Columns(E), aux : Columns(K),
         r : Columns(K), rbc : K]

Counts(s) == [1..Reads(s.ins.op) -> K]

RowStands(j, s, row) ==
  /\ row \in Rows /\ row.op = s.ins.op /\ row.pc = s.regs.pc /\ pull(row) = s.regs
  /\ Supported(row, s.ins, padded(j)) /\ push(row) = stepOf(j, s.regs)
  /\ readAddrs(row) = skelAddrs(j, s)

AddressesStand(j, s) ==
  /\ Reads(s.ins.op) \in Nat \ {0}
  /\ DOMAIN skelAddrs(j, s) = 1..Reads(s.ins.op) /\ Len(skelAddrs(j, s)) = Reads(s.ins.op)
  /\ \A i \in 1..Reads(s.ins.op) :
       skelAddrs(j, s)[i] \in K /\ HasIndex(2 * j.image.size, skelAddrs(j, s)[i])

(* The row of a sound skeleton meets what RowFields and RowCloses ask, with *)
(* any counts for its reads.                                               *)
LEMMA SkeletonIsHonest ==
  ASSUME NEW j \in Jobs, NEW s, Sound(j, s), NEW cnt \in Counts(s), NEW rbc \in K
  PROVE  Honest(padded(j), s.regs, s.ins, cnt, rbc)
BY PaddedCells DEF Honest, Sound, Skels, Counts

(* The addresses a row reads do not depend on the counts it is given.      *)
LEMMA SameAddresses ==
  ASSUME NEW j \in Jobs, NEW s, Sound(j, s), NEW cnt, NEW rbc
  PROVE  readAddrs(skelRow(j, s, cnt, rbc)) = skelAddrs(j, s)
<1> DEFINE L == padded(j)
           row1 == rowOf(L, s.regs, s.ins, cnt, rbc)
           ones == [i \in 1..Reads(s.ins.op) |-> One]
           row2 == rowOf(L, s.regs, s.ins, ones, One)
<1>1. s.regs \in Regs
  BY DEF Sound, Skels
<1>2. /\ row1.op = s.ins.op /\ row1.o = s.ins.o /\ row1.v = rowWords(L, s.regs, s.ins)
      /\ Addresses(pull(row1), row1) = Addresses(s.regs, s.ins)
      /\ Blake2sAddresses(pull(row1), row1) = Blake2sAddresses(s.regs, s.ins)
  BY <1>1, RowFields
<1>3. /\ row2.op = s.ins.op /\ row2.o = s.ins.o /\ row2.v = rowWords(L, s.regs, s.ins)
      /\ Addresses(pull(row2), row2) = Addresses(s.regs, s.ins)
      /\ Blake2sAddresses(pull(row2), row2) = Blake2sAddresses(s.regs, s.ins)
  BY <1>1, RowFields
<1> HIDE DEF row1, row2, L
<1>4. readAddrs(row1) = readAddrs(row2)
  BY <1>2, <1>3 DEF readAddrs
<1> QED
  BY <1>4 DEF skelRow, skelAddrs, row1, row2, L

(* The row of a sound skeleton satisfies its opcode's constraint over the  *)
(* padded image and reads addresses of that image (skelRow).               *)
LEMMA RowsStand ==
  ASSUME NEW j \in Jobs, NEW s, Sound(j, s), NEW cnt \in Counts(s), NEW rbc \in K
  PROVE  /\ RowStands(j, s, skelRow(j, s, cnt, rbc)) /\ AddressesStand(j, s)
         /\ skelRow(j, s, cnt, rbc).r = cnt /\ skelRow(j, s, cnt, rbc).rbc = rbc
<1> DEFINE L == padded(j)
           row == rowOf(L, s.regs, s.ins, cnt, rbc)
<1>1. /\ Honest(L, s.regs, s.ins, cnt, rbc) /\ s.regs \in Regs /\ s.ins \in Instr
      /\ s.ins = fetch(j.prog, s.regs.pc) /\ L.size = 2 * j.image.size
  BY SkeletonIsHonest, PaddedCells DEF Sound, Skels
<1>2. /\ Supported(row, s.ins, L) /\ pull(row) = s.regs
      /\ \A i \in 1..Reads(s.ins.op) : readAddrs(row)[i] \in K /\ HasIndex(L.size, readAddrs(row)[i])
  BY <1>1, HonestIsSupported
<1>3. row.op = s.ins.op /\ row.pc = s.regs.pc /\ row.r = cnt /\ row.rbc = rbc /\ row.o = s.ins.o
      /\ Addresses(pull(row), row) = Addresses(s.regs, s.ins)
  BY <1>1, RowFields
<1>4. readAddrs(row) = skelAddrs(j, s)
  BY SameAddresses DEF skelRow
<1> HIDE DEF L, row
<1>5. push(row) = stepOf(j, s.regs)
  <2>1. executeWith(reader(L), pull(row), s.ins) = push(row)
    BY <1>2, SupportedIsStep
  <2> QED
    BY <1>1, <1>2, <2>1 DEF stepOf, step, L
<1>6. row \in Rows
  <2>1. IsRow(row)
    BY <1>2 DEF Supported
  <2>2. \A n \in Nat : \A S : [1..n -> S] \subseteq Columns(S)
    BY DEF Columns
  <2>3. Arity(row.op) \in Nat /\ Words(row.op) \in Nat /\ Aux(row.op) \in Nat /\ Reads(row.op) \in Nat
    BY DEF Arity, Words, Aux, Reads
  <2>4. /\ row.o \in Columns(K) /\ row.v \in Columns(E) /\ row.aux \in Columns(K) /\ row.r \in Columns(K)
    BY <2>1, <2>2, <2>3 DEF IsRow
  <2> QED
    BY <2>1, <2>4 DEF IsRow, Rows
<1>7. DOMAIN readAddrs(row) = 1..Reads(s.ins.op) /\ Reads(s.ins.op) \in Nat \ {0}
      /\ Len(readAddrs(row)) = Reads(s.ins.op)
  <2>1. /\ s.ins.op \in Opcodes
        /\ s.ins.o \in [1..Arity(s.ins.op) -> K] /\ DOMAIN s.ins.o = 1..Arity(s.ins.op)
    BY <1>1, InstrShape
  <2>2. Addresses(s.regs, s.ins) = [i \in 1..Arity(s.ins.op) |-> KMul(s.regs.fp, s.ins.o[i])]
    BY <2>1 DEF Addresses
  <2>3. Reads(s.ins.op) \in Nat \ {0}
    BY DEF Reads
  <2>4. CASE s.ins.op \in {"xor", "mulNative", "setConstant", "jump"}
    <3>1. readAddrs(row) = Addresses(s.regs, s.ins) /\ Arity(s.ins.op) = Reads(s.ins.op)
      BY <1>3, <2>4 DEF readAddrs, Arity, Reads
    <3> QED
      BY <2>2, <2>3, <3>1
  <2>5. CASE s.ins.op = "deref"
    <3>1. Reads(s.ins.op) = 3
      BY <2>5 DEF Reads
    <3> QED
      BY <1>3, <2>5, <3>1 DEF readAddrs
  <2>6. CASE s.ins.op = "blake2s"
    <3>1. Reads(s.ins.op) = 9
      BY <2>6 DEF Reads
    <3> QED
      BY <1>3, <2>6, <3>1 DEF readAddrs, Blake2sAddresses
  <2> QED
    BY <2>1, <2>4, <2>5, <2>6 DEF Opcodes
<1>8. AddressesStand(j, s)
  BY <1>1, <1>2, <1>4, <1>7 DEF AddressesStand
<1>9. RowStands(j, s, row)
  BY <1>2, <1>3, <1>4, <1>5, <1>6 DEF RowStands, L
<1> QED
  BY <1>3, <1>8, <1>9 DEF skelRow, row, L

-----------------------------------------------------------------------------
(* Reads with their counts: g to the power of their numbers.               *)
CountedBy(P, addr, cnt, counter) ==
  \E num : Numbered(P, addr, num, counter) /\ \A x \in P : cnt[x] = gpow(num[x])

(* The reads ads of one more row, at the places <<i, 1>>, <<i, 2>>, ...,   *)
(* with their counts.                                                      *)
OneMore(P, addr, cnt, counter, i, ads, addr2, cnt2) ==
  /\ CountedBy(P, addr, cnt, counter)
  /\ DOMAIN ads = 1..Len(ads) /\ Len(ads) \in Nat /\ \A k \in DOMAIN ads : ads[k] \in K
  /\ P \cap RowPlaces(i, ads) = {}
  /\ \A x \in P : addr2[x] = addr[x] /\ cnt2[x] = cnt[x]
  /\ \A k \in DOMAIN ads : addr2[<<i, k>>] = ads[k] /\ cnt2[<<i, k>>] = gpow(readExps(counter, ads)[k])

(* A row's reads, with their counts as powers of g, join the reads counted *)
(* so far.                                                                 *)
LEMMA OneMoreIsCounted ==
  ASSUME NEW P, NEW addr, NEW cnt, NEW counter, NEW i, NEW ads, NEW addr2, NEW cnt2,
         OneMore(P, addr, cnt, counter, i, ads, addr2, cnt2)
  PROVE  CountedBy(P \cup RowPlaces(i, ads), addr2, cnt2, readBump(counter, ads))
<1> DEFINE Q == RowPlaces(i, ads)
           exps == readExps(counter, ads)
<1>1. PICK num : Numbered(P, addr, num, counter) /\ \A x \in P : cnt[x] = gpow(num[x])
  BY DEF OneMore, CountedBy
<1> DEFINE num2 == [x \in P \cup Q |-> IF x \in P THEN num[x] ELSE exps[x[2]]]
<1>2. /\ DOMAIN ads = 1..Len(ads) /\ Len(ads) \in Nat /\ \A k \in DOMAIN ads : ads[k] \in K
      /\ P \cap Q = {}
      /\ \A x \in P : addr2[x] = addr[x] /\ cnt2[x] = cnt[x]
      /\ \A k \in DOMAIN ads : addr2[<<i, k>>] = ads[k] /\ cnt2[<<i, k>>] = gpow(exps[k])
  BY DEF OneMore
<1>3. Q = {<<i, k>> : k \in DOMAIN ads}
  BY DEF RowPlaces
<1> HIDE DEF Q, exps
<1>4. \A x \in P : num2[x] = num[x]
  OBVIOUS
<1>5. \A k \in DOMAIN ads : <<i, k>> \in Q /\ <<i, k>> \notin P /\ num2[<<i, k>>] = exps[k]
  <2> SUFFICES ASSUME NEW k \in DOMAIN ads
               PROVE  <<i, k>> \in Q /\ <<i, k>> \notin P /\ num2[<<i, k>>] = exps[k]
    OBVIOUS
  <2>1. <<i, k>> \in Q /\ <<i, k>> \notin P /\ <<i, k>>[2] = k
    BY <1>2, <1>3
  <2> QED
    BY <2>1
<1> HIDE DEF num2
<1>6. Grows(P, addr, num, counter, i, ads, addr2, num2)
  BY <1>1, <1>2, <1>4, <1>5 DEF Grows, Q, exps
<1>7. Numbered(P \cup Q, addr2, num2, readBump(counter, ads))
  BY <1>6, NumberedGrows DEF Q
<1>8. \A x \in P \cup Q : cnt2[x] = gpow(num2[x])
  <2>1. \A x \in P : cnt2[x] = gpow(num2[x])
    BY <1>1, <1>2, <1>4
  <2>2. \A x \in Q : cnt2[x] = gpow(num2[x])
    BY <1>2, <1>3, <1>5
  <2> QED
    BY <2>1, <2>2
<1> QED
  BY <1>7, <1>8 DEF CountedBy, Q

-----------------------------------------------------------------------------
(* The inductive invariant of the rows: each is the row of its skeleton,   *)
(* and the reads of memory and of the bytecode are numbered.               *)
MemPlaces(rows) == ReadPlaces([rows |-> rows])
MemAddrs(rows)  == [x \in MemPlaces(rows) |-> readAddrs(rows[x[1]])[x[2]]]
MemCounts(rows) == [x \in MemPlaces(rows) |-> rows[x[1]].r[x[2]]]

SlotPlaces(rows) == {<<i, 1>> : i \in DOMAIN rows}
SlotAddrs(rows)  == [x \in SlotPlaces(rows) |-> rows[x[1]].pc]
SlotCounts(rows) == [x \in SlotPlaces(rows) |-> rows[x[1]].rbc]

RowIsBuilt(s, row) ==
  row.r \in Counts(s) /\ row.rbc \in K /\ row = skelRow(job, s, row.r, row.rbc)

RowsKept ==
  /\ built \in Seq(Rows) /\ Len(built) <= Len(skels)
  /\ \A i \in 1..Len(built) : RowIsBuilt(skels[i], built[i])
  /\ CountedBy(MemPlaces(built), MemAddrs(built), MemCounts(built), memReads)
  /\ CountedBy(SlotPlaces(built), SlotAddrs(built), SlotCounts(built), bcReads)

(* No read has been numbered yet.                                          *)
LEMMA NoneCounted ==
  ASSUME NEW addr, NEW cnt
  PROVE  CountedBy({}, addr, cnt, [a \in K |-> 0])
<1>1. Numbered({}, addr, <<>>, [a \in K |-> 0])
  BY FS_EmptySet DEF Numbered
<1> QED
  BY <1>1 DEF CountedBy

(* Nothing is built yet, and the skeletons of the run are sound.           *)
LEMMA RowsInit == Init => RowsKept
<1> SUFFICES ASSUME Init PROVE RowsKept
  OBVIOUS
<1>1. /\ built = <<>> /\ memReads = [a \in K |-> 0] /\ bcReads = [a \in K |-> 0]
      /\ skels = runSkels(job.prog, job.regs) /\ job \in Jobs
  BY DEF Init
<1>2. skels \in Seq(Skels)
  BY <1>1, RunIsSound
<1>3. MemPlaces(built) = {} /\ SlotPlaces(built) = {}
  BY <1>1 DEF MemPlaces, ReadPlaces, SlotPlaces
<1>4. /\ CountedBy(MemPlaces(built), MemAddrs(built), MemCounts(built), memReads)
      /\ CountedBy(SlotPlaces(built), SlotAddrs(built), SlotCounts(built), bcReads)
  BY <1>1, <1>3, NoneCounted
<1>5. built \in Seq(Rows) /\ Len(built) = 0
  BY <1>1
<1> QED
  BY <1>2, <1>4, <1>5 DEF RowsKept

(* The places of a family of rows with one more.                           *)
RowAdded(rows, row, ads, rows2, i) ==
  /\ rows \in Seq(Rows) /\ row \in Rows /\ DOMAIN ads = 1..Reads(row.op)
  /\ rows2 = Append(rows, row) /\ i = Len(rows) + 1

PlacesAdded(rows, ads, rows2, i) ==
  /\ MemPlaces(rows2) = MemPlaces(rows) \cup RowPlaces(i, ads)
  /\ MemPlaces(rows) \cap RowPlaces(i, ads) = {}
  /\ SlotPlaces(rows2) = SlotPlaces(rows) \cup {<<i, 1>>}
  /\ <<i, 1>> \notin SlotPlaces(rows)
  /\ \A x \in MemPlaces(rows) : rows2[x[1]] = rows[x[1]]
  /\ \A x \in SlotPlaces(rows) : rows2[x[1]] = rows[x[1]]

(* A place is a row and the position of a read in it.                      *)
LEMMA PlacesListed ==
  \A rows, x : x \in MemPlaces(rows) <=> \E l \in DOMAIN rows : \E k \in 1..Reads(rows[l].op) : x = <<l, k>>
BY DEF MemPlaces, ReadPlaces

(* One more row adds its places.                                           *)
LEMMA PlacesOfOneMore ==
  ASSUME NEW rows, NEW row, NEW ads, NEW rows2, NEW i, RowAdded(rows, row, ads, rows2, i)
  PROVE  PlacesAdded(rows, ads, rows2, i)
<1> DEFINE N == Len(rows)
<1>1. /\ N \in Nat /\ DOMAIN rows = 1..N /\ DOMAIN rows2 = 1..N + 1 /\ rows2[i] = row
      /\ i = N + 1 /\ \A l \in 1..N : rows2[l] = rows[l]
  BY DEF RowAdded
<1>2. i \notin 1..N /\ 1..N + 1 = 1..N \cup {i}
  BY <1>1
<1>3. RowPlaces(i, ads) = {<<i, k>> : k \in 1..Reads(row.op)}
  BY DEF RowAdded, RowPlaces
<1> HIDE DEF N
<1>4. \A x : x \in MemPlaces(rows) <=> \E l \in 1..N : \E k \in 1..Reads(rows[l].op) : x = <<l, k>>
  BY <1>1, PlacesListed
<1>5. \A x : x \in MemPlaces(rows2) <=> \E l \in 1..N \cup {i} : \E k \in 1..Reads(rows2[l].op) : x = <<l, k>>
  BY <1>1, <1>2, PlacesListed
<1>6. MemPlaces(rows2) = MemPlaces(rows) \cup RowPlaces(i, ads)
  <2>1. ASSUME NEW x \in MemPlaces(rows2) PROVE x \in MemPlaces(rows) \cup RowPlaces(i, ads)
    <3>1. PICK l \in 1..N \cup {i} : \E k \in 1..Reads(rows2[l].op) : x = <<l, k>>
      BY <1>5, <2>1
    <3>2. CASE l \in 1..N
      <4>1. rows2[l] = rows[l]
        BY <1>1, <3>2
      <4> QED
        BY <1>4, <3>1, <3>2, <4>1
    <3>3. CASE l = i
      BY <1>1, <1>3, <3>1, <3>3
    <3> QED
      BY <3>1, <3>2, <3>3
  <2>2. ASSUME NEW x \in MemPlaces(rows) PROVE x \in MemPlaces(rows2)
    <3>1. PICK l \in 1..N : \E k \in 1..Reads(rows[l].op) : x = <<l, k>>
      BY <1>4, <2>2
    <3>2. l \in 1..N \cup {i} /\ rows2[l] = rows[l]
      BY <1>1, <3>1
    <3> QED
      BY <1>5, <3>1, <3>2
  <2>3. ASSUME NEW x \in RowPlaces(i, ads) PROVE x \in MemPlaces(rows2)
    <3>1. PICK k \in 1..Reads(rows2[i].op) : x = <<i, k>>
      BY <1>1, <1>3, <2>3
    <3> QED
      BY <1>5, <3>1
  <2> QED
    BY <2>1, <2>2, <2>3
<1>7. \A x \in MemPlaces(rows) : x[1] \in 1..N
  BY <1>4
<1>8. MemPlaces(rows) \cap RowPlaces(i, ads) = {}
  BY <1>2, <1>3, <1>7
<1>9. SlotPlaces(rows2) = SlotPlaces(rows) \cup {<<i, 1>>}
  BY <1>1, <1>2 DEF SlotPlaces
<1>10. <<i, 1>> \notin SlotPlaces(rows) /\ \A x \in SlotPlaces(rows) : rows2[x[1]] = rows[x[1]]
  BY <1>1, <1>2 DEF SlotPlaces
<1>11. \A x \in MemPlaces(rows) : rows2[x[1]] = rows[x[1]]
  BY <1>1, <1>7
<1> QED
  BY <1>6, <1>8, <1>9, <1>10, <1>11 DEF PlacesAdded

(* The reads of a row after those of the others.                           *)
LEMMA WriteKeepsRows ==
  ASSUME SkelsKept, RowsKept, WriteRow
  PROVE  RowsKept'
<1> DEFINE N == Len(built)
           i == N + 1
           s == skels[i]
           as == skelAddrs(job, s)
           exps == readExps(memReads, as)
           cnt == [k \in DOMAIN as |-> gpow(exps[k])]
           rbc == gpow(bcReads[s.regs.pc])
           row == skelRow(job, s, cnt, rbc)
           pcs == <<s.regs.pc>>
<1>1. /\ built' = Append(built, row) /\ memReads' = readBump(memReads, as)
      /\ bcReads' = readBump(bcReads, pcs) /\ skels' = skels /\ job' = job /\ N < Len(skels)
  BY DEF WriteRow
<1>2. /\ job \in Jobs /\ skels \in Seq(Skels) /\ \A n \in 1..Len(skels) : Sound(job, skels[n])
  BY DEF SkelsKept
<1>3. /\ built \in Seq(Rows) /\ N \in Nat /\ Len(skels) \in Nat
      /\ \A n \in 1..N : RowIsBuilt(skels[n], built[n])
      /\ CountedBy(MemPlaces(built), MemAddrs(built), MemCounts(built), memReads)
      /\ CountedBy(SlotPlaces(built), SlotAddrs(built), SlotCounts(built), bcReads)
  BY <1>2 DEF RowsKept
<1>4. i \in 1..Len(skels) /\ Sound(job, s) /\ s.regs.pc \in K
  <2>1. i \in 1..Len(skels)
    BY <1>1, <1>3
  <2>2. Sound(job, s)
    BY <1>2, <2>1
  <2>3. s.regs.pc \in K
    BY <2>2 DEF Sound, Skels, Regs
  <2> QED
    BY <2>1, <2>2, <2>3
<1> HIDE DEF N, i, s
<1>5. [k \in 1..Reads(s.ins.op) |-> One] \in Counts(s) /\ One \in K
  BY FieldTypes DEF Counts
<1>6. AddressesStand(job, s)
  BY <1>2, <1>4, <1>5, RowsStand
<1>7. /\ Reads(s.ins.op) \in Nat \ {0} /\ DOMAIN as = 1..Reads(s.ins.op) /\ Len(as) = Reads(s.ins.op)
      /\ \A k \in DOMAIN as : as[k] \in K
  BY <1>6 DEF AddressesStand
<1>8. \A a \in K : memReads[a] \in Nat /\ bcReads[a] \in Nat
  BY <1>3 DEF CountedBy, Numbered
<1> HIDE DEF as
<1>9. \A k \in DOMAIN as : exps[k] \in Nat
  <2> SUFFICES ASSUME NEW k \in DOMAIN as PROVE exps[k] \in Nat
    OBVIOUS
  <2>1. Occurs(as, as[k], k - 1) \in Nat
    <3>1. k - 1 \in Nat
      BY <1>7
    <3> QED
      BY <3>1, OccursSteps DEF CountsUp
  <2>2. memReads[as[k]] \in Nat
    BY <1>7, <1>8
  <2>3. PICK o \in Nat : o = Occurs(as, as[k], k - 1)
    BY <2>1
  <2>4. PICK b \in Nat : b = memReads[as[k]]
    BY <2>2
  <2>5. exps[k] = b + o
    BY <2>3, <2>4 DEF readExps
  <2>6. b \in Nat /\ o \in Nat
    BY <2>3, <2>4
  <2>7. \A x, y \in Nat : x + y \in Nat
    OBVIOUS
  <2> HIDE DEF exps
  <2> QED
    BY <2>5, <2>6, <2>7, Zenon
<1> HIDE DEF exps
<1>10. cnt \in Counts(s) /\ rbc \in K
  BY <1>4, <1>7, <1>8, <1>9, PowersInK DEF Counts
<1>11. \A k \in DOMAIN as : cnt[k] = gpow(exps[k])
  OBVIOUS
<1> HIDE DEF cnt
<1>12. /\ RowStands(job, s, row) /\ row.r = cnt /\ row.rbc = rbc
  BY <1>2, <1>4, <1>10, RowsStand
<1> HIDE DEF row
<1>13. row \in Rows /\ row.op = s.ins.op /\ row.pc = s.regs.pc /\ readAddrs(row) = as
  BY <1>12 DEF RowStands, as
<1>14. /\ built' \in Seq(Rows) /\ Len(built') = i /\ built'[i] = row
       /\ \A n \in 1..N : built'[n] = built[n]
  BY <1>1, <1>3, <1>13 DEF N, i
<1>15. /\ MemPlaces(built') = MemPlaces(built) \cup RowPlaces(i, as)
       /\ MemPlaces(built) \cap RowPlaces(i, as) = {}
       /\ SlotPlaces(built') = SlotPlaces(built) \cup {<<i, 1>>}
       /\ <<i, 1>> \notin SlotPlaces(built)
       /\ \A x \in MemPlaces(built) : built'[x[1]] = built[x[1]]
       /\ \A x \in SlotPlaces(built) : built'[x[1]] = built[x[1]]
  <2>1. DOMAIN as = 1..Reads(row.op)
    BY <1>7, <1>13
  <2>2. built' = Append(built, row) /\ i = Len(built) + 1
    BY <1>1 DEF i, N
  <2>3. built \in Seq(Rows) /\ row \in Rows
    BY <1>3, <1>13
  <2> HIDE DEF row, pcs, rbc
  <2>4. RowAdded(built, row, as, built', i)
    BY <2>1, <2>2, <2>3 DEF RowAdded
  <2>5. PlacesAdded(built, as, built', i)
    BY <2>4, PlacesOfOneMore
  <2> QED
    BY <2>5 DEF PlacesAdded
<1>16. CountedBy(MemPlaces(built'), MemAddrs(built'), MemCounts(built'), memReads')
  <2>1. \A x \in MemPlaces(built) : MemAddrs(built')[x] = MemAddrs(built)[x]
                                    /\ MemCounts(built')[x] = MemCounts(built)[x]
    BY <1>15 DEF MemAddrs, MemCounts
  <2>2. ASSUME NEW k \in DOMAIN as
        PROVE  MemAddrs(built')[<<i, k>>] = as[k] /\ MemCounts(built')[<<i, k>>] = gpow(exps[k])
    <3>1. <<i, k>> \in MemPlaces(built')
      BY <1>15, <2>2 DEF RowPlaces
    <3>2. MemAddrs(built')[<<i, k>>] = readAddrs(built'[i])[k] /\ MemCounts(built')[<<i, k>>] = built'[i].r[k]
      BY <3>1 DEF MemAddrs, MemCounts
    <3> QED
      BY <1>11, <1>12, <1>13, <1>14, <2>2, <3>2
  <2>3. OneMore(MemPlaces(built), MemAddrs(built), MemCounts(built), memReads, i, as,
                MemAddrs(built'), MemCounts(built'))
    BY <1>3, <1>7, <1>15, <2>1, <2>2 DEF OneMore, exps
  <2>4. CountedBy(MemPlaces(built) \cup RowPlaces(i, as), MemAddrs(built'), MemCounts(built'),
                  readBump(memReads, as))
    BY <2>3, OneMoreIsCounted
  <2> QED
    BY <1>1, <1>15, <2>4
<1>17. CountedBy(SlotPlaces(built'), SlotAddrs(built'), SlotCounts(built'), bcReads')
  <2>1. \A x \in SlotPlaces(built) : SlotAddrs(built')[x] = SlotAddrs(built)[x]
                                     /\ SlotCounts(built')[x] = SlotCounts(built)[x]
    BY <1>15 DEF SlotAddrs, SlotCounts
  <2>2. DOMAIN pcs = {1} /\ DOMAIN pcs = 1..Len(pcs) /\ Len(pcs) \in Nat /\ pcs[1] = s.regs.pc
    OBVIOUS
  <2>3. RowPlaces(i, pcs) = {<<i, 1>>}
    BY <2>2 DEF RowPlaces
  <2>4. readExps(bcReads, pcs)[1] = bcReads[s.regs.pc]
    <3>1. Occurs(pcs, pcs[1], 0) = 0
      BY OccursSteps DEF CountsUp
    <3>2. readExps(bcReads, pcs)[1] = bcReads[pcs[1]] + Occurs(pcs, pcs[1], 1 - 1)
      BY <2>2 DEF readExps
    <3> QED
      BY <1>4, <1>8, <2>2, <3>1, <3>2
  <2>5. SlotAddrs(built')[<<i, 1>>] = s.regs.pc /\ SlotCounts(built')[<<i, 1>>] = rbc
    <3>1. <<i, 1>> \in SlotPlaces(built')
      BY <1>15
    <3>2. SlotAddrs(built')[<<i, 1>>] = built'[i].pc /\ SlotCounts(built')[<<i, 1>>] = built'[i].rbc
      BY <3>1 DEF SlotAddrs, SlotCounts
    <3> QED
      BY <1>12, <1>13, <1>14, <3>2
  <2> HIDE DEF pcs
  <2>6. OneMore(SlotPlaces(built), SlotAddrs(built), SlotCounts(built), bcReads, i, pcs,
                SlotAddrs(built'), SlotCounts(built'))
    BY <1>3, <1>4, <1>15, <2>1, <2>2, <2>3, <2>4, <2>5 DEF OneMore
  <2>7. CountedBy(SlotPlaces(built) \cup RowPlaces(i, pcs), SlotAddrs(built'), SlotCounts(built'),
                  readBump(bcReads, pcs))
    BY <2>6, OneMoreIsCounted
  <2> QED
    BY <1>1, <1>15, <2>3, <2>7
<1>18. \A n \in 1..Len(built') : RowIsBuilt(skels[n], built[n])'
  <2> SUFFICES ASSUME NEW n \in 1..i
               PROVE  /\ built'[n].r \in Counts(skels[n]) /\ built'[n].rbc \in K
                      /\ built'[n] = skelRow(job, skels[n], built'[n].r, built'[n].rbc)
    BY <1>1, <1>14 DEF RowIsBuilt, Counts, skelRow, padded
  <2>1. CASE n \in 1..N
    <3>1. RowIsBuilt(skels[n], built[n]) /\ built'[n] = built[n]
      BY <1>3, <1>14, <2>1
    <3> QED
      BY <3>1 DEF RowIsBuilt
  <2>2. CASE n \notin 1..N
    <3>1. n = i
      BY <1>3, <2>2 DEF i
    <3>2. built'[n] = row /\ skels[n] = s
      BY <1>14, <3>1 DEF s
    <3>3. row = skelRow(job, s, cnt, rbc)
      BY DEF row
    <3> QED
      BY <1>10, <1>12, <3>2, <3>3
  <2> QED
    BY <2>1, <2>2
<1>19. Len(built') <= Len(skels')
  BY <1>1, <1>4, <1>14
<1> QED
  BY <1>14, <1>16, <1>17, <1>18, <1>19 DEF RowsKept

-----------------------------------------------------------------------------
(* The inductive invariant of the builder.                                 *)
BuilderInv == SkelsKept /\ RowsKept

(* More skeletons leave the rows alone.                                    *)
LEMMA TraverseKeepsRows ==
  ASSUME SkelsKept, RowsKept, Traverse
  PROVE  RowsKept'
<1>1. /\ Len(skels) <= Len(skels') /\ \A i \in 1..Len(skels) : skels'[i] = skels[i]
      /\ skels' \in Seq(Skels)
  BY TraverseKeepsSkels DEF SkelsKept
<1>2. /\ built' = built /\ memReads' = memReads /\ bcReads' = bcReads /\ job' = job
  BY DEF Traverse
<1>3. Len(built) \in Nat /\ Len(skels) \in Nat /\ Len(skels') \in Nat /\ Len(built) <= Len(skels)
  BY <1>1 DEF RowsKept, SkelsKept
<1>4. Len(built') <= Len(skels')
  BY <1>1, <1>2, <1>3
<1>5. ASSUME NEW i \in 1..Len(built) PROVE RowIsBuilt(skels[i], built[i])'
  <2>1. RowIsBuilt(skels[i], built[i]) /\ skels'[i] = skels[i] /\ built'[i] = built[i]
    BY <1>1, <1>2, <1>3, <1>5 DEF RowsKept
  <2> QED
    BY <1>2, <2>1 DEF RowIsBuilt
<1>6. \A i \in 1..Len(built') : RowIsBuilt(skels[i], built[i])'
  BY <1>2, <1>5
<1>7. /\ built' \in Seq(Rows)
      /\ CountedBy(MemPlaces(built'), MemAddrs(built'), MemCounts(built'), memReads')
      /\ CountedBy(SlotPlaces(built'), SlotAddrs(built'), SlotCounts(built'), bcReads')
  BY <1>2 DEF RowsKept
<1> QED
  BY <1>4, <1>6, <1>7 DEF RowsKept

(* More rows leave the skeletons alone.                                    *)
LEMMA WriteKeepsSkels ==
  ASSUME SkelsKept, job' = job, cycle' = cycle, skels' = skels
  PROVE  SkelsKept'
BY DEF SkelsKept, FillPlaces

(* The rows of the builder are the rows of sound skeletons, and their      *)
(* reads are numbered, at every moment.                                    *)
THEOREM BuilderInvHolds == Spec => []BuilderInv
<1>1. Init => BuilderInv
  BY SkelsInit, RowsInit DEF BuilderInv
<1>2. BuilderInv /\ [Next]_vars => BuilderInv'
  <2> SUFFICES ASSUME BuilderInv, [Next]_vars PROVE BuilderInv'
    OBVIOUS
  <2>1. CASE Traverse
    BY <2>1, TraverseKeepsSkels, TraverseKeepsRows DEF BuilderInv
  <2>2. CASE WriteRow
    <3>1. SkelsKept'
      BY <2>2, WriteKeepsSkels DEF BuilderInv, WriteRow
    <3> QED
      BY <2>2, <3>1, WriteKeepsRows DEF BuilderInv
  <2>3. CASE UNCHANGED vars
    <3>1. SkelsKept'
      BY <2>3, WriteKeepsSkels DEF BuilderInv, vars
    <3>2. RowsKept'
      BY <2>3 DEF BuilderInv, vars, RowsKept, RowIsBuilt
    <3> QED
      BY <3>1, <3>2 DEF BuilderInv
  <2> QED
    BY <2>1, <2>2, <2>3 DEF Next
<1> QED
  BY <1>1, <1>2, PTL DEF Spec

-----------------------------------------------------------------------------
(* The number of the reads, within the bound the height caps put on it.    *)
ReadsFit == Cardinality(MemPlaces(built)) <= MaxReads

(* What a numbering within the bound gives: the counts are the numbers     *)
(* themselves, and no counter reaches the order of g.                      *)
Fitting(P, addr, cnt, counter) ==
  /\ Numbered(P, addr, cnt, counter)
  /\ \A a \in K : counter[a] \in Nat /\ counter[a] < Ord
  /\ \A x \in P : addr[x] \in K /\ cnt[x] \in 0..Ord - 1 /\ cnt[x] + 1 < Ord

(* Below the order of g a power is its exponent.                           *)
LEMMA FewReadsFit ==
  ASSUME NEW P, NEW addr, NEW cnt, NEW counter, CountedBy(P, addr, cnt, counter),
         Cardinality(P) <= MaxReads
  PROVE  Fitting(P, addr, cnt, counter)
<1>1. PICK num : Numbered(P, addr, num, counter) /\ \A x \in P : cnt[x] = gpow(num[x])
  BY DEF CountedBy
<1>2. Ord \in Nat \ {0} /\ MaxReads \in Nat /\ MaxReads < Ord
  BY OrdAssumption, CapsAssumption
<1>3. ASSUME NEW a \in K PROVE counter[a] \in Nat /\ counter[a] < Ord
  <2>1. counter[a] \in Nat /\ counter[a] <= Cardinality(P) /\ Cardinality(P) \in Nat
    BY <1>1, CounterBound
  <2> QED
    BY <1>2, <2>1
<1>4. ASSUME NEW x \in P
      PROVE  addr[x] \in K /\ cnt[x] = num[x] /\ cnt[x] \in 0..Ord - 1 /\ cnt[x] + 1 < Ord
  <2>1. addr[x] \in K /\ num[x] \in Nat /\ num[x] < counter[addr[x]]
    BY <1>1 DEF Numbered
  <2>2. counter[addr[x]] \in Nat /\ counter[addr[x]] < Ord
    BY <1>3, <2>1
  <2>3. PICK e \in Nat : e = num[x]
    BY <2>1
  <2>4. e \in 0..Ord - 1 /\ e + 1 < Ord
    BY <1>2, <2>1, <2>2, <2>3
  <2>5. cnt[x] = gpow(e) /\ gpow(e) = e
    BY <1>1, <2>3, <2>4, BelowOrder
  <2> QED
    BY <2>1, <2>3, <2>4, <2>5
<1>5. Numbered(P, addr, cnt, counter)
  <2>1. \A x \in P : cnt[x] = num[x]
    BY <1>4
  <2> QED
    BY <1>1, <2>1 DEF Numbered
<1> QED
  BY <1>3, <1>4, <1>5 DEF Fitting

(* The addresses and counts of the reads, each pair once.                  *)
LEMMA NumberedPairs ==
  ASSUME NEW P, NEW addr, NEW cnt, NEW counter, Fitting(P, addr, cnt, counter)
  PROVE  /\ {<<addr[x], cnt[x]>> : x \in P} = UNION {{<<a, gpow(e)>> : e \in 0..counter[a] - 1} : a \in K}
         /\ Cardinality({<<addr[x], cnt[x]>> : x \in P}) = Cardinality(P)
<1> DEFINE T == {<<addr[x], cnt[x]>> : x \in P}
           U == UNION {{<<a, gpow(e)>> : e \in 0..counter[a] - 1} : a \in K}
           f == [x \in P |-> <<addr[x], cnt[x]>>]
<1>1. /\ IsFiniteSet(P)
      /\ \A x \in P : addr[x] \in K /\ cnt[x] \in Nat /\ cnt[x] < counter[addr[x]]
      /\ \A x, y \in P : addr[x] = addr[y] /\ cnt[x] = cnt[y] => x = y
      /\ \A a \in K : counter[a] \in Nat
                      /\ \A e \in 0..counter[a] - 1 : \E x \in P : addr[x] = a /\ cnt[x] = e
  BY DEF Fitting, Numbered
<1>2. \A a \in K : \A e \in 0..counter[a] - 1 : gpow(e) = e
  <2> SUFFICES ASSUME NEW a \in K, NEW e \in 0..counter[a] - 1 PROVE gpow(e) = e
    OBVIOUS
  <2>1. counter[a] \in Nat /\ counter[a] < Ord
    BY DEF Fitting
  <2>2. e \in 0..Ord - 1
    BY <2>1, OrdAssumption
  <2> QED
    BY <2>2, BelowOrder
<1>3. ASSUME NEW x \in P PROVE <<addr[x], cnt[x]>> \in U
  <2>1. addr[x] \in K /\ cnt[x] \in 0..counter[addr[x]] - 1
    BY <1>1, <1>3
  <2>2. cnt[x] = gpow(cnt[x])
    BY <1>2, <2>1
  <2> QED
    BY <2>1, <2>2
<1>4. ASSUME NEW a \in K, NEW e \in 0..counter[a] - 1 PROVE <<a, gpow(e)>> \in T
  <2>1. PICK x \in P : addr[x] = a /\ cnt[x] = e
    BY <1>1, <1>4
  <2> QED
    BY <1>2, <1>4, <2>1
<1>5. T = U
  <2>1. T \subseteq U
    BY <1>3
  <2>2. U \subseteq T
    BY <1>4
  <2> QED
    BY <2>1, <2>2
<1>6. f \in Bijection(P, T)
  <2>1. f \in [P -> T] /\ (\A y \in T : \E x \in P : f[x] = y)
    OBVIOUS
  <2>2. \A x, y \in P : f[x] = f[y] => x = y
    BY <1>1
  <2> HIDE DEF f, T
  <2> QED
    BY <2>1, <2>2 DEF Bijection, Injection, Surjection, IsInjective
<1>7. Cardinality(T) = Cardinality(P)
  <2> HIDE DEF f, T
  <2>1. ExistsBijection(P, T)
    BY <1>6 DEF ExistsBijection
  <2> QED
    BY <1>1, <2>1, FS_Bijection
<1> QED
  BY <1>5, <1>7

(* Each row reads, so there are no more rows than reads.                   *)
LEMMA RowsFit ==
  ASSUME BuilderInv
  PROVE  /\ IsFiniteSet(MemPlaces(built)) /\ SlotPlaces(built) \subseteq MemPlaces(built)
         /\ IsFiniteSet(SlotPlaces(built)) /\ Cardinality(SlotPlaces(built)) = Len(built)
         /\ Len(built) <= Cardinality(MemPlaces(built)) /\ Cardinality(MemPlaces(built)) \in Nat
<1> DEFINE P == MemPlaces(built)
           S == SlotPlaces(built)
           N == Len(built)
           f == [i \in 1..N |-> <<i, 1>>]
<1>1. built \in Seq(Rows) /\ CountedBy(P, MemAddrs(built), MemCounts(built), memReads)
  BY DEF BuilderInv, RowsKept
<1>2. IsFiniteSet(P)
  BY <1>1 DEF CountedBy, Numbered
<1>3. N \in Nat /\ DOMAIN built = 1..N
  BY <1>1
<1>4. S \subseteq P
  <2> SUFFICES ASSUME NEW i \in DOMAIN built PROVE <<i, 1>> \in P
    BY DEF SlotPlaces
  <2>1. 1 \in 1..Reads(built[i].op)
    BY DEF Reads
  <2> QED
    BY <2>1, PlacesListed
<1>5. S = {<<i, 1>> : i \in 1..N}
  BY <1>3 DEF SlotPlaces
<1> HIDE DEF P, S, N
<1>6. f \in Bijection(1..N, S)
  <2>1. f \in [1..N -> S] /\ (\A y \in S : \E x \in 1..N : f[x] = y) /\ (\A x, y \in 1..N : f[x] = f[y] => x = y)
    BY <1>5
  <2> HIDE DEF f
  <2> QED
    BY <2>1 DEF Bijection, Injection, Surjection, IsInjective
<1>7. Cardinality(S) = N /\ IsFiniteSet(S)
  <2> HIDE DEF f
  <2>1. ExistsBijection(1..N, S)
    BY <1>6 DEF ExistsBijection
  <2>2. IsFiniteSet(1..N) /\ Cardinality(1..N) = N
    BY <1>3, FS_Interval
  <2> QED
    BY <2>1, <2>2, FS_Bijection
<1>8. Cardinality(S) <= Cardinality(P) /\ Cardinality(P) \in Nat
  BY <1>2, <1>4, FS_Subset, FS_CardinalityType
<1> QED
  BY <1>2, <1>4, <1>7, <1>8 DEF P, S, N

(* Both families of counters, within the bound.                            *)
LEMMA BothFit ==
  ASSUME BuilderInv, ReadsFit
  PROVE  /\ Fitting(MemPlaces(built), MemAddrs(built), MemCounts(built), memReads)
         /\ Fitting(SlotPlaces(built), SlotAddrs(built), SlotCounts(built), bcReads)
<1>1. /\ CountedBy(MemPlaces(built), MemAddrs(built), MemCounts(built), memReads)
      /\ CountedBy(SlotPlaces(built), SlotAddrs(built), SlotCounts(built), bcReads)
  BY DEF BuilderInv, RowsKept
<1>2. /\ Cardinality(SlotPlaces(built)) = Len(built) /\ Len(built) \in Nat
      /\ Len(built) <= Cardinality(MemPlaces(built)) /\ Cardinality(MemPlaces(built)) \in Nat
  <2>1. built \in Seq(Rows)
    BY DEF BuilderInv, RowsKept
  <2>2. Len(built) \in Nat
    BY <2>1
  <2> QED
    BY <2>2, RowsFit
<1>3. Cardinality(MemPlaces(built)) <= MaxReads /\ MaxReads \in Nat
  BY CapsAssumption DEF ReadsFit
<1>4. Cardinality(SlotPlaces(built)) <= MaxReads
  BY <1>2, <1>3
<1> QED
  BY <1>1, <1>3, <1>4, FewReadsFit

(* The reads of a cell carry the counts g^0, g^1, ... up to its counter,   *)
(* once each, across all the tables, and so do the reads of a slot: as     *)
(* long as the reads are within the bound that the caps put on them, and   *)
(* whatever order the rows are written in.                                 *)
LEMMA ReadsAreNumbered == BuilderInv /\ ReadsFit => NumberedReads
<1> SUFFICES ASSUME BuilderInv, ReadsFit PROVE NumberedReads
  OBVIOUS
<1> DEFINE w == [rows |-> built]
           mem == {<<memRead(w, x).addr, memRead(w, x).count>> : x \in ReadPlaces(w)}
           bc  == {<<built[i].pc, built[i].rbc>> : i \in DOMAIN built}
           P == MemPlaces(built)
           S == SlotPlaces(built)
<1>1. Fitting(P, MemAddrs(built), MemCounts(built), memReads)
  BY BothFit
<1>2. Fitting(S, SlotAddrs(built), SlotCounts(built), bcReads)
  BY BothFit
<1>3. mem = {<<MemAddrs(built)[x], MemCounts(built)[x]>> : x \in P}
  <2>1. w.rows = built /\ ReadPlaces(w) = P
    BY DEF MemPlaces
  <2> HIDE DEF w, P
  <2>2. \A x \in P : /\ memRead(w, x).addr = MemAddrs(built)[x]
                     /\ memRead(w, x).count = MemCounts(built)[x]
    BY <2>1 DEF memRead, Msg, MemAddrs, MemCounts, P
  <2> QED
    BY <2>1, <2>2
<1>4. bc = {<<SlotAddrs(built)[x], SlotCounts(built)[x]>> : x \in S}
  <2>1. \A i \in DOMAIN built : /\ <<i, 1>> \in S /\ SlotAddrs(built)[<<i, 1>>] = built[i].pc
                                /\ SlotCounts(built)[<<i, 1>>] = built[i].rbc
    BY DEF SlotPlaces, SlotAddrs, SlotCounts
  <2>2. \A x \in S : \E i \in DOMAIN built : x = <<i, 1>>
    BY DEF SlotPlaces
  <2> HIDE DEF S
  <2> DEFINE R == {<<SlotAddrs(built)[x], SlotCounts(built)[x]>> : x \in S}
  <2>3. ASSUME NEW i \in DOMAIN built PROVE <<built[i].pc, built[i].rbc>> \in R
    BY <2>1, <2>3
  <2>4. bc \subseteq R
    <3> HIDE DEF R
    <3> QED
      BY <2>3
  <2>5. ASSUME NEW x \in S PROVE <<SlotAddrs(built)[x], SlotCounts(built)[x]>> \in bc
    BY <2>1, <2>2, <2>5
  <2>6. R \subseteq bc
    <3> HIDE DEF bc
    <3> QED
      BY <2>5
  <2> QED
    BY <2>4, <2>6
<1>5. Cardinality(S) = Len(built)
  BY RowsFit
<1>6. P = ReadPlaces(w)
  BY DEF MemPlaces
<1> HIDE DEF P, S, mem, bc, w
<1>7. /\ mem = UNION {{<<a, gpow(e)>> : e \in 0..memReads[a] - 1} : a \in K}
      /\ Cardinality(mem) = Cardinality(ReadPlaces(w))
  BY <1>1, <1>3, <1>6, NumberedPairs
<1>8. /\ bc = UNION {{<<a, gpow(e)>> : e \in 0..bcReads[a] - 1} : a \in K}
      /\ Cardinality(bc) = Len(built)
  BY <1>2, <1>4, <1>5, NumberedPairs
<1> QED
  BY <1>7, <1>8 DEF NumberedReads, mem, bc, w

(* At every moment of the building.                                        *)
THEOREM ReadsAlwaysNumbered == Spec => [](ReadsFit => NumberedReads)
<1>1. BuilderInv => (ReadsFit => NumberedReads)
  BY ReadsAreNumbered
<1> QED
  BY <1>1, BuilderInvHolds, PTL

-----------------------------------------------------------------------------
(* What the builder has kept.                                              *)
LEMMA RowsOfSkels ==
  ASSUME BuilderInv, NEW i \in 1..Len(built)
  PROVE  /\ i \in 1..Len(skels) /\ Sound(job, skels[i])
         /\ RowStands(job, skels[i], built[i]) /\ AddressesStand(job, skels[i])
<1>1. /\ built \in Seq(Rows) /\ skels \in Seq(Skels) /\ Len(built) <= Len(skels)
      /\ RowIsBuilt(skels[i], built[i]) /\ job \in Jobs
  BY DEF BuilderInv, RowsKept, SkelsKept
<1>2. i \in 1..Len(skels)
  BY <1>1
<1>3. Sound(job, skels[i])
  BY <1>2 DEF BuilderInv, SkelsKept
<1>4. /\ built[i].r \in Counts(skels[i]) /\ built[i].rbc \in K
      /\ built[i] = skelRow(job, skels[i], built[i].r, built[i].rbc)
  BY <1>1 DEF RowIsBuilt
<1>5. RowStands(job, skels[i], built[i]) /\ AddressesStand(job, skels[i])
  BY <1>1, <1>3, <1>4, RowsStand
<1> QED
  BY <1>2, <1>3, <1>5

(* The public words are where they were.                                   *)
LEMMA BoundaryKept ==
  ASSUME NEW j \in Jobs
  PROVE  HasPublicBoundary(j.input, padded(j))
<1> DEFINE n == j.image.size
<1>1. HasPublicBoundary(j.input, j.image)
  BY JobAssumption DEF IsJob, ValidExecution
<1>2. /\ n \in Nat /\ 12 * Frames <= n /\ 2 * n <= MaxCells /\ n >= MinCells
      /\ MaxCells <= Ord /\ MaxCells \in Nat /\ MinCells \in Nat
      /\ Depth \in Nat /\ Depth >= 2 /\ Frames = 6 * Depth /\ IsImage(j.image)
  BY JobShape
<1>3. padded(j).size = 2 * n
  BY PaddedCells
<1> HIDE DEF n
<1>4. n <= Ord /\ 0 \in 0..n - 1 /\ 1 \in 0..n - 1 /\ 2 * n \in MinCells..MaxCells
  BY <1>2, OrdAssumption
<1>5. ASSUME NEW i \in {0, 1} PROVE read(padded(j), gpow(i)) = read(j.image, gpow(i))
  <2>1. HasIndex(n, gpow(i)) /\ gpow(i) \in K
    BY <1>2, <1>4, IndexNames
  <2>2. read(j.image, gpow(i)) # NoWord
    BY <1>2, <2>1, ReadTyped, NoWordAssumption DEF n
  <2> QED
    BY <2>1, <2>2, ImageExtended DEF Extended, reader
<1> QED
  BY <1>1, <1>3, <1>4, <1>5 DEF HasPublicBoundary

(* The fill steps onto itself.                                             *)
LEMMA FillIsClosed ==
  ASSUME NEW j, NEW s, NEW run \in Nat, NEW N \in Nat, run <= N, Closed(j, s, run + 1..N),
         \A i \in run + 1..N : s[i].regs.pc # FinalPc(j.prog)
  PROVE  FillerRowsValid(j.prog, padded(j), [i \in 1..N - run |-> s[run + i].regs])
<1>1. PICK pi \in Bijection(run + 1..N, run + 1..N) :
        \A i \in run + 1..N : stepOf(j, s[i].regs) = s[pi[i]].regs
  BY DEF Closed
<1> DEFINE M == N - run
           starts == [i \in 1..M |-> s[run + i].regs]
           nexts == [i \in 1..M |-> stepOf(j, starts[i])]
           rho == [i \in 1..M |-> pi[run + i] - run]
<1>2. M \in Nat /\ N = run + M
  OBVIOUS
<1>3. /\ pi \in [run + 1..N -> run + 1..N]
      /\ \A x, y \in run + 1..N : pi[x] = pi[y] => x = y
  BY DEF Bijection, Injection, IsInjective
<1> HIDE DEF M
<1>4. ASSUME NEW i \in 1..M
      PROVE  /\ run + i \in run + 1..N /\ rho[i] \in 1..M /\ run + rho[i] = pi[run + i]
             /\ nexts[i] = starts[rho[i]]
  <2>1. run + i \in run + 1..N
    BY <1>2, <1>4
  <2>2. pi[run + i] \in run + 1..N
    BY <1>3, <2>1
  <2>3. rho[i] \in 1..M /\ run + rho[i] = pi[run + i]
    BY <1>2, <1>4, <2>2
  <2> HIDE DEF rho
  <2>4. starts[rho[i]] = s[pi[run + i]].regs /\ starts[i] = s[run + i].regs
    BY <1>4, <2>3
  <2>5. nexts[i] = stepOf(j, s[run + i].regs)
    BY <1>4, <2>4
  <2> QED
    BY <1>1, <2>1, <2>3, <2>4, <2>5
<1>5. rho \in Bijection(1..M, 1..M)
  <2>1. rho \in [1..M -> 1..M]
    BY <1>4
  <2>2. IsFiniteSet(1..M)
    BY <1>2, FS_Interval
  <2> HIDE DEF rho
  <2>3. ASSUME NEW x \in 1..M, NEW y \in 1..M, rho[x] = rho[y] PROVE x = y
    <3>1. run + x \in run + 1..N /\ run + y \in run + 1..N
      BY <1>4
    <3>2. pi[run + x] = pi[run + y]
      <4>1. run + rho[x] = pi[run + x] /\ run + rho[y] = pi[run + y]
        BY <1>4
      <4> QED
        BY <2>3, <4>1
    <3>3. run + x = run + y
      BY <1>3, <3>1, <3>2
    <3> QED
      BY <3>3
  <2> QED
    BY <2>1, <2>2, <2>3, OneToOneIsOnto
<1>6. Renames(rho, 1..M, 1..M, nexts, starts)
  <2>1. IsFiniteSet(1..M)
    BY <1>2, FS_Interval
  <2>2. DOMAIN nexts = 1..M /\ DOMAIN starts = 1..M
    OBVIOUS
  <2> HIDE DEF rho, nexts, starts
  <2> QED
    BY <1>4, <1>5, <2>1, <2>2 DEF Renames
<1>7. \A x : Times(starts, x) = Times(nexts, x)
  <2> HIDE DEF rho, nexts, starts
  <2>1. \A x : Occurrences(nexts, x) = Occurrences(starts, x)
    BY <1>6, SameOccurrences
  <2> QED
    BY <2>1 DEF Times, Occurrences
<1>8. \A i \in 1..M : starts[i].pc # FinalPc(j.prog)
  BY <1>4
<1>9. nexts = [i \in DOMAIN starts |-> step(j.prog, padded(j), starts[i])]
  BY DEF stepOf
<1>10. DOMAIN starts = 1..M
  OBVIOUS
<1>11. FillerRowsValid(j.prog, padded(j), starts)
  <2> HIDE DEF nexts, starts
  <2> QED
    BY <1>7, <1>8, <1>9, <1>10 DEF FillerRowsValid, SuccessorsMatch
<1> QED
  BY <1>11 DEF M

(* The finished witness represents the execution it was built for: the     *)
(* committed cells are where they were, the run is valid over the padded   *)
(* image, each of its steps is a row, and the other rows are filler rows.  *)
LEMMA BuiltKeepsTrace == BuilderInv => TraceKept
<1> SUFFICES ASSUME BuilderInv, Finished PROVE TraceKept
  BY DEF TraceKept
<1> DEFINE rs == job.regs
           run == Len(rs) - 1
<1>1. /\ job \in Jobs /\ skels \in Seq(Skels) /\ run <= Len(skels)
      /\ \A i \in 1..run : skels[i].regs = rs[i]
      /\ \A i \in run + 1..Len(skels) : skels[i].regs.pc # FinalPc(job.prog)
      /\ Closed(job, skels, run + 1..Len(skels))
  BY DEF BuilderInv, SkelsKept, FillPlaces, RunLength
<1>2. Len(built) = Len(skels) /\ padWitness.image = padded(job) /\ built \in Seq(Rows)
  BY DEF Finished, padWitness, BuilderInv, RowsKept
<1>3. /\ Len(rs) \in Nat \ {0} /\ rs[1] = InitialRegs /\ rs[Len(rs)] = FinalRegs(job.prog)
      /\ \A i \in 1..Len(rs) - 1 : /\ rs[i].pc # FinalPc(job.prog)
                                   /\ stepOf(job, rs[i]) = rs[i + 1]
  BY <1>1, RunIsSound
<1>4. \A i \in 0..job.image.size - 1 : padWitness.image.cell[i] = job.image.cell[i]
  BY <1>1, <1>2, PaddedCells
<1>5. ValidExecution(job.prog, job.input, padWitness.image, rs)
  BY <1>1, <1>2, <1>3, BoundaryKept DEF ValidExecution, IsRun, stepOf
<1>6. ASSUME NEW i \in 1..run
      PROVE  \E n \in DOMAIN built : pull(built[n]) = rs[i] /\ push(built[n]) = rs[i + 1]
  <2>1. i \in 1..Len(built) /\ DOMAIN built = 1..Len(built)
    BY <1>1, <1>2, <1>3, <1>6
  <2>2. RowStands(job, skels[i], built[i])
    BY <2>1, RowsOfSkels
  <2>3. pull(built[i]) = rs[i] /\ push(built[i]) = stepOf(job, rs[i])
    BY <1>1, <1>6, <2>2 DEF RowStands
  <2>4. stepOf(job, rs[i]) = rs[i + 1]
    BY <1>3, <1>6
  <2> QED
    BY <2>1, <2>3, <2>4
<1>7. run \in Nat /\ Len(skels) \in Nat
  BY <1>1, <1>3
<1> HIDE DEF run
<1>8. FillerRowsValid(job.prog, padWitness.image, [i \in 1..Len(skels) - run |-> skels[run + i].regs])
  <2>1. FillerRowsValid(job.prog, padded(job), [i \in 1..Len(skels) - run |-> skels[run + i].regs])
    BY <1>1, <1>7, FillIsClosed
  <2> QED
    BY <1>2, <2>1
<1> QED
  BY <1>4, <1>5, <1>6, <1>8 DEF TraceKept, run

(* Whatever the program, the run and the plan.                             *)
THEOREM TraceAlwaysKept == Spec => []TraceKept
BY BuiltKeepsTrace, BuilderInvHolds, PTL

-----------------------------------------------------------------------------
(* The finished witness, its rows as they were written.                    *)
unsorted == [padWitness EXCEPT !.rows = built]

(* Only the order of the rows tells it from padWitness.                    *)
LEMMA UnsortedParts ==
  /\ unsorted.rows = built /\ unsorted.image = padded(job)
  /\ unsorted.memFin = [i \in 0..2 * job.image.size - 1 |-> gpow(memReads[gpow(i)])]
  /\ unsorted.bcFin = [i \in 0..job.prog.size - 1 |-> gpow(bcReads[gpow(i)])]
BY DEF unsorted, padWitness

(* The step of a row leads to the next row of the run, or to a row of the  *)
(* fill; the last step of the run, to the final state.                     *)
Follows(run, N, pi) ==
  [i \in 1..N \cup {0} |-> IF i > run THEN pi[i] ELSE IF i = run THEN 0 ELSE i + 1]

(* Each row of the trace follows exactly one, where the fill's rows follow *)
(* one another by a permutation.                                           *)
LEMMA FollowsIsOneToOne ==
  ASSUME NEW run \in Nat, NEW N \in Nat, run <= N, NEW pi \in Bijection(run + 1..N, run + 1..N)
  PROVE  Follows(run, N, pi) \in Bijection(1..N \cup {0}, 1..N \cup {0})
<1> DEFINE S == 1..N \cup {0}
           f == Follows(run, N, pi)
<1>1. /\ pi \in [run + 1..N -> run + 1..N]
      /\ \A x, y \in run + 1..N : pi[x] = pi[y] => x = y
  BY DEF Bijection, Injection, IsInjective
<1>2. \A i \in S : i \in 0..N /\ (i > run => i \in run + 1..N)
  OBVIOUS
<1>3. \A i \in S : i > run => f[i] = pi[i] /\ f[i] \in run + 1..N /\ f[i] \in S
  <2> SUFFICES ASSUME NEW i \in S, i > run PROVE f[i] = pi[i] /\ f[i] \in run + 1..N /\ f[i] \in S
    OBVIOUS
  <2>1. i \in run + 1..N
    BY <1>2
  <2>2. f[i] = pi[i]
    BY DEF Follows
  <2>3. pi[i] \in run + 1..N
    BY <1>1, <2>1
  <2>4. run + 1..N \subseteq S
    OBVIOUS
  <2> QED
    BY <2>2, <2>3, <2>4
<1>4. \A i \in S : ~(i > run) => f[i] = (IF i = run THEN 0 ELSE i + 1) /\ f[i] \in 0..run /\ f[i] \in S
  BY DEF Follows
<1>5. f \in [S -> S]
  <2>1. f = [i \in S |-> f[i]]
    BY DEF Follows
  <2> HIDE DEF f, S
  <2> QED
    BY <1>3, <1>4, <2>1
<1>6. IsFiniteSet(S)
  <2>1. IsFiniteSet(1..N)
    BY FS_Interval
  <2> QED
    BY <2>1, FS_AddElement
<1> HIDE DEF f
<1>7. ASSUME NEW x \in S, NEW y \in S, f[x] = f[y] PROVE x = y
  <2>1. CASE x > run /\ y > run
    BY <1>1, <1>2, <1>3, <1>7, <2>1
  <2>2. CASE x > run /\ ~(y > run)
    <3>1. f[x] \in run + 1..N /\ f[y] \in 0..run
      BY <1>3, <1>4, <2>2
    <3>2. f[y] \notin run + 1..N
      BY <3>1
    <3> QED
      BY <1>7, <3>1, <3>2
  <2>3. CASE ~(x > run) /\ y > run
    <3>1. f[y] \in run + 1..N /\ f[x] \in 0..run
      BY <1>3, <1>4, <2>3
    <3>2. f[x] \notin run + 1..N
      BY <3>1
    <3> QED
      BY <1>7, <3>1, <3>2
  <2>4. CASE ~(x > run) /\ ~(y > run)
    <3>1. f[x] = (IF x = run THEN 0 ELSE x + 1) /\ f[y] = (IF y = run THEN 0 ELSE y + 1)
      BY <1>4, <2>4
    <3>2. x \in Nat /\ y \in Nat
      BY <1>2, <1>7
    <3>3. x + 1 = y + 1 => x = y
      BY <3>2
    <3>4. x + 1 # 0 /\ y + 1 # 0
      BY <3>2
    <3> QED
      BY <1>7, <3>1, <3>3, <3>4
  <2> QED
    BY <2>1, <2>2, <2>3, <2>4
<1> HIDE DEF S
<1> QED
  BY <1>5, <1>6, <1>7, OneToOneIsOnto DEF f, S

(* The states balance: the run is a path from the initial state to the     *)
(* final one, and the fill is closed.                                      *)
LEMMA StatesBalance ==
  ASSUME BuilderInv, Finished
  PROVE  StateBalanced(job.prog, unsorted)
<1> DEFINE rs == job.regs
           run == Len(rs) - 1
           N == Len(built)
           S == 1..N \cup {0}
           F == [i \in S |-> IF i = 0 THEN InitialRegs ELSE push(built[i])]
           G == [i \in S |-> IF i = 0 THEN FinalRegs(job.prog) ELSE pull(built[i])]
<1>1. /\ job \in Jobs /\ skels \in Seq(Skels) /\ run <= Len(skels)
      /\ \A i \in 1..run : skels[i].regs = rs[i]
      /\ Closed(job, skels, run + 1..Len(skels))
  BY DEF BuilderInv, SkelsKept, FillPlaces, RunLength
<1>2. N = Len(skels) /\ built \in Seq(Rows) /\ N \in Nat /\ DOMAIN built = 1..N
  BY DEF Finished, BuilderInv, RowsKept
<1>3. /\ Len(rs) \in Nat \ {0} /\ rs[1] = InitialRegs /\ rs[Len(rs)] = FinalRegs(job.prog)
      /\ \A i \in 1..Len(rs) - 1 : stepOf(job, rs[i]) = rs[i + 1]
  BY <1>1, RunIsSound
<1>4. run \in Nat /\ Len(rs) = run + 1
  BY <1>3
<1>5. PICK pi \in Bijection(run + 1..N, run + 1..N) :
        \A i \in run + 1..N : stepOf(job, skels[i].regs) = skels[pi[i]].regs
  BY <1>1, <1>2 DEF Closed
<1> DEFINE f == Follows(run, N, pi)
<1>6. \A i \in 1..N : pull(built[i]) = skels[i].regs /\ push(built[i]) = stepOf(job, skels[i].regs)
  BY RowsOfSkels DEF RowStands
<1> HIDE DEF N, run
<1>7. f \in Bijection(S, S)
  BY <1>1, <1>2, <1>4, <1>5, FollowsIsOneToOne
<1>8. IsFiniteSet(S)
  <2>1. IsFiniteSet(1..N)
    BY <1>2, FS_Interval
  <2> QED
    BY <2>1, FS_AddElement
<1>9. \A i \in 1..N : F[i] = stepOf(job, skels[i].regs) /\ G[i] = skels[i].regs
  BY <1>2, <1>6
<1>10. F[0] = InitialRegs /\ G[0] = FinalRegs(job.prog)
  OBVIOUS
<1>11. /\ \A i \in S : i > run => f[i] = pi[i]
       /\ \A i \in S : i < run => f[i] = i + 1
       /\ f[run] = 0
  BY <1>1, <1>2, <1>4 DEF Follows
<1> HIDE DEF F, G, f
<1>12. ASSUME NEW i \in S PROVE F[i] = G[f[i]]
  <2>1. CASE i > run
    <3>1. i \in run + 1..N /\ i \in 1..N
      BY <1>2, <1>4, <1>12, <2>1
    <3>2. pi[i] \in 1..N
      <4>1. pi[i] \in run + 1..N
        BY <1>5, <3>1 DEF Bijection, Injection
      <4> QED
        BY <1>2, <1>4, <4>1
    <3> QED
      BY <1>5, <1>9, <1>11, <1>12, <2>1, <3>1, <3>2
  <2>2. CASE i < run
    <3>1. i + 1 \in 1..run /\ i + 1 \in 1..N /\ f[i] = i + 1
      BY <1>1, <1>2, <1>4, <1>11, <1>12, <2>2
    <3>2. G[f[i]] = rs[i + 1]
      BY <1>1, <1>9, <3>1
    <3>3. CASE i = 0
      BY <1>3, <1>10, <3>2, <3>3
    <3>4. CASE i # 0
      <4>1. i \in 1..run /\ i \in 1..N
        BY <1>1, <1>2, <1>4, <1>12, <2>2, <3>4
      <4> QED
        BY <1>1, <1>3, <1>9, <3>2, <4>1 DEF run
    <3> QED
      BY <3>3, <3>4
  <2>3. CASE i = run
    <3>1. G[f[i]] = rs[run + 1]
      BY <1>3, <1>4, <1>10, <1>11, <2>3
    <3>2. CASE i = 0
      BY <1>3, <1>4, <1>10, <2>3, <3>1, <3>2
    <3>3. CASE i # 0
      <4>1. i \in 1..run /\ i \in 1..N
        BY <1>1, <1>2, <1>4, <1>12, <2>3, <3>3
      <4>2. F[i] = stepOf(job, rs[i])
        BY <1>1, <1>9, <4>1
      <4> QED
        BY <1>3, <2>3, <3>1, <4>1, <4>2 DEF run
    <3> QED
      BY <3>2, <3>3
  <2> QED
    BY <1>2, <1>4, <1>12, <2>1, <2>2, <2>3
<1>13. DOMAIN F = S /\ DOMAIN G = S
  BY DEF F, G
<1>14. Perm(F, G)
  <2> HIDE DEF S
  <2>1. Renames(f, S, S, F, G)
    BY <1>7, <1>8, <1>12, <1>13 DEF Renames
  <2> QED
    BY <2>1, PermRenamed
<1> QED
  BY <1>2, <1>14, UnsortedParts DEF StateBalanced, F, G

(* A read by number: its address, its count and its word, and the count it *)
(* pushes, one higher.                                                     *)
LEMMA BumpIsNext ==
  ASSUME NEW addr, NEW c \in 0..Ord - 1, c + 1 < Ord, NEW val
  PROVE  bump(Msg(addr, c, val)) = Msg(addr, c + 1, val)
<1>1. KMul(gpow(1), c) = c + 1
  BY BelowOrder
<1> QED
  BY <1>1 DEF bump, Msg

(* The memory balances.                                                    *)
LEMMA MemoryBalances ==
  ASSUME BuilderInv, Finished, ReadsFit
  PROVE  MemoryBalanced(unsorted)
<1> DEFINE P == MemPlaces(built)
           n == 2 * job.image.size
           L == padded(job)
           addr == MemAddrs(built)
           cnt == MemCounts(built)
           val == [x \in P |-> readWords(built[x[1]])[x[2]]]
           B == BlockPlaces(n)
           F == [x \in P \cup B |-> IF x \in B THEN Msg(gpow(x[2]), One, L.cell[x[2]])
                                               ELSE bump(memRead(unsorted, x))]
           G == [x \in P \cup B |-> IF x \in B THEN Msg(gpow(x[2]), unsorted.memFin[x[2]], L.cell[x[2]])
                                               ELSE memRead(unsorted, x)]
<1>1. job \in Jobs /\ built \in Seq(Rows)
  BY DEF BuilderInv, SkelsKept, RowsKept
<1>2. n \in Nat /\ n <= Ord /\ L.size = n
  <2>1. /\ job.image.size \in Nat /\ 2 * job.image.size <= MaxCells /\ MaxCells <= Ord /\ MaxCells \in Nat
    BY <1>1, JobShape
  <2> QED
    BY <1>1, <2>1, OrdAssumption, PaddedCells
<1>3. Fitting(P, addr, cnt, memReads)
  BY BothFit
<1>4. Len(built) \in Nat /\ DOMAIN built = 1..Len(built)
  BY <1>1
<1> HIDE DEF n, L
<1>5. ASSUME NEW x \in P
      PROVE  /\ x[1] \in 1..Len(built) /\ addr[x] = readAddrs(built[x[1]])[x[2]]
             /\ addr[x] \in 0..n - 1 /\ val[x] = L.cell[addr[x]]
             /\ memRead(unsorted, x) = Msg(addr[x], cnt[x], val[x])
  <2>1. PICK l \in 1..Len(built) : \E k \in 1..Reads(built[l].op) : x = <<l, k>>
    BY <1>4, <1>5, PlacesListed
  <2>2. PICK k \in 1..Reads(built[l].op) : x = <<l, k>>
    BY <2>1
  <2>3. addr[x] = readAddrs(built[l])[k] /\ cnt[x] = built[l].r[k] /\ val[x] = readWords(built[l])[k]
    BY <1>5, <2>2 DEF MemAddrs, MemCounts
  <2>4. /\ RowStands(job, skels[l], built[l]) /\ AddressesStand(job, skels[l])
    BY RowsOfSkels
  <2>5. built[l].op = skels[l].ins.op /\ readAddrs(built[l]) = skelAddrs(job, skels[l])
    BY <2>4 DEF RowStands
  <2>6. addr[x] \in K /\ HasIndex(n, addr[x])
    BY <2>2, <2>3, <2>4, <2>5 DEF AddressesStand, n
  <2>7. read(L, addr[x]) = val[x]
    BY <2>2, <2>3, <2>4 DEF RowStands, Supported, L
  <2> HIDE DEF addr, cnt, val
  <2>8. PICK i \in 0..n - 1 : gpow(i) = addr[x]
    BY <2>6 DEF HasIndex
  <2>9. gpow(i) = i /\ gLog(n, gpow(i)) = i
    BY <1>2, <2>8, IndexNames
  <2>10. addr[x] \in 0..n - 1 /\ val[x] = L.cell[addr[x]]
    BY <1>2, <2>6, <2>7, <2>8, <2>9 DEF read
  <2>11. memRead(unsorted, x) = Msg(addr[x], cnt[x], val[x])
    BY <2>2, <2>3, UnsortedParts DEF memRead
  <2> QED
    BY <2>2, <2>3, <2>10, <2>11
<1>6. /\ \A b \in B : b[2] \in 0..n - 1 /\ b = <<0, b[2]>>
      /\ \A i \in 0..n - 1 : <<0, i>> \in B
  BY DEF BlockPlaces
<1>7. P \cap B = {}
  <2>1. 0 \notin 1..Len(built)
    BY <1>4
  <2> HIDE DEF P, B
  <2> QED
    BY <1>5, <1>6, <2>1
<1>8. Consistent(P, addr, val, n, L.cell)
  BY <1>2, <1>5, <1>7 DEF Consistent
<1> HIDE DEF P, B, addr, cnt, val
<1>9. ASSUME NEW x \in P
      PROVE  F[x] = Msg(addr[x], cnt[x] + 1, val[x]) /\ G[x] = Msg(addr[x], cnt[x], val[x])
  <2>1. x \notin B
    BY <1>7, <1>9
  <2>2. F[x] = bump(Msg(addr[x], cnt[x], val[x])) /\ G[x] = Msg(addr[x], cnt[x], val[x])
    BY <1>5, <1>9, <2>1
  <2>3. cnt[x] \in 0..Ord - 1 /\ cnt[x] + 1 < Ord
    BY <1>3, <1>9 DEF Fitting
  <2>4. bump(Msg(addr[x], cnt[x], val[x])) = Msg(addr[x], cnt[x] + 1, val[x])
    BY <2>3, BumpIsNext
  <2> QED
    BY <2>2, <2>4
<1>10. ASSUME NEW i \in 0..n - 1
       PROVE  F[<<0, i>>] = Msg(i, 0, L.cell[i]) /\ G[<<0, i>>] = Msg(i, memReads[i], L.cell[i])
  <2>1. gpow(i) = i /\ i \in K
    BY <1>2, <1>10, IndexNames
  <2>2. unsorted.memFin[i] = gpow(memReads[i])
    BY <1>10, <2>1, UnsortedParts DEF n
  <2>3. memReads[i] \in 0..Ord - 1
    <3>1. memReads[i] \in Nat /\ memReads[i] < Ord
      BY <1>3, <2>1 DEF Fitting
    <3> QED
      BY <3>1, OrdAssumption
  <2>4. gpow(memReads[i]) = memReads[i]
    BY <2>3, BelowOrder
  <2>5. <<0, i>> \in B /\ <<0, i>>[2] = i
    BY <1>6, <1>10
  <2>6. F[<<0, i>>] = Msg(gpow(i), One, L.cell[i]) /\ G[<<0, i>>] = Msg(gpow(i), unsorted.memFin[i], L.cell[i])
    BY <2>5
  <2> QED
    BY <2>1, <2>2, <2>4, <2>6 DEF One
<1>11. DOMAIN F = P \cup B /\ DOMAIN G = P \cup B
  OBVIOUS
<1>12. Perm(F, G)
  <2> HIDE DEF F, G
  <2>1. Sent(P, addr, cnt, val, n, L.cell, memReads, F, G)
    BY <1>9, <1>10, <1>11 DEF Sent, B
  <2>2. Numbered(P, addr, cnt, memReads)
    BY <1>3 DEF Fitting
  <2> QED
    BY <1>8, <2>1, <2>2, NumberedBalances
<1>13. P = ReadPlaces(unsorted) /\ unsorted.image = L /\ B = BlockPlaces(unsorted.image.size)
  BY <1>2, UnsortedParts DEF P, L, B, MemPlaces, ReadPlaces
<1> QED
  BY <1>12, <1>13 DEF MemoryBalanced

(* The bytecode balances.                                                  *)
LEMMA BytecodeBalances ==
  ASSUME BuilderInv, Finished, ReadsFit
  PROVE  BytecodeBalanced(job.prog, unsorted)
<1> DEFINE P == SlotPlaces(built)
           n == job.prog.size
           cell == [i \in 0..n - 1 |-> entry(job.prog.code[i])]
           addr == SlotAddrs(built)
           cnt == SlotCounts(built)
           val == [x \in P |-> rowEntry(built[x[1]])]
           B == BlockPlaces(n)
           F == [x \in P \cup B |-> IF x \in B THEN Msg(gpow(x[2]), One, entry(job.prog.code[x[2]]))
                                               ELSE bump(bytecodeRead(unsorted, x[1]))]
           G == [x \in P \cup B |-> IF x \in B
                                      THEN Msg(gpow(x[2]), unsorted.bcFin[x[2]], entry(job.prog.code[x[2]]))
                                      ELSE bytecodeRead(unsorted, x[1])]
<1>1. job \in Jobs /\ built \in Seq(Rows)
  BY DEF BuilderInv, SkelsKept, RowsKept
<1>2. n \in Nat /\ n <= Ord
  <2>1. IsProgram(job.prog)
    BY <1>1, JobShape
  <2>2. job.prog.size \in 1..Ord
    BY <2>1 DEF IsProgram
  <2> QED
    BY <2>2, OrdAssumption
<1>3. Fitting(P, addr, cnt, bcReads)
  BY BothFit
<1>4. Len(built) \in Nat /\ DOMAIN built = 1..Len(built)
  BY <1>1
<1>5. P = {<<i, 1>> : i \in 1..Len(built)}
  BY <1>4 DEF SlotPlaces
<1> HIDE DEF n
<1>6. ASSUME NEW x \in P
      PROVE  /\ x[1] \in 1..Len(built) /\ addr[x] = built[x[1]].pc
             /\ addr[x] \in 0..n - 1 /\ val[x] = cell[addr[x]]
             /\ bytecodeRead(unsorted, x[1]) = Msg(addr[x], cnt[x], val[x])
  <2>1. PICK l \in 1..Len(built) : x = <<l, 1>> /\ x[1] = l
    BY <1>5, <1>6
  <2>2. addr[x] = built[l].pc /\ cnt[x] = built[l].rbc /\ val[x] = rowEntry(built[l])
    BY <1>6, <2>1 DEF SlotAddrs, SlotCounts
  <2>3. RowStands(job, skels[l], built[l]) /\ Sound(job, skels[l])
    BY RowsOfSkels
  <2>4. /\ skels[l].ins \in Instr /\ skels[l].ins = fetch(job.prog, addr[x])
        /\ rowEntry(built[l]) = entry(skels[l].ins)
    BY <2>2, <2>3 DEF RowStands, Supported, Sound
  <2> HIDE DEF addr, cnt, val
  <2>5. HasIndex(n, addr[x]) /\ skels[l].ins = job.prog.code[gLog(n, addr[x])]
    BY <2>4, NoInstrAssumption DEF fetch, n
  <2>6. PICK i \in 0..n - 1 : gpow(i) = addr[x]
    BY <2>5 DEF HasIndex
  <2>7. gpow(i) = i /\ gLog(n, gpow(i)) = i
    BY <1>2, <2>6, IndexNames
  <2>8. addr[x] \in 0..n - 1 /\ val[x] = cell[addr[x]]
    BY <2>2, <2>4, <2>5, <2>6, <2>7
  <2>9. bytecodeRead(unsorted, x[1]) = Msg(addr[x], cnt[x], val[x])
    BY <2>1, <2>2, UnsortedParts DEF bytecodeRead
  <2> QED
    BY <2>1, <2>2, <2>8, <2>9
<1>7. /\ \A b \in B : b[2] \in 0..n - 1 /\ b = <<0, b[2]>>
      /\ \A i \in 0..n - 1 : <<0, i>> \in B
  BY DEF BlockPlaces
<1>8. P \cap B = {}
  <2>1. 0 \notin 1..Len(built)
    BY <1>4
  <2>2. \A x \in P : x[1] \in 1..Len(built)
    BY <1>5
  <2>3. \A b \in B : b[1] = 0
    BY <1>7
  <2> HIDE DEF P, B
  <2> QED
    BY <2>1, <2>2, <2>3
<1>9. Consistent(P, addr, val, n, cell)
  BY <1>2, <1>6, <1>8 DEF Consistent
<1>10. \A i \in 0..n - 1 : cell[i] = entry(job.prog.code[i])
  OBVIOUS
<1> HIDE DEF P, B, addr, cnt, val, cell
<1>11. ASSUME NEW x \in P
       PROVE  F[x] = Msg(addr[x], cnt[x] + 1, val[x]) /\ G[x] = Msg(addr[x], cnt[x], val[x])
  <2>1. x \notin B
    BY <1>8, <1>11
  <2>2. F[x] = bump(Msg(addr[x], cnt[x], val[x])) /\ G[x] = Msg(addr[x], cnt[x], val[x])
    BY <1>6, <1>11, <2>1
  <2>3. cnt[x] \in 0..Ord - 1 /\ cnt[x] + 1 < Ord
    BY <1>3, <1>11 DEF Fitting
  <2>4. bump(Msg(addr[x], cnt[x], val[x])) = Msg(addr[x], cnt[x] + 1, val[x])
    BY <2>3, BumpIsNext
  <2> QED
    BY <2>2, <2>4
<1>12. ASSUME NEW i \in 0..n - 1
       PROVE  F[<<0, i>>] = Msg(i, 0, cell[i]) /\ G[<<0, i>>] = Msg(i, bcReads[i], cell[i])
  <2>1. gpow(i) = i /\ i \in K
    BY <1>2, <1>12, IndexNames
  <2>2. unsorted.bcFin[i] = gpow(bcReads[i])
    BY <1>12, <2>1, UnsortedParts DEF n
  <2>3. bcReads[i] \in 0..Ord - 1
    <3>1. bcReads[i] \in Nat /\ bcReads[i] < Ord
      BY <1>3, <2>1 DEF Fitting
    <3> QED
      BY <3>1, OrdAssumption
  <2>4. gpow(bcReads[i]) = bcReads[i]
    BY <2>3, BelowOrder
  <2>5. <<0, i>> \in B /\ <<0, i>>[2] = i
    BY <1>7, <1>12
  <2>6. /\ F[<<0, i>>] = Msg(gpow(i), One, cell[i])
        /\ G[<<0, i>>] = Msg(gpow(i), unsorted.bcFin[i], cell[i])
    BY <1>10, <1>12, <2>5
  <2> QED
    BY <2>1, <2>2, <2>4, <2>6 DEF One
<1>13. DOMAIN F = P \cup B /\ DOMAIN G = P \cup B
  OBVIOUS
<1>14. Perm(F, G)
  <2> HIDE DEF F, G
  <2>1. Sent(P, addr, cnt, val, n, cell, bcReads, F, G)
    BY <1>11, <1>12, <1>13 DEF Sent, B
  <2>2. Numbered(P, addr, cnt, bcReads)
    BY <1>3 DEF Fitting
  <2> QED
    BY <1>9, <2>1, <2>2, NumberedBalances
<1>15. P = {<<i, 1>> : i \in DOMAIN unsorted.rows}
  BY UnsortedParts DEF P, SlotPlaces
<1> QED
  BY <1>14, <1>15 DEF BytecodeBalanced, B, n

-----------------------------------------------------------------------------
(* The tables have their numbers.                                          *)
LEMMA TablesNumbered ==
  /\ \A t \in Opcodes : tableIdx(t) \in 0..5
  /\ \A t, u \in Opcodes : tableIdx(t) = tableIdx(u) => t = u
<1>1. ASSUME NEW t \in Opcodes
      PROVE  tableIdx(t) \in 0..5 /\ fillTables[tableIdx(t) + 1] = t
  <2> DEFINE c == CHOOSE i \in 1..6 : fillTables[i] = t
  <2>1. \E i \in 1..6 : fillTables[i] = t
    BY <1>1 DEF Opcodes, fillTables
  <2>2. c \in 1..6 /\ fillTables[c] = t
    BY <2>1
  <2>3. tableIdx(t) = c - 1
    BY DEF tableIdx
  <2> HIDE DEF c
  <2>4. (c - 1) + 1 = c /\ c - 1 \in 0..5
    BY <2>2
  <2> QED
    BY <2>2, <2>3, <2>4
<1> QED
  BY <1>1

(* Sorting the rows table by table puts each in a place of its own.        *)
LEMMA PlacesApart ==
  ASSUME built \in Seq(Rows)
  PROVE  /\ \A j \in 1..Len(built) : place(j) \in 1..Len(built)
         /\ \A j, l \in 1..Len(built) : place(j) = place(l) => j = l
<1> DEFINE N == Len(built)
           below(j) == {i \in 1..N : NotAfter(i, j)}
           idx == [i \in 1..N |-> tableIdx(built[i].op)]
<1>1. N \in Nat /\ DOMAIN built = 1..N /\ \A i \in 1..N : built[i].op \in Opcodes
  <2>1. N \in Nat /\ DOMAIN built = 1..N /\ \A i \in 1..N : built[i] \in Rows
    OBVIOUS
  <2>2. \A row \in Rows : row.op \in Opcodes
    BY DEF Rows
  <2> QED
    BY <2>1, <2>2
<1>2. idx \in [1..N -> 0..5]
  BY <1>1, TablesNumbered
<1>3. \A i, j \in 1..N : NotAfter(i, j) <=> idx[i] < idx[j] \/ (idx[i] = idx[j] /\ i <= j)
  BY <1>1, TablesNumbered DEF NotAfter
<1> HIDE DEF idx, N
<1>4. \A i \in 1..N : i \in Nat /\ idx[i] \in Nat
  BY <1>1, <1>2
<1>5. \A j \in 1..N : NotAfter(j, j)
  BY <1>3, <1>4
<1>6. \A i, j, l \in 1..N : NotAfter(i, j) /\ NotAfter(j, l) => NotAfter(i, l)
  BY <1>3, <1>4
<1>7. \A i, j \in 1..N : i # j => NotAfter(i, j) \/ NotAfter(j, i)
  BY <1>3, <1>4
<1>8. \A i, j \in 1..N : i # j => ~(NotAfter(i, j) /\ NotAfter(j, i))
  BY <1>3, <1>4
<1>9. ASSUME NEW j \in 1..N
      PROVE  IsFiniteSet(below(j)) /\ place(j) = Cardinality(below(j)) /\ place(j) \in 1..N
  <2>1. IsFiniteSet(1..N) /\ Cardinality(1..N) = N
    BY <1>1, FS_Interval
  <2>2. below(j) \in SUBSET (1..N) /\ below(j) # {}
    BY <1>5, <1>9
  <2>3. place(j) = Cardinality(below(j))
    BY <1>1 DEF place, N
  <2> HIDE DEF below
  <2>4. /\ IsFiniteSet(below(j)) /\ Cardinality(below(j)) <= N
        /\ Cardinality(below(j)) \in Nat /\ Cardinality(below(j)) # 0
    BY <2>1, <2>2, FS_Subset, FS_CardinalityType, FS_EmptySet
  <2> QED
    BY <1>1, <2>3, <2>4
<1>10. ASSUME NEW j \in 1..N, NEW l \in 1..N, j # l, NotAfter(j, l)
       PROVE  place(j) # place(l)
  <2>1. below(j) \subseteq below(l)
    BY <1>6, <1>10
  <2>2. l \in below(l) /\ l \notin below(j)
    BY <1>5, <1>8, <1>10
  <2> HIDE DEF below
  <2>3. below(j) \in SUBSET below(l) /\ below(l) # below(j)
    BY <2>1, <2>2
  <2>4. IsFiniteSet(below(l)) /\ place(j) = Cardinality(below(j)) /\ place(l) = Cardinality(below(l))
    BY <1>9, <1>10
  <2> QED
    BY <2>3, <2>4, FS_Subset
<1>11. ASSUME NEW j \in 1..N, NEW l \in 1..N, place(j) = place(l) PROVE j = l
  BY <1>7, <1>10, <1>11
<1> QED
  BY <1>9, <1>11 DEF N

(* So the witness is the unsorted one with its rows in another order.      *)
LEMMA SortedIsReordered ==
  ASSUME BuilderInv
  PROVE  \E N, sigma : Reordered(padWitness, unsorted, N, sigma)
<1> DEFINE N == Len(built)
           sigma == [n \in 1..N |-> CHOOSE j \in 1..N : place(j) = n]
           pl == [j \in 1..N |-> place(j)]
<1>1. built \in Seq(Rows) /\ N \in Nat /\ DOMAIN built = 1..N
  <2>1. built \in Seq(Rows)
    BY DEF BuilderInv, RowsKept
  <2> QED
    BY <2>1
<1>2. /\ \A j \in 1..N : place(j) \in 1..N
      /\ \A j, l \in 1..N : place(j) = place(l) => j = l
  BY <1>1, PlacesApart
<1>3. sorted = [n \in 1..N |-> built[CHOOSE j \in 1..N : place(j) = n]]
  BY <1>1 DEF sorted
<1> HIDE DEF N
<1>4. IsFiniteSet(1..N)
  BY <1>1, FS_Interval
<1>5. pl \in Bijection(1..N, 1..N)
  <2>1. pl \in [1..N -> 1..N] /\ \A x, y \in 1..N : pl[x] = pl[y] => x = y
    BY <1>2
  <2> HIDE DEF pl
  <2> QED
    BY <1>4, <2>1, OneToOneIsOnto
<1>6. \A n \in 1..N : \E j \in 1..N : place(j) = n
  <2>1. \A n \in 1..N : \E j \in 1..N : pl[j] = n
    <3> HIDE DEF pl
    <3> QED
      BY <1>5 DEF Bijection, Surjection
  <2> QED
    BY <2>1
<1>7. \A n \in 1..N : sigma[n] \in 1..N /\ place(sigma[n]) = n
  BY <1>6
<1>8. \A n \in 1..N : sorted[n] = built[sigma[n]]
  BY <1>3
<1>9. sigma \in Bijection(1..N, 1..N)
  <2>1. sigma \in [1..N -> 1..N]
    BY <1>7
  <2> HIDE DEF sigma
  <2>2. \A x, y \in 1..N : sigma[x] = sigma[y] => x = y
    BY <1>7
  <2> QED
    BY <1>4, <2>1, <2>2, OneToOneIsOnto
<1> HIDE DEF sigma
<1>10. /\ padWitness.rows = sorted /\ padWitness.image = unsorted.image
       /\ padWitness.memFin = unsorted.memFin /\ padWitness.bcFin = unsorted.bcFin
       /\ unsorted.rows = built
  BY DEF padWitness, unsorted
<1>11. DOMAIN padWitness.rows = 1..N /\ DOMAIN unsorted.rows = 1..N
  BY <1>1, <1>3, <1>10
<1>12. Reordered(padWitness, unsorted, N, sigma)
  BY <1>1, <1>8, <1>9, <1>10, <1>11 DEF Reordered
<1> QED
  BY <1>12

(* The unsorted witness satisfies the constraint system.                   *)
LEMMA UnsortedSatisfies ==
  ASSUME BuilderInv, Finished, ReadsFit
  PROVE  SatisfiedBy(job.prog, job.input, unsorted)
<1> DEFINE N == Len(built)
<1>1. built \in Seq(Rows) /\ N \in Nat /\ DOMAIN built = 1..N /\ job \in Jobs
  <2>1. built \in Seq(Rows) /\ job \in Jobs
    BY DEF BuilderInv, RowsKept, SkelsKept
  <2> QED
    BY <2>1
<1>2. unsorted.rows = built /\ unsorted.image = padded(job)
  BY UnsortedParts
<1>3. StateBalanced(job.prog, unsorted) /\ MemoryBalanced(unsorted) /\ BytecodeBalanced(job.prog, unsorted)
  BY StatesBalance, MemoryBalances, BytecodeBalances
<1>4. \A i \in 1..N : Residuals(built[i]) /\ Blake2sRelation(built[i]) /\ IsRow(built[i])
  BY RowsOfSkels DEF RowStands, Supported
<1>5. Constraints(unsorted) /\ Blake2sRowsValid(unsorted)
  BY <1>1, <1>2, <1>4 DEF Constraints, Blake2sRowsValid
<1>6. ASSUME NEW i \in 1..N
      PROVE  built[i].rbc # Zero /\ \A k \in DOMAIN built[i].r : built[i].r[k] # Zero
  <2>1. <<i, 1>> \in SlotPlaces(built) /\ <<i, 1>>[1] = i
    BY <1>1, <1>6 DEF SlotPlaces
  <2>2. SlotCounts(built)[<<i, 1>>] = built[i].rbc /\ SlotCounts(built)[<<i, 1>>] \in 0..Ord - 1
    BY <2>1, BothFit DEF Fitting, SlotCounts
  <2>3. ASSUME NEW k \in DOMAIN built[i].r PROVE built[i].r[k] \in 0..Ord - 1
    <3>1. k \in 1..Reads(built[i].op)
      BY <1>4, <1>6, <2>3 DEF IsRow
    <3>2. <<i, k>> \in MemPlaces(built)
      BY <1>1, <1>6, <3>1, PlacesListed
    <3>3. MemCounts(built)[<<i, k>>] = built[i].r[k] /\ MemCounts(built)[<<i, k>>] \in 0..Ord - 1
      BY <3>2, BothFit DEF Fitting, MemCounts
    <3> QED
      BY <3>3
  <2>4. Zero \notin 0..Ord - 1
    BY OrdAssumption DEF Zero
  <2> QED
    BY <2>2, <2>3, <2>4
<1>7. CountsNonzero(unsorted)
  BY <1>1, <1>2, <1>6 DEF CountsNonzero
<1>8. HasPublicBoundary(job.input, unsorted.image)
  BY <1>1, <1>2, BoundaryKept
<1>9. ReadPlaces(unsorted) = MemPlaces(built)
  BY <1>2 DEF MemPlaces, ReadPlaces
<1>10. Caps(unsorted)
  BY <1>8, <1>9 DEF Caps, HasPublicBoundary, ReadsFit
<1> QED
  BY <1>3, <1>5, <1>7, <1>8, <1>10 DEF SatisfiedBy, HasPublicBoundary

(* The finished witness satisfies the constraint system, as long as its    *)
(* reads are within the bound of the caps (constraintCompleteness).        *)
LEMMA BuiltSatisfies == BuilderInv /\ ReadsFit => BuiltWitnessSatisfies
<1> SUFFICES ASSUME BuilderInv, ReadsFit, Finished
             PROVE  SatisfiedBy(job.prog, job.input, padWitness)
  BY DEF BuiltWitnessSatisfies
<1>1. PICK N, sigma : Reordered(padWitness, unsorted, N, sigma)
  BY SortedIsReordered
<1>2. SatisfiedBy(job.prog, job.input, unsorted)
  BY UnsortedSatisfies
<1>3. job.prog.size \in Nat /\ unsorted.image.size \in Nat
  <2>1. job \in Jobs
    BY DEF BuilderInv, SkelsKept
  <2>2. IsProgram(job.prog) /\ IsImage(padded(job))
    BY <2>1, JobShape, PaddedCells
  <2>3. job.prog.size \in 1..Ord /\ padded(job).size \in Nat
    BY <2>2 DEF IsProgram, IsImage
  <2> QED
    BY <2>3, OrdAssumption, UnsortedParts
<1> QED
  BY <1>1, <1>2, <1>3, OrderIsFree

(* Whatever the program, the run and the plan of the fill.                 *)
THEOREM BuiltAlwaysSatisfies == Spec => [](ReadsFit => BuiltWitnessSatisfies)
<1>1. BuilderInv => (ReadsFit => BuiltWitnessSatisfies)
  BY BuiltSatisfies
<1> QED
  BY <1>1, BuilderInvHolds, PTL

-----------------------------------------------------------------------------
(* Two stretches put together: their counts are added.                     *)
LEMMA CountTogether ==
  ASSUME NEW s, NEW u, NEW v, NEW N \in Nat, NEW M \in Nat,
         DOMAIN s = 1..N, DOMAIN u = 1..M, DOMAIN v = 1..N + M,
         \A i \in 1..N : v[i] = s[i], \A i \in 1..M : v[N + i] = u[i], NEW t
  PROVE  count(t, v) = count(t, s) + count(t, u)
<1> DEFINE A == {i \in DOMAIN s : s[i].ins.op = t}
           B == {i \in DOMAIN u : u[i].ins.op = t}
           C == {i \in DOMAIN v : v[i].ins.op = t}
           D == C \ A
           f == [i \in B |-> N + i]
<1>1. IsFiniteSet(1..N) /\ IsFiniteSet(1..M)
  BY FS_Interval
<1>2. IsFiniteSet(A) /\ IsFiniteSet(B) /\ Cardinality(A) \in Nat /\ Cardinality(B) \in Nat
  BY <1>1, FS_Subset, FS_CardinalityType
<1>3. A \subseteq C
  OBVIOUS
<1>4. \A i \in B : N + i \in D
  OBVIOUS
<1>5. ASSUME NEW i \in D
      PROVE  i - N \in B /\ N + (i - N) = i
  <2>1. i \in 1..N + M /\ v[i].ins.op = t /\ i \notin A
    OBVIOUS
  <2>2. ~(i <= N)
    BY <2>1
  <2>3. i - N \in 1..M /\ N + (i - N) = i
    BY <2>1, <2>2
  <2> QED
    BY <2>1, <2>3
<1>6. f \in Bijection(B, D)
  <2>1. f \in [B -> D]
    BY <1>4
  <2>2. \A x, y \in B : f[x] = f[y] => x = y
    OBVIOUS
  <2>3. \A y \in D : \E x \in B : f[x] = y
    BY <1>5
  <2> HIDE DEF f, B, D
  <2> QED
    BY <2>1, <2>2, <2>3 DEF Bijection, Injection, Surjection, IsInjective
<1> HIDE DEF A, B, C, f
<1>7. IsFiniteSet(D) /\ Cardinality(D) = Cardinality(B)
  <2> HIDE DEF D
  <2>1. ExistsBijection(B, D)
    BY <1>6 DEF ExistsBijection
  <2> QED
    BY <1>2, <2>1, FS_Bijection
<1>8. C = A \cup D /\ A \cap D = {}
  BY <1>3
<1>9. Cardinality(C) = Cardinality(A) + Cardinality(D) - Cardinality({})
  <2> HIDE DEF D
  <2> QED
    BY <1>2, <1>7, <1>8, FS_Union
<1>10. Cardinality({}) = 0
  BY FS_EmptySet
<1>11. Cardinality(C) = Cardinality(A) + Cardinality(B)
  <2> HIDE DEF D
  <2> QED
    BY <1>2, <1>7, <1>9, <1>10
<1> QED
  BY <1>11 DEF count, A, B, C

(* So a traversal counts once for each time it is made.                    *)
LEMMA CountRepeated ==
  ASSUME NEW cs, NEW l \in Nat \ {0}, Len(cs) = l, DOMAIN cs = 1..l, NEW t
  PROVE  \A n \in Nat : count(t, Repeated(n, cs)) = n * count(t, cs)
<1> DEFINE c(n) == count(t, Repeated(n, cs))
           one == count(t, cs)
           S == {n \in Nat : c(n) = n * one}
<1>1. one \in Nat
  BY CountType
<1>2. \A n \in Nat : n * l \in Nat /\ (n + 1) * l = n * l + l
  OBVIOUS
<1>3. ASSUME NEW n \in Nat
      PROVE  DOMAIN Repeated(n, cs) = 1..n * l
  BY DEF Repeated
<1>4. 0 \in S
  <2>1. count(t, Repeated(0, cs)) = Cardinality({})
    <3>1. DOMAIN Repeated(0, cs) = {}
      BY <1>3
    <3>2. {i \in DOMAIN Repeated(0, cs) : Repeated(0, cs)[i].ins.op = t} = {}
      BY <3>1
    <3> QED
      BY <3>2 DEF count
  <2> QED
    BY <1>1, <2>1, FS_EmptySet
<1>5. ASSUME NEW n \in Nat, n \in S
      PROVE  n + 1 \in S
  <2> DEFINE N == n * l
             s == Repeated(n, cs)
             v == Repeated(n + 1, cs)
  <2>1. N \in Nat /\ DOMAIN s = 1..N /\ DOMAIN v = 1..N + l
    BY <1>2, <1>3
  <2>2. \A i \in 1..N : s[i] = cs[((i - 1) % l) + 1]
    BY DEF Repeated
  <2>3. \A i \in 1..N + l : v[i] = cs[((i - 1) % l) + 1]
    BY <1>2 DEF Repeated
  <2>4. N = l * n
    OBVIOUS
  <2> HIDE DEF N, s, v
  <2>5. \A i \in 1..N : v[i] = s[i]
    BY <2>1, <2>2, <2>3
  <2>6. ASSUME NEW i \in 1..l
        PROVE  v[N + i] = cs[i]
    <3>1. PICK x : x = (N + i) - 1
      OBVIOUS
    <3>2. PICK r : r = i - 1
      OBVIOUS
    <3>4. x = l * n + r /\ r \in 0..l - 1
      BY <2>1, <2>4, <3>1, <3>2
    <3>5. x % l = r
      BY <3>4, DivModOnce
    <3>3. N + i \in 1..N + l /\ (i - 1) + 1 = i
      BY <2>1
    <3> QED
      BY <2>3, <3>1, <3>2, <3>3, <3>5
  <2>7. count(t, v) = count(t, s) + count(t, cs)
    BY <2>1, <2>5, <2>6, CountTogether
  <2>8. c(n) = n * one
    BY <1>5
  <2>9. c(n + 1) = c(n) + one
    BY <2>7 DEF v, s
  <2>10. n * one + one = (n + 1) * one
    BY <1>1
  <2> HIDE DEF c, one
  <2> QED
    BY <2>8, <2>9, <2>10
<1> HIDE DEF S
<1>6. \A n \in Nat : n \in S
  BY <1>4, <1>5, PlanAssumed, Plan!Induction
<1> QED
  BY <1>6 DEF S

(* A traversal has the dummies of its table and one closing jump.          *)
LEMMA CountCycle ==
  ASSUME NEW n, NEW pcs, NEW u \in Tables, NEW k \in Ladder, NEW t \in Tables
  PROVE  /\ count(t, cycleSkels(n, pcs, u, k))
              = (IF t = u THEN fillSizes[k] ELSE 0) + (IF t = "jump" THEN 1 ELSE 0)
         /\ Len(cycleSkels(n, pcs, u, k)) = fillSizes[k] + 1
         /\ DOMAIN cycleSkels(n, pcs, u, k) = 1..fillSizes[k] + 1
<1> DEFINE cs == cycleSkels(n, pcs, u, k)
           s == fillSizes[k]
           C == {i \in DOMAIN cs : cs[i].ins.op = t}
<1>1. s \in Nat
  BY BlockSizes
<1>2. fillDummy(u).op = u
  <2>1. u \in {"xor", "mulNative", "setConstant", "deref", "jump", "blake2s"}
    BY DEF Tables, fillTables
  <2> QED
    BY <2>1 DEF fillDummy
<1>3. fillClose.op = "jump"
  BY DEF fillClose
<1>4. /\ DOMAIN cs = 1..s + 1 /\ Len(cs) = s + 1
      /\ \A i \in 1..s + 1 : cs[i].ins = IF i <= s THEN fillDummy(u) ELSE fillClose
  BY <1>1 DEF cycleSkels, Skel
<1> HIDE DEF cs, s
<1>5. \A i \in 1..s + 1 : cs[i].ins.op = IF i <= s THEN u ELSE "jump"
  BY <1>2, <1>3, <1>4
<1>6. C = (IF t = u THEN 1..s ELSE {}) \cup (IF t = "jump" THEN {s + 1} ELSE {})
  <2>1. \A i : i \in C <=> i \in 1..s + 1 /\ (IF i <= s THEN u ELSE "jump") = t
    BY <1>4, <1>5
  <2>2. \A i : i \in 1..s + 1 <=> (i \in 1..s \/ i = s + 1)
    BY <1>1
  <2>3. \A i \in 1..s : i <= s
    BY <1>1
  <2>4. ~(s + 1 <= s) /\ s + 1 \notin 1..s
    BY <1>1
  <2> HIDE DEF C
  <2> QED
    BY <2>1, <2>2, <2>3, <2>4
<1>7. /\ IsFiniteSet(1..s) /\ Cardinality(1..s) = s /\ IsFiniteSet({}) /\ Cardinality({}) = 0
      /\ IsFiniteSet({s + 1}) /\ Cardinality({s + 1}) = 1
  <2>1. IsFiniteSet(1..s) /\ Cardinality(1..s) = IF 1 > s THEN 0 ELSE s - 1 + 1
    BY <1>1, FS_Interval
  <2>2. Cardinality(1..s) = s
    BY <1>1, <2>1
  <2> QED
    BY <2>1, <2>2, FS_EmptySet, FS_Singleton
<1>8. Cardinality(1..s \cup {s + 1}) = s + 1
  <2>1. s + 1 \notin 1..s
    BY <1>1
  <2> DEFINE X == 1..s
  <2>2. IsFiniteSet(X) /\ Cardinality(X) = s /\ s + 1 \notin X
    BY <1>7, <2>1
  <2> HIDE DEF X
  <2>3. Cardinality(X \cup {s + 1}) = s + 1
    BY <2>2, FS_AddElement
  <2> QED
    BY <2>3 DEF X
<1>9. Cardinality(C) = (IF t = u THEN s ELSE 0) + (IF t = "jump" THEN 1 ELSE 0)
  <2> HIDE DEF C
  <2>1. CASE t = u /\ t = "jump"
    <3>1. C = 1..s \cup {s + 1}
      BY <1>6, <2>1
    <3> QED
      BY <1>8, <2>1, <3>1
  <2>2. CASE t = u /\ t # "jump"
    <3>1. C = 1..s
      BY <1>6, <2>2
    <3> QED
      BY <1>1, <1>7, <2>2, <3>1
  <2>3. CASE t # u /\ t = "jump"
    <3>1. C = {s + 1}
      BY <1>6, <2>3
    <3> QED
      BY <1>7, <2>3, <3>1
  <2>4. CASE t # u /\ t # "jump"
    <3>1. C = {}
      BY <1>6, <2>4
    <3> QED
      BY <1>7, <2>4, <3>1
  <2> QED
    BY <2>1, <2>2, <2>3, <2>4
<1> QED
  BY <1>4, <1>9 DEF count, cs, s, C

(* Both instances of the counted fill say the same.                        *)
LEMMA SameFill ==
  /\ Plan!Init <=> CountedFill!Init
  /\ [Plan!Next]_(Plan!fillVars) <=> [CountedFill!Next]_(CountedFill!fillVars)
  /\ Plan!FillIsExact <=> CountedFill!FillIsExact
<1> USE DEF Plan!Pow2, CountedFill!Pow2, Plan!Ladder, CountedFill!Ladder,
            Plan!fillTables, CountedFill!fillTables, Plan!Tables, CountedFill!Tables,
            Plan!Max, CountedFill!Max, Plan!fillSizes, CountedFill!fillSizes,
            Plan!SumUpTo, CountedFill!SumUpTo, Plan!minRows, CountedFill!minRows,
            Plan!clog2, CountedFill!clog2, Plan!fillTarget, CountedFill!fillTarget,
            Plan!fillGreedy, CountedFill!fillGreedy, Plan!fillOf, CountedFill!fillOf,
            Plan!Traversals, CountedFill!Traversals, Plan!fillJumps, CountedFill!fillJumps,
            Plan!jumpOwed, CountedFill!jumpOwed, Plan!Fits, CountedFill!Fits,
            Plan!JumpFits, CountedFill!JumpFits, Plan!fillVars, CountedFill!fillVars
<1>1. Plan!Init = CountedFill!Init
  BY DEF Plan!Init, CountedFill!Init
<1>2. Plan!Next = CountedFill!Next
  BY DEF Plan!Next, CountedFill!Next, Plan!Traverse, CountedFill!Traverse, Plan!Cycles,
         CountedFill!Cycles, Plan!tableOf, CountedFill!tableOf, Plan!indexOf, CountedFill!indexOf,
         Plan!planCount, CountedFill!planCount, Plan!jumpCount, CountedFill!jumpCount,
         Plan!jumpMix, CountedFill!jumpMix
<1>3. Plan!FillIsExact = CountedFill!FillIsExact
  BY DEF Plan!FillIsExact, CountedFill!FillIsExact, Plan!Cycles, CountedFill!Cycles,
         Plan!tableHeight, CountedFill!tableHeight, Plan!IsPowerOfTwo, CountedFill!IsPowerOfTwo
<1>4. Plan!fillVars = CountedFill!fillVars
  OBVIOUS
<1> QED
  BY <1>1, <1>2, <1>3, <1>4

(* The builder starts where the counted fill does.                         *)
LEMMA CountedInit == Init => Plan!Init
<1> SUFFICES ASSUME Init PROVE Plan!Init
  OBVIOUS
<1>1. job \in Jobs /\ cycle = 0 /\ skels = runSkels(job.prog, job.regs)
  BY DEF Init
<1>2. runRows(job) \in [Tables -> Nat] /\ Fits(runRows(job), job.tau)
  BY <1>1, RunRowsType
<1>3. job.tau \in 0..MaxLogRows
  BY <1>2 DEF Fits, JumpFits
<1>4. [t \in Tables |-> count(t, skels)] = runRows(job)
  BY <1>1 DEF runRows
<1> QED
  BY <1>1, <1>2, <1>3, <1>4, SamePlan DEF Plan!Init

(* Its traversals are the counted fill's, and its rows change no height.   *)
LEMMA CountedStep ==
  ASSUME SkelsKept, [Next]_vars
  PROVE  [Plan!Next]_(Plan!fillVars)
<1>1. ASSUME Traverse
      PROVE  Plan!Traverse
  <2> DEFINE t == tableOf(cycle)
             k == indexOf(cycle)
             n == planCount(runRows(job), job.tau, t)[k]
             cs == cycleSkels(job.image.size, job.pcs, t, k)
             N == Len(skels)
             M == n * Len(cs)
  <2>1. job \in Jobs /\ cycle \in 0..Cycles /\ skels \in Seq(Skels)
    BY DEF SkelsKept
  <2>2. /\ cycle < Cycles /\ skels' = skels \o Repeated(n, cs) /\ cycle' = cycle + 1 /\ job' = job
    BY <1>1 DEF Traverse
  <2>3. Cycles = Plan!Cycles /\ Cycles \in Nat /\ cycle \in 0..Cycles - 1
    <3>1. Depth \in Nat /\ Frames = 6 * Depth
      BY <2>1, JobShape
    <3>2. Cycles = Plan!Cycles
      BY DEF Cycles, Frames, Plan!Cycles, Plan!fillTables, fillTables
    <3> QED
      BY <2>1, <2>2, <3>1, <3>2 DEF Cycles
  <2>4. t \in Tables /\ k \in Ladder
    BY <2>3, CyclePlaces
  <2>5. n \in Nat
    BY <2>1, <2>4, PlanCounts
  <2>6. Plan!tableOf(cycle) = t /\ Plan!indexOf(cycle) = k
    BY DEF Plan!tableOf, tableOf, Plan!indexOf, indexOf, Plan!fillTables, fillTables
  <2>7. Plan!planCount(runRows(job), job.tau, t)[k] = n
    BY SamePlan
  <2>8. /\ fillSizes[k] \in Nat \ {0} /\ Len(cs) = fillSizes[k] + 1
        /\ DOMAIN cs = 1..fillSizes[k] + 1
        /\ \A u \in Tables : count(u, cs) = (IF u = t THEN fillSizes[k] ELSE 0)
                                            + (IF u = "jump" THEN 1 ELSE 0)
    BY <2>4, BlockSizes, CountCycle
  <2>16. Repeated(n, cs) \in Seq(Skels)
    <3>1. ClosedCycle(job, cs)
      BY <2>1, <2>3, CycleCloses
    <3> QED
      BY <2>5, <3>1, RepeatedCloses
  <2> HIDE DEF t, k, n, cs
  <2>9. ASSUME NEW u \in Tables
        PROVE  count(u, Repeated(n, cs)) = (IF u = t THEN n * fillSizes[k] ELSE 0)
                                             + (IF u = "jump" THEN n ELSE 0)
    <3>1. count(u, Repeated(n, cs)) = n * count(u, cs)
      BY <2>5, <2>8, CountRepeated
    <3>2. count(u, cs) = (IF u = t THEN fillSizes[k] ELSE 0) + (IF u = "jump" THEN 1 ELSE 0)
      BY <2>8
    <3> QED
      BY <2>5, <2>8, <3>1, <3>2
  <2>10. /\ N \in Nat /\ M \in Nat /\ DOMAIN skels = 1..N /\ DOMAIN Repeated(n, cs) = 1..M
    <3>1. N \in Nat /\ DOMAIN skels = 1..N
      BY <2>1, LenProperties
    <3>2. M \in Nat /\ DOMAIN Repeated(n, cs) = 1..M
      BY <2>5, <2>8 DEF Repeated
    <3> QED
      BY <3>1, <3>2
  <2>11. /\ DOMAIN skels' = 1..N + M
         /\ \A i \in 1..N : skels'[i] = skels[i]
         /\ \A i \in 1..M : skels'[N + i] = Repeated(n, cs)[i]
    <3>1. Len(Repeated(n, cs)) = M
      BY <2>10 DEF Repeated
    <3>2. /\ skels' \in Seq(Skels) /\ Len(skels') = N + M
          /\ \A i \in 1..N + M :
               skels'[i] = IF i <= N THEN skels[i] ELSE Repeated(n, cs)[i - N]
      BY <2>1, <2>2, <2>16, <3>1, ConcatProperties
    <3>3. DOMAIN skels' = 1..N + M
      BY <3>2, LenProperties
    <3>4. \A i \in 1..M : N + i \in 1..N + M /\ ~(N + i <= N) /\ (N + i) - N = i
      BY <2>10
    <3>5. \A i \in 1..N : i \in 1..N + M /\ i <= N
      BY <2>10
    <3> HIDE DEF M, N
    <3> QED
      BY <3>2, <3>3, <3>4, <3>5
  <2> HIDE DEF N, M
  <2>12. ASSUME NEW u \in Tables
         PROVE  count(u, skels') = count(u, skels) + (IF u = t THEN n * fillSizes[k] ELSE 0)
                                     + (IF u = "jump" THEN n ELSE 0)
    <3>1. count(u, skels') = count(u, skels) + count(u, Repeated(n, cs))
      BY <2>10, <2>11, CountTogether
    <3>2. count(u, skels) \in Nat
      BY <2>10, CountType
    <3>3. n * fillSizes[k] \in Nat
      BY <2>5, <2>8
    <3> QED
      BY <2>5, <2>9, <3>1, <3>2, <3>3
  <2>13. [u \in Tables |-> count(u, skels')]
           = [u \in Tables |-> [v \in Tables |-> count(v, skels)][u]
                                 + (IF u = t THEN n * fillSizes[k] ELSE 0)
                                 + (IF u = "jump" THEN n ELSE 0)]
    BY <2>12
  <2>14. [u \in Tables |-> count(u, skels)]' = [u \in Tables |-> count(u, skels')]
    OBVIOUS
  <2>15. runRows(job)' = runRows(job) /\ job.tau' = job.tau
    BY <2>2 DEF runRows
  <2> QED
    BY <2>2, <2>3, <2>6, <2>7, <2>13, <2>14, <2>15, SamePlan DEF Plan!Traverse
<1>2. ASSUME WriteRow \/ UNCHANGED vars
      PROVE  UNCHANGED Plan!fillVars
  BY <1>2 DEF WriteRow, vars, Plan!fillVars, runRows
<1> QED
  BY <1>1, <1>2 DEF Next, Plan!Next

(* Writing the skeletons implements the counted fill, which ends with      *)
(* every table exactly at its announced height (Trace.count_rows).         *)
THEOREM FillIsCounted == Spec => FillsAsCounted
<1>1. Init /\ [][Next]_vars /\ []SkelsKept => Plan!Init /\ [][Plan!Next]_(Plan!fillVars)
  BY CountedInit, CountedStep, PTL
<1>2. Spec => []SkelsKept
  <2>1. BuilderInv => SkelsKept
    BY DEF BuilderInv
  <2> QED
    BY <2>1, BuilderInvHolds, PTL
<1>3. Plan!Spec => []Plan!FillIsExact
  BY PlanAssumed, Plan!FillEndsExact
<1>4. Plan!Spec <=> Plan!Init /\ [][Plan!Next]_(Plan!fillVars)
  BY DEF Plan!Spec
<1>5. CountedFill!Spec <=> CountedFill!Init /\ [][CountedFill!Next]_(CountedFill!fillVars)
  BY DEF CountedFill!Spec
<1>6. Spec => Plan!Spec
  BY <1>1, <1>2, <1>4, PTL DEF Spec
<1> QED
  BY <1>3, <1>4, <1>5, <1>6, SameFill, PTL DEF FillsAsCounted

-----------------------------------------------------------------------------
(* The caps on the heights keep the reads within their bound: a row reads  *)
(* at most nine cells (padSends_length_lt).  In the code 9 * 6 * 2^32 is   *)
(* far below 2^64 - 1.                                                     *)
CapsCoverReads == 9 * (6 * Pow2[MaxLogRows]) <= MaxReads

SkelsOf(s, t) == {i \in DOMAIN s : s[i].ins.op = t}

(* Two sets together have at most as many elements as both.                *)
LEMMA AtMostBoth ==
  ASSUME NEW A, NEW B, IsFiniteSet(A), IsFiniteSet(B), NEW a \in Nat, NEW b \in Nat,
         Cardinality(A) <= a, Cardinality(B) <= b
  PROVE  IsFiniteSet(A \cup B) /\ Cardinality(A \cup B) <= a + b
<1>1. IsFiniteSet(A \cap B) /\ IsFiniteSet(A \cup B)
  BY FS_Intersection, FS_Union
<1>2. Cardinality(A \cup B) = Cardinality(A) + Cardinality(B) - Cardinality(A \cap B)
  BY FS_Union
<1>3. Cardinality(A) \in Nat /\ Cardinality(B) \in Nat /\ Cardinality(A \cap B) \in Nat
  BY <1>1, FS_CardinalityType
<1> QED
  BY <1>1, <1>2, <1>3

(* Six tables of at most M rows have at most 6 * M skeletons.              *)
LEMMA SixTables ==
  ASSUME NEW s \in Seq(Skels), NEW M \in Nat, \A t \in Tables : count(t, s) <= M
  PROVE  Len(s) <= 6 * M
<1> DEFINE N == Len(s)
           H(t) == SkelsOf(s, t)
<1>1. N \in Nat /\ DOMAIN s = 1..N
  OBVIOUS
<1>2. IsFiniteSet(1..N) /\ Cardinality(1..N) = N
  BY <1>1, FS_Interval
<1>3. ASSUME NEW t \in Tables
      PROVE  IsFiniteSet(H(t)) /\ Cardinality(H(t)) <= M
  <2>1. IsFiniteSet(H(t))
    BY <1>1, <1>2, FS_Subset DEF SkelsOf
  <2>2. count(t, s) = Cardinality(H(t))
    BY DEF count, SkelsOf
  <2> QED
    BY <2>1, <2>2
<1>4. \A i \in 1..N : s[i].ins.op \in Tables
  <2> SUFFICES ASSUME NEW i \in 1..N PROVE s[i].ins.op \in Tables
    OBVIOUS
  <2>1. s[i] \in Skels
    BY <1>1
  <2>2. s[i].ins.op \in Opcodes
    <3>1. s[i].ins \in Instr
      BY <2>1 DEF Skels
    <3>2. \A x \in Instr : x.op \in Opcodes
      BY DEF Instr, Opcodes
    <3> QED
      BY <3>1, <3>2
  <2> QED
    BY <2>2 DEF Opcodes, Tables, fillTables
<1>5. Tables = {"xor", "mulNative", "setConstant", "deref", "jump", "blake2s"}
  BY DEF Tables, fillTables
<1>6. 1..N = ((((H("xor") \cup H("mulNative")) \cup H("setConstant")) \cup H("deref")) \cup H("jump")) \cup H("blake2s")
  BY <1>1, <1>4, <1>5 DEF SkelsOf
<1> HIDE DEF H, N
<1>7. IsFiniteSet(H("xor") \cup H("mulNative")) /\ Cardinality(H("xor") \cup H("mulNative")) <= M + M
  BY <1>3, <1>5, AtMostBoth
<1> DEFINE A == H("xor") \cup H("mulNative")
<1> HIDE DEF A
<1>8. IsFiniteSet(A \cup H("setConstant")) /\ Cardinality(A \cup H("setConstant")) <= (M + M) + M
  <2>1. M + M \in Nat /\ IsFiniteSet(A) /\ Cardinality(A) <= M + M
    BY <1>7 DEF A
  <2> QED
    BY <2>1, <1>3, <1>5, AtMostBoth
<1> DEFINE B == A \cup H("setConstant")
<1> HIDE DEF B
<1>9. IsFiniteSet(B \cup H("deref")) /\ Cardinality(B \cup H("deref")) <= ((M + M) + M) + M
  <2>1. (M + M) + M \in Nat /\ IsFiniteSet(B) /\ Cardinality(B) <= (M + M) + M
    BY <1>8 DEF B
  <2> QED
    BY <2>1, <1>3, <1>5, AtMostBoth
<1> DEFINE C == B \cup H("deref")
<1> HIDE DEF C
<1>10. IsFiniteSet(C \cup H("jump")) /\ Cardinality(C \cup H("jump")) <= (((M + M) + M) + M) + M
  <2>1. ((M + M) + M) + M \in Nat /\ IsFiniteSet(C) /\ Cardinality(C) <= ((M + M) + M) + M
    BY <1>9 DEF C
  <2> QED
    BY <2>1, <1>3, <1>5, AtMostBoth
<1> DEFINE D == C \cup H("jump")
<1> HIDE DEF D
<1>11. Cardinality(D \cup H("blake2s")) <= ((((M + M) + M) + M) + M) + M
  <2>1. (((M + M) + M) + M) + M \in Nat /\ IsFiniteSet(D) /\ Cardinality(D) <= (((M + M) + M) + M) + M
    BY <1>10 DEF D
  <2> QED
    BY <2>1, <1>3, <1>5, AtMostBoth
<1>12. 1..N = D \cup H("blake2s")
  BY <1>6 DEF D, C, B, A
<1>13. N <= ((((M + M) + M) + M) + M) + M
  BY <1>2, <1>11, <1>12
<1> QED
  BY <1>1, <1>13 DEF N

(* The places of a sequence.                                               *)
LEMMA FirstPlaces == ASSUME NEW n \in Nat PROVE IsFiniteSet(1..n) /\ Cardinality(1..n) = n
BY FS_Interval

(* So rows that read nine cells at most read no more than the caps allow.  *)
LEMMA ReadsWithinCaps ==
  ASSUME CapsCoverReads, BuilderInv, Len(skels) <= 6 * Pow2[MaxLogRows], Pow2[MaxLogRows] \in Nat
  PROVE  ReadsFit
<1> DEFINE N == Len(built)
           P == MemPlaces(built)
<1>1. built \in Seq(Rows) /\ skels \in Seq(Skels) /\ Len(built) <= Len(skels)
  BY DEF BuilderInv, RowsKept, SkelsKept
<1>2. N \in Nat /\ DOMAIN built = 1..N /\ Len(skels) \in Nat
  BY <1>1
<1>3. P \subseteq (1..N) \X (1..9)
  <2> SUFFICES ASSUME NEW x \in P PROVE x \in (1..N) \X (1..9)
    OBVIOUS
  <2>1. PICK l \in DOMAIN built : \E k \in 1..Reads(built[l].op) : x = <<l, k>>
    BY PlacesListed
  <2>2. \A op : Reads(op) \in 1..9
    BY DEF Reads
  <2>3. PICK k \in 1..Reads(built[l].op) : x = <<l, k>>
    BY <2>1
  <2>4. k \in 1..9
    BY <2>2, <2>3
  <2> QED
    BY <1>2, <2>3, <2>4
<1>7. Cardinality(P) \in Nat
  BY RowsFit
<1>8. N <= 6 * Pow2[MaxLogRows]
  BY <1>1, <1>2
<1> HIDE DEF N, P
<1>4. IsFiniteSet(1..N) /\ Cardinality(1..N) = N /\ IsFiniteSet(1..9) /\ Cardinality(1..9) = 9
  <2>1. 9 \in Nat
    OBVIOUS
  <2> QED
    BY <1>2, <2>1, FirstPlaces
<1> DEFINE A == 1..N
           B == 1..9
<1> HIDE DEF A, B
<1>5. IsFiniteSet(A \X B) /\ Cardinality(A \X B) = Cardinality(A) * Cardinality(B)
  <2>1. IsFiniteSet(A) /\ IsFiniteSet(B)
    BY <1>4 DEF A, B
  <2> QED
    BY <2>1, FS_Product
<1>6. Cardinality(P) <= N * 9
  <2>1. P \subseteq A \X B
    BY <1>3 DEF A, B
  <2>2. Cardinality(P) <= Cardinality(A \X B)
    BY <2>1, <1>5, FS_Subset
  <2> QED
    BY <1>4, <1>5, <2>2 DEF A, B
<1>9. Cardinality(P) <= MaxReads
  <2>1. MaxReads \in Nat
    BY CapsAssumption
  <2>2. PICK m \in Nat : m = Pow2[MaxLogRows]
    OBVIOUS
  <2>3. N <= 6 * m /\ 9 * (6 * m) <= MaxReads
    BY <1>8, <2>2 DEF CapsCoverReads
  <2> QED
    BY ONLY <1>2, <1>6, <1>7, <2>1, <2>2, <2>3
<1> QED
  BY <1>9 DEF P, ReadsFit

(* With heights within the caps the reads never number more than they      *)
(* allow, whatever the program, the run and the plan.                      *)
LEMMA ReadsAlwaysFit == Spec => [](CapsCoverReads => ReadsFit)
<1>1. Init /\ [][Next]_vars /\ []SkelsKept => Plan!Init /\ [][Plan!Next]_(Plan!fillVars)
  BY CountedInit, CountedStep, PTL
<1>2. Spec => []BuilderInv
  BY BuilderInvHolds
<1>3. BuilderInv => SkelsKept
  BY DEF BuilderInv
<1>4. Plan!Spec => []Plan!WithinCap
  BY PlanAssumed, Plan!NeverAboveCap
<1>5. Plan!Spec <=> Plan!Init /\ [][Plan!Next]_(Plan!fillVars)
  BY DEF Plan!Spec
<1>6. Spec => []Plan!WithinCap
  BY <1>1, <1>2, <1>3, <1>4, <1>5, PTL DEF Spec
<1>7. BuilderInv /\ Plan!WithinCap => (CapsCoverReads => ReadsFit)
  <2> SUFFICES ASSUME BuilderInv, Plan!WithinCap, CapsCoverReads PROVE ReadsFit
    OBVIOUS
  <2>1. Plan!Pow2 = Pow2
    BY DEF Plan!Pow2, Pow2
  <2>2. Pow2[MaxLogRows] \in Nat
    <3>1. Plan!Pow2[MaxLogRows] \in Nat \ {0}
      BY PlanAssumed, LadderAssumption, Plan!Pow2Facts
    <3> QED
      BY <2>1, <3>1
  <2>3. \A t \in Tables : count(t, skels) <= Pow2[MaxLogRows]
    BY <2>1, SamePlan DEF Plan!WithinCap
  <2>4. skels \in Seq(Skels)
    BY DEF BuilderInv, SkelsKept
  <2>5. Len(skels) <= 6 * Pow2[MaxLogRows]
    BY <2>2, <2>3, <2>4, SixTables
  <2> QED
    BY <2>2, <2>5, ReadsWithinCaps
<1> QED
  BY <1>2, <1>6, <1>7, PTL

(* So what was proved of few reads holds of every one: the numbering of    *)
(* the reads at every step, and the finished witness                       *)
(* (constraintCompleteness).                                               *)
THEOREM CapsGiveNumbering == ASSUME CapsCoverReads PROVE Spec => []NumberedReads
BY ReadsAlwaysNumbered, ReadsAlwaysFit, PTL

(* The arithmetization is complete (constraintCompleteness): the heights   *)
(* being capped, the finished witness always satisfies the constraints.    *)
THEOREM CapsGiveSatisfaction == ASSUME CapsCoverReads PROVE Spec => []BuiltWitnessSatisfies
BY BuiltAlwaysSatisfies, ReadsAlwaysFit, PTL

-----------------------------------------------------------------------------
(* The builder does not see who reads its witness.                         *)
LEMMA BuildsAsBuilder == RTSpec => Spec
<1>1. RTInit => Init
  BY DEF RTInit
<1>2. [RTNext]_<<vars, readerVars>> => [Next]_vars
  BY DEF RTNext, Build, HandOver, Read
<1> QED
  BY <1>1, <1>2, PTL DEF RTSpec, Spec

(* Whoever reads, all of the builder's invariant is kept.                  *)
LEMMA BuiltThroughout == RTSpec => []BuilderInv
BY BuildsAsBuilder, BuilderInvHolds, PTL

-----------------------------------------------------------------------------
(* The rows handed over: each is a step over the padded image, and each    *)
(* step of the run is one of them.                                         *)
AreTheTables(ws) ==
  /\ Len(ws) \in Nat /\ DOMAIN ws = 1..Len(ws)
  /\ \A n \in 1..Len(ws) : IsRow(ws[n]) /\ push(ws[n]) = stepOf(job, pull(ws[n]))
  /\ RunLength(job) <= Len(ws)
  /\ \A i \in 1..RunLength(job) : \E n \in 1..Len(ws) : pull(ws[n]) = job.regs[i]

(* The finished tables are such rows (padWitness).                         *)
LEMMA TablesHandedOver ==
  ASSUME BuilderInv, Finished
  PROVE  AreTheTables(padWitness.rows)
<1> DEFINE ws == padWitness.rows
<1>1. PICK N, sigma : Reordered(padWitness, unsorted, N, sigma)
  BY SortedIsReordered
<1>2. /\ N \in Nat /\ DOMAIN ws = 1..N /\ DOMAIN built = 1..N
      /\ \A n \in 1..N : sigma[n] \in 1..N /\ ws[n] = built[sigma[n]]
      /\ \A i \in 1..N : \E n \in 1..N : sigma[n] = i
  BY <1>1, UnsortedParts DEF Reordered, Bijection, Injection, Surjection, IsInjective
<1>3. built \in Seq(Rows) /\ Len(built) = Len(skels) /\ job \in Jobs /\ RunLength(job) <= Len(skels)
  BY DEF BuilderInv, RowsKept, SkelsKept, Finished
<1>4. Len(built) = N
  BY <1>2, <1>3
<1>5. Len(ws) = N
  <2>1. ws = sorted
    BY DEF padWitness
  <2>2. sorted = [n \in 1..N |-> built[CHOOSE j \in 1..N : place(j) = n]]
    BY <1>2 DEF sorted
  <2> QED
    BY <1>2, <2>1, <2>2
<1> HIDE DEF ws
<1>6. \A i \in 1..N : RowStands(job, skels[i], built[i])
  BY <1>4, RowsOfSkels
<1>7. \A n \in 1..N : IsRow(ws[n]) /\ push(ws[n]) = stepOf(job, pull(ws[n]))
  <2> SUFFICES ASSUME NEW n \in 1..N
               PROVE  IsRow(ws[n]) /\ push(ws[n]) = stepOf(job, pull(ws[n]))
    OBVIOUS
  <2>1. sigma[n] \in 1..N /\ ws[n] = built[sigma[n]]
    BY <1>2
  <2>2. RowStands(job, skels[sigma[n]], ws[n])
    BY <1>6, <2>1
  <2> QED
    BY <2>2 DEF RowStands, Supported
<1>8. ASSUME NEW i \in 1..RunLength(job)
      PROVE  \E n \in 1..N : pull(ws[n]) = job.regs[i]
  <2>1. RunLength(job) \in Nat /\ i \in 1..N
    BY <1>3, <1>4, RunIsSound DEF RunLength
  <2>2. PICK n \in 1..N : sigma[n] = i
    BY <1>2, <2>1
  <2>3. skels[i].regs = job.regs[i]
    BY DEF BuilderInv, SkelsKept
  <2>4. pull(built[i]) = job.regs[i]
    BY <1>6, <2>1, <2>3 DEF RowStands
  <2> QED
    BY <1>2, <2>2, <2>4
<1> QED
  BY <1>2, <1>3, <1>4, <1>5, <1>7, <1>8 DEF AreTheTables, ws

(* The reader's own copy of the definitions it uses.                       *)
LEMMA SameRows ==
  /\ \A row : Reader!pull(row) = pull(row) /\ Reader!push(row) = push(row)
  /\ \A row : Reader!IsRow(row) <=> IsRow(row)
  /\ Reader!final = FinalRegs(job.prog)
<1>1. \A row : Reader!pull(row) = pull(row)
  BY DEF Reader!pull, pull
<1>2. /\ Reader!K = K /\ Reader!Zero = Zero /\ Reader!E = E /\ Reader!One = One
      /\ \A i : Reader!gpow(i) = gpow(i)
  BY DEF Reader!K, Reader!E, Reader!Zero, Reader!One, Reader!gpow, K, E, Zero, One, gpow
<1>3. \A a, b : Reader!KMul(a, b) = KMul(a, b)
  BY <1>2 DEF Reader!KMul, KMul
<1>4. \A a, b : Reader!KAdd(a, b) = KAdd(a, b)
  BY <1>2, <1>3 DEF Reader!KAdd, KAdd
<1>5. \A x, i : Reader!Limb(x, i) = Limb(x, i)
  BY DEF Reader!Limb, Limb
<1>6. \A b, v, n : Reader!Selected(b, v, n) = Selected(b, v, n)
  BY <1>3, <1>4 DEF Reader!Selected, Selected
<1>7. \A row : Reader!jumpPush(row) = jumpPush(row)
  BY <1>2, <1>3, <1>5, <1>6 DEF Reader!jumpPush, jumpPush
<1>8. \A s : Reader!NextRegs(s) = NextRegs(s)
  BY <1>2, <1>3 DEF Reader!NextRegs, NextRegs
<1>9. \A row : Reader!push(row) = push(row)
  BY <1>1, <1>7, <1>8 DEF Reader!push, push
<1>10. Reader!final = FinalRegs(job.prog)
  BY <1>2 DEF Reader!final, Reader!FinalRegs, FinalRegs, Reader!FinalPc, FinalPc
<1>11. \A x : /\ Reader!IsInK(x) <=> IsInK(x)
              /\ Reader!IsCanonical128(x) <=> IsCanonical128(x)
  BY <1>2, <1>5 DEF Reader!IsInK, IsInK, Reader!IsCanonical128, IsCanonical128
<1>12. /\ Reader!Opcodes = Opcodes
       /\ \A op : /\ Reader!Arity(op) = Arity(op) /\ Reader!Reads(op) = Reads(op)
                  /\ Reader!Aux(op) = Aux(op)
  BY DEF Reader!Opcodes, Opcodes, Reader!Arity, Arity, Reader!Reads, Reads, Reader!Aux, Aux
<1>13. \A op : Reader!Words(op) = Words(op)
  BY <1>12 DEF Reader!Words, Words
<1>14. \A row : Reader!IsRow(row) <=> IsRow(row)
  BY <1>2, <1>11, <1>12, <1>13 DEF Reader!IsRow, IsRow
<1> QED
  BY <1>1, <1>9, <1>10, <1>14


-----------------------------------------------------------------------------
(* The invariant of the reader.  Its walk is the run so far.               *)
WalkFollows ==
  /\ Len(walk) \in 1..Len(job.regs) /\ walk = [i \in 1..Len(walk) |-> job.regs[i]]

(* Its map takes the states of the rows inserted to the states they step   *)
(* to.                                                                     *)
MapFollows ==
  /\ inserted \in 0..Len(witness.rows)
  /\ DOMAIN stateMap = {pull(witness.rows[n]) : n \in 1..inserted}
  /\ \A s \in DOMAIN stateMap : stateMap[s] = stepOf(job, s)

HandedOver == Finished /\ witness = padWitness

ReaderInv ==
  /\ phase \in {"build", "map", "walk", "some"}
  /\ WalkFollows
  /\ phase \in {"build", "map"} => Len(walk) = 1
  /\ phase = "build" => inserted = 0 /\ DOMAIN stateMap = {}
  /\ phase # "build" => HandedOver /\ MapFollows
  /\ phase \in {"walk", "some"} => inserted = Len(witness.rows)
  /\ phase = "walk" => fuel = Len(witness.rows) + 1 - Len(walk)
  /\ phase = "some" => Len(walk) = Len(job.regs)

(* The registers of the run, as the proofs below use them.                 *)
LEMMA RunShape ==
  ASSUME NEW j \in Jobs
  PROVE  /\ j.regs \in Seq(Regs) /\ Len(j.regs) \in Nat \ {0}
         /\ j.regs[1] = InitialRegs /\ j.regs[Len(j.regs)] = FinalRegs(j.prog)
         /\ RunLength(j) = Len(j.regs) - 1
         /\ \A i \in 1..Len(j.regs) - 1 :
              /\ j.regs[i] # FinalRegs(j.prog) /\ j.regs[i].pc # FinalPc(j.prog)
              /\ stepOf(j, j.regs[i]) = j.regs[i + 1]
              /\ step(j.prog, j.image, j.regs[i]) = j.regs[i + 1]
              /\ j.regs[i + 1] # NoRegs
<1>1. /\ j.regs \in Seq(Regs) /\ IsRun(j.prog, j.image, j.regs)
  BY JobAssumption DEF IsJob, ValidExecution
<1>2. \A i \in 1..Len(j.regs) - 1 : j.regs[i + 1] \in Regs
  BY <1>1
<1>3. \A i \in 1..Len(j.regs) - 1 : j.regs[i].pc # FinalPc(j.prog) => j.regs[i] # FinalRegs(j.prog)
  BY DEF FinalRegs
<1> QED
  BY <1>1, <1>2, <1>3, RunIsSound, NoRegsAssumption DEF IsRun, RunLength

(* Nothing has been read yet.                                              *)
LEMMA ReaderInit == RTInit => ReaderInv
<1> SUFFICES ASSUME RTInit PROVE ReaderInv
  OBVIOUS
<1>1. /\ job \in Jobs /\ phase = "build" /\ inserted = 0 /\ walk = <<InitialRegs>>
      /\ stateMap = [x \in {} |-> x]
  BY DEF RTInit, Init
<1>2. Len(walk) = 1 /\ walk = [i \in 1..Len(walk) |-> job.regs[i]] /\ 1 \in 1..Len(job.regs)
  BY <1>1, RunShape
<1> QED
  BY <1>1, <1>2 DEF ReaderInv, WalkFollows

(* A finished builder writes nothing more.                                 *)
LEMMA NothingMoreToBuild == BuilderInv /\ Finished => ~Next
<1>1. BuilderInv => Len(built) \in Nat /\ cycle \in Nat
  BY DEF BuilderInv, SkelsKept, RowsKept, Cycles, Frames
<1> QED
  BY <1>1 DEF Next, Traverse, WriteRow, Finished

(* Building, and handing over.                                             *)
LEMMA BuildKeepsReader ==
  ASSUME BuilderInv, ReaderInv, Build \/ HandOver
  PROVE  ReaderInv'
<1>1. job' = job
  BY DEF Build, HandOver, Next, Traverse, WriteRow, vars
<1>2. CASE Build
  <2>1. phase = "build"
    BY <1>2, NothingMoreToBuild DEF Build, ReaderInv, HandedOver
  <2>2. UNCHANGED readerVars
    BY <1>2 DEF Build
  <2> QED
    BY <1>1, <2>1, <2>2 DEF ReaderInv, WalkFollows, readerVars
<1>3. CASE HandOver
  <2>1. /\ phase = "build" /\ phase' = "map" /\ witness' = padWitness /\ Finished
        /\ UNCHANGED vars /\ inserted' = inserted /\ stateMap' = stateMap /\ walk' = walk
    BY <1>3 DEF HandOver
  <2>2. HandedOver'
    BY <2>1 DEF HandedOver, Finished, padWitness, vars, sorted, place, NotAfter
  <2>3. Len(padWitness.rows) \in Nat
    BY <2>1, TablesHandedOver DEF AreTheTables
  <2>4. MapFollows'
    BY <2>1, <2>3 DEF MapFollows, ReaderInv
  <2> QED
    BY <1>1, <2>1, <2>2, <2>4 DEF ReaderInv, WalkFollows
<1> QED
  BY <1>2, <1>3


-----------------------------------------------------------------------------
(* The walk has its next row, and fuel for it, as long as the run goes on. *)
LEMMA WalkHasNext ==
  ASSUME BuilderInv, ReaderInv, phase = "walk"
  PROVE  /\ Len(walk) \in 1..Len(job.regs) /\ Len(job.regs) \in Nat
         /\ Reader!r = job.regs[Len(walk)]
         /\ Reader!r = Reader!final => Len(walk) = Len(job.regs)
         /\ Reader!r # Reader!final =>
              /\ Len(walk) < Len(job.regs) /\ fuel > 0 /\ fuel \in Nat
              /\ Reader!r \in DOMAIN stateMap /\ stateMap[Reader!r] = job.regs[Len(walk) + 1]
<1> DEFINE n == Len(walk)
           N == Len(job.regs)
<1>1. /\ job \in Jobs /\ HandedOver /\ WalkFollows /\ MapFollows /\ inserted = Len(witness.rows)
      /\ fuel = Len(witness.rows) + 1 - n
  BY DEF ReaderInv, BuilderInv, SkelsKept
<1>2. /\ N \in Nat \ {0} /\ job.regs[N] = FinalRegs(job.prog) /\ RunLength(job) = N - 1
      /\ \A i \in 1..N - 1 : /\ job.regs[i] # FinalRegs(job.prog)
                              /\ stepOf(job, job.regs[i]) = job.regs[i + 1]
  BY <1>1, RunShape
<1>3. AreTheTables(witness.rows)
  BY <1>1, TablesHandedOver DEF HandedOver
<1>4. n \in 1..N /\ walk[n] = job.regs[n]
  BY <1>1 DEF WalkFollows
<1>5. Reader!r = job.regs[n] /\ Reader!final = FinalRegs(job.prog)
  BY <1>4, SameRows DEF Reader!r
<1> HIDE DEF n, N
<1>6. CASE n = N
  BY <1>2, <1>4, <1>5, <1>6 DEF n, N
<1>7. CASE n # N
  <2>1. n \in 1..N - 1 /\ n < N
    BY <1>2, <1>4, <1>7
  <2>2. PICK k \in 1..Len(witness.rows) : pull(witness.rows[k]) = job.regs[n]
    BY <1>2, <1>3, <2>1 DEF AreTheTables
  <2>3. job.regs[n] \in DOMAIN stateMap
    BY <1>1, <2>2 DEF MapFollows
  <2>4. stateMap[job.regs[n]] = job.regs[n + 1]
    BY <1>1, <1>2, <2>1, <2>3 DEF MapFollows
  <2>5. fuel > 0 /\ fuel \in Nat
    BY <1>1, <1>2, <1>3, <2>1 DEF AreTheTables
  <2> QED
    BY <1>2, <1>4, <1>5, <2>1, <2>3, <2>4, <2>5 DEF n, N
<1> QED
  BY <1>6, <1>7

(* What reading leaves alone.                                              *)
LEMMA ReadKeepsBuilder ==
  ASSUME ReaderInv, Read
  PROVE  /\ phase # "build" /\ UNCHANGED vars /\ job' = job /\ witness' = witness
         /\ HandedOver /\ HandedOver'
<1>1. phase # "build" /\ UNCHANGED vars /\ witness' = witness
  BY DEF Read, Reader!Next, Reader!InsertRow, Reader!StartWalk, Reader!Arrive, Reader!GiveUp,
         Reader!MissingState, Reader!WalkStep, Reader!Return
<1>2. HandedOver
  BY <1>1 DEF ReaderInv
<1> QED
  BY <1>1, <1>2 DEF HandedOver, Finished, padWitness, vars, sorted, place, NotAfter

(* Each step of the reader.                                                *)
LEMMA ReadKeepsReader ==
  ASSUME BuilderInv, ReaderInv, Read
  PROVE  ReaderInv'
<1>1. /\ phase # "build" /\ job' = job /\ witness' = witness /\ HandedOver /\ HandedOver'
      /\ MapFollows /\ WalkFollows
  BY ReadKeepsBuilder DEF ReaderInv
<1>2. AreTheTables(witness.rows)
  BY <1>1, TablesHandedOver DEF HandedOver
<1>3. Reader!rows = witness.rows
  BY DEF Reader!rows
<1>4. CASE Reader!InsertRow
  <2> DEFINE row == witness.rows[inserted + 1]
  <2>1. /\ phase = "map" /\ phase' = "map" /\ inserted < Len(witness.rows)
        /\ stateMap' = Reader!Insert(stateMap, pull(row), push(row))
        /\ inserted' = inserted + 1 /\ fuel' = fuel /\ walk' = walk
    BY <1>3, <1>4, SameRows DEF Reader!InsertRow
  <2>2. inserted \in Nat /\ Len(witness.rows) \in Nat /\ inserted + 1 \in 1..Len(witness.rows)
    BY <1>1, <1>2, <2>1 DEF MapFollows, AreTheTables
  <2>3. push(row) = stepOf(job, pull(row))
    BY <1>2, <2>2 DEF AreTheTables
  <2>4. 1..inserted + 1 = 1..inserted \cup {inserted + 1}
    BY <2>2
  <2> HIDE DEF row
  <2>5. /\ DOMAIN stateMap' = DOMAIN stateMap \cup {pull(row)}
        /\ \A s \in DOMAIN stateMap' :
             stateMap'[s] = IF s = pull(row) THEN push(row) ELSE stateMap[s]
    BY <2>1 DEF Reader!Insert
  <2>6. DOMAIN stateMap' = {pull(witness.rows[n]) : n \in 1..inserted + 1}
    BY <1>1, <2>4, <2>5 DEF MapFollows, row
  <2>7. \A s \in DOMAIN stateMap' : stateMap'[s] = stepOf(job, s)
    BY <1>1, <2>3, <2>5 DEF MapFollows
  <2>8. MapFollows'
    BY <1>1, <2>1, <2>2, <2>6, <2>7 DEF MapFollows, stepOf, padded
  <2> QED
    BY <1>1, <2>1, <2>8 DEF ReaderInv, WalkFollows
<1>5. CASE Reader!StartWalk
  <2>1. /\ phase = "map" /\ phase' = "walk" /\ inserted = Len(witness.rows)
        /\ fuel' = Len(witness.rows) /\ UNCHANGED <<inserted, stateMap, walk>>
    BY <1>3, <1>5 DEF Reader!StartWalk
  <2>2. MapFollows' /\ WalkFollows'
    BY <1>1, <2>1 DEF MapFollows, WalkFollows, stepOf, padded
  <2>3. Len(walk) = 1 /\ Len(witness.rows) \in Nat
    BY <1>2, <2>1 DEF ReaderInv, AreTheTables
  <2> QED
    BY <1>1, <2>1, <2>2, <2>3 DEF ReaderInv
<1>6. CASE Reader!Arrive
  <2>1. /\ phase = "walk" /\ phase' = "some" /\ Reader!r = Reader!final
        /\ UNCHANGED <<inserted, stateMap, fuel, walk>>
    BY <1>6 DEF Reader!Arrive, Reader!Return
  <2>2. MapFollows' /\ WalkFollows'
    BY <1>1, <2>1 DEF MapFollows, WalkFollows, stepOf, padded
  <2>3. Len(walk) = Len(job.regs) /\ inserted = Len(witness.rows)
    BY <2>1, WalkHasNext DEF ReaderInv
  <2> QED
    BY <1>1, <2>1, <2>2, <2>3 DEF ReaderInv
<1>7. CASE Reader!GiveUp
  BY <1>7, WalkHasNext DEF Reader!GiveUp
<1>8. CASE Reader!MissingState
  BY <1>8, WalkHasNext DEF Reader!MissingState
<1>9. CASE Reader!WalkStep
  <2> DEFINE n == Len(walk)
  <2>1. /\ phase = "walk" /\ phase' = "walk" /\ Reader!r # Reader!final
        /\ walk' = Append(walk, stateMap[Reader!r]) /\ fuel' = fuel - 1
        /\ UNCHANGED <<inserted, stateMap>>
    BY <1>9 DEF Reader!WalkStep
  <2>2. /\ n \in 1..Len(job.regs) /\ n < Len(job.regs) /\ Len(job.regs) \in Nat
        /\ walk' = Append(walk, job.regs[n + 1])
    BY <2>1, WalkHasNext
  <2>3. walk = [i \in 1..n |-> job.regs[i]]
    BY <1>1 DEF WalkFollows
  <2> HIDE DEF n
  <2>4. Len(walk') = n + 1 /\ walk' = [i \in 1..n + 1 |-> job.regs[i]]
    BY <2>2, <2>3
  <2>5. WalkFollows'
    BY <1>1, <2>2, <2>4 DEF WalkFollows
  <2>6. MapFollows'
    BY <1>1, <2>1 DEF MapFollows, stepOf, padded
  <2>7. /\ inserted = Len(witness.rows) /\ Len(witness.rows) \in Nat
        /\ fuel = Len(witness.rows) + 1 - n
    BY <1>2, <2>1 DEF ReaderInv, AreTheTables, n
  <2>8. fuel' = Len(witness'.rows) + 1 - Len(walk')
    <3>1. Len(walk') = n + 1 /\ n \in Nat
      BY <2>2, <2>4
    <3>2. witness'.rows = witness.rows /\ fuel' = fuel - 1
      BY <1>1, <2>1
    <3> HIDE DEF n
    <3>3. Len(witness'.rows) = Len(witness.rows)
      BY <3>2
    <3>4. PICK L \in Nat : L = Len(witness.rows)
      BY <2>7
    <3>5. fuel' = L - n
      BY <2>7, <3>1, <3>2, <3>4
    <3>6. L - n = L + 1 - (n + 1)
      BY <3>1
    <3> QED
      BY <3>1, <3>3, <3>4, <3>5, <3>6
  <2> QED
    BY <1>1, <2>1, <2>5, <2>6, <2>7, <2>8 DEF ReaderInv
<1> QED
  BY <1>4, <1>5, <1>6, <1>7, <1>8, <1>9 DEF Read, Reader!Next

(* The reader's invariant holds whatever the fill and its rows.            *)
THEOREM ReaderInvHolds == RTSpec => []ReaderInv
<1>1. RTInit => ReaderInv
  BY ReaderInit
<1>2. BuilderInv /\ ReaderInv /\ [RTNext]_<<vars, readerVars>> => ReaderInv'
  <2> SUFFICES ASSUME BuilderInv, ReaderInv, [RTNext]_<<vars, readerVars>>
               PROVE  ReaderInv'
    OBVIOUS
  <2>1. CASE UNCHANGED <<vars, readerVars>>
    <3>1. WalkFollows' /\ (MapFollows => MapFollows')
      BY <2>1 DEF ReaderInv, WalkFollows, MapFollows, vars, readerVars, stepOf, padded
    <3>2. HandedOver => HandedOver'
      BY <2>1 DEF HandedOver, Finished, padWitness, sorted, place, NotAfter, vars, readerVars
    <3> QED
      BY <2>1, <3>1, <3>2 DEF ReaderInv, vars, readerVars
  <2> QED
    BY <2>1, BuildKeepsReader, ReadKeepsReader DEF RTNext
<1> QED
  BY <1>1, <1>2, BuiltThroughout, PTL DEF RTSpec

(* RunComesBack: the reader finds the run, and nothing else, among the     *)
(* closed walks of the fill, however many rows they have.                  *)
THEOREM RunAlwaysComesBack == RTSpec => []RunComesBack
<1>1. BuilderInv /\ ReaderInv => RunComesBack
  <2> SUFFICES ASSUME BuilderInv, ReaderInv, phase \in {"some", "none"}
               PROVE  phase = "some" /\ walk = job.regs
    BY DEF RunComesBack
  <2>1. phase = "some" /\ walk = [i \in 1..Len(job.regs) |-> job.regs[i]]
    BY DEF ReaderInv, WalkFollows
  <2>2. job.regs \in Seq(Regs)
    BY RunShape DEF BuilderInv, SkelsKept
  <2> QED
    BY <2>1, <2>2
<1> QED
  BY <1>1, BuiltThroughout, ReaderInvHolds, PTL

(* The walk is a walk of the reference machine over the committed image    *)
(* (WalkImplementsMachine).                                                *)
THEOREM WalkRefinesMachine == RTSpec => WalkImplementsMachine
<1> DEFINE regs == walk[Len(walk)]
<1>1. RTInit => regs = InitialRegs
  BY DEF RTInit
<1>2. ASSUME BuilderInv, ReaderInv, ReaderInv', [RTNext]_<<vars, readerVars>>
      PROVE  [WalksTheMachine!Step]_<<job.prog, job.image, regs>>
  <2>1. CASE Read /\ Reader!WalkStep
    <3> DEFINE n == Len(walk)
    <3>1. /\ phase = "walk" /\ Reader!r # Reader!final /\ job' = job
          /\ walk' = Append(walk, stateMap[Reader!r])
      BY <1>2, <2>1, ReadKeepsBuilder DEF Reader!WalkStep
    <3>2. /\ n \in 1..Len(job.regs) - 1 /\ Reader!r = job.regs[n] /\ Reader!r = regs
          /\ walk' = Append(walk, job.regs[n + 1])
      BY <1>2, <3>1, WalkHasNext DEF Reader!r
    <3>3. walk = [i \in 1..n |-> job.regs[i]] /\ n \in Nat
      <4>1. WalkFollows
        BY <1>2 DEF ReaderInv
      <4>2. Len(walk) \in Nat
        BY <3>2
      <4> QED
        BY <4>1, <4>2 DEF WalkFollows
    <3>4. job \in Jobs
      BY <1>2 DEF BuilderInv, SkelsKept
    <3> HIDE DEF n
    <3>5. Len(walk') = n + 1 /\ walk'[n + 1] = job.regs[n + 1]
      BY <3>2, <3>3
    <3>6. regs' = job.regs[n + 1]
      BY <3>5
    <3>7. /\ job.regs[n].pc # FinalPc(job.prog) /\ job.regs[n + 1] # NoRegs
          /\ step(job.prog, job.image, job.regs[n]) = job.regs[n + 1]
      BY <3>2, <3>4, RunShape
    <3> HIDE DEF regs
    <3> QED
      BY <3>1, <3>2, <3>6, <3>7 DEF WalksTheMachine!Step, regs
  <2>2. CASE UNCHANGED walk /\ job' = job
    BY <2>2
  <2> QED
    BY <1>2, <2>1, <2>2
       DEF RTNext, Build, HandOver, Read, Next, Traverse, WriteRow, vars, readerVars, Reader!Next,
           Reader!InsertRow, Reader!StartWalk, Reader!Arrive, Reader!GiveUp, Reader!MissingState,
           Reader!Return
<1> QED
  BY <1>1, <1>2, BuiltThroughout, ReaderInvHolds, PTL
     DEF RTSpec, WalkImplementsMachine, WalksTheMachine!Spec, WalksTheMachine!Init


-----------------------------------------------------------------------------
(* What is handed over has the shape the reader asks of a witness: what    *)
(* the counters count are numbers, for each cell of the padded image.      *)
LEMMA BlocksHandedOver ==
  ASSUME BuilderInv
  PROVE  /\ IsProgram(job.prog) /\ job.prog.size < Ord /\ job.input \in E \X E
         /\ IsImage(padWitness.image)
         /\ padWitness.memFin \in [0..padWitness.image.size - 1 -> K]
         /\ padWitness.bcFin \in [0..job.prog.size - 1 -> K]
<1>1. /\ job \in Jobs /\ IsProgram(job.prog) /\ job.prog.size < Ord /\ job.input \in E \X E
  BY JobAssumption DEF BuilderInv, SkelsKept, IsJob
<1>2. IsImage(padded(job)) /\ padded(job).size = 2 * job.image.size
  BY <1>1, PaddedCells
<1>3. job.image.size \in Nat /\ job.prog.size \in Nat
  BY <1>1, JobShape DEF IsProgram
<1>4. \A a \in K : memReads[a] \in Nat /\ bcReads[a] \in Nat
  BY DEF BuilderInv, RowsKept, CountedBy, Numbered
<1>5. \A i \in Nat : gpow(memReads[gpow(i)]) \in K /\ gpow(bcReads[gpow(i)]) \in K
  BY <1>4, PowersInK
<1>6. /\ padWitness.image = padded(job)
      /\ padWitness.memFin = [i \in 0..2 * job.image.size - 1 |-> gpow(memReads[gpow(i)])]
      /\ padWitness.bcFin = [i \in 0..job.prog.size - 1 |-> gpow(bcReads[gpow(i)])]
  BY DEF padWitness
<1>7. padWitness.memFin \in [0..2 * job.image.size - 1 -> K]
  BY <1>3, <1>5, <1>6
<1>8. padWitness.bcFin \in [0..job.prog.size - 1 -> K]
  BY <1>3, <1>5, <1>6
<1> QED
  BY <1>1, <1>2, <1>6, <1>7, <1>8

(* The reader's own copy of the shapes of programs and images.             *)
LEMMA SameShapes ==
  /\ Reader!K = K /\ Reader!E = E
  /\ \A p : Reader!IsProgram(p) <=> IsProgram(p)
  /\ \A L : Reader!IsImage(L) <=> IsImage(L)
<1>1. Reader!K = K /\ Reader!E = E
  BY DEF Reader!K, Reader!E, Reader!Zero, K, E, Zero
<1>2. \A n : Reader!Operands(n) = Operands(n)
  BY <1>1 DEF Reader!Operands, Operands
<1>3. Reader!Instr = Instr
  BY <1>1, <1>2 DEF Reader!Instr, Instr
<1> QED
  BY <1>1, <1>3 DEF Reader!IsProgram, IsProgram, Reader!IsImage, IsImage

(* HandedOverIsArgument: the reader is called with what it may be called   *)
(* with, from the moment it is called.                                     *)
THEOREM AlwaysAnArgument == RTSpec => []HandedOverIsArgument
<1>1. BuilderInv /\ ReaderInv => HandedOverIsArgument
  <2> DEFINE a == [prog |-> job.prog, input |-> job.input, witness |-> witness]
  <2> SUFFICES ASSUME BuilderInv, ReaderInv, phase # "build"
               PROVE  Reader!IsArgument(a)
    BY DEF HandedOverIsArgument
  <2>1. Finished /\ witness = padWitness
    BY DEF ReaderInv, HandedOver
  <2>2. AreTheTables(witness.rows)
    BY <2>1, TablesHandedOver
  <2>3. \A i \in DOMAIN witness.rows : Reader!IsRow(witness.rows[i])
    BY <2>2, SameRows DEF AreTheTables
  <2>4. witness.rows \in Seq({witness.rows[i] : i \in DOMAIN witness.rows})
    <3>1. witness.rows = [n \in DOMAIN witness.rows |-> witness.rows[n]]
      BY <2>1 DEF padWitness, sorted
    <3> QED
      BY <2>2, <3>1 DEF AreTheTables
  <2>5. a.prog = job.prog /\ a.input = job.input /\ a.witness = witness
    OBVIOUS
  <2> HIDE DEF a
  <2> QED
    BY <2>1, <2>3, <2>4, <2>5, BlocksHandedOver, SameShapes DEF Reader!IsArgument
<1> QED
  BY <1>1, BuiltThroughout, ReaderInvHolds, PTL

=============================================================================
