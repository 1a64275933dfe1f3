------------------------------ MODULE MerkleProofs ------------------------------
(***************************************************************************)
(* Merkle openings for every tree, every list of positions and everything  *)
(* that may be handed over: only the prover's opening is accepted, and it  *)
(* always is.                                                              *)
(***************************************************************************)
EXTENDS MerkleOpening, TLAPS, FiniteSetTheorems, SequenceTheorems, WellFoundedInduction

(* A finite set of positions.                                              *)
Positions(S) == S \in SUBSET Nat /\ IsFiniteSet(S)

-----------------------------------------------------------------------------
(* Halves and siblings of positions.                                       *)
LEMMA Halves ==
  ASSUME NEW i \in Nat, NEW p \in Nat
  PROVE  /\ i \div 2 \in Nat /\ sibling(i) \in Nat /\ sibling(sibling(i)) = i
         /\ i \div 2 = p <=> i = 2 * p \/ i = 2 * p + 1
         /\ sibling(2 * p) = 2 * p + 1 /\ sibling(2 * p + 1) = 2 * p /\ sibling(i) \div 2 = i \div 2
         /\ \A n \in Nat : i < 2 * n <=> i \div 2 < n
  BY DEF sibling

(* A rank lies between one and the number of members.                      *)
LEMMA RankType ==
  ASSUME NEW S, Positions(S), NEW i \in S
  PROVE  Cardinality(S) \in Nat /\ Rank(i, S) \in 1..Cardinality(S)
<1> DEFINE T == {j \in S : j <= i}
<1>1. IsFiniteSet(T) /\ Cardinality(T) <= Cardinality(S)
  BY FS_Subset DEF Positions
<1>2. Cardinality(T) \in Nat /\ Cardinality(S) \in Nat
  BY <1>1, FS_CardinalityType DEF Positions
<1>3. i \in T
  BY DEF Positions
<1>4. Cardinality(T) # 0
  BY <1>1, <1>3, FS_EmptySet
<1> QED
  BY <1>1, <1>2, <1>4 DEF Rank

(* Ranks grow with the members.                                            *)
LEMMA RankGrows ==
  ASSUME NEW S, Positions(S), NEW i \in S, NEW j \in S, i < j
  PROVE  Rank(i, S) < Rank(j, S)
<1> DEFINE T == {k \in S : k <= i}
           U == {k \in S : k <= j}
<1>1. IsFiniteSet(U)
  BY FS_Subset DEF Positions
<1>2. T \subseteq U /\ j \in U /\ j \notin T
  <2>1. \A k \in S : k \in Int
    BY DEF Positions
  <2>2. i \in Int /\ j \in Int /\ i < j /\ ~(j <= i) /\ j <= j
    BY <2>1
  <2>3. \A k \in S : k <= i => k <= j
    BY <2>1, <2>2
  <2> QED
    BY <2>2, <2>3
<1>3. IsFiniteSet(T) /\ Cardinality(T) <= Cardinality(U) /\ Cardinality(U) # Cardinality(T)
  BY <1>1, <1>2, FS_Subset
<1>4. Cardinality(T) \in Nat /\ Cardinality(U) \in Nat
  BY <1>1, <1>3, FS_CardinalityType
<1> QED
  BY <1>3, <1>4 DEF Rank

(* Every place has its member, which is the one of that rank.              *)
LEMMA RankedIsRanked ==
  ASSUME NEW S, Positions(S)
  PROVE  /\ \A k \in 1..Cardinality(S) : Ranked(k, S) \in S /\ Rank(Ranked(k, S), S) = k
         /\ \A i \in S : Ranked(Rank(i, S), S) = i
<1> DEFINE n == Cardinality(S)
           f == [i \in S |-> Rank(i, S)]
<1>1. n \in Nat
  BY FS_CardinalityType DEF Positions
<1>2. f \in [S -> 1..n]
  BY RankType
<1>3. \A i, j \in S : Rank(i, S) = Rank(j, S) => i = j
  <2> TAKE i, j \in S
  <2>1. i \in Nat /\ j \in Nat
    BY DEF Positions
  <2>2. Rank(i, S) \in Nat /\ Rank(j, S) \in Nat
    BY RankType
  <2> QED
    BY <2>1, <2>2, RankGrows
<1>4. f \in Injection(S, 1..n)
  BY <1>2, <1>3 DEF Injection, IsInjective
<1>5. IsFiniteSet(1..n) /\ Cardinality(1..n) = n
  BY <1>1, FS_Interval
<1>6. f \in Surjection(S, 1..n)
  BY <1>4, <1>5, FS_Injection
<1>7. \A k \in 1..n : \E i \in S : Rank(i, S) = k
  BY <1>6 DEF Surjection
<1> QED
  BY <1>3, <1>7, RankType DEF Ranked

(* The positions asked for, and the parents of positions.                  *)
LEMMA AskedPositions ==
  ASSUME queries \in Seq(Nat)
  PROVE  /\ Positions(sortedUnique) /\ Cardinality(sortedUnique) <= Len(queries)
         /\ \A k \in DOMAIN queries : queries[k] \in sortedUnique
         /\ queries # <<>> => sortedUnique # {}
<1>1. DOMAIN queries = 1..Len(queries) /\ Len(queries) \in Nat
  OBVIOUS
<1>2. sortedUnique \in SUBSET Nat /\ \A k \in DOMAIN queries : queries[k] \in sortedUnique
  BY <1>1 DEF sortedUnique, Range
<1>3. queries \in Surjection(1..Len(queries), sortedUnique)
  BY <1>1, <1>2 DEF sortedUnique, Range, Surjection
<1>4. IsFiniteSet(1..Len(queries)) /\ Cardinality(1..Len(queries)) = Len(queries)
  <2>1. IsFiniteSet(1..Len(queries)) /\ Cardinality(1..Len(queries)) = IF 1 > Len(queries) THEN 0 ELSE Len(queries) - 1 + 1
    BY <1>1, FS_Interval, 1 \in Int, Len(queries) \in Int
  <2> QED
    BY <1>1, <2>1
<1>5. queries # <<>> => sortedUnique # {}
  BY <1>1, <1>2
<1> QED
  BY <1>2, <1>3, <1>4, <1>5, FS_Surjection DEF Positions

(* Parents are half the positions, at most as many.                        *)
LEMMA ParentsOf ==
  ASSUME NEW S, Positions(S)
  PROVE  /\ Positions(parentPositions(S))
         /\ Cardinality(parentPositions(S)) <= Cardinality(S)
         /\ \A n \in Nat : S \subseteq 0..(2 * n - 1) => parentPositions(S) \subseteq 0..(n - 1)
<1>1. IsFiniteSet(parentPositions(S)) /\ Cardinality(parentPositions(S)) <= Cardinality(S)
  <2> DEFINE f == [i \in S |-> i \div 2]
  <2>1. f \in Surjection(S, parentPositions(S))
    BY DEF Surjection, parentPositions
  <2> QED
    BY <2>1, FS_Surjection DEF Positions
<1>2. parentPositions(S) \in SUBSET Nat
  BY Halves DEF parentPositions, Positions
<1>3. ASSUME NEW n \in Nat, S \subseteq 0..(2 * n - 1), NEW i \in S
      PROVE  i \div 2 \in 0..(n - 1)
  BY <1>3, Halves DEF Positions
<1> QED
  BY <1>1, <1>2, <1>3 DEF Positions, parentPositions

(* The parents of a whole level.                                           *)
LEMMA ParentsOfLevel ==
  ASSUME NEW n \in Nat
  PROVE  parentPositions(0..(2 * n - 1)) = 0..(n - 1)
<1>1. ASSUME NEW i \in 0..(2 * n - 1) PROVE i \div 2 \in 0..(n - 1)
  BY Halves
<1>2. ASSUME NEW j \in 0..(n - 1) PROVE \E i \in 0..(2 * n - 1) : j = i \div 2
  <2>1. 2 * j \in 0..(2 * n - 1) /\ (2 * j) \div 2 = j
    BY Halves
  <2> QED
    BY <2>1
<1> QED
  BY <1>1, <1>2 DEF parentPositions

(* Nodes alone are positions.                                              *)
LEMMA AloneOf ==
  ASSUME NEW S, Positions(S)
  PROVE  /\ Positions(Alone(S)) /\ Cardinality(Alone(S)) \in Nat
         /\ Cardinality(Alone(S)) <= Cardinality(S) /\ Cardinality(S) \in Nat
  BY FS_Subset, FS_CardinalityType DEF Alone, Positions

(* Two rows of one width with one leaf digest are one row.                 *)
LEMMA ImagesTell ==
  ASSUME NEW r \in Seq(Words), NEW s \in Seq(Words), Len(r) = Len(s), Len(r) <= leafWords,
         leafDigest(r) = leafDigest(s)
  PROVE  r = s
<1> DEFINE n == leafWords - Len(r)
           zeros == [k \in 1..n |-> 0]
<1>1. n \in Nat
  BY WordsAssumption
<1>2. zeros \in Seq(Words) /\ Len(zeros) = n
  BY <1>1, WordsAssumption, IsASeq
<1>3. zeros \o r = zeros \o s
  BY DEF leafDigest, leafImage
<1> HIDE DEF zeros, n
<1>4. \A k \in 1..Len(r) : r[k] = s[k]
  <2> TAKE k \in 1..Len(r)
  <2>1. (zeros \o r)[n + k] = r[k] /\ (zeros \o s)[n + k] = s[k]
    BY <1>1, <1>2
  <2> QED
    BY <1>3, <2>1
<1> QED
  BY <1>4, SeqEqual

-----------------------------------------------------------------------------
(* The tree, level by level.                                               *)
Built ==
  /\ tree \in Commitments /\ queries \in Queries /\ stage \in Stages
  /\ levels \in Seq(Range(levels)) /\ Len(levels) \in 1..(depth + 1)
  /\ \A h \in 1..Len(levels) : DOMAIN levels[h] = 0..(tree.widths[h] - 1)
  /\ \A q \in 0..(Len(tree.rows) - 1) : levels[1][q] = leafDigest(tree.rows[q + 1])
  /\ \A h \in 1..(Len(levels) - 1) : levels[h + 1] = parents(levels[h])
  /\ stage # "commit" => Len(levels) = depth + 1

(* The climb: which positions each height has, and how many siblings are   *)
(* stored below it.                                                        *)
Climbed ==
  stage # "commit" =>
    /\ trail \in Seq(Range(trail)) /\ Len(trail) \in 1..(depth + 1)
    /\ trail[1] = [at |-> sortedUnique, below |-> 0]
    /\ \A h \in 1..Len(trail) :
         /\ Positions(trail[h].at) /\ Cardinality(trail[h].at) <= Len(queries)
         /\ queries # <<>> => trail[h].at # {}
         /\ trail[h].below \in 0..Len(opening.siblings) /\ trail[h].below <= (h - 1) * Len(queries)
    /\ \A h \in 1..(Len(trail) - 1) : trail[h + 1].at = parentPositions(trail[h].at)
    /\ stage # "open" => Len(trail) = depth + 1

(* The opening: rows by rank, and for each height climbed the siblings of  *)
(* its nodes alone.                                                        *)
Stored ==
  stage # "commit" =>
    /\ opening = [leafData |-> [k \in 1..Cardinality(sortedUnique) |-> RowAt(Ranked(k, sortedUnique))],
                  siblings |-> opening.siblings]
    /\ opening.siblings \in Seq(Range(opening.siblings))
    /\ Len(opening.siblings) = trail[Len(trail)].below

LevelStored(h) ==
  LET S == Alone(trail[h].at)
  IN  /\ trail[h + 1].below = trail[h].below + Cardinality(S)
      /\ \A i \in S : opening.siblings[trail[h].below + Rank(i, S)] = levels[h][sibling(i)]

Fits ==
  stage # "commit" /\ InTree =>
    /\ \A h \in 1..Len(trail) : trail[h].at \subseteq 0..(tree.widths[h] - 1)
    /\ \A h \in 1..(Len(trail) - 1) : LevelStored(h)

Handed ==
  /\ stage \notin {"commit", "open"} =>
       /\ paths = [leafData |-> paths.leafData, siblings |-> paths.siblings]
       /\ paths.leafData \in Seq(Seq(Words)) /\ paths.siblings \in Seq(Range(paths.siblings))
  /\ stage \in {"commit", "open", "check"} => height = 0 /\ used = 0

(* The verifier's walk follows the climb.                                  *)
Underway == stage \in {"walk", "accepted"}

Walked ==
  Underway =>
    /\ InTree /\ Counted(paths) /\ OtherWidth(paths) = {}
    /\ height \in 0..depth /\ DOMAIN nodes = trail[height + 1].at
    /\ used = trail[height + 1].below /\ used <= Len(paths.siblings)
    /\ stage = "accepted" => height = depth /\ Reached

(* The nodes are the tree's.                                               *)
Genuine == \A i \in DOMAIN nodes : nodes[i] = Height(height)[i]

(* When they are, so are the rows and the siblings they were made of.      *)
MadeOf ==
  /\ \A q \in sortedUnique : paths.leafData[Rank(q, sortedUnique)] = tree.rows[q + 1]
  /\ \A k \in 1..used : paths.siblings[k] = opening.siblings[k]

Bound == Underway /\ Genuine => MadeOf

(* The prover's opening makes them so, and is rejected for nothing else    *)
(* than what was asked.                                                    *)
Repeated ==
  /\ Underway /\ paths = opening => Genuine
  /\ stage = "rejected" /\ paths = opening => queries = <<>> \/ ~InTree

Inv == Built /\ Climbed /\ Stored /\ Fits /\ Handed /\ Walked /\ Bound /\ Repeated

-----------------------------------------------------------------------------
(* What is committed: rows of one width, and the heights of their tree.    *)
LEMMA TreeFacts ==
  ASSUME tree \in Commitments
  PROVE  /\ depth \in Nat /\ Len(tree.widths) = depth + 1
         /\ tree.rows \in Seq(Seq(Words)) /\ Len(tree.rows) = tree.widths[1]
         /\ \A h \in 1..(depth + 1) : tree.widths[h] \in Nat
         /\ \A h \in 1..depth : tree.widths[h] = 2 * tree.widths[h + 1]
         /\ tree.widths[depth + 1] = 1
         /\ \A q \in 0..(Len(tree.rows) - 1) :
              tree.rows[q + 1] \in Seq(Words) /\ Len(tree.rows[q + 1]) = rowWords /\ rowWords <= leafWords
<1>1. /\ tree.rows \in Seq(Seq(Words)) /\ tree.widths \in Seq(Nat) /\ tree.widths # <<>>
      /\ tree.widths[Len(tree.widths)] = 1
      /\ \A h \in 1..(Len(tree.widths) - 1) : tree.widths[h] = 2 * tree.widths[h + 1]
      /\ Len(tree.rows) = tree.widths[1]
      /\ \A row \in Range(tree.rows) : Len(row) = Len(tree.rows[1]) /\ Len(row) <= leafWords
  BY CommitmentsAssumption DEF Halving
<1>2. Len(tree.widths) \in Nat \ {0} /\ DOMAIN tree.widths = 1..Len(tree.widths)
  BY <1>1, EmptySeq
<1>3. ASSUME NEW q \in 0..(Len(tree.rows) - 1)
      PROVE  tree.rows[q + 1] \in Seq(Words) /\ tree.rows[q + 1] \in Range(tree.rows)
  BY <1>1 DEF Range
<1>4. depth \in Nat /\ Len(tree.widths) = depth + 1
  BY <1>2 DEF depth
<1>5. \A h \in 1..(depth + 1) : tree.widths[h] \in Nat
  BY <1>1, <1>4
<1>6. /\ \A h \in 1..depth : tree.widths[h] = 2 * tree.widths[h + 1]
      /\ tree.widths[depth + 1] = 1
  <2>1. Len(tree.widths) - 1 = depth
    BY <1>4
  <2> QED
    BY <1>1, <1>4, <2>1
<1>7. ASSUME NEW q \in 0..(Len(tree.rows) - 1)
      PROVE  Len(tree.rows[q + 1]) = rowWords /\ rowWords <= leafWords
  BY <1>1, <1>3 DEF rowWords
<1> QED
  BY <1>1, <1>3, <1>4, <1>5, <1>6, <1>7

(* A sequence one longer, and one sequence after another.                  *)
LEMMA AppendFacts ==
  ASSUME NEW s, s \in Seq(Range(s)), NEW e
  PROVE  /\ Append(s, e) \in Seq(Range(Append(s, e))) /\ Len(Append(s, e)) = Len(s) + 1 /\ Len(s) \in Nat
         /\ \A k \in 1..Len(s) : Append(s, e)[k] = s[k]
         /\ Append(s, e)[Len(s) + 1] = e
<1> DEFINE T == Range(s) \cup {e}
<1>1. s \in Seq(T) /\ e \in T
  BY SeqMonotonic
<1>2. Append(s, e) \in Seq(T)
  BY <1>1, AppendProperties
<1>3. Append(s, e) \in Seq(Range(Append(s, e)))
  BY <1>2, SeqOfRange
<1> QED
  BY <1>1, <1>3, AppendProperties

(* Concatenation, element by element.                                      *)
LEMMA ConcatFacts ==
  ASSUME NEW s, s \in Seq(Range(s)), NEW t, t \in Seq(Range(t))
  PROVE  /\ s \o t \in Seq(Range(s \o t)) /\ Len(s \o t) = Len(s) + Len(t)
         /\ \A k \in 1..Len(s) : (s \o t)[k] = s[k]
         /\ \A k \in 1..Len(t) : (s \o t)[Len(s) + k] = t[k]
<1> DEFINE T == Range(s) \cup Range(t)
<1>1. s \in Seq(T) /\ t \in Seq(T) /\ Len(s) \in Nat /\ Len(t) \in Nat
  BY SeqMonotonic
<1> HIDE DEF T
<1>2. /\ s \o t \in Seq(T) /\ Len(s \o t) = Len(s) + Len(t)
      /\ \A i \in 1..(Len(s) + Len(t)) : (s \o t)[i] = IF i <= Len(s) THEN s[i] ELSE t[i - Len(s)]
  BY <1>1, ConcatProperties
<1>3. s \o t \in Seq(Range(s \o t))
  BY <1>2, SeqOfRange
<1>4. \A k \in 1..Len(s) : (s \o t)[k] = s[k]
  BY <1>1, <1>2
<1>5. ASSUME NEW k \in 1..Len(t) PROVE (s \o t)[Len(s) + k] = t[k]
  <2>1. Len(s) + k \in 1..(Len(s) + Len(t)) /\ ~(Len(s) + k <= Len(s)) /\ (Len(s) + k) - Len(s) = k
    BY <1>1
  <2> QED
    BY <1>2, <2>1
<1> QED
  BY <1>2, <1>3, <1>4, <1>5

-----------------------------------------------------------------------------
(* Nothing but the leaves is built, and nothing else claimed.              *)
LEMMA InvStarts == Init => Inv
<1> SUFFICES ASSUME Init PROVE Inv
  OBVIOUS
<1>1. tree \in Commitments /\ queries \in Queries /\ stage = "commit" /\ height = 0 /\ used = 0
  BY DEF Init
<1>2. Built
  <2>1. Len(tree.rows) \in Nat /\ depth \in Nat /\ Len(tree.rows) = tree.widths[1]
    BY <1>1, TreeFacts
  <2> DEFINE leaves == [p \in 0..(Len(tree.rows) - 1) |-> leafDigest(tree.rows[p + 1])]
  <2>2. levels = <<leaves>>
    BY DEF Init
  <2>3. /\ DOMAIN leaves = 0..(Len(tree.rows) - 1)
        /\ \A q \in 0..(Len(tree.rows) - 1) : leaves[q] = leafDigest(tree.rows[q + 1])
    OBVIOUS
  <2> HIDE DEF leaves
  <2>4. levels \in Seq({leaves}) /\ Len(levels) = 1 /\ levels[1] = leaves
    BY <2>2
  <2>5. levels \in Seq(Range(levels))
    BY <2>4, SeqOfRange
  <2> QED
    BY <1>1, <2>1, <2>3, <2>5, <2>4 DEF Built, Stages
<1> QED
  BY <1>1, <1>2 DEF Inv, Climbed, Stored, Fits, Handed, Walked, Bound, Repeated, Underway

(* Once the opening is handed over the prover rests.                       *)
ProverRests ==
  /\ Fixed /\ UNCHANGED <<prover, paths>>
  /\ stage \in {"check", "walk"} /\ stage' \in {"walk", "accepted", "rejected"}

(* The verifier leaves what the prover built and stored as it is.          *)
LEMMA ProverPartStays == Inv /\ ProverRests => Built' /\ Climbed' /\ Stored' /\ Fits' /\ Handed'
<1> SUFFICES ASSUME Inv, ProverRests PROVE Built' /\ Climbed' /\ Stored' /\ Fits' /\ Handed'
  OBVIOUS
<1> USE DEF Inv, ProverRests, Fixed, prover
<1>1. Built'
  BY DEF Built, depth, Stages, leafDigest, parents
<1>2. Climbed'
  BY DEF Climbed, depth, sortedUnique
<1>3. Stored'
  BY DEF Stored, sortedUnique, RowAt
<1>4. Fits'
  BY DEF Fits, LevelStored, InTree, sortedUnique
<1>5. Handed'
  BY DEF Handed
<1> QED
  BY <1>1, <1>2, <1>3, <1>4, <1>5

-----------------------------------------------------------------------------
(* A new level is the parents of the last.                                 *)
LEMMA KeptByBuildLevel == Inv /\ BuildLevel => Inv'
<1> SUFFICES ASSUME Inv, BuildLevel PROVE Inv'
  OBVIOUS
<1> DEFINE n == Len(levels)
<1>1. /\ stage = "commit" /\ stage' = stage /\ n <= depth /\ height' = height /\ used' = used
      /\ levels' = Append(levels, parents(levels[n]))
      /\ tree' = tree /\ queries' = queries /\ depth' = depth
  BY DEF BuildLevel, Fixed, verifier, depth
<1>2. Built
  BY DEF Inv
<1>3. /\ tree \in Commitments /\ queries \in Queries /\ levels \in Seq(Range(levels)) /\ n \in 1..(depth + 1)
      /\ \A h \in 1..n : DOMAIN levels[h] = 0..(tree.widths[h] - 1)
      /\ \A q \in 0..(Len(tree.rows) - 1) : levels[1][q] = leafDigest(tree.rows[q + 1])
      /\ \A h \in 1..(n - 1) : levels[h + 1] = parents(levels[h])
  BY <1>2 DEF Built
<1>4. depth \in Nat /\ n \in 1..depth
  BY <1>1, <1>3, TreeFacts
<1> HIDE DEF n
<1>5. /\ levels' \in Seq(Range(levels')) /\ Len(levels') = n + 1
      /\ \A h \in 1..n : levels'[h] = levels[h]
      /\ levels'[n + 1] = parents(levels[n])
  BY <1>1, <1>3, AppendFacts DEF n
<1>6. DOMAIN levels'[n + 1] = 0..(tree.widths[n + 1] - 1)
  <2>1. DOMAIN levels'[n + 1] = parentPositions(DOMAIN levels[n])
    BY <1>5 DEF parents
  <2>2. tree.widths[n] = 2 * tree.widths[n + 1] /\ tree.widths[n + 1] \in Nat
    <3>1. /\ \A h \in 1..(depth + 1) : tree.widths[h] \in Nat
          /\ \A h \in 1..depth : tree.widths[h] = 2 * tree.widths[h + 1]
      BY <1>3, TreeFacts
    <3>2. n + 1 \in 1..(depth + 1)
      BY <1>4
    <3> QED
      BY <1>4, <3>1, <3>2
  <2> QED
    BY <1>3, <2>1, <2>2, ParentsOfLevel
<1>7. Built'
  <2>1. \A h \in 1..(n + 1) : DOMAIN levels'[h] = 0..(tree.widths[h] - 1)
    <3> TAKE h \in 1..(n + 1)
    <3>1. CASE h = n + 1
      BY <1>6, <3>1
    <3>2. CASE h \in 1..n
      BY <1>3, <1>5, <3>2
    <3> QED
      BY <1>3, <3>1, <3>2
  <2>2. \A h \in 1..n : levels'[h + 1] = parents(levels'[h])
    <3> TAKE h \in 1..n
    <3>1. CASE h = n
      BY <1>5, <3>1
    <3>2. CASE h \in 1..(n - 1)
      <4>1. h \in 1..n /\ h + 1 \in 1..n
        BY <1>3, <3>2
      <4> QED
        BY <1>3, <1>5, <3>2, <4>1
    <3> QED
      BY <1>3, <3>1, <3>2
  <2>3. n + 1 \in 1..(depth + 1) /\ 1 \in 1..n /\ (n + 1) - 1 = n
    BY <1>1, <1>3, <1>4
  <2>4. \A q \in 0..(Len(tree.rows) - 1) : levels'[1][q] = leafDigest(tree.rows[q + 1])
    BY <1>3, <1>5, <2>3
  <2>5. /\ tree' \in Commitments /\ queries' \in Queries /\ stage' \in Stages
        /\ levels' \in Seq(Range(levels')) /\ Len(levels') \in 1..(depth' + 1)
    BY <1>1, <1>3, <1>5, <2>3 DEF Stages
  <2>6. Len(levels') - 1 = n
    BY <1>5, <2>3
  <2> QED
    BY <1>1, <1>5, <2>1, <2>2, <2>4, <2>5, <2>6 DEF Built
<1> QED
  BY <1>1, <1>7 DEF Inv, Climbed, Stored, Fits, Handed, Walked, Bound, Repeated, Underway

(* What is asked for, climbed from the leaves.                             *)
LEMMA KeptByStoreRows == Inv /\ StoreRows => Inv'
<1> SUFFICES ASSUME Inv, StoreRows PROVE Inv'
  OBVIOUS
<1>1. /\ stage = "commit" /\ stage' = "open" /\ Len(levels) = depth + 1
      /\ height' = height /\ used' = used /\ levels' = levels /\ tree' = tree /\ queries' = queries
      /\ depth' = depth /\ sortedUnique' = sortedUnique /\ (InTree <=> InTree')
      /\ trail' = <<[at |-> sortedUnique, below |-> 0]>>
      /\ opening' = [Nothing EXCEPT !.leafData =
                       [k \in 1..Cardinality(sortedUnique) |-> RowAt(Ranked(k, sortedUnique))]]
  BY DEF StoreRows, Fixed, verifier, depth, sortedUnique, InTree
<1>2. tree \in Commitments /\ queries \in Seq(Nat) /\ Handed
  BY QueriesAssumption DEF Inv, Built
<1>3. depth \in Nat /\ Len(queries) \in Nat /\ Len(tree.rows) = tree.widths[1] /\ tree.widths[1] \in Nat
  BY <1>2, TreeFacts
<1>4. Positions(sortedUnique) /\ Cardinality(sortedUnique) <= Len(queries)
      /\ (queries # <<>> => sortedUnique # {})
  BY <1>2, AskedPositions
<1>5. Built'
  BY <1>1 DEF Inv, Built, Stages, leafDigest, parents
<1>6. /\ Len(trail') = 1 /\ trail'[1] = [at |-> sortedUnique, below |-> 0]
      /\ trail' \in Seq(Range(trail'))
  <2> DEFINE e == [at |-> sortedUnique, below |-> 0]
  <2> HIDE DEF e
  <2>1. trail' \in Seq({e}) /\ Len(trail') = 1 /\ trail'[1] = e
    BY <1>1 DEF e
  <2> QED
    BY <2>1, SeqOfRange DEF e
<1>7. /\ opening' = [leafData |-> [k \in 1..Cardinality(sortedUnique) |-> RowAt(Ranked(k, sortedUnique))],
                     siblings |-> <<>>]
      /\ opening'.siblings = <<>>
  BY <1>1 DEF Nothing
<1>8. Climbed'
  <2>1. /\ Len(trail') \in 1..(depth + 1) /\ DOMAIN trail' = 1..1
        /\ \A h \in 1..Len(trail') : trail'[h].at = sortedUnique /\ trail'[h].below = 0
        /\ 1..(Len(trail') - 1) = {}
    BY <1>3, <1>6
  <2>2. \A h \in 1..Len(trail') :
          trail'[h].below \in 0..Len(opening'.siblings) /\ trail'[h].below <= (h - 1) * Len(queries)
    <3>1. Len(opening'.siblings) = 0
      BY <1>7
    <3>2. \A h \in 1..Len(trail') : h = 1
      BY <1>6
    <3> QED
      BY <1>3, <2>1, <3>1, <3>2
  <2>3. /\ stage' = "open" /\ depth' = depth /\ queries' = queries /\ sortedUnique' = sortedUnique
    BY <1>1
  <2> QED
    BY <1>4, <1>6, <2>1, <2>2, <2>3 DEF Climbed
<1>9. Stored'
  <2>1. <<>> \in Seq(Range(<<>>)) /\ Len(<<>>) = 0
    BY EmptySeq
  <2>2. opening' = [leafData |-> [k \in 1..Cardinality(sortedUnique') |->
                                    IF Ranked(k, sortedUnique') < Len(tree'.rows)
                                    THEN tree'.rows[Ranked(k, sortedUnique') + 1] ELSE <<>>],
                    siblings |-> opening'.siblings]
    BY <1>1, <1>7 DEF RowAt
  <2>3. opening'.siblings \in Seq(Range(opening'.siblings)) /\ Len(opening'.siblings) = 0
    BY <1>7, <2>1
  <2>4. trail'[Len(trail')].below = 0
    BY <1>6
  <2> QED
    BY <2>2, <2>3, <2>4 DEF Stored, RowAt
<1>10. Fits'
  BY <1>1, <1>3, <1>4, <1>6 DEF Fits, InTree, Positions
<1> QED
  BY <1>1, <1>2, <1>5, <1>8, <1>9, <1>10 DEF Inv, Handed, Walked, Bound, Repeated, Underway

(* The siblings of a level: those of the nodes alone, by rank.             *)
LEMMA LevelSiblingsFacts ==
  ASSUME NEW level, NEW S, Positions(S)
  PROVE  \E m \in 0..Cardinality(S) :
           /\ levelSiblings(level, S) = [k \in 1..m |-> levelSiblings(level, S)[k]]
           /\ (\A i \in Alone(S) : sibling(i) \in DOMAIN level) =>
                /\ m = Cardinality(Alone(S))
                /\ \A i \in Alone(S) : levelSiblings(level, S)[Rank(i, Alone(S))] = level[sibling(i)]
<1> DEFINE known == {i \in Alone(S) : sibling(i) \in DOMAIN level}
           m == Cardinality(known)
<1>1. known \in SUBSET S
  BY DEF Alone
<1>2. IsFiniteSet(known) /\ m <= Cardinality(S) /\ m \in Nat /\ Cardinality(S) \in Nat
  BY <1>1, FS_Subset, FS_CardinalityType DEF Positions
<1>3. levelSiblings(level, S) = [k \in 1..m |-> level[sibling(Ranked(k, known))]]
  BY DEF levelSiblings
<1>4. ASSUME \A i \in Alone(S) : sibling(i) \in DOMAIN level
      PROVE  /\ m = Cardinality(Alone(S))
             /\ \A i \in Alone(S) : levelSiblings(level, S)[Rank(i, Alone(S))] = level[sibling(i)]
  <2>1. known = Alone(S)
    BY <1>4
  <2>2. Positions(Alone(S))
    BY AloneOf
  <2>3. ASSUME NEW i \in Alone(S)
        PROVE  levelSiblings(level, S)[Rank(i, Alone(S))] = level[sibling(i)]
    <3>1. Rank(i, Alone(S)) \in 1..Cardinality(Alone(S)) /\ Ranked(Rank(i, Alone(S)), Alone(S)) = i
      BY <2>2, RankType, RankedIsRanked
    <3> QED
      BY <1>3, <2>1, <3>1
  <2> QED
    BY <2>1, <2>3
<1> HIDE DEF m, known
<1>5. m \in 0..Cardinality(S)
  BY <1>2
<1>6. levelSiblings(level, S) = [k \in 1..m |-> levelSiblings(level, S)[k]]
  BY <1>3
<1> QED
  BY <1>4, <1>5, <1>6

(* The climb notes what it stored, and no siblings are lost.               *)
LEMMA KeptByStoreSiblings == Inv /\ StoreSiblings => Inv'
<1> SUFFICES ASSUME Inv, StoreSiblings PROVE Inv'
  OBVIOUS
<1> DEFINE n == Len(trail)
           S == trail[n].at
           added == levelSiblings(levels[n], S)
           entry == [at |-> parentPositions(S), below |-> Len(opening'.siblings)]
<1>1. /\ stage = "open" /\ stage' = stage /\ n <= depth /\ height' = height /\ used' = used
      /\ opening' = [opening EXCEPT !.siblings = opening.siblings \o added]
      /\ trail' = Append(trail, [at |-> parentPositions(S), below |-> Len(opening.siblings \o added)])
      /\ levels' = levels /\ tree' = tree /\ queries' = queries
      /\ depth' = depth /\ sortedUnique' = sortedUnique /\ (InTree <=> InTree')
  BY DEF StoreSiblings, Fixed, verifier, depth, sortedUnique, InTree
<1>2. /\ tree \in Commitments /\ queries \in Seq(Nat) /\ Len(levels) = depth + 1
      /\ \A h \in 1..(depth + 1) : DOMAIN levels[h] = 0..(tree.widths[h] - 1)
  BY <1>1, QueriesAssumption DEF Inv, Built
<1>3. depth \in Nat /\ Len(queries) \in Nat
  BY <1>2, TreeFacts
<1>4. /\ trail \in Seq(Range(trail)) /\ n \in 1..depth /\ trail[1] = [at |-> sortedUnique, below |-> 0]
      /\ \A h \in 1..n : Positions(trail[h].at) /\ Cardinality(trail[h].at) <= Len(queries)
      /\ \A h \in 1..n : queries # <<>> => trail[h].at # {}
      /\ \A h \in 1..n : trail[h].below \in 0..Len(opening.siblings) /\ trail[h].below <= (h - 1) * Len(queries)
      /\ \A h \in 1..(n - 1) : trail[h + 1].at = parentPositions(trail[h].at)
  <2>1. Climbed /\ stage # "commit" /\ n <= depth
    BY <1>1 DEF Inv
  <2> QED
    BY <1>3, <2>1 DEF Climbed, n
<1>5. /\ opening = [leafData |-> [k \in 1..Cardinality(sortedUnique) |-> RowAt(Ranked(k, sortedUnique))],
                    siblings |-> opening.siblings]
      /\ opening.siblings \in Seq(Range(opening.siblings)) /\ Len(opening.siblings) = trail[n].below
  BY <1>1 DEF Inv, Stored
<1> HIDE DEF n
<1>6. Positions(S) /\ Cardinality(S) <= Len(queries)
  BY <1>4
<1> HIDE DEF S
<1>7. PICK m \in 0..Cardinality(S) :
        /\ added = [k \in 1..m |-> added[k]]
        /\ (\A i \in Alone(S) : sibling(i) \in DOMAIN levels[n]) =>
             /\ m = Cardinality(Alone(S))
             /\ \A i \in Alone(S) : added[Rank(i, Alone(S))] = levels[n][sibling(i)]
  BY <1>6, LevelSiblingsFacts
<1>8. m \in Nat /\ m <= Len(queries)
  BY <1>3, <1>6, <1>7, AloneOf
<1> HIDE DEF added
<1>9. /\ opening' = [leafData |-> opening.leafData, siblings |-> opening'.siblings]
      /\ opening'.siblings = opening.siblings \o added
  BY <1>1, <1>5
<1>10. /\ opening'.siblings \in Seq(Range(opening'.siblings))
       /\ Len(opening'.siblings) = trail[n].below + m
       /\ \A k \in 1..trail[n].below : opening'.siblings[k] = opening.siblings[k]
       /\ \A k \in 1..m : opening'.siblings[trail[n].below + k] = added[k]
  <2> DEFINE before == opening.siblings
  <2>1. before \in Seq(Range(before)) /\ Len(before) = trail[n].below
    BY <1>5
  <2>2. opening'.siblings = before \o added
    BY <1>9
  <2>3. added \in Seq(Range(added)) /\ Len(added) = m
    <3>1. added = [k \in 1..m |-> added[k]]
      BY <1>7
    <3>2. added \in [1..m -> Range(added)]
      BY <3>1 DEF Range
    <3> QED
      BY <1>8, <3>2
  <2> HIDE DEF before
  <2>4. before \o added \in Seq(Range(before \o added)) /\ Len(before \o added) = Len(before) + Len(added)
    BY <2>1, <2>3, ConcatFacts
  <2>5. \A k \in 1..Len(before) : (before \o added)[k] = before[k]
    BY <2>1, <2>3, ConcatFacts
  <2>6. \A k \in 1..Len(added) : (before \o added)[Len(before) + k] = added[k]
    <3>1. before \in Seq(Range(before)) /\ added \in Seq(Range(added))
      BY <2>1, <2>3
    <3> QED
      BY ONLY <3>1, ConcatFacts
  <2> QED
    BY <2>1, <2>2, <2>3, <2>4, <2>5, <2>6 DEF before
<1>11. /\ trail' \in Seq(Range(trail')) /\ Len(trail') = n + 1
       /\ \A h \in 1..n : trail'[h] = trail[h]
       /\ trail'[n + 1].at = parentPositions(S) /\ trail'[n + 1].below = trail[n].below + m
  <2>1. trail' = Append(trail, entry)
    BY <1>1, <1>9
  <2>2. /\ entry.at = parentPositions(S) /\ entry.below = trail[n].below + m
    BY <1>10
  <2> HIDE DEF entry
  <2> QED
    BY <1>4, <2>1, <2>2, AppendFacts DEF n
<1>12. trail[n].below \in Nat /\ n \in Nat /\ n + 1 \in 1..(depth + 1) /\ 1 \in 1..n
  BY <1>3, <1>4
<1>13. Built'
  BY <1>1 DEF Inv, Built, Stages, leafDigest, parents
<1>14. Climbed'
  <2>1. ASSUME NEW h \in 1..(n + 1)
        PROVE  /\ Positions(trail'[h].at) /\ Cardinality(trail'[h].at) <= Len(queries)
               /\ trail'[h].below \in 0..Len(opening'.siblings) /\ trail'[h].below <= (h - 1) * Len(queries)
               /\ queries # <<>> => trail'[h].at # {}
    <3>1. CASE h \in 1..n
      <4>1. trail'[h] = trail[h]
        BY <1>11, <3>1
      <4>2. Len(opening.siblings) \in Nat /\ Len(opening.siblings) <= Len(opening'.siblings)
            /\ Len(opening'.siblings) \in Nat
        BY <1>5, <1>8, <1>10, <1>12
      <4>3. /\ Positions(trail[h].at) /\ Cardinality(trail[h].at) <= Len(queries)
            /\ trail[h].below \in 0..Len(opening.siblings) /\ trail[h].below <= (h - 1) * Len(queries)
            /\ queries # <<>> => trail[h].at # {}
        BY <1>4, <3>1
      <4>4. trail[h].below \in 0..Len(opening'.siblings)
        BY <4>2, <4>3
      <4> QED
        BY <4>1, <4>3, <4>4
    <3>2. CASE h = n + 1
      <4>1. Positions(parentPositions(S)) /\ Cardinality(parentPositions(S)) <= Cardinality(S)
        BY <1>6, ParentsOf
      <4>2. Cardinality(parentPositions(S)) \in Nat /\ Cardinality(S) \in Nat
        BY <1>6, <4>1, FS_CardinalityType DEF Positions
      <4>3. trail[n].below + m <= (n - 1) * Len(queries) + Len(queries)
        <5> DEFINE limit == (n - 1) * Len(queries)
        <5>1. trail[n].below <= limit
          BY <1>4
        <5>2. limit \in Int
          BY <1>3, <1>12
        <5> HIDE DEF limit
        <5>3. trail[n].below + m <= limit + Len(queries)
          BY <1>3, <1>8, <1>12, <5>1, <5>2
        <5> QED
          BY <5>3 DEF limit
      <4>4. (n - 1) * Len(queries) + Len(queries) = n * Len(queries)
        BY <1>3, <1>12
      <4>5. trail'[h].below = trail[n].below + m /\ trail'[h].at = parentPositions(S) /\ h - 1 = n
        BY <1>11, <1>12, <3>2
      <4>6. trail'[h].below \in 0..Len(opening'.siblings)
        BY <1>8, <1>10, <1>12, <4>5
      <4>7. trail'[h].below <= (h - 1) * Len(queries)
        BY <4>3, <4>4, <4>5
      <4>8. Cardinality(parentPositions(S)) <= Len(queries)
        BY <1>3, <1>6, <4>1, <4>2
      <4>9. queries # <<>> => parentPositions(S) # {}
        BY <1>4 DEF S, parentPositions
      <4> QED
        BY <4>1, <4>5, <4>6, <4>7, <4>8, <4>9
    <3> QED
      BY <1>12, <3>1, <3>2
  <2>2. ASSUME NEW h \in 1..n PROVE trail'[h + 1].at = parentPositions(trail'[h].at)
    <3>1. CASE h = n
      BY <1>11, <1>12, <3>1 DEF S
    <3>2. CASE h \in 1..(n - 1)
      <4>1. h + 1 \in 1..n
        BY <1>12, <3>2
      <4> QED
        BY <1>4, <1>11, <3>2, <4>1
    <3> QED
      BY <1>12, <3>1, <3>2
  <2>3. Len(trail') - 1 = n /\ trail'[1] = [at |-> sortedUnique, below |-> 0]
    BY <1>4, <1>11, <1>12
  <2> QED
    BY <1>1, <1>11, <1>12, <2>1, <2>2, <2>3 DEF Climbed
<1>15. Stored'
  <2>1. opening' = [leafData |-> [k \in 1..Cardinality(sortedUnique') |->
                                    IF Ranked(k, sortedUnique') < Len(tree'.rows)
                                    THEN tree'.rows[Ranked(k, sortedUnique') + 1] ELSE <<>>],
                    siblings |-> opening'.siblings]
    <3>1. opening.leafData = [k \in 1..Cardinality(sortedUnique) |-> RowAt(Ranked(k, sortedUnique))]
      BY <1>5
    <3>2. opening.leafData = [k \in 1..Cardinality(sortedUnique') |->
                                IF Ranked(k, sortedUnique') < Len(tree'.rows)
                                THEN tree'.rows[Ranked(k, sortedUnique') + 1] ELSE <<>>]
      BY <1>1, <3>1 DEF RowAt
    <3> QED
      BY <1>9, <3>2
  <2>2. trail'[Len(trail')].below = trail[n].below + m
    BY <1>11
  <2> QED
    BY <1>10, <2>1, <2>2 DEF Stored, RowAt
<1>16. Fits'
  <2> SUFFICES ASSUME InTree PROVE Fits'
    BY <1>1 DEF Fits
  <2>1. /\ \A h \in 1..n : trail[h].at \subseteq 0..(tree.widths[h] - 1)
        /\ \A h \in 1..(n - 1) : LevelStored(h)
    BY <1>1 DEF Inv, Fits, n
  <2>2. tree.widths[n] = 2 * tree.widths[n + 1] /\ tree.widths[n + 1] \in Nat
    BY <1>2, <1>4, <1>12, TreeFacts
  <2>3. S \subseteq 0..(2 * tree.widths[n + 1] - 1)
    BY <1>12, <2>1, <2>2 DEF S
  <2>4. parentPositions(S) \subseteq 0..(tree.widths[n + 1] - 1)
    BY <1>6, <2>2, <2>3, ParentsOf
  <2>5. ASSUME NEW i \in Alone(S) PROVE sibling(i) \in DOMAIN levels[n]
    <3>1. i \in Nat /\ i < 2 * tree.widths[n + 1]
      BY <2>2, <2>3 DEF Alone
    <3>2. sibling(i) \in Nat /\ sibling(i) < 2 * tree.widths[n + 1]
      BY <2>2, <3>1, Halves
    <3>3. DOMAIN levels[n] = 0..(tree.widths[n] - 1)
      BY <1>2, <1>12
    <3> QED
      BY <2>2, <3>2, <3>3
  <2>6. /\ m = Cardinality(Alone(S))
        /\ \A i \in Alone(S) : added[Rank(i, Alone(S))] = levels[n][sibling(i)]
    BY <1>7, <2>5
  <2>7. \A h \in 1..(n + 1) : trail'[h].at \subseteq 0..(tree.widths[h] - 1)
    BY <1>11, <1>12, <2>1, <2>4
  <2>8. ASSUME NEW h \in 1..n PROVE LevelStored(h)'
    <3> DEFINE A == Alone(trail[h].at)
    <3>1. trail'[h] = trail[h] /\ levels' = levels
      BY <1>1, <1>11, <1>12
    <3>2. CASE h = n
      <4>1. A = Alone(S)
        BY <3>2 DEF S
      <4>2. ASSUME NEW i \in A
            PROVE  opening'.siblings[trail[h].below + Rank(i, A)] = levels[h][sibling(i)]
        <5>1. Rank(i, A) \in 1..m
          BY <1>6, <2>6, <4>1, RankType, AloneOf
        <5> QED
          BY <1>10, <2>6, <3>2, <4>1, <5>1
      <4> HIDE DEF A
      <4>3. trail'[h + 1].below = trail[h].below + Cardinality(A)
        BY <1>11, <2>6, <3>2, <4>1
      <4> QED
        BY <3>1, <4>2, <4>3 DEF LevelStored, A
    <3>3. CASE h \in 1..(n - 1)
      <4>1. LevelStored(h) /\ h + 1 \in 1..n
        BY <1>12, <2>1, <3>3
      <4>2. trail'[h + 1].below = trail[h].below + Cardinality(A) /\ trail[h + 1] = trail'[h + 1]
        BY <1>11, <4>1 DEF LevelStored
      <4>3. ASSUME NEW i \in A
            PROVE  opening'.siblings[trail[h].below + Rank(i, A)] = levels[h][sibling(i)]
        <5>1. Positions(A)
          BY <1>4, AloneOf
        <5>2. Rank(i, A) \in 1..Cardinality(A) /\ Cardinality(A) \in Nat
          BY <5>1, RankType
        <5>3. trail[h + 1].below <= trail[n].below /\ trail[h + 1].below \in Nat /\ trail[h].below \in Nat
          BY <1>4, <1>5, <1>12, <4>1
        <5>4. trail[h].below + Rank(i, A) \in 1..trail[n].below
          BY <1>12, <4>2, <5>2, <5>3
        <5> QED
          BY <1>10, <4>1, <5>4 DEF LevelStored
      <4> HIDE DEF A
      <4> QED
        BY <3>1, <4>2, <4>3 DEF LevelStored, A
    <3> QED
      BY <1>12, <3>2, <3>3
  <2>9. Len(trail') - 1 = n
    BY <1>11, <1>12
  <2> QED
    BY <1>1, <1>11, <2>7, <2>8, <2>9 DEF Fits
<1>17. Handed'
  BY <1>1 DEF Inv, Handed
<1> QED
  BY <1>1, <1>13, <1>14, <1>15, <1>16, <1>17 DEF Inv, Walked, Bound, Repeated, Underway

(* The prover's opening has a row of the right width for every position.   *)
LEMMA OpeningFits ==
  ASSUME Inv, stage # "commit"
  PROVE  /\ opening.leafData \in Seq(Seq(Words)) /\ Len(opening.leafData) = Cardinality(sortedUnique)
         /\ opening.siblings \in Seq(Range(opening.siblings))
         /\ opening = [leafData |-> opening.leafData, siblings |-> opening.siblings]
         /\ InTree => OtherWidth(opening) = {}
         /\ InTree /\ queries # <<>> => Counted(opening)
         /\ InTree => \A q \in sortedUnique : opening.leafData[Rank(q, sortedUnique)] = tree.rows[q + 1]
<1> DEFINE n == Cardinality(sortedUnique)
<1>1. tree \in Commitments /\ queries \in Seq(Nat)
  BY QueriesAssumption DEF Inv, Built
<1>2. /\ Positions(sortedUnique) /\ n \in Nat
      /\ queries # <<>> => sortedUnique # {}
      /\ \A q \in sortedUnique : q \in Nat
  BY <1>1, AskedPositions, FS_CardinalityType DEF Positions
<1>3. /\ opening = [leafData |-> opening.leafData, siblings |-> opening.siblings]
      /\ opening.leafData = [k \in 1..n |-> RowAt(Ranked(k, sortedUnique))]
      /\ opening.siblings \in Seq(Range(opening.siblings))
  <2>1. /\ opening = [leafData |-> [k \in 1..n |-> RowAt(Ranked(k, sortedUnique))], siblings |-> opening.siblings]
        /\ opening.siblings \in Seq(Range(opening.siblings))
    BY DEF Inv, Stored
  <2> QED
    BY <2>1
<1>4. \A k \in 1..n : Ranked(k, sortedUnique) \in sortedUnique
  BY <1>2, RankedIsRanked
<1>5. ASSUME NEW q \in sortedUnique
      PROVE  /\ RowAt(q) \in Seq(Words)
             /\ InTree => RowAt(q) = tree.rows[q + 1] /\ Len(RowAt(q)) = rowWords /\ rowWords <= leafWords
  <2>1. CASE q < Len(tree.rows)
    <3>1. q \in 0..(Len(tree.rows) - 1) /\ RowAt(q) = tree.rows[q + 1]
      BY <1>1, <1>2, <2>1, TreeFacts DEF RowAt
    <3> QED
      BY <1>1, <3>1, TreeFacts
  <2>2. CASE ~(q < Len(tree.rows))
    BY <2>2 DEF RowAt, InTree
  <2> QED
    BY <2>1, <2>2
<1> HIDE DEF n
<1>6. \A k \in 1..n : opening.leafData[k] = RowAt(Ranked(k, sortedUnique)) /\ opening.leafData[k] \in Seq(Words)
  BY <1>3, <1>4, <1>5
<1>7. opening.leafData \in Seq(Seq(Words)) /\ Len(opening.leafData) = n /\ DOMAIN opening.leafData = 1..n
  <2>1. opening.leafData \in [1..n -> Seq(Words)]
    BY <1>3, <1>6
  <2> QED
    BY <1>2, <2>1
<1>8. InTree => OtherWidth(opening) = {}
  BY <1>4, <1>5, <1>6, <1>7 DEF OtherWidth
<1>9. InTree /\ queries # <<>> => Counted(opening)
  BY <1>2, <1>5, <1>7 DEF Counted, n
<1>10. InTree => \A q \in sortedUnique : opening.leafData[Rank(q, sortedUnique)] = tree.rows[q + 1]
  <2> SUFFICES ASSUME InTree, NEW q \in sortedUnique
               PROVE  opening.leafData[Rank(q, sortedUnique)] = tree.rows[q + 1]
    OBVIOUS
  <2>1. Rank(q, sortedUnique) \in 1..n /\ Ranked(Rank(q, sortedUnique), sortedUnique) = q
    BY <1>2, RankType, RankedIsRanked DEF n
  <2> QED
    BY <1>5, <1>6, <2>1
<1> QED
  BY <1>3, <1>7, <1>8, <1>9, <1>10 DEF n

(* Any opening may arrive; of the prover's own, everything is known.       *)
LEMMA KeptByHandOver == Inv /\ HandOver => Inv'
<1> SUFFICES ASSUME Inv, HandOver PROVE Inv'
  OBVIOUS
<1>1. /\ stage = "open" /\ stage' = "check" /\ Len(trail) = depth + 1
      /\ tree' = tree /\ queries' = queries /\ levels' = levels /\ trail' = trail /\ opening' = opening
      /\ height' = height /\ used' = used
      /\ paths' = opening \/ paths' \in [leafData : Seq(Seq(Words)), siblings : Seq(Digests)]
  BY DEF HandOver, Fixed, prover, verifier
<1>2. Built'
  BY <1>1 DEF Inv, Built, depth, Stages, leafDigest, parents
<1>3. Climbed'
  BY <1>1 DEF Inv, Climbed, depth, sortedUnique
<1>4. Stored'
  BY <1>1 DEF Inv, Stored, sortedUnique, RowAt
<1>5. Fits'
  BY <1>1 DEF Inv, Fits, LevelStored, InTree, sortedUnique
<1>6. /\ paths' = [leafData |-> paths'.leafData, siblings |-> paths'.siblings]
      /\ paths'.leafData \in Seq(Seq(Words)) /\ paths'.siblings \in Seq(Range(paths'.siblings))
  <2>1. CASE paths' = opening
    BY <1>1, <2>1, OpeningFits
  <2>2. CASE paths' \in [leafData : Seq(Seq(Words)), siblings : Seq(Digests)]
    <3>1. /\ paths' = [leafData |-> paths'.leafData, siblings |-> paths'.siblings]
          /\ paths'.leafData \in Seq(Seq(Words)) /\ paths'.siblings \in Seq(Digests)
      BY <2>2
    <3>2. paths'.siblings \in Seq(Range(paths'.siblings))
      BY <3>1, SeqOfRange
    <3> QED
      BY <3>1, <3>2
  <2> QED
    BY <1>1, <2>1, <2>2
<1>7. Handed'
  BY <1>1, <1>6 DEF Inv, Handed
<1> QED
  BY <1>1, <1>2, <1>3, <1>4, <1>5, <1>7 DEF Inv, Walked, Bound, Repeated, Underway

-----------------------------------------------------------------------------
(* A rejection is kept when the prover's opening is not rejected by it.    *)
LEMMA KeptByRejecting ==
  ASSUME Inv, Reject, stage \in {"check", "walk"},
         paths = opening /\ queries # <<>> => ~InTree
  PROVE  Inv'
<1>1. ProverRests
  BY DEF Reject, ProverRests
<1>2. Built' /\ Climbed' /\ Stored' /\ Fits' /\ Handed'
  BY <1>1, ProverPartStays
<1>3. /\ stage' = "rejected" /\ paths' = paths /\ opening' = opening /\ queries' = queries
      /\ InTree' <=> InTree
  BY DEF Reject, Fixed, prover, InTree, sortedUnique
<1> QED
  BY <1>2, <1>3 DEF Inv, Walked, Bound, Repeated, Underway

(* Neither the count nor the width rejects the prover's opening.           *)
LEMMA KeptByCheckingRows ==
  Inv /\ (RejectCount \/ RejectWidth \/ RejectPosition) => Inv'
<1> SUFFICES ASSUME Inv, RejectCount \/ RejectWidth \/ RejectPosition PROVE Inv'
  OBVIOUS
<1>1. stage = "check" /\ Reject
  BY DEF RejectCount, RejectWidth, RejectPosition, RowsHashed
<1>2. paths = opening /\ queries # <<>> => ~InTree
  BY <1>1, OpeningFits DEF RejectCount, RejectWidth, RejectPosition, RowsHashed
<1> QED
  BY <1>1, <1>2, KeptByRejecting

(* The leaves are those of the tree when the rows are.                     *)
LEMMA KeptByStartWalk == Inv /\ StartWalk => Inv'
<1> SUFFICES ASSUME Inv, StartWalk PROVE Inv'
  OBVIOUS
<1>1. /\ stage = "check" /\ stage' = "walk" /\ InTree /\ Counted(paths) /\ OtherWidth(paths) = {}
      /\ nodes' = [q \in sortedUnique |-> leafDigest(paths.leafData[Rank(q, sortedUnique)])]
      /\ tree' = tree /\ queries' = queries /\ levels' = levels /\ trail' = trail /\ opening' = opening
      /\ paths' = paths /\ height' = height /\ used' = used
      /\ sortedUnique' = sortedUnique /\ (InTree' <=> InTree) /\ depth' = depth
  BY DEF StartWalk, RowsHashed, Fixed, prover, sortedUnique, InTree, depth
<1>2. ProverRests
  BY DEF StartWalk, RowsHashed, ProverRests
<1>3. Built' /\ Climbed' /\ Stored' /\ Fits' /\ Handed'
  BY <1>2, ProverPartStays
<1>4. tree \in Commitments /\ queries \in Seq(Nat)
  BY QueriesAssumption DEF Inv, Built
<1>5. /\ height = 0 /\ used = 0 /\ depth \in Nat
      /\ trail[1] = [at |-> sortedUnique, below |-> 0]
      /\ paths.leafData \in Seq(Seq(Words)) /\ Len(paths.siblings) \in Nat
  BY <1>1, <1>4, TreeFacts DEF Inv, Climbed, Handed
<1>6. Walked'
  <2>1. Counted(paths)' /\ OtherWidth(paths)' = {}
    BY <1>1 DEF Counted, OtherWidth, rowWords
  <2>2. DOMAIN nodes' = trail'[height' + 1].at /\ used' = trail'[height' + 1].below
    BY <1>1, <1>5
  <2> QED
    BY <1>1, <1>5, <2>1, <2>2 DEF Walked
<1>7. \A q \in sortedUnique : /\ q \in 0..(Len(tree.rows) - 1)
                              /\ Height(0)[q] = leafDigest(tree.rows[q + 1])
  <2>1. \A q \in sortedUnique : q \in Nat /\ q < Len(tree.rows)
    BY <1>1, <1>4, AskedPositions DEF InTree, Positions
  <2>2. Len(tree.rows) \in Nat
    BY <1>4, TreeFacts
  <2> QED
    BY <2>1, <2>2 DEF Inv, Built, Height
<1>8. Bound'
  <2> SUFFICES ASSUME Genuine' PROVE MadeOf'
    BY DEF Bound
  <2>1. ASSUME NEW q \in sortedUnique
        PROVE  paths.leafData[Rank(q, sortedUnique)] = tree.rows[q + 1]
    <3> DEFINE row == paths.leafData[Rank(q, sortedUnique)]
    <3>1. leafDigest(row) = leafDigest(tree.rows[q + 1])
      BY <1>1, <1>5, <1>7, <2>1 DEF Genuine, Height
    <3>2. Rank(q, sortedUnique) \in 1..Len(paths.leafData)
      BY <1>1, <1>4, AskedPositions, RankType DEF Counted
    <3>3. row \in Seq(Words) /\ Len(row) = rowWords
      BY <1>1, <1>5, <3>2 DEF OtherWidth
    <3>4. tree.rows[q + 1] \in Seq(Words) /\ Len(tree.rows[q + 1]) = rowWords /\ rowWords <= leafWords
      BY <1>4, <1>7, TreeFacts
    <3> HIDE DEF row
    <3>5. row = tree.rows[q + 1]
      BY <3>1, <3>3, <3>4, ImagesTell
    <3> QED
      BY <3>5 DEF row
  <2> QED
    BY <1>1, <1>5, <2>1 DEF MadeOf
<1>9. Repeated'
  <2> SUFFICES ASSUME paths = opening PROVE Genuine'
    BY <1>1 DEF Repeated
  <2>1. \A q \in sortedUnique : paths.leafData[Rank(q, sortedUnique)] = tree.rows[q + 1]
    BY <1>1, OpeningFits
  <2> QED
    BY <1>1, <1>5, <1>7, <2>1 DEF Genuine, Height
<1> QED
  BY <1>3, <1>6, <1>8, <1>9 DEF Inv

-----------------------------------------------------------------------------
(* What a level of the walk reads and makes, wherever it stands.           *)
LEMMA LevelFacts ==
  ASSUME Inv, stage = "walk", height < depth
  PROVE  /\ Positions(DOMAIN nodes) /\ DOMAIN nodes = trail[height + 1].at
         /\ height + 1 \in 1..depth /\ Len(trail) = depth + 1 /\ used \in Nat
         /\ trail[height + 2].at = parentPositions(DOMAIN nodes)
         /\ trail[height + 2].below = used + Cardinality(lone)
         /\ trail[height + 2].below \in 0..Len(opening.siblings)
         /\ Positions(lone) /\ Cardinality(lone) \in Nat
         /\ \A i \in lone : opening.siblings[used + Rank(i, lone)] = Height(height)[sibling(i)]
         /\ \A p \in parentPositions(DOMAIN nodes) :
              /\ p \in Nat
              /\ Height(height + 1)[p] = nodeDigest(Height(height)[2 * p], Height(height)[2 * p + 1])
<1>1. /\ tree \in Commitments /\ InTree /\ height \in 0..depth /\ DOMAIN nodes = trail[height + 1].at
      /\ used = trail[height + 1].below
  BY DEF Inv, Built, Walked, Underway
<1>2. depth \in Nat /\ height + 1 \in 1..depth
  BY <1>1, TreeFacts
<1> DEFINE h == height + 1
<1>3. /\ Len(trail) = depth + 1 /\ h \in 1..Len(trail) /\ h \in 1..(Len(trail) - 1) /\ h + 1 \in 1..Len(trail)
      /\ height + 2 = h + 1
  <2>1. Len(trail) = depth + 1
    BY DEF Inv, Climbed
  <2>2. height \in Nat
    BY <1>1, <1>2
  <2> QED
    BY <1>2, <2>1, <2>2
<1>4. /\ Positions(trail[h].at) /\ trail[h + 1].at = parentPositions(trail[h].at)
      /\ trail[h].below \in 0..Len(opening.siblings) /\ trail[h + 1].below \in 0..Len(opening.siblings)
  BY <1>3 DEF Inv, Climbed
<1>5. LevelStored(h) /\ trail[h + 1].at \subseteq 0..(tree.widths[h + 1] - 1)
  BY <1>1, <1>3 DEF Inv, Fits
<1>6. Positions(lone) /\ Cardinality(lone) \in Nat
  BY <1>1, <1>4, AloneOf DEF lone
<1>7. /\ Len(levels) = depth + 1 /\ levels[h + 1] = parents(levels[h])
      /\ DOMAIN levels[h + 1] = 0..(tree.widths[h + 1] - 1)
  BY <1>2, <1>3 DEF Inv, Built
<1>8. ASSUME NEW p \in parentPositions(DOMAIN nodes)
      PROVE  p \in Nat /\ Height(height + 1)[p] = nodeDigest(Height(height)[2 * p], Height(height)[2 * p + 1])
  <2>1. p \in DOMAIN levels[h + 1] /\ p \in Nat
    BY <1>1, <1>4, <1>5, <1>7
  <2>2. p \in parentPositions(DOMAIN levels[h])
    BY <1>7, <2>1 DEF parents
  <2>3. levels[h + 1][p] = nodeDigest(levels[h][2 * p], levels[h][2 * p + 1])
    BY <1>7, <2>2 DEF parents
  <2> QED
    BY <1>3, <2>1, <2>3 DEF Height
<1>9. /\ trail[h + 1].below = used + Cardinality(lone)
      /\ \A i \in lone : opening.siblings[used + Rank(i, lone)] = Height(height)[sibling(i)]
  BY <1>1, <1>5 DEF LevelStored, lone, Height
<1> QED
  BY <1>1, <1>2, <1>3, <1>4, <1>6, <1>8, <1>9

(* A level of the walk makes the tree's nodes of the tree's nodes and      *)
(* siblings, and of nothing else.                                          *)
LEMMA KeptByWalk == Inv /\ Walk => Inv'
<1> SUFFICES ASSUME Inv, Walk PROVE Inv'
  OBVIOUS
<1>1. /\ stage = "walk" /\ stage' = "walk" /\ height < depth /\ used + Cardinality(lone) <= Len(paths.siblings)
      /\ nodes' = levelStep /\ used' = used + Cardinality(lone) /\ height' = height + 1
      /\ tree' = tree /\ queries' = queries /\ levels' = levels /\ trail' = trail /\ opening' = opening
      /\ paths' = paths
      /\ sortedUnique' = sortedUnique /\ (InTree' <=> InTree) /\ depth' = depth
  BY DEF Walk, Enough, Fixed, prover, sortedUnique, InTree, depth
<1>2. ProverRests
  BY DEF Walk, ProverRests
<1>3. Built' /\ Climbed' /\ Stored' /\ Fits' /\ Handed'
  BY <1>2, ProverPartStays
<1>4. /\ Positions(DOMAIN nodes) /\ height + 1 \in 1..depth /\ used \in Nat
      /\ trail[height + 2].at = parentPositions(DOMAIN nodes)
      /\ trail[height + 2].below = used + Cardinality(lone)
      /\ Positions(lone) /\ Cardinality(lone) \in Nat
      /\ \A i \in lone : opening.siblings[used + Rank(i, lone)] = Height(height)[sibling(i)]
      /\ \A p \in parentPositions(DOMAIN nodes) :
           /\ p \in Nat
           /\ Height(height + 1)[p] = nodeDigest(Height(height)[2 * p], Height(height)[2 * p + 1])
  BY <1>1, LevelFacts
<1>5. InTree /\ Counted(paths) /\ OtherWidth(paths) = {} /\ height \in 0..depth
  BY <1>1 DEF Inv, Walked, Underway
<1>6. DOMAIN levelStep = parentPositions(DOMAIN nodes)
      /\ \A p \in parentPositions(DOMAIN nodes) : levelStep[p] = nodeDigest(Below(2 * p), Below(2 * p + 1))
  BY DEF levelStep
<1>7. /\ \A i \in DOMAIN nodes : i \in Nat /\ Below(i) = nodes[i] /\ i \div 2 \in parentPositions(DOMAIN nodes)
      /\ \A i \in lone : /\ i \in DOMAIN nodes
                         /\ Below(sibling(i)) = paths.siblings[used + Rank(i, lone)]
  <2>1. ASSUME NEW i \in DOMAIN nodes
        PROVE  i \in Nat /\ Below(i) = nodes[i] /\ i \div 2 \in parentPositions(DOMAIN nodes)
    BY <1>4 DEF Below, parentPositions, Positions
  <2>2. ASSUME NEW i \in lone
        PROVE  i \in DOMAIN nodes /\ Below(sibling(i)) = paths.siblings[used + Rank(i, lone)]
    <3>1. i \in DOMAIN nodes /\ sibling(i) \notin DOMAIN nodes
      BY DEF lone, Alone
    <3>2. sibling(sibling(i)) = i
      BY <2>1, <3>1, Halves
    <3> QED
      BY <3>1, <3>2 DEF Below
  <2> QED
    BY <2>1, <2>2
<1>8. Walked'
  <2>1. Counted(paths)' /\ OtherWidth(paths)' = {}
    BY <1>1, <1>5 DEF Counted, OtherWidth, rowWords
  <2>2. height' \in 0..depth /\ height' + 1 = height + 2
    BY <1>1, <1>4, <1>5
  <2> QED
    BY <1>1, <1>4, <1>5, <1>6, <2>1, <2>2 DEF Walked
(* Two positions of one parent: a node and its sibling.                    *)
<1>9. ASSUME NEW i \in DOMAIN nodes
      PROVE  LET p == i \div 2
             IN  p \in Nat /\ ((i = 2 * p /\ sibling(i) = 2 * p + 1) \/ (i = 2 * p + 1 /\ sibling(i) = 2 * p))
  <2> DEFINE p == i \div 2
  <2>1. i \in Nat /\ p \in Nat
    BY <1>7, Halves
  <2> HIDE DEF p
  <2>2. i = 2 * p \/ i = 2 * p + 1
    BY <2>1, Halves DEF p
  <2>3. sibling(2 * p) = 2 * p + 1 /\ sibling(2 * p + 1) = 2 * p
    BY <2>1, Halves
  <2>4. (i = 2 * p /\ sibling(i) = 2 * p + 1) \/ (i = 2 * p + 1 /\ sibling(i) = 2 * p)
    <3>1. i = 2 * p => sibling(i) = 2 * p + 1
      BY ONLY <2>3, Zenon
    <3>2. i = 2 * p + 1 => sibling(i) = 2 * p
      BY ONLY <2>3, Zenon
    <3> QED
      BY <2>2, <3>1, <3>2
  <2> QED
    BY <2>1, <2>4 DEF p
<1>10. Bound'
  <2> SUFFICES ASSUME Genuine' PROVE MadeOf'
    BY DEF Bound
  <2>1. ASSUME NEW p \in parentPositions(DOMAIN nodes)
        PROVE  Below(2 * p) = Height(height)[2 * p] /\ Below(2 * p + 1) = Height(height)[2 * p + 1]
    <3>1. levelStep[p] = Height(height + 1)[p]
      BY <1>1, <1>6 DEF Genuine, Height
    <3> QED
      BY <1>4, <1>6, <3>1 DEF nodeDigest
  <2>2. \A i \in DOMAIN nodes : nodes[i] = Height(height)[i] /\ Below(sibling(i)) = Height(height)[sibling(i)]
    BY <1>7, <1>9, <2>1
  <2>3. MadeOf
    BY <1>1, <2>2 DEF Inv, Bound, Underway, Genuine
  <2>4. ASSUME NEW k \in 1..(used + Cardinality(lone)) PROVE paths.siblings[k] = opening.siblings[k]
    <3>1. CASE k \in 1..used
      BY <2>3, <3>1 DEF MadeOf
    <3>2. CASE k \notin 1..used
      <4> DEFINE i == Ranked(k - used, lone)
      <4>1. k - used \in 1..Cardinality(lone)
        BY <1>4, <3>2
      <4>2. i \in lone /\ Rank(i, lone) = k - used
        BY <1>4, <4>1, RankedIsRanked
      <4> HIDE DEF i
      <4>3. used + Rank(i, lone) = k
        BY <1>4, <4>1, <4>2
      <4> QED
        BY <1>4, <1>7, <2>2, <4>2, <4>3
    <3> QED
      BY <3>1, <3>2
  <2> QED
    BY <1>1, <2>3, <2>4 DEF MadeOf
<1>11. Repeated'
  <2> SUFFICES ASSUME paths = opening PROVE Genuine'
    BY <1>1 DEF Repeated
  <2>1. Genuine
    BY <1>1 DEF Inv, Repeated, Underway
  <2>2. \A i \in DOMAIN nodes : Below(i) = Height(height)[i]
    BY <1>7, <2>1 DEF Genuine
  <2>3. \A i \in DOMAIN nodes : Below(sibling(i)) = Height(height)[sibling(i)]
    <3> TAKE i \in DOMAIN nodes
    <3>1. CASE i \in lone
      BY <1>4, <1>7, <3>1
    <3>2. CASE i \notin lone
      BY <2>2, <3>2 DEF lone, Alone
    <3> QED
      BY <3>1, <3>2
  <2>4. ASSUME NEW p \in parentPositions(DOMAIN nodes)
        PROVE  levelStep[p] = Height(height + 1)[p]
    <3>1. PICK i \in DOMAIN nodes : p = i \div 2
      BY DEF parentPositions
    <3>2. Below(2 * p) = Height(height)[2 * p] /\ Below(2 * p + 1) = Height(height)[2 * p + 1]
      BY <1>9, <2>2, <2>3, <3>1
    <3> QED
      BY <1>4, <1>6, <3>2
  <2> QED
    BY <1>1, <1>6, <2>4 DEF Genuine, Height
<1> QED
  BY <1>3, <1>8, <1>10, <1>11 DEF Inv

(* The siblings of the prover's opening do not run out.                    *)
LEMMA KeptByRunOut == Inv /\ RunOut => Inv'
<1> SUFFICES ASSUME Inv, RunOut PROVE Inv'
  OBVIOUS
<1>1. stage = "walk" /\ Reject /\ height < depth /\ ~(used + Cardinality(lone) <= Len(paths.siblings))
  BY DEF RunOut, Enough
<1>2. paths # opening
  <2>1. used + Cardinality(lone) \in 0..Len(opening.siblings)
    BY <1>1, LevelFacts
  <2> QED
    BY <1>1, <2>1
<1> QED
  BY <1>1, <1>2, KeptByRejecting

-----------------------------------------------------------------------------
(* At the top of the walk there is at most the root.                       *)
LEMMA TopFacts ==
  ASSUME Inv, stage = "walk", height = depth
  PROVE  /\ DOMAIN nodes \subseteq {0} /\ used = Len(opening.siblings)
         /\ queries # <<>> => DOMAIN nodes = {0}
         /\ DOMAIN nodes = {0} => Min(DOMAIN nodes) = 0
<1>1. /\ tree \in Commitments /\ InTree /\ DOMAIN nodes = trail[depth + 1].at /\ used = trail[depth + 1].below
  BY DEF Inv, Built, Walked, Underway
<1>2. depth \in Nat /\ tree.widths[depth + 1] = 1
  BY <1>1, TreeFacts
<1>3. Len(trail) = depth + 1 /\ depth + 1 \in 1..Len(trail)
  <2>1. Len(trail) = depth + 1
    BY DEF Inv, Climbed
  <2> QED
    BY <1>2, <2>1
<1>4. DOMAIN nodes \subseteq {0}
  <2>1. DOMAIN nodes \subseteq 0..(tree.widths[depth + 1] - 1)
    BY <1>1, <1>3 DEF Inv, Fits
  <2> QED
    BY <1>2, <2>1
<1>5. queries # <<>> => DOMAIN nodes # {}
  BY <1>1, <1>3 DEF Inv, Climbed
<1>6. used = Len(opening.siblings)
  BY <1>1, <1>3 DEF Inv, Stored
<1>7. DOMAIN nodes = {0} => Min(DOMAIN nodes) = 0
  BY DEF Min
<1> QED
  BY <1>4, <1>5, <1>6, <1>7

(* The walk of the prover's opening ends at the root.                      *)
LEMMA KeptByConcluding == Inv /\ (Accept \/ RejectRoot) => Inv'
<1> SUFFICES ASSUME Inv PROVE Accept \/ RejectRoot => Inv'
  OBVIOUS
<1>1. ASSUME Accept PROVE Inv'
  <2>1. /\ stage = "walk" /\ stage' = "accepted" /\ height = depth /\ Reached
        /\ tree' = tree /\ queries' = queries /\ levels' = levels /\ trail' = trail /\ opening' = opening
        /\ paths' = paths /\ nodes' = nodes /\ used' = used /\ height' = height
        /\ sortedUnique' = sortedUnique /\ (InTree' <=> InTree) /\ depth' = depth
    BY <1>1 DEF Accept, Fixed, prover, verifier, sortedUnique, InTree, depth
  <2>2. ProverRests
    BY <1>1 DEF Accept, ProverRests
  <2>3. Built' /\ Climbed' /\ Stored' /\ Fits' /\ Handed'
    BY <2>2, ProverPartStays
  <2>4. Walked'
    BY <2>1 DEF Inv, Walked, Underway, Counted, OtherWidth, rowWords, Reached, root, Height
  <2>5. (Genuine' <=> Genuine) /\ (MadeOf' <=> MadeOf)
    BY <2>1 DEF Genuine, Height, MadeOf
  <2> QED
    BY <2>1, <2>3, <2>4, <2>5 DEF Inv, Bound, Repeated, Underway
<1>2. ASSUME RejectRoot PROVE Inv'
  <2>1. stage = "walk" /\ Reject /\ height = depth /\ ~Reached
    BY <1>2 DEF RejectRoot
  <2>2. paths = opening /\ queries # <<>> => FALSE
    <3> SUFFICES ASSUME paths = opening, queries # <<>> PROVE Reached
      BY <2>1
    <3>1. DOMAIN nodes = {0} /\ used = Len(paths.siblings) /\ Min(DOMAIN nodes) = 0
      BY <2>1, TopFacts
    <3>2. nodes[0] = Height(depth)[0]
      BY <2>1, <3>1 DEF Inv, Repeated, Underway, Genuine
    <3> QED
      BY <3>1, <3>2 DEF Reached, root
  <2> QED
    BY <2>1, <2>2, KeptByRejecting
<1> QED
  BY <1>1, <1>2

(* Every step keeps the invariant.                                         *)
LEMMA InvIsKept == Inv /\ [Next]_vars => Inv'
<1> SUFFICES ASSUME Inv, [Next]_vars PROVE Inv'
  OBVIOUS
<1>1. ASSUME UNCHANGED vars PROVE Inv'
  <2> USE <1>1 DEF vars, Inv
  <2>1. Built' /\ Climbed'
    BY DEF Built, Climbed, Stages, depth, leafDigest, parents, sortedUnique
  <2>2. Stored' /\ Handed'
    BY DEF Stored, Handed, sortedUnique, RowAt
  <2>3. Fits'
    BY DEF Fits, LevelStored, InTree, sortedUnique
  <2>4. Walked'
    BY DEF Walked, Underway, InTree, Counted, OtherWidth, rowWords, depth, sortedUnique, Reached, root, Height
  <2>5. Bound' /\ Repeated'
    BY DEF Bound, Repeated, Underway, Genuine, MadeOf, Height, InTree, sortedUnique
  <2> QED
    BY <2>1, <2>2, <2>3, <2>4, <2>5
<1> QED
  BY <1>1, KeptByBuildLevel, KeptByStoreRows, KeptByStoreSiblings, KeptByHandOver, KeptByCheckingRows,
     KeptByStartWalk, KeptByWalk, KeptByRunOut, KeptByConcluding DEF Next

(* The tree, the climb, the opening and the walk are as the invariant      *)
(* says, whatever is handed over.                                          *)
THEOREM OpeningInvHolds == Spec => []Inv
<1> QED
  BY InvStarts, InvIsKept, PTL DEF Spec

-----------------------------------------------------------------------------
(* The rows come back in the order they were asked for.                    *)
LEMMA RowsComeBack ==
  ASSUME Inv, InTree,
         \A q \in sortedUnique : paths.leafData[Rank(q, sortedUnique)] = tree.rows[q + 1]
  PROVE  rowsInQueryOrder(paths) = Committed
<1>1. queries \in Seq(Nat)
  BY QueriesAssumption DEF Inv, Built
<1>2. \A k \in DOMAIN queries : queries[k] \in sortedUnique
  BY <1>1, AskedPositions
<1> QED
  BY <1>2 DEF rowsInQueryOrder, Committed

(* Two openings with the rows and siblings of one are one.                 *)
LEMMA InvBinds == Inv => AcceptedIsTheOpening
<1> SUFFICES ASSUME Inv, stage = "accepted" PROVE paths = opening /\ rowsInQueryOrder(paths) = Committed
  BY DEF AcceptedIsTheOpening
<1>1. /\ tree \in Commitments /\ queries \in Seq(Nat) /\ InTree /\ Counted(paths) /\ height = depth /\ Reached
      /\ DOMAIN nodes = trail[depth + 1].at /\ used = trail[depth + 1].below
  BY QueriesAssumption DEF Inv, Built, Walked, Underway
<1>2. depth \in Nat /\ tree.widths[depth + 1] = 1 /\ Len(trail) = depth + 1 /\ depth + 1 \in 1..Len(trail)
  <2>1. Len(trail) = depth + 1 /\ depth \in Nat /\ tree.widths[depth + 1] = 1
    BY <1>1, TreeFacts DEF Inv, Climbed
  <2> QED
    BY <2>1
<1>3. DOMAIN nodes = {0}
  <2>1. DOMAIN nodes \subseteq 0..(tree.widths[depth + 1] - 1) /\ DOMAIN nodes # {}
    BY <1>1, <1>2 DEF Inv, Fits, Reached
  <2>2. DOMAIN nodes \subseteq {0}
    BY <1>2, <2>1
  <2> QED
    BY <2>1, <2>2
<1>4. nodes[0] = root
  <2>1. Min({0}) = 0
    BY DEF Min
  <2> QED
    BY <1>1, <1>3, <2>1 DEF Reached
<1>5. MadeOf
  BY <1>1, <1>3, <1>4 DEF Inv, Bound, Underway, Genuine, root
<1>6. used = Len(paths.siblings) /\ used = Len(opening.siblings)
  BY <1>1, <1>2 DEF Inv, Stored, Reached
<1>7. /\ paths = [leafData |-> paths.leafData, siblings |-> paths.siblings]
      /\ paths.leafData \in Seq(Seq(Words)) /\ paths.siblings \in Seq(Range(paths.siblings))
  BY DEF Inv, Handed
<1>8. /\ opening = [leafData |-> opening.leafData, siblings |-> opening.siblings]
      /\ opening.leafData \in Seq(Seq(Words)) /\ Len(opening.leafData) = Cardinality(sortedUnique)
      /\ opening.siblings \in Seq(Range(opening.siblings))
      /\ \A q \in sortedUnique : opening.leafData[Rank(q, sortedUnique)] = tree.rows[q + 1]
  BY <1>1, OpeningFits
<1>9. paths.siblings = opening.siblings
  <2> DEFINE T == Range(paths.siblings) \cup Range(opening.siblings)
  <2>1. paths.siblings \in Seq(T) /\ opening.siblings \in Seq(T)
    BY <1>7, <1>8, SeqMonotonic
  <2>2. \A k \in 1..Len(paths.siblings) : paths.siblings[k] = opening.siblings[k]
    BY <1>5, <1>6 DEF MadeOf
  <2> HIDE DEF T
  <2> QED
    BY <1>6, <2>1, <2>2, SeqEqual
<1>10. paths.leafData = opening.leafData
  <2>1. Len(paths.leafData) = Cardinality(sortedUnique)
    BY <1>1 DEF Counted
  <2>2. \A k \in 1..Cardinality(sortedUnique) : paths.leafData[k] = opening.leafData[k]
    <3> TAKE k \in 1..Cardinality(sortedUnique)
    <3>1. Ranked(k, sortedUnique) \in sortedUnique /\ Rank(Ranked(k, sortedUnique), sortedUnique) = k
      BY <1>1, AskedPositions, RankedIsRanked
    <3> QED
      BY <1>5, <1>8, <3>1 DEF MadeOf
  <2> QED
    BY <1>7, <1>8, <2>1, <2>2, SeqEqual
<1>11. paths = opening
  BY <1>7, <1>8, <1>9, <1>10
<1>12. rowsInQueryOrder(paths) = Committed
  BY <1>1, <1>5, RowsComeBack DEF MadeOf
<1> QED
  BY <1>11, <1>12

(* The prover's opening has the shape asked for and its own rows.          *)
LEMMA InvAccepts == Inv => HonestIsAccepted
<1> SUFFICES ASSUME Inv, stage \notin {"commit", "open"}, paths = opening, queries # <<>>, InTree
             PROVE  /\ openingsOk(paths) /\ stage # "rejected"
                    /\ rowsInQueryOrder(paths) = Committed
  BY DEF HonestIsAccepted
<1>1. tree \in Commitments /\ queries \in Seq(Nat)
  BY QueriesAssumption DEF Inv, Built
<1>2. /\ Len(opening.leafData) = Cardinality(sortedUnique) /\ OtherWidth(opening) = {}
      /\ \A q \in sortedUnique : opening.leafData[Rank(q, sortedUnique)] = tree.rows[q + 1]
  BY OpeningFits
<1>3. stage # "rejected"
  BY DEF Inv, Repeated
<1>4. rowsInQueryOrder(paths) = Committed
  BY <1>2, RowsComeBack
<1>5. Len(opening.siblings) <= Len(queries) * depth
  <2>1. depth \in Nat /\ Len(queries) \in Nat
    BY <1>1, TreeFacts
  <2>2. Len(trail) = depth + 1 /\ Len(opening.siblings) = trail[Len(trail)].below
    BY DEF Inv, Climbed, Stored
  <2>3. depth + 1 \in 1..Len(trail)
    BY <2>1, <2>2
  <2>4. trail[depth + 1].below <= ((depth + 1) - 1) * Len(queries)
    BY <2>3 DEF Inv, Climbed
  <2>5. ((depth + 1) - 1) * Len(queries) = Len(queries) * depth
    BY <2>1
  <2> QED
    BY <2>2, <2>4, <2>5
<1>6. openingsOk(paths)
  BY <1>1, <1>2, <1>5, AskedPositions DEF openingsOk, OtherWidth
<1> QED
  BY <1>3, <1>4, <1>6

(* Whatever is handed over, nothing but the prover's opening is accepted,  *)
(* and what comes back are the rows committed at the positions asked for.  *)
THEOREM OpeningIsBound == Spec => []AcceptedIsTheOpening
<1> QED
  BY OpeningInvHolds, InvBinds, PTL

(* The prover's opening, of any positions in the tree, has the shape that  *)
(* is asked of it and is never rejected.                                   *)
THEOREM OpeningIsAccepted == Spec => []HonestIsAccepted
<1> QED
  BY OpeningInvHolds, InvAccepts, PTL

-----------------------------------------------------------------------------
(* A nonempty set of naturals has a least element.                         *)
LessThan == {ss \in Nat \X Nat : ss[1] < ss[2]}

(* Well-foundedness, put as a minimum.                                     *)
LEMMA LeastExists ==
  ASSUME NEW S \in SUBSET Nat, S # {}
  PROVE  \E i \in S : \A j \in S : i <= j
<1>1. OpToRel(<, Nat) = LessThan
  BY DEF OpToRel, LessThan
<1>2. IsWellFoundedOn(LessThan, Nat)
  BY ONLY <1>1, NatLessThanWellFounded
<1>3. PICK i \in S : \A j \in S : <<j, i>> \notin LessThan
  BY <1>2, WFMin
<1>4. \A j \in S : ~(j < i)
  BY <1>3 DEF LessThan
<1> QED
  BY <1>4

(* Induction: a set with 0 and with the successors of its naturals has     *)
(* them all.                                                               *)
LEMMA Induction ==
  ASSUME NEW S, 0 \in S, \A n \in Nat : n \in S => n + 1 \in S
  PROVE  \A n \in Nat : n \in S
<1> DEFINE C == Nat \ S
<1>1. SUFFICES ASSUME C # {}
              PROVE  FALSE
  OBVIOUS
<1>2. PICK m \in C : \A j \in C : m <= j
  BY <1>1, LeastExists
<1>3. m - 1 \in Nat /\ m - 1 \notin C
  BY <1>2
<1> QED
  BY <1>2, <1>3

(* The nodes above a position, one by one.                                 *)
Climbs(q, n, g) == g = [k \in 0..n |-> IF k = 0 THEN q ELSE g[k - 1] \div 2]

(* They exist.                                                             *)
LEMMA ClimbsExist ==
  ASSUME NEW q, NEW n \in Nat
  PROVE  \E g : Climbs(q, n, g)
<1> DEFINE S == {k \in Nat : \E g : Climbs(q, k, g)}
<1>1. 0 \in S
  <2> DEFINE g == [k \in 0..0 |-> q]
  <2>1. Climbs(q, 0, g)
    BY DEF Climbs
  <2> QED
    BY <2>1
<1>2. ASSUME NEW k \in Nat, k \in S PROVE k + 1 \in S
  <2>1. PICK g : Climbs(q, k, g)
    BY <1>2
  <2> DEFINE h == [j \in 0..(k + 1) |-> IF j = k + 1 THEN g[k] \div 2 ELSE g[j]]
  <2>2. ASSUME NEW j \in 0..(k + 1) PROVE h[j] = IF j = 0 THEN q ELSE h[j - 1] \div 2
    <3>1. CASE j = k + 1
      <4>1. h[j] = g[k] \div 2 /\ j # 0 /\ j - 1 = k /\ k # k + 1 /\ k \in 0..(k + 1)
        BY <3>1
      <4>2. h[k] = g[k]
        BY <4>1
      <4> QED
        BY <4>1, <4>2
    <3>2. CASE j # k + 1 /\ j = 0
      BY <3>2, <2>1 DEF Climbs
    <3>3. CASE j # k + 1 /\ j # 0
      <4>1. j \in 0..k /\ h[j] = g[j] /\ j - 1 \in 0..(k + 1) /\ j - 1 # k + 1
        BY <3>3
      <4>2. h[j - 1] = g[j - 1]
        BY <4>1
      <4>3. g[j] = g[j - 1] \div 2
        BY <3>3, <4>1, <2>1 DEF Climbs
      <4> QED
        BY <3>3, <4>1, <4>2, <4>3
    <3> QED
      BY <3>1, <3>2, <3>3
  <2>3. h = [j \in 0..(k + 1) |-> h[j]]
    OBVIOUS
  <2> HIDE DEF h
  <2>4. h = [j \in 0..(k + 1) |-> IF j = 0 THEN q ELSE h[j - 1] \div 2]
    BY <2>2, <2>3
  <2>5. Climbs(q, k + 1, h)
    BY <2>4 DEF Climbs
  <2> QED
    BY <2>5
<1> HIDE DEF S
<1>3. \A k \in Nat : k \in S
  BY <1>1, <1>2, Induction
<1> QED
  BY <1>3 DEF S

(* Two of them agree as far as both go.                                    *)
LEMMA ClimbsAgree ==
  ASSUME NEW q, NEW n \in Nat, NEW m \in Nat, m <= n, NEW g, NEW h, Climbs(q, n, g), Climbs(q, m, h)
  PROVE  g[m] = h[m]
<1> DEFINE S == {k \in Nat : k <= m => g[k] = h[k]}
<1>1. 0 \in S
  BY DEF Climbs
<1>2. ASSUME NEW k \in Nat, k \in S PROVE k + 1 \in S
  <2> SUFFICES ASSUME k + 1 <= m PROVE g[k + 1] = h[k + 1]
    OBVIOUS
  <2>1. k + 1 \in 0..n /\ k + 1 \in 0..m /\ k + 1 # 0 /\ (k + 1) - 1 = k /\ g[k] = h[k]
    BY <1>2
  <2>2. g[k + 1] = g[(k + 1) - 1] \div 2
    BY <2>1 DEF Climbs
  <2>3. h[k + 1] = h[(k + 1) - 1] \div 2
    BY <2>1 DEF Climbs
  <2> QED
    BY <2>1, <2>2, <2>3
<1> HIDE DEF S
<1>3. \A k \in Nat : k \in S
  BY <1>1, <1>2, Induction
<1> QED
  BY <1>3 DEF S

(* The node above a position: itself, and half the node below.             *)
LEMMA AboveGrows ==
  ASSUME NEW q
  PROVE  Above(q, 0) = q /\ \A n \in Nat : Above(q, n + 1) = Above(q, n) \div 2
<1> DEFINE G(n) == CHOOSE g : Climbs(q, n, g)
<1>1. \A n \in Nat : Climbs(q, n, G(n))
  BY ClimbsExist
<1>2. \A n : Above(q, n) = G(n)[n]
  BY DEF Above, Climbs
<1> HIDE DEF G
<1>3. Above(q, 0) = q
  <2>1. Climbs(q, 0, G(0))
    BY <1>1
  <2>2. G(0)[0] = q
    BY <2>1 DEF Climbs
  <2> QED
    BY <1>2, <2>2
<1>4. ASSUME NEW n \in Nat PROVE Above(q, n + 1) = Above(q, n) \div 2
  <2>1. Climbs(q, n, G(n)) /\ Climbs(q, n + 1, G(n + 1))
    BY <1>1
  <2>2. G(n + 1)[n] = G(n)[n]
    BY <2>1, ClimbsAgree
  <2>3. n + 1 \in 0..(n + 1) /\ n + 1 # 0 /\ (n + 1) - 1 = n
    OBVIOUS
  <2>4. G(n + 1)[n + 1] = G(n + 1)[(n + 1) - 1] \div 2
    BY <2>1, <2>3 DEF Climbs
  <2> QED
    BY <1>2, <2>2, <2>3, <2>4
<1> QED
  BY <1>3, <1>4

(* The nodes passed at one height, and what a height more adds to those    *)
(* passed and to those beside.                                             *)
Opened(S, h) == {Above(q, h) : q \in S}

(* The level above is that of the parents.                                 *)
LEMMA OpenedGrows ==
  ASSUME NEW S
  PROVE  Opened(S, 0) = S /\ \A h \in Nat : Opened(S, h + 1) = parentPositions(Opened(S, h))
<1>1. Opened(S, 0) = S
  BY AboveGrows DEF Opened
<1>2. ASSUME NEW h \in Nat PROVE Opened(S, h + 1) = parentPositions(Opened(S, h))
  <2>1. \A q \in S : Above(q, h + 1) = Above(q, h) \div 2
    BY AboveGrows
  <2> QED
    BY <2>1 DEF Opened, parentPositions
<1> QED
  BY <1>1, <1>2

(* They are positions at every height.                                     *)
LEMMA OpenedPositions ==
  ASSUME NEW S, Positions(S)
  PROVE  \A h \in Nat : Positions(Opened(S, h))
<1> DEFINE H == {h \in Nat : Positions(Opened(S, h))}
<1>1. 0 \in H
  BY OpenedGrows
<1>2. ASSUME NEW h \in Nat, h \in H PROVE h + 1 \in H
  <2>1. Opened(S, h + 1) = parentPositions(Opened(S, h))
    BY OpenedGrows
  <2> QED
    BY <1>2, <2>1, ParentsOf
<1> HIDE DEF H
<1>3. \A h \in Nat : h \in H
  BY <1>1, <1>2, Induction
<1> QED
  BY <1>3 DEF H

(* As many pairs at one height as there are nodes.                         *)
LEMMA AtOneHeight ==
  ASSUME NEW S, IsFiniteSet(S), NEW h
  PROVE  IsFiniteSet({h} \X S) /\ Cardinality({h} \X S) = Cardinality(S)
<1> DEFINE f == [x \in S |-> <<h, x>>]
<1>1. f \in Bijection(S, {h} \X S)
  BY DEF Bijection, Injection, Surjection, IsInjective
<1>2. ExistsBijection(S, {h} \X S)
  BY <1>1 DEF ExistsBijection
<1> QED
  BY <1>2, FS_Bijection

(* Two sets with nothing in common.                                        *)
LEMMA Apart ==
  ASSUME NEW S, NEW T, IsFiniteSet(S), IsFiniteSet(T), S \cap T = {}
  PROVE  IsFiniteSet(S \cup T) /\ Cardinality(S \cup T) = Cardinality(S) + Cardinality(T)
<1>1. Cardinality(S) \in Nat /\ Cardinality(T) \in Nat /\ Cardinality({}) = 0
  BY FS_CardinalityType, FS_EmptySet
<1>2. /\ IsFiniteSet(S \cup T)
      /\ Cardinality(S \cup T) = Cardinality(S) + Cardinality(T) - Cardinality(S \cap T)
  BY FS_Union
<1>3. Cardinality(S \cap T) = 0
  BY <1>1, Zenon
<1>4. Cardinality(S \cup T) = Cardinality(S) + Cardinality(T)
  BY ONLY <1>1, <1>2, <1>3
<1> QED
  BY ONLY <1>2, <1>4, Zenon

(* A height more: its nodes.                                               *)
LEMMA PassedGrows ==
  ASSUME NEW S, Positions(S)
  PROVE  /\ Cardinality(Passed(S, 0)) = Cardinality(S) /\ IsFiniteSet(Passed(S, 0))
         /\ \A h \in Nat : IsFiniteSet(Passed(S, h)) =>
              /\ IsFiniteSet(Passed(S, h + 1))
              /\ Cardinality(Passed(S, h + 1)) = Cardinality(Passed(S, h)) + Cardinality(Opened(S, h + 1))
<1>1. Passed(S, 0) = {0} \X S
  <2>1. 0..0 = {0} /\ \A q \in S : Above(q, 0) = q
    BY AboveGrows
  <2> QED
    BY <2>1 DEF Passed
<1>2. IsFiniteSet(Passed(S, 0)) /\ Cardinality(Passed(S, 0)) = Cardinality(S)
  BY <1>1, AtOneHeight DEF Positions
<1>3. ASSUME NEW h \in Nat, IsFiniteSet(Passed(S, h))
      PROVE  /\ IsFiniteSet(Passed(S, h + 1))
             /\ Cardinality(Passed(S, h + 1)) = Cardinality(Passed(S, h)) + Cardinality(Opened(S, h + 1))
  <2> DEFINE T == {h + 1} \X Opened(S, h + 1)
  <2>1. Passed(S, h + 1) = Passed(S, h) \cup T
    <3>1. 0..(h + 1) = (0..h) \cup {h + 1}
      OBVIOUS
    <3> QED
      BY <3>1 DEF Passed, Opened
  <2>2. Passed(S, h) \cap T = {}
    <3>1. h + 1 \notin 0..h
      OBVIOUS
    <3> QED
      BY <3>1 DEF Passed
  <2>3. IsFiniteSet(T) /\ Cardinality(T) = Cardinality(Opened(S, h + 1))
    <3>1. Positions(Opened(S, h + 1))
      BY h + 1 \in Nat, OpenedPositions
    <3>2. IsFiniteSet(Opened(S, h + 1))
      BY <3>1 DEF Positions
    <3> QED
      BY <3>2, AtOneHeight
  <2> HIDE DEF T
  <2> QED
    BY <1>3, <2>1, <2>2, <2>3, Apart
<1> QED
  BY <1>2, <1>3

(* As many siblings beside a level as nodes alone in it.                   *)
LEMMA SiblingsOfAlone ==
  ASSUME NEW S, Positions(S)
  PROVE  /\ IsFiniteSet({sibling(i) : i \in S} \ S)
         /\ Cardinality({sibling(i) : i \in S} \ S) = Cardinality(Alone(S))
<1> DEFINE T == {sibling(i) : i \in S} \ S
           f == [i \in Alone(S) |-> sibling(i)]
<1>1. \A i, j \in S : sibling(i) = sibling(j) => i = j
  BY Halves DEF Positions
<1>2. T = {sibling(i) : i \in Alone(S)}
  BY DEF Alone
<1>3. f \in Bijection(Alone(S), T)
  BY <1>1, <1>2 DEF Bijection, Injection, Surjection, IsInjective, Alone
<1>4. ExistsBijection(Alone(S), T) /\ IsFiniteSet(Alone(S))
  BY <1>3, AloneOf DEF ExistsBijection, Positions
<1> HIDE DEF T
<1>5. IsFiniteSet(T) /\ Cardinality(T) = Cardinality(Alone(S))
  BY <1>4, FS_Bijection
<1> QED
  BY <1>5 DEF T

(* A height more: the siblings of the nodes alone below it.                *)
LEMMA BesideGrows ==
  ASSUME NEW S, Positions(S)
  PROVE  /\ Cardinality(Beside(S, 0)) = 0 /\ IsFiniteSet(Beside(S, 0))
         /\ \A h \in Nat : IsFiniteSet(Beside(S, h)) =>
              /\ IsFiniteSet(Beside(S, h + 1))
              /\ Cardinality(Beside(S, h + 1)) = Cardinality(Beside(S, h)) + Cardinality(Alone(Opened(S, h)))
<1>1. Beside(S, 0) = {}
  <2>1. 0..(0 - 1) = {}
    OBVIOUS
  <2> QED
    BY <2>1 DEF Beside
<1>2. IsFiniteSet(Beside(S, 0)) /\ Cardinality(Beside(S, 0)) = 0
  BY <1>1, FS_EmptySet
<1>3. ASSUME NEW h \in Nat, IsFiniteSet(Beside(S, h))
      PROVE  /\ IsFiniteSet(Beside(S, h + 1))
             /\ Cardinality(Beside(S, h + 1)) = Cardinality(Beside(S, h)) + Cardinality(Alone(Opened(S, h)))
  <2> DEFINE O == Opened(S, h)
             T == {h} \X ({sibling(i) : i \in O} \ O)
  <2>1. \A k \in 0..h : \A x : <<k, x>> \in Passed(S, h + 1) <=> x \in Opened(S, k)
    <3>1. \A k \in 0..h : k \in 0..(h + 1)
      OBVIOUS
    <3> QED
      BY <3>1 DEF Passed, Opened
  <2>2. \A k \in 0..(h - 1) : \A x : <<k, x>> \in Passed(S, h) <=> x \in Opened(S, k)
    <3>1. \A k \in 0..(h - 1) : k \in 0..h
      OBVIOUS
    <3> QED
      BY <3>1 DEF Passed, Opened
  <2>3. Beside(S, h + 1) = Beside(S, h) \cup T
    <3> DEFINE B(k) == {<<k, sibling(Above(q, k))>> : q \in S}
    <3>1. (h + 1) - 1 = h /\ 0..h = (0..(h - 1)) \cup {h}
      OBVIOUS
    <3>2. ASSUME NEW z PROVE z \in Beside(S, h + 1) <=> z \in Beside(S, h) \cup T
      <4>1. ASSUME NEW k \in 0..(h - 1), NEW q \in S, z = <<k, sibling(Above(q, k))>>
            PROVE  z \in Passed(S, h + 1) <=> z \in Passed(S, h)
        BY <2>1, <2>2, <3>1, <4>1
      <4>2. ASSUME NEW q \in S, z = <<h, sibling(Above(q, h))>>
            PROVE  z \in Passed(S, h + 1) <=> sibling(Above(q, h)) \in O
        BY <2>1, <4>2
      <4>3. ASSUME z \in Beside(S, h + 1) PROVE z \in Beside(S, h) \cup T
        <5>1. PICK k \in 0..h, q \in S : z = <<k, sibling(Above(q, k))>> /\ z \notin Passed(S, h + 1)
          BY <3>1, <4>3 DEF Beside
        <5>2. CASE k \in 0..(h - 1)
          BY <4>1, <5>1, <5>2 DEF Beside
        <5>3. CASE k = h
          BY <4>2, <5>1, <5>3 DEF Opened
        <5> QED
          BY <3>1, <5>2, <5>3
      <4>4. ASSUME z \in Beside(S, h) PROVE z \in Beside(S, h + 1)
        <5>1. PICK k \in 0..(h - 1), q \in S : z = <<k, sibling(Above(q, k))>> /\ z \notin Passed(S, h)
          BY <4>4 DEF Beside
        <5> QED
          BY <3>1, <4>1, <5>1 DEF Beside
      <4>5. ASSUME z \in T PROVE z \in Beside(S, h + 1)
        <5>1. PICK q \in S : z = <<h, sibling(Above(q, h))>> /\ sibling(Above(q, h)) \notin O
          BY <4>5 DEF Opened
        <5> QED
          BY <3>1, <4>2, <5>1 DEF Beside
      <4> QED
        BY <4>3, <4>4, <4>5
    <3> HIDE DEF T
    <3> QED
      BY <3>2
  <2>4. Beside(S, h) \cap T = {}
    <3>1. h \notin 0..(h - 1)
      OBVIOUS
    <3> QED
      BY <3>1 DEF Beside
  <2>5. Positions(O)
    BY OpenedPositions
  <2>6. IsFiniteSet(T) /\ Cardinality(T) = Cardinality(Alone(O))
    <3> HIDE DEF O
    <3>1. /\ IsFiniteSet({sibling(i) : i \in O} \ O)
          /\ Cardinality({sibling(i) : i \in O} \ O) = Cardinality(Alone(O))
      BY <2>5, SiblingsOfAlone
    <3> QED
      BY <3>1, AtOneHeight
  <2> HIDE DEF T
  <2> QED
    BY <1>3, <2>3, <2>4, <2>6, Apart
<1> QED
  BY <1>2, <1>3

-----------------------------------------------------------------------------
(* The verifier's count, height by height: the nodes it has are those the  *)
(* positions pass there, it has hashed those below and these, and taken a  *)
(* sibling for each node beside.                                           *)
CountedTo(S, h, made, taken) ==
  /\ IsFiniteSet(Passed(S, h)) /\ made = Cardinality(Passed(S, h))
  /\ IsFiniteSet(Beside(S, h)) /\ taken = Cardinality(Beside(S, h))

CountInv ==
  Underway => DOMAIN nodes = Opened(sortedUnique, height) /\ CountedTo(sortedUnique, height, hashed, used)

(* A count goes on by a level.                                             *)
LEMMA CountsLevel ==
  ASSUME NEW S, Positions(S), NEW h \in Nat, NEW made, NEW taken, CountedTo(S, h, made, taken)
  PROVE  CountedTo(S, h + 1, made + Cardinality(parentPositions(Opened(S, h))),
                   taken + Cardinality(Alone(Opened(S, h))))
<1>1. Opened(S, h + 1) = parentPositions(Opened(S, h))
  BY OpenedGrows
<1>2. /\ IsFiniteSet(Passed(S, h + 1))
      /\ Cardinality(Passed(S, h + 1)) = Cardinality(Passed(S, h)) + Cardinality(Opened(S, h + 1))
  BY PassedGrows DEF CountedTo
<1>3. /\ IsFiniteSet(Beside(S, h + 1))
      /\ Cardinality(Beside(S, h + 1)) = Cardinality(Beside(S, h)) + Cardinality(Alone(Opened(S, h)))
  BY BesideGrows DEF CountedTo
<1> QED
  BY <1>1, <1>2, <1>3 DEF CountedTo

(* What starts the walk: the rows, hashed.                                 *)
LEMMA CountsStart == Inv /\ StartWalk => CountInv'
<1> SUFFICES ASSUME Inv, StartWalk PROVE CountInv'
  OBVIOUS
<1>1. /\ stage = "check" /\ Counted(paths) /\ hashed' = Len(paths.leafData) /\ DOMAIN nodes' = sortedUnique
      /\ height' = height /\ used' = used /\ sortedUnique' = sortedUnique
  BY DEF StartWalk, RowsHashed, Fixed, sortedUnique
<1>2. height' = 0 /\ used' = 0 /\ hashed' = Cardinality(sortedUnique)
  BY <1>1 DEF Inv, Handed, Counted
<1>3. Positions(sortedUnique)
  BY AskedPositions, QueriesAssumption DEF Inv, Built
<1>4. Opened(sortedUnique, 0) = sortedUnique
  BY OpenedGrows
<1>5. CountedTo(sortedUnique, 0, hashed', used')
  BY <1>2, <1>3, PassedGrows, BesideGrows DEF CountedTo
<1> QED
  BY <1>1, <1>2, <1>4, <1>5 DEF CountInv

(* A level of the walk.                                                    *)
LEMMA CountsWalk == Inv /\ CountInv /\ Walk => CountInv'
<1> SUFFICES ASSUME Inv, CountInv, Walk PROVE CountInv'
  OBVIOUS
<1>1. /\ stage = "walk" /\ nodes' = levelStep /\ used' = used + Cardinality(lone) /\ height' = height + 1
      /\ hashed' = hashed + Cardinality(DOMAIN levelStep) /\ sortedUnique' = sortedUnique
  BY DEF Walk, Fixed, sortedUnique
<1>2. DOMAIN levelStep = parentPositions(DOMAIN nodes) /\ lone = Alone(DOMAIN nodes)
  BY DEF levelStep, lone
<1>3. DOMAIN nodes = Opened(sortedUnique, height) /\ CountedTo(sortedUnique, height, hashed, used)
  BY <1>1 DEF CountInv, Underway
<1>4. Positions(sortedUnique)
  BY AskedPositions, QueriesAssumption DEF Inv, Built
<1>5. height \in Nat
  <2>1. height \in 0..depth /\ tree \in Commitments
    BY <1>1 DEF Inv, Walked, Underway, Built
  <2> QED
    BY <2>1, TreeFacts
<1>6. CountedTo(sortedUnique, height + 1, hashed + Cardinality(DOMAIN levelStep), used + Cardinality(lone))
  BY <1>2, <1>3, <1>4, <1>5, CountsLevel
<1>7. DOMAIN levelStep = Opened(sortedUnique, height + 1)
  <2>1. Opened(sortedUnique, height + 1) = parentPositions(Opened(sortedUnique, height))
    BY <1>5, OpenedGrows
  <2> QED
    BY <1>2, <1>3, <2>1
<1> QED
  BY <1>1, <1>6, <1>7 DEF CountInv

(* Every step keeps the count.                                             *)
LEMMA CountIsKept == Inv /\ CountInv /\ [Next]_vars => CountInv'
<1> SUFFICES ASSUME Inv, CountInv, [Next]_vars PROVE CountInv'
  OBVIOUS
<1>1. ASSUME Accept \/ UNCHANGED vars PROVE CountInv'
  <2>1. /\ nodes' = nodes /\ height' = height /\ hashed' = hashed /\ used' = used /\ sortedUnique' = sortedUnique
        /\ (Underway' => Underway)
    BY <1>1 DEF Accept, Fixed, verifier, vars, sortedUnique, Underway
  <2> QED
    BY <2>1 DEF CountInv
<1>2. ASSUME BuildLevel \/ StoreRows \/ StoreSiblings \/ HandOver PROVE ~Underway'
  BY <1>2 DEF BuildLevel, StoreRows, StoreSiblings, HandOver, Underway
<1>3. ASSUME RejectCount \/ RejectWidth \/ RejectPosition \/ RunOut \/ RejectRoot PROVE ~Underway'
  BY <1>3 DEF RejectCount, RejectWidth, RejectPosition, RunOut, RejectRoot, Reject, Underway
<1>4. ~Underway' => CountInv'
  BY DEF CountInv
<1> QED
  BY <1>1, <1>2, <1>3, <1>4, CountsStart, CountsWalk DEF Next

(* Whatever is handed over, what is accepted was hashed once, each stored  *)
(* row and each node above one, with a sibling for exactly the nodes       *)
(* beside them (ToVCVio/Merkle.lean, Merkle.lean).                         *)
THEOREM OpeningIsHashedOnce == Spec => []HashedOnce
<1>1. Init => CountInv
  BY DEF Init, CountInv, Underway
<1>2. Inv /\ CountInv => HashedOnce
  <2> SUFFICES ASSUME Inv, CountInv, stage = "accepted"
               PROVE  /\ hashed = Cardinality(Passed(sortedUnique, depth))
                      /\ Len(paths.siblings) = Cardinality(Beside(sortedUnique, depth))
    BY DEF HashedOnce
  <2>1. height = depth /\ used = Len(paths.siblings)
    BY DEF Inv, Walked, Underway, Reached
  <2> QED
    BY <2>1 DEF CountInv, Underway, CountedTo
<1> QED
  BY <1>1, <1>2, CountIsKept, InvStarts, InvIsKept, PTL DEF Spec

=============================================================================
