--------------------------- MODULE ProofStreamProofs ---------------------------
(***************************************************************************)
(* The proof stream for every schedule, field, hash and honest message:    *)
(* the chain is the proof's scalars in order and the results of its ops at *)
(* their places, so two chains that agree carry one proof, and a reader    *)
(* that is handed what was written repeats the writer step by step.        *)
(***************************************************************************)
EXTENDS ProofStream, TLAPS, FiniteSetTheorems, SequenceTheorems,
        WellFoundedInduction

OpSet == [op : {"scalar", "root", "sample", "grind"}, bits : Nat]
BlockSet == {"observe", "squeeze", "nonce"} \X Scalars
Canonical == (Scalars \ Wide) \X (Scalars \ Wide)
Results == Scalars \cup (Scalars \X Scalars) \cup Seq(BlockSet)
Queries == Seq(BlockSet) \X {"seed", "observe", "squeeze", "nonce", "base", "try"} \X Nat
Hints == [root : Results, at : Results, shape : {"fits", "tooWide"}]
Proofs == [stream : Seq(Scalars), merkle : Seq(Hints)]
Writers == [fs : Seq(BlockSet), stream : Seq(Scalars), merkle : Seq(Hints), told : Seq(Results), asked : Seq(Queries)]
Readers == [fs : Seq(BlockSet), stream : Seq(Scalars), merkle : Seq(Hints), got : Seq(Results), rows : Seq(Hints),
            asked : Seq(Queries),
            error : {"none", "exceededStream", "nonCanonicalEncoding", "powFailed", "missingHint",
                     "invalidMerkleOpening", "notFullyConsumed"}]

-----------------------------------------------------------------------------
(* The blocks of a chain that carry a scalar of the proof, and those among *)
(* the first i.                                                            *)
Carried(fs) == {i \in DOMAIN fs : fs[i][1] # "squeeze"}
Entries(fs, i) == Cardinality(Carried(fs) \cap (1..i))
Width(o) == IF o.op = "root" THEN 2 ELSE 1

(* What a chain carries starts the stream, scalar for scalar.              *)
Carries(fs, stream) ==
  /\ fs \in Seq(BlockSet) /\ stream \in Seq(Scalars)
  /\ Entries(fs, Len(fs)) <= Len(stream)
  /\ \A i \in Carried(fs) : stream[Entries(fs, i)] = fs[i][2]
  /\ \A k \in 1..Entries(fs, Len(fs)) : \E i \in Carried(fs) : Entries(fs, i) = k

(* IsPrefix(fs, g), as the provers read it.                                *)
Extends(g, fs) == Len(fs) <= Len(g) /\ SubSeq(g, 1, Len(fs)) = fs

(* After its first `at` blocks the chain says that the op resulted in x.   *)
Says(cl, o, fs, at, x) ==
  /\ o.op = "scalar" => fs[at + 1] = <<"observe", x>>
  /\ o.op = "root" => x \in Canonical /\ fs[at + 1] = <<"observe", x[1]>> /\ fs[at + 2] = <<"observe", x[2]>>
  /\ o.op = "sample" => fs[at + 1] = <<"squeeze", 0>> /\ x = SubSeq(fs, 1, at)
  /\ o.op = "grind" => /\ fs[at + 1] = <<"nonce", x>>
                       /\ IF o.bits = 0 THEN x = 0 ELSE x \in cl[Weight(SubSeq(fs, 1, at)) % 2]

Transcribes(cl, ops, fs, xs) ==
  /\ ops \in Seq(OpSet) /\ fs \in Seq(BlockSet) /\ xs \in Seq(Results)
  /\ Len(xs) <= Len(ops) /\ Len(fs) = At(ops, Len(xs))
  /\ \A i \in DOMAIN xs : Says(cl, ops[i], fs, At(ops, i - 1), xs[i])

-----------------------------------------------------------------------------
(* How a count below a bound grows with the bound.                         *)
LEMMA CountGrows ==
  ASSUME NEW S \in SUBSET Nat, NEW i \in Nat
  PROVE  /\ Cardinality(S \cap (1..i)) \in Nat
         /\ Cardinality(S \cap (1..0)) = 0
         /\ Cardinality(S \cap (1..(i + 1))) = Cardinality(S \cap (1..i)) + (IF i + 1 \in S THEN 1 ELSE 0)
         /\ \A j \in 0..i : /\ Cardinality(S \cap (1..j)) \in Nat
                            /\ Cardinality(S \cap (1..j)) <= Cardinality(S \cap (1..i))
         /\ Cardinality(S \cap (1..i)) <= i
<1>1. \A j \in Nat : IsFiniteSet(S \cap (1..j)) /\ Cardinality(S \cap (1..j)) \in Nat
  <2> TAKE j \in Nat
  <2>1. IsFiniteSet(1..j)
    BY FS_Interval
  <2>2. IsFiniteSet(S \cap (1..j))
    BY <2>1, FS_Subset
  <2> QED
    BY <2>2, FS_CardinalityType
<1>2. Cardinality(S \cap (1..0)) = 0
  <2>1. S \cap (1..0) = {}
    OBVIOUS
  <2> QED
    BY <2>1, FS_EmptySet
<1>3. Cardinality(S \cap (1..(i + 1))) = Cardinality(S \cap (1..i)) + (IF i + 1 \in S THEN 1 ELSE 0)
  <2>1. CASE i + 1 \in S
    <3>1. S \cap (1..(i + 1)) = (S \cap (1..i)) \cup {i + 1} /\ i + 1 \notin S \cap (1..i)
      BY <2>1
    <3> QED
      BY <3>1, <2>1, <1>1, FS_AddElement
  <2>2. CASE i + 1 \notin S
    <3>1. S \cap (1..(i + 1)) = S \cap (1..i)
      BY <2>2
    <3> QED
      BY <3>1, <2>2, <1>1
  <2> QED
    BY <2>1, <2>2
<1>4. \A j \in 0..i : /\ Cardinality(S \cap (1..j)) \in Nat
                     /\ Cardinality(S \cap (1..j)) <= Cardinality(S \cap (1..i))
  <2> TAKE j \in 0..i
  <2>1. S \cap (1..j) \in SUBSET (S \cap (1..i))
    OBVIOUS
  <2> QED
    BY <2>1, <1>1, FS_Subset
<1>5. Cardinality(S \cap (1..i)) <= i
  <2>1. IsFiniteSet(1..i) /\ Cardinality(1..i) = i
    BY FS_Interval
  <2>2. S \cap (1..i) \in SUBSET (1..i)
    OBVIOUS
  <2> QED
    BY <2>1, <2>2, FS_Subset
<1>6. Cardinality(S \cap (1..i)) \in Nat
  BY <1>1
<1> QED
  BY <1>2, <1>3, <1>4, <1>5, <1>6

(* The place of an op: it moves on by the op's width.                      *)
LEMMA AtGrows ==
  ASSUME NEW ops \in Seq(OpSet), NEW i \in 0..Len(ops)
  PROVE  /\ At(ops, i) \in Nat /\ At(ops, 0) = 0
         /\ i < Len(ops) => At(ops, i + 1) = At(ops, i) + Width(ops[i + 1])
         /\ \A j \in 0..i : At(ops, j) \in Nat /\ At(ops, j) <= At(ops, i)
<1>1. Roots(ops) \in SUBSET Nat /\ i \in Nat
  BY DEF Roots
<1>2. i < Len(ops) => (i + 1 \in Roots(ops) <=> ops[i + 1].op = "root")
  BY DEF Roots
<1>3. /\ Cardinality(Roots(ops) \cap (1..i)) \in Nat
      /\ Cardinality(Roots(ops) \cap (1..0)) = 0
      /\ Cardinality(Roots(ops) \cap (1..(i + 1)))
           = Cardinality(Roots(ops) \cap (1..i)) + (IF i + 1 \in Roots(ops) THEN 1 ELSE 0)
  BY <1>1, CountGrows
<1>4. At(ops, i) \in Nat /\ At(ops, 0) = 0
  BY <1>1, <1>3 DEF At
<1>5. i < Len(ops) => At(ops, i + 1) = At(ops, i) + Width(ops[i + 1])
  BY <1>1, <1>2, <1>3 DEF At, Width
<1>6. \A j \in 0..i : At(ops, j) \in Nat /\ At(ops, j) <= At(ops, i)
  <2> TAKE j \in 0..i
  <2>1. /\ Cardinality(Roots(ops) \cap (1..j)) <= Cardinality(Roots(ops) \cap (1..i))
        /\ Cardinality(Roots(ops) \cap (1..j)) \in Nat
    BY <1>1, CountGrows
  <2> QED
    BY <2>1, <1>3 DEF At
<1> QED
  BY <1>4, <1>5, <1>6

(* The scalars among a chain's blocks, and those of a prefix.              *)
LEMMA EntriesGrow ==
  ASSUME NEW fs \in Seq(BlockSet), NEW i \in 0..Len(fs)
  PROVE  /\ Entries(fs, i) \in Nat /\ Entries(fs, 0) = 0 /\ Entries(fs, i) <= i
         /\ i < Len(fs) => Entries(fs, i + 1) = Entries(fs, i) + (IF fs[i + 1][1] # "squeeze" THEN 1 ELSE 0)
         /\ \A j \in 0..i : Entries(fs, j) \in Nat /\ Entries(fs, j) <= Entries(fs, i)
<1>1. Carried(fs) \in SUBSET Nat /\ i \in Nat
  BY DEF Carried
<1>2. i < Len(fs) => (i + 1 \in Carried(fs) <=> fs[i + 1][1] # "squeeze")
  BY DEF Carried
<1>3. Entries(fs, i) \in Nat /\ Entries(fs, 0) = 0 /\ Entries(fs, i) <= i
  BY <1>1, CountGrows DEF Entries
<1>4. i < Len(fs) => Entries(fs, i + 1) = Entries(fs, i) + (IF fs[i + 1][1] # "squeeze" THEN 1 ELSE 0)
  BY <1>1, <1>2, CountGrows DEF Entries
<1>5. \A j \in 0..i : Entries(fs, j) \in Nat /\ Entries(fs, j) <= Entries(fs, i)
  <2> TAKE j \in 0..i
  <2> QED
    BY <1>1, CountGrows DEF Entries
<1> QED
  BY <1>3, <1>4, <1>5

(* A longer chain has the same blocks as its prefix, and counts the same   *)
(* scalars among them.                                                     *)
LEMMA EntriesOfPrefix ==
  ASSUME NEW g \in Seq(BlockSet), NEW fs \in Seq(BlockSet), Extends(g, fs)
  PROVE  /\ \A i \in 1..Len(fs) : g[i] = fs[i] /\ (i \in Carried(g) <=> i \in Carried(fs))
         /\ \A i \in 0..Len(fs) : Entries(g, i) = Entries(fs, i)
<1>1. \A i \in 1..Len(fs) : g[i] = fs[i]
  BY DEF Extends
<1>2. \A i \in 1..Len(fs) : i \in Carried(g) <=> i \in Carried(fs)
  BY <1>1 DEF Carried, Extends
<1>3. ASSUME NEW i \in 0..Len(fs) PROVE Entries(g, i) = Entries(fs, i)
  <2>1. Carried(g) \cap (1..i) = Carried(fs) \cap (1..i)
    BY <1>2
  <2> QED
    BY <2>1 DEF Entries
<1> QED
  BY <1>1, <1>2, <1>3

-----------------------------------------------------------------------------
(* One more block: a challenge leaves the scalars as they are, any other   *)
(* block carries the next scalar of the stream.                            *)
LEMMA AbsorbCarries ==
  ASSUME NEW fs, NEW stream, Carries(fs, stream), NEW b \in BlockSet,
         b[1] # "squeeze" => /\ Entries(fs, Len(fs)) < Len(stream)
                             /\ stream[Entries(fs, Len(fs)) + 1] = b[2]
  PROVE  /\ Carries(Append(fs, b), stream)
         /\ Entries(Append(fs, b), Len(fs) + 1) = Entries(fs, Len(fs)) + (IF b[1] # "squeeze" THEN 1 ELSE 0)
<1> DEFINE g == Append(fs, b)
           n == Len(fs)
<1>1. /\ fs \in Seq(BlockSet) /\ g \in Seq(BlockSet) /\ n \in Nat /\ n = Len(fs) /\ Len(g) = n + 1
      /\ Extends(g, fs) /\ g[n + 1] = b
  BY DEF Carries, Extends
<1> HIDE DEF g, n
<1>2. /\ \A i \in 1..n : g[i] = fs[i] /\ (i \in Carried(g) <=> i \in Carried(fs))
      /\ \A i \in 0..n : Entries(g, i) = Entries(fs, i)
  BY <1>1, EntriesOfPrefix
<1>3. Entries(fs, n) \in Nat
  BY <1>1, EntriesGrow
<1>4. Entries(g, n + 1) = Entries(fs, n) + (IF b[1] # "squeeze" THEN 1 ELSE 0)
  <2>1. Entries(g, n + 1) = Entries(g, n) + (IF g[n + 1][1] # "squeeze" THEN 1 ELSE 0)
    <3>1. n \in 0..Len(g) /\ n < Len(g) /\ g \in Seq(BlockSet)
      BY <1>1
    <3> QED
      BY <3>1, EntriesGrow
  <2>2. Entries(g, n) = Entries(fs, n)
    BY <1>1, <1>2
  <2>3. g[n + 1][1] = b[1]
    BY <1>1
  <2> QED
    BY <2>1, <2>2, <2>3
<1>5. Carried(fs) \subseteq 1..n /\ Carried(g) \subseteq 1..(n + 1) /\ (n + 1 \in Carried(g) <=> b[1] # "squeeze")
  BY <1>1 DEF Carried
<1>6. \A i \in Carried(g) : stream[Entries(g, i)] = g[i][2]
  <2> TAKE i \in Carried(g)
  <2>1. CASE i = n + 1
    BY <2>1, <1>1, <1>3, <1>4, <1>5 DEF n
  <2>2. CASE i \in 1..n
    BY <2>2, <1>2 DEF Carries
  <2> QED
    BY <2>1, <2>2, <1>1, <1>5
<1>7. \A k \in 1..Entries(g, n + 1) : \E i \in Carried(g) : Entries(g, i) = k
  <2> TAKE k \in 1..Entries(g, n + 1)
  <2>1. CASE k \in 1..Entries(fs, n)
    <3>1. PICK i \in Carried(fs) : Entries(fs, i) = k
      BY <2>1 DEF Carries, n
    <3> QED
      BY <3>1, <1>2, <1>5
  <2>2. CASE k = Entries(fs, n) + 1 /\ b[1] # "squeeze"
    BY <2>2, <1>4, <1>5
  <2> QED
    BY <2>1, <2>2, <1>3, <1>4
<1>8. Entries(g, n + 1) <= Len(stream) /\ stream \in Seq(Scalars)
  BY <1>3, <1>4 DEF Carries, n
<1>9. Carries(g, stream)
  BY <1>1, <1>6, <1>7, <1>8 DEF Carries
<1> QED
  BY <1>9, <1>4 DEF g, n

(* A scalar added to the stream disturbs none that is carried.             *)
LEMMA StreamGrows ==
  ASSUME NEW fs, NEW stream, Carries(fs, stream), NEW x \in Scalars
  PROVE  Carries(fs, Append(stream, x))
<1>1. fs \in Seq(BlockSet) /\ stream \in Seq(Scalars) /\ Append(stream, x) \in Seq(Scalars)
  BY DEF Carries
<1>2. \A i \in Carried(fs) : Append(stream, x)[Entries(fs, i)] = fs[i][2]
  <2> TAKE i \in Carried(fs)
  <2>1. i \in 1..Len(fs)
    BY <1>1 DEF Carried
  <2>2. Entries(fs, i) \in Nat /\ Entries(fs, i) <= Entries(fs, Len(fs)) /\ Entries(fs, Len(fs)) <= Len(stream)
    <3>1. i \in 0..Len(fs) /\ Len(fs) \in 0..Len(fs)
      BY <1>1, <2>1
    <3>2. \A j \in 0..Len(fs) : Entries(fs, j) \in Nat /\ Entries(fs, j) <= Entries(fs, Len(fs))
      BY <1>1, <3>1, EntriesGrow
    <3> QED
      BY <3>1, <3>2 DEF Carries
  <2>3. Entries(fs, i) >= 1
    <3>1. PICK j \in 0..Len(fs) : i = j + 1 /\ j < Len(fs)
      BY <1>1, <2>1
    <3>2. Entries(fs, j) \in Nat /\ Entries(fs, j + 1) = Entries(fs, j) + (IF fs[j + 1][1] # "squeeze" THEN 1 ELSE 0)
      BY <1>1, <3>1, EntriesGrow
    <3> QED
      BY <3>1, <3>2 DEF Carried
  <2>4. stream[Entries(fs, i)] = fs[i][2]
    BY DEF Carries
  <2>5. Entries(fs, i) \in 1..Len(stream)
    <3>1. Len(stream) \in Nat /\ Entries(fs, Len(fs)) \in Nat
      BY <1>1, EntriesGrow
    <3> QED
      BY <2>2, <2>3, <3>1
  <2>6. Append(stream, x)[Entries(fs, i)] = stream[Entries(fs, i)]
    BY <2>5, <1>1, AppendProperties
  <2> QED
    BY <2>4, <2>6
<1>3. Entries(fs, Len(fs)) <= Len(Append(stream, x))
  <2>1. Entries(fs, Len(fs)) \in Nat
    BY <1>1, EntriesGrow
  <2> QED
    BY <2>1, <1>1 DEF Carries
<1> QED
  BY <1>1, <1>2, <1>3 DEF Carries

(* One chain carries one stream.                                           *)
LEMMA OneChainOneStream ==
  ASSUME NEW fs, NEW s, NEW t, Carries(fs, s), Carries(fs, t),
         Len(s) = Entries(fs, Len(fs)), Len(t) = Entries(fs, Len(fs))
  PROVE  s = t
<1>1. \A k \in 1..Len(s) : s[k] = t[k]
  <2> TAKE k \in 1..Len(s)
  <2>1. PICK i \in Carried(fs) : Entries(fs, i) = k
    BY DEF Carries
  <2> QED
    BY <2>1 DEF Carries
<1>2. s \in Seq(Scalars) /\ t \in Seq(Scalars)
  BY DEF Carries
<1> QED
  BY <1>1, <1>2, SeqEqual

-----------------------------------------------------------------------------
(* What a chain says of an op, a longer chain says too.                    *)
LEMMA SaysStays ==
  ASSUME NEW cl, NEW o \in OpSet, NEW fs \in Seq(BlockSet), NEW g \in Seq(BlockSet), Extends(g, fs),
         NEW at \in Nat, at + Width(o) <= Len(fs), NEW x
  PROVE  Says(cl, o, fs, at, x) <=> Says(cl, o, g, at, x)
<1>1. at + 1 \in 1..Len(fs) /\ g[at + 1] = fs[at + 1]
  BY EntriesOfPrefix DEF Width
<1>2. o.op = "root" => g[at + 2] = fs[at + 2]
  BY EntriesOfPrefix DEF Width
<1>3. SubSeq(g, 1, at) = SubSeq(fs, 1, at)
  <2>1. SubSeq(fs, 1, at) \in Seq(BlockSet) /\ SubSeq(g, 1, at) \in Seq(BlockSet)
    BY <1>1 DEF Extends
  <2>2. Len(SubSeq(fs, 1, at)) = at /\ Len(SubSeq(g, 1, at)) = at
    BY <1>1 DEF Extends
  <2>3. \A i \in 1..at : SubSeq(g, 1, at)[i] = SubSeq(fs, 1, at)[i]
    BY <1>1, EntriesOfPrefix DEF Extends
  <2> QED
    BY <2>1, <2>2, <2>3, SeqEqual
<1> QED
  BY <1>1, <1>2, <1>3 DEF Says

(* One op more.                                                            *)
LEMMA TranscribesGrows ==
  ASSUME NEW cl, NEW ops, NEW fs, NEW xs, Transcribes(cl, ops, fs, xs), Len(xs) < Len(ops),
         NEW g \in Seq(BlockSet), Extends(g, fs), Len(g) = Len(fs) + Width(ops[Len(xs) + 1]),
         NEW x \in Results, Says(cl, ops[Len(xs) + 1], g, Len(fs), x)
  PROVE  Transcribes(cl, ops, g, Append(xs, x))
<1> DEFINE n == Len(xs)
<1>1. ops \in Seq(OpSet) /\ fs \in Seq(BlockSet) /\ xs \in Seq(Results) /\ n \in Nat /\ n < Len(ops) /\ Len(fs) = At(ops, n)
  BY DEF Transcribes
<1>2. Append(xs, x) \in Seq(Results) /\ Len(Append(xs, x)) = n + 1
  BY <1>1
<1>3. Len(g) = At(ops, n + 1)
  BY <1>1, AtGrows
<1>4. ASSUME NEW i \in 1..(n + 1)
      PROVE  Says(cl, ops[i], g, At(ops, i - 1), Append(xs, x)[i])
  <2>1. CASE i = n + 1
    BY <2>1, <1>1
  <2>2. CASE i \in 1..n
    <3>1. At(ops, i - 1) \in Nat /\ At(ops, i) \in Nat /\ At(ops, (i - 1) + 1) = At(ops, i - 1) + Width(ops[(i - 1) + 1])
      BY <1>1, <2>2, AtGrows
    <3>2. At(ops, i) <= At(ops, n)
      BY <1>1, <2>2, AtGrows
    <3>3. Says(cl, ops[i], fs, At(ops, i - 1), xs[i])
      BY <1>1, <2>2 DEF Transcribes
    <3>4. ops[i] \in OpSet /\ At(ops, i - 1) + Width(ops[i]) <= Len(fs)
      BY <1>1, <2>2, <3>1, <3>2 DEF Width
    <3>5. Says(cl, ops[i], g, At(ops, i - 1), xs[i])
      BY <1>1, <3>1, <3>3, <3>4, SaysStays
    <3> QED
      BY <3>5, <1>1, <2>2
  <2> QED
    BY <2>1, <2>2, <1>1
<1> QED
  BY <1>1, <1>2, <1>3, <1>4 DEF Transcribes

(* One chain tells one run of the ops.                                     *)
LEMMA OneChainOneRun ==
  ASSUME NEW cl, NEW ops, NEW fs, NEW xs, NEW ys, Transcribes(cl, ops, fs, xs), Transcribes(cl, ops, fs, ys),
         Len(xs) = Len(ys)
  PROVE  xs = ys
<1>1. ops \in Seq(OpSet) /\ xs \in Seq(Results) /\ ys \in Seq(Results) /\ Len(xs) <= Len(ops)
  BY DEF Transcribes
<1>2. ASSUME NEW i \in 1..Len(xs) PROVE xs[i] = ys[i]
  <2>1. Says(cl, ops[i], fs, At(ops, i - 1), xs[i]) /\ Says(cl, ops[i], fs, At(ops, i - 1), ys[i]) /\ ops[i] \in OpSet
    <3>1. i \in DOMAIN xs /\ i \in DOMAIN ys /\ i \in DOMAIN ops
      BY <1>1
    <3>2. \A j \in DOMAIN xs : Says(cl, ops[j], fs, At(ops, j - 1), xs[j])
      BY DEF Transcribes
    <3>3. \A j \in DOMAIN ys : Says(cl, ops[j], fs, At(ops, j - 1), ys[j])
      BY DEF Transcribes
    <3> QED
      BY <1>1, <3>1, <3>2, <3>3
  <2>2. CASE ops[i].op = "scalar"
    BY <2>1, <2>2 DEF Says
  <2>3. CASE ops[i].op = "root"
    BY <2>1, <2>3 DEF Says, Canonical
  <2>4. CASE ops[i].op = "sample"
    BY <2>1, <2>4 DEF Says
  <2>5. CASE ops[i].op = "grind"
    BY <2>1, <2>5 DEF Says
  <2> QED
    BY <2>1, <2>2, <2>3, <2>4, <2>5 DEF OpSet
<1> QED
  BY <1>1, <1>2, SeqEqual

-----------------------------------------------------------------------------
(* What a chain has left of a stream: the next scalar is at its head.      *)
Rest(fs, stream) == SubSeq(stream, Entries(fs, Len(fs)) + 1, Len(stream))

(* The rest is empty exactly when the chain carries the whole stream;      *)
(* otherwise its head is the first scalar not carried.                     *)
LEMMA RestIsNext ==
  ASSUME NEW fs, NEW stream, Carries(fs, stream)
  PROVE  /\ Entries(fs, Len(fs)) \in Nat /\ Rest(fs, stream) \in Seq(Scalars)
         /\ Rest(fs, stream) = <<>> <=> Entries(fs, Len(fs)) = Len(stream)
         /\ Rest(fs, stream) # <<>> =>
              /\ Entries(fs, Len(fs)) < Len(stream)
              /\ stream[Entries(fs, Len(fs)) + 1] \in Scalars
              /\ Head(Rest(fs, stream)) = stream[Entries(fs, Len(fs)) + 1]
              /\ Tail(Rest(fs, stream)) = SubSeq(stream, Entries(fs, Len(fs)) + 2, Len(stream))
<1> DEFINE n == Entries(fs, Len(fs))
<1>1. fs \in Seq(BlockSet) /\ stream \in Seq(Scalars) /\ n <= Len(stream) /\ Len(stream) \in Nat
  BY DEF Carries
<1>2. n \in Nat
  BY <1>1, EntriesGrow
<1>3. Rest(fs, stream) = SubSeq(stream, n + 1, Len(stream))
  BY DEF Rest
<1> HIDE DEF n
<1>4. \A i \in (n + 1)..Len(stream) : stream[i] \in Scalars
  BY <1>1, <1>2
<1>5. /\ SubSeq(stream, n + 1, Len(stream)) \in Seq(Scalars)
      /\ Len(SubSeq(stream, n + 1, Len(stream))) = Len(stream) - n
  BY <1>1, <1>2, <1>4, SubSeqProperties
<1>6. CASE n = Len(stream)
  <2>1. Rest(fs, stream) = <<>>
    BY <1>1, <1>2, <1>3, <1>6, SubSeqEmpty
  <2> QED
    BY <2>1, <1>2, <1>3, <1>5, <1>6 DEF n
<1>7. CASE n < Len(stream)
  <2>1. Rest(fs, stream) # <<>>
    <3>1. Len(Rest(fs, stream)) # 0
      BY <1>1, <1>2, <1>3, <1>5, <1>7
    <3> QED
      BY <3>1, EmptySeq
  <2>2. n + 1 \in 1..Len(stream) /\ Len(stream) \in (n + 1)..Len(stream) /\ stream[n + 1] \in Scalars
    BY <1>1, <1>2, <1>7
  <2>3. /\ Head(SubSeq(stream, n + 1, Len(stream))) = stream[n + 1]
        /\ Tail(SubSeq(stream, n + 1, Len(stream))) = SubSeq(stream, (n + 1) + 1, Len(stream))
    BY <1>1, <2>2, HeadTailOfSubSeq
  <2>4. (n + 1) + 1 = n + 2
    BY <1>2
  <2>5. Rest(fs, stream) \in Seq(Scalars) /\ ~(n = Len(stream))
    BY <1>1, <1>2, <1>3, <1>5, <1>7
  <2>6. /\ Head(Rest(fs, stream)) = stream[n + 1]
        /\ Tail(Rest(fs, stream)) = SubSeq(stream, n + 2, Len(stream))
    BY <2>3, <2>4, <1>3
  <2> QED
    BY <2>1, <2>2, <2>5, <2>6, <1>2, <1>7 DEF n
<1>8. n = Len(stream) \/ n < Len(stream)
  BY <1>1, <1>2
<1> QED
  BY <1>6, <1>7, <1>8

(* The scalar at the head is what the next block carries.                  *)
LEMMA TakeCarries ==
  ASSUME NEW fs, NEW stream, Carries(fs, stream), Rest(fs, stream) # <<>>, NEW tag \in {"observe", "nonce"},
         NEW g, g = Append(fs, <<tag, Head(Rest(fs, stream))>>)
  PROVE  Carries(g, stream) /\ Rest(g, stream) = Tail(Rest(fs, stream))
<1> DEFINE n == Entries(fs, Len(fs))
           x == Head(Rest(fs, stream))
           b == <<tag, x>>
<1>1. n \in Nat /\ n < Len(stream) /\ x = stream[n + 1] /\ x \in Scalars
      /\ Tail(Rest(fs, stream)) = SubSeq(stream, n + 2, Len(stream))
  BY RestIsNext
<1>2. fs \in Seq(BlockSet)
  BY DEF Carries
<1>3. b \in BlockSet /\ b[1] # "squeeze" /\ b[2] = x
  BY <1>1 DEF BlockSet
<1>4. Len(g) = Len(fs) + 1
  BY <1>2, <1>3
<1>5. /\ Carries(g, stream)
      /\ Entries(g, Len(fs) + 1) = n + (IF b[1] # "squeeze" THEN 1 ELSE 0)
  <2>1. g = Append(fs, b)
    OBVIOUS
  <2> HIDE DEF b
  <2> QED
    BY <2>1, <1>1, <1>3, AbsorbCarries
<1>6. Entries(g, Len(g)) = n + 1
  BY <1>3, <1>4, <1>5
<1>7. Entries(g, Len(g)) + 1 = n + 2
  BY <1>6, <1>1
<1> QED
  BY <1>1, <1>5, <1>7 DEF Rest

(* A challenge takes nothing.                                              *)
LEMMA SqueezeCarries ==
  ASSUME NEW fs, NEW stream, Carries(fs, stream), NEW g, g = Append(fs, <<"squeeze", 0>>)
  PROVE  Carries(g, stream) /\ Rest(g, stream) = Rest(fs, stream)
<1> DEFINE b == <<"squeeze", 0>>
<1>1. b \in BlockSet /\ b[1] = "squeeze"
  BY ScalarAssumption DEF BlockSet
<1>2. fs \in Seq(BlockSet)
  BY DEF Carries
<1>3. Len(g) = Len(fs) + 1 /\ Entries(fs, Len(fs)) \in Nat
  BY <1>1, <1>2, EntriesGrow
<1>4. /\ Carries(g, stream)
      /\ Entries(g, Len(fs) + 1) = Entries(fs, Len(fs)) + (IF b[1] # "squeeze" THEN 1 ELSE 0)
  <2>1. g = Append(fs, b)
    OBVIOUS
  <2> HIDE DEF b
  <2> QED
    BY <2>1, <1>1, AbsorbCarries
<1>5. Entries(g, Len(g)) = Entries(fs, Len(fs))
  BY <1>1, <1>3, <1>4
<1> QED
  BY <1>4, <1>5 DEF Rest

-----------------------------------------------------------------------------
(* A reader that has run its first ops on a stream without a throw.        *)
Reads(cl, ops, r, stream) ==
  /\ r \in Readers /\ r.error = "none"
  /\ Transcribes(cl, ops, r.fs, r.got) /\ Carries(r.fs, stream)
  /\ r.stream = Rest(r.fs, stream)

Kept(q, r) == q.merkle = r.merkle /\ q.rows = r.rows

(* One block taken off the stream.                                         *)
Takes(q, r, tag) ==
  /\ q \in Readers /\ q.error = "none" /\ Kept(q, r) /\ q.got = r.got
  /\ q.fs = Append(r.fs, <<tag, Head(r.stream)>>) /\ q.stream = Tail(r.stream)

(* Taking a scalar: an empty stream throws, otherwise it is observed and   *)
(* gone from the stream.                                                   *)
LEMMA TakeScalar ==
  ASSUME NEW r \in Readers, r.error = "none"
  PROVE  /\ takeScalar(r) \in Readers
         /\ r.stream = <<>> => takeScalar(r) = takeRaw(r) /\ Failed(takeScalar(r))
         /\ r.stream # <<>> => Takes(takeScalar(r), r, "observe")
<1>1. CASE r.stream = <<>>
  BY <1>1 DEF takeScalar, takeRaw, Throw, Failed, Readers
<1>2. CASE r.stream # <<>>
  <2>1. r.stream \in Seq(Scalars) /\ r.fs \in Seq(BlockSet) /\ r.asked \in Seq(Queries)
    BY DEF Readers
  <2>2. Head(r.stream) \in Scalars /\ Tail(r.stream) \in Seq(Scalars) /\ Head(r.stream) \in Nat
    BY <1>2, <2>1, HeadTailProperties, ScalarAssumption
  <2>3. <<"observe", Head(r.stream)>> \in BlockSet /\ <<r.fs, "observe", Head(r.stream)>> \in Queries
    BY <2>1, <2>2 DEF BlockSet, Queries
  <2>4. /\ Append(r.fs, <<"observe", Head(r.stream)>>) \in Seq(BlockSet)
        /\ Append(r.asked, <<r.fs, "observe", Head(r.stream)>>) \in Seq(Queries)
    BY <2>1, <2>3, AppendProperties
  <2>5. takeRaw(r) = [r EXCEPT !.stream = Tail(r.stream)] /\ ~Failed(takeRaw(r))
    BY <1>2 DEF takeRaw, Readers, Failed
  <2>6. takeScalar(r) = [r EXCEPT !.stream = Tail(r.stream),
                                  !.fs = Append(r.fs, <<"observe", Head(r.stream)>>),
                                  !.asked = Append(r.asked, <<r.fs, "observe", Head(r.stream)>>)]
    BY <2>5 DEF takeScalar, observe, Absorb, Readers
  <2> QED
    BY <1>2, <2>2, <2>4, <2>6 DEF Readers, Takes, Kept
<1> QED
  BY <1>1, <1>2

(* A typed reader's parts.                                                 *)
LEMMA ReaderParts ==
  ASSUME NEW r \in Readers
  PROVE  /\ r.fs \in Seq(BlockSet) /\ r.stream \in Seq(Scalars) /\ r.merkle \in Seq(Hints)
         /\ r.got \in Seq(Results) /\ r.rows \in Seq(Hints) /\ r.asked \in Seq(Queries)
BY DEF Readers

(* A reader that keeps its openings: none but the last stage touches them. *)
GoesOn(cl, ops, q, r, stream) ==
  /\ Reads(cl, ops, q, stream) /\ Kept(q, r) /\ Len(q.got) = Len(r.got) + 1

(* A scalar op goes on by one block, or fails on an empty stream.          *)
LEMMA ReadsScalar ==
  ASSUME NEW cl, NEW ops, NEW r, NEW stream, Reads(cl, ops, r, stream),
         Len(r.got) < Len(ops), ops[Len(r.got) + 1].op = "scalar", NEW q, q = nextScalar(r)
  PROVE  /\ q \in Readers
         /\ ~Failed(q) => /\ GoesOn(cl, ops, q, r, stream)
                          /\ q.fs = Append(r.fs, <<"observe", Head(r.stream)>>)
                          /\ q.got = Append(r.got, Head(r.stream))
         /\ r.stream # <<>> => ~Failed(q)
         /\ r.stream = <<>> => Failed(q)
<1> DEFINE x == Head(r.stream)
<1>1. r \in Readers /\ r.error = "none" /\ Transcribes(cl, ops, r.fs, r.got) /\ Carries(r.fs, stream)
      /\ r.stream = Rest(r.fs, stream)
  BY DEF Reads
<1>2. CASE r.stream = <<>>
  <2>1. takeScalar(r) \in Readers /\ Failed(takeScalar(r))
    BY <1>1, <1>2, TakeScalar
  <2>2. q = takeScalar(r)
    BY <2>1 DEF nextScalar, Got
  <2> QED
    BY <2>1, <2>2, <1>2
<1>3. CASE r.stream # <<>>
  <2>1. Takes(takeScalar(r), r, "observe")
    BY <1>1, <1>3, TakeScalar
  <2>2. x \in Scalars /\ x \in Results
    BY <1>1, <1>3, ReaderParts, HeadTailProperties DEF Results
  <2>3. /\ q = [takeScalar(r) EXCEPT !.got = Append(r.got, x)]
        /\ ~Failed(takeScalar(r))
    BY <2>1 DEF nextScalar, Got, Failed, Takes, Readers
  <2>4. Append(r.got, x) \in Seq(Results) /\ Len(Append(r.got, x)) = Len(r.got) + 1
    BY <1>1, <2>2, ReaderParts, AppendProperties
  <2>5. /\ q \in Readers /\ q.error = "none" /\ Kept(q, r) /\ q.got = Append(r.got, x)
        /\ q.fs = Append(r.fs, <<"observe", x>>) /\ q.stream = Tail(r.stream)
    BY <2>1, <2>3, <2>4 DEF Takes, Kept, Readers
  <2>6. Carries(q.fs, stream) /\ q.stream = Rest(q.fs, stream)
    <3>1. /\ q.fs = Append(r.fs, <<"observe", Head(Rest(r.fs, stream))>>) /\ Rest(r.fs, stream) # <<>>
          /\ Carries(r.fs, stream)
      BY <1>1, <1>3, <2>5
    <3>2. Carries(q.fs, stream) /\ Rest(q.fs, stream) = Tail(Rest(r.fs, stream))
      BY <3>1, TakeCarries
    <3> QED
      BY <3>2, <1>1, <2>5
  <2>7. Transcribes(cl, ops, q.fs, q.got)
    <3>1. r.fs \in Seq(BlockSet) /\ <<"observe", x>> \in BlockSet /\ q.fs \in Seq(BlockSet)
      BY <1>1, <2>2, <2>5, ReaderParts DEF BlockSet
    <3>2. Extends(q.fs, r.fs) /\ Len(q.fs) = Len(r.fs) + 1 /\ q.fs[Len(r.fs) + 1] = <<"observe", x>>
      BY <2>5, <3>1 DEF Extends
    <3>3. Len(q.fs) = Len(r.fs) + Width(ops[Len(r.got) + 1]) /\ Says(cl, ops[Len(r.got) + 1], q.fs, Len(r.fs), x)
      BY <3>2 DEF Width, Says
    <3> QED
      BY <1>1, <2>2, <2>5, <3>1, <3>2, <3>3, TranscribesGrows
  <2> QED
    BY <2>4, <2>5, <2>6, <2>7, <1>3 DEF GoesOn, Reads, Failed
<1> QED
  BY <1>2, <1>3

(* A chain and a block; and two blocks.                                    *)
AddsOne(g, fs, b) == fs \in Seq(BlockSet) /\ b \in BlockSet /\ g = Append(fs, b)
LEMMA OneMore ==
  ASSUME NEW fs, NEW b, NEW g, AddsOne(g, fs, b)
  PROVE  /\ g \in Seq(BlockSet) /\ Extends(g, fs) /\ Len(g) = Len(fs) + 1 /\ g[Len(fs) + 1] = b
         /\ SubSeq(g, 1, Len(fs)) = fs
BY DEF Extends, AddsOne

AddsTwo(g, fs, a, b) ==
  fs \in Seq(BlockSet) /\ a \in BlockSet /\ b \in BlockSet /\ g = Append(Append(fs, a), b)

(* Two blocks absorbed are the chain's next two.                           *)
LEMMA TwoMore ==
  ASSUME NEW fs, NEW a, NEW b, NEW g, AddsTwo(g, fs, a, b)
  PROVE  /\ g \in Seq(BlockSet) /\ Extends(g, fs) /\ Len(g) = Len(fs) + 2 /\ g[Len(fs) + 1] = a /\ g[Len(fs) + 2] = b
<1> DEFINE h == Append(fs, a)
<1>1. /\ fs \in Seq(BlockSet) /\ h \in Seq(BlockSet) /\ Len(h) = Len(fs) + 1 /\ h[Len(fs) + 1] = a
      /\ b \in BlockSet /\ \A i \in 1..Len(fs) : h[i] = fs[i]
  BY AppendProperties DEF AddsTwo
<1>2. g = Append(h, b)
  BY DEF AddsTwo
<1> HIDE DEF h
<1>3. /\ g \in Seq(BlockSet) /\ Len(g) = Len(h) + 1 /\ g[Len(h) + 1] = b
      /\ \A i \in 1..Len(h) : g[i] = h[i]
  BY <1>1, <1>2, AppendProperties
<1>4. Len(g) = Len(fs) + 2 /\ g[Len(fs) + 1] = a /\ g[Len(fs) + 2] = b /\ \A i \in 1..Len(fs) : g[i] = fs[i]
  BY <1>1, <1>3
<1>5. SubSeq(g, 1, Len(fs)) = fs
  <2>1. SubSeq(g, 1, Len(fs)) \in Seq(BlockSet) /\ Len(SubSeq(g, 1, Len(fs))) = Len(fs)
    BY <1>1, <1>3, <1>4
  <2>2. \A i \in 1..Len(SubSeq(g, 1, Len(fs))) : SubSeq(g, 1, Len(fs))[i] = fs[i]
    BY <1>1, <1>3, <1>4
  <2> QED
    BY <1>1, <2>1, <2>2, SeqEqual
<1> QED
  BY <1>1, <1>3, <1>4, <1>5 DEF Extends

(* A root op goes on by two blocks; it fails on a short stream or on       *)
(* halves that are not canonical.                                          *)
LEMMA ReadsRoot ==
  ASSUME NEW cl, NEW ops, NEW r, NEW stream, Reads(cl, ops, r, stream),
         Len(r.got) < Len(ops), ops[Len(r.got) + 1].op = "root", NEW q, q = nextRoot(r)
  PROVE  /\ q \in Readers
         /\ ~Failed(q) => /\ GoesOn(cl, ops, q, r, stream)
                          /\ q.fs = Append(Append(r.fs, <<"observe", Head(r.stream)>>),
                                           <<"observe", Head(Tail(r.stream))>>)
                          /\ q.got = Append(r.got, <<Head(r.stream), Head(Tail(r.stream))>>)
         /\ /\ r.stream # <<>> /\ Tail(r.stream) # <<>>
            /\ <<Head(r.stream), Head(Tail(r.stream))>> \in Canonical
            => ~Failed(q)
<1> DEFINE first == takeScalar(r)
           both == takeScalar(first)
           x == Head(r.stream)
           y == Head(Tail(r.stream))
           d == <<r.stream[1], r.stream[2]>>
<1>1. r \in Readers /\ r.error = "none" /\ Transcribes(cl, ops, r.fs, r.got) /\ Carries(r.fs, stream)
      /\ r.stream = Rest(r.fs, stream)
  BY DEF Reads
<1>2. CASE r.stream = <<>>
  <2>1. first \in Readers /\ Failed(first)
    BY <1>1, <1>2, TakeScalar
  <2>2. q = first
    BY <2>1 DEF nextRoot
  <2> QED
    BY <2>1, <2>2, <1>2
<1>3. CASE r.stream # <<>>
  <2>1. Takes(first, r, "observe") /\ ~Failed(first) /\ first \in Readers /\ first.error = "none"
    BY <1>1, <1>3, TakeScalar DEF Takes, Failed
  <2>2. q = IF Failed(both) THEN both
            ELSE IF d[1] \in Wide \/ d[2] \in Wide THEN Throw(both, "nonCanonicalEncoding")
            ELSE Got(both, d)
    BY <2>1 DEF nextRoot
  <2>3. first.stream = Tail(r.stream) /\ first.fs = Append(r.fs, <<"observe", x>>) /\ Kept(first, r) /\ first.got = r.got
    BY <2>1 DEF Takes
  <2>4. CASE first.stream = <<>>
    <3>1. both \in Readers /\ Failed(both)
      BY <2>1, <2>4, TakeScalar
    <3> QED
      BY <3>1, <2>2, <2>3, <2>4
  <2>5. CASE first.stream # <<>>
    <3>1. Takes(both, first, "observe") /\ ~Failed(both) /\ both \in Readers /\ both.error = "none"
      BY <2>1, <2>5, TakeScalar DEF Takes, Failed
    <3>2. /\ both.fs = Append(Append(r.fs, <<"observe", x>>), <<"observe", y>>) /\ both.stream = Tail(Tail(r.stream))
          /\ Kept(both, r) /\ both.got = r.got
      BY <3>1, <2>3 DEF Takes, Kept
    <3>3. r.stream \in Seq(Scalars) /\ Tail(r.stream) # <<>>
      BY <1>1, <2>3, <2>5, ReaderParts
    <3>4. d = <<x, y>> /\ x \in Scalars /\ y \in Scalars
      BY <3>3, <1>3
    <3>5. CASE d[1] \in Wide \/ d[2] \in Wide
      <4>1. q = [both EXCEPT !.error = "nonCanonicalEncoding"]
        BY <3>1, <3>5, <2>2 DEF Throw
      <4>2. q \in Readers /\ Failed(q)
        BY <4>1, <3>1 DEF Readers, Failed
      <4> QED
        BY <4>2, <3>4, <3>5 DEF Canonical
    <3>6. CASE ~(d[1] \in Wide \/ d[2] \in Wide)
      <4>1. q = [both EXCEPT !.got = Append(r.got, d)]
        BY <3>1, <3>2, <3>6, <2>2 DEF Got, Readers
      <4>2. d \in Canonical /\ d \in Results
        BY <3>4, <3>6 DEF Canonical, Results
      <4>3. Append(r.got, d) \in Seq(Results) /\ Len(Append(r.got, d)) = Len(r.got) + 1
        BY <1>1, <4>2, ReaderParts, AppendProperties
      <4>4. /\ q \in Readers /\ q.error = "none" /\ Kept(q, r) /\ q.got = Append(r.got, d)
            /\ q.fs = both.fs /\ q.stream = both.stream
        BY <3>1, <3>2, <4>1, <4>3 DEF Kept, Readers
      <4>5. Carries(first.fs, stream) /\ first.stream = Rest(first.fs, stream)
        <5>1. /\ first.fs = Append(r.fs, <<"observe", Head(Rest(r.fs, stream))>>) /\ Rest(r.fs, stream) # <<>>
              /\ Carries(r.fs, stream)
          BY <1>1, <1>3, <2>3
        <5>2. Carries(first.fs, stream) /\ Rest(first.fs, stream) = Tail(Rest(r.fs, stream))
          BY <5>1, TakeCarries
        <5> QED
          BY <5>2, <1>1, <2>3
      <4>6. Carries(q.fs, stream) /\ q.stream = Rest(q.fs, stream)
        <5>1. /\ q.fs = Append(first.fs, <<"observe", Head(Rest(first.fs, stream))>>)
              /\ Rest(first.fs, stream) # <<>> /\ Carries(first.fs, stream)
          BY <4>4, <4>5, <3>2, <2>3, <2>5
        <5>2. Carries(q.fs, stream) /\ Rest(q.fs, stream) = Tail(Rest(first.fs, stream))
          BY <5>1, TakeCarries
        <5> QED
          BY <5>2, <4>4, <4>5, <3>2, <2>3
      <4>7. Transcribes(cl, ops, q.fs, q.got)
        <5>1. /\ r.fs \in Seq(BlockSet) /\ <<"observe", x>> \in BlockSet /\ <<"observe", y>> \in BlockSet
              /\ q.fs \in Seq(BlockSet)
          BY <1>1, <4>4, <3>4, ReaderParts DEF BlockSet
        <5>2. q.fs = Append(Append(r.fs, <<"observe", x>>), <<"observe", y>>)
          BY <3>2, <4>4
        <5>3. /\ Extends(q.fs, r.fs) /\ Len(q.fs) = Len(r.fs) + 2
              /\ q.fs[Len(r.fs) + 1] = <<"observe", x>> /\ q.fs[Len(r.fs) + 2] = <<"observe", y>>
          <6>1. AddsTwo(q.fs, r.fs, <<"observe", x>>, <<"observe", y>>)
            BY <5>1, <5>2 DEF AddsTwo
          <6> HIDE DEF x, y
          <6> QED
            BY <6>1, TwoMore
        <5>4. /\ Len(q.fs) = Len(r.fs) + Width(ops[Len(r.got) + 1])
              /\ Says(cl, ops[Len(r.got) + 1], q.fs, Len(r.fs), d)
          BY <5>3, <4>2, <3>4 DEF Width, Says
        <5> QED
          BY <1>1, <4>2, <4>4, <5>1, <5>3, <5>4, TranscribesGrows
      <4>8. ~Failed(q) /\ GoesOn(cl, ops, q, r, stream)
        BY <4>3, <4>4, <4>6, <4>7 DEF GoesOn, Reads, Failed
      <4> QED
        BY <4>4, <4>8, <3>2, <3>4
    <3> QED
      BY <3>5, <3>6
  <2> QED
    BY <2>4, <2>5
<1> QED
  BY <1>2, <1>3

(* A challenge never fails: the result is the chain it is squeezed from.   *)
LEMMA ReadsSample ==
  ASSUME NEW cl, NEW ops, NEW r, NEW stream, Reads(cl, ops, r, stream),
         Len(r.got) < Len(ops), ops[Len(r.got) + 1].op = "sample", NEW q, q = sample(r)
  PROVE  /\ q \in Readers /\ ~Failed(q) /\ GoesOn(cl, ops, q, r, stream)
         /\ q.fs = Append(r.fs, <<"squeeze", 0>>) /\ q.got = Append(r.got, r.fs)
<1>1. r \in Readers /\ r.error = "none" /\ Transcribes(cl, ops, r.fs, r.got) /\ Carries(r.fs, stream)
      /\ r.stream = Rest(r.fs, stream)
  BY DEF Reads
<1>2. r.fs \in Seq(BlockSet) /\ r.got \in Seq(Results) /\ r.asked \in Seq(Queries) /\ r.fs \in Results
  BY <1>1, ReaderParts DEF Results
<1>3. <<"squeeze", 0>> \in BlockSet /\ <<r.fs, "squeeze", 0>> \in Queries
  BY <1>2, ScalarAssumption DEF BlockSet, Queries
<1>4. /\ Append(r.fs, <<"squeeze", 0>>) \in Seq(BlockSet) /\ Append(r.asked, <<r.fs, "squeeze", 0>>) \in Seq(Queries)
      /\ Append(r.got, r.fs) \in Seq(Results) /\ Len(Append(r.got, r.fs)) = Len(r.got) + 1
  BY <1>2, <1>3, AppendProperties
<1>5. q = [r EXCEPT !.fs = Append(r.fs, <<"squeeze", 0>>), !.asked = Append(r.asked, <<r.fs, "squeeze", 0>>),
                    !.got = Append(r.got, r.fs)]
  BY <1>1 DEF sample, squeeze, Absorb, Got, Failed, Readers
<1>6. /\ q \in Readers /\ q.error = "none" /\ Kept(q, r) /\ q.stream = r.stream
      /\ q.fs = Append(r.fs, <<"squeeze", 0>>) /\ q.got = Append(r.got, r.fs)
  BY <1>1, <1>4, <1>5 DEF Readers, Kept
<1>7. Carries(q.fs, stream) /\ Rest(q.fs, stream) = Rest(r.fs, stream)
  BY <1>1, <1>6, SqueezeCarries
<1>8. Transcribes(cl, ops, q.fs, q.got)
  <2>1. /\ q.fs \in Seq(BlockSet) /\ Extends(q.fs, r.fs) /\ Len(q.fs) = Len(r.fs) + 1
        /\ q.fs[Len(r.fs) + 1] = <<"squeeze", 0>> /\ SubSeq(q.fs, 1, Len(r.fs)) = r.fs
    BY <1>2, <1>3, <1>6 DEF Extends
  <2>2. Len(q.fs) = Len(r.fs) + Width(ops[Len(r.got) + 1]) /\ Says(cl, ops[Len(r.got) + 1], q.fs, Len(r.fs), r.fs)
    BY <2>1 DEF Width, Says
  <2> QED
    BY <1>1, <1>2, <1>6, <2>1, <2>2, TranscribesGrows
<1> QED
  BY <1>1, <1>4, <1>6, <1>7, <1>8 DEF GoesOn, Reads, Failed

(* A nonce read off the stream: absorbed, and the op's result.             *)
TookNonce(q, r, x) == q.fs = Append(r.fs, <<"nonce", x>>) /\ q.got = Append(r.got, x)

(* A grinding check goes on by the nonce's block, if the nonce clears the  *)
(* chain before it.                                                        *)
LEMMA ReadsPow ==
  ASSUME NEW ops, NEW r, NEW stream, Reads(clears, ops, r, stream), Len(r.got) < Len(ops),
         NEW o, o = ops[Len(r.got) + 1], o.op = "grind", NEW q, q = checkPow(r, o.bits)
  PROVE  /\ q \in Readers
         /\ ~Failed(q) => GoesOn(clears, ops, q, r, stream) /\ TookNonce(q, r, Head(r.stream))
         /\ r.stream # <<>> /\ PowOk(r, o.bits, Head(r.stream)) => ~Failed(q)
<1> DEFINE x == Head(r.stream)
           b == <<"nonce", x>>
           tries == IF o.bits = 0 THEN <<>> ELSE <<<<r.fs, "try", x>>>>
           asked == Append(Append(r.asked, <<r.fs, "base", 0>>) \o tries, <<r.fs, "nonce", x>>)
           absorbed == [r EXCEPT !.stream = Tail(r.stream), !.fs = Append(r.fs, b), !.asked = asked]
<1>1. r \in Readers /\ r.error = "none" /\ Transcribes(clears, ops, r.fs, r.got) /\ Carries(r.fs, stream)
      /\ r.stream = Rest(r.fs, stream)
  BY DEF Reads
<1>2. CASE r.stream = <<>>
  <2>1. q = [r EXCEPT !.error = "exceededStream"] /\ Failed(takeRaw(r))
    BY <1>1, <1>2 DEF checkPow, takeRaw, Throw, Failed, Readers
  <2>2. q \in Readers /\ Failed(q)
    BY <1>1, <2>1 DEF Readers, Failed
  <2> QED
    BY <2>2, <1>2
<1>3. CASE r.stream # <<>>
  <2>1. r.fs \in Seq(BlockSet) /\ r.asked \in Seq(Queries) /\ x \in Scalars /\ x \in Nat /\ x \in Results
        /\ Tail(r.stream) \in Seq(Scalars) /\ r.got \in Seq(Results)
    BY <1>1, <1>3, ReaderParts, HeadTailProperties, ScalarAssumption DEF Results
  <2>2. b \in BlockSet
    BY <2>1 DEF BlockSet
  <2>3. asked \in Seq(Queries)
    <3>1. <<r.fs, "base", 0>> \in Queries /\ <<r.fs, "try", x>> \in Queries /\ <<r.fs, "nonce", x>> \in Queries
      BY <2>1 DEF Queries
    <3>2. tries \in Seq(Queries)
      <4>1. <<<<r.fs, "try", x>>>> \in Seq(Queries)
        BY <3>1
      <4> QED
        BY <4>1
    <3>3. Append(r.asked, <<r.fs, "base", 0>>) \in Seq(Queries)
      BY <2>1, <3>1, AppendProperties
    <3> HIDE DEF tries
    <3> QED
      BY <3>1, <3>2, <3>3, ConcatProperties, AppendProperties
  <2>4. Append(r.fs, b) \in Seq(BlockSet)
    BY <2>1, <2>2, AppendProperties
  <2>5. takeRaw(r) = [r EXCEPT !.stream = Tail(r.stream)] /\ ~Failed(takeRaw(r))
    BY <1>1, <1>3 DEF takeRaw, Readers, Failed
  <2>6. q = IF PowOk(r, o.bits, x) THEN Got(absorbed, x) ELSE Throw(absorbed, "powFailed")
    BY <1>1, <2>5 DEF checkPow, powBase, absorbNonce, Absorb, Readers
  <2> HIDE DEF asked, tries
  <2>7. /\ absorbed \in Readers /\ absorbed.error = "none" /\ Kept(absorbed, r) /\ absorbed.got = r.got
        /\ absorbed.fs = Append(r.fs, b) /\ absorbed.stream = Tail(r.stream)
    BY <1>1, <2>1, <2>3, <2>4 DEF Readers, Kept
  <2> HIDE DEF absorbed
  <2>8. CASE ~PowOk(r, o.bits, x)
    <3>1. q \in Readers /\ Failed(q)
      BY <2>6, <2>7, <2>8 DEF Throw, Readers, Failed
    <3> QED
      BY <3>1, <2>8
  <2>9. CASE PowOk(r, o.bits, x)
    <3>1. q = [absorbed EXCEPT !.got = Append(r.got, x)]
      BY <2>6, <2>7, <2>9 DEF Got, Failed, Readers
    <3>2. Append(r.got, x) \in Seq(Results) /\ Len(Append(r.got, x)) = Len(r.got) + 1
      BY <2>1, AppendProperties
    <3>3. /\ q \in Readers /\ q.error = "none" /\ Kept(q, r) /\ q.got = Append(r.got, x)
          /\ q.fs = Append(r.fs, b) /\ q.stream = Tail(r.stream)
      BY <2>7, <3>1, <3>2 DEF Kept, Readers
    <3>4. Carries(q.fs, stream) /\ q.stream = Rest(q.fs, stream)
      <4>1. /\ q.fs = Append(r.fs, <<"nonce", Head(Rest(r.fs, stream))>>) /\ Rest(r.fs, stream) # <<>>
            /\ Carries(r.fs, stream)
        BY <1>1, <1>3, <3>3
      <4>2. Carries(q.fs, stream) /\ Rest(q.fs, stream) = Tail(Rest(r.fs, stream))
        BY <4>1, TakeCarries
      <4> QED
        BY <4>2, <1>1, <3>3
    <3>5. Transcribes(clears, ops, q.fs, q.got)
      <4>1. /\ q.fs \in Seq(BlockSet) /\ Extends(q.fs, r.fs) /\ Len(q.fs) = Len(r.fs) + 1
            /\ q.fs[Len(r.fs) + 1] = b /\ SubSeq(q.fs, 1, Len(r.fs)) = r.fs
        <5> HIDE DEF b
        <5>1. AddsOne(q.fs, r.fs, b)
          BY <2>1, <2>2, <3>3 DEF AddsOne
        <5> QED
          BY <5>1, OneMore
      <4>2. IF o.bits = 0 THEN x = 0 ELSE x \in clears[Weight(SubSeq(q.fs, 1, Len(r.fs))) % 2]
        BY <4>1, <2>9 DEF PowOk, lowBitsZero
      <4>3. Len(q.fs) = Len(r.fs) + Width(o) /\ Says(clears, o, q.fs, Len(r.fs), x)
        BY <4>1, <4>2 DEF Width, Says
      <4> QED
        BY <1>1, <2>1, <3>3, <4>1, <4>3, TranscribesGrows
    <3> QED
      BY <3>2, <3>3, <3>4, <3>5 DEF GoesOn, Reads, Failed, TookNonce
  <2> QED
    BY <2>8, <2>9
<1> QED
  BY <1>2, <1>3

-----------------------------------------------------------------------------
(* A nonempty set of naturals has a least element.                         *)
LessThan == {ss \in Nat \X Nat : ss[1] < ss[2]}

(* Well-foundedness, put as a minimum.                                     *)
LEMMA LeastExists ==
  ASSUME NEW S \in SUBSET Nat, S # {}
  PROVE  \E i \in S : \A j \in S : i <= j
<1>1. OpToRel(<, Nat) = LessThan
  BY DEF OpToRel, LessThan
<1>2. IsWellFoundedOn(LessThan, Nat)
  BY ONLY <1>1, NatLessThanWellFounded
<1>3. PICK i \in S : \A j \in S : <<j, i>> \notin LessThan
  BY <1>2, WFMin
<1>4. \A j \in S : ~(j < i)
  BY <1>3 DEF LessThan
<1> QED
  BY <1>4

(* What was sent is what the chain carries.                                *)
CarriesAll(fs, stream) == Carries(fs, stream) /\ Entries(fs, Len(fs)) = Len(stream)

(* A writer that has run its first ops.  What it tells of a scalar or of a *)
(* root is the prover's message.                                           *)
Writes(cl, ops, m, w) ==
  /\ w \in Writers
  /\ Transcribes(cl, ops, w.fs, w.told) /\ CarriesAll(w.fs, w.stream)
  /\ \A i \in DOMAIN w.told : ops[i].op \in {"scalar", "root"} => w.told[i] = m[i]

(* A typed writer's parts.                                                 *)
LEMMA WriterParts ==
  ASSUME NEW w \in Writers
  PROVE  /\ w.fs \in Seq(BlockSet) /\ w.stream \in Seq(Scalars) /\ w.merkle \in Seq(Hints)
         /\ w.told \in Seq(Results) /\ w.asked \in Seq(Queries)
BY DEF Writers

(* A scalar absorbed and sent.                                             *)
Sends(g, t, fs, stream, tag, x) ==
  /\ CarriesAll(fs, stream) /\ x \in Scalars /\ tag \in {"observe", "nonce"}
  /\ g = Append(fs, <<tag, x>>) /\ t = Append(stream, x)

(* The chain that absorbs what is sent carries all that was sent.          *)
LEMMA SendCarries ==
  ASSUME NEW fs, NEW stream, NEW x, NEW tag, NEW g, NEW t, Sends(g, t, fs, stream, tag, x)
  PROVE  CarriesAll(g, t)
<1> DEFINE b == <<tag, x>>
<1>1. Carries(fs, stream) /\ Entries(fs, Len(fs)) = Len(stream) /\ x \in Scalars /\ t = Append(stream, x)
  BY DEF Sends, CarriesAll
<1>2. fs \in Seq(BlockSet) /\ stream \in Seq(Scalars) /\ b \in BlockSet /\ b[1] # "squeeze" /\ b[2] = x /\ g = Append(fs, b)
  BY <1>1 DEF Carries, BlockSet, Sends
<1> HIDE DEF b
<1>3. Carries(fs, t)
  BY <1>1, StreamGrows
<1>4. Len(t) = Len(stream) + 1 /\ t[Len(stream) + 1] = x /\ Len(stream) \in Nat
  BY <1>1, <1>2, AppendProperties
<1>5. Entries(fs, Len(fs)) < Len(t) /\ t[Entries(fs, Len(fs)) + 1] = b[2]
  BY <1>1, <1>2, <1>4
<1>6. Carries(g, t) /\ Entries(g, Len(fs) + 1) = Entries(fs, Len(fs)) + (IF b[1] # "squeeze" THEN 1 ELSE 0)
  BY <1>2, <1>3, <1>5, AbsorbCarries
<1>7. Len(g) = Len(fs) + 1
  BY <1>2, AppendProperties
<1> QED
  BY <1>1, <1>2, <1>4, <1>6, <1>7 DEF CarriesAll

(* The writer's state after one op more.                                   *)
WroteOne(cl, ops, m, w, q, x) ==
  /\ Writes(cl, ops, m, w) /\ Len(w.told) < Len(ops) /\ q \in Writers /\ x \in Results
  /\ q.told = Append(w.told, x) /\ Extends(q.fs, w.fs) /\ Len(q.fs) = Len(w.fs) + Width(ops[Len(w.told) + 1])
  /\ Says(cl, ops[Len(w.told) + 1], q.fs, Len(w.fs), x)
  /\ ops[Len(w.told) + 1].op \in {"scalar", "root"} => x = m[Len(w.told) + 1]
  /\ CarriesAll(q.fs, q.stream)

(* A writer that adds what its op says has written one op more.            *)
LEMMA WritesOne ==
  ASSUME NEW cl, NEW ops, NEW m, NEW w, NEW q, NEW x, WroteOne(cl, ops, m, w, q, x)
  PROVE  Writes(cl, ops, m, q) /\ Len(q.told) = Len(w.told) + 1
<1>1. /\ Transcribes(cl, ops, w.fs, w.told) /\ w.told \in Seq(Results) /\ q.fs \in Seq(BlockSet)
      /\ x \in Results /\ q.told = Append(w.told, x)
      /\ ops[Len(w.told) + 1].op \in {"scalar", "root"} => x = m[Len(w.told) + 1]
  BY WriterParts DEF Writes, WroteOne
<1>2. Transcribes(cl, ops, q.fs, q.told)
  BY <1>1, TranscribesGrows DEF WroteOne
<1>3. /\ Len(q.told) = Len(w.told) + 1
      /\ \A i \in DOMAIN q.told : i = Len(w.told) + 1 \/ (i \in DOMAIN w.told /\ q.told[i] = w.told[i])
  BY <1>1, AppendProperties
<1>4. q.told[Len(w.told) + 1] = x
  BY <1>1, AppendProperties
<1>5. \A i \in DOMAIN q.told : ops[i].op \in {"scalar", "root"} => q.told[i] = m[i]
  BY <1>1, <1>3, <1>4 DEF Writes, WroteOne
<1> QED
  BY <1>2, <1>3, <1>5 DEF Writes, WroteOne

(* A scalar added, whatever it is the scalar of.                           *)
AddsScalar(q, w, x) == w \in Writers /\ CarriesAll(w.fs, w.stream) /\ x \in Scalars /\ q = addScalar(w, x)

(* The added scalar is absorbed and sent, and nothing is told yet.         *)
LEMMA AddScalar ==
  ASSUME NEW w, NEW x, NEW q, AddsScalar(q, w, x)
  PROVE  /\ q \in Writers /\ CarriesAll(q.fs, q.stream)
         /\ q.fs = Append(w.fs, <<"observe", x>>) /\ q.told = w.told
         /\ q.asked = Append(w.asked, <<w.fs, "observe", x>>)
<1> DEFINE b == <<"observe", x>>
           a == <<w.fs, "observe", x>>
<1>1. w \in Writers /\ CarriesAll(w.fs, w.stream) /\ x \in Scalars /\ q = addScalar(w, x)
  BY DEF AddsScalar
<1>2. w.fs \in Seq(BlockSet) /\ w.stream \in Seq(Scalars) /\ w.asked \in Seq(Queries)
  BY <1>1, WriterParts
<1>3. b \in BlockSet /\ a \in Queries
  BY <1>1, <1>2, ScalarAssumption DEF BlockSet, Queries
<1>4. q = [w EXCEPT !.fs = Append(w.fs, b), !.asked = Append(w.asked, a), !.stream = Append(w.stream, x)]
  BY <1>1 DEF addScalar, observe, Absorb, Writers
<1>5. /\ Append(w.fs, b) \in Seq(BlockSet) /\ Append(w.asked, a) \in Seq(Queries)
      /\ Append(w.stream, x) \in Seq(Scalars)
  BY <1>1, <1>2, <1>3, AppendProperties
<1>6. /\ q \in Writers /\ q.fs = Append(w.fs, b) /\ q.stream = Append(w.stream, x) /\ q.told = w.told
      /\ q.asked = Append(w.asked, a)
  BY <1>1, <1>4, <1>5 DEF Writers
<1>7. Sends(q.fs, q.stream, w.fs, w.stream, "observe", x)
  BY <1>1, <1>6 DEF Sends
<1> QED
  BY <1>6, <1>7, SendCarries

(* The result told.                                                        *)
LEMMA TellsIt ==
  ASSUME NEW w \in Writers, NEW x \in Results
  PROVE  /\ Told(w, x) \in Writers /\ Told(w, x).fs = w.fs /\ Told(w, x).stream = w.stream
         /\ Told(w, x).told = Append(w.told, x) /\ Told(w, x).asked = w.asked
<1>1. Append(w.told, x) \in Seq(Results)
  BY WriterParts, AppendProperties
<1> QED
  BY <1>1 DEF Told, Writers

(* The writer's scalar op.                                                 *)
LEMMA WritesScalar ==
  ASSUME NEW cl, NEW ops, NEW m, NEW w, Writes(cl, ops, m, w), Len(w.told) < Len(ops),
         ops[Len(w.told) + 1].op = "scalar", NEW x \in Scalars, x = m[Len(w.told) + 1],
         NEW q, q = Told(addScalar(w, x), x)
  PROVE  Writes(cl, ops, m, q) /\ Len(q.told) = Len(w.told) + 1
<1> DEFINE b == <<"observe", x>>
           v == addScalar(w, x)
<1>1. w \in Writers /\ w.fs \in Seq(BlockSet) /\ CarriesAll(w.fs, w.stream) /\ x \in Results /\ b \in BlockSet
  BY WriterParts DEF Writes, Results, BlockSet
<1>2. v \in Writers /\ CarriesAll(v.fs, v.stream) /\ v.fs = Append(w.fs, b) /\ v.told = w.told
  <2>1. AddsScalar(v, w, x)
    BY <1>1 DEF AddsScalar
  <2> QED
    BY <2>1, AddScalar
<1> HIDE DEF b, v
<1>3. q \in Writers /\ CarriesAll(q.fs, q.stream) /\ q.fs = Append(w.fs, b) /\ q.told = Append(w.told, x)
  <2>1. q = Told(v, x)
    BY DEF v
  <2>2. /\ Told(v, x) \in Writers /\ Told(v, x).fs = v.fs /\ Told(v, x).stream = v.stream
        /\ Told(v, x).told = Append(v.told, x)
    BY <1>1, <1>2, TellsIt
  <2> QED
    BY <2>1, <2>2, <1>2
<1>4. Extends(q.fs, w.fs) /\ Len(q.fs) = Len(w.fs) + 1 /\ q.fs[Len(w.fs) + 1] = b
  <2>1. AddsOne(q.fs, w.fs, b)
    BY <1>1, <1>3 DEF AddsOne
  <2> QED
    BY <2>1, OneMore
<1>5. /\ Len(q.fs) = Len(w.fs) + Width(ops[Len(w.told) + 1])
      /\ Says(cl, ops[Len(w.told) + 1], q.fs, Len(w.fs), x)
  BY <1>4 DEF Width, Says, b
<1>6. WroteOne(cl, ops, m, w, q, x)
  BY <1>1, <1>3, <1>4, <1>5 DEF WroteOne
<1> QED
  BY <1>6, WritesOne

(* The writer's root op: both halves, and one result.                      *)
LEMMA WritesRoot ==
  ASSUME NEW cl, NEW ops, NEW m, NEW w, Writes(cl, ops, m, w), Len(w.told) < Len(ops),
         ops[Len(w.told) + 1].op = "root", NEW d \in Canonical, d = m[Len(w.told) + 1],
         NEW q, q = Told(addRoot(w, d), d)
  PROVE  Writes(cl, ops, m, q) /\ Len(q.told) = Len(w.told) + 1
<1> DEFINE b == <<"observe", d[1]>>
           c == <<"observe", d[2]>>
           u == addScalar(w, d[1])
           v == addScalar(u, d[2])
<1>1. /\ w \in Writers /\ w.fs \in Seq(BlockSet) /\ CarriesAll(w.fs, w.stream)
      /\ d[1] \in Scalars /\ d[2] \in Scalars /\ d \in Results
  BY WriterParts DEF Writes, Canonical, Results
<1>2. b \in BlockSet /\ c \in BlockSet
  BY <1>1 DEF BlockSet
<1>3. u \in Writers /\ CarriesAll(u.fs, u.stream) /\ u.fs = Append(w.fs, b) /\ u.told = w.told
  <2>1. AddsScalar(u, w, d[1])
    BY <1>1 DEF AddsScalar
  <2> QED
    BY <2>1, AddScalar
<1> HIDE DEF u
<1>4. v \in Writers /\ CarriesAll(v.fs, v.stream) /\ v.fs = Append(u.fs, c) /\ v.told = u.told
  <2>1. AddsScalar(v, u, d[2])
    BY <1>1, <1>3 DEF AddsScalar
  <2> QED
    BY <2>1, AddScalar
<1>5. q = Told(v, d)
  BY DEF addRoot, u
<1> HIDE DEF b, c, v
<1>6. /\ q \in Writers /\ CarriesAll(q.fs, q.stream) /\ q.fs = Append(Append(w.fs, b), c)
      /\ q.told = Append(w.told, d)
  <2>1. /\ Told(v, d) \in Writers /\ Told(v, d).fs = v.fs /\ Told(v, d).stream = v.stream
        /\ Told(v, d).told = Append(v.told, d)
    BY <1>1, <1>4, TellsIt
  <2> QED
    BY <2>1, <1>3, <1>4, <1>5
<1>7. /\ Extends(q.fs, w.fs) /\ Len(q.fs) = Len(w.fs) + 2
      /\ q.fs[Len(w.fs) + 1] = b /\ q.fs[Len(w.fs) + 2] = c
  <2>1. AddsTwo(q.fs, w.fs, b, c)
    BY <1>1, <1>2, <1>6 DEF AddsTwo
  <2> QED
    BY <2>1, TwoMore
<1>8. /\ Len(q.fs) = Len(w.fs) + Width(ops[Len(w.told) + 1])
      /\ Says(cl, ops[Len(w.told) + 1], q.fs, Len(w.fs), d)
  BY <1>7 DEF Width, Says, b, c
<1>9. WroteOne(cl, ops, m, w, q, d)
  BY <1>1, <1>6, <1>7, <1>8 DEF WroteOne
<1> QED
  BY <1>9, WritesOne

(* The writer's challenge: nothing is sent.                                *)
LEMMA WritesSqueeze ==
  ASSUME NEW cl, NEW ops, NEW m, NEW w, Writes(cl, ops, m, w), Len(w.told) < Len(ops),
         ops[Len(w.told) + 1].op = "sample", NEW q, q = Told(squeeze(w), w.fs)
  PROVE  Writes(cl, ops, m, q) /\ Len(q.told) = Len(w.told) + 1
<1> DEFINE b == <<"squeeze", 0>>
           a == <<w.fs, "squeeze", 0>>
<1>1. /\ w \in Writers /\ w.fs \in Seq(BlockSet) /\ w.stream \in Seq(Scalars) /\ w.told \in Seq(Results)
      /\ w.asked \in Seq(Queries) /\ Carries(w.fs, w.stream) /\ Entries(w.fs, Len(w.fs)) = Len(w.stream)
  BY WriterParts DEF Writes, CarriesAll
<1>2. b \in BlockSet /\ b[1] = "squeeze" /\ a \in Queries /\ w.fs \in Results
  BY <1>1, ScalarAssumption DEF BlockSet, Queries, Results
<1>3. q = [w EXCEPT !.fs = Append(w.fs, b), !.asked = Append(w.asked, a), !.told = Append(w.told, w.fs)]
  BY <1>1 DEF Told, squeeze, Absorb, Writers
<1>4. Append(w.fs, b) \in Seq(BlockSet) /\ Append(w.asked, a) \in Seq(Queries) /\ Append(w.told, w.fs) \in Seq(Results)
  BY <1>1, <1>2, AppendProperties
<1>5. q \in Writers /\ q.fs = Append(w.fs, b) /\ q.stream = w.stream /\ q.told = Append(w.told, w.fs)
  BY <1>1, <1>3, <1>4 DEF Writers
<1> HIDE DEF b
<1>6. /\ Carries(q.fs, q.stream)
      /\ Entries(q.fs, Len(w.fs) + 1) = Entries(w.fs, Len(w.fs)) + (IF b[1] # "squeeze" THEN 1 ELSE 0)
  BY <1>1, <1>2, <1>5, AbsorbCarries
<1>7. /\ Extends(q.fs, w.fs) /\ Len(q.fs) = Len(w.fs) + 1 /\ q.fs[Len(w.fs) + 1] = b
      /\ SubSeq(q.fs, 1, Len(w.fs)) = w.fs
  <2>1. AddsOne(q.fs, w.fs, b)
    BY <1>1, <1>2, <1>5 DEF AddsOne
  <2> QED
    BY <2>1, OneMore
<1>8. Entries(q.fs, Len(q.fs)) = Len(q.stream)
  <2>1. Entries(w.fs, Len(w.fs)) \in Nat
    BY <1>1, EntriesGrow
  <2> QED
    BY <2>1, <1>1, <1>2, <1>5, <1>6, <1>7
<1>9. /\ Len(q.fs) = Len(w.fs) + Width(ops[Len(w.told) + 1])
      /\ Says(cl, ops[Len(w.told) + 1], q.fs, Len(w.fs), w.fs)
  BY <1>7 DEF Width, Says, b
<1>10. WroteOne(cl, ops, m, w, q, w.fs)
  BY <1>2, <1>5, <1>6, <1>7, <1>8, <1>9 DEF WroteOne, CarriesAll
<1> QED
  BY <1>10, WritesOne

(* The nonce found clears, and every nonce tried is asked for.             *)
LEMMA NonceClears ==
  ASSUME NEW fs, NEW bits, Found(fs, bits), bits # 0
  PROVE  /\ findNonce(fs) \in 0..(FUEL - 1) /\ lowBitsZero(fs, findNonce(fs))
         /\ \A n \in 0..(findNonce(fs) - 1) : ~lowBitsZero(fs, n)
<1> DEFINE S == {n \in 0..(FUEL - 1) : lowBitsZero(fs, n)}
<1>1. S \in SUBSET Nat /\ S # {}
  BY FuelAssumption DEF Found
<1>2. \E i \in S : \A j \in S : i <= j
  BY <1>1, LeastExists
<1>3. findNonce(fs) \in S /\ \A n \in S : findNonce(fs) <= n
  <2> HIDE DEF S
  <2>1. Min(S) \in S /\ \A n \in S : Min(S) <= n
    BY <1>2 DEF Min
  <2>2. findNonce(fs) = Min(S)
    BY DEF findNonce, S
  <2> QED
    BY <2>1, <2>2
<1>4. ASSUME NEW n \in 0..(findNonce(fs) - 1) PROVE n \notin S
  <2>1. findNonce(fs) \in Nat /\ ~(findNonce(fs) <= n)
    BY <1>3, FuelAssumption
  <2> QED
    BY <1>3, <2>1
<1>5. \A n \in 0..(findNonce(fs) - 1) : n \in 0..(FUEL - 1)
  BY <1>3, FuelAssumption
<1> QED
  BY <1>3, <1>4, <1>5

(* The nonces tried are hashes asked for.                                  *)
LEMMA TriesAreQueries ==
  ASSUME NEW fs \in Seq(BlockSet), NEW last \in Int, last >= -1
  PROVE  Tries(fs, last) \in Seq(Queries)
<1>1. \A n \in 1..(last + 1) : <<fs, "try", n - 1>> \in Queries
  BY DEF Queries
<1>2. last + 1 \in Nat
  OBVIOUS
<1> QED
  BY <1>1, <1>2 DEF Tries

(* The writer's grind: the nonce it sends clears the chain before it.      *)
LEMMA WritesGrind ==
  ASSUME NEW ops, NEW m, NEW w, Writes(clears, ops, m, w), Len(w.told) < Len(ops),
         NEW o, o = ops[Len(w.told) + 1], o.op = "grind", Found(w.fs, o.bits), NEW q, q = grind(w, o.bits)
  PROVE  Writes(clears, ops, m, q) /\ Len(q.told) = Len(w.told) + 1
<1> DEFINE x == IF o.bits = 0 THEN 0 ELSE findNonce(w.fs)
           b == <<"nonce", x>>
           tries == IF o.bits = 0 THEN <<>> ELSE Tries(w.fs, x)
           asked == Append(Append(w.asked, <<w.fs, "base", 0>>) \o tries, <<w.fs, "nonce", x>>)
<1>1. /\ w \in Writers /\ w.fs \in Seq(BlockSet) /\ CarriesAll(w.fs, w.stream) /\ w.stream \in Seq(Scalars)
      /\ w.told \in Seq(Results) /\ w.asked \in Seq(Queries)
  BY WriterParts DEF Writes
<1>2. x \in Scalars /\ x \in Nat /\ (IF o.bits = 0 THEN x = 0 ELSE x \in clears[Weight(w.fs) % 2])
  BY NonceClears, ScalarAssumption, FuelAssumption DEF lowBitsZero
<1> HIDE DEF x
<1>3. b \in BlockSet /\ x \in Results
  BY <1>2 DEF BlockSet, Results
<1>4. asked \in Seq(Queries)
  <2>1. <<w.fs, "base", 0>> \in Queries /\ <<w.fs, "nonce", x>> \in Queries
    BY <1>1, <1>2 DEF Queries
  <2>2. tries \in Seq(Queries)
    <3>1. Tries(w.fs, x) \in Seq(Queries)
      BY <1>1, <1>2, TriesAreQueries
    <3> QED
      BY <3>1, EmptySeq
  <2> HIDE DEF tries
  <2>3. Append(w.asked, <<w.fs, "base", 0>>) \in Seq(Queries)
    BY <1>1, <2>1, AppendProperties
  <2> QED
    BY <2>1, <2>2, <2>3, ConcatProperties, AppendProperties
<1>5. Append(w.fs, b) \in Seq(BlockSet) /\ Append(w.stream, x) \in Seq(Scalars) /\ Append(w.told, x) \in Seq(Results)
  BY <1>1, <1>2, <1>3, AppendProperties
<1>6. q = [w EXCEPT !.fs = Append(w.fs, b), !.asked = asked, !.stream = Append(w.stream, x), !.told = Append(w.told, x)]
  BY <1>1 DEF grind, Told, absorbNonce, powBase, Absorb, Writers, x
<1> HIDE DEF asked, tries, b
<1>7. /\ q \in Writers /\ q.fs = Append(w.fs, b) /\ q.stream = Append(w.stream, x)
      /\ q.told = Append(w.told, x)
  BY <1>1, <1>4, <1>5, <1>6 DEF Writers
<1>8. CarriesAll(q.fs, q.stream)
  <2>1. Sends(q.fs, q.stream, w.fs, w.stream, "nonce", x)
    BY <1>1, <1>2, <1>7 DEF Sends, b
  <2> QED
    BY <2>1, SendCarries
<1>9. /\ Extends(q.fs, w.fs) /\ Len(q.fs) = Len(w.fs) + 1 /\ q.fs[Len(w.fs) + 1] = b
      /\ SubSeq(q.fs, 1, Len(w.fs)) = w.fs
  <2>1. AddsOne(q.fs, w.fs, b)
    BY <1>1, <1>3, <1>7 DEF AddsOne
  <2> QED
    BY <2>1, OneMore
<1>10. Len(q.fs) = Len(w.fs) + Width(o) /\ Says(clears, o, q.fs, Len(w.fs), x)
  BY <1>2, <1>9 DEF Width, Says, b
<1>11. WroteOne(clears, ops, m, w, q, x)
  BY <1>3, <1>7, <1>8, <1>9, <1>10 DEF WroteOne
<1> QED
  BY <1>11, WritesOne

(* Out of fuel: only what was asked changes.                               *)
LEMMA WritesGiveUp ==
  ASSUME NEW cl, NEW ops, NEW m, NEW w, Writes(cl, ops, m, w), NEW q, q = GiveUp(w)
  PROVE  Writes(cl, ops, m, q)
<1> DEFINE tries == Tries(w.fs, FUEL - 1)
           asked == Append(w.asked, <<w.fs, "base", 0>>) \o tries
<1>1. w \in Writers /\ w.fs \in Seq(BlockSet) /\ w.asked \in Seq(Queries)
  BY WriterParts DEF Writes
<1>2. asked \in Seq(Queries)
  <2>1. <<w.fs, "base", 0>> \in Queries
    BY <1>1 DEF Queries
  <2>2. tries \in Seq(Queries)
    BY <1>1, FuelAssumption, TriesAreQueries
  <2>3. Append(w.asked, <<w.fs, "base", 0>>) \in Seq(Queries)
    BY <1>1, <2>1, AppendProperties
  <2> HIDE DEF tries
  <2> QED
    BY <2>2, <2>3, ConcatProperties
<1>3. q = [w EXCEPT !.asked = asked]
  BY <1>1 DEF GiveUp, powBase, Writers
<1> HIDE DEF asked
<1>4. q \in Writers /\ q.fs = w.fs /\ q.stream = w.stream /\ q.told = w.told
  BY <1>1, <1>2, <1>3 DEF Writers
<1> QED
  BY <1>4 DEF Writes

-----------------------------------------------------------------------------
(* What comes next after a prefix.                                         *)
LEMMA ExtendsMore ==
  ASSUME NEW S, NEW g \in Seq(S), NEW fs \in Seq(S), Extends(g, fs), Len(fs) < Len(g)
  PROVE  Extends(g, Append(fs, g[Len(fs) + 1]))
<1> DEFINE n == Len(fs)
           h == Append(fs, g[n + 1])
<1>1. n \in Nat /\ Len(g) \in Nat /\ g[n + 1] \in S
  BY ElementOfSeq
<1>2. h \in Seq(S) /\ Len(h) = n + 1 /\ h[n + 1] = g[n + 1] /\ \A i \in 1..n : h[i] = fs[i]
  BY <1>1, AppendProperties
<1>3. \A i \in 1..n : fs[i] = g[i]
  BY DEF Extends
<1> HIDE DEF h, n
<1>4. /\ SubSeq(g, 1, n + 1) \in Seq(S) /\ Len(SubSeq(g, 1, n + 1)) = n + 1
      /\ \A i \in 1..(n + 1) : SubSeq(g, 1, n + 1)[i] = g[i]
  <2>1. n + 1 <= Len(g)
    BY <1>1 DEF n
  <2> QED
    BY <1>1, <2>1
<1>5. \A i \in 1..(n + 1) : SubSeq(g, 1, n + 1)[i] = h[i]
  BY <1>1, <1>2, <1>3, <1>4
<1>6. SubSeq(g, 1, n + 1) = h
  BY <1>2, <1>4, <1>5, SeqEqual
<1>7. n + 1 <= Len(g)
  BY <1>1 DEF n
<1> QED
  BY <1>2, <1>6, <1>7 DEF Extends, h, n

(* A reader on the writer's stream at a prefix of the writer's chain: the  *)
(* scalar at the head of the rest is the one the writer's next block says. *)
Behind(F, S, fs) == CarriesAll(F, S) /\ Carries(fs, S) /\ Extends(F, fs) /\ Len(fs) < Len(F)

(* The scalar such a writer's next block carries is the next of the        *)
(* stream.                                                                 *)
LEMMA NextBlock ==
  ASSUME NEW F, NEW S, NEW fs, Behind(F, S, fs)
  PROVE  /\ F[Len(fs) + 1][1] # "squeeze" => Rest(fs, S) # <<>> /\ Head(Rest(fs, S)) = F[Len(fs) + 1][2]
         /\ Extends(F, Append(fs, F[Len(fs) + 1]))
<1> DEFINE n == Len(fs)
           e == Entries(fs, n)
<1>1. CarriesAll(F, S) /\ Carries(fs, S) /\ Extends(F, fs) /\ Len(fs) < Len(F)
  BY DEF Behind
<1>2. F \in Seq(BlockSet) /\ fs \in Seq(BlockSet) /\ S \in Seq(Scalars) /\ n \in Nat /\ Len(F) \in Nat
  BY <1>1 DEF CarriesAll, Carries
<1>3. Extends(F, Append(fs, F[Len(fs) + 1]))
  BY <1>1, <1>2, ExtendsMore
<1>4. ASSUME F[n + 1][1] # "squeeze"
      PROVE  Rest(fs, S) # <<>> /\ Head(Rest(fs, S)) = F[n + 1][2]
  <2>1. Entries(F, n) = e
    BY <1>1, <1>2, EntriesOfPrefix
  <2>2. n \in 0..Len(F) /\ n < Len(F) /\ n + 1 \in 0..Len(F) /\ n + 1 \in 1..Len(F)
    BY <1>1, <1>2
  <2>3. Entries(F, n + 1) = Entries(F, n) + (IF F[n + 1][1] # "squeeze" THEN 1 ELSE 0)
    BY <1>2, <2>2, EntriesGrow
  <2>4. e \in Nat
    BY <1>2, EntriesGrow
  <2>5. Entries(F, n + 1) = e + 1
    BY <1>4, <2>1, <2>3, <2>4
  <2>6. Entries(F, n + 1) <= Entries(F, Len(F))
    <3>1. Len(F) \in 0..Len(F)
      BY <1>2
    <3>2. \A j \in 0..Len(F) : Entries(F, j) <= Entries(F, Len(F))
      BY <1>2, <3>1, EntriesGrow
    <3> QED
      BY <2>2, <3>2
  <2>7. e # Len(S)
    BY <1>1, <1>2, <2>4, <2>5, <2>6 DEF CarriesAll
  <2>8. Rest(fs, S) # <<>> /\ Head(Rest(fs, S)) = S[e + 1]
    <3> HIDE DEF e
    <3>1. Rest(fs, S) = <<>> <=> e = Len(S)
      BY <1>1, RestIsNext DEF e
    <3>2. Rest(fs, S) # <<>>
      BY <3>1, <2>7
    <3> QED
      BY <1>1, <3>2, RestIsNext DEF e
  <2>9. n + 1 \in Carried(F)
    BY <1>2, <1>4, <2>2 DEF Carried
  <2>10. S[Entries(F, n + 1)] = F[n + 1][2]
    BY <1>1, <2>9 DEF CarriesAll, Carries
  <2> QED
    BY <2>5, <2>8, <2>10
<1> QED
  BY <1>3, <1>4

-----------------------------------------------------------------------------
(* A reader at a prefix of a finished writer, on the writer's stream.      *)
Follows(cl, ops, m, w, r) ==
  /\ Writes(cl, ops, m, w) /\ Len(w.told) = Len(ops)
  /\ Reads(cl, ops, r, w.stream)
  /\ Extends(w.fs, r.fs) /\ Extends(w.told, r.got)

(* What the writer's chain says of the op the reader comes to.             *)
SaidAt(o, w, r, x) ==
  /\ o \in OpSet /\ Says(clears, o, w.fs, Len(r.fs), x) /\ Len(r.fs) + Width(o) <= Len(w.fs)
  /\ r.fs \in Seq(BlockSet) /\ Len(r.fs) \in Nat /\ Len(w.fs) \in Nat
  /\ SubSeq(w.fs, 1, Len(r.fs)) = r.fs /\ Extends(w.told, Append(r.got, x))
  /\ CarriesAll(w.fs, w.stream) /\ Carries(r.fs, w.stream) /\ Extends(w.fs, r.fs)
  /\ r.stream = Rest(r.fs, w.stream)

(* At a prefix, the writer's chain says of the next op what the writer     *)
(* told.                                                                   *)
LEMMA SaidNext ==
  ASSUME NEW ops, NEW m, NEW w, NEW r, Follows(clears, ops, m, w, r), Len(r.got) < Len(ops)
  PROVE  SaidAt(ops[Len(r.got) + 1], w, r, w.told[Len(r.got) + 1])
<1> DEFINE i == Len(r.got) + 1
           n == Len(r.got)
<1>1. /\ ops \in Seq(OpSet) /\ w.fs \in Seq(BlockSet) /\ r.fs \in Seq(BlockSet) /\ w.told \in Seq(Results)
      /\ r.got \in Seq(Results) /\ Len(w.told) = Len(ops) /\ Len(w.fs) = At(ops, Len(ops)) /\ Len(r.fs) = At(ops, n)
  BY DEF Follows, Writes, Reads, Transcribes
<1>2. n \in 0..Len(ops) /\ n < Len(ops) /\ i \in 0..Len(ops) /\ i = n + 1 /\ i \in 1..Len(ops) /\ Len(ops) \in 0..Len(ops)
      /\ i - 1 = n
  BY <1>1
<1>3. Says(clears, ops[i], w.fs, At(ops, i - 1), w.told[i]) /\ ops[i] \in OpSet
  BY <1>1, <1>2 DEF Follows, Writes, Transcribes
<1>4. At(ops, n + 1) = At(ops, n) + Width(ops[n + 1])
  BY <1>1, <1>2, AtGrows
<1>5. \A j \in 0..Len(ops) : At(ops, j) <= At(ops, Len(ops))
  BY <1>1, <1>2, AtGrows
<1>6. At(ops, i) <= At(ops, Len(ops))
  BY <1>2, <1>5
<1>7. Extends(w.told, Append(r.got, w.told[i]))
  BY <1>1, <1>2, ExtendsMore DEF Follows
<1>8. SubSeq(w.fs, 1, Len(r.fs)) = r.fs
  BY DEF Follows, Extends
<1> HIDE DEF n, i
<1>9. Len(r.fs) + Width(ops[i]) <= Len(w.fs)
  BY <1>1, <1>2, <1>4, <1>6
<1>10. Says(clears, ops[i], w.fs, Len(r.fs), w.told[i])
  BY <1>1, <1>2, <1>3
<1>11. Len(r.fs) \in Nat /\ Len(w.fs) \in Nat
  BY <1>1
<1>12. /\ CarriesAll(w.fs, w.stream) /\ Carries(r.fs, w.stream) /\ Extends(w.fs, r.fs)
       /\ r.stream = Rest(r.fs, w.stream)
  BY DEF Follows, Writes, Reads
<1> QED
  BY <1>1, <1>3, <1>7, <1>8, <1>9, <1>10, <1>11, <1>12 DEF i, SaidAt

(* It repeats the op.                                                      *)
LEMMA FollowsOne ==
  ASSUME NEW ops, NEW m, NEW w, NEW r, Follows(clears, ops, m, w, r), Len(r.got) < Len(ops),
         NEW q, GoesOn(clears, ops, q, r, w.stream),
         Extends(w.fs, q.fs), q.got = Append(r.got, w.told[Len(r.got) + 1])
  PROVE  Follows(clears, ops, m, w, q)
<1>1. Extends(w.told, q.got)
  BY SaidNext DEF SaidAt
<1> QED
  BY <1>1 DEF Follows, GoesOn

(* The reader's scalar is the writer's.                                    *)
LEMMA FollowsScalar ==
  ASSUME NEW ops, NEW m, NEW w, NEW r, Follows(clears, ops, m, w, r), Len(r.got) < Len(ops),
         ops[Len(r.got) + 1].op = "scalar", NEW q, q = nextScalar(r)
  PROVE  ~Failed(q) /\ Follows(clears, ops, m, w, q)
<1> DEFINE x == w.told[Len(r.got) + 1]
           o == ops[Len(r.got) + 1]
           n == Len(r.fs)
<1>1. SaidAt(o, w, r, x) /\ o.op = "scalar" /\ Reads(clears, ops, r, w.stream)
  BY SaidNext DEF Follows
<1> HIDE DEF x, o
<1>2. w.fs[n + 1] = <<"observe", x>> /\ Width(o) = 1
  BY <1>1 DEF SaidAt, Says, Width
<1>3. Behind(w.fs, w.stream, r.fs) /\ r.stream = Rest(r.fs, w.stream)
  BY <1>1, <1>2 DEF SaidAt, Behind
<1>4. r.stream # <<>> /\ Head(r.stream) = x /\ Extends(w.fs, Append(r.fs, <<"observe", x>>))
  BY <1>2, <1>3, NextBlock
<1>5. /\ ~Failed(q) /\ GoesOn(clears, ops, q, r, w.stream) /\ q.fs = Append(r.fs, <<"observe", x>>)
      /\ q.got = Append(r.got, x)
  BY <1>1, <1>4, ReadsScalar, SMTT(20)
<1> QED
  BY <1>4, <1>5, FollowsOne DEF x

(* The reader's root is the writer's, hence canonical.                     *)
LEMMA FollowsRoot ==
  ASSUME NEW ops, NEW m, NEW w, NEW r, Follows(clears, ops, m, w, r), Len(r.got) < Len(ops),
         ops[Len(r.got) + 1].op = "root", NEW q, q = nextRoot(r)
  PROVE  ~Failed(q) /\ Follows(clears, ops, m, w, q)
<1> DEFINE d == w.told[Len(r.got) + 1]
           o == ops[Len(r.got) + 1]
           n == Len(r.fs)
           b == <<"observe", d[1]>>
           c == <<"observe", d[2]>>
           g == Append(r.fs, b)
<1>1. SaidAt(o, w, r, d) /\ o.op = "root" /\ Reads(clears, ops, r, w.stream)
  BY SaidNext DEF Follows
<1> HIDE DEF d, o
<1>2. w.fs[n + 1] = b /\ w.fs[n + 2] = c /\ d \in Canonical /\ Width(o) = 2
  BY <1>1 DEF SaidAt, Says, Width
<1>3. n \in Nat /\ Len(w.fs) \in Nat /\ n + 2 <= Len(w.fs) /\ r.fs \in Seq(BlockSet)
  BY <1>1, <1>2 DEF SaidAt
<1>4. Behind(w.fs, w.stream, r.fs) /\ r.stream = Rest(r.fs, w.stream)
  BY <1>1, <1>3 DEF SaidAt, Behind
<1>5. r.stream # <<>> /\ Head(r.stream) = d[1] /\ Extends(w.fs, g)
  BY <1>2, <1>4, NextBlock
<1>6. b \in BlockSet
  BY <1>2 DEF BlockSet, Canonical
<1>7. Len(g) = n + 1
  <2> HIDE DEF b
  <2> QED
    BY <1>3, <1>6, AppendProperties
<1>8. Carries(g, w.stream) /\ Rest(g, w.stream) = Tail(r.stream)
  <2>1. /\ g = Append(r.fs, <<"observe", Head(Rest(r.fs, w.stream))>>) /\ Rest(r.fs, w.stream) # <<>>
        /\ Carries(r.fs, w.stream)
    BY <1>4, <1>5 DEF Behind
  <2> HIDE DEF g
  <2>2. Carries(g, w.stream) /\ Rest(g, w.stream) = Tail(Rest(r.fs, w.stream))
    BY <2>1, TakeCarries
  <2> QED
    BY <2>2, <1>4
<1> HIDE DEF g, b, c
<1>9. Behind(w.fs, w.stream, g) /\ w.fs[Len(g) + 1] = c
  <2>1. Len(g) < Len(w.fs) /\ Len(g) + 1 = n + 2
    BY <1>3, <1>7
  <2> QED
    BY <2>1, <1>2, <1>4, <1>5, <1>8 DEF Behind
<1>10. c[1] # "squeeze" /\ c[2] = d[2]
  BY DEF c
<1>11. Tail(r.stream) # <<>> /\ Head(Tail(r.stream)) = d[2] /\ Extends(w.fs, Append(g, c))
  <2>1. w.fs[Len(g) + 1][1] # "squeeze" /\ w.fs[Len(g) + 1][2] = d[2]
    BY <1>9, <1>10
  <2>2. Rest(g, w.stream) # <<>> /\ Head(Rest(g, w.stream)) = w.fs[Len(g) + 1][2]
    BY <1>9, <2>1, NextBlock
  <2>3. Extends(w.fs, Append(g, w.fs[Len(g) + 1]))
    BY <1>9, NextBlock
  <2>4. Tail(r.stream) # <<>> /\ Head(Tail(r.stream)) = d[2]
    BY <1>8, <2>1, <2>2
  <2> QED
    BY <1>9, <2>3, <2>4
<1>12. d = <<d[1], d[2]>>
  BY <1>2 DEF Canonical
<1>13. <<Head(r.stream), Head(Tail(r.stream))>> = d
  BY <1>5, <1>11, <1>12
<1>14. ~Failed(q)
  <2>1. <<Head(r.stream), Head(Tail(r.stream))>> \in Canonical
    BY <1>2, <1>13
  <2> QED
    BY <2>1, <1>1, <1>5, <1>11, ReadsRoot
<1>15. /\ GoesOn(clears, ops, q, r, w.stream)
       /\ q.fs = Append(Append(r.fs, <<"observe", Head(r.stream)>>), <<"observe", Head(Tail(r.stream))>>)
       /\ q.got = Append(r.got, <<Head(r.stream), Head(Tail(r.stream))>>)
  BY <1>1, <1>14, ReadsRoot, ZenonT(40)
<1>16. q.fs = Append(g, c) /\ q.got = Append(r.got, d)
  <2>1. q.got = Append(r.got, d)
    BY <1>13, <1>15
  <2>2. q.fs = Append(g, c)
    BY <1>5, <1>11, <1>15 DEF g, b, c
  <2> QED
    BY <2>1, <2>2
<1> QED
  BY <1>11, <1>14, <1>15, <1>16, FollowsOne DEF d

(* The reader's challenge is the writer's: the chains agree so far.        *)
LEMMA FollowsSample ==
  ASSUME NEW ops, NEW m, NEW w, NEW r, Follows(clears, ops, m, w, r), Len(r.got) < Len(ops),
         ops[Len(r.got) + 1].op = "sample", NEW q, q = sample(r)
  PROVE  ~Failed(q) /\ Follows(clears, ops, m, w, q)
<1> DEFINE x == w.told[Len(r.got) + 1]
           o == ops[Len(r.got) + 1]
           n == Len(r.fs)
<1>1. SaidAt(o, w, r, x) /\ o.op = "sample" /\ Reads(clears, ops, r, w.stream)
  BY SaidNext DEF Follows
<1> HIDE DEF x, o
<1>2. w.fs[n + 1] = <<"squeeze", 0>> /\ x = r.fs /\ Width(o) = 1
  BY <1>1 DEF SaidAt, Says, Width
<1>3. Behind(w.fs, w.stream, r.fs)
  BY <1>1, <1>2 DEF SaidAt, Behind
<1>4. Extends(w.fs, Append(r.fs, <<"squeeze", 0>>))
  BY <1>2, <1>3, NextBlock
<1>5. /\ ~Failed(q) /\ GoesOn(clears, ops, q, r, w.stream) /\ q.fs = Append(r.fs, <<"squeeze", 0>>)
      /\ q.got = Append(r.got, x)
  <2>1. ops[Len(r.got) + 1].op = "sample" /\ Reads(clears, ops, r, w.stream)
    BY <1>1 DEF o
  <2>2. /\ ~Failed(q) /\ GoesOn(clears, ops, q, r, w.stream) /\ q.fs = Append(r.fs, <<"squeeze", 0>>)
        /\ q.got = Append(r.got, r.fs)
    BY <2>1, ReadsSample, SMTT(20)
  <2> QED
    BY <1>2, <2>2
<1> QED
  BY <1>4, <1>5, FollowsOne DEF x

(* The reader's nonce is the writer's, which clears the same chain.        *)
LEMMA FollowsPow ==
  ASSUME NEW ops, NEW m, NEW w, NEW r, Follows(clears, ops, m, w, r), Len(r.got) < Len(ops),
         NEW o, o = ops[Len(r.got) + 1], o.op = "grind", NEW q, q = checkPow(r, o.bits)
  PROVE  ~Failed(q) /\ Follows(clears, ops, m, w, q)
<1> DEFINE x == w.told[Len(r.got) + 1]
           n == Len(r.fs)
<1>1. SaidAt(o, w, r, x) /\ Reads(clears, ops, r, w.stream)
  BY SaidNext DEF Follows
<1> HIDE DEF x
<1>2. w.fs[n + 1] = <<"nonce", x>> /\ Width(o) = 1
  BY <1>1 DEF SaidAt, Says, Width
<1>3. PowOk(r, o.bits, x)
  BY <1>1 DEF SaidAt, Says, PowOk, lowBitsZero
<1>4. Behind(w.fs, w.stream, r.fs) /\ r.stream = Rest(r.fs, w.stream)
  BY <1>1, <1>2 DEF SaidAt, Behind
<1>5. r.stream # <<>> /\ Head(r.stream) = x /\ Extends(w.fs, Append(r.fs, <<"nonce", x>>))
  BY <1>2, <1>4, NextBlock
<1>6. ~Failed(q)
  BY <1>1, <1>3, <1>5, ReadsPow
<1>7. GoesOn(clears, ops, q, r, w.stream) /\ q.fs = Append(r.fs, <<"nonce", x>>) /\ q.got = Append(r.got, x)
  <2>1. GoesOn(clears, ops, q, r, w.stream) /\ TookNonce(q, r, Head(r.stream))
    BY <1>1, <1>6, ReadsPow
  <2>2. TookNonce(q, r, x)
    BY <1>5, <2>1
  <2> QED
    BY <2>1, <2>2 DEF TookNonce
<1> QED
  BY <1>5, <1>6, <1>7, FollowsOne DEF x

(* At the end the two chains are one, and nothing is left of the stream.   *)
LEMMA FollowedToTheEnd ==
  ASSUME NEW ops, NEW m, NEW w, NEW r, Follows(clears, ops, m, w, r), Len(r.got) = Len(ops)
  PROVE  r.fs = w.fs /\ r.got = w.told /\ r.stream = <<>>
<1>1. /\ r.got \in Seq(Results) /\ w.told \in Seq(Results) /\ r.fs \in Seq(BlockSet) /\ w.fs \in Seq(BlockSet)
      /\ Len(r.fs) = At(ops, Len(ops)) /\ Len(w.fs) = At(ops, Len(ops)) /\ Len(w.told) = Len(ops)
  BY DEF Follows, Writes, Reads, Transcribes
<1>2. SubSeq(w.told, 1, Len(w.told)) = w.told /\ SubSeq(w.fs, 1, Len(w.fs)) = w.fs
  BY <1>1, SubSeqFull
<1>3. r.got = w.told /\ r.fs = w.fs
  BY <1>1, <1>2 DEF Follows, Extends
<1>4. Carries(w.fs, w.stream) /\ Entries(w.fs, Len(w.fs)) = Len(w.stream)
  BY DEF Follows, Writes, CarriesAll
<1>5. Rest(w.fs, w.stream) = <<>>
  BY <1>4, RestIsNext
<1> QED
  BY <1>3, <1>5 DEF Follows, Reads

-----------------------------------------------------------------------------
(* A writer that has run its ops and written the openings of its roots at  *)
(* its positions.                                                          *)
Finished(cl, ops, levels, m, w) ==
  /\ Writes(cl, ops, m, w) /\ Len(w.told) = Len(ops)
  /\ w.merkle = [l \in DOMAIN levels |-> Opening(w.told[levels[l].root], w.told[levels[l].at])]

(* As many openings as levels, all of the shape that fits.                 *)
Fit(merkle, levels) == Len(merkle) = Len(levels) /\ \A l \in DOMAIN merkle : merkle[l].shape = "fits"

(* The inductive invariant.  The writer has run its ops; once it is done   *)
(* its openings are those of its roots at its positions.                   *)
WriterInv ==
  /\ message \in Messages /\ Writes(clears, Ops(message[1]), message, writer)
  /\ stage \notin {"write", "unproved"} => Finished(clears, Ops(message[1]), Openings[message[1]], message, writer)

(* The openings a reader has taken are those of what it read.              *)
LeftOf(merkle, k) == SubSeq(merkle, k + 1, Len(merkle))
Opens(ops, levels, p, r) ==
  /\ Len(r.rows) <= Len(levels)
  /\ r.rows # <<>> => Len(r.got) = Len(ops)
  /\ r.merkle = LeftOf(p.merkle, Len(r.rows))
  /\ \A l \in 1..Len(r.rows) : p.merkle[l] = Opening(r.got[levels[l].root], r.got[levels[l].at])

ReaderInv ==
  /\ proof \in Proofs /\ reader \in Readers
  /\ stage = "setup" => reader = Reader(proof)
  /\ stage \in {"walk", "accepted"} =>
       /\ SetupOk(proof) /\ OpeningsOk(proof)
       /\ Reads(clears, Ops(Size), reader, proof.stream) /\ Opens(Ops(Size), Openings[Size], proof, reader)
  /\ stage = "accepted" =>
       /\ Len(reader.got) = Len(Ops(Size)) /\ Len(reader.rows) = Len(Openings[Size])
       /\ reader.stream = <<>> /\ reader.merkle = <<>>

FollowInv ==
  stage \in {"setup", "walk", "accepted", "rejected"} /\ proof = Written =>
    /\ stage # "rejected"
    /\ stage \in {"walk", "accepted"} => Follows(clears, Ops(message[1]), message, writer, reader)

Inv ==
  /\ stage \in {"write", "unproved", "deliver", "setup", "walk", "accepted", "rejected"}
  /\ WriterInv /\ ReaderInv /\ FollowInv

(* A schedule's parts.                                                     *)
LEMMA ScheduleParts ==
  ASSUME NEW s \in Sizes
  PROVE  /\ Ops(s) \in Seq(OpSet) /\ Ops(s) # <<>> /\ Ops(s)[1].op = "scalar"
         /\ Openings[s] \in Seq([root : Nat, at : Nat])
         /\ \A l \in DOMAIN Openings[s] : /\ Openings[s][l].root \in 1..Len(Ops(s))
                                          /\ Openings[s][l].at \in 1..Len(Ops(s))
         /\ \A i \in Checked \cap DOMAIN Ops(s) : Ops(s)[i].op \in {"scalar", "root"}
<1>1. Ops(s) \in Seq(OpSet)
  BY ScheduleAssumption DEF Ops, OpSet
<1>2. DOMAIN Ops(s) = 1..Len(Ops(s))
  BY <1>1
<1> QED
  BY <1>1, <1>2, ScheduleAssumption DEF Ops

(* An empty chain has run no op and leaves the whole stream.               *)
LEMMA EmptyChain ==
  ASSUME NEW cl, NEW ops \in Seq(OpSet), NEW stream \in Seq(Scalars)
  PROVE  /\ Transcribes(cl, ops, <<>>, <<>>) /\ Carries(<<>>, stream)
         /\ Entries(<<>>, 0) = 0 /\ Rest(<<>>, stream) = stream
<1>1. <<>> \in Seq(BlockSet) /\ <<>> \in Seq(Results) /\ Len(<<>>) = 0 /\ DOMAIN <<>> = {}
  BY EmptySeq
<1>2. Entries(<<>>, 0) = 0
  <2> DEFINE fs == <<>>
  <2>1. fs \in Seq(BlockSet) /\ 0 \in 0..Len(fs)
    BY <1>1
  <2> HIDE DEF fs
  <2>2. Entries(fs, 0) = 0
    BY <2>1, EntriesGrow
  <2> QED
    BY <2>2 DEF fs
<1>3. At(ops, 0) = 0
  BY AtGrows
<1>4. Carried(<<>>) = {}
  BY <1>1 DEF Carried
<1>5. Transcribes(cl, ops, <<>>, <<>>)
  BY <1>1, <1>3 DEF Transcribes
<1>6. Carries(<<>>, stream)
  BY <1>1, <1>2, <1>4 DEF Carries
<1>7. Rest(<<>>, stream) = stream
  BY <1>1, <1>2, SubSeqFull DEF Rest
<1> QED
  BY <1>2, <1>5, <1>6, <1>7

(* The seed is asked for before anything is absorbed.                      *)
LEMMA SeedingIsAsked == Seeding \in Seq(Queries)
<1>1. \A n \in 1..3 : <<<<>>, "seed", n>> \in Queries
  <2> DEFINE e == <<>>
  <2>1. e \in Seq(BlockSet)
    BY EmptySeq
  <2> HIDE DEF e
  <2>2. \A n \in 1..3 : <<e, "seed", n>> \in Queries
    BY <2>1 DEF Queries
  <2> QED
    BY <2>2 DEF e
<1> QED
  BY <1>1 DEF Seeding

(* Initially nothing is written and nothing read.                          *)
LEMMA InitInv == Init => Inv
<1> SUFFICES ASSUME Init PROVE Inv
  OBVIOUS
<1>1. message \in Messages /\ message[1] \in Sizes
  BY MessagesAssumption DEF Init
<1>2. Seeding \in Seq(Queries)
  BY SeedingIsAsked
<1>3. writer \in Writers
  BY <1>2, EmptySeq DEF Init, Writers
<1>4. Writes(clears, Ops(message[1]), message, writer)
  <2>1. Ops(message[1]) \in Seq(OpSet)
    BY <1>1, ScheduleParts
  <2>2. writer.fs = <<>> /\ writer.told = <<>> /\ writer.stream = <<>>
    BY DEF Init
  <2>3. Transcribes(clears, Ops(message[1]), <<>>, <<>>) /\ Carries(<<>>, <<>>) /\ Entries(<<>>, 0) = 0
    BY <2>1, EmptyChain, EmptySeq
  <2> QED
    BY <1>3, <2>2, <2>3, EmptySeq DEF Writes, CarriesAll
<1>5. proof \in Proofs /\ reader \in Readers
  BY EmptySeq DEF Init, NoProof, Reader, Proofs, Readers
<1> QED
  BY <1>1, <1>4, <1>5 DEF Init, Inv, WriterInv, ReaderInv, FollowInv

(* A writer's step leaves the rest as it is.                               *)
LEMMA WriteStep ==
  ASSUME Inv, stage = "write", NEW q, Write(q), Writes(clears, Ops(message[1]), message, q)
  PROVE  Inv'
BY DEF Inv, WriterInv, ReaderInv, FollowInv, Write, Fixed

(* Each op of the writer, and the grind that finds no nonce.               *)
LEMMA WritingInv ==
  Inv /\ (SendScalar \/ SendRoot \/ Squeeze \/ Grind \/ GrindFails) => Inv'
<1> SUFFICES ASSUME Inv, SendScalar \/ SendRoot \/ Squeeze \/ Grind \/ GrindFails
             PROVE  Inv'
  OBVIOUS
<1> DEFINE ops == Ops(message[1])
           i == Len(writer.told) + 1
<1>1. message \in Messages /\ message[1] \in Sizes /\ Writes(clears, ops, message, writer)
  BY MessagesAssumption DEF Inv, WriterInv
<1>2. stage = "write" /\ Len(writer.told) < Len(ops)
  BY DEF SendScalar, SendRoot, Squeeze, Grind, GrindFails, Writing
<1>3. i \in DOMAIN ops /\ ops \in Seq(OpSet)
  <2>1. writer.told \in Seq(Results) /\ ops \in Seq(OpSet)
    BY <1>1, ScheduleParts, WriterParts DEF Writes
  <2> QED
    BY <2>1, <1>2
<1>4. CASE SendScalar
  <2>1. ops[i].op = "scalar" /\ Write(Told(addScalar(writer, message[i]), message[i]))
    BY <1>4 DEF SendScalar, Writing, ToSend
  <2>2. message[i] \in Scalars
    BY <1>1, <1>3, <2>1, MessagesAssumption DEF Ops
  <2>3. Writes(clears, ops, message, Told(addScalar(writer, message[i]), message[i]))
    BY <1>1, <1>2, <2>1, <2>2, WritesScalar
  <2> QED
    BY <1>2, <2>1, <2>3, WriteStep
<1>5. CASE SendRoot
  <2>1. ops[i].op = "root" /\ Write(Told(addRoot(writer, message[i]), message[i]))
    BY <1>5 DEF SendRoot, Writing, ToSend
  <2>2. message[i] \in Canonical
    BY <1>1, <1>3, <2>1, MessagesAssumption DEF Ops, Canonical
  <2>3. Writes(clears, ops, message, Told(addRoot(writer, message[i]), message[i]))
    BY <1>1, <1>2, <2>1, <2>2, WritesRoot
  <2> QED
    BY <1>2, <2>1, <2>3, WriteStep
<1>6. CASE Squeeze
  <2>1. ops[i].op = "sample" /\ Write(Told(squeeze(writer), writer.fs))
    BY <1>6 DEF Squeeze, Writing
  <2>2. Writes(clears, ops, message, Told(squeeze(writer), writer.fs))
    BY <1>1, <1>2, <2>1, WritesSqueeze
  <2> QED
    BY <1>2, <2>1, <2>2, WriteStep
<1>7. CASE Grind
  <2>1. ops[i].op = "grind" /\ Found(writer.fs, ops[i].bits) /\ Write(grind(writer, ops[i].bits))
    BY <1>7 DEF Grind, Writing, Bits
  <2>2. Writes(clears, ops, message, grind(writer, ops[i].bits))
    BY <1>1, <1>2, <2>1, WritesGrind
  <2> QED
    BY <1>2, <2>1, <2>2, WriteStep
<1>8. CASE GrindFails
  <2>1. Writes(clears, ops, message, writer')
    BY <1>1, <1>8, WritesGiveUp DEF GrindFails
  <2>2. stage' = "unproved" /\ UNCHANGED <<message, clears, proof, reader>>
    BY <1>8 DEF GrindFails, Fixed
  <2> QED
    BY <2>1, <2>2 DEF Inv, WriterInv, ReaderInv, FollowInv
<1> QED
  BY <1>4, <1>5, <1>6, <1>7, <1>8

-----------------------------------------------------------------------------
(* The honest openings, and all that may be delivered instead.             *)
LEMMA OpeningIsHint ==
  ASSUME NEW x \in Results, NEW y \in Results
  PROVE  Opening(x, y) \in Hints
BY DEF Opening, Hints

(* The openings written are those of the roots at the positions told.      *)
LEMMA HintInv == Inv /\ HintOpenings => Inv'
<1> SUFFICES ASSUME Inv, HintOpenings PROVE Inv'
  OBVIOUS
<1> DEFINE ops == Ops(message[1])
           levels == Openings[message[1]]
           hinted == [l \in DOMAIN levels |-> Opening(writer.told[levels[l].root], writer.told[levels[l].at])]
<1>1. message \in Messages /\ message[1] \in Sizes /\ Writes(clears, ops, message, writer)
  BY MessagesAssumption DEF Inv, WriterInv
<1>2. /\ stage = "write" /\ Len(writer.told) = Len(ops) /\ writer' = [writer EXCEPT !.merkle = hinted]
      /\ stage' = "deliver" /\ UNCHANGED <<message, clears, proof, reader>>
  BY DEF HintOpenings, Fixed
<1>3. writer \in Writers /\ writer.told \in Seq(Results)
  BY <1>1, WriterParts DEF Writes
<1>4. hinted \in Seq(Hints)
  <2>1. levels \in Seq([root : Nat, at : Nat])
    BY <1>1, ScheduleParts
  <2>2. \A l \in DOMAIN levels : levels[l].root \in 1..Len(writer.told) /\ levels[l].at \in 1..Len(writer.told)
    BY <1>1, <1>2, ScheduleParts
  <2>3. \A l \in DOMAIN levels : Opening(writer.told[levels[l].root], writer.told[levels[l].at]) \in Hints
    BY <1>3, <2>2, OpeningIsHint
  <2>4. DOMAIN levels = 1..Len(levels) /\ Len(levels) \in Nat
    BY <2>1
  <2> HIDE DEF levels
  <2> QED
    BY <2>3, <2>4
<1> HIDE DEF hinted
<1>5. /\ writer' \in Writers /\ writer'.fs = writer.fs /\ writer'.stream = writer.stream /\ writer'.told = writer.told
      /\ writer'.merkle = hinted
  BY <1>2, <1>3, <1>4 DEF Writers
<1>6. Writes(clears, ops, message, writer')
  BY <1>1, <1>5 DEF Writes
<1>7. Finished(clears, ops, levels, message, writer')
  BY <1>2, <1>5, <1>6 DEF Finished, hinted
<1> QED
  BY <1>2, <1>5, <1>6, <1>7 DEF Inv, WriterInv, ReaderInv, FollowInv

(* A sequence with an element changed, added, dropped or moved is one of   *)
(* the same elements.                                                      *)
LEMMA Shuffled ==
  ASSUME NEW S, NEW s \in Seq(S)
  PROVE  /\ \A i \in DOMAIN s : RemoveAt(s, i) \in Seq(S)
         /\ Reverse(s) \in Seq(S)
         /\ \A i \in DOMAIN s, x \in S : [s EXCEPT ![i] = x] \in Seq(S)
         /\ \A x \in S : Append(s, x) \in Seq(S)
         /\ \A i \in DOMAIN s : s[i] \in S
<1>1. \A i \in DOMAIN s : RemoveAt(s, i) \in Seq(S)
  BY DEF RemoveAt
<1>2. Reverse(s) \in Seq(S)
  BY DEF Reverse
<1>3. \A i \in DOMAIN s, x \in S : [s EXCEPT ![i] = x] \in Seq(S)
  BY ExceptSeq
<1> QED
  BY <1>1, <1>2, <1>3

(* What may replace a proof's scalars, and what its openings.              *)
StreamsFor(s) ==
  {[s EXCEPT ![i] = x] : i \in DOMAIN s, x \in Scalars} \cup {Append(s, x) : x \in Scalars}
  \cup {RemoveAt(s, i) : i \in DOMAIN s} \cup {<<>>}
MerklesFor(m) ==
  {RemoveAt(m, l) : l \in DOMAIN m} \cup {Append(m, m[l]) : l \in DOMAIN m}
  \cup {[m EXCEPT ![l].shape = "tooWide"] : l \in DOMAIN m}
  \cup {[m EXCEPT ![l] = m[k]] : l \in DOMAIN m, k \in DOMAIN m} \cup {Reverse(m)}

(* Both are sequences of what they were.                                   *)
LEMMA TamperedIsTyped ==
  ASSUME NEW s \in Seq(Scalars), NEW m \in Seq(Hints)
  PROVE  StreamsFor(s) \subseteq Seq(Scalars) /\ MerklesFor(m) \subseteq Seq(Hints)
<1>1. StreamsFor(s) \subseteq Seq(Scalars)
  <2> DEFINE changed == {[s EXCEPT ![i] = x] : i \in DOMAIN s, x \in Scalars}
             added == {Append(s, x) : x \in Scalars}
             dropped == {RemoveAt(s, i) : i \in DOMAIN s}
  <2>1. changed \subseteq Seq(Scalars)
    BY Shuffled
  <2>2. added \subseteq Seq(Scalars)
    BY Shuffled
  <2>3. dropped \subseteq Seq(Scalars)
    BY Shuffled
  <2>4. StreamsFor(s) = changed \cup added \cup dropped \cup {<<>>}
    BY DEF StreamsFor
  <2> HIDE DEF changed, added, dropped
  <2> QED
    BY <2>1, <2>2, <2>3, <2>4, EmptySeq
<1>2. MerklesFor(m) \subseteq Seq(Hints)
  <2> DEFINE dropped == {RemoveAt(m, l) : l \in DOMAIN m}
             added == {Append(m, m[l]) : l \in DOMAIN m}
             widened == {[m EXCEPT ![l].shape = "tooWide"] : l \in DOMAIN m}
             copied == {[m EXCEPT ![l] = m[k]] : l \in DOMAIN m, k \in DOMAIN m}
  <2>1. dropped \subseteq Seq(Hints)
    BY Shuffled
  <2>2. added \subseteq Seq(Hints)
    BY Shuffled
  <2>3. widened \subseteq Seq(Hints)
    <3>1. ASSUME NEW l \in DOMAIN m
          PROVE  [m EXCEPT ![l].shape = "tooWide"] \in Seq(Hints)
      <4>1. m[l] \in Hints
        BY Shuffled
      <4>2. [m[l] EXCEPT !.shape = "tooWide"] \in Hints
        BY <4>1 DEF Hints
      <4>3. [m EXCEPT ![l].shape = "tooWide"] = [m EXCEPT ![l] = [m[l] EXCEPT !.shape = "tooWide"]]
        OBVIOUS
      <4> QED
        BY <4>2, <4>3, Shuffled
    <3> QED
      BY <3>1
  <2>4. copied \subseteq Seq(Hints)
    BY Shuffled
  <2>5. Reverse(m) \in Seq(Hints)
    BY Shuffled
  <2>6. MerklesFor(m) = dropped \cup added \cup widened \cup copied \cup {Reverse(m)}
    BY DEF MerklesFor
  <2> HIDE DEF dropped, added, widened, copied
  <2> QED
    BY <2>1, <2>2, <2>3, <2>4, <2>5, <2>6
<1> QED
  BY <1>1, <1>2

(* What is delivered is a proof, whatever became of it.                    *)
LEMMA DeliveriesAreProofs ==
  ASSUME writer \in Writers
  PROVE  Deliveries \subseteq Proofs
<1>1. writer.stream \in Seq(Scalars) /\ writer.merkle \in Seq(Hints)
  BY WriterParts
<1>2. Deliveries = {Written} \cup {[Written EXCEPT !.stream = t] : t \in StreamsFor(Written.stream)}
                           \cup {[Written EXCEPT !.merkle = t] : t \in MerklesFor(Written.merkle)}
  BY DEF Deliveries, StreamsFor, MerklesFor
<1>3. Written \in Proofs /\ Written.stream = writer.stream /\ Written.merkle = writer.merkle
  BY <1>1 DEF Written, Proofs
<1>4. \A t \in Seq(Scalars) : [Written EXCEPT !.stream = t] \in Proofs
  BY <1>3 DEF Proofs
<1>5. \A t \in Seq(Hints) : [Written EXCEPT !.merkle = t] \in Proofs
  BY <1>3 DEF Proofs
<1>6. StreamsFor(Written.stream) \subseteq Seq(Scalars) /\ MerklesFor(Written.merkle) \subseteq Seq(Hints)
  BY <1>1, <1>3, TamperedIsTyped
<1> QED
  BY <1>2, <1>3, <1>4, <1>5, <1>6

(* The delivery leaves the invariant.                                      *)
LEMMA DeliverInv == Inv /\ Deliver => Inv'
<1> SUFFICES ASSUME Inv, Deliver PROVE Inv'
  OBVIOUS
<1>1. /\ stage = "deliver" /\ stage' = "setup" /\ proof' \in Deliveries /\ reader' = Reader(proof')
      /\ UNCHANGED <<message, clears, writer>>
  BY DEF Deliver, Fixed
<1>2. proof' \in Proofs
  BY <1>1, DeliveriesAreProofs DEF Inv, WriterInv, Writes
<1>3. reader' \in Readers
  BY <1>1, <1>2, EmptySeq DEF Reader, Readers, Proofs
<1> QED
  BY <1>1, <1>2, <1>3 DEF Inv, WriterInv, ReaderInv, FollowInv

-----------------------------------------------------------------------------
(* The first op announces: its result is the head of the stream.           *)
LEMMA FirstIsHead ==
  ASSUME NEW cl, NEW ops, NEW fs, NEW xs, NEW stream, Transcribes(cl, ops, fs, xs), Carries(fs, stream),
         ops[1].op = "scalar", Len(xs) > 0
  PROVE  stream # <<>> /\ Head(stream) = xs[1]
<1>1. /\ ops \in Seq(OpSet) /\ fs \in Seq(BlockSet) /\ xs \in Seq(Results) /\ stream \in Seq(Scalars)
      /\ Len(xs) <= Len(ops) /\ Len(fs) = At(ops, Len(xs))
  BY DEF Transcribes, Carries
<1>2. Len(xs) \in 0..Len(ops) /\ 1 \in 0..Len(xs) /\ 0 \in 0..Len(ops) /\ 0 < Len(ops) /\ 1 \in DOMAIN xs
  BY <1>1
<1>3. At(ops, 0) = 0 /\ At(ops, 0 + 1) = At(ops, 0) + Width(ops[0 + 1])
  BY <1>1, <1>2, AtGrows
<1>4. At(ops, 1) = 1
  BY <1>3 DEF Width
<1>5. At(ops, 1) <= At(ops, Len(xs)) /\ At(ops, Len(xs)) \in Nat
  BY <1>1, <1>2, AtGrows
<1>6. 1 <= Len(fs)
  BY <1>1, <1>4, <1>5
<1>7. fs[1] = <<"observe", xs[1]>>
  <2>1. Says(cl, ops[1], fs, At(ops, 1 - 1), xs[1])
    BY <1>2 DEF Transcribes
  <2>2. Says(cl, ops[1], fs, 0, xs[1])
    BY <1>3, <2>1
  <2> QED
    BY <2>2 DEF Says
<1>8. Entries(fs, 1) = 1
  <2>1. 0 \in 0..Len(fs) /\ 0 < Len(fs)
    BY <1>1, <1>6
  <2>2. Entries(fs, 0) = 0 /\ Entries(fs, 0 + 1) = Entries(fs, 0) + (IF fs[0 + 1][1] # "squeeze" THEN 1 ELSE 0)
    BY <1>1, <2>1, EntriesGrow
  <2> QED
    BY <1>7, <2>2
<1>9. Entries(fs, 1) <= Entries(fs, Len(fs)) /\ Entries(fs, Len(fs)) \in Nat
  <2>1. Len(fs) \in 0..Len(fs) /\ 1 \in 0..Len(fs)
    BY <1>1, <1>6
  <2> QED
    BY <1>1, <2>1, EntriesGrow
<1>10. 1 \in Carried(fs)
  BY <1>1, <1>6, <1>7 DEF Carried
<1>11. stream[Entries(fs, 1)] = fs[1][2] /\ Entries(fs, Len(fs)) <= Len(stream)
  BY <1>10 DEF Carries
<1>12. stream[1] = xs[1] /\ Len(stream) >= 1
  BY <1>1, <1>7, <1>8, <1>9, <1>11
<1> QED
  BY <1>1, <1>12

(* A finished writer announces the prover's size and fits its openings.    *)
LEMMA FinishedFits ==
  ASSUME NEW cl, NEW ops, NEW levels, NEW m, NEW w, Finished(cl, ops, levels, m, w),
         levels \in Seq([root : Nat, at : Nat]), ops # <<>>, ops[1].op = "scalar"
  PROVE  w.stream # <<>> /\ Head(w.stream) = m[1] /\ Fit(w.merkle, levels)
<1>1. /\ ops \in Seq(OpSet) /\ w.told \in Seq(Results) /\ w.merkle \in Seq(Hints)
      /\ Transcribes(cl, ops, w.fs, w.told) /\ Carries(w.fs, w.stream)
  BY WriterParts DEF Finished, Writes, CarriesAll, Transcribes
<1>2. Len(ops) > 0 /\ 1 \in DOMAIN w.told
  BY <1>1 DEF Finished
<1>3. w.stream # <<>> /\ Head(w.stream) = w.told[1]
  BY <1>1, <1>2, FirstIsHead
<1>4. w.told[1] = m[1]
  BY <1>2 DEF Finished, Writes
<1>5. \A l \in DOMAIN levels : w.merkle[l].shape = "fits"
  <2> TAKE l \in DOMAIN levels
  <2>1. w.merkle[l] = Opening(w.told[levels[l].root], w.told[levels[l].at])
    BY DEF Finished
  <2> QED
    BY <2>1 DEF Opening
<1>6. DOMAIN w.merkle = 1..Len(levels) /\ Len(levels) \in Nat
  BY DEF Finished
<1>7. Len(w.merkle) = Len(levels)
  BY <1>1, <1>6
<1> QED
  BY <1>3, <1>4, <1>5, <1>6, <1>7 DEF Fit

(* What is written is set up, and announces the prover's size.             *)
LEMMA WrittenIsSetUp ==
  ASSUME Inv, stage \notin {"write", "unproved"}
  PROVE  /\ SetupOk(Written) /\ OpeningsOk(Written) /\ Head(writer.stream) = message[1]
         /\ Len(writer.told) = Len(Ops(message[1]))
         /\ Written.stream = writer.stream /\ Written.merkle = writer.merkle
<1> DEFINE ops == Ops(message[1])
           levels == Openings[message[1]]
<1>1. message[1] \in Sizes /\ Finished(clears, ops, levels, message, writer) /\ Len(writer.told) = Len(ops)
  BY MessagesAssumption DEF Inv, WriterInv, Finished
<1>2. ops # <<>> /\ ops[1].op = "scalar" /\ levels \in Seq([root : Nat, at : Nat])
  BY <1>1, ScheduleParts
<1>3. writer.stream # <<>> /\ Head(writer.stream) = message[1] /\ Fit(writer.merkle, levels)
  BY <1>1, <1>2, FinishedFits
<1>4. Written.stream = writer.stream /\ Written.merkle = writer.merkle
  BY DEF Written
<1> QED
  BY <1>1, <1>3, <1>4 DEF SetupOk, OpeningsOk, Fit

(* A bad announcement or bad openings are rejected before any hash; what   *)
(* was written has neither.                                                *)
LEMMA RejectSetupInv == Inv /\ RejectSetup => Inv'
<1> SUFFICES ASSUME Inv, RejectSetup PROVE Inv'
  OBVIOUS
<1>1. /\ stage = "setup" /\ ~(SetupOk(proof) /\ OpeningsOk(proof)) /\ stage' = "rejected"
      /\ UNCHANGED <<message, clears, writer, proof, reader>>
  BY DEF RejectSetup, Fixed
<1>2. proof # Written
  BY <1>1, WrittenIsSetUp
<1>3. proof' # Written'
  BY <1>1, <1>2 DEF Written
<1> QED
  BY <1>1, <1>3 DEF Inv, WriterInv, ReaderInv, FollowInv

(* The reader starts on the whole stream with an empty chain.              *)
LEMMA StartWalkInv == Inv /\ StartWalk => Inv'
<1> SUFFICES ASSUME Inv, StartWalk PROVE Inv'
  OBVIOUS
<1> DEFINE q == [reader EXCEPT !.asked = Seeding]
<1>1. /\ stage = "setup" /\ SetupOk(proof) /\ OpeningsOk(proof) /\ stage' = "walk" /\ reader' = q
      /\ UNCHANGED <<message, clears, writer, proof>>
  BY DEF StartWalk, Fixed
<1>2. proof \in Proofs /\ reader \in Readers /\ reader = Reader(proof) /\ Size \in Sizes
  BY <1>1 DEF Inv, ReaderInv, SetupOk, Size
<1>3. proof.stream \in Seq(Scalars) /\ proof.merkle \in Seq(Hints)
  BY <1>2 DEF Proofs
<1>4. q \in Readers
  BY <1>2, SeedingIsAsked DEF Readers
<1>5. /\ q.fs = <<>> /\ q.got = <<>> /\ q.rows = <<>> /\ q.stream = proof.stream /\ q.merkle = proof.merkle
      /\ q.error = "none"
  BY <1>2 DEF Reader
<1> HIDE DEF q
<1>6. Reads(clears, Ops(Size), q, proof.stream)
  <2>1. Ops(Size) \in Seq(OpSet)
    BY <1>2, ScheduleParts
  <2>2. /\ Transcribes(clears, Ops(Size), <<>>, <<>>) /\ Carries(<<>>, proof.stream)
        /\ Rest(<<>>, proof.stream) = proof.stream
    BY <1>3, <2>1, EmptyChain
  <2> QED
    BY <1>4, <1>5, <2>2 DEF Reads
<1>7. Opens(Ops(Size), Openings[Size], proof, q)
  <2>1. Openings[Size] \in Seq([root : Nat, at : Nat])
    BY <1>2, ScheduleParts
  <2>2. Len(q.rows) = 0 /\ q.merkle = LeftOf(proof.merkle, 0)
    BY <1>3, <1>5, SubSeqFull DEF LeftOf
  <2> QED
    BY <1>5, <2>1, <2>2 DEF Opens
<1>8. proof = Written => Follows(clears, Ops(message[1]), message, writer, q)
  <2> SUFFICES ASSUME proof = Written PROVE Follows(clears, Ops(message[1]), message, writer, q)
    OBVIOUS
  <2>1. Size = message[1] /\ proof.stream = writer.stream /\ Len(writer.told) = Len(Ops(message[1]))
    BY <1>1, WrittenIsSetUp DEF Size
  <2>2. Writes(clears, Ops(message[1]), message, writer)
    BY DEF Inv, WriterInv
  <2>3. writer.fs \in Seq(BlockSet) /\ writer.told \in Seq(Results)
    BY <2>2, WriterParts DEF Writes
  <2>4. Extends(writer.fs, <<>>) /\ Extends(writer.told, <<>>)
    BY <2>3 DEF Extends
  <2> QED
    BY <1>5, <1>6, <2>1, <2>2, <2>4 DEF Follows
<1>9. proof' = Written' <=> proof = Written
  BY <1>1 DEF Written
<1> QED
  BY <1>1, <1>2, <1>4, <1>6, <1>7, <1>8, <1>9 DEF Inv, WriterInv, ReaderInv, FollowInv, Size

(* What a walk stands on.                                                  *)
LEMMA WalkParts ==
  ASSUME Inv, stage = "walk"
  PROVE  /\ Size \in Sizes /\ SetupOk(proof) /\ OpeningsOk(proof) /\ proof \in Proofs
         /\ Reads(clears, Ops(Size), reader, proof.stream) /\ Opens(Ops(Size), Openings[Size], proof, reader)
         /\ proof = Written => /\ Size = message[1] /\ proof.stream = writer.stream /\ proof.merkle = writer.merkle
                               /\ Follows(clears, Ops(Size), message, writer, reader)
<1>1. /\ SetupOk(proof) /\ OpeningsOk(proof) /\ proof \in Proofs
      /\ Reads(clears, Ops(Size), reader, proof.stream) /\ Opens(Ops(Size), Openings[Size], proof, reader)
  BY DEF Inv, ReaderInv
<1>2. Size \in Sizes
  BY <1>1 DEF SetupOk, Size
<1>3. ASSUME proof = Written
      PROVE  /\ Size = message[1] /\ proof.stream = writer.stream /\ proof.merkle = writer.merkle
             /\ Follows(clears, Ops(Size), message, writer, reader)
  <2>1. Head(writer.stream) = message[1] /\ Written.stream = writer.stream /\ Written.merkle = writer.merkle
    BY WrittenIsSetUp
  <2>2. Size = message[1] /\ proof.stream = writer.stream /\ proof.merkle = writer.merkle
    BY <1>3, <2>1 DEF Size
  <2>3. Follows(clears, Ops(message[1]), message, writer, reader)
    BY <1>3 DEF Inv, FollowInv
  <2> QED
    BY <2>2, <2>3
<1> QED
  BY <1>1, <1>2, <1>3

(* A step of the walk: a reader that stays typed, and unless it fails has  *)
(* run its ops and taken their openings; one that follows goes on to.      *)
LEMMA WalkStep ==
  ASSUME Inv, stage = "walk", NEW q, Read(q), q \in Readers,
         ~Failed(q) => /\ Reads(clears, Ops(Size), q, proof.stream)
                       /\ Opens(Ops(Size), Openings[Size], proof, q),
         proof = Written => ~Failed(q) /\ Follows(clears, Ops(Size), message, writer, q)
  PROVE  Inv'
<1>1. reader' = q /\ stage' = (IF Failed(q) THEN "rejected" ELSE "walk") /\ UNCHANGED <<message, clears, writer, proof>>
  BY DEF Read, Fixed
<1>2. Size' = Size /\ Written' = Written
  BY <1>1 DEF Size, Written
<1>3. WriterInv'
  BY <1>1 DEF Inv, WriterInv
<1>4. ReaderInv'
  <2>1. SetupOk(proof) /\ OpeningsOk(proof) /\ proof \in Proofs
    BY WalkParts
  <2> QED
    BY <1>1, <1>2, <2>1 DEF ReaderInv
<1>5. FollowInv'
  <2>1. proof = Written => Size = message[1]
    BY WalkParts
  <2> QED
    BY <1>1, <1>2, <2>1 DEF FollowInv
<1> QED
  BY <1>1, <1>3, <1>4, <1>5 DEF Inv

(* Before the last op no opening has been read, and no op reads one.       *)
LEMMA OpensLater ==
  ASSUME NEW ops \in Seq(OpSet), NEW levels, NEW p, NEW r, NEW q, NEW cl,
         Opens(ops, levels, p, r), Len(r.got) < Len(ops), GoesOn(cl, ops, q, r, p.stream)
  PROVE  Opens(ops, levels, p, q)
<1>1. Len(ops) \in Nat /\ ~(Len(r.got) = Len(ops))
  OBVIOUS
<1>2. r.rows = <<>> /\ q.rows = r.rows /\ q.merkle = r.merkle
  BY <1>1 DEF Opens, GoesOn, Kept
<1>3. Len(q.rows) = 0
  BY <1>2
<1> QED
  BY <1>2, <1>3 DEF Opens

(* Each op of the walk.                                                    *)
LEMMA ReadingInv == Inv /\ (ReadScalar \/ ReadRoot \/ Sample \/ CheckPow) => Inv'
<1> SUFFICES ASSUME Inv, ReadScalar \/ ReadRoot \/ Sample \/ CheckPow
             PROVE  Inv'
  OBVIOUS
<1>1. stage = "walk" /\ Len(reader.got) < Len(Ops(Size))
  BY DEF ReadScalar, ReadRoot, Sample, CheckPow, Walking
<1>2. /\ Reads(clears, Ops(Size), reader, proof.stream) /\ Opens(Ops(Size), Openings[Size], proof, reader)
      /\ proof = Written => Follows(clears, Ops(Size), message, writer, reader)
  BY <1>1, WalkParts
<1>3. ASSUME NEW q, Read(q), q \in Readers, ~Failed(q) => GoesOn(clears, Ops(Size), q, reader, proof.stream),
             proof = Written => ~Failed(q) /\ Follows(clears, Ops(Size), message, writer, q)
      PROVE  Inv'
  <2>1. ~Failed(q) => /\ Reads(clears, Ops(Size), q, proof.stream)
                      /\ Opens(Ops(Size), Openings[Size], proof, q)
    <3>1. Ops(Size) \in Seq(OpSet)
      BY <1>2 DEF Reads, Transcribes
    <3> QED
      BY <1>1, <1>2, <1>3, <3>1, OpensLater DEF GoesOn
  <2> QED
    BY <1>1, <1>3, <2>1, WalkStep
<1>4. CASE ReadScalar
  <2>1. NextOp.op = "scalar" /\ Read(nextScalar(reader))
    BY <1>4 DEF ReadScalar, Walking
  <2>2. Ops(Size)[Len(reader.got) + 1].op = "scalar"
    BY <2>1 DEF NextOp
  <2>3. /\ nextScalar(reader) \in Readers
        /\ ~Failed(nextScalar(reader)) => GoesOn(clears, Ops(Size), nextScalar(reader), reader, proof.stream)
    BY <1>1, <1>2, <2>2, ReadsScalar
  <2>4. proof = Written => /\ ~Failed(nextScalar(reader))
                          /\ Follows(clears, Ops(Size), message, writer, nextScalar(reader))
    BY <1>1, <1>2, <2>2, FollowsScalar
  <2> QED
    BY <1>3, <2>1, <2>3, <2>4
<1>5. CASE ReadRoot
  <2>1. NextOp.op = "root" /\ Read(nextRoot(reader))
    BY <1>5 DEF ReadRoot, Walking
  <2>2. Ops(Size)[Len(reader.got) + 1].op = "root"
    BY <2>1 DEF NextOp
  <2>3. /\ nextRoot(reader) \in Readers
        /\ ~Failed(nextRoot(reader)) => GoesOn(clears, Ops(Size), nextRoot(reader), reader, proof.stream)
    BY <1>1, <1>2, <2>2, ReadsRoot
  <2>4. proof = Written => /\ ~Failed(nextRoot(reader))
                          /\ Follows(clears, Ops(Size), message, writer, nextRoot(reader))
    BY <1>1, <1>2, <2>2, FollowsRoot
  <2> QED
    BY <1>3, <2>1, <2>3, <2>4
<1>6. CASE Sample
  <2>1. NextOp.op = "sample" /\ Read(sample(reader))
    BY <1>6 DEF Sample, Walking
  <2>2. Ops(Size)[Len(reader.got) + 1].op = "sample"
    BY <2>1 DEF NextOp
  <2>3. sample(reader) \in Readers /\ GoesOn(clears, Ops(Size), sample(reader), reader, proof.stream)
    BY <1>1, <1>2, <2>2, ReadsSample
  <2>4. proof = Written => /\ ~Failed(sample(reader))
                          /\ Follows(clears, Ops(Size), message, writer, sample(reader))
    BY <1>1, <1>2, <2>2, FollowsSample
  <2> QED
    BY <1>3, <2>1, <2>3, <2>4
<1>7. CASE CheckPow
  <2> DEFINE q == checkPow(reader, NextOp.bits)
  <2>1. NextOp.op = "grind" /\ Read(q)
    BY <1>7 DEF CheckPow, Walking
  <2>2. NextOp = Ops(Size)[Len(reader.got) + 1]
    BY DEF NextOp
  <2>3. q \in Readers /\ (~Failed(q) => GoesOn(clears, Ops(Size), q, reader, proof.stream))
    BY <1>1, <1>2, <2>1, <2>2, ReadsPow
  <2>4. proof = Written => ~Failed(q) /\ Follows(clears, Ops(Size), message, writer, q)
    BY <1>1, <1>2, <2>1, <2>2, FollowsPow
  <2> HIDE DEF q
  <2> QED
    BY <1>3, <2>1, <2>3, <2>4
<1> QED
  BY <1>4, <1>5, <1>6, <1>7

-----------------------------------------------------------------------------
(* What is left of a sequence of openings: the next is at its head.        *)
LEMMA NextOfLeft ==
  ASSUME NEW S, NEW s \in Seq(S), NEW k \in Nat, k < Len(s)
  PROVE  /\ LeftOf(s, k) # <<>> /\ Head(LeftOf(s, k)) = s[k + 1] /\ Head(LeftOf(s, k)) \in S
         /\ Tail(LeftOf(s, k)) = LeftOf(s, k + 1) /\ Tail(LeftOf(s, k)) \in Seq(S)
<1> DEFINE t == LeftOf(s, k)
           u == LeftOf(s, k + 1)
<1>1. t \in Seq(S) /\ Len(t) = Len(s) - k /\ \A i \in 1..(Len(s) - k) : t[i] = s[k + i]
  BY DEF LeftOf
<1>2. u \in Seq(S) /\ Len(u) = Len(s) - k - 1 /\ \A i \in 1..(Len(s) - k - 1) : u[i] = s[k + 1 + i]
  BY DEF LeftOf
<1>3. Len(s) \in Nat /\ Len(s) - k >= 1
  OBVIOUS
<1> HIDE DEF t, u
<1>4. t # <<>>
  BY <1>1, <1>3
<1>5. Head(t) = t[1] /\ Tail(t) \in Seq(S) /\ Len(Tail(t)) = Len(t) - 1 /\ \A i \in 1..Len(Tail(t)) : Tail(t)[i] = t[i + 1]
  BY <1>1, <1>4, HeadTailProperties
<1>6. Head(t) = s[k + 1] /\ s[k + 1] \in S
  BY <1>1, <1>3, <1>5
<1>7. Tail(t) \in Seq(S) /\ u \in Seq(S) /\ Len(Tail(t)) = Len(u)
  BY <1>1, <1>2, <1>3, <1>5
<1>8. \A i \in 1..Len(Tail(t)) : Tail(t)[i] = u[i]
  <2> TAKE i \in 1..Len(Tail(t))
  <2>1. i \in 1..(Len(s) - k - 1) /\ i + 1 \in 1..(Len(s) - k) /\ k + (i + 1) = k + 1 + i
    BY <1>1, <1>3, <1>5
  <2>2. Tail(t)[i] = t[i + 1]
    BY <1>5
  <2>3. t[i + 1] = s[k + (i + 1)] /\ u[i] = s[k + 1 + i]
    BY <1>1, <1>2, <2>1
  <2> QED
    BY <2>1, <2>2, <2>3
<1>9. Tail(t) = u
  BY <1>7, <1>8, SeqEqual
<1> QED
  BY <1>4, <1>5, <1>6, <1>9 DEF t, u

(* After the last nothing is.                                              *)
LEMMA NothingLeft ==
  ASSUME NEW S, NEW s \in Seq(S)
  PROVE  LeftOf(s, Len(s)) = <<>> /\ Len(s) \in Nat
BY SubSeqEmpty DEF LeftOf

(* A reader that came to its openings.                                     *)
AtOpening(cl, ops, levels, p, r) ==
  /\ p \in Proofs /\ Reads(cl, ops, r, p.stream) /\ Opens(ops, levels, p, r)
  /\ Len(r.got) = Len(ops) /\ Len(r.rows) < Len(levels) /\ Len(p.merkle) = Len(levels)

(* After the next opening: taken, or rejected when it is not the one of    *)
(* the root and the positions that were read.                              *)
Opened(cl, ops, levels, p, r, q) ==
  LET next == Len(r.rows) + 1
  IN  /\ q \in Readers
      /\ ~Failed(q) => Reads(cl, ops, q, p.stream) /\ Opens(ops, levels, p, q) /\ q.fs = r.fs /\ q.got = r.got
      /\ p.merkle[next] = Opening(r.got[levels[next].root], r.got[levels[next].at]) => ~Failed(q)

(* The reader's step at an opening is such a one.                          *)
LEMMA OpensOne ==
  ASSUME NEW cl, NEW ops, NEW levels, NEW p, NEW r, AtOpening(cl, ops, levels, p, r)
  PROVE  Opened(cl, ops, levels, p, r, nextOpening(r, levels[Len(r.rows) + 1]))
<1> DEFINE k == Len(r.rows)
           q == nextOpening(r, levels[k + 1])
           own == Opening(r.got[levels[k + 1].root], r.got[levels[k + 1].at])
           h == Head(r.merkle)
           rest == [r EXCEPT !.merkle = Tail(r.merkle)]
<1>1. /\ p.merkle \in Seq(Hints) /\ r \in Readers /\ r.error = "none" /\ r.rows \in Seq(Hints)
      /\ r.merkle = LeftOf(p.merkle, k) /\ k \in Nat /\ k < Len(p.merkle) /\ k < Len(levels)
  BY ReaderParts DEF AtOpening, Reads, Opens, Proofs
<1>2. r.merkle # <<>> /\ h = p.merkle[k + 1] /\ h \in Hints /\ Tail(r.merkle) \in Seq(Hints)
      /\ Tail(r.merkle) = LeftOf(p.merkle, k + 1)
  BY <1>1, NextOfLeft
<1>3. rest \in Readers
  BY <1>1, <1>2 DEF Readers
<1> SUFFICES /\ q \in Readers
             /\ ~Failed(q) => Reads(cl, ops, q, p.stream) /\ Opens(ops, levels, p, q) /\ q.fs = r.fs /\ q.got = r.got
             /\ p.merkle[k + 1] = own => ~Failed(q)
  BY DEF Opened
<1>4. CASE h # own
  <2>1. q = Throw(rest, "invalidMerkleOpening")
    BY <1>2, <1>4 DEF nextOpening
  <2>2. q = [rest EXCEPT !.error = "invalidMerkleOpening"]
    BY <2>1 DEF Throw
  <2> HIDE DEF rest
  <2>3. q \in Readers /\ Failed(q)
    BY <1>3, <2>2 DEF Readers, Failed
  <2> QED
    BY <1>2, <1>4, <2>3
<1>5. CASE h = own
  <2>1. q = [rest EXCEPT !.rows = Append(@, h)]
    BY <1>2, <1>5 DEF nextOpening
  <2>2. q = [r EXCEPT !.merkle = Tail(r.merkle), !.rows = Append(r.rows, h)]
    BY <1>1, <2>1 DEF Readers
  <2>3. Append(r.rows, h) \in Seq(Hints) /\ Len(Append(r.rows, h)) = k + 1
    BY <1>1, <1>2, AppendProperties
  <2>4. /\ q \in Readers /\ q.error = "none" /\ q.fs = r.fs /\ q.got = r.got /\ q.stream = r.stream
        /\ q.merkle = Tail(r.merkle) /\ q.rows = Append(r.rows, h)
    BY <1>1, <1>2, <2>2, <2>3 DEF Readers
  <2>5. Reads(cl, ops, q, p.stream)
    BY <2>4 DEF AtOpening, Reads
  <2>6. Opens(ops, levels, p, q)
    <3>1. Len(q.rows) = k + 1 /\ k + 1 <= Len(levels) /\ Len(q.got) = Len(ops)
      BY <1>1, <2>3, <2>4 DEF AtOpening
    <3>2. q.merkle = LeftOf(p.merkle, k + 1)
      BY <1>1, <1>2, <2>4
    <3>3. \A l \in 1..(k + 1) : l \in 1..k \/ l = k + 1
      BY <1>1
    <3>4. \A l \in 1..k : p.merkle[l] = Opening(r.got[levels[l].root], r.got[levels[l].at])
      BY DEF AtOpening, Opens
    <3>5. \A l \in 1..(k + 1) : p.merkle[l] = Opening(q.got[levels[l].root], q.got[levels[l].at])
      BY <1>2, <1>5, <2>4, <3>3, <3>4
    <3> QED
      BY <3>1, <3>2, <3>5 DEF Opens
  <2> QED
    BY <2>4, <2>5, <2>6 DEF Failed
<1> QED
  BY <1>4, <1>5

(* Each opening; those of a proof that arrives as written are what the     *)
(* reader, whose results are the writer's, expects.                        *)
LEMMA ReadOpeningInv == Inv /\ ReadOpening => Inv'
<1> SUFFICES ASSUME Inv, ReadOpening PROVE Inv'
  OBVIOUS
<1> DEFINE k == Len(reader.rows)
           level == Openings[Size][k + 1]
           q == nextOpening(reader, level)
<1>1. stage = "walk" /\ Len(reader.got) = Len(Ops(Size)) /\ k < Len(Openings[Size]) /\ Read(q)
  BY DEF ReadOpening, Walked
<1>2. AtOpening(clears, Ops(Size), Openings[Size], proof, reader) /\ Openings[Size] \in Seq([root : Nat, at : Nat])
  <2>1. /\ Size \in Sizes /\ OpeningsOk(proof) /\ proof \in Proofs
        /\ Reads(clears, Ops(Size), reader, proof.stream) /\ Opens(Ops(Size), Openings[Size], proof, reader)
    BY <1>1, WalkParts
  <2>2. Len(proof.merkle) = Len(Openings[Size])
    BY <2>1 DEF OpeningsOk, Size
  <2> QED
    BY <1>1, <2>1, <2>2, ScheduleParts DEF AtOpening
<1>3. /\ q \in Readers
      /\ ~Failed(q) => /\ Reads(clears, Ops(Size), q, proof.stream) /\ Opens(Ops(Size), Openings[Size], proof, q)
                       /\ q.fs = reader.fs /\ q.got = reader.got
      /\ proof.merkle[k + 1] = Opening(reader.got[level.root], reader.got[level.at]) => ~Failed(q)
  <2>1. Opened(clears, Ops(Size), Openings[Size], proof, reader, q)
    BY <1>2, OpensOne
  <2> HIDE DEF q
  <2> QED
    BY <2>1 DEF Opened
<1>4. ASSUME proof = Written
      PROVE  ~Failed(q) /\ Follows(clears, Ops(Size), message, writer, q)
  <2>1. /\ Size = message[1] /\ proof.merkle = writer.merkle /\ proof.stream = writer.stream
        /\ Follows(clears, Ops(Size), message, writer, reader)
    BY <1>1, <1>4, WalkParts
  <2>2. reader.got = writer.told
    BY <1>1, <2>1, FollowedToTheEnd
  <2>3. Finished(clears, Ops(Size), Openings[Size], message, writer)
    BY <1>1, <2>1 DEF Inv, WriterInv
  <2>4. k + 1 \in DOMAIN Openings[Size]
    <3>1. k \in Nat
      BY <1>2, ReaderParts DEF AtOpening, Reads
    <3> QED
      BY <1>1, <1>2, <3>1
  <2>5. proof.merkle[k + 1] = Opening(reader.got[level.root], reader.got[level.at])
    <3>1. writer.merkle[k + 1] = Opening(writer.told[level.root], writer.told[level.at])
      BY <2>3, <2>4 DEF Finished
    <3> QED
      BY <2>1, <2>2, <3>1
  <2>6. ~Failed(q)
    BY <1>3, <2>5
  <2> HIDE DEF q
  <2> QED
    BY <1>3, <2>1, <2>6 DEF Follows
<1> HIDE DEF q
<1> QED
  BY <1>1, <1>3, <1>4, WalkStep

(* The end: nothing may be left over, and the algebra judges.  A reader    *)
(* that followed the writer has nothing left and the prover's messages.    *)
LEMMA FinishInv == Inv /\ Finish => Inv'
<1> SUFFICES ASSUME Inv, Finish PROVE Inv'
  OBVIOUS
<1>1. /\ stage = "walk" /\ Len(reader.got) = Len(Ops(Size)) /\ Len(reader.rows) = Len(Openings[Size])
      /\ reader' = finish(reader) /\ UNCHANGED <<message, clears, writer, proof>>
      /\ stage' = IF ~Failed(finish(reader)) /\ \A i \in DOMAIN reader.got : Agrees(reader, i)
                  THEN "accepted" ELSE "rejected"
  BY DEF Finish, Walked, Fixed
<1>2. /\ Size \in Sizes /\ SetupOk(proof) /\ OpeningsOk(proof) /\ proof \in Proofs
      /\ Reads(clears, Ops(Size), reader, proof.stream) /\ Opens(Ops(Size), Openings[Size], proof, reader)
  BY <1>1, WalkParts
<1>3. reader \in Readers /\ reader.error = "none"
  BY <1>2 DEF Reads
<1>4. finish(reader) \in Readers
  BY <1>3 DEF finish, Throw, Readers
<1>5. ~Failed(finish(reader)) => reader.stream = <<>> /\ reader.merkle = <<>> /\ finish(reader) = reader
  <2>1. Failed(Throw(reader, "notFullyConsumed"))
    BY <1>3 DEF Throw, Failed, Readers
  <2> QED
    BY <2>1 DEF finish
<1>6. Size' = Size /\ Written' = Written
  BY <1>1 DEF Size, Written
<1>7. stage' = "accepted" => /\ reader' = reader /\ reader.stream = <<>> /\ reader.merkle = <<>>
  BY <1>1, <1>5
<1>8. ReaderInv'
  BY <1>1, <1>2, <1>4, <1>6, <1>7 DEF ReaderInv
<1>9. ASSUME proof = Written
      PROVE  stage' = "accepted" /\ Size = message[1] /\ Follows(clears, Ops(message[1]), message, writer, reader)
  <2>1. /\ Size = message[1] /\ proof.merkle = writer.merkle /\ proof.stream = writer.stream
        /\ Follows(clears, Ops(Size), message, writer, reader)
    BY <1>1, <1>9, WalkParts
  <2>2. reader.got = writer.told /\ reader.stream = <<>>
    BY <1>1, <2>1, FollowedToTheEnd
  <2>3. reader.merkle = <<>>
    <3>1. reader.merkle = LeftOf(proof.merkle, Len(proof.merkle)) /\ proof.merkle \in Seq(Hints)
      BY <1>1, <1>2 DEF Opens, OpeningsOk, Size, Proofs
    <3> QED
      BY <3>1, SubSeqEmpty DEF LeftOf
  <2>4. finish(reader) = reader /\ ~Failed(reader)
    BY <1>3, <2>2, <2>3 DEF finish, Failed
  <2>5. ASSUME NEW i \in DOMAIN reader.got PROVE Agrees(reader, i)
    <3>1. i \in Checked => Ops(Size)[i].op \in {"scalar", "root"}
      <4>1. reader.got \in Seq(Results) /\ Ops(Size) \in Seq(OpSet)
        BY <1>2 DEF Reads, Transcribes
      <4>2. i \in DOMAIN Ops(Size)
        BY <1>1, <4>1
      <4> QED
        BY <1>2, <4>2, ScheduleParts
    <3>2. Ops(Size)[i].op \in {"scalar", "root"} => writer.told[i] = message[i]
      BY <2>1, <2>2 DEF Follows, Writes
    <3> QED
      BY <2>2, <3>1, <3>2 DEF Agrees
  <2> QED
    BY <1>1, <2>1, <2>4, <2>5
<1>10. FollowInv'
  BY <1>1, <1>6, <1>7, <1>9 DEF FollowInv
<1> QED
  BY <1>1, <1>8, <1>10 DEF Inv, WriterInv

-----------------------------------------------------------------------------
(* The invariant holds of every reachable state.                           *)
THEOREM InvHolds == Spec => []Inv
<1>1. Inv /\ [Next]_vars => Inv'
  <2> SUFFICES ASSUME Inv, [Next]_vars PROVE Inv'
    OBVIOUS
  <2>1. CASE SendScalar \/ SendRoot \/ Squeeze \/ Grind \/ GrindFails
    BY <2>1, WritingInv
  <2>2. CASE HintOpenings
    BY <2>2, HintInv
  <2>3. CASE Deliver
    BY <2>3, DeliverInv
  <2>4. CASE RejectSetup
    BY <2>4, RejectSetupInv
  <2>5. CASE StartWalk
    BY <2>5, StartWalkInv
  <2>6. CASE ReadScalar \/ ReadRoot \/ Sample \/ CheckPow
    BY <2>6, ReadingInv
  <2>7. CASE ReadOpening
    BY <2>7, ReadOpeningInv
  <2>8. CASE Finish
    BY <2>8, FinishInv
  <2>9. CASE UNCHANGED vars
    BY <2>9 DEF vars, Inv, WriterInv, ReaderInv, FollowInv, Size, Written
  <2> QED
    BY <2>1, <2>2, <2>3, <2>4, <2>5, <2>6, <2>7, <2>8, <2>9 DEF Next
<1> QED
  BY <1>1, InitInv, PTL DEF Spec

(* Completeness: a proof that arrives as written is read as it was written *)
(* and accepted, whatever the schedule, the messages and the hash.         *)
THEOREM ReaderFollows == Spec => []ReaderFollowsWriter
<1>1. Inv => ReaderFollowsWriter
  <2> SUFFICES ASSUME Inv, stage \in {"walk", "accepted", "rejected"}, proof = Written
               PROVE  /\ IsPrefix(reader.got, writer.told) /\ reader.error = "none"
                      /\ stage # "rejected"
                      /\ stage = "accepted" => reader.got = writer.told /\ reader.fs = writer.fs
    BY DEF ReaderFollowsWriter
  <2>1. stage \in {"walk", "accepted"} /\ Follows(clears, Ops(message[1]), message, writer, reader)
    BY DEF Inv, FollowInv
  <2>2. /\ Extends(writer.told, reader.got) /\ reader.error = "none" /\ reader.got \in Seq(Results)
        /\ writer.told \in Seq(Results)
    BY <2>1, WriterParts, ReaderParts DEF Follows, Reads, Writes
  <2>3. IsPrefix(reader.got, writer.told)
    BY <2>2, SubSeqFull DEF Extends, IsPrefix
  <2>4. stage = "accepted" => reader.got = writer.told /\ reader.fs = writer.fs
    <3> SUFFICES ASSUME stage = "accepted" PROVE reader.got = writer.told /\ reader.fs = writer.fs
      OBVIOUS
    <3>1. Head(writer.stream) = message[1] /\ Written.stream = writer.stream
      BY WrittenIsSetUp
    <3>2. Size = message[1]
      BY <3>1 DEF Size
    <3>3. Len(reader.got) = Len(Ops(message[1]))
      BY <3>2 DEF Inv, ReaderInv
    <3> QED
      BY <2>1, <3>3, FollowedToTheEnd
  <2> QED
    BY <2>1, <2>2, <2>3, <2>4
<1> QED
  BY <1>1, InvHolds, PTL

(* The chain binds the proof: a verifier that accepts at the writer's      *)
(* chain was given the writer's proof, to the last scalar and the last     *)
(* opening; nothing was read past, added, moved or dropped.                *)
THEOREM AcceptedIsBound == Spec => []ChainBindsProof
<1>1. Inv => ChainBindsProof
  <2> SUFFICES ASSUME Inv, stage = "accepted", reader.fs = writer.fs PROVE proof = Written
    BY DEF ChainBindsProof
  <2>1. /\ message[1] \in Sizes /\ Finished(clears, Ops(message[1]), Openings[message[1]], message, writer)
        /\ proof \in Proofs /\ SetupOk(proof) /\ OpeningsOk(proof) /\ Reads(clears, Ops(Size), reader, proof.stream)
        /\ Opens(Ops(Size), Openings[Size], proof, reader)
        /\ Len(reader.got) = Len(Ops(Size)) /\ Len(reader.rows) = Len(Openings[Size]) /\ reader.stream = <<>>
    BY MessagesAssumption DEF Inv, WriterInv, ReaderInv
  <2>2. proof.stream = writer.stream
    <3>1. /\ Carries(reader.fs, proof.stream) /\ Rest(reader.fs, proof.stream) = <<>>
          /\ Carries(reader.fs, writer.stream) /\ Entries(reader.fs, Len(reader.fs)) = Len(writer.stream)
      BY <2>1 DEF Reads, Finished, Writes, CarriesAll
    <3>2. Entries(reader.fs, Len(reader.fs)) = Len(proof.stream)
      BY <3>1, RestIsNext
    <3> QED
      BY <3>1, <3>2, OneChainOneStream
  <2>3. Size = message[1]
    <3>1. Head(writer.stream) = message[1]
      BY WrittenIsSetUp
    <3> QED
      BY <2>2, <3>1 DEF Size
  <2>4. reader.got = writer.told
    <3>1. /\ Transcribes(clears, Ops(Size), reader.fs, reader.got) /\ Transcribes(clears, Ops(Size), reader.fs, writer.told)
          /\ Len(reader.got) = Len(writer.told)
      BY <2>1, <2>3 DEF Reads, Finished, Writes
    <3> QED
      BY <3>1, OneChainOneRun
  <2>5. proof.merkle = writer.merkle
    <3>1. /\ proof.merkle \in Seq(Hints) /\ writer.merkle \in Seq(Hints) /\ Openings[Size] \in Seq([root : Nat, at : Nat])
          /\ Len(proof.merkle) = Len(Openings[Size])
      BY <2>1, <2>3, WriterParts, ScheduleParts DEF Proofs, Finished, Writes, OpeningsOk, Size
    <3>2. writer.merkle = [l \in DOMAIN Openings[Size] |->
                             Opening(reader.got[Openings[Size][l].root], reader.got[Openings[Size][l].at])]
      BY <2>1, <2>3, <2>4 DEF Finished
    <3>3. DOMAIN writer.merkle = 1..Len(Openings[Size])
      BY <3>1, <3>2
    <3>4. Len(writer.merkle) = Len(Openings[Size])
      BY <3>1, <3>3
    <3>5. ASSUME NEW l \in 1..Len(proof.merkle) PROVE proof.merkle[l] = writer.merkle[l]
      <4>1. proof.merkle[l] = Opening(reader.got[Openings[Size][l].root], reader.got[Openings[Size][l].at])
        BY <2>1, <3>1 DEF Opens
      <4>2. l \in DOMAIN Openings[Size]
        BY <3>1
      <4> QED
        BY <3>2, <4>1, <4>2
    <3> QED
      BY <3>1, <3>4, <3>5, SeqEqual
  <2> QED
    BY <2>1, <2>2, <2>5 DEF Written, Proofs
<1> QED
  BY <1>1, InvHolds, PTL

-----------------------------------------------------------------------------
(* What an op of the writer asks for: only a grind absorbs a nonce, last,  *)
(* after trying for it.                                                    *)
AsksOn(o, w, q, x) ==
  /\ Extends(q.asked, w.asked)
  /\ \A j \in (Len(w.asked) + 1)..Len(q.asked) : q.asked[j][2] = "nonce" <=> o.op = "grind" /\ j = Len(q.asked)
  /\ o.op = "grind" =>
       /\ Len(w.asked) < Len(q.asked) /\ q.asked[Len(q.asked)] = <<w.fs, "nonce", x>>
       /\ IF o.bits = 0 THEN x = 0
          ELSE \A n \in 0..x : <<w.fs, "try", n>> \in Range(q.asked) /\ (lowBitsZero(w.fs, n) <=> n = x)

Grinds(ops, w) == {i \in DOMAIN w.told : ops[i].op = "grind"}
Before(ops, w, i) == SubSeq(w.fs, 1, At(ops, i - 1))

Met(ops, w, i) ==
  IF ops[i].bits = 0 THEN w.told[i] = 0
  ELSE \A n \in 0..w.told[i] : /\ <<Before(ops, w, i), "try", n>> \in Range(w.asked)
                               /\ lowBitsZero(Before(ops, w, i), n) <=> n = w.told[i]

(* The parts of the writer's grinds.                                       *)
LEMMA GrindParts ==
  ASSUME NEW ops, NEW w
  PROVE  GrindsLeast(ops, w) <=>
           /\ {q \in Range(w.asked) : q[2] = "nonce"} = {<<Before(ops, w, i), "nonce", w.told[i]>> : i \in Grinds(ops, w)}
           /\ \A j, k \in DOMAIN w.asked : w.asked[j][2] = "nonce" /\ w.asked[j] = w.asked[k] => j = k
           /\ \A i \in Grinds(ops, w) : Met(ops, w, i)
BY DEF GrindsLeast, Grinds, Before, Met

(* The chain an op came to is shorter than the chain after it, and stays.  *)
LEMMA PrefixStays ==
  ASSUME NEW cl, NEW ops, NEW fs, NEW xs, Transcribes(cl, ops, fs, xs), NEW g \in Seq(BlockSet),
         Extends(g, fs), NEW i \in 1..Len(xs), NEW a, a = At(ops, i - 1)
  PROVE  SubSeq(g, 1, a) = SubSeq(fs, 1, a) /\ Len(SubSeq(fs, 1, a)) < Len(fs)
<1>1. /\ ops \in Seq(OpSet) /\ fs \in Seq(BlockSet) /\ xs \in Seq(Results) /\ Len(xs) <= Len(ops)
      /\ Len(fs) = At(ops, Len(xs))
  BY DEF Transcribes
<1>2. Len(xs) \in Nat /\ Len(ops) \in Nat /\ Len(fs) \in Nat /\ Len(g) \in Nat
  BY <1>1, LenProperties
<1>3. i \in Nat /\ i <= Len(xs) /\ i - 1 \in 0..Len(ops) /\ i \in 0..Len(xs) /\ Len(xs) \in 0..Len(ops) /\ i - 1 < Len(ops)
  BY <1>1, <1>2
<1>4. At(ops, i) <= At(ops, Len(xs)) /\ At(ops, i) \in Nat
  BY <1>1, <1>3, AtGrows
<1>5. At(ops, i - 1) \in Nat /\ At(ops, (i - 1) + 1) = At(ops, i - 1) + Width(ops[(i - 1) + 1])
  BY <1>1, <1>3, AtGrows
<1>6. (i - 1) + 1 = i /\ Width(ops[i]) \in {1, 2}
  BY <1>3 DEF Width
<1>7. a \in Nat /\ a < Len(fs) /\ a <= Len(g)
  <2>1. At(ops, i) = a + Width(ops[i])
    BY <1>5, <1>6
  <2>2. a \in Nat /\ Len(fs) <= Len(g)
    BY <1>5 DEF Extends
  <2>3. At(ops, i) <= Len(fs)
    BY <1>1, <1>4
  <2>4. a < At(ops, i)
    BY ONLY <1>6, <2>1, <2>2, <1>4
  <2> QED
    BY <1>2, <1>4, <2>2, <2>3, <2>4
<1>8. /\ SubSeq(fs, 1, a) \in Seq(BlockSet) /\ Len(SubSeq(fs, 1, a)) = a
      /\ SubSeq(g, 1, a) \in Seq(BlockSet) /\ Len(SubSeq(g, 1, a)) = a
  <2>1. a <= Len(fs) /\ a <= Len(g) /\ a \in Nat
    BY <1>2, <1>7
  <2> HIDE <1>7
  <2> QED
    BY ONLY <1>1, <1>2, <2>1, g \in Seq(BlockSet)
<1>9. \A j \in 1..a : SubSeq(g, 1, a)[j] = SubSeq(fs, 1, a)[j]
  BY <1>1, <1>2, <1>7, EntriesOfPrefix
<1>10. SubSeq(g, 1, a) = SubSeq(fs, 1, a)
  BY <1>8, <1>9, SeqEqual
<1> QED
  BY <1>7, <1>8, <1>10

(* One op more, and the grinds are still the least.                        *)
LEMMA GrindsOn ==
  ASSUME NEW cl, NEW ops, NEW m, NEW w, NEW q, NEW x, Writes(cl, ops, m, w), Len(w.told) < Len(ops), q \in Writers,
         q.told = Append(w.told, x), x \in Results, Extends(q.fs, w.fs), AsksOn(ops[Len(w.told) + 1], w, q, x),
         GrindsLeast(ops, w)
  PROVE  GrindsLeast(ops, q)
<1> DEFINE e == Len(w.told) + 1
           o == ops[e]
           old == Len(w.asked)
           new == Len(q.asked)
<1>1. /\ w.told \in Seq(Results) /\ w.asked \in Seq(Queries) /\ q.asked \in Seq(Queries) /\ q.fs \in Seq(BlockSet)
      /\ Transcribes(cl, ops, w.fs, w.told) /\ w.fs \in Seq(BlockSet) /\ ops \in Seq(OpSet)
      /\ Len(w.fs) = At(ops, Len(w.told))
  BY WriterParts DEF Writes, Transcribes
<1>2. /\ \A i \in 1..Len(w.told) : q.told[i] = w.told[i]
      /\ q.told[e] = x /\ DOMAIN q.told = 1..e /\ DOMAIN w.told = 1..Len(w.told) /\ Len(w.told) \in Nat
  BY <1>1
<1>3. /\ old \in Nat /\ new \in Nat /\ old <= new /\ DOMAIN w.asked = 1..old /\ DOMAIN q.asked = 1..new
      /\ \A j \in 1..old : q.asked[j] = w.asked[j]
  <2>1. Extends(q.asked, w.asked)
    BY DEF AsksOn
  <2>2. old \in Nat /\ new \in Nat /\ old <= new /\ SubSeq(q.asked, 1, old) = w.asked
    BY <1>1, <2>1, LenProperties DEF Extends
  <2>3. \A j \in 1..old : SubSeq(q.asked, 1, old)[j] = q.asked[j]
    BY <1>1, <2>2
  <2> QED
    BY <1>1, <2>2, <2>3
<1>4. ASSUME NEW i \in 1..Len(w.told)
      PROVE  /\ Before(ops, q, i) = Before(ops, w, i) /\ Len(Before(ops, w, i)) < Len(w.fs)
  <2> DEFINE a == At(ops, i - 1)
  <2> HIDE DEF a
  <2>1. SubSeq(q.fs, 1, a) = SubSeq(w.fs, 1, a) /\ Len(SubSeq(w.fs, 1, a)) < Len(w.fs)
    BY <1>1, PrefixStays DEF a
  <2> QED
    BY <2>1 DEF Before, a
<1>5. Before(ops, q, e) = w.fs
  BY <1>1, <1>2 DEF Before, Extends
<1>6. /\ \A j \in (old + 1)..new : q.asked[j][2] = "nonce" <=> o.op = "grind" /\ j = new
      /\ o.op = "grind" => /\ old < new /\ q.asked[new] = <<w.fs, "nonce", x>>
                           /\ IF o.bits = 0 THEN x = 0
                              ELSE \A n \in 0..x : /\ <<w.fs, "try", n>> \in Range(q.asked)
                                                   /\ lowBitsZero(w.fs, n) <=> n = x
  BY DEF AsksOn
<1> DEFINE nonces(v) == {a \in Range(v.asked) : a[2] = "nonce"}
           sent(v) == {<<Before(ops, v, i), "nonce", v.told[i]>> : i \in Grinds(ops, v)}
<1>7. nonces(w) = sent(w)
  BY GrindParts
<1>8. Range(w.asked) = {w.asked[j] : j \in 1..old} /\ Range(q.asked) = {q.asked[j] : j \in 1..new}
  BY <1>3 DEF Range
<1> HIDE DEF o, old, new
<1>9. Grinds(ops, q) = Grinds(ops, w) \cup (IF o.op = "grind" THEN {e} ELSE {})
  BY <1>2 DEF Grinds, o
<1>10. \A i \in Grinds(ops, w) : i \in 1..Len(w.told)
  BY <1>2 DEF Grinds
<1>11. nonces(q) = nonces(w) \cup (IF o.op = "grind" THEN {<<w.fs, "nonce", x>>} ELSE {})
  <2>1. ASSUME NEW a \in nonces(q) PROVE a \in nonces(w) \/ (o.op = "grind" /\ a = <<w.fs, "nonce", x>>)
    <3>1. PICK j \in 1..new : a = q.asked[j] /\ a[2] = "nonce"
      BY <1>8
    <3>2. CASE j \in 1..old
      BY <3>1, <3>2, <1>3, <1>8
    <3>3. CASE j \notin 1..old
      BY <3>1, <3>3, <1>3, <1>6
    <3> QED
      BY <3>2, <3>3
  <2>2. ASSUME NEW a \in nonces(w) PROVE a \in nonces(q)
    <3>1. PICK j \in 1..old : a = w.asked[j] /\ a[2] = "nonce"
      BY <1>8
    <3>2. j \in 1..new /\ a = q.asked[j]
      BY <3>1, <1>3
    <3> QED
      BY <3>1, <3>2, <1>8
  <2>3. o.op = "grind" => <<w.fs, "nonce", x>> \in nonces(q)
    BY <1>3, <1>6, <1>8
  <2> QED
    BY <2>1, <2>2, <2>3
<1>12. sent(q) = sent(w) \cup (IF o.op = "grind" THEN {<<w.fs, "nonce", x>>} ELSE {})
  <2> DEFINE send(v, i) == <<Before(ops, v, i), "nonce", v.told[i]>>
  <2>1. \A i \in Grinds(ops, w) : send(q, i) = send(w, i)
    BY <1>2, <1>4, <1>10
  <2>2. send(q, e) = <<w.fs, "nonce", x>>
    BY <1>2, <1>5
  <2>3. \A v : sent(v) = {send(v, i) : i \in Grinds(ops, v)}
    OBVIOUS
  <2> HIDE DEF send, sent, e
  <2>4. ASSUME NEW a \in sent(q) PROVE a \in sent(w) \/ (o.op = "grind" /\ a = <<w.fs, "nonce", x>>)
    <3>1. PICK i \in Grinds(ops, q) : a = send(q, i)
      BY <2>3
    <3> QED
      BY <3>1, <1>9, <2>1, <2>2, <2>3
  <2>5. ASSUME NEW a \in sent(w) PROVE a \in sent(q)
    <3>1. PICK i \in Grinds(ops, w) : a = send(w, i)
      BY <2>3
    <3> QED
      BY <3>1, <1>9, <2>1, <2>3
  <2>6. o.op = "grind" => <<w.fs, "nonce", x>> \in sent(q)
    <3>1. o.op = "grind" => e \in Grinds(ops, q)
      BY <1>9
    <3> QED
      BY <2>2, <2>3, <3>1
  <2> QED
    BY <2>4, <2>5, <2>6
<1>13. nonces(q) = sent(q)
  BY <1>7, <1>11, <1>12
<1>14. ASSUME NEW j \in 1..old, w.asked[j][2] = "nonce"
       PROVE  w.asked[j] # <<w.fs, "nonce", x>>
  <2>1. w.asked[j] \in sent(w)
    BY <1>7, <1>8, <1>14
  <2>2. PICK i \in Grinds(ops, w) : w.asked[j] = <<Before(ops, w, i), "nonce", w.told[i]>>
    BY <2>1
  <2>3. Before(ops, w, i) # w.fs
    BY <1>1, <1>4, <1>10
  <2> QED
    BY <2>2, <2>3
<1>15. ASSUME NEW j \in 1..new, NEW k \in 1..new, q.asked[j][2] = "nonce", q.asked[j] = q.asked[k], j <= k
       PROVE  j = k
  <2>1. CASE k \in 1..old
    <3>1. j \in 1..old /\ w.asked[j] = w.asked[k] /\ w.asked[j][2] = "nonce"
      BY <1>3, <1>15, <2>1
    <3> QED
      BY <3>1, <2>1, <1>3, GrindParts
  <2>2. CASE k \notin 1..old /\ j \in 1..old
    <3>1. q.asked[k] = <<w.fs, "nonce", x>>
      BY <1>3, <1>6, <1>15, <2>2
    <3>2. q.asked[j] = w.asked[j] /\ w.asked[j][2] = "nonce"
      BY <1>3, <1>15, <2>2
    <3> QED
      BY <1>14, <1>15, <2>2, <3>1, <3>2
  <2>3. CASE k \notin 1..old /\ j \notin 1..old
    BY <1>3, <1>6, <1>15, <2>3
  <2> QED
    BY <2>1, <2>2, <2>3
<1>16. \A j, k \in DOMAIN q.asked : q.asked[j][2] = "nonce" /\ q.asked[j] = q.asked[k] => j = k
  <2> SUFFICES ASSUME NEW j \in DOMAIN q.asked, NEW k \in DOMAIN q.asked, q.asked[j][2] = "nonce", q.asked[j] = q.asked[k]
               PROVE  j = k
    OBVIOUS
  <2>1. j \in 1..new /\ k \in 1..new
    BY <1>3
  <2>2. CASE j <= k
    BY <2>1, <2>2, <1>15
  <2>3. CASE k <= j
    BY <2>1, <2>3, <1>15
  <2> QED
    BY <2>1, <2>2, <2>3, <1>3
<1>17. ASSUME NEW i \in Grinds(ops, q) PROVE Met(ops, q, i)
  <2>1. CASE i \in Grinds(ops, w)
    <3>1. Met(ops, w, i) /\ Before(ops, q, i) = Before(ops, w, i) /\ q.told[i] = w.told[i]
      BY <2>1, <1>2, <1>4, <1>10, GrindParts
    <3>2. Range(w.asked) \subseteq Range(q.asked)
      <4> SUFFICES ASSUME NEW j \in 1..old PROVE w.asked[j] \in Range(q.asked)
        BY <1>8
      <4>1. j \in 1..new /\ q.asked[j] = w.asked[j]
        BY <1>3
      <4> QED
        BY <4>1, <1>8
    <3> QED
      BY <3>1, <3>2 DEF Met
  <2>2. CASE i \notin Grinds(ops, w)
    <3>1. i = e /\ o.op = "grind"
      BY <1>9, <1>17, <2>2
    <3> HIDE DEF e
    <3> QED
      BY <3>1, <1>2, <1>5, <1>6 DEF Met, o
  <2> QED
    BY <2>1, <2>2
<1> QED
  BY <1>13, <1>16, <1>17, GrindParts

(* Queries that absorb no nonce.                                           *)
Quiet(t, s) == t \in Seq(Queries) /\ Extends(t, s) /\ \A j \in (Len(s) + 1)..Len(t) : t[j][2] # "nonce"

(* What more is asked, is asked later.                                     *)
LEMMA AskedLater ==
  ASSUME NEW s \in Seq(Queries), NEW t \in Seq(Queries), Extends(t, s), NEW u \in Seq(Queries)
  PROVE  /\ Extends(t \o u, s) /\ t \o u \in Seq(Queries) /\ Len(t \o u) = Len(t) + Len(u)
         /\ \A j \in 1..Len(t) + Len(u) : (t \o u)[j] = IF j <= Len(t) THEN t[j] ELSE u[j - Len(t)]
<1>1. Len(s) \in Nat /\ Len(t) \in Nat /\ Len(s) <= Len(t) /\ SubSeq(t, 1, Len(s)) = s
  BY LenProperties DEF Extends
<1>2. /\ t \o u \in Seq(Queries) /\ Len(t \o u) = Len(t) + Len(u) /\ Len(u) \in Nat
      /\ \A j \in 1..Len(t) + Len(u) : (t \o u)[j] = IF j <= Len(t) THEN t[j] ELSE u[j - Len(t)]
  BY <1>1, ConcatProperties, LenProperties
<1>3. Len(t \o u) \in Nat /\ Len(s) <= Len(t \o u)
  BY <1>1, <1>2
<1>4. \A j \in 1..Len(s) : (t \o u)[j] = s[j]
  <2>1. \A j \in 1..Len(s) : SubSeq(t, 1, Len(s))[j] = t[j]
    BY <1>1
  <2> QED
    BY <1>1, <1>2, <2>1
<1>5. SubSeq(t \o u, 1, Len(s)) \in Seq(Queries) /\ Len(SubSeq(t \o u, 1, Len(s))) = Len(s)
  BY <1>1, <1>2, <1>3
<1>6. \A j \in 1..Len(s) : SubSeq(t \o u, 1, Len(s))[j] = (t \o u)[j]
  BY <1>1, <1>2, <1>3
<1>7. \A j \in 1..Len(s) : SubSeq(t \o u, 1, Len(s))[j] = s[j]
  BY <1>4, <1>6
<1>8. SubSeq(t \o u, 1, Len(s)) = s
  BY <1>5, <1>7, SeqEqual
<1> QED
  BY <1>2, <1>3, <1>8 DEF Extends

(* Nothing more asked, and more asked that absorbs no nonce.               *)
LEMMA QuietGrows ==
  ASSUME NEW s \in Seq(Queries), NEW t, Quiet(t, s), NEW u \in Seq(Queries), \A j \in DOMAIN u : u[j][2] # "nonce"
  PROVE  Quiet(t \o u, s) /\ Range(u) \subseteq Range(t \o u)
<1>1. /\ t \in Seq(Queries) /\ Len(s) \in Nat /\ Len(t) \in Nat /\ Len(s) <= Len(t) /\ SubSeq(t, 1, Len(s)) = s
      /\ \A j \in (Len(s) + 1)..Len(t) : t[j][2] # "nonce"
  BY LenProperties DEF Quiet, Extends
<1>2. /\ t \o u \in Seq(Queries) /\ Len(t \o u) = Len(t) + Len(u) /\ Len(u) \in Nat
      /\ \A j \in 1..Len(t) + Len(u) : (t \o u)[j] = IF j <= Len(t) THEN t[j] ELSE u[j - Len(t)]
  BY <1>1, ConcatProperties, LenProperties
<1>3. Extends(t \o u, s)
  BY <1>1, AskedLater DEF Quiet
<1>5. ASSUME NEW j \in (Len(s) + 1)..Len(t \o u) PROVE (t \o u)[j][2] # "nonce"
  <2>1. CASE j <= Len(t)
    BY <1>1, <1>2, <2>1
  <2>2. CASE ~(j <= Len(t))
    <3>1. j - Len(t) \in 1..Len(u) /\ (t \o u)[j] = u[j - Len(t)]
      BY <1>1, <1>2, <2>2
    <3> QED
      BY <3>1
  <2> QED
    BY <2>1, <2>2
<1>6. Range(u) \subseteq Range(t \o u)
  <2> SUFFICES ASSUME NEW j \in 1..Len(u) PROVE u[j] \in Range(t \o u)
    BY DEF Range
  <2> DEFINE i == Len(t) + j
  <2>1. i \in 1..Len(t) + Len(u) /\ ~(i <= Len(t)) /\ i - Len(t) = j
    BY <1>1, <1>2
  <2>2. i \in DOMAIN (t \o u) /\ (t \o u)[i] = u[j]
    BY <1>2, <2>1
  <2> QED
    BY <2>2 DEF Range
<1> QED
  BY <1>2, <1>3, <1>5, <1>6 DEF Quiet

(* One query more that absorbs no nonce.                                   *)
LEMMA QuietOne ==
  ASSUME NEW s \in Seq(Queries), NEW t, Quiet(t, s), NEW a \in Queries, a[2] # "nonce"
  PROVE  Quiet(Append(t, a), s)
<1>1. <<a>> \in Seq(Queries) /\ \A j \in DOMAIN <<a>> : <<a>>[j][2] # "nonce"
  OBVIOUS
<1>2. Quiet(t \o <<a>>, s)
  <2> DEFINE u == <<a>>
  <2> HIDE DEF u
  <2>1. Quiet(t \o u, s)
    BY <1>1, QuietGrows DEF u
  <2> QED
    BY <2>1 DEF u
<1>3. t \in Seq(Queries)
  BY DEF Quiet
<1> QED
  BY <1>2, <1>3, AppendIsConcat

(* Nothing asked absorbs no nonce.                                         *)
LEMMA QuietNone ==
  ASSUME NEW s \in Seq(Queries)
  PROVE  Quiet(s, s)
<1>1. Len(s) \in Nat /\ SubSeq(s, 1, Len(s)) = s
  BY LenProperties, SubSeqFull
<1> QED
  BY <1>1 DEF Quiet, Extends

(* An op that absorbs no nonce leaves the grinds the least.                *)
LEMMA QuietOp ==
  ASSUME NEW cl, NEW ops, NEW m, NEW w, NEW q, NEW x, Writes(cl, ops, m, w), Len(w.told) < Len(ops), q \in Writers,
         q.told = Append(w.told, x), x \in Results, Extends(q.fs, w.fs), ops[Len(w.told) + 1].op # "grind",
         Quiet(q.asked, w.asked), GrindsLeast(ops, w)
  PROVE  GrindsLeast(ops, q)
<1>1. AsksOn(ops[Len(w.told) + 1], w, q, x)
  BY DEF AsksOn, Quiet
<1> QED
  BY <1>1, GrindsOn

(* A scalar's op.                                                          *)
LEMMA GrindsScalar ==
  ASSUME NEW ops, NEW m, NEW w, Writes(clears, ops, m, w), Len(w.told) < Len(ops),
         ops[Len(w.told) + 1].op = "scalar", NEW x \in Scalars, x = m[Len(w.told) + 1],
         NEW q, q = Told(addScalar(w, x), x), GrindsLeast(ops, w)
  PROVE  GrindsLeast(ops, q)
<1> DEFINE b == <<"observe", x>>
           a == <<w.fs, "observe", x>>
<1>1. w \in Writers /\ w.fs \in Seq(BlockSet) /\ w.asked \in Seq(Queries) /\ x \in Results /\ b \in BlockSet
  BY WriterParts DEF Writes, Results, BlockSet
<1>2. a \in Queries /\ a[2] # "nonce"
  BY <1>1, ScalarAssumption DEF Queries
<1>3. q \in Writers
  <2>1. Writes(clears, ops, m, q)
    BY WritesScalar
  <2> QED
    BY <2>1 DEF Writes
<1>4. q = [w EXCEPT !.fs = Append(w.fs, b), !.asked = Append(w.asked, a), !.stream = Append(w.stream, x),
                    !.told = Append(w.told, x)]
  BY <1>1 DEF Told, addScalar, observe, Absorb, Writers
<1>5. q.fs = Append(w.fs, b) /\ q.asked = Append(w.asked, a) /\ q.told = Append(w.told, x)
  BY <1>1, <1>4 DEF Writers
<1> HIDE DEF a, b
<1>6. Extends(q.fs, w.fs)
  <2>1. AddsOne(q.fs, w.fs, b)
    BY <1>1, <1>5 DEF AddsOne
  <2> QED
    BY <2>1, OneMore
<1>7. Quiet(q.asked, w.asked)
  BY <1>1, <1>2, <1>5, QuietNone, QuietOne
<1>8. ops[Len(w.told) + 1].op # "grind"
  OBVIOUS
<1> QED
  BY <1>1, <1>3, <1>5, <1>6, <1>7, <1>8, QuietOp

(* A root's op.                                                            *)
LEMMA GrindsRoot ==
  ASSUME NEW ops, NEW m, NEW w, Writes(clears, ops, m, w), Len(w.told) < Len(ops),
         ops[Len(w.told) + 1].op = "root", NEW d \in Canonical, d = m[Len(w.told) + 1],
         NEW q, q = Told(addRoot(w, d), d), GrindsLeast(ops, w)
  PROVE  GrindsLeast(ops, q)
<1> DEFINE b == <<"observe", d[1]>>
           c == <<"observe", d[2]>>
           fs == Append(w.fs, b)
           a1 == <<w.fs, "observe", d[1]>>
           a2 == <<fs, "observe", d[2]>>
<1>1. /\ w \in Writers /\ w.fs \in Seq(BlockSet) /\ w.asked \in Seq(Queries) /\ d \in Results
      /\ d[1] \in Scalars /\ d[2] \in Scalars
  BY WriterParts DEF Writes, Results, Canonical
<1>2. b \in BlockSet /\ c \in BlockSet
  BY <1>1 DEF BlockSet
<1>3. a1 \in Queries /\ a1[2] # "nonce" /\ a2 \in Queries /\ a2[2] # "nonce"
  <2>1. fs \in Seq(BlockSet)
    BY <1>1, <1>2, AppendProperties
  <2> HIDE DEF fs
  <2> QED
    BY <1>1, <2>1, ScalarAssumption DEF Queries
<1>4. q \in Writers
  <2>1. Writes(clears, ops, m, q)
    BY WritesRoot
  <2> QED
    BY <2>1 DEF Writes
<1>5. q.fs = Append(fs, c) /\ q.asked = Append(Append(w.asked, a1), a2) /\ q.told = Append(w.told, d)
  <2> DEFINE u == addScalar(w, d[1])
             v == addScalar(u, d[2])
  <2>1. CarriesAll(w.fs, w.stream) /\ q = Told(v, d)
    BY DEF Writes, addRoot
  <2> HIDE DEF u
  <2>2. AddsScalar(u, w, d[1])
    BY <1>1, <2>1 DEF AddsScalar, u
  <2>3. u \in Writers /\ CarriesAll(u.fs, u.stream) /\ u.fs = fs /\ u.told = w.told /\ u.asked = Append(w.asked, a1)
    BY <2>2, AddScalar
  <2> HIDE DEF v
  <2>4. AddsScalar(v, u, d[2])
    BY <1>1, <2>3 DEF AddsScalar, v
  <2>5. v \in Writers /\ v.fs = Append(u.fs, c) /\ v.told = u.told /\ v.asked = Append(u.asked, <<u.fs, "observe", d[2]>>)
    BY <2>4, AddScalar
  <2>6. Told(v, d).fs = v.fs /\ Told(v, d).told = Append(v.told, d) /\ Told(v, d).asked = v.asked
    BY <1>1, <2>5, TellsIt
  <2> HIDE DEF fs, c, a1
  <2> QED
    BY <2>1, <2>3, <2>5, <2>6
<1>6. q.fs = Append(Append(w.fs, b), c) /\ q.asked = Append(Append(w.asked, a1), a2) /\ q.told = Append(w.told, d)
  BY <1>5
<1> HIDE DEF a1, a2, b, c
<1>7. Extends(q.fs, w.fs)
  <2>1. AddsTwo(q.fs, w.fs, b, c)
    BY <1>1, <1>2, <1>6 DEF AddsTwo
  <2> QED
    BY <2>1, TwoMore
<1>8. Quiet(q.asked, w.asked)
  <2>1. Quiet(Append(w.asked, a1), w.asked)
    BY <1>1, <1>3, QuietNone, QuietOne
  <2> QED
    BY <1>1, <1>3, <1>6, <2>1, QuietOne
<1>9. ops[Len(w.told) + 1].op # "grind"
  OBVIOUS
<1> QED
  BY <1>1, <1>4, <1>6, <1>7, <1>8, <1>9, QuietOp

(* A challenge.                                                            *)
LEMMA GrindsSqueeze ==
  ASSUME NEW ops, NEW m, NEW w, Writes(clears, ops, m, w), Len(w.told) < Len(ops),
         ops[Len(w.told) + 1].op = "sample", NEW q, q = Told(squeeze(w), w.fs), GrindsLeast(ops, w)
  PROVE  GrindsLeast(ops, q)
<1> DEFINE b == <<"squeeze", 0>>
           a == <<w.fs, "squeeze", 0>>
<1>1. w \in Writers /\ w.fs \in Seq(BlockSet) /\ w.asked \in Seq(Queries)
  BY WriterParts DEF Writes
<1>2. a \in Queries /\ a[2] # "nonce" /\ b \in BlockSet /\ w.fs \in Results
  BY <1>1, ScalarAssumption DEF Queries, BlockSet, Results
<1>3. q \in Writers
  <2>1. Writes(clears, ops, m, q)
    BY WritesSqueeze
  <2> QED
    BY <2>1 DEF Writes
<1>4. q = [w EXCEPT !.fs = Append(w.fs, b), !.asked = Append(w.asked, a), !.told = Append(w.told, w.fs)]
  BY <1>1 DEF Told, squeeze, Absorb, Writers
<1>5. q.fs = Append(w.fs, b) /\ q.asked = Append(w.asked, a) /\ q.told = Append(w.told, w.fs)
  BY <1>1, <1>4 DEF Writers
<1> HIDE DEF a, b
<1>6. Extends(q.fs, w.fs)
  <2>1. AddsOne(q.fs, w.fs, b)
    BY <1>1, <1>2, <1>5 DEF AddsOne
  <2> QED
    BY <2>1, OneMore
<1>7. Quiet(q.asked, w.asked)
  BY <1>1, <1>2, <1>5, QuietNone, QuietOne
<1>8. ops[Len(w.told) + 1].op # "grind"
  OBVIOUS
<1> QED
  BY <1>2, <1>3, <1>5, <1>6, <1>7, <1>8, QuietOp

(* A nonce absorbed last.                                                  *)
Ends(v, s, t, a) == s \in Seq(Queries) /\ Quiet(t, s) /\ a \in Queries /\ a[2] = "nonce" /\ v = Append(t, a)

(* It is the only one that is new.                                         *)
LEMMA NonceLast ==
  ASSUME NEW v, NEW s, NEW t, NEW a, Ends(v, s, t, a)
  PROVE  /\ Extends(v, s) /\ Len(s) < Len(v) /\ v[Len(v)] = a /\ Range(t) \subseteq Range(v)
         /\ \A j \in (Len(s) + 1)..Len(v) : v[j][2] = "nonce" <=> j = Len(v)
<1>1. /\ s \in Seq(Queries) /\ t \in Seq(Queries) /\ Extends(t, s) /\ \A j \in (Len(s) + 1)..Len(t) : t[j][2] # "nonce"
      /\ a \in Queries /\ a[2] = "nonce" /\ v = Append(t, a)
  BY DEF Quiet, Ends
<1>2. Len(s) \in Nat /\ Len(t) \in Nat /\ Len(s) <= Len(t)
  BY <1>1, LenProperties DEF Extends
<1>3. v \in Seq(Queries) /\ Len(v) = Len(t) + 1 /\ v[Len(t) + 1] = a /\ \A j \in 1..Len(t) : v[j] = t[j]
  BY <1>1, AppendProperties
<1>4. Extends(v, s)
  <2> DEFINE u == <<a>>
  <2>1. u \in Seq(Queries) /\ v = t \o u
    BY <1>1, AppendIsConcat
  <2> HIDE DEF u
  <2> QED
    BY <1>1, <2>1, AskedLater
<1>5. Range(t) \subseteq Range(v)
  <2> SUFFICES ASSUME NEW j \in 1..Len(t) PROVE t[j] \in Range(v)
    BY <1>1 DEF Range
  <2>1. j \in 1..Len(v) /\ v[j] = t[j] /\ DOMAIN v = 1..Len(v)
    BY <1>2, <1>3
  <2> QED
    BY <2>1 DEF Range
<1>6. ASSUME NEW j \in (Len(s) + 1)..Len(v) PROVE v[j][2] = "nonce" <=> j = Len(v)
  <2>1. CASE j = Len(v)
    BY <1>1, <1>3, <2>1
  <2>2. CASE j # Len(v)
    <3>1. j \in (Len(s) + 1)..Len(t) /\ v[j] = t[j]
      BY <1>2, <1>3, <2>2
    <3> QED
      BY <1>1, <2>2, <3>1
  <2> QED
    BY <2>1, <2>2
<1> QED
  BY <1>2, <1>3, <1>4, <1>5, <1>6

(* A grind: the nonces tried, then the least that clears.                  *)
LEMMA GrindsGrind ==
  ASSUME NEW ops, NEW m, NEW w, Writes(clears, ops, m, w), Len(w.told) < Len(ops),
         NEW o, o = ops[Len(w.told) + 1], o.op = "grind", Found(w.fs, o.bits), NEW q, q = grind(w, o.bits),
         GrindsLeast(ops, w)
  PROVE  GrindsLeast(ops, q)
<1> DEFINE x == IF o.bits = 0 THEN 0 ELSE findNonce(w.fs)
           b == <<"nonce", x>>
           tries == IF o.bits = 0 THEN <<>> ELSE Tries(w.fs, x)
           mid == Append(w.asked, <<w.fs, "base", 0>>) \o tries
<1>1. w \in Writers /\ w.fs \in Seq(BlockSet) /\ w.asked \in Seq(Queries) /\ w.told \in Seq(Results)
  BY WriterParts DEF Writes
<1>2. /\ x \in Scalars /\ x \in Nat
      /\ IF o.bits = 0 THEN x = 0 ELSE \A n \in 0..x : lowBitsZero(w.fs, n) <=> n = x
  <2>1. CASE o.bits = 0
    BY <2>1, ScalarAssumption
  <2>2. CASE o.bits # 0
    <3>1. /\ x \in 0..(FUEL - 1) /\ lowBitsZero(w.fs, x) /\ \A n \in 0..(x - 1) : ~lowBitsZero(w.fs, n)
      BY <2>2, NonceClears
    <3>2. ASSUME NEW n \in 0..x PROVE lowBitsZero(w.fs, n) <=> n = x
      <4>1. n = x \/ n \in 0..(x - 1)
        BY <3>1, FuelAssumption
      <4> QED
        BY <3>1, <4>1
    <3> QED
      BY <2>2, <3>1, <3>2, FuelAssumption
  <2> QED
    BY <2>1, <2>2
<1> HIDE DEF x
<1>0. q = [w EXCEPT !.fs = Append(w.fs, b), !.asked = Append(mid, <<w.fs, "nonce", x>>), !.stream = Append(w.stream, x),
                    !.told = Append(w.told, x)]
  BY <1>1 DEF grind, Told, absorbNonce, powBase, Absorb, Writers, x
<1>14. PICK a : a = <<w.fs, "nonce", x>>
  OBVIOUS
<1>3. b \in BlockSet /\ x \in Results /\ a \in Queries /\ a[2] = "nonce"
  BY <1>1, <1>2, <1>14 DEF BlockSet, Results, Queries
<1>4. tries \in Seq(Queries) /\ \A j \in DOMAIN tries : tries[j][2] # "nonce"
  <2>1. Tries(w.fs, x) \in Seq(Queries) /\ \A j \in DOMAIN Tries(w.fs, x) : Tries(w.fs, x)[j][2] # "nonce"
    <3>1. Tries(w.fs, x) \in Seq(Queries)
      BY <1>1, <1>2, TriesAreQueries
    <3> QED
      BY <3>1 DEF Tries
  <2>2. <<>> \in Seq(Queries) /\ DOMAIN <<>> = {}
    BY EmptySeq
  <2> QED
    BY <2>1, <2>2
<1>5. o.bits # 0 => \A n \in 0..x : <<w.fs, "try", n>> \in Range(tries)
  <2> SUFFICES ASSUME o.bits # 0, NEW n \in 0..x PROVE <<w.fs, "try", n>> \in Range(Tries(w.fs, x))
    OBVIOUS
  <2> DEFINE j == n + 1
  <2>1. j \in 1..(x + 1) /\ j - 1 = n
    BY <1>2
  <2> HIDE DEF j
  <2>2. j \in DOMAIN Tries(w.fs, x) /\ Tries(w.fs, x)[j] = <<w.fs, "try", n>>
    BY <2>1 DEF Tries
  <2> QED
    BY <2>2 DEF Range
<1> HIDE DEF tries
<1>6. Quiet(mid, w.asked) /\ Range(tries) \subseteq Range(mid)
  <2>1. Quiet(w.asked, w.asked)
    BY <1>1, QuietNone
  <2>2. <<w.fs, "base", 0>> \in Queries
    BY <1>1 DEF Queries
  <2>3. Quiet(Append(w.asked, <<w.fs, "base", 0>>), w.asked)
    <3> DEFINE base == <<w.fs, "base", 0>>
    <3>1. base[2] # "nonce" /\ base \in Queries
      BY <2>2
    <3> HIDE DEF base
    <3>2. Quiet(Append(w.asked, base), w.asked)
      BY <1>1, <2>1, <3>1, QuietOne
    <3> QED
      BY <3>2 DEF base
  <2> QED
    BY <1>1, <1>4, <2>3, QuietGrows
<1>7. q \in Writers
  <2>1. Writes(clears, ops, m, q)
    BY WritesGrind
  <2> QED
    BY <2>1 DEF Writes
<1> HIDE DEF mid, b
<1>9. q.fs = Append(w.fs, b) /\ q.asked = Append(mid, a) /\ q.told = Append(w.told, x)
  BY <1>0, <1>1, <1>14 DEF Writers
<1>10. Extends(q.fs, w.fs)
  <2>1. AddsOne(q.fs, w.fs, b)
    BY <1>1, <1>3, <1>9 DEF AddsOne
  <2> QED
    BY <2>1, OneMore
<1>11. /\ Extends(q.asked, w.asked) /\ Len(w.asked) < Len(q.asked) /\ q.asked[Len(q.asked)] = a
       /\ Range(mid) \subseteq Range(q.asked)
       /\ \A j \in (Len(w.asked) + 1)..Len(q.asked) : q.asked[j][2] = "nonce" <=> j = Len(q.asked)
  <2>1. Ends(q.asked, w.asked, mid, a)
    BY <1>1, <1>3, <1>6, <1>9 DEF Ends
  <2> QED
    BY <2>1, NonceLast
<1>12. o.bits # 0 => \A n \in 0..x : <<w.fs, "try", n>> \in Range(q.asked)
  BY <1>5, <1>6, <1>11
<1>13. AsksOn(o, w, q, x)
  <2>1. IF o.bits = 0 THEN x = 0
        ELSE \A n \in 0..x : <<w.fs, "try", n>> \in Range(q.asked) /\ (lowBitsZero(w.fs, n) <=> n = x)
    BY <1>2, <1>12
  <2>2. q.asked[Len(q.asked)] = <<w.fs, "nonce", x>>
    BY ONLY <1>11, <1>14, Zenon
  <2> QED
    BY <1>11, <2>1, <2>2 DEF AsksOn
<1> QED
  BY <1>3, <1>7, <1>9, <1>10, <1>13, GrindsOn

(* Asking more that absorbs no nonce, with no op run.                      *)
LEMMA GrindsKept ==
  ASSUME NEW ops, NEW w, NEW q, w.asked \in Seq(Queries), q.fs = w.fs, q.told = w.told, Quiet(q.asked, w.asked),
         GrindsLeast(ops, w)
  PROVE  GrindsLeast(ops, q)
<1> DEFINE old == Len(w.asked)
           new == Len(q.asked)
<1>1. /\ old \in Nat /\ new \in Nat /\ old <= new /\ DOMAIN w.asked = 1..old /\ DOMAIN q.asked = 1..new
      /\ \A j \in 1..old : q.asked[j] = w.asked[j]
      /\ \A j \in (old + 1)..new : q.asked[j][2] # "nonce"
  <2>1. q.asked \in Seq(Queries) /\ Extends(q.asked, w.asked)
    BY DEF Quiet
  <2>2. old \in Nat /\ new \in Nat /\ old <= new /\ SubSeq(q.asked, 1, old) = w.asked
    BY <2>1, LenProperties DEF Extends
  <2>3. \A j \in 1..old : SubSeq(q.asked, 1, old)[j] = q.asked[j]
    BY <2>1, <2>2
  <2> QED
    BY <2>1, <2>2, <2>3 DEF Quiet
<1> HIDE DEF old, new
<1>2. Range(w.asked) = {w.asked[j] : j \in 1..old} /\ Range(q.asked) = {q.asked[j] : j \in 1..new}
  BY <1>1 DEF Range
<1>3. Range(w.asked) \subseteq Range(q.asked)
  <2> SUFFICES ASSUME NEW j \in 1..old PROVE w.asked[j] \in Range(q.asked)
    BY <1>2
  <2>1. j \in 1..new /\ q.asked[j] = w.asked[j]
    BY <1>1
  <2> QED
    BY <2>1, <1>2
<1>4. \A j \in 1..new : q.asked[j][2] = "nonce" => j \in 1..old
  BY <1>1
<1>5. {a \in Range(q.asked) : a[2] = "nonce"} = {a \in Range(w.asked) : a[2] = "nonce"}
  <2>1. ASSUME NEW a \in Range(q.asked), a[2] = "nonce" PROVE a \in Range(w.asked)
    <3>1. PICK j \in 1..new : a = q.asked[j]
      BY <1>2
    <3>2. j \in 1..old /\ a = w.asked[j]
      BY <1>1, <1>4, <2>1, <3>1
    <3> QED
      BY <3>2, <1>2
  <2> QED
    BY <1>3, <2>1
<1>6. \A j, k \in DOMAIN q.asked : q.asked[j][2] = "nonce" /\ q.asked[j] = q.asked[k] => j = k
  <2> SUFFICES ASSUME NEW j \in 1..new, NEW k \in 1..new, q.asked[j][2] = "nonce", q.asked[j] = q.asked[k]
               PROVE  j = k
    BY <1>1
  <2>1. j \in 1..old /\ k \in 1..old
    BY <1>4
  <2>2. w.asked[j] = w.asked[k] /\ w.asked[j][2] = "nonce"
    BY <1>1, <2>1
  <2> QED
    BY <1>1, <2>1, <2>2, GrindParts
<1>7. Grinds(ops, q) = Grinds(ops, w) /\ \A i : Before(ops, q, i) = Before(ops, w, i)
  BY DEF Grinds, Before
<1>8. \A i \in Grinds(ops, q) : Met(ops, q, i)
  <2>1. \A i \in Grinds(ops, w) : Met(ops, w, i)
    BY GrindParts
  <2> QED
    BY <1>3, <1>7, <2>1 DEF Met
<1>9. {<<Before(ops, q, i), "nonce", q.told[i]>> : i \in Grinds(ops, q)}
        = {<<Before(ops, w, i), "nonce", w.told[i]>> : i \in Grinds(ops, w)}
  BY <1>7
<1> QED
  BY <1>5, <1>6, <1>8, <1>9, GrindParts

(* A grind that gives up has tried every nonce, and absorbs none.          *)
LEMMA GrindsGiveUp ==
  ASSUME NEW cl, NEW ops, NEW m, NEW w, Writes(cl, ops, m, w), GrindsLeast(ops, w), NEW q, q = GiveUp(w)
  PROVE  GrindsLeast(ops, q) /\ q.fs = w.fs /\ \A n \in 0..(FUEL - 1) : <<w.fs, "try", n>> \in Range(q.asked)
<1> DEFINE tries == Tries(w.fs, FUEL - 1)
<1>1. w \in Writers /\ w.fs \in Seq(BlockSet) /\ w.asked \in Seq(Queries)
  BY WriterParts DEF Writes
<1>2. PICK base : base = <<w.fs, "base", 0>>
  OBVIOUS
<1>3. base \in Queries /\ base[2] # "nonce"
  BY <1>1, <1>2 DEF Queries
<1>4. q.fs = w.fs /\ q.told = w.told /\ q.asked = Append(w.asked, base) \o tries
  BY <1>1, <1>2 DEF GiveUp, powBase, Writers
<1>5. tries \in Seq(Queries) /\ \A j \in DOMAIN tries : tries[j][2] # "nonce"
  <2>1. tries \in Seq(Queries)
    BY <1>1, FuelAssumption, TriesAreQueries
  <2> QED
    BY <2>1 DEF Tries
<1>6. \A n \in 0..(FUEL - 1) : <<w.fs, "try", n>> \in Range(tries)
  <2> SUFFICES ASSUME NEW n \in 0..(FUEL - 1) PROVE <<w.fs, "try", n>> \in Range(tries)
    OBVIOUS
  <2> DEFINE j == n + 1
  <2>1. j \in 1..((FUEL - 1) + 1) /\ j - 1 = n
    BY FuelAssumption
  <2> HIDE DEF j
  <2>2. j \in DOMAIN tries /\ tries[j] = <<w.fs, "try", n>>
    BY <2>1 DEF Tries
  <2> QED
    BY <2>2 DEF Range
<1> HIDE DEF tries
<1>7. Quiet(q.asked, w.asked) /\ Range(tries) \subseteq Range(q.asked)
  <2>1. Quiet(Append(w.asked, base), w.asked)
    BY <1>1, <1>3, QuietNone, QuietOne
  <2> QED
    BY <1>1, <1>4, <1>5, <2>1, QuietGrows
<1>8. GrindsLeast(ops, q)
  BY <1>1, <1>4, <1>7, GrindsKept
<1> QED
  BY <1>4, <1>6, <1>7, <1>8

(* The same of any hash, writer and stage: what a step may be checked on.  *)
LeastOf(cl, ops, w) ==
  /\ {q \in Range(w.asked) : q[2] = "nonce"} = {<<Before(ops, w, i), "nonce", w.told[i]>> : i \in Grinds(ops, w)}
  /\ \A j, k \in DOMAIN w.asked : w.asked[j][2] = "nonce" /\ w.asked[j] = w.asked[k] => j = k
  /\ \A i \in Grinds(ops, w) :
       IF ops[i].bits = 0 THEN w.told[i] = 0
       ELSE \A n \in 0..w.told[i] : /\ <<Before(ops, w, i), "try", n>> \in Range(w.asked)
                                    /\ n \in cl[Weight(Before(ops, w, i)) % 2] <=> n = w.told[i]

NoneOf(cl, w) == \A n \in 0..(FUEL - 1) : n \notin cl[Weight(w.fs) % 2] /\ <<w.fs, "try", n>> \in Range(w.asked)

GrindInv == LeastOf(clears, Ops(message[1]), writer) /\ (stage = "unproved" => NoneOf(clears, writer))

(* It is what the property says.                                           *)
LEMMA LeastIs ==
  ASSUME NEW ops, NEW w
  PROVE  GrindsLeast(ops, w) <=> LeastOf(clears, ops, w)
BY GrindParts DEF LeastOf, Met, lowBitsZero

(* A step that leaves a writer whose grinds are the least.                 *)
LEMMA GrindsNext ==
  ASSUME NEW w, writer' = w, UNCHANGED <<message, clears>>, LeastOf(clears, Ops(message[1]), w),
         stage' = "unproved" => NoneOf(clears, w)
  PROVE  GrindInv'
BY DEF GrindInv

(* The writer's ops.                                                       *)
LEMMA GrindsWriting ==
  ASSUME Inv, GrindInv, SendScalar \/ SendRoot \/ Squeeze \/ Grind \/ GrindFails
  PROVE  GrindInv'
<1> DEFINE ops == Ops(message[1])
           i == Len(writer.told) + 1
<1>1. /\ message \in Messages /\ message[1] \in Sizes /\ Writes(clears, ops, message, writer)
      /\ GrindsLeast(ops, writer)
  BY MessagesAssumption, LeastIs DEF Inv, WriterInv, GrindInv
<1>2. stage = "write" /\ Len(writer.told) < Len(ops)
  BY DEF SendScalar, SendRoot, Squeeze, Grind, GrindFails, Writing
<1>3. i \in DOMAIN ops /\ ops \in Seq(OpSet)
  <2>1. writer.told \in Seq(Results) /\ ops \in Seq(OpSet)
    BY <1>1, ScheduleParts, WriterParts DEF Writes
  <2> QED
    BY <2>1, <1>2
<1>4. ASSUME NEW q, Write(q), GrindsLeast(ops, q) PROVE GrindInv'
  <2>1. writer' = q /\ UNCHANGED <<message, clears>> /\ stage' = "write"
    BY <1>2, <1>4 DEF Write, Fixed
  <2>2. LeastOf(clears, ops, q)
    BY <1>4, LeastIs
  <2> QED
    BY <2>1, <2>2, GrindsNext
<1>5. CASE SendScalar
  <2>1. ops[i].op = "scalar" /\ Write(Told(addScalar(writer, message[i]), message[i]))
    BY <1>5 DEF SendScalar, Writing, ToSend
  <2>2. message[i] \in Scalars
    BY <1>1, <1>3, <2>1, MessagesAssumption DEF Ops
  <2>3. GrindsLeast(ops, Told(addScalar(writer, message[i]), message[i]))
    BY <1>1, <1>2, <2>1, <2>2, GrindsScalar
  <2> QED
    BY <1>4, <2>1, <2>3
<1>6. CASE SendRoot
  <2>1. ops[i].op = "root" /\ Write(Told(addRoot(writer, message[i]), message[i]))
    BY <1>6 DEF SendRoot, Writing, ToSend
  <2>2. message[i] \in Canonical
    BY <1>1, <1>3, <2>1, MessagesAssumption DEF Ops, Canonical
  <2>3. GrindsLeast(ops, Told(addRoot(writer, message[i]), message[i]))
    BY <1>1, <1>2, <2>1, <2>2, GrindsRoot
  <2> QED
    BY <1>4, <2>1, <2>3
<1>7. CASE Squeeze
  <2>1. ops[i].op = "sample" /\ Write(Told(squeeze(writer), writer.fs))
    BY <1>7 DEF Squeeze, Writing
  <2>2. GrindsLeast(ops, Told(squeeze(writer), writer.fs))
    BY <1>1, <1>2, <2>1, GrindsSqueeze
  <2> QED
    BY <1>4, <2>1, <2>2
<1>8. CASE Grind
  <2>1. ops[i].op = "grind" /\ Found(writer.fs, ops[i].bits) /\ Write(grind(writer, ops[i].bits))
    BY <1>8 DEF Grind, Writing, Bits
  <2>2. GrindsLeast(ops, grind(writer, ops[i].bits))
    BY <1>1, <1>2, <2>1, GrindsGrind
  <2> QED
    BY <1>4, <2>1, <2>2
<1>9. CASE GrindFails
  <2> DEFINE q == GiveUp(writer)
  <2>1. writer' = q /\ UNCHANGED <<message, clears>> /\ ~Found(writer.fs, Bits)
    BY <1>9 DEF GrindFails, Fixed
  <2>2. GrindsLeast(ops, q) /\ q.fs = writer.fs /\ \A n \in 0..(FUEL - 1) : <<writer.fs, "try", n>> \in Range(q.asked)
    BY <1>1, GrindsGiveUp
  <2>3. NoneOf(clears, q) /\ LeastOf(clears, ops, q)
    BY <2>1, <2>2, LeastIs DEF Found, lowBitsZero, NoneOf
  <2> HIDE DEF q
  <2> QED
    BY <2>1, <2>2, <2>3, GrindsNext
<1> QED
  BY <1>5, <1>6, <1>7, <1>8, <1>9

(* Every other step leaves the chain and what was asked for it as it is.   *)
LEMMA GrindsElse ==
  ASSUME GrindInv, UNCHANGED <<message, clears>>, writer'.fs = writer.fs, writer'.told = writer.told,
         writer'.asked = writer.asked, stage' = "unproved" => stage = "unproved"
  PROVE  GrindInv'
BY DEF GrindInv, LeastOf, NoneOf, Grinds, Before

(* Grinding finds the least nonce that clears, and a grind that finds none *)
(* leaves none behind.                                                     *)
THEOREM GrindsAreLeast == Spec => []GrindIsLeast
<1>1. Init => GrindInv
  <2> SUFFICES ASSUME Init PROVE GrindInv
    OBVIOUS
  <2>1. writer.told = <<>> /\ writer.asked = Seeding /\ stage = "write" /\ DOMAIN <<>> = {}
    BY DEF Init
  <2>2. \A j \in DOMAIN Seeding : Seeding[j][2] = "seed"
    BY DEF Seeding
  <2>3. Grinds(Ops(message[1]), writer) = {}
    BY <2>1 DEF Grinds
  <2>4. {q \in Range(writer.asked) : q[2] = "nonce"} = {}
    BY <2>1, <2>2 DEF Range
  <2>5. GrindsLeast(Ops(message[1]), writer)
    BY <2>1, <2>2, <2>3, <2>4, GrindParts
  <2> QED
    BY <2>1, <2>5, LeastIs DEF GrindInv
<1>2. Inv /\ GrindInv /\ [Next]_vars => GrindInv'
  <2> SUFFICES ASSUME Inv, GrindInv, [Next]_vars PROVE GrindInv'
    OBVIOUS
  <2>1. CASE SendScalar \/ SendRoot \/ Squeeze \/ Grind \/ GrindFails
    BY <2>1, GrindsWriting
  <2>2. CASE HintOpenings
    <3>1. writer \in Writers
      BY DEF Inv, WriterInv, Writes
    <3>2. /\ writer'.fs = writer.fs /\ writer'.told = writer.told /\ writer'.asked = writer.asked
          /\ UNCHANGED <<message, clears>> /\ stage' = "deliver"
      BY <2>2, <3>1 DEF HintOpenings, Fixed, Writers
    <3> QED
      BY <3>2, GrindsElse
  <2>3. CASE Deliver
    BY <2>3, GrindsElse DEF Deliver, Fixed
  <2>4. CASE RejectSetup \/ StartWalk
    BY <2>4, GrindsElse DEF RejectSetup, StartWalk, Fixed
  <2>5. CASE ReadScalar \/ ReadRoot \/ Sample \/ CheckPow \/ ReadOpening
    <3>1. stage' = "unproved" => stage = "unproved"
      BY <2>5 DEF ReadScalar, ReadRoot, Sample, CheckPow, ReadOpening, Read
    <3>2. UNCHANGED <<message, clears, writer>>
      BY <2>5 DEF ReadScalar, ReadRoot, Sample, CheckPow, ReadOpening, Read, Fixed
    <3> QED
      BY <3>1, <3>2, GrindsElse
  <2>6. CASE Finish
    BY <2>6, GrindsElse DEF Finish, Fixed
  <2>7. CASE UNCHANGED vars
    BY <2>7, GrindsElse DEF vars
  <2> QED
    BY <2>1, <2>2, <2>3, <2>4, <2>5, <2>6, <2>7 DEF Next
<1>3. GrindInv => GrindIsLeast
  BY LeastIs DEF GrindInv, GrindIsLeast, NoneOf, lowBitsZero
<1> QED
  BY <1>1, <1>2, <1>3, InvHolds, PTL DEF Spec

-----------------------------------------------------------------------------
(* Induction: a set with 0 and with the successors of its naturals has     *)
(* them all.                                                               *)
LEMMA Induction ==
  ASSUME NEW S, 0 \in S, \A n \in Nat : n \in S => n + 1 \in S
  PROVE  \A n \in Nat : n \in S
<1> DEFINE C == Nat \ S
<1>1. SUFFICES ASSUME C # {}
              PROVE  FALSE
  OBVIOUS
<1>2. PICK m \in C : \A j \in C : m <= j
  BY <1>1, LeastExists
<1>3. m - 1 \in Nat /\ m - 1 \notin C
  BY <1>2
<1> QED
  BY <1>2, <1>3

(* The running charges of the first n ops.                                 *)
Runs(ops, n, g) == g = [k \in 0..n |-> IF k = 0 THEN 0 ELSE g[k - 1] + Charge(ops[k])]

(* They exist.                                                             *)
LEMMA RunsExist ==
  ASSUME NEW ops, NEW n \in Nat
  PROVE  \E g : Runs(ops, n, g)
<1> DEFINE S == {k \in Nat : \E g : Runs(ops, k, g)}
<1>1. 0 \in S
  <2> DEFINE g == [k \in 0..0 |-> 0]
  <2>1. Runs(ops, 0, g)
    BY DEF Runs
  <2> QED
    BY <2>1
<1>2. ASSUME NEW k \in Nat, k \in S PROVE k + 1 \in S
  <2>1. PICK g : Runs(ops, k, g)
    BY <1>2
  <2> DEFINE h == [j \in 0..(k + 1) |-> IF j = k + 1 THEN g[k] + Charge(ops[k + 1]) ELSE g[j]]
  <2>2. ASSUME NEW j \in 0..(k + 1) PROVE h[j] = IF j = 0 THEN 0 ELSE h[j - 1] + Charge(ops[j])
    <3>1. CASE j = k + 1
      <4>1. h[j] = g[k] + Charge(ops[j]) /\ j # 0 /\ j - 1 = k /\ k # k + 1 /\ k \in 0..(k + 1)
        BY <3>1
      <4>2. h[k] = g[k]
        BY <4>1
      <4> QED
        BY <4>1, <4>2
    <3>2. CASE j # k + 1 /\ j = 0
      BY <3>2, <2>1 DEF Runs
    <3>3. CASE j # k + 1 /\ j # 0
      <4>1. j \in 0..k /\ h[j] = g[j] /\ j - 1 \in 0..(k + 1) /\ j - 1 # k + 1
        BY <3>3
      <4>2. h[j - 1] = g[j - 1]
        BY <4>1
      <4>3. g[j] = g[j - 1] + Charge(ops[j])
        BY <3>3, <4>1, <2>1 DEF Runs
      <4> QED
        BY <3>3, <4>1, <4>2, <4>3
    <3> QED
      BY <3>1, <3>2, <3>3
  <2>3. DOMAIN h = 0..(k + 1) /\ h = [j \in 0..(k + 1) |-> h[j]]
    OBVIOUS
  <2> HIDE DEF h
  <2>4. h = [j \in 0..(k + 1) |-> IF j = 0 THEN 0 ELSE h[j - 1] + Charge(ops[j])]
    BY <2>2, <2>3
  <2>5. Runs(ops, k + 1, h)
    BY <2>4 DEF Runs
  <2> QED
    BY <2>5
<1> HIDE DEF S
<1>3. \A k \in Nat : k \in S
  BY <1>1, <1>2, Induction
<1> QED
  BY <1>3 DEF S

(* Two of them agree as far as both go.                                    *)
LEMMA RunsAgree ==
  ASSUME NEW ops, NEW n \in Nat, NEW m \in Nat, m <= n, NEW g, NEW h, Runs(ops, n, g), Runs(ops, m, h)
  PROVE  g[m] = h[m]
<1> DEFINE S == {k \in Nat : k <= m => g[k] = h[k]}
<1>1. 0 \in S
  BY DEF Runs
<1>2. ASSUME NEW k \in Nat, k \in S PROVE k + 1 \in S
  <2> SUFFICES ASSUME k + 1 <= m PROVE g[k + 1] = h[k + 1]
    OBVIOUS
  <2>1. k + 1 \in 0..n /\ k + 1 \in 0..m /\ k + 1 # 0 /\ (k + 1) - 1 = k /\ g[k] = h[k]
    BY <1>2
  <2>2. g[k + 1] = g[(k + 1) - 1] + Charge(ops[k + 1])
    BY <2>1 DEF Runs
  <2>3. h[k + 1] = h[(k + 1) - 1] + Charge(ops[k + 1])
    BY <2>1 DEF Runs
  <2> QED
    BY <2>1, <2>2, <2>3
<1> HIDE DEF S
<1>3. \A k \in Nat : k \in S
  BY <1>1, <1>2, Induction
<1> QED
  BY <1>3 DEF S

(* What n ops are charged: nothing, and op by op.                          *)
LEMMA ChargedGrows ==
  ASSUME NEW ops
  PROVE  Charged(ops, 0) = 0 /\ \A n \in Nat : Charged(ops, n + 1) = Charged(ops, n) + Charge(ops[n + 1])
<1> DEFINE G(n) == CHOOSE g : Runs(ops, n, g)
<1>1. \A n \in Nat : Runs(ops, n, G(n))
  BY RunsExist
<1>2. \A n : Charged(ops, n) = G(n)[n]
  BY DEF Charged, Runs
<1> HIDE DEF G
<1>3. Charged(ops, 0) = 0
  <2>1. Runs(ops, 0, G(0))
    BY <1>1
  <2>2. G(0)[0] = 0
    BY <2>1 DEF Runs
  <2> QED
    BY <1>2, <2>2
<1>4. ASSUME NEW n \in Nat PROVE Charged(ops, n + 1) = Charged(ops, n) + Charge(ops[n + 1])
  <2>1. Runs(ops, n, G(n)) /\ Runs(ops, n + 1, G(n + 1))
    BY <1>1
  <2>2. G(n + 1)[n] = G(n)[n]
    BY <2>1, RunsAgree
  <2>3. n + 1 \in 0..(n + 1) /\ n + 1 # 0 /\ (n + 1) - 1 = n
    OBVIOUS
  <2>4. G(n + 1)[n + 1] = G(n + 1)[(n + 1) - 1] + Charge(ops[n + 1])
    BY <2>1, <2>3 DEF Runs
  <2> QED
    BY <1>2, <2>2, <2>3, <2>4
<1> QED
  BY <1>3, <1>4

(* Every op is charged something.                                          *)
LEMMA ChargeType ==
  ASSUME NEW o \in OpSet
  PROVE  Charge(o) \in Nat /\ Charge(o) > 0
BY DEF Charge, OpSet

(* So the charges are numbers.                                             *)
LEMMA ChargedType ==
  ASSUME NEW ops \in Seq(OpSet), NEW n \in 0..Len(ops)
  PROVE  Charged(ops, n) \in Nat
<1> DEFINE S == {k \in Nat : k <= Len(ops) => Charged(ops, k) \in Nat}
<1>1. 0 \in S
  <2>1. Charged(ops, 0) = 0
    BY ChargedGrows
  <2> QED
    BY <2>1
<1>2. ASSUME NEW k \in Nat, k \in S PROVE k + 1 \in S
  <2> SUFFICES ASSUME k + 1 <= Len(ops) PROVE Charged(ops, k + 1) \in Nat
    OBVIOUS
  <2>1. Charged(ops, k) \in Nat /\ ops[k + 1] \in OpSet
    BY <1>2
  <2>2. Charge(ops[k + 1]) \in Nat
    BY <2>1, ChargeType
  <2>3. Charged(ops, k + 1) = Charged(ops, k) + Charge(ops[k + 1])
    BY ChargedGrows
  <2> QED
    BY <2>1, <2>2, <2>3
<1> HIDE DEF S
<1>3. \A k \in Nat : k \in S
  BY <1>1, <1>2, Induction
<1> QED
  BY <1>3 DEF S

-----------------------------------------------------------------------------
(* What a reader's op asks for: what it is charged, unless the stream ends *)
(* before it has its scalars; and whether it goes on or rejects.           *)
AsksFor(o, r, q) ==
  \/ q.error = "none" /\ Len(q.got) = Len(r.got) + 1 /\ Len(q.asked) = Len(r.asked) + Charge(o)
  \/ /\ q.error \in {"powFailed", "nonCanonicalEncoding"} /\ q.got = r.got
     /\ Len(q.asked) = Len(r.asked) + Charge(o)
  \/ q.error = "exceededStream"

(* A block more: one query more.                                           *)
LEMMA TakeAsks ==
  ASSUME NEW r \in Readers, r.error = "none"
  PROVE  IF r.stream = <<>> THEN takeScalar(r).error = "exceededStream"
         ELSE /\ Len(takeScalar(r).asked) = Len(r.asked) + 1 /\ takeScalar(r) \in Readers
              /\ takeScalar(r).error = "none" /\ takeScalar(r).got = r.got
<1>1. CASE r.stream = <<>>
  BY <1>1 DEF takeScalar, takeRaw, Throw, Failed, Readers
<1>2. CASE r.stream # <<>>
  <2>1. r.stream \in Seq(Scalars) /\ r.fs \in Seq(BlockSet) /\ r.asked \in Seq(Queries)
    BY DEF Readers
  <2>2. PICK a : a = <<r.fs, "observe", Head(r.stream)>>
    OBVIOUS
  <2>3. a \in Queries
    <3>1. Head(r.stream) \in Nat
      BY <1>2, <2>1, HeadTailProperties, ScalarAssumption
    <3> QED
      BY <2>1, <2>2, <3>1 DEF Queries
  <2>4. takeRaw(r) = [r EXCEPT !.stream = Tail(r.stream)] /\ ~Failed(takeRaw(r))
    BY <1>2 DEF takeRaw, Readers, Failed
  <2>5. takeScalar(r).asked = Append(r.asked, a)
    BY <2>2, <2>4 DEF takeScalar, observe, Absorb, Readers
  <2>6. Len(Append(r.asked, a)) = Len(r.asked) + 1
    BY <2>1, <2>3, AppendProperties
  <2>7. Takes(takeScalar(r), r, "observe")
    BY <1>2, TakeScalar
  <2> QED
    BY <1>2, <2>5, <2>6, <2>7 DEF Takes
<1> QED
  BY <1>1, <1>2

(* A result asks for nothing.                                              *)
LEMMA GotAsks ==
  ASSUME NEW r \in Readers, r.error = "none", NEW x \in Results, NEW q, q = Got(r, x)
  PROVE  q.asked = r.asked /\ q.error = "none" /\ Len(q.got) = Len(r.got) + 1
<1>1. r.got \in Seq(Results)
  BY ReaderParts
<1>2. q = [r EXCEPT !.got = Append(r.got, x)]
  BY DEF Got, Failed
<1>3. Len(Append(r.got, x)) = Len(r.got) + 1
  BY <1>1, AppendProperties
<1> QED
  BY <1>2, <1>3 DEF Readers

(* Nor does an error.                                                      *)
LEMMA ThrowAsks ==
  ASSUME NEW r \in Readers, NEW e, NEW q, q = Throw(r, e)
  PROVE  q.asked = r.asked /\ q.error = e /\ q.got = r.got
BY DEF Throw, Readers

(* What a reader has asked for is a number of queries.                     *)
LEMMA AskedCount ==
  ASSUME NEW r \in Readers
  PROVE  Len(r.asked) \in Nat /\ Len(r.got) \in Nat
<1>1. r.asked \in Seq(Queries) /\ r.got \in Seq(Results)
  BY ReaderParts
<1> QED
  BY <1>1, LenProperties

(* A scalar's op.                                                          *)
LEMMA AsksScalar ==
  ASSUME NEW r \in Readers, r.error = "none", NEW o, o.op = "scalar", NEW q, q = nextScalar(r)
  PROVE  AsksFor(o, r, q)
<1>1. Charge(o) = 1
  BY DEF Charge
<1>2. PICK t : t = takeScalar(r)
  OBVIOUS
<1>3. q = Got(t, Head(r.stream))
  BY <1>2 DEF nextScalar
<1>4. CASE r.stream = <<>>
  <2>1. t.error = "exceededStream"
    BY <1>2, <1>4, TakeAsks
  <2>2. q = t
    BY <1>3, <2>1 DEF Got, Failed
  <2> QED
    BY <2>1, <2>2 DEF AsksFor
<1>5. CASE r.stream # <<>>
  <2>1. Len(t.asked) = Len(r.asked) + 1 /\ t \in Readers /\ t.error = "none" /\ t.got = r.got
    BY <1>2, <1>5, TakeAsks
  <2>2. Head(r.stream) \in Results
    <3>1. r.stream \in Seq(Scalars)
      BY ReaderParts
    <3> QED
      BY <1>5, <3>1, HeadTailProperties DEF Results
  <2>3. q.asked = t.asked /\ q.error = "none" /\ Len(q.got) = Len(t.got) + 1
    BY <1>3, <2>1, <2>2, GotAsks
  <2>4. Len(q.asked) = Len(r.asked) + Charge(o) /\ Len(q.got) = Len(r.got) + 1
    BY <1>1, <2>1, <2>3
  <2> QED
    BY <2>3, <2>4 DEF AsksFor
<1> QED
  BY <1>4, <1>5

(* A stream with a second scalar behind the first.                         *)
LEMMA TwoScalars ==
  ASSUME NEW s \in Seq(Scalars), s # <<>>, Tail(s) # <<>>
  PROVE  <<s[1], s[2]>> \in Results
<1>1. Len(s) \in Nat /\ Len(Tail(s)) = Len(s) - 1 /\ Tail(s) \in Seq(Scalars)
  BY HeadTailProperties, LenProperties
<1>2. Len(Tail(s)) # 0
  BY <1>1, EmptySeq
<1>3. 1 \in 1..Len(s) /\ 2 \in 1..Len(s)
  BY <1>1, <1>2
<1>4. s[1] \in Scalars /\ s[2] \in Scalars
  BY <1>3, ElementOfSeq
<1> QED
  BY <1>4 DEF Results

(* A root's op: both halves are asked for before either is judged.         *)
LEMMA AsksRoot ==
  ASSUME NEW r \in Readers, r.error = "none", NEW o, o.op = "root", NEW q, q = nextRoot(r)
  PROVE  AsksFor(o, r, q)
<1>1. Charge(o) = 2 /\ Len(r.asked) \in Nat /\ r.stream \in Seq(Scalars)
  BY AskedCount, ReaderParts DEF Charge
<1>2. PICK first : first = takeScalar(r)
  OBVIOUS
<1>3. PICK both : both = IF Failed(first) THEN first ELSE takeScalar(first)
  OBVIOUS
<1>4. PICK d : d = <<r.stream[1], r.stream[2]>>
  OBVIOUS
<1>5. q = IF Failed(both) THEN both
          ELSE IF d[1] \in Wide \/ d[2] \in Wide THEN Throw(both, "nonCanonicalEncoding") ELSE Got(both, d)
  BY <1>2, <1>3, <1>4 DEF nextRoot
<1>6. CASE r.stream = <<>>
  <2>1. first.error = "exceededStream"
    BY <1>2, <1>6, TakeAsks
  <2>2. q = first
    BY <1>3, <1>5, <2>1 DEF Failed
  <2> QED
    BY <2>1, <2>2 DEF AsksFor
<1>7. CASE r.stream # <<>>
  <2>1. Len(first.asked) = Len(r.asked) + 1 /\ first \in Readers /\ first.error = "none" /\ first.got = r.got
    BY <1>2, <1>7, TakeAsks
  <2>2. both = takeScalar(first)
    BY <1>3, <2>1 DEF Failed
  <2>3. CASE first.stream = <<>>
    <3>1. both.error = "exceededStream"
      BY <2>1, <2>2, <2>3, TakeAsks
    <3>2. q = both
      BY <1>5, <3>1 DEF Failed
    <3> QED
      BY <3>1, <3>2 DEF AsksFor
  <2>4. CASE first.stream # <<>>
    <3>1. Len(both.asked) = Len(first.asked) + 1 /\ both \in Readers /\ both.error = "none" /\ both.got = first.got
      BY <2>1, <2>2, <2>4, TakeAsks
    <3>2. Len(both.asked) = Len(r.asked) + Charge(o) /\ both.got = r.got
      BY <1>1, <2>1, <3>1
    <3>3. CASE d[1] \in Wide \/ d[2] \in Wide
      <4>1. q = Throw(both, "nonCanonicalEncoding")
        BY <1>5, <3>1, <3>3 DEF Failed
      <4>2. q.asked = both.asked /\ q.error = "nonCanonicalEncoding" /\ q.got = both.got
        BY <3>1, <4>1, ThrowAsks
      <4> QED
        BY <3>2, <4>2 DEF AsksFor
    <3>4. CASE ~(d[1] \in Wide \/ d[2] \in Wide)
      <4>1. q = Got(both, d)
        BY <1>5, <3>1, <3>4 DEF Failed
      <4>2. first.stream = Tail(r.stream)
        <5>1. Takes(first, r, "observe")
          BY <1>2, <1>7, TakeScalar
        <5> QED
          BY <5>1 DEF Takes
      <4>3. d \in Results
        BY <1>1, <1>4, <1>7, <2>4, <4>2, TwoScalars
      <4>4. q.asked = both.asked /\ q.error = "none" /\ Len(q.got) = Len(both.got) + 1
        BY <3>1, <4>1, <4>3, GotAsks
      <4>5. Len(q.asked) = Len(r.asked) + Charge(o) /\ Len(q.got) = Len(r.got) + 1
        BY <3>2, <4>4
      <4> QED
        BY <4>4, <4>5 DEF AsksFor
    <3> QED
      BY <3>3, <3>4
  <2> QED
    BY <2>3, <2>4
<1> QED
  BY <1>6, <1>7

(* A challenge.                                                            *)
LEMMA AsksSample ==
  ASSUME NEW r \in Readers, r.error = "none", NEW o, o.op = "sample", NEW q, q = sample(r)
  PROVE  AsksFor(o, r, q)
<1>1. r.fs \in Seq(BlockSet) /\ r.asked \in Seq(Queries) /\ r.got \in Seq(Results) /\ r.fs \in Results
  BY ReaderParts DEF Results
<1>2. Charge(o) = 1
  BY DEF Charge
<1>3. PICK a : a = <<r.fs, "squeeze", 0>>
  OBVIOUS
<1>4. a \in Queries
  BY <1>1, <1>3 DEF Queries
<1>5. q = [r EXCEPT !.fs = Append(r.fs, <<"squeeze", 0>>), !.asked = Append(r.asked, a), !.got = Append(r.got, r.fs)]
  BY <1>3 DEF sample, Got, squeeze, Absorb, Failed, Readers
<1>6. q.asked = Append(r.asked, a) /\ q.error = "none" /\ q.got = Append(r.got, r.fs)
  BY <1>5 DEF Readers
<1>7. Len(Append(r.asked, a)) = Len(r.asked) + 1 /\ Len(Append(r.got, r.fs)) = Len(r.got) + 1
  BY <1>1, <1>4, AppendProperties
<1> QED
  BY <1>2, <1>6, <1>7 DEF AsksFor

(* A grind's base, its tries and its nonce.                                *)
LEMMA ThreeQueries ==
  ASSUME NEW s \in Seq(Queries), NEW base \in Queries, NEW tries \in Seq(Queries), NEW nonce \in Queries
  PROVE  Len(Append(Append(s, base) \o tries, nonce)) = Len(s) + 1 + Len(tries) + 1
<1>1. PICK t : t = Append(s, base)
  OBVIOUS
<1>2. PICK u : u = t \o tries
  OBVIOUS
<1>3. t \in Seq(Queries) /\ Len(t) = Len(s) + 1
  BY <1>1, AppendProperties
<1>4. u \in Seq(Queries) /\ Len(u) = Len(t) + Len(tries)
  BY <1>2, <1>3, ConcatProperties
<1>5. Len(Append(u, nonce)) = Len(u) + 1
  BY <1>4, AppendProperties
<1> QED
  BY <1>1, <1>2, <1>3, <1>4, <1>5

(* A grinding check: the base, the nonce tried and the nonce absorbed,     *)
(* whether it clears or not.                                               *)
LEMMA AsksPow ==
  ASSUME NEW r \in Readers, r.error = "none", NEW o \in OpSet, o.op = "grind", NEW q, q = checkPow(r, o.bits)
  PROVE  AsksFor(o, r, q)
<1>1. r.fs \in Seq(BlockSet) /\ r.asked \in Seq(Queries) /\ r.got \in Seq(Results) /\ r.stream \in Seq(Scalars)
  BY ReaderParts
<1>2. CASE r.stream = <<>>
  <2>1. q = [r EXCEPT !.error = "exceededStream"]
    BY <1>2 DEF checkPow, takeRaw, Throw, Failed, Readers
  <2>2. q.error = "exceededStream"
    BY <2>1 DEF Readers
  <2> QED
    BY <2>2 DEF AsksFor
<1>3. CASE r.stream # <<>>
  <2>1. PICK x : x = Head(r.stream)
    OBVIOUS
  <2>2. x \in Scalars /\ x \in Nat /\ x \in Results
    BY <1>1, <1>3, <2>1, HeadTailProperties, ScalarAssumption DEF Results
  <2>3. PICK base : base = <<r.fs, "base", 0>>
    OBVIOUS
  <2>4. PICK nonce : nonce = <<r.fs, "nonce", x>>
    OBVIOUS
  <2>5. PICK try : try = <<r.fs, "try", x>>
    OBVIOUS
  <2>6. base \in Queries /\ nonce \in Queries /\ try \in Queries
    BY <1>1, <2>2, <2>3, <2>4, <2>5 DEF Queries
  <2>7. PICK tries : tries = IF o.bits = 0 THEN <<>> ELSE <<try>>
    OBVIOUS
  <2>8. tries \in Seq(Queries) /\ 1 + Len(tries) + 1 = Charge(o)
    <3>1. CASE o.bits = 0
      <4>1. tries = <<>> /\ Charge(o) = 2
        BY <2>7, <3>1 DEF Charge
      <4> QED
        BY <4>1
    <3>2. CASE o.bits # 0
      <4>1. tries = <<try>> /\ Charge(o) = 3
        BY <2>7, <3>2 DEF Charge
      <4> QED
        BY <2>6, <4>1
    <3> QED
      BY <3>1, <3>2
  <2>9. PICK asked : asked = Append(Append(r.asked, base) \o tries, nonce)
    OBVIOUS
  <2>10. Len(asked) = Len(r.asked) + Charge(o)
    <3>1. Len(asked) = Len(r.asked) + 1 + Len(tries) + 1
      BY <1>1, <2>6, <2>8, <2>9, ThreeQueries
    <3>2. Len(tries) \in Nat /\ Len(r.asked) \in Nat
      BY <1>1, <2>8, LenProperties
    <3> QED
      BY <2>8, <3>1, <3>2
  <2>11. PICK absorbed :
           absorbed = [r EXCEPT !.stream = Tail(r.stream), !.fs = Append(r.fs, <<"nonce", x>>), !.asked = asked]
    OBVIOUS
  <2>12. takeRaw(r) = [r EXCEPT !.stream = Tail(r.stream)] /\ ~Failed(takeRaw(r))
    BY <1>3 DEF takeRaw, Readers, Failed
  <2>13. q = IF PowOk(r, o.bits, x) THEN Got(absorbed, x) ELSE Throw(absorbed, "powFailed")
    BY <2>1, <2>3, <2>4, <2>5, <2>7, <2>9, <2>11, <2>12 DEF checkPow, powBase, absorbNonce, Absorb, Readers
  <2>14. absorbed.asked = asked /\ absorbed.error = "none" /\ absorbed.got = r.got /\ Len(Append(r.got, x)) = Len(r.got) + 1
    BY <1>1, <2>2, <2>11, AppendProperties DEF Readers
  <2>15. CASE PowOk(r, o.bits, x)
    <3>1. q = [absorbed EXCEPT !.got = Append(absorbed.got, x)]
      BY <2>13, <2>14, <2>15 DEF Got, Failed
    <3>2. q.asked = asked /\ q.error = "none" /\ q.got = Append(r.got, x)
      BY <2>11, <2>14, <3>1 DEF Readers
    <3> QED
      BY <2>10, <2>14, <3>2 DEF AsksFor
  <2>16. CASE ~PowOk(r, o.bits, x)
    <3>1. q = [absorbed EXCEPT !.error = "powFailed"]
      BY <2>13, <2>16 DEF Throw
    <3>2. q.asked = asked /\ q.error = "powFailed" /\ q.got = r.got
      BY <2>11, <2>14, <3>1 DEF Readers
    <3> QED
      BY <2>10, <3>2 DEF AsksFor
  <2> QED
    BY <2>15, <2>16
<1> QED
  BY <1>2, <1>3

(* The ops a reader has come to: those it has results of, and the one      *)
(* whose check rejected it.                                                *)
Done(r) == Len(r.got) + (IF r.error \in {"powFailed", "nonCanonicalEncoding"} THEN 1 ELSE 0)
ChargedUp(ops, r) == r.error # "exceededStream" => Len(r.asked) = Len(Seeding) + Charged(ops, Done(r))

(* Before the walk the verifier has hashed nothing; from then on, what the *)
(* ops it came to are charged.                                             *)
ChargeInv ==
  /\ stage \in {"write", "unproved", "deliver", "setup"} => reader.asked = <<>>
  /\ stage = "walk" \/ reader.asked # <<>> => ChargedUp(Ops(Size), reader)

(* The seed is three queries.                                              *)
LEMMA SeedingIsThree == Len(Seeding) = 3
<1>1. Seeding \in Seq(Queries) /\ DOMAIN Seeding = 1..3
  BY SeedingIsAsked DEF Seeding
<1>2. DOMAIN Seeding = 1..Len(Seeding) /\ Len(Seeding) \in Nat
  BY <1>1, LenProperties
<1> QED
  BY <1>1, <1>2

(* An op more is charged what it asks for.                                 *)
LEMMA ChargesOn ==
  ASSUME NEW ops \in Seq(OpSet), NEW r \in Readers, r.error = "none", Len(r.got) < Len(ops), ChargedUp(ops, r),
         NEW q, AsksFor(ops[Len(r.got) + 1], r, q)
  PROVE  ChargedUp(ops, q)
<1>1. PICK n : n = Len(r.got)
  OBVIOUS
<1>2. n \in Nat /\ n \in 0..Len(ops) /\ n + 1 \in 1..Len(ops) /\ n + 1 \in 0..Len(ops) /\ Len(r.asked) \in Nat
  <2>1. Len(r.got) \in Nat /\ Len(r.asked) \in Nat
    BY AskedCount
  <2>2. Len(ops) \in Nat
    OBVIOUS
  <2> QED
    BY <1>1, <2>1, <2>2
<1>3. Charged(ops, n + 1) = Charged(ops, n) + Charge(ops[n + 1])
  BY <1>2, ChargedGrows
<1>4. Charged(ops, n) \in Nat
  BY <1>2, ChargedType
<1>5. Charge(ops[n + 1]) \in Nat
  <2>1. ops[n + 1] \in OpSet
    BY <1>2
  <2> QED
    BY <2>1, ChargeType
<1>6. Len(r.asked) = 3 + Charged(ops, n)
  <2>1. Done(r) = n
    BY <1>1, <1>2 DEF Done
  <2> QED
    BY <2>1, SeedingIsThree DEF ChargedUp
<1>7. CASE q.error = "exceededStream"
  BY <1>7 DEF ChargedUp
<1>8. CASE q.error # "exceededStream"
  <2>1. Len(q.asked) = Len(r.asked) + Charge(ops[n + 1])
    BY <1>1, <1>8 DEF AsksFor
  <2>2. Done(q) = n + 1
    <3>1. CASE q.error = "none" /\ Len(q.got) = Len(r.got) + 1
      BY <1>1, <1>2, <3>1 DEF Done
    <3>2. CASE q.error \in {"powFailed", "nonCanonicalEncoding"} /\ q.got = r.got
      BY <1>1, <3>2 DEF Done
    <3> QED
      BY <1>8, <3>1, <3>2 DEF AsksFor
  <2>3. Len(q.asked) = 3 + Charged(ops, n + 1)
    BY <1>3, <1>4, <1>5, <1>6, <2>1
  <2> QED
    BY <2>2, <2>3, SeedingIsThree DEF ChargedUp
<1> QED
  BY <1>7, <1>8

(* Each op of the walk.                                                    *)
LEMMA ChargesReading == Inv /\ ChargeInv /\ (ReadScalar \/ ReadRoot \/ Sample \/ CheckPow) => ChargeInv'
<1> SUFFICES ASSUME Inv, ChargeInv, ReadScalar \/ ReadRoot \/ Sample \/ CheckPow
             PROVE  ChargeInv'
  OBVIOUS
<1>1. stage = "walk" /\ Len(reader.got) < Len(Ops(Size))
  BY DEF ReadScalar, ReadRoot, Sample, CheckPow, Walking
<1>2. reader \in Readers /\ reader.error = "none" /\ Ops(Size) \in Seq(OpSet)
  <2>1. Reads(clears, Ops(Size), reader, proof.stream)
    BY <1>1, WalkParts
  <2> QED
    BY <2>1 DEF Reads, Transcribes
<1>3. ChargedUp(Ops(Size), reader)
  BY <1>1 DEF ChargeInv
<1>4. NextOp = Ops(Size)[Len(reader.got) + 1] /\ NextOp \in OpSet
  <2>1. Len(reader.got) + 1 \in 1..Len(Ops(Size))
    <3>1. Len(reader.got) \in Nat
      BY <1>2, AskedCount
    <3> QED
      BY <1>1, <1>2, <3>1
  <2> QED
    BY <1>2, <2>1 DEF NextOp
<1>5. ASSUME NEW q, Read(q), AsksFor(NextOp, reader, q)
      PROVE  ChargeInv'
  <2>1. ChargedUp(Ops(Size), q)
    BY <1>1, <1>2, <1>3, <1>4, <1>5, ChargesOn
  <2>2. reader' = q /\ stage' = (IF Failed(q) THEN "rejected" ELSE "walk") /\ proof' = proof
    BY <1>1, <1>5 DEF Read
  <2>3. Size' = Size
    BY <2>2 DEF Size
  <2> QED
    BY <2>1, <2>2, <2>3 DEF ChargeInv
<1>6. CASE ReadScalar
  <2>1. NextOp.op = "scalar" /\ Read(nextScalar(reader))
    BY <1>6 DEF ReadScalar, Walking
  <2> QED
    BY <1>2, <1>5, <2>1, AsksScalar
<1>7. CASE ReadRoot
  <2>1. NextOp.op = "root" /\ Read(nextRoot(reader))
    BY <1>7 DEF ReadRoot, Walking
  <2> QED
    BY <1>2, <1>5, <2>1, AsksRoot
<1>8. CASE Sample
  <2>1. NextOp.op = "sample" /\ Read(sample(reader))
    BY <1>8 DEF Sample, Walking
  <2> QED
    BY <1>2, <1>5, <2>1, AsksSample
<1>9. CASE CheckPow
  <2>1. NextOp.op = "grind" /\ Read(checkPow(reader, NextOp.bits))
    BY <1>9 DEF CheckPow, Walking
  <2> QED
    BY <1>2, <1>4, <1>5, <2>1, AsksPow
<1> QED
  BY <1>6, <1>7, <1>8, <1>9

(* What comes after the walk hashes nothing in this chain and drops no     *)
(* result; its errors are not those of an op.                              *)
LEMMA ChargesKept ==
  ASSUME NEW ops, NEW r \in Readers, r.error = "none", ChargedUp(ops, r), NEW q, q.asked = r.asked, q.got = r.got,
         q.error \in {"none", "missingHint", "invalidMerkleOpening", "notFullyConsumed"}
  PROVE  ChargedUp(ops, q)
<1>1. Done(q) = Done(r)
  BY DEF Done
<1> QED
  BY <1>1 DEF ChargedUp

(* An opening.                                                             *)
LEMMA ChargesOpening == Inv /\ ChargeInv /\ ReadOpening => ChargeInv'
<1> SUFFICES ASSUME Inv, ChargeInv, ReadOpening PROVE ChargeInv'
  OBVIOUS
<1>1. PICK level : stage = "walk" /\ Read(nextOpening(reader, level))
  BY DEF ReadOpening, Walked
<1>2. reader \in Readers /\ reader.error = "none"
  <2>1. Reads(clears, Ops(Size), reader, proof.stream)
    BY <1>1, WalkParts
  <2> QED
    BY <2>1 DEF Reads
<1>3. PICK q : q = nextOpening(reader, level)
  OBVIOUS
<1>4. /\ q.asked = reader.asked /\ q.got = reader.got
      /\ q.error \in {"none", "missingHint", "invalidMerkleOpening", "notFullyConsumed"}
  <2>1. CASE reader.merkle = <<>>
    <3>1. q = Throw(reader, "missingHint")
      BY <1>3, <2>1 DEF nextOpening
    <3> QED
      BY <1>2, <3>1, ThrowAsks
  <2>2. CASE reader.merkle # <<>>
    <3>1. PICK rest : rest = [reader EXCEPT !.merkle = Tail(reader.merkle)]
      OBVIOUS
    <3>2. \/ q = [rest EXCEPT !.rows = Append(rest.rows, Head(reader.merkle))]
          \/ q = [rest EXCEPT !.error = "invalidMerkleOpening"]
      BY <1>3, <2>2, <3>1 DEF nextOpening, Throw
    <3> QED
      BY <1>2, <3>1, <3>2 DEF Readers
  <2> QED
    BY <2>1, <2>2
<1>5. ChargedUp(Ops(Size), q)
  <2>1. ChargedUp(Ops(Size), reader)
    BY <1>1 DEF ChargeInv
  <2> QED
    BY <1>2, <1>4, <2>1, ChargesKept
<1>6. reader' = q /\ stage' \in {"walk", "rejected"} /\ proof' = proof
  BY <1>1, <1>3 DEF Read
<1>7. Size' = Size
  BY <1>6 DEF Size
<1> QED
  BY <1>5, <1>6, <1>7 DEF ChargeInv

(* The end.                                                                *)
LEMMA ChargesFinish == Inv /\ ChargeInv /\ Finish => ChargeInv'
<1> SUFFICES ASSUME Inv, ChargeInv, Finish PROVE ChargeInv'
  OBVIOUS
<1>1. stage = "walk" /\ reader' = finish(reader) /\ proof' = proof /\ stage' \in {"accepted", "rejected"}
  BY DEF Finish, Walked
<1>2. reader \in Readers /\ reader.error = "none"
  <2>1. Reads(clears, Ops(Size), reader, proof.stream)
    BY <1>1, WalkParts
  <2> QED
    BY <2>1 DEF Reads
<1>3. PICK q : q = finish(reader)
  OBVIOUS
<1>4. q.asked = reader.asked /\ q.got = reader.got /\ q.error \in {"none", "notFullyConsumed"}
  <2>1. q = reader \/ q = Throw(reader, "notFullyConsumed")
    BY <1>3 DEF finish
  <2> QED
    BY <1>2, <2>1, ThrowAsks
<1>5. ChargedUp(Ops(Size), q)
  <2>1. ChargedUp(Ops(Size), reader)
    BY <1>1 DEF ChargeInv
  <2> QED
    BY <1>2, <1>4, <2>1, ChargesKept
<1>6. Size' = Size
  BY <1>1 DEF Size
<1> QED
  BY <1>1, <1>3, <1>5, <1>6 DEF ChargeInv

(* The steps before the walk.                                              *)
LEMMA ChargesBefore ==
  Inv /\ ChargeInv /\ (SendScalar \/ SendRoot \/ Squeeze \/ Grind \/ GrindFails \/ HintOpenings \/ Deliver
                       \/ RejectSetup \/ StartWalk \/ UNCHANGED vars) => ChargeInv'
<1>1. ASSUME ChargeInv, reader' = reader, proof' = proof, stage' = stage
      PROVE  ChargeInv'
  <2>1. Size' = Size
    BY <1>1 DEF Size
  <2> QED
    BY <1>1, <2>1 DEF ChargeInv
<1>2. ChargeInv /\ (SendScalar \/ SendRoot \/ Squeeze \/ Grind \/ UNCHANGED vars) => ChargeInv'
  BY <1>1 DEF SendScalar, SendRoot, Squeeze, Grind, Write, vars
<1>3. ASSUME ChargeInv, stage \in {"write", "unproved", "deliver", "setup"},
             reader' = reader, stage' \in {"unproved", "deliver", "rejected"}
      PROVE  ChargeInv'
  BY <1>3 DEF ChargeInv
<1>4. ChargeInv /\ (GrindFails \/ HintOpenings \/ RejectSetup) => ChargeInv'
  BY <1>3 DEF GrindFails, HintOpenings, RejectSetup, Writing
<1>5. ASSUME Deliver PROVE ChargeInv'
  <2>1. stage' = "setup" /\ reader' = Reader(proof')
    BY <1>5 DEF Deliver
  <2>2. reader'.asked = <<>>
    BY <2>1 DEF Reader
  <2> QED
    BY <2>1, <2>2 DEF ChargeInv
<1>6. ASSUME Inv, StartWalk PROVE ChargeInv'
  <2>1. stage = "setup" /\ stage' = "walk" /\ reader' = [reader EXCEPT !.asked = Seeding] /\ proof' = proof
    BY <1>6 DEF StartWalk
  <2>2. reader = Reader(proof)
    BY <1>6, <2>1 DEF Inv, ReaderInv
  <2>3. reader'.asked = Seeding /\ reader'.got = <<>> /\ reader'.error = "none"
    BY <2>1, <2>2 DEF Reader
  <2>4. ASSUME NEW q, q.asked = Seeding, q.got = <<>>, q.error = "none", NEW ops PROVE ChargedUp(ops, q)
    <3>1. Done(q) = 0
      BY <2>4 DEF Done
    <3>2. Charged(ops, 0) = 0
      BY ChargedGrows
    <3> QED
      BY <2>4, <3>1, <3>2, SeedingIsThree DEF ChargedUp
  <2>5. ChargedUp(Ops(Size), reader)'
    BY <2>3, <2>4 DEF Ops
  <2> QED
    BY <2>1, <2>5 DEF ChargeInv
<1> QED
  BY <1>2, <1>4, <1>5, <1>6

(* What the verifier hashes is what the ops it came to are charged, the    *)
(* op that rejected included, for every schedule, hash and delivery; and   *)
(* what the prover hashes for a nonce is the search for the least one      *)
(* (Transcript.lean, Proof.lean).                                          *)
THEOREM AskedAsCharged == Spec => []AskedIsCharged
<1>1. Init => ChargeInv
  <2> SUFFICES ASSUME Init PROVE ChargeInv
    OBVIOUS
  <2>1. stage = "write" /\ reader.asked = <<>>
    BY DEF Init, Reader
  <2> QED
    BY <2>1 DEF ChargeInv
<1>2. Inv /\ ChargeInv /\ [Next]_vars => ChargeInv'
  BY ChargesReading, ChargesOpening, ChargesFinish, ChargesBefore DEF Next
<1>3. GrindIsLeast /\ ChargeInv => AskedIsCharged
  BY DEF ChargeInv, ChargedUp, Done, AskedIsCharged
<1> QED
  BY <1>1, <1>2, <1>3, InvHolds, GrindsAreLeast, PTL DEF Spec

-----------------------------------------------------------------------------
(* A proof some prover could have written, whoever it was: the stream and  *)
(* the openings of a finished run, of which the algebra accepts the        *)
(* checked results.                                                        *)
Leads(cl, m, p, w) ==
  /\ Finished(cl, Ops(Head(p.stream)), Openings[Head(p.stream)], w.told, w)
  /\ w.stream = p.stream /\ w.merkle = p.merkle
  /\ \A i \in Checked \cap (1..Len(Ops(Head(p.stream)))) : w.told[i] = m[i]
Good(cl, m, p) == SetupOk(p) /\ \E w : Leads(cl, m, p, w)

(* A reader that took its ops, its openings and the whole stream, and that *)
(* the algebra accepts.                                                    *)
ReadWell(cl, m, p, r) ==
  LET levels == Openings[Head(p.stream)]
  IN  /\ p \in Proofs /\ SetupOk(p)
      /\ Reads(cl, Ops(Head(p.stream)), r, p.stream) /\ Len(r.got) = Len(Ops(Head(p.stream))) /\ r.stream = <<>>
      /\ Len(p.merkle) = Len(levels)
      /\ \A l \in 1..Len(levels) : p.merkle[l] = Opening(r.got[levels[l].root], r.got[levels[l].at])
      /\ \A i \in Checked \cap (1..Len(r.got)) : r.got[i] = m[i]

(* It shows that the proof is one: what it read is such a run.             *)
LEMMA ReadIsGood ==
  ASSUME NEW cl, NEW m, NEW p, NEW r, ReadWell(cl, m, p, r)
  PROVE  Good(cl, m, p)
<1> DEFINE size == Head(p.stream)
           ops == Ops(size)
           levels == Openings[size]
           w == [fs |-> r.fs, stream |-> p.stream, merkle |-> p.merkle, told |-> r.got, asked |-> <<>>]
<1>1. /\ p \in Proofs /\ SetupOk(p) /\ Reads(cl, ops, r, p.stream) /\ Len(r.got) = Len(ops) /\ r.stream = <<>>
      /\ Len(p.merkle) = Len(levels)
      /\ \A l \in 1..Len(levels) : p.merkle[l] = Opening(r.got[levels[l].root], r.got[levels[l].at])
      /\ \A i \in Checked \cap (1..Len(r.got)) : r.got[i] = m[i]
  BY Zenon DEF ReadWell
<1>2. size \in Sizes /\ levels \in Seq([root : Nat, at : Nat])
  BY <1>1, ScheduleParts DEF SetupOk
<1>3. /\ r \in Readers /\ Transcribes(cl, ops, r.fs, r.got) /\ Carries(r.fs, p.stream) /\ Rest(r.fs, p.stream) = <<>>
  BY <1>1 DEF Reads
<1>4. p.stream \in Seq(Scalars) /\ p.merkle \in Seq(Hints) /\ r.fs \in Seq(BlockSet) /\ r.got \in Seq(Results)
  BY <1>1, <1>3, ReaderParts DEF Proofs
<1>5. w \in Writers
  BY <1>4, EmptySeq DEF Writers
<1>6. w.fs = r.fs /\ w.stream = p.stream /\ w.merkle = p.merkle /\ w.told = r.got
  OBVIOUS
<1>7. CarriesAll(r.fs, p.stream)
  BY <1>3, RestIsNext DEF CarriesAll
<1> HIDE DEF w
<1>8. Writes(cl, ops, w.told, w)
  BY <1>3, <1>5, <1>6, <1>7 DEF Writes
<1>9. w.merkle = [l \in DOMAIN levels |-> Opening(w.told[levels[l].root], w.told[levels[l].at])]
  <2>1. DOMAIN p.merkle = 1..Len(levels) /\ DOMAIN levels = 1..Len(levels)
    BY <1>1, <1>2, <1>4
  <2>2. p.merkle = [l \in DOMAIN levels |-> p.merkle[l]]
    <3>1. \A t \in Seq(Hints) : \A D : D = DOMAIN t => t = [l \in D |-> t[l]]
      OBVIOUS
    <3>2. DOMAIN levels = DOMAIN p.merkle
      BY <2>1
    <3> HIDE DEF levels
    <3> QED
      BY <1>4, <3>1, <3>2, Zenon
  <2>3. \A l \in DOMAIN levels : p.merkle[l] = Opening(w.told[levels[l].root], w.told[levels[l].at])
    BY <1>1, <1>6, <2>1
  <2> HIDE DEF levels
  <2>4. [l \in DOMAIN levels |-> p.merkle[l]]
          = [l \in DOMAIN levels |-> Opening(w.told[levels[l].root], w.told[levels[l].at])]
    BY <2>3
  <2> QED
    BY <1>6, <2>2, <2>4
<1>10. Leads(cl, m, p, w)
  <2>1. Finished(cl, ops, levels, w.told, w)
    <3>1. Len(w.told) = Len(ops)
      BY <1>1, <1>6
    <3> HIDE DEF ops, levels
    <3> QED
      BY <1>8, <1>9, <3>1, Zenon DEF Finished
  <2>2. \A i \in Checked \cap (1..Len(ops)) : w.told[i] = m[i]
    BY <1>1, <1>6
  <2> QED
    BY <1>6, <2>1, <2>2 DEF Leads
<1> QED
  BY <1>1, <1>10 DEF Good

(* The verdict of the staged verifier: a reader follows whoever could have *)
(* written what it reads, and what it rejects nobody could.                *)
LeadInv ==
  /\ stage = "walk" => \A w : Leads(clears, message, proof, w) => Follows(clears, Ops(Size), w.told, w, reader)
  /\ stage = "accepted" => Good(clears, message, proof)
  /\ stage = "rejected" => ~Good(clears, message, proof)

(* What was written by somebody is set up.                                 *)
LEMMA LedIsSetUp ==
  ASSUME NEW cl, NEW m, NEW p, SetupOk(p), NEW w, Leads(cl, m, p, w)
  PROVE  OpeningsOk(p) /\ Writes(cl, Ops(Head(p.stream)), w.told, w) /\ Len(w.told) = Len(Ops(Head(p.stream)))
<1> DEFINE size == Head(p.stream)
<1>1. size \in Sizes /\ Finished(cl, Ops(size), Openings[size], w.told, w) /\ w.merkle = p.merkle
  BY DEF SetupOk, Leads
<1>2. Fit(w.merkle, Openings[size])
  BY <1>1, ScheduleParts, FinishedFits
<1>3. OpeningsOk(p)
  BY <1>1, <1>2 DEF Fit, OpeningsOk
<1>4. Writes(cl, Ops(size), w.told, w) /\ Len(w.told) = Len(Ops(size))
  <2> HIDE DEF size
  <2> QED
    BY <1>1, Zenon DEF Finished
<1> QED
  BY <1>3, <1>4

(* A step of the walk.                                                     *)
LEMMA LeadStep ==
  ASSUME stage = "walk", SetupOk(proof), NEW q, Read(q),
         \A w : Leads(clears, message, proof, w) => ~Failed(q) /\ Follows(clears, Ops(Size), w.told, w, q)
  PROVE  LeadInv'
<1>1. reader' = q /\ stage' = (IF Failed(q) THEN "rejected" ELSE "walk") /\ UNCHANGED <<message, clears, writer, proof>>
  BY DEF Read, Fixed
<1>2. Size' = Size
  BY <1>1 DEF Size
<1>3. Failed(q) => ~Good(clears, message, proof)
  BY DEF Good
<1> QED
  BY <1>1, <1>2, <1>3 DEF LeadInv

(* Each op of the walk.                                                    *)
LEMMA LeadsReading == Inv /\ LeadInv /\ (ReadScalar \/ ReadRoot \/ Sample \/ CheckPow) => LeadInv'
<1> SUFFICES ASSUME Inv, LeadInv, ReadScalar \/ ReadRoot \/ Sample \/ CheckPow
             PROVE  LeadInv'
  OBVIOUS
<1>1. stage = "walk" /\ Len(reader.got) < Len(Ops(Size))
  BY DEF ReadScalar, ReadRoot, Sample, CheckPow, Walking
<1>2. SetupOk(proof)
  BY <1>1, WalkParts
<1>3. \A w : Leads(clears, message, proof, w) => Follows(clears, Ops(Size), w.told, w, reader)
  BY <1>1 DEF LeadInv
<1>4. CASE ReadScalar
  <2>1. NextOp.op = "scalar" /\ Read(nextScalar(reader))
    BY <1>4 DEF ReadScalar, Walking
  <2>2. Ops(Size)[Len(reader.got) + 1].op = "scalar"
    BY <2>1 DEF NextOp
  <2>3. ASSUME NEW w, Leads(clears, message, proof, w)
        PROVE  ~Failed(nextScalar(reader)) /\ Follows(clears, Ops(Size), w.told, w, nextScalar(reader))
    BY <1>1, <1>3, <2>2, <2>3, FollowsScalar
  <2> QED
    BY <1>1, <1>2, <2>1, <2>3, LeadStep
<1>5. CASE ReadRoot
  <2>1. NextOp.op = "root" /\ Read(nextRoot(reader))
    BY <1>5 DEF ReadRoot, Walking
  <2>2. Ops(Size)[Len(reader.got) + 1].op = "root"
    BY <2>1 DEF NextOp
  <2>3. ASSUME NEW w, Leads(clears, message, proof, w)
        PROVE  ~Failed(nextRoot(reader)) /\ Follows(clears, Ops(Size), w.told, w, nextRoot(reader))
    BY <1>1, <1>3, <2>2, <2>3, FollowsRoot
  <2> QED
    BY <1>1, <1>2, <2>1, <2>3, LeadStep
<1>6. CASE Sample
  <2>1. NextOp.op = "sample" /\ Read(sample(reader))
    BY <1>6 DEF Sample, Walking
  <2>2. Ops(Size)[Len(reader.got) + 1].op = "sample"
    BY <2>1 DEF NextOp
  <2>3. ASSUME NEW w, Leads(clears, message, proof, w)
        PROVE  ~Failed(sample(reader)) /\ Follows(clears, Ops(Size), w.told, w, sample(reader))
    BY <1>1, <1>3, <2>2, <2>3, FollowsSample
  <2> QED
    BY <1>1, <1>2, <2>1, <2>3, LeadStep
<1>7. CASE CheckPow
  <2> DEFINE q == checkPow(reader, NextOp.bits)
  <2>1. NextOp.op = "grind" /\ Read(q)
    BY <1>7 DEF CheckPow, Walking
  <2>2. NextOp = Ops(Size)[Len(reader.got) + 1]
    BY DEF NextOp
  <2>3. ASSUME NEW w, Leads(clears, message, proof, w)
        PROVE  ~Failed(q) /\ Follows(clears, Ops(Size), w.told, w, q)
    BY <1>1, <1>3, <2>1, <2>2, <2>3, FollowsPow
  <2> HIDE DEF q
  <2> QED
    BY <1>1, <1>2, <2>1, <2>3, LeadStep
<1> QED
  BY <1>4, <1>5, <1>6, <1>7

(* Each opening: the one whoever wrote the proof wrote for this level.     *)
LEMMA LeadsOpening == Inv /\ LeadInv /\ ReadOpening => LeadInv'
<1> SUFFICES ASSUME Inv, LeadInv, ReadOpening PROVE LeadInv'
  OBVIOUS
<1> DEFINE k == Len(reader.rows)
           level == Openings[Size][k + 1]
           q == nextOpening(reader, level)
<1>1. stage = "walk" /\ Len(reader.got) = Len(Ops(Size)) /\ k < Len(Openings[Size]) /\ Read(q)
  BY DEF ReadOpening, Walked
<1>2. /\ SetupOk(proof) /\ Openings[Size] \in Seq([root : Nat, at : Nat])
      /\ AtOpening(clears, Ops(Size), Openings[Size], proof, reader)
  <2>1. /\ Size \in Sizes /\ SetupOk(proof) /\ OpeningsOk(proof) /\ proof \in Proofs
        /\ Reads(clears, Ops(Size), reader, proof.stream) /\ Opens(Ops(Size), Openings[Size], proof, reader)
    BY <1>1, WalkParts
  <2>2. Len(proof.merkle) = Len(Openings[Size])
    BY <2>1 DEF OpeningsOk, Size
  <2> QED
    BY <1>1, <2>1, <2>2, ScheduleParts DEF AtOpening
<1>3. /\ ~Failed(q) => /\ Reads(clears, Ops(Size), q, proof.stream) /\ q.fs = reader.fs /\ q.got = reader.got
      /\ proof.merkle[k + 1] = Opening(reader.got[level.root], reader.got[level.at]) => ~Failed(q)
  <2>1. Opened(clears, Ops(Size), Openings[Size], proof, reader, q)
    BY <1>2, OpensOne
  <2> HIDE DEF q
  <2> QED
    BY <2>1 DEF Opened
<1>4. k + 1 \in DOMAIN Openings[Size]
  <2>1. k \in Nat
    BY <1>2, ReaderParts DEF AtOpening, Reads
  <2> QED
    BY <1>1, <1>2, <2>1
<1>5. ASSUME NEW w, Leads(clears, message, proof, w)
      PROVE  ~Failed(q) /\ Follows(clears, Ops(Size), w.told, w, q)
  <2>1. Follows(clears, Ops(Size), w.told, w, reader)
    BY <1>1, <1>5 DEF LeadInv
  <2>2. reader.got = w.told
    BY <1>1, <2>1, FollowedToTheEnd
  <2>3. Finished(clears, Ops(Size), Openings[Size], w.told, w) /\ w.merkle = proof.merkle /\ w.stream = proof.stream
    BY <1>5 DEF Leads, Size
  <2>4. w.merkle[k + 1] = Opening(w.told[level.root], w.told[level.at])
    BY <1>4, <2>3 DEF Finished
  <2>5. ~Failed(q)
    BY <1>3, <2>2, <2>3, <2>4
  <2> HIDE DEF q
  <2> QED
    BY <1>3, <2>1, <2>3, <2>5 DEF Follows
<1> HIDE DEF q
<1> QED
  BY <1>1, <1>2, <1>5, LeadStep

(* The end: what the reader has is what whoever wrote the proof told, so   *)
(* nothing is left over and the algebra accepts; and whom it accepts could *)
(* have written the proof.                                                 *)
LEMMA LeadsFinish == Inv /\ LeadInv /\ Finish => LeadInv'
<1> SUFFICES ASSUME Inv, LeadInv, Finish PROVE LeadInv'
  OBVIOUS
<1>1. /\ stage = "walk" /\ Len(reader.got) = Len(Ops(Size)) /\ Len(reader.rows) = Len(Openings[Size])
      /\ UNCHANGED <<message, clears, writer, proof>>
      /\ stage' = IF ~Failed(finish(reader)) /\ \A i \in DOMAIN reader.got : Agrees(reader, i)
                  THEN "accepted" ELSE "rejected"
  BY DEF Finish, Walked, Fixed
<1>2. /\ Size \in Sizes /\ SetupOk(proof) /\ OpeningsOk(proof) /\ proof \in Proofs
      /\ Reads(clears, Ops(Size), reader, proof.stream) /\ Opens(Ops(Size), Openings[Size], proof, reader)
  BY <1>1, WalkParts
<1>3. reader \in Readers /\ reader.error = "none" /\ reader.got \in Seq(Results)
  BY <1>2, ReaderParts DEF Reads
<1>4. Len(proof.merkle) = Len(Openings[Size]) /\ proof.merkle \in Seq(Hints)
  BY <1>2 DEF OpeningsOk, Size, Proofs
<1>5. reader.merkle = <<>>
  <2>1. reader.merkle = LeftOf(proof.merkle, Len(proof.merkle))
    BY <1>1, <1>2, <1>4 DEF Opens
  <2> QED
    BY <1>4, <2>1, NothingLeft
<1>6. ASSUME stage' = "accepted" PROVE Good(clears, message, proof)
  <2>1. ~Failed(finish(reader)) /\ \A i \in DOMAIN reader.got : Agrees(reader, i)
    BY <1>1, <1>6
  <2>2. reader.stream = <<>>
    <3>1. Failed(Throw(reader, "notFullyConsumed"))
      BY <1>3 DEF Throw, Failed, Readers
    <3> QED
      BY <2>1, <3>1 DEF finish
  <2>3. \A i \in Checked \cap (1..Len(reader.got)) : reader.got[i] = message[i]
    BY <1>3, <2>1 DEF Agrees
  <2>4. \A l \in 1..Len(Openings[Size]) :
          proof.merkle[l] = Opening(reader.got[Openings[Size][l].root], reader.got[Openings[Size][l].at])
    BY <1>1, <1>2 DEF Opens
  <2>5. ReadWell(clears, message, proof, reader)
    BY <1>1, <1>2, <1>4, <2>2, <2>3, <2>4 DEF ReadWell, Size
  <2> QED
    BY <2>5, ReadIsGood
<1>7. ASSUME NEW w, Leads(clears, message, proof, w) PROVE stage' = "accepted"
  <2>1. Follows(clears, Ops(Size), w.told, w, reader)
    BY <1>1, <1>7 DEF LeadInv
  <2>2. reader.got = w.told /\ reader.stream = <<>>
    BY <1>1, <2>1, FollowedToTheEnd
  <2>3. finish(reader) = reader /\ ~Failed(reader)
    BY <1>3, <1>5, <2>2 DEF finish, Failed
  <2>4. ASSUME NEW i \in DOMAIN reader.got PROVE Agrees(reader, i)
    <3>1. i \in 1..Len(Ops(Size))
      BY <1>1, <1>3
    <3>2. i \in Checked => w.told[i] = message[i]
      BY <1>7, <3>1 DEF Leads, Size
    <3> QED
      BY <2>2, <3>2 DEF Agrees
  <2> QED
    BY <1>1, <2>3, <2>4
<1>8. stage' \in {"accepted", "rejected"} /\ (stage' = "rejected" => ~Good(clears, message, proof))
  BY <1>1, <1>7 DEF Good
<1> QED
  BY <1>1, <1>6, <1>8 DEF LeadInv

(* Before the walk: a bad announcement or bad openings are nobody's, and   *)
(* the reader starts at the start of every run.                            *)
LEMMA LeadsSetup == Inv /\ (RejectSetup \/ StartWalk) => LeadInv'
<1> SUFFICES ASSUME Inv, RejectSetup \/ StartWalk PROVE LeadInv'
  OBVIOUS
<1>1. stage = "setup" /\ UNCHANGED <<message, clears, writer, proof>>
  BY DEF RejectSetup, StartWalk, Fixed
<1>2. CASE RejectSetup
  <2>1. stage' = "rejected" /\ ~(SetupOk(proof) /\ OpeningsOk(proof))
    BY <1>2 DEF RejectSetup
  <2>2. ~Good(clears, message, proof)
    BY <2>1, LedIsSetUp DEF Good
  <2> QED
    BY <1>1, <2>1, <2>2 DEF LeadInv
<1>3. CASE StartWalk
  <2>1. SetupOk(proof) /\ stage' = "walk" /\ Inv'
    BY <1>3, StartWalkInv DEF StartWalk
  <2>2. Reads(clears, Ops(Size), reader, proof.stream)'
    BY <2>1 DEF Inv, ReaderInv
  <2>3. Size' = Size /\ Reads(clears, Ops(Size), reader', proof.stream)
    BY <1>1, <2>2 DEF Size
  <2>4. reader'.fs = <<>> /\ reader'.got = <<>>
    <3>1. reader = Reader(proof) /\ reader' = [reader EXCEPT !.asked = Seeding]
      BY <1>1, <1>3 DEF Inv, ReaderInv, StartWalk
    <3> QED
      BY <3>1 DEF Reader
  <2>5. ASSUME NEW w, Leads(clears, message, proof, w) PROVE Follows(clears, Ops(Size), w.told, w, reader')
    <3>1. Writes(clears, Ops(Size), w.told, w) /\ Len(w.told) = Len(Ops(Size)) /\ w.stream = proof.stream
      <4>1. Writes(clears, Ops(Size), w.told, w) /\ Len(w.told) = Len(Ops(Size))
        BY <2>1, <2>5, LedIsSetUp DEF Size
      <4> QED
        BY <2>5, <4>1 DEF Leads
    <3>2. w.fs \in Seq(BlockSet) /\ w.told \in Seq(Results)
      BY <3>1, WriterParts DEF Writes
    <3>3. Extends(w.fs, <<>>) /\ Extends(w.told, <<>>)
      BY <3>2 DEF Extends
    <3> QED
      BY <2>3, <2>4, <3>1, <3>3 DEF Follows
  <2> QED
    BY <1>1, <2>1, <2>3, <2>5 DEF LeadInv
<1> QED
  BY <1>2, <1>3

(* The verdict of the stages: a proof is accepted when somebody could have *)
(* written it, and rejected when nobody could.                             *)
LEMMA LeadsAlways == Spec => []LeadInv
<1>1. Init => LeadInv
  BY DEF Init, LeadInv
<1>2. Inv /\ LeadInv /\ [Next]_vars => LeadInv'
  <2> SUFFICES ASSUME Inv, LeadInv, [Next]_vars PROVE LeadInv'
    OBVIOUS
  <2>1. CASE SendScalar \/ SendRoot \/ Squeeze \/ Grind
    <3>1. stage = "write" /\ stage' = stage
      BY <2>1 DEF SendScalar, SendRoot, Squeeze, Grind, Writing, Write
    <3> QED
      BY <3>1 DEF LeadInv
  <2>2. CASE GrindFails \/ HintOpenings \/ Deliver
    <3>1. stage' \in {"unproved", "deliver", "setup"}
      BY <2>2 DEF GrindFails, HintOpenings, Deliver
    <3> QED
      BY <3>1 DEF LeadInv
  <2>3. CASE RejectSetup \/ StartWalk
    BY <2>3, LeadsSetup
  <2>4. CASE ReadScalar \/ ReadRoot \/ Sample \/ CheckPow
    BY <2>4, LeadsReading
  <2>5. CASE ReadOpening
    BY <2>5, LeadsOpening
  <2>6. CASE Finish
    BY <2>6, LeadsFinish
  <2>7. CASE UNCHANGED vars
    BY <2>7 DEF vars, LeadInv, Size
  <2> QED
    BY <2>1, <2>2, <2>3, <2>4, <2>5, <2>6, <2>7 DEF Next
<1> QED
  BY <1>1, <1>2, InvHolds, PTL DEF Spec

-----------------------------------------------------------------------------
(* Reading as it goes, phase by phase.                                     *)
GoesTo(p, n, g) == g = [i \in 0..n |-> IF i = 0 THEN Reader(p) ELSE Phase(Head(p.stream), g[i - 1], i)]

(* There is such a reading of every length.                                *)
LEMMA GoesExist ==
  ASSUME NEW p, NEW n \in Nat
  PROVE  \E g : GoesTo(p, n, g)
<1> DEFINE S == {k \in Nat : \E g : GoesTo(p, k, g)}
<1>1. 0 \in S
  <2> DEFINE g == [k \in 0..0 |-> Reader(p)]
  <2>1. GoesTo(p, 0, g)
    BY DEF GoesTo
  <2> QED
    BY <2>1
<1>2. ASSUME NEW k \in Nat, k \in S PROVE k + 1 \in S
  <2>1. PICK g : GoesTo(p, k, g)
    BY <1>2
  <2> DEFINE h == [j \in 0..(k + 1) |-> IF j = k + 1 THEN Phase(Head(p.stream), g[k], k + 1) ELSE g[j]]
  <2>2. ASSUME NEW j \in 0..(k + 1)
        PROVE  h[j] = IF j = 0 THEN Reader(p) ELSE Phase(Head(p.stream), h[j - 1], j)
    <3>1. CASE j = k + 1
      <4>1. h[j] = Phase(Head(p.stream), g[k], k + 1) /\ j # 0 /\ j - 1 = k /\ k # k + 1 /\ k \in 0..(k + 1)
        BY <3>1
      <4>2. h[k] = g[k]
        BY <4>1
      <4> QED
        BY <3>1, <4>1, <4>2
    <3>2. CASE j # k + 1 /\ j = 0
      BY <3>2, <2>1 DEF GoesTo
    <3>3. CASE j # k + 1 /\ j # 0
      <4>1. j \in 0..k /\ h[j] = g[j] /\ j - 1 \in 0..(k + 1) /\ j - 1 # k + 1
        BY <3>3
      <4>2. h[j - 1] = g[j - 1]
        BY <4>1
      <4>3. g[j] = Phase(Head(p.stream), g[j - 1], j)
        BY <3>3, <4>1, <2>1 DEF GoesTo
      <4> QED
        BY <3>3, <4>1, <4>2, <4>3
    <3> QED
      BY <3>1, <3>2, <3>3
  <2>3. h = [j \in 0..(k + 1) |-> h[j]]
    OBVIOUS
  <2> HIDE DEF h
  <2>4. h = [j \in 0..(k + 1) |-> IF j = 0 THEN Reader(p) ELSE Phase(Head(p.stream), h[j - 1], j)]
    BY <2>2, <2>3
  <2>5. GoesTo(p, k + 1, h)
    BY <2>4 DEF GoesTo
  <2> QED
    BY <2>5
<1> HIDE DEF S
<1>3. \A k \in Nat : k \in S
  BY <1>1, <1>2, Induction
<1> QED
  BY <1>3 DEF S

(* Two of them agree as far as both go.                                    *)
LEMMA GoesAgree ==
  ASSUME NEW p, NEW n \in Nat, NEW m \in Nat, m <= n, NEW g, NEW h, GoesTo(p, n, g), GoesTo(p, m, h)
  PROVE  g[m] = h[m]
<1> DEFINE S == {k \in Nat : k <= m => g[k] = h[k]}
<1>1. 0 \in S
  BY DEF GoesTo
<1>2. ASSUME NEW k \in Nat, k \in S PROVE k + 1 \in S
  <2> SUFFICES ASSUME k + 1 <= m PROVE g[k + 1] = h[k + 1]
    OBVIOUS
  <2>1. k + 1 \in 0..n /\ k + 1 \in 0..m /\ k + 1 # 0 /\ (k + 1) - 1 = k /\ g[k] = h[k]
    BY <1>2
  <2>2. g[k + 1] = Phase(Head(p.stream), g[(k + 1) - 1], k + 1)
    BY <2>1 DEF GoesTo
  <2>3. h[k + 1] = Phase(Head(p.stream), h[(k + 1) - 1], k + 1)
    BY <2>1 DEF GoesTo
  <2> QED
    BY <2>1, <2>2, <2>3
<1> HIDE DEF S
<1>3. \A k \in Nat : k \in S
  BY <1>1, <1>2, Induction
<1> QED
  BY <1>3 DEF S

(* So it starts as a reader, and goes on phase by phase.                   *)
LEMMA ReadGrows ==
  ASSUME NEW p
  PROVE  /\ ReadAsItGoes(p, 0) = Reader(p)
         /\ \A n \in Nat : ReadAsItGoes(p, n + 1) = Phase(Head(p.stream), ReadAsItGoes(p, n), n + 1)
<1> DEFINE G(n) == CHOOSE g : GoesTo(p, n, g)
<1>1. \A n \in Nat : GoesTo(p, n, G(n))
  BY GoesExist
<1>2. \A n : ReadAsItGoes(p, n) = G(n)[n]
  BY DEF ReadAsItGoes, GoesTo
<1> HIDE DEF G
<1>3. ReadAsItGoes(p, 0) = Reader(p)
  <2>1. GoesTo(p, 0, G(0))
    BY <1>1
  <2>2. G(0)[0] = Reader(p)
    BY <2>1 DEF GoesTo
  <2> QED
    BY <1>2, <2>2
<1>4. ASSUME NEW n \in Nat PROVE ReadAsItGoes(p, n + 1) = Phase(Head(p.stream), ReadAsItGoes(p, n), n + 1)
  <2>1. GoesTo(p, n, G(n)) /\ GoesTo(p, n + 1, G(n + 1))
    BY <1>1
  <2>2. G(n + 1)[n] = G(n)[n]
    BY <2>1, GoesAgree
  <2>3. n + 1 \in 0..(n + 1) /\ n + 1 # 0 /\ (n + 1) - 1 = n
    OBVIOUS
  <2>4. G(n + 1)[n + 1] = Phase(Head(p.stream), G(n + 1)[(n + 1) - 1], n + 1)
    BY <2>1, <2>3 DEF GoesTo
  <2> QED
    BY <1>2, <2>2, <2>3, <2>4
<1> QED
  BY <1>3, <1>4

(* The levels whose positions the first i ops draw are the first k.        *)
DrawnBy(levels, i, k) == k \in 0..Len(levels) /\ \A j \in 1..Len(levels) : j <= k <=> levels[j].at <= i

(* The next op draws those of none, or of the next level.                  *)
DrawsNone(levels, i, k) == Drawn(levels, i + 1) = {} /\ DrawnBy(levels, i + 1, k)
DrawsOne(levels, i, k) ==
  /\ k < Len(levels) /\ levels[k + 1].at = i + 1 /\ Drawn(levels, i + 1) # {}
  /\ Min(Drawn(levels, i + 1)) = k + 1 /\ DrawnBy(levels, i + 1, k + 1)

(* Every op does one or the other.                                         *)
LEMMA DrawsNext ==
  ASSUME NEW s \in Sizes, NEW levels, levels = Openings[s], NEW i \in Nat, NEW k, DrawnBy(levels, i, k)
  PROVE  DrawsNone(levels, i, k) \/ DrawsOne(levels, i, k)
<1>1. /\ levels \in Seq([root : Nat, at : Nat]) /\ DOMAIN levels = 1..Len(levels) /\ Len(levels) \in Nat
      /\ \A l \in 1..Len(levels) : levels[l].at \in Nat
  BY ScheduleParts
<1>2. \A l \in 1..Len(levels) : \A j \in 1..(l - 1) : levels[j].at < levels[l].at
  BY <1>1, ScheduleAssumption
<1>3. k \in 0..Len(levels) /\ \A j \in 1..Len(levels) : j <= k <=> levels[j].at <= i
  BY DEF DrawnBy
<1>4. \A l \in Drawn(levels, i + 1) : l = k + 1
  <2> TAKE l \in Drawn(levels, i + 1)
  <2>1. l \in 1..Len(levels) /\ levels[l].at = i + 1
    BY <1>1 DEF Drawn
  <2>2. ~(l <= k)
    BY <1>3, <2>1
  <2>3. ASSUME k + 1 < l PROVE FALSE
    <3>1. k + 1 \in 1..(l - 1) /\ k + 1 \in 1..Len(levels) /\ ~(k + 1 <= k)
      BY <1>3, <2>1, <2>3
    <3>2. levels[k + 1].at < levels[l].at /\ ~(levels[k + 1].at <= i) /\ levels[k + 1].at \in Nat
      BY <1>1, <1>2, <1>3, <2>1, <3>1
    <3> QED
      BY <2>1, <3>2
  <2> QED
    BY <1>3, <2>1, <2>2, <2>3
<1>5. CASE Drawn(levels, i + 1) = {}
  <2>1. ASSUME NEW j \in 1..Len(levels) PROVE j <= k <=> levels[j].at <= i + 1
    <3>1. levels[j].at # i + 1
      BY <1>1, <1>5 DEF Drawn
    <3>2. levels[j].at \in Nat /\ (j <= k <=> levels[j].at <= i)
      BY <1>1, <1>3
    <3> QED
      BY <3>1, <3>2
  <2> QED
    BY <1>3, <1>5, <2>1 DEF DrawnBy, DrawsNone
<1>6. CASE Drawn(levels, i + 1) # {}
  <2>1. Drawn(levels, i + 1) = {k + 1}
    BY <1>4, <1>6
  <2>2. k + 1 \in 1..Len(levels) /\ levels[k + 1].at = i + 1
    BY <1>1, <2>1 DEF Drawn
  <2>3. Min({k + 1}) = k + 1
    BY <1>3 DEF Min
  <2>4. ASSUME NEW j \in 1..Len(levels) PROVE j <= k + 1 <=> levels[j].at <= i + 1
    <3>1. levels[j].at \in Nat /\ (j <= k <=> levels[j].at <= i)
      BY <1>1, <1>3
    <3>2. CASE j <= k
      BY <1>3, <3>1, <3>2
    <3>3. CASE j = k + 1
      BY <1>3, <2>2, <3>3
    <3>4. CASE j > k + 1
      <4>1. k + 1 \in 1..(j - 1)
        BY <1>3, <3>4
      <4>2. levels[k + 1].at < levels[j].at
        BY <1>2, <4>1
      <4> QED
        BY <1>3, <2>2, <3>1, <3>4, <4>2
    <3> QED
      BY <1>3, <3>2, <3>3, <3>4
  <2>5. Drawn(levels, i + 1) # {} /\ Min(Drawn(levels, i + 1)) = k + 1
    BY <2>1, <2>3
  <2>6. k < Len(levels) /\ k + 1 \in 0..Len(levels)
    BY <1>1, <1>3, <2>2
  <2>7. DrawnBy(levels, i + 1, k + 1)
    BY <2>4, <2>6 DEF DrawnBy
  <2> QED
    BY <2>2, <2>5, <2>6, <2>7 DEF DrawsOne
<1> QED
  BY <1>5, <1>6

-----------------------------------------------------------------------------
(* An op of either verifier: it goes on, keeping what it got, or fails.    *)
LEMMA DoesOp ==
  ASSUME NEW ops, NEW r, NEW stream, Reads(clears, ops, r, stream), Len(r.got) < Len(ops),
         NEW q, q = DoOp(r, ops[Len(r.got) + 1])
  PROVE  /\ q \in Readers
         /\ ~Failed(q) => GoesOn(clears, ops, q, r, stream) /\ \A j \in 1..Len(r.got) : q.got[j] = r.got[j]
<1> DEFINE o == ops[Len(r.got) + 1]
<1>1. ops \in Seq(OpSet) /\ r.got \in Seq(Results)
  BY ReaderParts DEF Reads, Transcribes
<1>2. o \in OpSet /\ o.op \in {"scalar", "root", "sample", "grind"}
  <2>1. o \in OpSet
    BY <1>1
  <2> QED
    BY <2>1 DEF OpSet
<1>3. ASSUME NEW x, q.got = Append(r.got, x) PROVE \A j \in 1..Len(r.got) : q.got[j] = r.got[j]
  BY <1>1, <1>3
<1>4. CASE o.op = "scalar"
  <2>1. q = nextScalar(r)
    BY <1>4 DEF DoOp
  <2>2. q \in Readers /\ (~Failed(q) => GoesOn(clears, ops, q, r, stream) /\ q.got = Append(r.got, Head(r.stream)))
    BY <1>4, <2>1, ReadsScalar, SMTT(20)
  <2> QED
    BY <1>3, <2>2
<1>5. CASE o.op = "root"
  <2>1. q = nextRoot(r)
    BY <1>5 DEF DoOp
  <2>2. q \in Readers
    BY <1>5, <2>1, ReadsRoot
  <2>3. ASSUME ~Failed(q)
        PROVE  GoesOn(clears, ops, q, r, stream) /\ q.got = Append(r.got, <<Head(r.stream), Head(Tail(r.stream))>>)
    BY <1>5, <2>1, <2>3, ReadsRoot, ZenonT(40)
  <2> QED
    BY <1>3, <2>2, <2>3
<1>6. CASE o.op = "sample"
  <2>1. q = sample(r)
    BY <1>6 DEF DoOp
  <2> QED
    BY <1>3, <1>6, <2>1, ReadsSample
<1>7. CASE o.op = "grind"
  <2>1. q = checkPow(r, o.bits)
    BY <1>7 DEF DoOp
  <2>2. q \in Readers /\ (~Failed(q) => GoesOn(clears, ops, q, r, stream) /\ TookNonce(q, r, Head(r.stream)))
    BY <1>7, <2>1, ReadsPow
  <2> QED
    BY <1>3, <2>2 DEF TookNonce
<1> QED
  BY <1>2, <1>4, <1>5, <1>6, <1>7

(* One that follows a writer goes on following it.                         *)
LEMMA FollowsOp ==
  ASSUME NEW ops, NEW m, NEW w, NEW r, Follows(clears, ops, m, w, r), Len(r.got) < Len(ops),
         NEW q, q = DoOp(r, ops[Len(r.got) + 1])
  PROVE  ~Failed(q) /\ Follows(clears, ops, m, w, q)
<1> DEFINE o == ops[Len(r.got) + 1]
<1>1. o.op \in {"scalar", "root", "sample", "grind"}
  <2>1. ops \in Seq(OpSet) /\ r.got \in Seq(Results)
    BY ReaderParts DEF Follows, Reads, Transcribes
  <2>2. o \in OpSet
    BY <2>1
  <2> QED
    BY <2>2 DEF OpSet
<1>2. CASE o.op = "scalar"
  BY <1>2, FollowsScalar DEF DoOp
<1>3. CASE o.op = "root"
  BY <1>3, FollowsRoot DEF DoOp
<1>4. CASE o.op = "sample"
  BY <1>4, FollowsSample DEF DoOp
<1>5. CASE o.op = "grind"
  <2>1. q = checkPow(r, o.bits)
    BY <1>5 DEF DoOp
  <2> QED
    BY <1>5, <2>1, FollowsPow
<1> QED
  BY <1>1, <1>2, <1>3, <1>4, <1>5

(* A phase: its op, the algebra, the opening if the op drew one's          *)
(* positions.                                                              *)
LEMMA PhaseParts ==
  ASSUME NEW size, NEW i, NEW r, ~Failed(r), NEW s \in Readers, s = DoOp(r, Ops(size)[i]), NEW q, q = Phase(size, r, i)
  PROVE  /\ ~Failed(q) => ~Failed(s) /\ Agrees(s, i)
         /\ ~Failed(s) /\ Agrees(s, i) =>
              q = IF Drawn(Openings[size], i) = {} THEN s
                  ELSE nextOpening(s, Openings[size][Min(Drawn(Openings[size], i))])
<1>1. q = ThenOpened(ThenChecked(s, i), i, Openings[size])
  BY DEF Phase
<1>2. CASE Failed(s)
  <2>1. q = s
    BY <1>1, <1>2 DEF ThenChecked, ThenOpened
  <2> QED
    BY <1>2, <2>1
<1>3. CASE ~Failed(s) /\ ~Agrees(s, i)
  <2>1. ThenChecked(s, i) = Throw(s, "algebra")
    BY <1>3 DEF ThenChecked
  <2>2. Failed(Throw(s, "algebra"))
    BY DEF Throw, Failed, Readers
  <2>3. q = Throw(s, "algebra")
    BY <1>1, <2>1, <2>2 DEF ThenOpened
  <2> QED
    BY <1>3, <2>2, <2>3
<1>4. CASE ~Failed(s) /\ Agrees(s, i)
  BY <1>1, <1>4 DEF ThenChecked, ThenOpened
<1> QED
  BY <1>2, <1>3, <1>4

(* An opening is taken when it is there and is the expected one.           *)
LEMMA TakesOpening ==
  ASSUME NEW r \in Readers, ~Failed(r), NEW level, NEW q, q = nextOpening(r, level)
  PROVE  /\ ~Failed(q) <=> r.merkle # <<>> /\ Head(r.merkle) = Opening(r.got[level.root], r.got[level.at])
         /\ ~Failed(q) => /\ q \in Readers /\ q.error = "none" /\ q.fs = r.fs /\ q.got = r.got /\ q.stream = r.stream
                          /\ q.merkle = Tail(r.merkle) /\ q.rows = Append(r.rows, Head(r.merkle))
<1> DEFINE own == Opening(r.got[level.root], r.got[level.at])
           rest == [r EXCEPT !.merkle = Tail(r.merkle)]
<1>1. r.merkle \in Seq(Hints) /\ r.rows \in Seq(Hints) /\ r.error = "none"
  BY ReaderParts DEF Failed
<1>2. CASE r.merkle = <<>>
  <2>1. q = Throw(r, "missingHint")
    BY <1>2 DEF nextOpening
  <2>2. Failed(q)
    BY <2>1 DEF Throw, Failed, Readers
  <2> QED
    BY <1>2, <2>2
<1>3. CASE r.merkle # <<>>
  <2>1. Head(r.merkle) \in Hints /\ Tail(r.merkle) \in Seq(Hints)
    BY <1>1, <1>3, HeadTailProperties
  <2>2. rest \in Readers
    BY <2>1 DEF Readers
  <2>3. CASE Head(r.merkle) # own
    <3>1. q = Throw(rest, "invalidMerkleOpening")
      BY <1>3, <2>3 DEF nextOpening
    <3>2. q = [rest EXCEPT !.error = "invalidMerkleOpening"]
      BY <3>1 DEF Throw
    <3> HIDE DEF rest
    <3>3. Failed(q)
      BY <2>2, <3>2 DEF Failed, Readers
    <3> QED
      BY <2>3, <3>3
  <2>4. CASE Head(r.merkle) = own
    <3>1. q = [rest EXCEPT !.rows = Append(@, Head(r.merkle))]
      BY <1>3, <2>4 DEF nextOpening
    <3>2. q = [r EXCEPT !.merkle = Tail(r.merkle), !.rows = Append(r.rows, Head(r.merkle))]
      BY <3>1 DEF Readers
    <3>3. Append(r.rows, Head(r.merkle)) \in Seq(Hints)
      BY <1>1, <2>1, AppendProperties
    <3>4. /\ q \in Readers /\ q.error = "none" /\ q.fs = r.fs /\ q.got = r.got /\ q.stream = r.stream
          /\ q.merkle = Tail(r.merkle) /\ q.rows = Append(r.rows, Head(r.merkle))
      BY <1>1, <2>1, <3>2, <3>3 DEF Readers
    <3> QED
      BY <1>3, <2>4, <3>4 DEF Failed
  <2> QED
    BY <2>3, <2>4
<1> QED
  BY <1>2, <1>3

-----------------------------------------------------------------------------
(* A verifier that has read its first i ops as it goes, without a throw:   *)
(* it opened the levels whose positions they draw, at what it read, and    *)
(* the algebra accepted what they carried.                                 *)
Going(cl, m, p, i, r) ==
  LET levels == Openings[Head(p.stream)]
  IN  /\ Reads(cl, Ops(Head(p.stream)), r, p.stream) /\ Len(r.got) = i
      /\ DrawnBy(levels, i, Len(r.rows)) /\ Len(r.rows) <= Len(p.merkle)
      /\ r.merkle = LeftOf(p.merkle, Len(r.rows))
      /\ \A l \in 1..Len(r.rows) : p.merkle[l] = Opening(r.got[levels[l].root], r.got[levels[l].at])
      /\ \A j \in Checked \cap (1..i) : r.got[j] = m[j]

(* After the op, before the opening.                                       *)
Came(cl, m, p, i, k, s) ==
  LET levels == Openings[Head(p.stream)]
  IN  /\ Reads(cl, Ops(Head(p.stream)), s, p.stream) /\ Len(s.got) = i + 1
      /\ k \in Nat /\ Len(s.rows) = k /\ k <= Len(p.merkle) /\ s.merkle = LeftOf(p.merkle, k)
      /\ \A l \in 1..k : p.merkle[l] = Opening(s.got[levels[l].root], s.got[levels[l].at])
      /\ \A j \in Checked \cap (1..(i + 1)) : s.got[j] = m[j]

(* A level's root and positions are read by the op that draws the          *)
(* positions, the root before.                                             *)
LEMMA RootBeforeAt ==
  ASSUME NEW s \in Sizes, NEW l \in 1..Len(Openings[s])
  PROVE  /\ Openings[s][l].root \in Nat /\ Openings[s][l].at \in Nat
         /\ 1 <= Openings[s][l].root /\ Openings[s][l].root < Openings[s][l].at /\ Openings[s][l].at <= Len(Ops(s))
<1>1. l \in DOMAIN Openings[s]
  BY ScheduleParts
<1>2. Openings[s][l].root < Openings[s][l].at
  BY <1>1, ScheduleAssumption
<1>3. Openings[s][l].root \in 1..Len(Ops(s)) /\ Openings[s][l].at \in 1..Len(Ops(s)) /\ Len(Ops(s)) \in Nat
  BY <1>1, ScheduleParts
<1> QED
  BY <1>2, <1>3

(* An op that does not fail, of which the algebra accepts the result.      *)
LEMMA ComesOn ==
  ASSUME NEW p \in Proofs, SetupOk(p), NEW i \in Nat, NEW r, Going(clears, message, p, i, r), i < Len(Ops(Head(p.stream))),
         NEW s, s = DoOp(r, Ops(Head(p.stream))[i + 1]), ~Failed(s), Agrees(s, i + 1)
  PROVE  Came(clears, message, p, i, Len(r.rows), s)
<1> DEFINE size == Head(p.stream)
           ops == Ops(size)
           levels == Openings[size]
           k == Len(r.rows)
<1>1. /\ Reads(clears, ops, r, p.stream) /\ Len(r.got) = i /\ DrawnBy(levels, i, k) /\ k <= Len(p.merkle)
      /\ r.merkle = LeftOf(p.merkle, k)
      /\ \A l \in 1..k : p.merkle[l] = Opening(r.got[levels[l].root], r.got[levels[l].at])
      /\ \A j \in Checked \cap (1..i) : r.got[j] = message[j]
  BY DEF Going
<1>2. size \in Sizes
  BY DEF SetupOk
<1>3. GoesOn(clears, ops, s, r, p.stream) /\ \A j \in 1..i : s.got[j] = r.got[j]
  <2>1. Reads(clears, ops, r, p.stream) /\ s = DoOp(r, ops[Len(r.got) + 1]) /\ Len(r.got) < Len(ops)
    BY <1>1
  <2> HIDE DEF ops
  <2>2. GoesOn(clears, ops, s, r, p.stream) /\ \A j \in 1..Len(r.got) : s.got[j] = r.got[j]
    BY <2>1, DoesOp
  <2> QED
    BY <1>1, <2>2
<1>4. Reads(clears, ops, s, p.stream) /\ Len(s.got) = i + 1 /\ s.rows = r.rows /\ s.merkle = r.merkle
  <2>1. Reads(clears, ops, s, p.stream) /\ Kept(s, r) /\ Len(s.got) = Len(r.got) + 1
    BY <1>3, Zenon DEF GoesOn
  <2> QED
    BY <1>1, <2>1 DEF Kept
<1>5. k \in Nat
  BY <1>1, ReaderParts DEF Reads
<1>6. ASSUME NEW l \in 1..k PROVE p.merkle[l] = Opening(s.got[levels[l].root], s.got[levels[l].at])
  <2>1. l \in 1..Len(levels) /\ levels[l].at <= i
    <3>1. k \in 0..Len(levels) /\ Len(levels) \in Nat
      <4>1. levels \in Seq([root : Nat, at : Nat])
        BY <1>2, ScheduleParts
      <4>2. k \in 0..Len(levels)
        BY <1>1 DEF DrawnBy
      <4> QED
        BY <4>1, <4>2
    <3>2. l \in 1..Len(levels)
      BY <1>5, <3>1
    <3>3. \A j \in 1..Len(levels) : j <= k <=> levels[j].at <= i
      BY <1>1 DEF DrawnBy
    <3> HIDE DEF levels
    <3>4. l <= k
      BY <1>5
    <3> QED
      BY <3>2, <3>3, <3>4
  <2>2. levels[l].root \in 1..i /\ levels[l].at \in 1..i
    <3> HIDE DEF levels
    <3>1. /\ levels[l].root \in Nat /\ levels[l].at \in Nat
          /\ 1 <= levels[l].root /\ levels[l].root < levels[l].at
      BY <1>2, <2>1, RootBeforeAt DEF levels
    <3> QED
      BY <2>1, <3>1
  <2> QED
    BY <1>1, <1>3, <2>2
<1>7. ASSUME NEW j \in Checked \cap (1..(i + 1)) PROVE s.got[j] = message[j]
  <2>1. CASE j = i + 1
    BY <2>1 DEF Agrees
  <2>2. CASE j # i + 1
    <3>1. j \in 1..i /\ j \in Checked
      BY <2>2
    <3> QED
      BY <1>1, <1>3, <3>1
  <2> QED
    BY <2>1, <2>2
<1>8. s.merkle = LeftOf(p.merkle, k) /\ Len(s.rows) = k /\ k <= Len(p.merkle)
  BY <1>1, <1>4
<1>9. \A l \in 1..k : p.merkle[l] = Opening(s.got[levels[l].root], s.got[levels[l].at])
  BY <1>6
<1>10. \A j \in Checked \cap (1..(i + 1)) : s.got[j] = message[j]
  BY <1>7
<1> HIDE DEF k
<1>11. Came(clears, message, p, i, k, s)
  BY <1>4, <1>5, <1>8, <1>9, <1>10, Zenon DEF Came
<1> QED
  BY <1>11 DEF k

(* A phase that does not fail goes on.                                     *)
LEMMA GoesOnAsItGoes ==
  ASSUME NEW p \in Proofs, SetupOk(p), NEW i \in Nat, NEW r, Going(clears, message, p, i, r), i < Len(Ops(Head(p.stream))),
         NEW q, q = Phase(Head(p.stream), r, i + 1), ~Failed(q)
  PROVE  Going(clears, message, p, i + 1, q)
<1> DEFINE size == Head(p.stream)
           ops == Ops(size)
           levels == Openings[size]
           k == Len(r.rows)
           s == DoOp(r, ops[i + 1])
<1>1. Reads(clears, ops, r, p.stream) /\ Len(r.got) = i /\ DrawnBy(levels, i, k)
  BY DEF Going
<1>2. size \in Sizes /\ p.merkle \in Seq(Hints)
  BY DEF SetupOk, Proofs
<1>3. s \in Readers /\ ~Failed(r)
  BY <1>1, DoesOp DEF Reads, Failed
<1>4. ~Failed(s) /\ Agrees(s, i + 1)
  BY <1>3, PhaseParts
<1>5. q = IF Drawn(levels, i + 1) = {} THEN s ELSE nextOpening(s, levels[Min(Drawn(levels, i + 1))])
  BY <1>3, <1>4, PhaseParts
<1>6. Came(clears, message, p, i, k, s)
  BY <1>4, ComesOn
<1> HIDE DEF s, k
<1>7. /\ Reads(clears, ops, s, p.stream) /\ Len(s.got) = i + 1
      /\ k \in Nat /\ Len(s.rows) = k /\ k <= Len(p.merkle) /\ s.merkle = LeftOf(p.merkle, k)
      /\ \A l \in 1..k : p.merkle[l] = Opening(s.got[levels[l].root], s.got[levels[l].at])
      /\ \A j \in Checked \cap (1..(i + 1)) : s.got[j] = message[j]
  BY <1>6 DEF Came
<1>8. CASE DrawsNone(levels, i, k)
  <2>1. q = s /\ DrawnBy(levels, i + 1, k)
    BY <1>5, <1>8 DEF DrawsNone
  <2> QED
    BY <1>7, <2>1 DEF Going
<1>9. CASE DrawsOne(levels, i, k)
  <2>1. q = nextOpening(s, levels[k + 1]) /\ DrawnBy(levels, i + 1, k + 1)
    BY <1>5, <1>9 DEF DrawsOne
  <2>2. /\ s.merkle # <<>> /\ Head(s.merkle) = Opening(s.got[levels[k + 1].root], s.got[levels[k + 1].at])
        /\ q \in Readers /\ q.error = "none" /\ q.fs = s.fs /\ q.got = s.got /\ q.stream = s.stream
        /\ q.merkle = Tail(s.merkle) /\ q.rows = Append(s.rows, Head(s.merkle))
    BY <1>3, <1>4, <2>1, TakesOpening
  <2>3. k < Len(p.merkle)
    <3>1. LeftOf(p.merkle, Len(p.merkle)) = <<>> /\ Len(p.merkle) \in Nat
      BY <1>2, NothingLeft
    <3>2. k # Len(p.merkle)
      BY <1>7, <2>2, <3>1
    <3> QED
      BY <1>7, <3>1, <3>2
  <2>4. Head(s.merkle) = p.merkle[k + 1] /\ Tail(s.merkle) = LeftOf(p.merkle, k + 1) /\ Head(s.merkle) \in Hints
    <3> DEFINE hints == p.merkle
    <3>1. hints \in Seq(Hints) /\ k \in Nat /\ k < Len(hints) /\ s.merkle = LeftOf(hints, k)
      BY <1>2, <1>7, <2>3
    <3> HIDE DEF hints
    <3>2. Head(s.merkle) = hints[k + 1] /\ Tail(s.merkle) = LeftOf(hints, k + 1) /\ Head(s.merkle) \in Hints
      BY <3>1, NextOfLeft
    <3> QED
      BY <3>2 DEF hints
  <2>5. Len(q.rows) = k + 1
    <3>1. s.rows \in Seq(Hints) /\ Len(s.rows) = k /\ q.rows = Append(s.rows, Head(s.merkle))
      BY <1>3, <1>7, <2>2, ReaderParts
    <3> QED
      BY <2>4, <3>1, AppendProperties
  <2>6. Reads(clears, ops, q, p.stream) /\ Len(q.got) = i + 1
    BY <1>7, <2>2 DEF Reads
  <2>7. ASSUME NEW l \in 1..(k + 1) PROVE p.merkle[l] = Opening(q.got[levels[l].root], q.got[levels[l].at])
    <3>1. CASE l = k + 1
      BY <2>2, <2>4, <3>1
    <3>2. CASE l # k + 1
      <4>1. l \in 1..k
        BY <1>7, <3>2
      <4> QED
        BY <1>7, <2>2, <4>1
    <3> QED
      BY <3>1, <3>2
  <2>8. q.merkle = LeftOf(p.merkle, k + 1) /\ k + 1 <= Len(p.merkle)
    <3>1. q.merkle = LeftOf(p.merkle, k + 1)
      BY <2>2, <2>4
    <3>2. Len(p.merkle) \in Nat /\ k \in Nat
      BY <1>2, <1>7
    <3> QED
      BY <2>3, <3>1, <3>2
  <2>9. \A j \in Checked \cap (1..(i + 1)) : q.got[j] = message[j]
    BY <1>7, <2>2
  <2> QED
    BY <2>1, <2>5, <2>6, <2>7, <2>8, <2>9 DEF Going
<1>10. DrawsNone(levels, i, k) \/ DrawsOne(levels, i, k)
  <2>1. size \in Sizes /\ levels = Openings[size] /\ DrawnBy(levels, i, k)
    BY <1>1, <1>2
  <2> HIDE DEF size, levels
  <2> QED
    BY <2>1, DrawsNext
<1> QED
  BY <1>8, <1>9, <1>10, Zenon

(* On a proof somebody could have written no phase fails.                  *)
LEMMA LedAsItGoes ==
  ASSUME NEW p \in Proofs, SetupOk(p), NEW i \in Nat, NEW r, Going(clears, message, p, i, r), i < Len(Ops(Head(p.stream))),
         NEW q, q = Phase(Head(p.stream), r, i + 1),
         NEW w, Leads(clears, message, p, w), Follows(clears, Ops(Head(p.stream)), w.told, w, r)
  PROVE  ~Failed(q) /\ Follows(clears, Ops(Head(p.stream)), w.told, w, q)
<1> DEFINE size == Head(p.stream)
           ops == Ops(size)
           levels == Openings[size]
           k == Len(r.rows)
           s == DoOp(r, ops[i + 1])
<1>1. Reads(clears, ops, r, p.stream) /\ Len(r.got) = i /\ DrawnBy(levels, i, k)
  BY DEF Going
<1>2. size \in Sizes /\ p.merkle \in Seq(Hints) /\ ops \in Seq(OpSet) /\ levels \in Seq([root : Nat, at : Nat])
  BY ScheduleParts DEF SetupOk, Proofs
<1>3. s \in Readers /\ ~Failed(r)
  BY <1>1, DoesOp DEF Reads, Failed
<1>4. ~Failed(s) /\ Follows(clears, ops, w.told, w, s)
  BY <1>1, FollowsOp
<1>5. /\ Finished(clears, ops, levels, w.told, w) /\ w.stream = p.stream /\ w.merkle = p.merkle
      /\ \A j \in Checked \cap (1..Len(ops)) : w.told[j] = message[j]
  BY DEF Leads
<1>6. Len(s.got) = i + 1 /\ \A j \in 1..(i + 1) : s.got[j] = w.told[j]
  <2>1. GoesOn(clears, ops, s, r, p.stream)
    BY <1>1, <1>4, DoesOp
  <2>2. Len(s.got) = i + 1
    BY <1>1, <2>1 DEF GoesOn
  <2>3. w.told \in Seq(Results) /\ s.got \in Seq(Results) /\ Extends(w.told, s.got)
    BY <1>4, WriterParts, ReaderParts DEF Follows, Writes, Reads
  <2>4. Len(s.got) <= Len(w.told) /\ SubSeq(w.told, 1, Len(s.got)) = s.got
    BY <2>3 DEF Extends
  <2>5. \A j \in 1..Len(s.got) : SubSeq(w.told, 1, Len(s.got))[j] = w.told[j]
    BY <2>3, <2>4
  <2> QED
    BY <2>2, <2>4, <2>5
<1>7. Agrees(s, i + 1)
  <2>1. i + 1 \in 1..Len(ops) /\ i + 1 \in 1..(i + 1)
    BY <1>2
  <2> QED
    BY <1>5, <1>6, <2>1 DEF Agrees
<1>8. q = IF Drawn(levels, i + 1) = {} THEN s ELSE nextOpening(s, levels[Min(Drawn(levels, i + 1))])
  BY <1>3, <1>4, <1>7, PhaseParts
<1>9. Came(clears, message, p, i, k, s)
  BY <1>4, <1>7, ComesOn
<1> HIDE DEF s, k
<1>10. CASE DrawsNone(levels, i, k)
  BY <1>4, <1>8, <1>10 DEF DrawsNone
<1>11. CASE DrawsOne(levels, i, k)
  <2>1. q = nextOpening(s, levels[k + 1]) /\ k < Len(levels) /\ levels[k + 1].at = i + 1
    BY <1>8, <1>11 DEF DrawsOne
  <2>2. k \in Nat /\ s.merkle = LeftOf(p.merkle, k)
    BY <1>9 DEF Came
  <2>3. k + 1 \in DOMAIN levels /\ k + 1 \in 1..Len(levels)
    <3>1. Len(levels) \in Nat /\ DOMAIN levels = 1..Len(levels)
      BY <1>2
    <3> HIDE DEF levels
    <3> QED
      BY <2>1, <2>2, <3>1
  <2>4. Len(p.merkle) = Len(levels)
    <3>1. OpeningsOk(p)
      BY LedIsSetUp
    <3> QED
      BY <3>1 DEF OpeningsOk
  <2>5. s.merkle # <<>> /\ Head(s.merkle) = p.merkle[k + 1]
    <3> DEFINE hints == p.merkle
    <3>1. hints \in Seq(Hints) /\ k \in Nat /\ k < Len(hints) /\ s.merkle = LeftOf(hints, k)
      BY <1>2, <2>1, <2>2, <2>4
    <3> HIDE DEF hints
    <3>2. s.merkle # <<>> /\ Head(s.merkle) = hints[k + 1]
      BY <3>1, NextOfLeft
    <3> QED
      BY <3>2 DEF hints
  <2>6. p.merkle[k + 1] = Opening(w.told[levels[k + 1].root], w.told[levels[k + 1].at])
    BY <1>5, <2>3 DEF Finished
  <2>7. levels[k + 1].root \in 1..(i + 1) /\ levels[k + 1].at \in 1..(i + 1)
    <3> HIDE DEF levels
    <3>1. /\ levels[k + 1].root \in Nat /\ levels[k + 1].at \in Nat
          /\ 1 <= levels[k + 1].root /\ levels[k + 1].root < levels[k + 1].at
      BY <1>2, <2>3, RootBeforeAt DEF levels
    <3> QED
      BY <2>1, <3>1
  <2>8. Head(s.merkle) = Opening(s.got[levels[k + 1].root], s.got[levels[k + 1].at])
    BY <1>6, <2>5, <2>6, <2>7
  <2>9. ~Failed(q) /\ q \in Readers /\ q.error = "none" /\ q.fs = s.fs /\ q.got = s.got /\ q.stream = s.stream
    <3> DEFINE level == levels[k + 1]
    <3>1. s \in Readers /\ ~Failed(s) /\ q = nextOpening(s, level)
      BY <1>3, <1>4, <2>1
    <3>2. s.merkle # <<>> /\ Head(s.merkle) = Opening(s.got[level.root], s.got[level.at])
      BY <2>5, <2>8
    <3> HIDE DEF level
    <3>3. ~Failed(q)
      BY <3>1, <3>2, TakesOpening
    <3> QED
      BY <3>1, <3>3, TakesOpening
  <2>10. Follows(clears, ops, w.told, w, q)
    BY <1>4, <2>9 DEF Follows, Reads
  <2> QED
    BY <2>9, <2>10
<1>12. DrawsNone(levels, i, k) \/ DrawsOne(levels, i, k)
  <2>1. size \in Sizes /\ levels = Openings[size] /\ DrawnBy(levels, i, k)
    BY <1>1, <1>2
  <2> HIDE DEF size, levels
  <2> QED
    BY <2>1, DrawsNext
<1> QED
  BY <1>10, <1>11, <1>12, Zenon

(* A verifier starts to read as it goes on a reader of the proof.          *)
LEMMA StartsAsItGoes ==
  ASSUME NEW p \in Proofs, SetupOk(p)
  PROVE  /\ Going(clears, message, p, 0, Reader(p))
         /\ \A w : Leads(clears, message, p, w) => Follows(clears, Ops(Head(p.stream)), w.told, w, Reader(p))
<1> DEFINE size == Head(p.stream)
           ops == Ops(size)
           levels == Openings[size]
           r == Reader(p)
<1>1. size \in Sizes /\ ops \in Seq(OpSet) /\ levels \in Seq([root : Nat, at : Nat]) /\ p.stream \in Seq(Scalars)
      /\ p.merkle \in Seq(Hints)
  BY ScheduleParts DEF SetupOk, Proofs
<1>2. /\ r.fs = <<>> /\ r.got = <<>> /\ r.rows = <<>> /\ r.stream = p.stream /\ r.merkle = p.merkle
      /\ r.error = "none"
  BY DEF Reader
<1>3. r \in Readers
  BY <1>1, EmptySeq DEF Reader, Readers
<1> HIDE DEF r
<1>4. Reads(clears, ops, r, p.stream)
  <2>1. Transcribes(clears, ops, <<>>, <<>>) /\ Carries(<<>>, p.stream) /\ Rest(<<>>, p.stream) = p.stream
    BY <1>1, EmptyChain
  <2> QED
    BY <1>2, <1>3, <2>1 DEF Reads
<1>5. Len(r.got) = 0 /\ Len(r.rows) = 0 /\ r.merkle = LeftOf(p.merkle, 0) /\ Len(p.merkle) \in Nat
  BY <1>1, <1>2, SubSeqFull DEF LeftOf
<1>6. DrawnBy(levels, 0, 0)
  <2>1. ASSUME NEW j \in 1..Len(levels) PROVE j <= 0 <=> levels[j].at <= 0
    <3> HIDE DEF levels
    <3>1. levels[j].root \in Nat /\ levels[j].at \in Nat /\ 1 <= levels[j].root /\ levels[j].root < levels[j].at
      BY <1>1, RootBeforeAt DEF levels
    <3> QED
      BY <3>1
  <2>2. 0 \in 0..Len(levels)
    BY <1>1
  <2> HIDE DEF levels
  <2> QED
    BY <2>1, <2>2 DEF DrawnBy
<1>7. Going(clears, message, p, 0, r)
  BY <1>2, <1>4, <1>5, <1>6 DEF Going
<1>8. ASSUME NEW w, Leads(clears, message, p, w) PROVE Follows(clears, ops, w.told, w, r)
  <2>1. Writes(clears, ops, w.told, w) /\ Len(w.told) = Len(ops)
    BY <1>8, LedIsSetUp
  <2>2. w.stream = p.stream
    BY <1>8 DEF Leads
  <2>3. w.fs \in Seq(BlockSet) /\ w.told \in Seq(Results)
    BY <2>1, WriterParts DEF Writes
  <2>4. Extends(w.fs, <<>>) /\ Extends(w.told, <<>>)
    BY <2>3 DEF Extends
  <2> QED
    BY <1>2, <1>4, <2>1, <2>2, <2>4 DEF Follows
<1> QED
  BY <1>7, <1>8 DEF r

(* Without a throw it is Going, at every phase.                            *)
LEMMA AllAsItGoes ==
  ASSUME NEW p \in Proofs, SetupOk(p), NEW n \in 0..Len(Ops(Head(p.stream))), ~Failed(ReadAsItGoes(p, n))
  PROVE  Going(clears, message, p, n, ReadAsItGoes(p, n))
<1> DEFINE ops == Ops(Head(p.stream))
           S == {k \in Nat : k <= Len(ops) /\ ~Failed(ReadAsItGoes(p, k)) => Going(clears, message, p, k, ReadAsItGoes(p, k))}
<1>1. 0 \in S
  BY ReadGrows, StartsAsItGoes
<1>2. ASSUME NEW k \in Nat, k \in S PROVE k + 1 \in S
  <2> SUFFICES ASSUME k + 1 <= Len(ops), ~Failed(ReadAsItGoes(p, k + 1))
               PROVE  Going(clears, message, p, k + 1, ReadAsItGoes(p, k + 1))
    OBVIOUS
  <2>1. ReadAsItGoes(p, k + 1) = Phase(Head(p.stream), ReadAsItGoes(p, k), k + 1)
    BY ReadGrows
  <2>2. ~Failed(ReadAsItGoes(p, k))
    BY <2>1 DEF Phase
  <2>3. Len(ops) \in Nat
    BY ScheduleParts DEF SetupOk
  <2>4. k < Len(ops) /\ k <= Len(ops)
    BY <2>3
  <2>5. Going(clears, message, p, k, ReadAsItGoes(p, k))
    BY <1>2, <2>2, <2>4
  <2> QED
    BY <2>1, <2>4, <2>5, GoesOnAsItGoes
<1> HIDE DEF S
<1>3. \A k \in Nat : k \in S
  BY <1>1, <1>2, Induction
<1> QED
  BY <1>3 DEF S

(* On a proof somebody could have written it follows him at every phase.   *)
LEMMA AllLedAsItGoes ==
  ASSUME NEW p \in Proofs, SetupOk(p), NEW n \in 0..Len(Ops(Head(p.stream))), NEW w, Leads(clears, message, p, w)
  PROVE  ~Failed(ReadAsItGoes(p, n)) /\ Follows(clears, Ops(Head(p.stream)), w.told, w, ReadAsItGoes(p, n))
<1> DEFINE ops == Ops(Head(p.stream))
           S == {k \in Nat : k <= Len(ops) => /\ ~Failed(ReadAsItGoes(p, k))
                                              /\ Follows(clears, ops, w.told, w, ReadAsItGoes(p, k))}
<1>1. 0 \in S
  <2>1. ReadAsItGoes(p, 0) = Reader(p) /\ ~Failed(Reader(p))
    BY ReadGrows DEF Reader, Failed
  <2>2. Follows(clears, ops, w.told, w, Reader(p))
    BY StartsAsItGoes
  <2> QED
    BY <2>1, <2>2
<1>2. ASSUME NEW k \in Nat, k \in S PROVE k + 1 \in S
  <2> SUFFICES ASSUME k + 1 <= Len(ops)
               PROVE  ~Failed(ReadAsItGoes(p, k + 1)) /\ Follows(clears, ops, w.told, w, ReadAsItGoes(p, k + 1))
    OBVIOUS
  <2>1. ReadAsItGoes(p, k + 1) = Phase(Head(p.stream), ReadAsItGoes(p, k), k + 1)
    BY ReadGrows
  <2>2. Len(ops) \in Nat
    BY ScheduleParts DEF SetupOk
  <2>3. k < Len(ops) /\ k <= Len(ops) /\ k \in 0..Len(ops)
    BY <2>2
  <2>4. ~Failed(ReadAsItGoes(p, k)) /\ Follows(clears, ops, w.told, w, ReadAsItGoes(p, k))
    BY <1>2, <2>3
  <2>5. Going(clears, message, p, k, ReadAsItGoes(p, k))
    BY <2>3, <2>4, AllAsItGoes
  <2> QED
    BY <2>1, <2>3, <2>4, <2>5, LedAsItGoes
<1> HIDE DEF S
<1>3. \A k \in Nat : k \in S
  BY <1>1, <1>2, Induction
<1> QED
  BY <1>3 DEF S

(* After the last phase every level was opened.                            *)
LEMMA GoneToTheEnd ==
  ASSUME NEW p \in Proofs, SetupOk(p), NEW n, n = Len(Ops(Head(p.stream))), NEW r, Going(clears, message, p, n, r)
  PROVE  Len(r.rows) = Len(Openings[Head(p.stream)])
<1> DEFINE levels == Openings[Head(p.stream)]
           size == Head(p.stream)
<1>1. size \in Sizes /\ Len(levels) \in Nat
  BY ScheduleParts DEF SetupOk
<1>2. DrawnBy(levels, n, Len(r.rows)) /\ Len(r.rows) \in 0..Len(levels)
  BY DEF Going, DrawnBy
<1>3. \A l \in 1..Len(levels) : levels[l].at <= n
  BY <1>1, RootBeforeAt
<1>4. CASE Len(levels) = 0
  BY <1>2, <1>4
<1>5. CASE Len(levels) # 0
  <2>1. Len(levels) \in 1..Len(levels)
    BY <1>1, <1>5
  <2>2. Len(levels) <= Len(r.rows)
    BY <1>2, <1>3, <2>1 DEF DrawnBy
  <2> QED
    BY <1>1, <1>2, <2>2
<1> QED
  BY <1>4, <1>5

(* A verifier that reads as it goes accepts what somebody could have       *)
(* written.                                                                *)
LEMMA AsItGoesIsGood ==
  ASSUME NEW p \in Proofs
  PROVE  AsItGoes(p) <=> Good(clears, message, p)
<1> DEFINE size == Head(p.stream)
           n == Len(Ops(size))
           levels == Openings[size]
           r == ReadAsItGoes(p, n)
<1>1. AsItGoes(p) <=> SetupOk(p) /\ ~Failed(r) /\ ~Failed(finish(r))
  BY DEF AsItGoes
<1> HIDE DEF r
<1>2. p.merkle \in Seq(Hints)
  BY DEF Proofs
<1>3. ASSUME SetupOk(p) PROVE size \in Sizes /\ n \in Nat /\ n \in 0..n /\ Len(levels) \in Nat
  BY <1>3, ScheduleParts DEF SetupOk
<1>4. ASSUME SetupOk(p), ~Failed(r)
      PROVE  /\ r \in Readers /\ Going(clears, message, p, n, r) /\ Len(r.rows) = Len(levels)
             /\ (finish(r) = r <=> r.stream = <<>> /\ r.merkle = <<>>) /\ (Failed(finish(r)) <=> finish(r) # r)
  <2>1. Going(clears, message, p, n, r)
    BY <1>3, <1>4, AllAsItGoes DEF r
  <2>2. r \in Readers
    BY <2>1 DEF Going, Reads
  <2>3. Failed(Throw(r, "notFullyConsumed"))
    BY <2>2 DEF Throw, Failed, Readers
  <2> QED
    BY <1>4, <2>1, <2>2, <2>3, GoneToTheEnd DEF finish
<1>5. ASSUME AsItGoes(p) PROVE Good(clears, message, p)
  <2>1. SetupOk(p) /\ ~Failed(r) /\ ~Failed(finish(r))
    BY <1>1, <1>5
  <2>2. /\ r \in Readers /\ Going(clears, message, p, n, r) /\ Len(r.rows) = Len(levels)
        /\ r.stream = <<>> /\ r.merkle = <<>>
    BY <1>4, <2>1
  <2>3. /\ Reads(clears, Ops(size), r, p.stream) /\ Len(r.got) = n /\ Len(levels) <= Len(p.merkle)
        /\ LeftOf(p.merkle, Len(levels)) = <<>>
        /\ \A l \in 1..Len(levels) : p.merkle[l] = Opening(r.got[levels[l].root], r.got[levels[l].at])
        /\ \A j \in Checked \cap (1..n) : r.got[j] = message[j]
    BY <2>2 DEF Going
  <2>4. Len(p.merkle) = Len(levels)
    <3>1. ASSUME Len(levels) < Len(p.merkle) PROVE FALSE
      BY <1>2, <1>3, <2>1, <2>3, <3>1, NextOfLeft
    <3> QED
      BY <1>2, <1>3, <2>1, <2>3, <3>1
  <2>5. ReadWell(clears, message, p, r)
    BY <2>1, <2>2, <2>3, <2>4 DEF ReadWell
  <2> QED
    BY <2>5, ReadIsGood
<1>6. ASSUME Good(clears, message, p) PROVE AsItGoes(p)
  <2>1. SetupOk(p)
    BY <1>6 DEF Good
  <2>2. PICK w : Leads(clears, message, p, w)
    BY <1>6 DEF Good
  <2>3. ~Failed(r) /\ Follows(clears, Ops(size), w.told, w, r)
    BY <1>3, <2>1, <2>2, AllLedAsItGoes DEF r
  <2>4. Going(clears, message, p, n, r) /\ Len(r.rows) = Len(levels)
    BY <1>4, <2>1, <2>3
  <2>5. Len(r.got) = n /\ r.merkle = LeftOf(p.merkle, Len(levels))
    BY <2>4 DEF Going
  <2>6. r.stream = <<>>
    BY <2>3, <2>5, FollowedToTheEnd
  <2>7. Len(p.merkle) = Len(levels)
    <3>1. OpeningsOk(p)
      BY <2>1, <2>2, LedIsSetUp
    <3> QED
      BY <3>1 DEF OpeningsOk
  <2>8. r.merkle = <<>>
    BY <1>2, <2>5, <2>7, NothingLeft
  <2> QED
    BY <1>1, <1>4, <2>1, <2>3, <2>6, <2>8
<1> QED
  BY <1>5, <1>6

(* Reading everything first, opening then and checking last accepts what   *)
(* checking each phase as it is read accepts, and nothing else, for every  *)
(* schedule, hash and delivery: the proofs somebody could have written     *)
(* (Setup, Bus and Whir of Protocol/Verify, "Differences from the Rust").   *)
THEOREM StagesAccept == Spec => []StagesAcceptAsItGoes
<1>1. Inv /\ LeadInv => StagesAcceptAsItGoes
  <2> SUFFICES ASSUME Inv, LeadInv, Judged PROVE stage = "accepted" <=> AsItGoes(proof)
    BY DEF StagesAcceptAsItGoes
  <2>1. AsItGoes(proof) <=> Good(clears, message, proof)
    BY AsItGoesIsGood DEF Inv, ReaderInv
  <2> QED
    BY <2>1 DEF LeadInv, Judged
<1> QED
  BY <1>1, InvHolds, LeadsAlways, PTL

=============================================================================
