-------------------------- MODULE TraceReaderProofs --------------------------
(***************************************************************************)
(* What a satisfying witness says, for every field, program, image and     *)
(* list of rows: no row was ever compared with the memory or with the      *)
(* program, the two lookups make up for it, so every row is a step; and    *)
(* the walk of the reader over the rows arrives, whatever closed walks the *)
(* prover has added.                                                       *)
(***************************************************************************)
EXTENDS TraceReader, ConstraintProofs

-----------------------------------------------------------------------------
(* The arguments stay what they were.                                      *)
ArgumentsHold == \E a \in Arguments : prog = a.prog /\ input = a.input /\ witness = a.witness

(* No action assigns them.                                                 *)
LEMMA ArgumentsInvariant == Spec => []ArgumentsHold
<1>1. Init => ArgumentsHold
  BY DEF Init, ArgumentsHold
<1>2. ArgumentsHold /\ [Next]_vars => ArgumentsHold'
  BY DEF ArgumentsHold, Next, vars, InsertRow, StartWalk, Arrive, GiveUp, MissingState, WalkStep, Return
<1> QED
  BY <1>1, <1>2, PTL DEF Spec

(* What ReaderAssumption says of the arguments of this call.               *)
LEMMA ArgumentsTyped ==
  ASSUME ArgumentsHold
  PROVE  /\ IsProgram(prog) /\ prog.size < Ord
         /\ IsImage(witness.image)
         /\ Len(rows) \in Nat /\ DOMAIN rows = 1..Len(rows)
         /\ \A i \in DOMAIN rows : IsRow(rows[i])
<1>1. PICK a \in Arguments : prog = a.prog /\ witness = a.witness
  BY DEF ArgumentsHold
<1>2. IsProgram(prog) /\ prog.size < Ord /\ IsImage(witness.image)
  BY <1>1, ReaderAssumption DEF IsArgument
<1>3. /\ rows \in Seq({rows[i] : i \in DOMAIN rows})
      /\ \A i \in DOMAIN rows : IsRow(rows[i])
  BY <1>1, ReaderAssumption DEF IsArgument, rows
<1> QED
  BY <1>2, <1>3

(* The places of the reads are finitely many, none is a place of a block,  *)
(* and each row reads at least one cell.                                   *)
LEMMA PlacesOfReads ==
  ASSUME ArgumentsHold
  PROVE  /\ IsFiniteSet(ReadPlaces(witness))
         /\ \A x \in ReadPlaces(witness) :
              /\ x[1] \in DOMAIN rows /\ x[2] \in 1..Reads(rows[x[1]].op)
              /\ x = <<x[1], x[2]>>
         /\ \A i \in DOMAIN rows : <<i, 1>> \in ReadPlaces(witness)
<1>1. \A op : Reads(op) \in {1, 3, 9}
  BY DEF Reads
<1>2. ReadPlaces(witness) = UNION {{<<i, j>> : j \in 1..Reads(rows[i].op)} : i \in DOMAIN rows}
  BY DEF ReadPlaces, rows
<1>3. \A x \in ReadPlaces(witness) : \E i \in DOMAIN rows : \E j \in 1..Reads(rows[i].op) : x = <<i, j>>
  BY <1>2
<1>4. \A i \in DOMAIN rows : \A j \in 1..Reads(rows[i].op) : <<i, j>> \in ReadPlaces(witness)
  BY <1>2
<1>5. ReadPlaces(witness) \in SUBSET ((1..Len(rows)) \X (1..9))
  <2>1. \A i \in DOMAIN rows : \A j \in 1..Reads(rows[i].op) : j \in 1..9
    BY <1>1
  <2> QED
    BY <1>3, <2>1, ArgumentsTyped
<1>6. IsFiniteSet((1..Len(rows)) \X (1..9))
  <2>1. \A n \in Nat : IsFiniteSet(1..n)
    BY FS_Interval
  <2>2. IsFiniteSet(1..Len(rows)) /\ IsFiniteSet(1..9)
    BY <2>1, ArgumentsTyped
  <2> QED
    BY <2>2, FS_Product
<1>7. IsFiniteSet(ReadPlaces(witness))
  BY <1>5, <1>6, FS_Subset
<1>8. \A i \in DOMAIN rows : 1 \in 1..Reads(rows[i].op)
  BY <1>1
<1> QED
  BY <1>3, <1>4, <1>7, <1>8

(* The memory lookup.                                                      *)
LEMMA MemoryLookup ==
  ASSUME ArgumentsHold, Satisfied, NEW x \in ReadPlaces(witness)
  PROVE  LET m == memRead(witness, x)
         IN  read(witness.image, m.addr) = m.val /\ m.val \in E
<1> DEFINE L == witness.image
           R == ReadPlaces(witness)
           B == BlockPlaces(L.size)
           blockMsg(y, count) == Msg(gpow(y[2]), count, L.cell[y[2]])
           F == [y \in R \cup B |-> IF y \in B THEN blockMsg(y, One) ELSE bump(memRead(witness, y))]
           G == [y \in R \cup B |-> IF y \in B THEN blockMsg(y, witness.memFin[y[2]]) ELSE memRead(witness, y)]
<1>1. Perm(F, G)
  BY DEF Satisfied, SatisfiedBy, MemoryBalanced
<1>2. L.size \in Nat \ {0} /\ L.size <= Ord
  BY ArgumentsTyped, WindowAssumption, OrdAssumption DEF IsImage, Satisfied, SatisfiedBy, Caps
<1>3. IsFiniteSet(R) /\ Cardinality(R) <= MaxReads
  BY PlacesOfReads DEF Satisfied, SatisfiedBy, Caps
<1>4. IsFiniteSet(B)
  BY <1>2, BlockPlacesFinite
<1>5. R \cap B = {}
  BY PlacesOfReads, ArgumentsTyped DEF BlockPlaces
<1>6. \A y \in R : memRead(witness, y).count \in K \ {Zero}
  <2> SUFFICES ASSUME NEW y \in R PROVE memRead(witness, y).count \in K \ {Zero}
    OBVIOUS
  <2>1. y[1] \in DOMAIN rows /\ y[2] \in 1..Reads(rows[y[1]].op)
    BY PlacesOfReads
  <2>2. rows[y[1]].r \in [1..Reads(rows[y[1]].op) -> K]
    BY <2>1, ArgumentsTyped DEF IsRow
  <2>3. rows[y[1]].r[y[2]] # Zero
    BY <2>1, <2>2 DEF Satisfied, SatisfiedBy, CountsNonzero, rows
  <2>4. memRead(witness, y).count = rows[y[1]].r[y[2]]
    BY DEF memRead, Msg, rows
  <2> QED
    BY <2>1, <2>2, <2>3, <2>4
<1>7. \A y \in R : /\ F[y].addr = G[y].addr /\ F[y].val = G[y].val
                   /\ F[y].count = KMul(gpow(1), G[y].count)
                   /\ G[y].count \in K \ {Zero} /\ G[y] = memRead(witness, y)
  <2> SUFFICES ASSUME NEW y \in R
               PROVE  /\ F[y].addr = G[y].addr /\ F[y].val = G[y].val
                      /\ F[y].count = KMul(gpow(1), G[y].count)
                      /\ G[y].count \in K \ {Zero} /\ G[y] = memRead(witness, y)
    OBVIOUS
  <2>1. F[y] = bump(memRead(witness, y)) /\ G[y] = memRead(witness, y)
    BY <1>5
  <2>2. bump(memRead(witness, y)).addr = memRead(witness, y).addr
        /\ bump(memRead(witness, y)).val = memRead(witness, y).val
        /\ bump(memRead(witness, y)).count = KMul(gpow(1), memRead(witness, y).count)
    BY DEF bump, memRead, Msg
  <2> QED
    BY <1>6, <2>1, <2>2
<1>8. \A b \in B : /\ F[b].addr = gpow(b[2]) /\ F[b].val = L.cell[b[2]]
                   /\ G[b].addr = F[b].addr /\ G[b].val = F[b].val
  BY DEF Msg
<1>9. \E b \in B : F[b].addr = G[x].addr /\ F[b].val = G[x].val
  <2>1. DOMAIN F = R \cup B /\ DOMAIN G = R \cup B
    OBVIOUS
  <2> HIDE DEF F, G, R, B
  <2>2. Lookup(R, B, F, G)
    BY <1>1, <1>3, <1>4, <1>5, <1>7, <1>8, <2>1 DEF Lookup
  <2>3. x \in R
    BY DEF R
  <2> QED
    BY <2>2, <2>3, NoForgedReads
<1>10. G[x] = memRead(witness, x)
  BY <1>7
<1> HIDE DEF F, G
<1>11. PICK b \in B : gpow(b[2]) = memRead(witness, x).addr /\ L.cell[b[2]] = memRead(witness, x).val
  BY <1>8, <1>9, <1>10
<1>12. b[2] \in 0..L.size - 1
  BY DEF BlockPlaces
<1>13. \A i \in 0..L.size - 1 : gpow(i) = i
  BY <1>2, BelowOrder, OrdAssumption
<1>14. gLog(L.size, gpow(b[2])) = b[2] /\ HasIndex(L.size, gpow(b[2]))
  BY <1>12, <1>13 DEF gLog, HasIndex
<1>15. L.cell[b[2]] \in E
  BY <1>12, ArgumentsTyped DEF IsImage
<1> QED
  BY <1>11, <1>14, <1>15 DEF read

(* The bytecode lookup: a row is one read of it.                           *)
LEMMA BytecodeLookup ==
  ASSUME ArgumentsHold, Satisfied, NEW i \in DOMAIN rows
  PROVE  /\ HasIndex(prog.size, rows[i].pc)
         /\ rowEntry(rows[i]) = entry(prog.code[gLog(prog.size, rows[i].pc)])
<1> DEFINE R == {<<k, 1>> : k \in DOMAIN rows}
           B == BlockPlaces(prog.size)
           blockMsg(y, count) == Msg(gpow(y[2]), count, entry(prog.code[y[2]]))
           F == [y \in R \cup B |-> IF y \in B THEN blockMsg(y, One) ELSE bump(bytecodeRead(witness, y[1]))]
           G == [y \in R \cup B |-> IF y \in B THEN blockMsg(y, witness.bcFin[y[2]])
                                              ELSE bytecodeRead(witness, y[1])]
<1>1. Perm(F, G)
  BY DEF Satisfied, SatisfiedBy, BytecodeBalanced, rows
<1>2. prog.size \in Nat \ {0} /\ prog.size < Ord
  BY ArgumentsTyped, OrdAssumption DEF IsProgram
<1>3. IsFiniteSet(R) /\ Cardinality(R) <= MaxReads
  <2>1. R \in SUBSET ReadPlaces(witness) /\ IsFiniteSet(ReadPlaces(witness))
    BY PlacesOfReads
  <2>2. Cardinality(ReadPlaces(witness)) <= MaxReads
    BY DEF Satisfied, SatisfiedBy, Caps
  <2> HIDE DEF R
  <2>3. /\ IsFiniteSet(R) /\ Cardinality(R) <= Cardinality(ReadPlaces(witness))
        /\ Cardinality(R) \in Nat /\ Cardinality(ReadPlaces(witness)) \in Nat
    BY <2>1, FS_Subset, FS_CardinalityType
  <2> QED
    BY <2>2, <2>3, CapsAssumption
<1>4. IsFiniteSet(B)
  BY <1>2, BlockPlacesFinite
<1>5. R \cap B = {}
  BY ArgumentsTyped DEF BlockPlaces
<1>6. \A y \in R : /\ F[y].addr = G[y].addr /\ F[y].val = G[y].val
                   /\ F[y].count = KMul(gpow(1), G[y].count)
                   /\ G[y].count \in K \ {Zero} /\ G[y] = bytecodeRead(witness, y[1])
  <2> SUFFICES ASSUME NEW y \in R
               PROVE  /\ F[y].addr = G[y].addr /\ F[y].val = G[y].val
                      /\ F[y].count = KMul(gpow(1), G[y].count)
                      /\ G[y].count \in K \ {Zero} /\ G[y] = bytecodeRead(witness, y[1])
    OBVIOUS
  <2>1. F[y] = bump(bytecodeRead(witness, y[1])) /\ G[y] = bytecodeRead(witness, y[1])
    BY <1>5
  <2>2. y[1] \in DOMAIN rows
    OBVIOUS
  <2>3. bytecodeRead(witness, y[1]).count \in K \ {Zero}
    BY <2>2, ArgumentsTyped DEF IsRow, Satisfied, SatisfiedBy, CountsNonzero, rows, bytecodeRead, Msg
  <2>4. bump(bytecodeRead(witness, y[1])).addr = bytecodeRead(witness, y[1]).addr
        /\ bump(bytecodeRead(witness, y[1])).val = bytecodeRead(witness, y[1]).val
        /\ bump(bytecodeRead(witness, y[1])).count = KMul(gpow(1), bytecodeRead(witness, y[1]).count)
    BY DEF bump, bytecodeRead, Msg
  <2> QED
    BY <2>1, <2>3, <2>4
<1>7. \A b \in B : /\ F[b].addr = gpow(b[2]) /\ F[b].val = entry(prog.code[b[2]])
                   /\ G[b].addr = F[b].addr /\ G[b].val = F[b].val
  BY DEF Msg
<1>8. \E b \in B : F[b].addr = G[<<i, 1>>].addr /\ F[b].val = G[<<i, 1>>].val
  <2>1. DOMAIN F = R \cup B /\ DOMAIN G = R \cup B
    OBVIOUS
  <2> HIDE DEF F, G, R, B
  <2>2. Lookup(R, B, F, G)
    BY <1>1, <1>3, <1>4, <1>5, <1>6, <1>7, <2>1 DEF Lookup
  <2>3. <<i, 1>> \in R
    BY DEF R
  <2> QED
    BY <2>2, <2>3, NoForgedReads
<1>9. G[<<i, 1>>] = bytecodeRead(witness, i)
  BY <1>5
<1> HIDE DEF F, G
<1>10. PICK b \in B : /\ gpow(b[2]) = bytecodeRead(witness, i).addr
                     /\ entry(prog.code[b[2]]) = bytecodeRead(witness, i).val
  BY <1>7, <1>8, <1>9
<1>11. gpow(b[2]) = rows[i].pc /\ entry(prog.code[b[2]]) = rowEntry(rows[i])
  BY <1>10 DEF bytecodeRead, Msg, rows
<1> HIDE DEF B
<1>12. b[2] \in 0..prog.size - 1
  BY DEF B, BlockPlaces
<1>13. \A k \in 0..prog.size - 1 : gpow(k) = k
  BY <1>2, BelowOrder, OrdAssumption
<1>14. gLog(prog.size, gpow(b[2])) = b[2] /\ HasIndex(prog.size, gpow(b[2]))
  BY <1>12, <1>13 DEF gLog, HasIndex
<1>15. gLog(prog.size, rows[i].pc) = b[2] /\ HasIndex(prog.size, rows[i].pc)
  BY <1>11, <1>14
<1> QED
  BY <1>11, <1>15

(* Both lookups of a satisfying witness are sound, whatever rows, counts   *)
(* and finalize columns the prover has committed.                          *)
THEOREM ReadsAreSound == Spec => []LookupsSound
<1>1. ArgumentsHold => LookupsSound
  BY MemoryLookup, BytecodeLookup DEF LookupsSound
<1> QED
  BY <1>1, ArgumentsInvariant, PTL

-----------------------------------------------------------------------------
(* Both lookups together support every row.                                *)
LEMMA RowsSupported ==
  ASSUME ArgumentsHold, Satisfied, NEW i \in DOMAIN rows
  PROVE  /\ fetch(prog, rows[i].pc) \in Instr
         /\ HasIndex(prog.size, rows[i].pc)
         /\ Supported(rows[i], fetch(prog, rows[i].pc), witness.image)
<1> DEFINE ins == prog.code[gLog(prog.size, rows[i].pc)]
<1>1. HasIndex(prog.size, rows[i].pc) /\ rowEntry(rows[i]) = entry(ins)
  BY BytecodeLookup
<1>2. fetch(prog, rows[i].pc) = ins /\ ins \in Instr
  BY <1>1, ArgumentsTyped DEF fetch, IsProgram, HasIndex, gLog
<1>3. IsRow(rows[i])
  BY ArgumentsTyped
<1>4. Residuals(rows[i]) /\ Blake2sRelation(rows[i])
  BY DEF Satisfied, SatisfiedBy, Constraints, Blake2sRowsValid, rows
<1>5. ASSUME NEW j \in 1..Reads(rows[i].op)
      PROVE  /\ read(witness.image, readAddrs(rows[i])[j]) = readWords(rows[i])[j]
             /\ readWords(rows[i])[j] \in E
  <2>1. <<i, j>> \in ReadPlaces(witness)
    BY DEF ReadPlaces, rows
  <2>2. memRead(witness, <<i, j>>) = Msg(readAddrs(rows[i])[j], rows[i].r[j], readWords(rows[i])[j])
    BY DEF memRead, rows
  <2> QED
    BY <2>1, <2>2, MemoryLookup DEF Msg
<1> QED
  BY <1>1, <1>2, <1>3, <1>4, <1>5 DEF Supported

-----------------------------------------------------------------------------
(* Each row is a step.                                                     *)
LEMMA RowsStep ==
  ASSUME ArgumentsHold, Satisfied, NEW i \in DOMAIN rows
  PROVE  RowIsStep(rows[i])
<1>1. Supported(rows[i], fetch(prog, pull(rows[i]).pc), witness.image)
  BY RowsSupported DEF pull
<1> QED
  BY <1>1, SupportedIsStep DEF RowIsStep, step

(* The places of the state channel, what is pushed and what is pulled.     *)
Places == DOMAIN rows \cup {0}
Pushed(s) == {k \in Places : (IF k = 0 THEN InitialRegs ELSE push(rows[k])) = s}
Pulled(s) == {k \in Places : (IF k = 0 THEN final ELSE pull(rows[k])) = s}

(* Balance, state by state.                                                *)
LEMMA PulledAsPushed ==
  ASSUME ArgumentsHold, Satisfied, NEW s
  PROVE  /\ IsFiniteSet(Places)
         /\ IsFiniteSet(Pushed(s)) /\ IsFiniteSet(Pulled(s))
         /\ Cardinality(Pulled(s)) \in Nat
         /\ Cardinality(Pushed(s)) = Cardinality(Pulled(s))
<1> DEFINE F == [k \in Places |-> IF k = 0 THEN InitialRegs ELSE push(rows[k])]
           G == [k \in Places |-> IF k = 0 THEN final ELSE pull(rows[k])]
<1>1. Perm(F, G)
  BY DEF Satisfied, SatisfiedBy, StateBalanced, rows, final, Places
<1>2. IsFiniteSet(Places)
  <2>1. \A n \in Nat : IsFiniteSet(1..n)
    BY FS_Interval
  <2>2. IsFiniteSet(DOMAIN rows) /\ IsFiniteSet({0})
    BY <2>1, ArgumentsTyped, FS_Singleton
  <2> QED
    BY <2>2, FS_Union DEF Places
<1>3. Pushed(s) = {k \in DOMAIN F : F[k] = s} /\ Pulled(s) = {k \in DOMAIN G : G[k] = s}
  BY DEF Pushed, Pulled
<1>4. IsFiniteSet(Pushed(s)) /\ IsFiniteSet(Pulled(s))
  BY <1>2, FS_Subset DEF Pushed, Pulled
<1>5. CASE s \in {F[k] : k \in DOMAIN F} \cup {G[k] : k \in DOMAIN G}
  <2>1. Occurrences(F, s) = Occurrences(G, s)
    BY <1>1, <1>5 DEF Perm
  <2> QED
    BY <1>2, <1>3, <1>4, <2>1, FS_CardinalityType DEF Occurrences
<1>6. CASE s \notin {F[k] : k \in DOMAIN F} \cup {G[k] : k \in DOMAIN G}
  <2>1. Pushed(s) = {} /\ Pulled(s) = {}
    BY <1>3, <1>6
  <2> QED
    BY <1>2, <1>4, <2>1, FS_CardinalityType
<1> QED
  BY <1>5, <1>6

(* A state that is pushed is the final one or some row's.                  *)
LEMMA SomeRowGoesOn ==
  ASSUME ArgumentsHold, Satisfied, NEW s, Pushed(s) # {}, s # final
  PROVE  \E i \in DOMAIN rows : pull(rows[i]) = s
<1>1. Pulled(s) # {}
  <2>1. Cardinality(Pushed(s)) # 0
    BY PulledAsPushed, FS_EmptySet
  <2> QED
    BY <2>1, PulledAsPushed, FS_EmptySet
<1> QED
  BY <1>1 DEF Pulled, Places

(* No row starts at a sentinel that is not a JUMP: it would push the       *)
(* counter g^size, where no row pulls, the program having no entry there.  *)
LEMMA NoRowAtSentinel ==
  ASSUME ArgumentsHold, Satisfied, SentinelSafe(prog), NEW i \in DOMAIN rows
  PROVE  rows[i].pc # FinalPc(prog)
<1> SUFFICES ASSUME rows[i].pc = FinalPc(prog)
             PROVE  FALSE
  OBVIOUS
<1>1. prog.size \in Nat /\ 0 < prog.size /\ prog.size < Ord
  BY ArgumentsTyped, OrdAssumption DEF IsProgram
<1>2. \A k \in 0..prog.size - 1 : gpow(k) = k
  BY <1>1, BelowOrder, OrdAssumption
<1>3. rows[i].pc = prog.size - 1
  BY <1>1, <1>2 DEF FinalPc
<1>4. fetch(prog, rows[i].pc) = prog.code[prog.size - 1]
  <2>1. gLog(prog.size, prog.size - 1) = prog.size - 1
    BY <1>1, <1>2 DEF gLog
  <2> QED
    BY <1>3, <2>1, RowsSupported DEF fetch
<1>5. rows[i].op # "jump"
  BY <1>4, RowsSupported, EntryTells DEF Supported, SentinelSafe
<1>6. push(rows[i]).pc = prog.size
  <2>1. KMul(gpow(1), prog.size - 1) = prog.size
    BY <1>1, BelowOrder, OrdAssumption
  <2> QED
    BY <1>3, <1>5, <2>1 DEF push, NextRegs, pull
<1>7. FinalRegs(prog).pc = prog.size - 1
  BY <1>1, <1>2 DEF FinalRegs, FinalPc
<1>8. PICK k \in DOMAIN rows : pull(rows[k]) = push(rows[i])
  <2>1. i \in Pushed(push(rows[i]))
    BY ArgumentsTyped DEF Pushed, Places
  <2>2. push(rows[i]) # final
    BY <1>1, <1>6, <1>7 DEF final
  <2> QED
    BY <2>1, <2>2, SomeRowGoesOn
<1>9. rows[k].pc = prog.size
  BY <1>6, <1>8 DEF pull
<1> QED
  BY <1>1, <1>2, <1>9, RowsSupported DEF HasIndex

(* Every row of a satisfying witness is a step of the program, and none    *)
(* starts at a safe sentinel: no auxiliary column of the prover's makes a  *)
(* row go where its instruction does not.                                  *)
THEOREM RowsAreTheSteps == Spec => []RowsAreSteps
<1>1. ArgumentsHold => RowsAreSteps
  BY RowsStep, NoRowAtSentinel DEF RowsAreSteps
<1> QED
  BY <1>1, ArgumentsInvariant, PTL

-----------------------------------------------------------------------------
(* The map has what has been inserted.                                     *)
MapMatches ==
  /\ \A i \in 1..inserted : pull(rows[i]) \in DOMAIN stateMap
  /\ \A s \in DOMAIN stateMap :
       \E i \in 1..inserted : pull(rows[i]) = s /\ push(rows[i]) = stateMap[s]

(* The walk goes from the initial state along rows, and stops at the final *)
(* one.                                                                    *)
WalkIsRows(w) ==
  /\ w \in Seq({InitialRegs} \cup {push(rows[i]) : i \in DOMAIN rows}) /\ Len(w) > 0
  /\ w[1] = InitialRegs
  /\ \A k \in 1..Len(w) - 1 : w[k] # final /\ RowSteps(w[k], w[k + 1])

FuelCounts ==
  /\ inserted \in 0..Len(rows)
  /\ phase = "map" => Len(walk) = 1
  /\ phase # "map" => inserted = Len(rows) /\ fuel \in Nat /\ Len(walk) + fuel = Len(rows) + 1
  /\ phase = "some" => r = final

(* No state comes twice, and none is pulled more often than a later one.   *)
NoReturn(w) ==
  \A j, k \in 1..Len(w) :
    j <= k => /\ Cardinality(Pulled(w[j])) <= Cardinality(Pulled(w[k]))
              /\ j # k => w[j] # w[k]

IInv ==
  /\ ArgumentsHold /\ phase \in {"map", "walk", "some", "none"}
  /\ MapMatches /\ WalkIsRows(walk) /\ FuelCounts
  /\ Satisfied => NoReturn(walk) /\ phase # "none"

-----------------------------------------------------------------------------
(* The rows that pull a state all go to the same one, which is pulled at   *)
(* least as often; more often if something else is pushed there too.       *)
LEMMA PullsGrow ==
  ASSUME ArgumentsHold, Satisfied, NEW i \in DOMAIN rows, pull(rows[i]) # final
  PROVE  LET s == pull(rows[i])
             t == push(rows[i])
         IN  /\ Cardinality(Pulled(s)) <= Cardinality(Pulled(t))
             /\ Pushed(t) \ Pulled(s) # {} => Cardinality(Pulled(s)) < Cardinality(Pulled(t))
<1> DEFINE s == pull(rows[i])
           t == push(rows[i])
<1>1. \A k \in DOMAIN rows : pull(rows[k]) = s => push(rows[k]) = t
  BY RowsStep DEF RowIsStep
<1>2. Pulled(s) \in SUBSET Pushed(t)
  <2> SUFFICES ASSUME NEW k \in Pulled(s) PROVE k \in Pushed(t)
    OBVIOUS
  <2>1. k \in DOMAIN rows /\ k # 0 /\ pull(rows[k]) = s
    BY ArgumentsTyped DEF Pulled, Places
  <2> QED
    BY <1>1, <2>1 DEF Pushed, Places
<1> HIDE DEF s, t
<1>3. /\ IsFiniteSet(Pushed(t))
      /\ Cardinality(Pushed(t)) = Cardinality(Pulled(t))
      /\ Cardinality(Pulled(s)) \in Nat /\ Cardinality(Pulled(t)) \in Nat
  BY PulledAsPushed
<1>4. /\ Cardinality(Pulled(s)) <= Cardinality(Pushed(t))
      /\ Cardinality(Pulled(s)) = Cardinality(Pushed(t)) => Pulled(s) = Pushed(t)
  BY <1>2, <1>3, FS_Subset
<1> QED
  BY <1>3, <1>4 DEF s, t

-----------------------------------------------------------------------------
(* Each state of the walk is one that is pushed.                           *)
LEMMA WalkIsPushed ==
  ASSUME ArgumentsHold, WalkIsRows(walk), NEW k \in 1..Len(walk)
  PROVE  Pushed(walk[k]) # {}
<1>1. CASE k = 1
  BY <1>1 DEF WalkIsRows, Pushed, Places
<1>2. CASE k > 1
  <2>1. k - 1 \in 1..Len(walk) - 1 /\ (k - 1) + 1 = k
    BY <1>2 DEF WalkIsRows
  <2>2. RowSteps(walk[k - 1], walk[k])
    BY <2>1 DEF WalkIsRows
  <2>3. PICK i \in DOMAIN rows : push(rows[i]) = walk[k]
    BY <2>2 DEF RowSteps
  <2>4. i \in Places /\ i # 0
    BY ArgumentsTyped DEF Places
  <2> QED
    BY <2>3, <2>4 DEF Pushed
<1> QED
  BY <1>1, <1>2

(* A walk that is not at the final state has a row to go on with, and its  *)
(* states, all different, are no more than the rows.                       *)
LEMMA RoomToWalk ==
  ASSUME ArgumentsHold, WalkIsRows(walk), Satisfied, NoReturn(walk), r # final
  PROVE  /\ \E i \in DOMAIN rows : pull(rows[i]) = r
         /\ Len(walk) <= Len(rows)
<1>1. Len(walk) \in Nat /\ Len(walk) > 0
  BY DEF WalkIsRows
<1>2. \A k \in 1..Len(walk) : walk[k] # final
  <2>1. \A k \in 1..Len(walk) : k = Len(walk) \/ k \in 1..Len(walk) - 1
    BY <1>1
  <2> QED
    BY <2>1 DEF WalkIsRows, r
<1>3. \A k \in 1..Len(walk) : \E i \in DOMAIN rows : pull(rows[i]) = walk[k]
  BY <1>2, WalkIsPushed, SomeRowGoesOn
<1>4. ASSUME Len(walk) > Len(rows)
      PROVE  FALSE
  <2> DEFINE S == 1..Len(walk)
             T == 1..Len(rows)
             f == [k \in S |-> CHOOSE i \in DOMAIN rows : pull(rows[i]) = walk[k]]
  <2>1. f \in [S -> T] /\ \A k \in S : pull(rows[f[k]]) = walk[k]
    BY <1>3, ArgumentsTyped
  <2>2. IsFiniteSet(S) /\ IsFiniteSet(T) /\ Cardinality(T) < Cardinality(S)
    <3>1. \A n \in Nat : IsFiniteSet(1..n) /\ Cardinality(1..n) = n
      BY FS_Interval
    <3> QED
      BY <1>1, <1>4, <3>1, ArgumentsTyped
  <2> HIDE DEF f, T
  <2>3. PICK j \in S, k \in S : j # k /\ f[j] = f[k]
    BY <2>1, <2>2, FS_PigeonHole
  <2>4. walk[j] = walk[k]
    BY <2>1, <2>3
  <2>5. j <= k \/ k <= j
    BY <1>1
  <2> QED
    BY <2>3, <2>4, <2>5 DEF NoReturn
<1>5. Len(walk) <= Len(rows)
  BY <1>1, <1>4, ArgumentsTyped
<1> QED
  BY <1>1, <1>3, <1>5 DEF r

(* A step of the walk.  Had the next state been there before, more would   *)
(* be pushed to it than from the state the walk has come to: the row of    *)
(* the walk that led to it, or the verifier's if it is the first.          *)
LEMMA WalkGoesOn ==
  ASSUME ArgumentsHold, WalkIsRows(walk), r # final,
         NEW i \in DOMAIN rows, pull(rows[i]) = r
  PROVE  /\ WalkIsRows(Append(walk, push(rows[i])))
         /\ Satisfied /\ NoReturn(walk) => NoReturn(Append(walk, push(rows[i])))
<1> DEFINE n == Len(walk)
           t == push(rows[i])
           w == Append(walk, t)
<1>1. n \in Nat /\ n > 0 /\ r = walk[n]
  BY DEF WalkIsRows, r
<1>2. Len(w) = n + 1 /\ w[n + 1] = t /\ \A k \in 1..n : w[k] = walk[k]
  BY <1>1 DEF WalkIsRows
<1>3. WalkIsRows(w)
  <2>1. w \in Seq({InitialRegs} \cup {push(rows[k]) : k \in DOMAIN rows})
    BY DEF WalkIsRows
  <2>2. ASSUME NEW k \in 1..n PROVE w[k] # final /\ RowSteps(w[k], w[k + 1])
    <3>1. CASE k = n
      BY <1>1, <1>2, <3>1 DEF RowSteps
    <3>2. CASE k # n
      <4>1. k \in 1..n - 1 /\ k + 1 \in 1..n
        BY <1>1, <3>2
      <4>2. walk[k] # final /\ RowSteps(walk[k], walk[k + 1])
        BY <4>1 DEF WalkIsRows
      <4> QED
        BY <1>2, <4>1, <4>2
    <3> QED
      BY <3>1, <3>2
  <2>3. w[1] = InitialRegs
    BY <1>1, <1>2 DEF WalkIsRows
  <2> HIDE DEF w
  <2> QED
    BY <1>1, <1>2, <2>1, <2>2, <2>3 DEF WalkIsRows
<1>4. ASSUME Satisfied, NoReturn(walk)
      PROVE  NoReturn(w)
  <2>1. /\ Cardinality(Pulled(r)) <= Cardinality(Pulled(t))
        /\ Pushed(t) \ Pulled(r) # {} => Cardinality(Pulled(r)) < Cardinality(Pulled(t))
    BY <1>4, PullsGrow
  <2>2. \A s : Cardinality(Pulled(s)) \in Nat
    BY <1>4, PulledAsPushed
  <2>3. \A j \in 1..n : Cardinality(Pulled(walk[j])) <= Cardinality(Pulled(r))
    BY <1>1, <1>4 DEF NoReturn
  <2>4. ASSUME NEW j \in 1..n, walk[j] = t
        PROVE  FALSE
    <3>1. Pushed(t) \ Pulled(r) # {}
      <4>1. CASE j = 1
        <5>1. 0 \in Pushed(t) /\ 0 \notin Pulled(r)
          BY <2>4, <4>1 DEF WalkIsRows, Pushed, Pulled, Places
        <5> QED
          BY <5>1
      <4>2. CASE j > 1
        <5>1. j - 1 \in 1..n - 1 /\ (j - 1) + 1 = j /\ j - 1 < n /\ j - 1 \in 1..n /\ n \in 1..n
          BY <1>1, <4>2
        <5>2. RowSteps(walk[j - 1], walk[j])
          BY <5>1 DEF WalkIsRows
        <5>3. PICK k \in DOMAIN rows : pull(rows[k]) = walk[j - 1] /\ push(rows[k]) = t
          BY <2>4, <5>2 DEF RowSteps
        <5>4. walk[j - 1] # r
          BY <1>1, <1>4, <5>1 DEF NoReturn
        <5>5. k \in Places /\ k # 0
          BY ArgumentsTyped DEF Places
        <5>6. k \in Pushed(t) /\ k \notin Pulled(r)
          BY <5>3, <5>4, <5>5 DEF Pushed, Pulled
        <5> QED
          BY <5>6
      <4> QED
        BY <1>1, <4>1, <4>2
    <3>2. Cardinality(Pulled(t)) <= Cardinality(Pulled(r))
      BY <2>3, <2>4
    <3> QED
      BY <2>1, <2>2, <3>1, <3>2
  <2>5. ASSUME NEW j \in 1..n + 1, NEW k \in 1..n + 1, j <= k
        PROVE  /\ Cardinality(Pulled(w[j])) <= Cardinality(Pulled(w[k]))
               /\ j # k => w[j] # w[k]
    <3> HIDE DEF w, t
    <3>1. CASE k \in 1..n
      <4>1. j \in 1..n
        BY <1>1, <2>5, <3>1
      <4> QED
        BY <1>2, <1>4, <2>5, <3>1, <4>1 DEF NoReturn
    <3>2. CASE k = n + 1 /\ j \in 1..n
      <4>1. Cardinality(Pulled(walk[j])) <= Cardinality(Pulled(t))
        BY <2>1, <2>2, <2>3, <3>2
      <4> QED
        BY <1>2, <2>4, <3>2, <4>1
    <3>3. CASE k = n + 1 /\ j = n + 1
      BY <2>2, <3>3
    <3> QED
      BY <1>1, <3>1, <3>2, <3>3
  <2> HIDE DEF w
  <2> QED
    BY <1>2, <2>5 DEF NoReturn
<1> QED
  BY <1>3, <1>4

-----------------------------------------------------------------------------
(* The initial state satisfies the invariant.                              *)
LEMMA InitHolds == Init => IInv
<1> SUFFICES ASSUME Init PROVE IInv
  OBVIOUS
<1>1. ArgumentsHold
  BY DEF Init, ArgumentsHold
<1>2. Len(walk) = 1 /\ walk[1] = InitialRegs
  BY DEF Init
<1>3. WalkIsRows(walk)
  <2>1. walk \in Seq({InitialRegs} \cup {push(rows[i]) : i \in DOMAIN rows})
    BY DEF Init
  <2> QED
    BY <1>2, <2>1 DEF WalkIsRows
<1>4. MapMatches /\ FuelCounts
  BY <1>1, <1>2, ArgumentsTyped DEF Init, MapMatches, FuelCounts
<1>5. Satisfied => NoReturn(walk)
  BY <1>1, <1>2, PulledAsPushed DEF NoReturn
<1> QED
  BY <1>1, <1>3, <1>4, <1>5 DEF IInv, Init

(* What the arguments and the walk decide stays while they do.             *)
LEMMA SameWalk ==
  ASSUME UNCHANGED <<prog, input, witness, walk>>
  PROVE  /\ rows' = rows /\ final' = final /\ r' = r
         /\ Satisfied' = Satisfied
         /\ WalkIsRows(walk) => WalkIsRows(walk)'
         /\ NoReturn(walk) => NoReturn(walk)'
<1>1. rows' = rows /\ final' = final /\ r' = r
  BY DEF rows, final, r
<1>2. Satisfied' = Satisfied
  BY DEF Satisfied
<1>3. WalkIsRows(walk) => WalkIsRows(walk)'
  BY <1>1 DEF WalkIsRows, RowSteps
<1>4. NoReturn(walk) => NoReturn(walk)'
  BY <1>1 DEF NoReturn, Pulled, Places
<1> QED
  BY <1>1, <1>2, <1>3, <1>4

(* Each step keeps the invariant.                                          *)
LEMMA NextHolds == IInv /\ [Next]_vars => IInv'
<1> SUFFICES ASSUME IInv, [Next]_vars PROVE IInv'
  OBVIOUS
<1> USE DEF IInv
<1>1. ArgumentsHold'
  BY DEF ArgumentsHold, Next, vars, InsertRow, StartWalk, Arrive, GiveUp, MissingState, WalkStep, Return
<1>2. Len(rows) \in Nat /\ DOMAIN rows = 1..Len(rows) /\ Len(walk) \in Nat /\ Len(walk) > 0
  BY ArgumentsTyped DEF WalkIsRows
<1>3. CASE InsertRow
  <2> DEFINE row == rows[inserted + 1]
  <2>1. phase = "map" /\ inserted < Len(rows) /\ inserted \in Nat
        /\ UNCHANGED <<prog, input, witness, phase, fuel, walk>>
    BY <1>3 DEF InsertRow, FuelCounts
  <2>2. WalkIsRows(walk)' /\ (Satisfied' => NoReturn(walk)') /\ rows' = rows /\ final' = final /\ r' = r
    BY <2>1, SameWalk
  <2>3. inserted' = inserted + 1
    BY <1>3 DEF InsertRow
  <2>4. FuelCounts'
    BY <1>2, <2>1, <2>2, <2>3 DEF FuelCounts
  <2>5. /\ DOMAIN stateMap' = DOMAIN stateMap \cup {pull(row)}
        /\ stateMap'[pull(row)] = push(row)
        /\ \A s \in DOMAIN stateMap \ {pull(row)} : stateMap'[s] = stateMap[s]
    BY <1>3 DEF InsertRow, Insert
  <2>6. \A i \in 1..inserted' : i = inserted + 1 \/ i \in 1..inserted
    BY <2>1, <2>3
  <2>7. \A i \in 1..inserted + 1 : pull(rows[i]) \in DOMAIN stateMap'
    BY <2>3, <2>5, <2>6 DEF MapMatches
  <2>8. ASSUME NEW s \in DOMAIN stateMap'
        PROVE  \E i \in 1..inserted + 1 : pull(rows[i]) = s /\ push(rows[i]) = stateMap'[s]
    <3>1. CASE s = pull(row)
      BY <2>1, <2>5, <3>1
    <3>2. CASE s # pull(row)
      <4>1. PICK i \in 1..inserted : pull(rows[i]) = s /\ push(rows[i]) = stateMap[s]
        BY <2>5, <3>2 DEF MapMatches
      <4> QED
        BY <2>1, <2>5, <3>2, <4>1
    <3> QED
      BY <3>1, <3>2
  <2>9. MapMatches'
    BY <2>2, <2>3, <2>7, <2>8 DEF MapMatches
  <2> QED
    BY <1>1, <2>1, <2>2, <2>4, <2>9
<1>4. CASE StartWalk
  <2>1. phase = "map" /\ phase' = "walk" /\ inserted = Len(rows) /\ fuel' = Len(rows)
        /\ UNCHANGED <<prog, input, witness, inserted, stateMap, walk>>
    BY <1>4 DEF StartWalk
  <2>2. WalkIsRows(walk)' /\ (Satisfied' => NoReturn(walk)') /\ rows' = rows /\ final' = final /\ r' = r
    BY <2>1, SameWalk
  <2>3. MapMatches'
    BY <2>1, <2>2 DEF MapMatches
  <2>4. Len(walk') = 1 /\ inserted' = Len(rows') /\ fuel' = Len(rows')
    BY <2>1, <2>2 DEF FuelCounts
  <2>5. Len(rows') \in Nat /\ phase' = "walk"
    BY <1>2, <2>1, <2>2
  <2>6. FuelCounts'
    BY <2>4, <2>5 DEF FuelCounts
  <2> QED
    BY <1>1, <2>1, <2>2, <2>3, <2>6
<1>5. CASE Arrive
  <2>1. phase = "walk" /\ phase' = "some" /\ r = final
        /\ UNCHANGED <<prog, input, witness, inserted, stateMap, fuel, walk>>
    BY <1>5 DEF Arrive, Return
  <2>2. WalkIsRows(walk)' /\ (Satisfied' => NoReturn(walk)') /\ rows' = rows /\ final' = final /\ r' = r
    BY <2>1, SameWalk
  <2>3. MapMatches' /\ FuelCounts'
    BY <2>1, <2>2 DEF MapMatches, FuelCounts
  <2> QED
    BY <1>1, <2>1, <2>2, <2>3
<1>6. CASE GiveUp \/ MissingState
  <2>1. phase = "walk" /\ phase' = "none" /\ r # final
        /\ UNCHANGED <<prog, input, witness, inserted, stateMap, fuel, walk>>
    BY <1>6 DEF GiveUp, MissingState, Return
  <2>2. WalkIsRows(walk)' /\ rows' = rows /\ final' = final /\ r' = r /\ Satisfied' = Satisfied
    BY <2>1, SameWalk
  <2>3. MapMatches' /\ FuelCounts'
    BY <2>1, <2>2 DEF MapMatches, FuelCounts
  <2>4. ASSUME Satisfied
        PROVE  FALSE
    <3>1. /\ Len(walk) <= Len(rows)
          /\ \E i \in DOMAIN rows : pull(rows[i]) = r
      BY <2>1, <2>4, RoomToWalk
    <3>2. fuel > 0 /\ inserted = Len(rows)
      BY <1>2, <2>1, <3>1 DEF FuelCounts
    <3>3. r \in DOMAIN stateMap
      BY <1>2, <3>1, <3>2 DEF MapMatches
    <3> QED
      BY <1>6, <3>2, <3>3 DEF GiveUp, MissingState
  <2> QED
    BY <1>1, <2>1, <2>2, <2>3, <2>4
<1>7. CASE WalkStep
  <2>1. phase = "walk" /\ r # final /\ fuel > 0 /\ r \in DOMAIN stateMap
        /\ walk' = Append(walk, stateMap[r]) /\ fuel' = fuel - 1
        /\ UNCHANGED <<prog, input, witness, phase, inserted, stateMap>>
    BY <1>7 DEF WalkStep
  <2>2. PICK i \in DOMAIN rows : pull(rows[i]) = r /\ push(rows[i]) = stateMap[r]
    BY <1>2, <2>1 DEF MapMatches, FuelCounts
  <2>3. WalkIsRows(walk') /\ (Satisfied => NoReturn(walk'))
    BY <2>1, <2>2, WalkGoesOn
  <2>4. rows' = rows /\ final' = final /\ Satisfied' = Satisfied
    BY <2>1 DEF rows, final, Satisfied
  <2>5. WalkIsRows(walk)'
    BY <2>3, <2>4 DEF WalkIsRows, RowSteps
  <2>6. Satisfied' => NoReturn(walk)'
    BY <2>3, <2>4 DEF NoReturn, Pulled, Places
  <2>7. Len(walk') = Len(walk) + 1
    BY <2>1 DEF WalkIsRows
  <2>8. MapMatches'
    BY <2>1, <2>4 DEF MapMatches
  <2>9. FuelCounts'
    BY <1>2, <2>1, <2>4, <2>7 DEF FuelCounts
  <2> QED
    BY <1>1, <2>1, <2>5, <2>6, <2>8, <2>9
<1>8. CASE UNCHANGED vars
  <2>1. WalkIsRows(walk)' /\ (Satisfied' => NoReturn(walk)') /\ rows' = rows /\ final' = final /\ r' = r
    BY <1>8, SameWalk DEF vars
  <2>2. MapMatches' /\ FuelCounts'
    BY <1>8, <2>1 DEF vars, MapMatches, FuelCounts
  <2> QED
    BY <1>1, <1>8, <2>1, <2>2, SameWalk DEF vars
<1> QED
  BY <1>3, <1>4, <1>5, <1>6, <1>7, <1>8 DEF Next

(* The trace read back from a satisfying witness of a program with a safe  *)
(* sentinel exists, is a valid execution of the program over the witness's *)
(* image, and each of its steps is a row (traceOf_valid).                  *)
THEOREM TraceIsRead == Spec => []WitnessYieldsTrace
<1>1. IInv => WitnessYieldsTrace
  <2> SUFFICES ASSUME IInv, phase \in {"some", "none"}, Satisfied, SentinelSafe(prog)
               PROVE  /\ phase = "some"
                      /\ ValidExecution(prog, input, witness.image, walk)
                      /\ \A k \in 1..traceSteps : RowSteps(walk[k], walk[k + 1])
    BY DEF WitnessYieldsTrace
  <2>1. phase = "some" /\ walk[Len(walk)] = FinalRegs(prog)
    BY DEF IInv, FuelCounts, r, final
  <2>2. \A k \in 1..Len(walk) - 1 : RowSteps(walk[k], walk[k + 1])
    BY DEF IInv, WalkIsRows
  <2>3. ASSUME NEW k \in 1..Len(walk) - 1
        PROVE  /\ walk[k].pc # FinalPc(prog)
               /\ step(prog, witness.image, walk[k]) = walk[k + 1]
    <3>1. PICK i \in DOMAIN rows : pull(rows[i]) = walk[k] /\ push(rows[i]) = walk[k + 1]
      BY <2>2 DEF RowSteps
    <3>2. RowIsStep(rows[i]) /\ rows[i].pc # FinalPc(prog)
      BY RowsStep, NoRowAtSentinel DEF IInv
    <3> QED
      BY <3>1, <3>2 DEF RowIsStep, pull
  <2>4. HasPublicBoundary(input, witness.image)
    BY DEF Satisfied, SatisfiedBy, Caps, HasPublicBoundary
  <2>5. walk[1] = InitialRegs
    BY DEF IInv, WalkIsRows
  <2> QED
    BY <2>1, <2>2, <2>3, <2>4, <2>5 DEF ValidExecution, IsRun, traceSteps
<1> QED
  BY <1>1, InitHolds, NextHolds, PTL DEF Spec

=============================================================================
