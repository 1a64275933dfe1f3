-------------------------- MODULE ConstraintSystem --------------------------
(***************************************************************************)
(* The constraint system: the rows of the six opcode tables, what they     *)
(* send on the three channels of the bus, the memory and bytecode blocks,  *)
(* and the relation SatisfiedBy that the proof system proves.              *)
(*                                                                         *)
(* A row is [op, pc, fp, o, v, aux, r, rbc]: its registers, its operand    *)
(* columns o, the words v it claims to read (columns of K hold a word of   *)
(* K), aux (the flags of DEREF, the inverse witness and the indicator of   *)
(* JUMP), the counts r of its memory reads and rbc of its bytecode read.   *)
(*                                                                         *)
(* A witness is [rows, image, memFin, bcFin].  rows is the six opcode      *)
(* tables one after the other; no property depends on their order, so the  *)
(* instances take rows in any order.  The two blocks are the image and the *)
(* program themselves with their finalize counts: the address and entry    *)
(* columns are fixed columns, and the image is read off the block.         *)
(***************************************************************************)
EXTENDS Execution

CONSTANT MaxReads   \* the reads the height caps allow, 9 * 6 * 2^32 in the code

(* Fewer reads than g has powers: the counts of a cell cannot wrap around. *)
ASSUME CapsAssumption == MaxReads \in Nat /\ MaxReads < Ord

(***************************************************************************)
(* The bus entry of an instruction: its opcode and its seven slots.        *)
(***************************************************************************)
Pad(s) == [j \in 1..7 |-> IF j <= Len(s) THEN s[j] ELSE Zero]

derefFlags(mode) == CASE mode = "cell" -> <<Zero, Zero>>
                      [] mode = "pc"   -> <<One, Zero>>
                      [] mode = "fp"   -> <<Zero, One>>

entry(ins) ==
  [op    |-> ins.op,
   slots |-> Pad(ins.o \o CASE ins.op = "setConstant" -> ins.k
                            [] ins.op = "deref"       -> derefFlags(ins.mode)
                            [] OTHER                  -> <<>>)]

(***************************************************************************)
(* The rows.  Arity counts the operands, Words the words a row claims and  *)
(* Reads the cells it reads: the third read of XOR and MUL_NATIVE and the  *)
(* second of DEREF carry a word computed from the others.                  *)
(***************************************************************************)
Opcodes == {"xor", "mulNative", "setConstant", "deref", "jump", "blake2s"}

Arity(op) == CASE op = "setConstant" -> 1 [] op = "blake2s" -> 7 [] OTHER -> 3
Reads(op) == CASE op = "setConstant" -> 1 [] op = "blake2s" -> 9 [] OTHER -> 3
Words(op) == CASE op \in {"xor", "mulNative", "deref"} -> 2 [] OTHER -> Reads(op)
Aux(op)   == IF op \in {"deref", "jump"} THEN 2 ELSE 0

IsRow(row) ==
  /\ row = [op  |-> row.op, pc |-> row.pc, fp |-> row.fp, o |-> row.o,
            v   |-> row.v, aux |-> row.aux, r |-> row.r, rbc |-> row.rbc]
  /\ row.op \in Opcodes
  /\ row.pc \in K /\ row.fp \in K
  /\ row.o \in [1..Arity(row.op) -> K]
  /\ row.v \in [1..Words(row.op) -> E]
  /\ row.aux \in [1..Aux(row.op) -> K]
  /\ row.r \in [1..Reads(row.op) -> K]
  /\ row.rbc \in K
  /\ row.op = "deref" => IsInK(row.v[1])
  /\ row.op = "jump" => \A j \in 1..3 : IsInK(row.v[j])
  /\ row.op = "blake2s" => \A j \in 1..9 : IsCanonical128(row.v[j])

-----------------------------------------------------------------------------
(***************************************************************************)
(* What a row sends: a state pulled and a state pushed, a bytecode read    *)
(* and its memory reads.                                                   *)
(***************************************************************************)
pull(row) == [pc |-> row.pc, fp |-> row.fp]

(* The selector of JUMP: b * v + b * (fall-through) + (fall-through).      *)
Selected(b, v, next) == KAdd(KAdd(KMul(b, v), KMul(b, next)), next)

jumpPush(row) ==
  LET b == row.aux[2]
      w(j) == Limb(row.v[j], 0)
  IN  [pc |-> Selected(b, w(2), KMul(gpow(1), row.pc)),
       fp |-> Selected(b, w(3), row.fp)]

push(row) == IF row.op = "jump" THEN jumpPush(row) ELSE NextRegs(pull(row))

rowEntry(row) ==
  [op    |-> row.op,
   slots |-> Pad(row.o \o CASE row.op = "setConstant" -> row.v[1]
                            [] row.op = "deref"       -> row.aux
                            [] OTHER                  -> <<>>)]

(* The store coordinates of a DEREF row, selected by its two flags.        *)
storeCoords(row) ==
  LET fpc  == row.aux[1]
      ffp  == row.aux[2]
      fbar == KAdd(KAdd(One, fpc), ffp)
      v3(i) == Limb(row.v[2], i)
  IN  ofLimbs(KAdd(KAdd(KMul(fbar, v3(0)), KMul(fpc, KMul(gpow(2), row.pc))),
                   KMul(ffp, row.fp)),
              KMul(fbar, v3(1)),
              KMul(fbar, v3(2)))

readAddrs(row) ==
  LET a == Addresses(pull(row), row)
  IN  CASE row.op = "deref"   -> <<a[1], KMul(Limb(row.v[1], 0), row.o[2]), a[3]>>
        [] row.op = "blake2s" -> Blake2sAddresses(pull(row), row)
        [] OTHER              -> a

readWords(row) ==
  CASE row.op = "xor"       -> <<row.v[1], row.v[2], EAdd(row.v[1], row.v[2])>>
    [] row.op = "mulNative" -> <<row.v[1], row.v[2], EMul(row.v[1], row.v[2])>>
    [] row.op = "deref"     -> <<row.v[1], storeCoords(row), row.v[2]>>
    [] OTHER                -> row.v

(* Wrong: the second residual of JUMP is missing.                          *)
FirstResidual(row) ==
  row.op = "jump" =>
    KAdd(row.aux[2], KMul(Limb(row.v[1], 0), row.aux[1])) = Zero

(* The residuals: JUMP's two; every other table has none.                  *)
Residuals(row) ==
  row.op = "jump" =>
    LET vcond == Limb(row.v[1], 0)
        w == row.aux[1]
        b == row.aux[2]
    IN  /\ KAdd(b, KMul(vcond, w)) = Zero
        /\ KMul(vcond, KAdd(b, One)) = Zero

(* What is proved of a BLAKE2S row outside the bus.                        *)
Blake2sRelation(row) ==
  row.op = "blake2s" =>
    CompressCells(SubSeq(row.v, 1, 4), <<row.v[5], row.v[6]>>,
                  <<row.v[7], row.v[8]>>, row.v[9])

-----------------------------------------------------------------------------
(***************************************************************************)
(* The channels.  A list of messages is a family: a function from a finite *)
(* set of places.  Two families balance when one is a permutation of the   *)
(* other: every message occurs as often in both.                           *)
(***************************************************************************)
Occurrences(F, m) == Cardinality({x \in DOMAIN F : F[x] = m})
Perm(F, G) == \A m \in {F[x] : x \in DOMAIN F} \cup {G[x] : x \in DOMAIN G} :
                Occurrences(F, m) = Occurrences(G, m)

(* A lookup message: where, with which count, and what is there.           *)
Msg(addr, count, val) == [addr |-> addr, count |-> count, val |-> val]
bump(m) == [m EXCEPT !.count = KMul(gpow(1), m.count)]

(* The places: a row and the position of a read in it; a row of a block.   *)
ReadPlaces(w) == UNION {{<<i, j>> : j \in 1..Reads(w.rows[i].op)} : i \in DOMAIN w.rows}
BlockPlaces(size) == {<<0, i>> : i \in 0..size - 1}

memRead(w, x) ==
  LET row == w.rows[x[1]]
  IN  Msg(readAddrs(row)[x[2]], row.r[x[2]], readWords(row)[x[2]])

bytecodeRead(w, i) == Msg(w.rows[i].pc, w.rows[i].rbc, rowEntry(w.rows[i]))

(* The verifier pushes the initial state and pulls the final one.          *)
StateBalanced(p, w) ==
  Perm([i \in DOMAIN w.rows \cup {0} |->
          IF i = 0 THEN InitialRegs ELSE push(w.rows[i])],
       [i \in DOMAIN w.rows \cup {0} |->
          IF i = 0 THEN FinalRegs(p) ELSE pull(w.rows[i])])

(* A block row pushes its seed, with count 1, and pulls its finalize.      *)
MemoryBalanced(w) ==
  LET block == BlockPlaces(w.image.size)
      blockMsg(x, count) == Msg(gpow(x[2]), count, w.image.cell[x[2]])
  IN  Perm([x \in ReadPlaces(w) \cup block |->
              IF x \in block THEN blockMsg(x, One) ELSE bump(memRead(w, x))],
           [x \in ReadPlaces(w) \cup block |->
              IF x \in block THEN blockMsg(x, w.memFin[x[2]]) ELSE memRead(w, x)])

BytecodeBalanced(p, w) ==
  LET block == BlockPlaces(p.size)
      places == {<<i, 1>> : i \in DOMAIN w.rows} \cup block
      blockMsg(x, count) == Msg(gpow(x[2]), count, entry(p.code[x[2]]))
  IN  Perm([x \in places |->
              IF x \in block THEN blockMsg(x, One) ELSE bump(bytecodeRead(w, x[1]))],
           [x \in places |->
              IF x \in block THEN blockMsg(x, w.bcFin[x[2]]) ELSE bytecodeRead(w, x[1])])

Constraints(w) == \A i \in DOMAIN w.rows : Residuals(w.rows[i])

Blake2sRowsValid(w) == \A i \in DOMAIN w.rows : Blake2sRelation(w.rows[i])

(* A read whose count is 0 pushes what it pulls: it balances by itself.    *)
CountsNonzero(w) ==
  \A i \in DOMAIN w.rows :
    /\ w.rows[i].rbc # Zero
    /\ \A j \in DOMAIN w.rows[i].r : w.rows[i].r[j] # Zero

(* Wrong: no cap on the heights.                                           *)
MemoryWindow(w) == w.image.size \in MinCells..MaxCells

(* The memory window, and the bound on the reads that follows from the     *)
(* height caps.  The heights as powers of two and the floor of BLAKE2S are *)
(* left out, so more witnesses satisfy the relation here than in the code; *)
(* that the builder respects them is FillsAsCounted.                       *)
Caps(w) == /\ w.image.size \in MinCells..MaxCells
           /\ Cardinality(ReadPlaces(w)) <= MaxReads

SatisfiedBy(p, words, w) ==
  /\ Constraints(w)
  /\ StateBalanced(p, w) /\ MemoryBalanced(w) /\ BytecodeBalanced(p, w)
  /\ CountsNonzero(w)
  /\ Caps(w)
  /\ Blake2sRowsValid(w)
  /\ read(w.image, gpow(0)) = words[1]
  /\ read(w.image, gpow(1)) = words[2]

-----------------------------------------------------------------------------
(***************************************************************************)
(* The row the builder of witnesses writes for an instruction executed     *)
(* from given registers over an image (rowOf): the operands, the words     *)
(* read back from the image, the flags of the store mode, the honest       *)
(* inverse and indicator of a JUMP, and the counts it is given.            *)
(***************************************************************************)

(* The word at an address as the rows read it back: 0 where there is none. *)
limbsAt(L, a) == IF HasIndex(L.size, a) THEN read(L, a) ELSE ofK(Zero)
low(L, a) == ofK(Limb(limbsAt(L, a), 0))

KInv(a) == IF a = Zero THEN Zero ELSE (Ord - a) % Ord

rowWords(L, regs, ins) ==
  LET a == Addresses(regs, ins)
      b == Blake2sAddresses(regs, ins)
      two(x) == ofLimbs(Limb(limbsAt(L, x), 0), Limb(limbsAt(L, x), 1), Zero)
  IN  CASE ins.op \in {"xor", "mulNative"} -> <<limbsAt(L, a[1]), limbsAt(L, a[2])>>
        [] ins.op = "setConstant" -> <<ins.k>>
        [] ins.op = "deref"       -> <<low(L, a[1]), limbsAt(L, a[3])>>
        [] ins.op = "jump"        -> [j \in 1..3 |-> low(L, a[j])]
        [] ins.op = "blake2s"     -> [j \in 1..9 |-> two(b[j])]

(* Wrong: the indicator of a JUMP is set whatever the condition.           *)
rowAuxTaken(L, regs, ins) ==
  CASE ins.op = "deref" -> derefFlags(ins.mode)
    [] ins.op = "jump"  -> <<KInv(Limb(limbsAt(L, Addresses(regs, ins)[1]), 0)), One>>
    [] OTHER -> <<>>

(* The auxiliary columns: the flags of a store mode, or the inverse of a   *)
(* condition and its indicator.                                            *)
rowAux(L, regs, ins) ==
  CASE ins.op = "deref" -> derefFlags(ins.mode)
    [] ins.op = "jump"  ->
         LET vcond == Limb(limbsAt(L, Addresses(regs, ins)[1]), 0)
         IN  <<KInv(vcond), IF vcond = Zero THEN Zero ELSE One>>
    [] OTHER -> <<>>

rowOf(L, regs, ins, cnt, rbc) ==
  [op |-> ins.op, pc |-> regs.pc, fp |-> regs.fp, o |-> ins.o,
   v  |-> rowWords(L, regs, ins), aux |-> rowAux(L, regs, ins),
   r  |-> cnt, rbc |-> rbc]

=============================================================================
