------------------------------- MODULE LeanIsa -------------------------------
(***************************************************************************)
(* The instruction set: six instructions over a committed memory image     *)
(* that is fixed before execution.  A step only reads and compares: it     *)
(* either gives the next registers or fails (NoRegs).  The same arms are   *)
(* used by the reference semantics and by the checker of TraceChecker,     *)
(* which differ in the reader they pass (executeWith in the code).         *)
(*                                                                         *)
(* Operands are elements of K; the word named by o is at fp * o.           *)
(***************************************************************************)
EXTENDS BinaryField, Sequences

CONSTANTS
  Compress(_, _, _),  \* the BLAKE2s compression: (message cells, chaining
                      \* pair, metadata) to the pair of output cells
  NoWord,             \* a failed read
  NoInstr,            \* a failed fetch
  NoRegs              \* a failed step

ASSUME NoWordAssumption == NoWord \notin E

Regs == [pc : K, fp : K]

Operands(n) == [1..n -> K]
Instr ==
       [op : {"xor", "mulNative", "jump"}, o : Operands(3)]
  \cup [op : {"setConstant"}, o : Operands(1), k : E]
  \cup [op : {"deref"}, o : Operands(3), mode : {"cell", "pc", "fp"}]
  \cup [op : {"blake2s"}, o : Operands(7)]

ASSUME NoInstrAssumption == NoInstr \notin Instr
ASSUME NoRegsAssumption  == NoRegs \notin Regs

(* A program and a memory image: 2^logSize slots, 2^kappa cells.  Only the *)
(* number itself matters here, the instances use powers of two.            *)
IsProgram(p) == /\ p.size \in 1..Ord
                /\ p = [size |-> p.size, code |-> p.code]
                /\ p.code \in [0..p.size - 1 -> Instr]
IsImage(L)   == /\ L.size \in Nat \ {0}
                /\ L = [size |-> L.size, cell |-> L.cell]
                /\ L.cell \in [0..L.size - 1 -> E]

(***************************************************************************)
(* Reading memory and fetching code through the bounded logarithm gLog?:   *)
(* the address g^i names index i when i is below the size, anything else   *)
(* (0 included) names nothing.                                             *)
(***************************************************************************)
HasIndex(n, a) == \E i \in 0..n - 1 : gpow(i) = a
gLog(n, a)     == CHOOSE i \in 0..n - 1 : gpow(i) = a

read(L, a) == IF HasIndex(L.size, a) THEN L.cell[gLog(L.size, a)] ELSE NoWord

fetch(prog, pc) ==
  IF HasIndex(prog.size, pc) THEN prog.code[gLog(prog.size, pc)] ELSE NoInstr

(***************************************************************************)
(* The registers at the two ends of a run, and the fall-through successor. *)
(***************************************************************************)
InitialRegs     == [pc |-> One, fp |-> One]
FinalPc(prog)   == gpow(prog.size - 1)
FinalRegs(prog) == [pc |-> FinalPc(prog), fp |-> One]
NextRegs(r)     == [pc |-> KMul(gpow(1), r.pc), fp |-> r.fp]

(* The sentinel is not a JUMP: a premise on the program's shape.           *)
SentinelSafe(prog) == prog.code[prog.size - 1].op # "jump"

derefSource(mode, r, v3) ==
  CASE mode = "cell" -> v3
    [] mode = "pc"   -> ofK(KMul(gpow(2), r.pc))
    [] mode = "fp"   -> ofK(r.fp)

CompressCells(m, cv, out, md) ==
  /\ \A x \in {m[i] : i \in 1..4} \cup {cv[1], cv[2], out[1], out[2], md} :
       IsCanonical128(x)
  /\ out = Compress(m, cv, md)

(***************************************************************************)
(* The relation an instruction imposes on the words it reads, and whether  *)
(* every one of those words exists.  rd is the reader, a function from     *)
(* addresses to words or NoWord; w[j] is the word at the j-th operand.     *)
(***************************************************************************)
Addresses(r, ins) == [j \in DOMAIN ins.o |-> KMul(r.fp, ins.o[j])]

(* BLAKE2S reads a pair at o_cv and at o_out: the cell and its successor.  *)
Blake2sAddresses(r, ins) ==
  LET a == Addresses(r, ins)
  IN  <<a[1], a[2], a[3], a[4], a[5], KMul(gpow(1), a[5]),
        a[6], KMul(gpow(1), a[6]), a[7]>>

Holds(rd, r, ins) ==
  LET w == [j \in DOMAIN ins.o |-> rd[Addresses(r, ins)[j]]]
      AllRead == \A j \in DOMAIN ins.o : w[j] # NoWord
  IN CASE ins.op = "xor" ->
            AllRead /\ w[3] = EAdd(w[1], w[2])
       [] ins.op = "mulNative" ->
            AllRead /\ w[3] = EMul(w[1], w[2])
       [] ins.op = "setConstant" ->
            AllRead /\ w[1] = ins.k
       [] ins.op = "deref" ->
            /\ w[1] # NoWord /\ IsInK(w[1])
            /\ w[3] # NoWord
            /\ LET v2 == rd[KMul(Limb(w[1], 0), ins.o[2])]
               IN  v2 # NoWord /\ v2 = derefSource(ins.mode, r, w[3])
       [] ins.op = "jump" ->
            AllRead /\ \A j \in 1..3 : IsInK(w[j])
       [] ins.op = "blake2s" ->
            LET c == [j \in 1..9 |-> rd[Blake2sAddresses(r, ins)[j]]]
            IN  /\ \A j \in 1..9 : c[j] # NoWord
                /\ CompressCells(SubSeq(c, 1, 4), <<c[5], c[6]>>,
                                 <<c[7], c[8]>>, c[9])

(* The registers after an instruction whose relation holds.                *)
After(rd, r, ins) ==
  LET w(j) == rd[KMul(r.fp, ins.o[j])]
  IN  IF ins.op = "jump" /\ Limb(w(1), 0) # Zero
      THEN [pc |-> Limb(w(2), 0), fp |-> Limb(w(3), 0)]
      ELSE NextRegs(r)

executeWith(rd, r, ins) ==
  IF ins # NoInstr /\ Holds(rd, r, ins) THEN After(rd, r, ins) ELSE NoRegs

(* One step of the reference machine; it does not test for the sentinel.   *)
reader(L)        == [a \in K |-> read(L, a)]
step(prog, L, r) == executeWith(reader(L), r, fetch(prog, r.pc))

=============================================================================
