------------------------------- MODULE Padding -------------------------------
(***************************************************************************)
(* The fill blocks of a program and the padded image they run over: above  *)
(* the n committed cells, one frame of twelve cells for every block, such  *)
(* that a traversal of the block in its frame is a closed walk.            *)
(*                                                                         *)
(* pcs[t][k] is the first slot of the block of table t and ladder index k. *)
(* A skeleton is a row before its words and counts: the registers and the  *)
(* instruction.                                                            *)
(***************************************************************************)
EXTENDS ConstraintSystem, FillPlan

Frame == [dest |-> 0, nextFp |-> 1, ptr |-> 2, zero |-> 3, scratch |-> 4, digest |-> 6]
FrameCells == 12
Frames     == Len(fillTables) * (LadderTop + 1)

(* Every image the verifier accepts is at least as large as the frames.    *)
ASSUME RoomAssumption == FrameCells * Frames <= MinCells

fillDummy(t) ==
  LET at(n, o) == [j \in 1..n |-> gpow(o)]
  IN CASE t \in {"xor", "mulNative"} -> [op |-> t, o |-> at(3, Frame.scratch)]
       [] t = "setConstant" -> [op |-> t, o |-> at(1, Frame.scratch), k |-> ofK(Zero)]
       [] t = "deref" -> [op |-> t, mode |-> "cell",
                          o |-> <<gpow(Frame.ptr), gpow(0), gpow(Frame.scratch)>>]
       [] t = "jump"  -> [op |-> t, o |-> at(3, Frame.zero)]
       [] t = "blake2s" ->
            [op |-> t, o |-> [j \in 1..4 |-> gpow(Frame.digest + 1 + j)]
                               \o <<gpow(Frame.scratch), gpow(Frame.digest), gpow(Frame.zero)>>]

fillClose ==
  [op |-> "jump", o |-> <<gpow(Frame.dest), gpow(Frame.dest), gpow(Frame.nextFp)>>]

IsFillBlock(p, t, s, start) ==
  /\ start + s + 1 < p.size
  /\ \A i \in 0..s - 1 : p.code[start + i] = fillDummy(t)
  /\ p.code[start + s] = fillClose

AreStarts(p, pcs) ==
  \A t \in Tables, k \in Ladder : pcs[t][k] \in Nat /\ IsFillBlock(p, t, fillSizes[k], pcs[t][k])

-----------------------------------------------------------------------------
tableIdx(t)     == (CHOOSE i \in 1..6 : fillTables[i] = t) - 1
frameOf(t, k)   == (LadderTop + 1) * tableIdx(t) + k
frameBase(n, c) == n + FrameCells * c

zeroDigest ==
  LET w0 == ofK(Zero) IN Compress(<<w0, w0, w0, w0>>, <<w0, w0>>, w0)

(* The compression returns two canonical cells.                            *)
ASSUME DigestAssumption ==
  /\ zeroDigest = <<zeroDigest[1], zeroDigest[2]>>
  /\ \A i \in 1..2 : zeroDigest[i] \in E /\ IsCanonical128(zeroDigest[i])

(* Wrong: the scratch cell of DEREF is a zero like any other.              *)
frameCellPlain(w0, pc, base, t, o) ==
  CASE o = Frame.dest   -> ofK(gpow(pc))
    [] o = Frame.nextFp -> ofK(gpow(base))
    [] o = Frame.ptr    -> ofK(One)
    [] t = "blake2s" /\ o = Frame.digest     -> zeroDigest[1]
    [] t = "blake2s" /\ o = Frame.digest + 1 -> zeroDigest[2]
    [] OTHER -> ofK(Zero)

(* The word at offset o of the frame at base of a block at slot pc; w0 is  *)
(* the public word at cell 0, which the dummy DEREF reads.                 *)
frameCell(w0, pc, base, t, o) ==
  CASE o = Frame.dest   -> ofK(gpow(pc))
    [] o = Frame.nextFp -> ofK(gpow(base))
    [] o = Frame.ptr    -> ofK(One)
    [] t = "deref" /\ o = Frame.scratch      -> w0
    [] t = "blake2s" /\ o = Frame.digest     -> zeroDigest[1]
    [] t = "blake2s" /\ o = Frame.digest + 1 -> zeroDigest[2]
    [] OTHER -> ofK(Zero)

padCell(w0, pcs, n, j) ==
  LET c == j \div FrameCells
      t == fillTables[(c \div (LadderTop + 1)) + 1]
      k == c % (LadderTop + 1)
  IN  IF c < Frames THEN frameCell(w0, pcs[t][k], frameBase(n, c), t, j % FrameCells)
                    ELSE ofK(Zero)

(* Twice the cells: the committed ones, then the frames.                   *)
padImage(L, pcs) ==
  [size |-> 2 * L.size,
   cell |-> [i \in 0..2 * L.size - 1 |->
               IF i < L.size THEN L.cell[i] ELSE padCell(L.cell[0], pcs, L.size, i - L.size)]]

-----------------------------------------------------------------------------
Skel(r, ins) == [regs |-> r, ins |-> ins]

(* Wrong: the dummies without the closing jump.                            *)
cycleSkelsOpen(n, pcs, t, k) ==
  [i \in 1..fillSizes[k] |->
     Skel([pc |-> gpow(pcs[t][k] + i - 1), fp |-> gpow(frameBase(n, frameOf(t, k)))],
          fillDummy(t))]

(* One traversal of a block: its dummies, then the closing jump.           *)
cycleSkels(n, pcs, t, k) ==
  [i \in 1..fillSizes[k] + 1 |->
     Skel([pc |-> gpow(pcs[t][k] + i - 1), fp |-> gpow(frameBase(n, frameOf(t, k)))],
          IF i <= fillSizes[k] THEN fillDummy(t) ELSE fillClose)]

(* Wrong: the last step is left out with the last registers.               *)
runSkelsShort(p, rs) == [i \in 1..Len(rs) - 2 |-> Skel(rs[i], fetch(p, rs[i].pc))]

(* A run: the registers stepped from, the last ones left out.              *)
runSkels(p, rs) == [i \in 1..Len(rs) - 1 |-> Skel(rs[i], fetch(p, rs[i].pc))]

count(t, skels) == Cardinality({i \in DOMAIN skels : skels[i].ins.op = t})

=============================================================================
