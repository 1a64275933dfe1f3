---------------------------- MODULE MCTraceReader ----------------------------
(***************************************************************************)
(* TraceReader over GF(16), on the witnesses a prover may assemble from    *)
(* honest and forged rows: each scenario is a program, an image and a set  *)
(* of rows, and the witnesses are the sequences of those rows.             *)
(***************************************************************************)
EXTENDS TraceReader

(* GF(16) with 15 addresses (x^4 = x + 1), whose degree is no multiple of   *)
(* 3, so that y^3 + y + 1 is irreducible over it, as it is over GF(2^64).   *)
Zech16 == <<15, 4, 8, 14, 1, 10, 13, 9, 2, 7, 5, 12, 11, 6, 3>>

MCCompress(m, cv, md) ==
  LET cut(x) == ofLimbs(Limb(x, 0), Limb(x, 1), Zero)
      sum(x, z) == cut(EAdd(x, z))
  IN  <<sum(sum(m[1], m[2]), cv[1]), sum(sum(sum(m[3], m[4]), cv[2]), md)>>

(***************************************************************************)
(* The counts.  A read is numbered by the reads of the same cell with the  *)
(* same word before it, which is the only way to balance a word the image  *)
(* holds, up to the order of the rows and to full turns of g.  A word the  *)
(* image does not hold is numbered alike, or given the count 0.  The       *)
(* finalize counts close the chains.                                       *)
(***************************************************************************)
Keys(rs) == [x \in ReadPlaces([rows |-> rs]) |->
               LET m == memRead([rows |-> rs], x) IN <<m.addr, m.val>>]
Entries(rs) == [i \in DOMAIN rs |-> <<rs[i].pc, rowEntry(rs[i])>>]

Before(x, y) == y[1] < x[1] \/ (y[1] = x[1] /\ y[2] < x[2])

Counted(rs, ks, es, L, forgedZero) ==
  LET forged(x) == read(L, ks[x][1]) # ks[x][2]
      count(x) == IF forgedZero /\ forged(x) THEN Zero
                  ELSE gpow(Cardinality({y \in DOMAIN ks : Before(x, y) /\ ks[y] = ks[x]}))
  IN  [i \in DOMAIN rs |->
         [rs[i] EXCEPT !.r = [j \in 1..Reads(rs[i].op) |-> count(<<i, j>>)],
                       !.rbc = gpow(Cardinality({k \in 1..i - 1 : es[k] = es[i]}))]]

Witness(p, L, rs, ks, es, forgedZero) ==
  [rows |-> Counted(rs, ks, es, L, forgedZero), image |-> L,
   memFin |-> [i \in 0..L.size - 1 |->
      gpow(Cardinality({x \in DOMAIN ks : ks[x] = <<gpow(i), L.cell[i]>>}))],
   bcFin |-> [i \in 0..p.size - 1 |->
      gpow(Cardinality({k \in DOMAIN es : es[k] = <<gpow(i), entry(p.code[i])>>}))]]

-----------------------------------------------------------------------------
W0 == ofK(Zero)
W1 == ofK(One)
Wg == ofK(1)
Wy == ofLimbs(Zero, One, Zero)

Jump(c, d, f)      == [op |-> "jump", o |-> <<c, d, f>>]
Set(o, k)          == [op |-> "setConstant", o |-> <<o>>, k |-> k]
Deref(a, b, c, m)  == [op |-> "deref", o |-> <<a, b, c>>, mode |-> m]
Arith(op, a, b, c) == [op |-> op, o |-> <<a, b, c>>]
Blake(ms, cv, out, md) == [op |-> "blake2s", o |-> ms \o <<cv, out, md>>]

Code(s) == [size |-> Len(s), code |-> [i \in 0..Len(s) - 1 |-> s[i + 1]]]
Img(s)  == [size |-> Len(s), cell |-> [i \in 0..Len(s) - 1 |-> s[i + 1]]]
At(p, f) == [pc |-> p, fp |-> f]

(* A row with no counts yet; the row of a slot; and rows changed by a      *)
(* prover: other words, other auxiliary columns.                           *)
Row(L, regs, ins)  == rowOf(L, regs, ins, [j \in 1..Reads(ins.op) |-> One], One)
Honest(p, L, regs) == Row(L, regs, p.code[regs.pc])
WithWord(row, j, x) == [row EXCEPT !.v[j] = x]
WithAux(row, aux)   == [row EXCEPT !.aux = aux]

(* Straight-line arithmetic and stores.                                    *)
ArithProg == Code(<<Arith("xor", 0, 1, 2), Deref(1, 2, 4, "fp"),
                    Arith("mulNative", 1, 1, 5), Set(0, W0)>>)
ArithImg  == Img(<<W1, Wg, ofK(4), W1, Wy, ofK(2)>>)
ArithRows ==
  {Honest(ArithProg, ArithImg, At(i, One)) : i \in 0..2}
  \cup {WithWord(Honest(ArithProg, ArithImg, At(0, One)), 1, W0),
        WithAux(Honest(ArithProg, ArithImg, At(1, One)), <<One, One>>),
        WithAux(Honest(ArithProg, ArithImg, At(1, One)), <<One, Zero>>),
        Row(ArithImg, At(2, One), Set(5, W1))}

(* Jumps: 0 -> 1 -> 4 is the run, 2 -> 3 -> 2 a closed walk beside it; a   *)
(* wrong indicator would send 1 and 3 to the next slot.                    *)
JumpProg == Code(<<Jump(2, 1, 0), Jump(0, 3, 0), Jump(2, 3, 3), Jump(0, 4, 0), Set(0, W0)>>)
JumpImg  == Img(<<W1, Wg, W0, ofK(4), ofK(2)>>)
JumpRows ==
  {Honest(JumpProg, JumpImg, At(i, One)) : i \in 0..3}
  \cup {WithAux(Honest(JumpProg, JumpImg, At(i, One)), <<Zero, Zero>>) : i \in {1, 3}}

(* A sentinel that is a JUMP: the rows run through it in another frame.    *)
UnsafeProg == Code(<<Jump(0, 1, 1), Jump(0, 0, 3)>>)
UnsafeImg  == Img(<<W1, Wg, W1, W1, W1>>)
UnsafeRows == {Honest(UnsafeProg, UnsafeImg, r0) : r0 \in {At(0, 0), At(1, 1), At(1, 0)}}

(* One forged word read over and over, in a row that goes nowhere.         *)
WrapProg == Code(<<Jump(0, 0, 0), Set(0, W0)>>)
WrapImg  == Img(<<W0, W1>>)
WrapLoop == [Honest(WrapProg, WrapImg, At(0, 0)) EXCEPT !.v = <<W1, W1, W1>>,
                                                        !.aux = <<One, One>>]
WrapRows == {WrapLoop, Honest(WrapProg, WrapImg, At(0, 0))}

BlakeProg == Code(<<Blake(<<0, 0, 1, 1>>, 0, 2, 0), Set(0, W0)>>)
BlakeOut  == MCCompress(<<W1, W1, Wg, Wg>>, <<W1, Wg>>, W1)
BlakeImg(out) == Img(<<W1, Wg, out[1], out[2]>>)
BlakeRows(L) == {Honest(BlakeProg, L, At(0, 0)),
                 WithWord(Honest(BlakeProg, L, At(0, 0)), 8, W0)}

Scenario(p, L, rs, n, zero) ==
  [p |-> p, L |-> L, rows |-> rs, n |-> n, zero |-> zero]

Scenarios ==
  {Scenario(ArithProg, ArithImg, ArithRows, 3, BOOLEAN),
   Scenario(JumpProg, JumpImg, JumpRows, 4, {FALSE}),
   Scenario(UnsafeProg, UnsafeImg, UnsafeRows, 3, {FALSE}),
   Scenario(WrapProg, WrapImg, WrapRows, 6, BOOLEAN)}
  \cup {Scenario(BlakeProg, BlakeImg(out), BlakeRows(BlakeImg(out)), 1, BOOLEAN) :
          out \in {BlakeOut, <<W0, Wy>>}}

Sequences(s) == UNION {[1..n -> s.rows] : n \in 0..s.n}

MCArguments ==
  UNION {{[prog |-> s.p, input |-> <<s.L.cell[0], s.L.cell[1]>>,
           witness |-> Witness(s.p, s.L, k.rs, k.ks, k.es, z)] :
            z \in s.zero,
            k \in {[rs |-> rs, ks |-> Keys(rs), es |-> Entries(rs)] : rs \in Sequences(s)}} :
         s \in Scenarios}

=============================================================================
