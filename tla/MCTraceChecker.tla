--------------------------- MODULE MCTraceChecker ---------------------------
(***************************************************************************)
(* TraceChecker over GF(16), on small programs and images, and the checks  *)
(* of exports that stand on it.                                            *)
(***************************************************************************)
EXTENDS Export

(* GF(16) with 15 addresses (x^4 = x + 1), whose degree is no multiple of   *)
(* 3, so that y^3 + y + 1 is irreducible over it, as it is over GF(2^64).   *)
Zech16 == <<15, 4, 8, 14, 1, 10, 13, 9, 2, 7, 5, 12, 11, 6, 3>>

(* A toy compression that depends on every cell it is given.               *)
MCCompress(m, cv, md) ==
  LET cut(x) == ofLimbs(Limb(x, 0), Limb(x, 1), Zero)
      sum(x, z) == cut(EAdd(x, z))
  IN  <<sum(sum(m[1], m[2]), cv[1]), sum(sum(sum(m[3], m[4]), cv[2]), md)>>

W0 == ofK(Zero)
W1 == ofK(One)
Wg == ofK(1)
Wh == ofK(2)
Wy == ofLimbs(Zero, One, Zero)     \* canonical, not in K
Wz == ofLimbs(One, Zero, One)      \* not canonical

Jump(c, d, f)    == [op |-> "jump", o |-> <<c, d, f>>]
Set(o, k)        == [op |-> "setConstant", o |-> <<o>>, k |-> k]
Deref(a, b, c, m) == [op |-> "deref", o |-> <<a, b, c>>, mode |-> m]
Arith(op, a, b, c) == [op |-> op, o |-> <<a, b, c>>]
Blake(ms, cv, out, md) ==
  [op |-> "blake2s", o |-> ms \o <<cv, out, md>>]

Code(s) == [size |-> Len(s), code |-> [i \in 0..Len(s) - 1 |-> s[i + 1]]]

MCPrograms == {
  \* the sentinel alone: the empty execution
  Code(<<Set(9, W0)>>),
  \* one instruction and the sentinel
  Code(<<Jump(0, 2, 3), Set(0, W0)>>),
  Code(<<Arith("xor", 0, 2, 3), Set(0, W0)>>),
  Code(<<Arith("mulNative", 2, 2, 3), Set(0, W0)>>),
  Code(<<Set(Zero, W0), Set(0, W0)>>),
  Code(<<Blake(<<2, 2, 3, 3>>, 0, 2, 3), Set(0, W0)>>),
  \* a local cell out of range in a mode that ignores its value
  Code(<<Deref(2, 1, 5, "fp"), Set(0, W0)>>),
  \* loops and frames: jumps away and back, stores of pc and fp
  Code(<<Deref(2, 1, 3, "fp"), Jump(0, 2, 3)>>),
  Code(<<Deref(2, 0, 3, "pc"), Jump(0, 3, 1), Jump(14, 1, 14), Jump(0, 2, 3)>>),
  Code(<<Jump(1, 2, 1), Deref(0, 14, 3, "fp"), Deref(0, 1, 0, "cell"), Set(0, W0)>>),
  Code(<<Set(0, W1), Arith("xor", 1, 1, 3), Jump(3, 0, 0), Set(0, W0)>>)
}

Img(s) == [size |-> Len(s), cell |-> [i \in 0..Len(s) - 1 |-> s[i + 1]]]

MCPublicInputs == {<<W1, Wg>>, <<W1, W1>>, <<Wy, W0>>}

MCImages ==
  {Img(p \o <<a, b>>) : p \in MCPublicInputs,
                        a \in {W0, W1, Wg, Wh, ofK(3), Wy, Wz}, b \in {W0, W1, Wg, Wh, ofK(3), Wy, Wz}}
  \cup {Img(<<W1, Wg>>), Img(<<W1, Wg, W1, W1, W1, W1, W1, W1>>)}

(* Programs that can loop, and images on which they loop, halt, and halt   *)
(* in a wrong frame.                                                       *)
LoopingPrograms == {p \in MCPrograms : \E i \in 0..p.size - 2 : p.code[i].op = "jump"}
LoopingImages   == {Img(<<W1, Wg>> \o s) : s \in {<<W1, W1>>, <<Wg, W1>>, <<Wg, Wg>>}}

(* No hint; good and bad hints; hints beyond every size, one of them       *)
(* naming an address again past the order of g.                            *)
MCHintLists == {<<>>, <<3, 0, 1>>, <<16, 40, 2, 2>>}

(* Filler rows of at most two starts, in two frames, once for each program *)
(* and image: they have no budget and no public words.                     *)
MCStarts(p, words, n) ==
  LET at == {[pc |-> gpow(i), fp |-> f] : i \in 0..p.size - 1, f \in {One, 2}}
  IN  IF words = <<W1, Wg>> /\ n = 0 THEN UNION {[1..k -> at] : k \in 0..2} ELSE {}

(* Exports of the words of the image, the last one left out or not, that   *)
(* announce as many main rows as there is budget, as jumps and XORs, with  *)
(* fewer or more rows in all, counted right or wrong.                      *)
MCExports(L, n) ==
  LET words == [i \in 1..L.size |-> L.cell[i - 1]]
      counts(j, x) == [i \in 1..6 |-> CASE i = 1 -> x [] i = 5 -> j [] OTHER -> 0]
  IN  {[memory |-> m, mainCounts |-> counts(j, n - j), rowCounts |-> counts(k, x), cycles |-> c] :
         m \in {words, Tail(words)}, j \in {0, n}, k \in {1, 4}, x \in {1, 3},
         c \in {n, 2, 5, 7}}

=============================================================================
