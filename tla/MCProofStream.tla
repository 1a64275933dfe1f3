----------------------------- MODULE MCProofStream -----------------------------
(***************************************************************************)
(* ProofStream with one level or two: an announcement, then per level a    *)
(* root, a grind and positions; and between the levels a checked and an    *)
(* unchecked scalar.  Scalars are 0, 1 and the wide 2; a grind tries two   *)
(* nonces.                                                                 *)
(***************************************************************************)
EXTENDS ProofStream

Op(op, bits) == [op |-> op, bits |-> bits]
MCScalars == 0..2
MCWide == {2}
MCSizes == {0, 1}
MCSchedule == [s \in MCSizes |->
  LET level0 == <<Op("scalar", 0), Op("root", 0), Op("sample", 0), Op("scalar", 0), Op("grind", 1), Op("sample", 0)>>
  IN  IF s = 0 THEN level0 ELSE level0 \o <<Op("root", 0), Op("grind", 0), Op("sample", 0), Op("scalar", 0)>>]
MCOpenings == [s \in MCSizes |->
  LET first == <<[root |-> 2, at |-> 6]>> IN IF s = 0 THEN first ELSE Append(first, [root |-> 7, at |-> 9])]
MCChecked == {4}
MCMessages == {<<size, <<0, d>>, 0, x, 0, 0, <<d, 1>>, 0, 0, 1>> : size \in MCSizes, d \in 0..1, x \in 0..1}
MCClearings == [0..1 -> SUBSET MCScalars]

=============================================================================
