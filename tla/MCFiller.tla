------------------------------ MODULE MCFiller ------------------------------
(***************************************************************************)
(* Filler on runs whose row counts sit around the powers of two, the       *)
(* largest block and the floor of BLAKE2S, with every parity of what JUMP  *)
(* is owed.                                                                *)
(***************************************************************************)
EXTENDS Filler

MCRowCounts ==
  {[t \in Tables |->
      CASE t = "xor" -> a [] t = "mulNative" -> 0 [] t = "setConstant" -> b
        [] t = "deref" -> 5 [] t = "jump" -> j [] t = "blake2s" -> c] :
     a \in {0, 1, 3, 127, 128, 129, 200, 257}, b \in {1, 64, 65},
     j \in 0..8 \cup {21, 22, 23, 54, 55, 56, 240}, c \in {0, 1, 7, 8, 9}}

=============================================================================
