---------------------------- MODULE MCMerkleOpening ----------------------------
(***************************************************************************)
(* MerkleOpening on trees of one, two and four leaves with one-word rows   *)
(* in two-word leaves, of two leaves with two-word rows, and of eight      *)
(* leaves; up to four positions, in any order, repeated, and past the      *)
(* smaller trees.  What is handed over is the prover's opening with one    *)
(* row or one sibling changed, dropped or added.                           *)
(***************************************************************************)
EXTENDS MerkleOpening, SequencesExt

Word(n) == <<n>>
Rows ==
  {<<Word(0)>>, <<<<0, 1>>>>, <<<<0, 1>>, <<1, 1>>>>}
  \cup {[p \in 1..2 |-> Word(f[p])] : f \in [1..2 -> 0..1]}
  \cup {[p \in 1..4 |-> Word(f[p])] : f \in {<<0, 0, 0, 0>>, <<0, 1, 1, 0>>, <<0, 0, 1, 0>>, <<1, 0, 1, 1>>}}
  \cup {[p \in 1..8 |-> Word((p \div 3) % 2)]}
Widths == {<<1>>, <<2, 1>>, <<4, 2, 1>>, <<8, 4, 2, 1>>}
MCCommitments == {c \in [rows : Rows, widths : Widths] : Len(c.rows) = c.widths[1]}
MCQueries == UNION {[1..n -> 0..4] : n \in 0..3} \cup [1..2 -> 1..7] \cup {<<7, 6, 1>>, <<5, 2, 5, 3>>, <<6, 0, 7, 1>>}
MCStrange == {<<"leaf", <<1, 0, 1>>>>}

Row(width) == [1..width -> Words]
MCTampered(o, digests) ==
  LET data == o.leafData
      siblings == o.siblings
  IN  {[o EXCEPT !.leafData = d] :
         d \in {[data EXCEPT ![k] = r] : k \in DOMAIN data, r \in UNION {Row(w) : w \in 0..leafWords}}
               \cup {RemoveAt(data, k) : k \in DOMAIN data} \cup {Append(data, r) : r \in Row(1)}}
      \cup {[o EXCEPT !.siblings = s] :
              s \in {[siblings EXCEPT ![k] = d] : k \in DOMAIN siblings, d \in digests}
                    \cup {RemoveAt(siblings, k) : k \in DOMAIN siblings} \cup {Reverse(siblings)}
                    \cup {Append(siblings, d) : d \in digests}}

=============================================================================
