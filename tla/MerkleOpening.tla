----------------------------- MODULE MerkleOpening -----------------------------
(***************************************************************************)
(* A level's commitment and its pruned opening: Merkle.lean and the walk   *)
(* of ToVCVio/Merkle.lean.  The prover builds the tree over its rows level *)
(* by level, climbs it once more for the opening at the positions asked    *)
(* for, which may repeat and come in any order, and hands over one row per *)
(* distinct position and the siblings the climb did not pass.  The         *)
(* verifier rebuilds the nodes above the rows it was given.                *)
(*                                                                         *)
(* A list of ascending positions is a set, and a list that goes with it is *)
(* indexed by rank.  The hash is ideal: a digest is the term that was      *)
(* hashed, so that two are equal when what was hashed is.  A leaf hashes   *)
(* the row's image, right-aligned after a zero prefix: rows of two widths  *)
(* may have one image.                                                     *)
(***************************************************************************)
EXTENDS Integers, Sequences, Functions, FiniteSetsExt

CONSTANTS
  Words,          \* the words of a row
  leafWords,      \* the words of a leaf
  Commitments,    \* what is committed: [rows, widths], the nodes of each height
  Queries,        \* the positions asked for
  Strange,        \* digests of nothing the prover hashed
  Tampered(_, _)  \* what may be handed over for an opening, given the digests there are

(* Each height has half the nodes of the one below, down to the root.      *)
Halving(widths) == /\ widths # <<>> /\ widths[Len(widths)] = 1
                   /\ \A h \in 1..(Len(widths) - 1) : widths[h] = 2 * widths[h + 1]

ASSUME WordsAssumption == 0 \in Words /\ leafWords \in Nat \ {0}
ASSUME CommitmentsAssumption ==
  \A c \in Commitments :
    /\ c \in [rows : Seq(Seq(Words)), widths : Seq(Nat)]
    /\ Halving(c.widths) /\ Len(c.rows) = c.widths[1]
    /\ \A row \in Range(c.rows) : Len(row) = Len(c.rows[1]) /\ Len(row) <= leafWords
ASSUME QueriesAssumption == Queries \subseteq Seq(Nat)

VARIABLES
  tree,      \* what is committed, fixed
  queries,   \* fixed
  levels,    \* the digests of each height by position, leaves first
  trail,     \* of each height climbed: the positions there, and the siblings stored below
  opening,   \* the prover's
  paths,     \* the opening handed over
  height,    \* the verifier's walk: the nodes at this height,
  nodes,     \*   their digests by position,
  used,      \*   the siblings taken below it,
  hashed,    \*   and what was hashed
  stage

vars == <<tree, queries, levels, trail, opening, paths, height, nodes, used, hashed, stage>>
prover == <<levels, trail, opening>>
verifier == <<height, nodes, used, hashed>>

-----------------------------------------------------------------------------
leafImage(row) == [k \in 1..(leafWords - Len(row)) |-> 0] \o row
leafDigest(row) == <<"leaf", leafImage(row)>>
nodeDigest(left, right) == <<"node", left, right>>

depth == Len(tree.widths) - 1
rowWords == Len(tree.rows[1])
Height(h) == levels[h + 1]
root == Height(depth)[0]

(* The distinct positions asked for.                                       *)
sortedUnique == Range(queries)

(* The place of i among the members of S in ascending order.               *)
Rank(i, S) == Cardinality({j \in S : j <= i})
Ranked(k, S) == CHOOSE i \in S : Rank(i, S) = k

sibling(i) == IF i % 2 = 0 THEN i + 1 ELSE i - 1
parentPositions(S) == {i \div 2 : i \in S}

(* Wrong: siblings are not noticed.                                        *)
AloneEach(S) == S

(* Of the nodes at positions S, those whose sibling is not there too.      *)
Alone(S) == {i \in S : sibling(i) \notin S}

parents(level) == [j \in parentPositions(DOMAIN level) |-> nodeDigest(level[2 * j], level[2 * j + 1])]

-----------------------------------------------------------------------------
(* The prover.                                                             *)
InTree == \A q \in sortedUnique : q < Len(tree.rows)
RowAt(q) == IF q < Len(tree.rows) THEN tree.rows[q + 1] ELSE <<>>

(* The siblings of a level that the walk is not given.                     *)
levelSiblings(level, S) ==
  LET known == {i \in Alone(S) : sibling(i) \in DOMAIN level}
  IN  [k \in 1..Cardinality(known) |-> level[sibling(Ranked(k, known))]]

Nothing == [leafData |-> <<>>, siblings |-> <<>>]

Init ==
  /\ tree \in Commitments /\ queries \in Queries
  /\ levels = <<[p \in 0..(Len(tree.rows) - 1) |-> leafDigest(tree.rows[p + 1])]>>
  /\ trail = <<>> /\ opening = Nothing /\ paths = Nothing
  /\ height = 0 /\ nodes = <<>> /\ used = 0 /\ hashed = 0 /\ stage = "commit"

Fixed == UNCHANGED <<tree, queries>>

BuildLevel ==
  /\ stage = "commit" /\ Len(levels) <= depth
  /\ levels' = Append(levels, parents(levels[Len(levels)]))
  /\ Fixed /\ UNCHANGED <<trail, opening, paths, verifier, stage>>

(* The rows at the distinct positions, ascending.                          *)
StoreRows ==
  /\ stage = "commit" /\ Len(levels) = depth + 1
  /\ opening' = [Nothing EXCEPT !.leafData =
                   [k \in 1..Cardinality(sortedUnique) |-> RowAt(Ranked(k, sortedUnique))]]
  /\ trail' = <<[at |-> sortedUnique, below |-> 0]>>
  /\ stage' = "open"
  /\ Fixed /\ UNCHANGED <<levels, paths, verifier>>

(* One level of the climb, bottom-up.                                      *)
StoreSiblings ==
  LET S == trail[Len(trail)].at
      siblings == opening.siblings \o levelSiblings(levels[Len(trail)], S)
  IN  /\ stage = "open" /\ Len(trail) <= depth
      /\ opening' = [opening EXCEPT !.siblings = siblings]
      /\ trail' = Append(trail, [at |-> parentPositions(S), below |-> Len(siblings)])
      /\ Fixed /\ UNCHANGED <<levels, paths, verifier, stage>>

(* What is handed over is the prover's opening, or any other that Tampered *)
(* makes of it.                                                            *)
Digests == Strange \cup UNION {Range(levels[h]) : h \in DOMAIN levels}

HandOver ==
  /\ stage = "open" /\ Len(trail) = depth + 1
  /\ paths' \in {opening} \cup {p \in Tampered(opening, Digests) :
                                   p \in [leafData : Seq(Seq(Words)), siblings : Seq(Digests)]}
  /\ stage' = "check"
  /\ Fixed /\ UNCHANGED <<prover, verifier>>

-----------------------------------------------------------------------------
(* The verifier.  The shape of an opening is checked before any hash       *)
(* (Verify/Whir.lean).                                                     *)
openingsOk(p) ==
  /\ Len(p.leafData) <= Len(queries) /\ \A k \in DOMAIN p.leafData : Len(p.leafData[k]) = rowWords
  /\ Len(p.siblings) <= Len(queries) * depth

(* Wrong: the rows come back in the order they are stored.                 *)
rowsInOrderStored(p) == [k \in DOMAIN queries |-> leafImage(p.leafData[Min({k, Len(p.leafData)})])]

rowsInQueryOrder(p) == [k \in DOMAIN queries |-> leafImage(p.leafData[Rank(queries[k], sortedUnique)])]

(* Wrong: a row of another width is hashed as its image.                   *)
WidthAny(p) == {}

(* The stored rows that have not the announced width.                      *)
OtherWidth(p) == {k \in DOMAIN p.leafData : Len(p.leafData[k]) # rowWords}

Counted(p) == Len(p.leafData) = Cardinality(sortedUnique) /\ rowWords <= leafWords

Reject == stage' = "rejected" /\ Fixed /\ UNCHANGED <<prover, paths, height, nodes, used>>

RejectCount == stage = "check" /\ ~Counted(paths) /\ Reject /\ UNCHANGED hashed

(* The rows are hashed one by one, up to the first of another width.       *)
RejectWidth ==
  /\ stage = "check" /\ Counted(paths) /\ OtherWidth(paths) # {} /\ Reject
  /\ hashed' = Min(OtherWidth(paths)) - 1

RowsHashed == /\ stage = "check" /\ Counted(paths) /\ OtherWidth(paths) = {}
              /\ hashed' = Len(paths.leafData)

(* Only then are the positions held against the tree.                      *)
RejectPosition == RowsHashed /\ ~InTree /\ Reject

StartWalk ==
  /\ RowsHashed /\ InTree
  /\ nodes' = [q \in sortedUnique |-> leafDigest(paths.leafData[Rank(q, sortedUnique)])]
  /\ stage' = "walk" /\ Fixed /\ UNCHANGED <<prover, paths, height, used>>

-----------------------------------------------------------------------------
(* One level of the walk: a node alone takes the next sibling, on its      *)
(* right when it is even.                                                  *)
lone == Alone(DOMAIN nodes)
Below(i) == IF i \in DOMAIN nodes THEN nodes[i] ELSE paths.siblings[used + Rank(sibling(i), lone)]
levelStep == [p \in parentPositions(DOMAIN nodes) |-> nodeDigest(Below(2 * p), Below(2 * p + 1))]

Enough == used + Cardinality(lone) <= Len(paths.siblings)

Walk ==
  /\ stage = "walk" /\ height < depth /\ Enough
  /\ nodes' = levelStep /\ used' = used + Cardinality(lone) /\ height' = height + 1
  /\ hashed' = hashed + Cardinality(DOMAIN levelStep)
  /\ Fixed /\ UNCHANGED <<prover, paths, stage>>

(* The siblings run out; the parents before the one that misses its        *)
(* sibling were hashed.                                                    *)
RunOut ==
  /\ stage = "walk" /\ height < depth /\ ~Enough /\ Reject
  /\ LET without == Ranked(Len(paths.siblings) - used + 1, lone)
     IN  hashed' = hashed + Cardinality({p \in parentPositions(DOMAIN nodes) : p < without \div 2})

Reached == /\ DOMAIN nodes # {} /\ used = Len(paths.siblings)
           /\ nodes[Min(DOMAIN nodes)] = root

Accept ==
  /\ stage = "walk" /\ height = depth /\ Reached
  /\ stage' = "accepted" /\ Fixed /\ UNCHANGED <<prover, paths, verifier>>

RejectRoot == stage = "walk" /\ height = depth /\ ~Reached /\ Reject /\ UNCHANGED hashed

Next ==
  \/ BuildLevel \/ StoreRows \/ StoreSiblings \/ HandOver
  \/ RejectCount \/ RejectWidth \/ RejectPosition \/ StartWalk
  \/ Walk \/ RunOut \/ Accept \/ RejectRoot

Spec == Init /\ [][Next]_vars

-----------------------------------------------------------------------------
Stages == {"commit", "open", "check", "walk", "accepted", "rejected"}
Committed == [k \in DOMAIN queries |-> leafImage(tree.rows[queries[k] + 1])]

(* The prover's opening has the shape the verifier asks for before it      *)
(* hashes anything, is accepted, however the positions repeat and whatever *)
(* their order, and gives each query the row committed there.              *)
HonestIsAccepted ==
  stage \notin {"commit", "open"} /\ paths = opening /\ queries # <<>> /\ InTree =>
    /\ openingsOk(paths) /\ stage # "rejected"
    /\ stage = "accepted" => rowsInQueryOrder(paths) = Committed

(* Only the prover's opening is accepted: to the width of a row and the    *)
(* last sibling.                                                           *)
AcceptedIsTheOpening == stage = "accepted" => paths = opening /\ rowsInQueryOrder(paths) = Committed

(* The node above a position, h levels up.                                 *)
Above(q, h) == LET up[k \in 0..h] == IF k = 0 THEN q ELSE up[k - 1] \div 2 IN up[h]

(* The nodes that the positions S pass on the way to height h, themselves  *)
(* and their h-th parents included; and those beside them on that way.     *)
Passed(S, h) == {<<k, Above(q, k)>> : k \in 0..h, q \in S}
Beside(S, h) == {<<k, sibling(Above(q, k))>> : k \in 0..(h - 1), q \in S} \ Passed(S, h)

(* An accepted opening hashes each stored row and each node above one      *)
(* once, and stores a sibling for exactly the nodes beside those it        *)
(* passes.                                                                 *)
HashedOnce ==
  stage = "accepted" => /\ hashed = Cardinality(Passed(sortedUnique, depth))
                        /\ Len(paths.siblings) = Cardinality(Beside(sortedUnique, depth))

=============================================================================
