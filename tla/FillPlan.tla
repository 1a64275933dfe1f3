------------------------------ MODULE FillPlan ------------------------------
(***************************************************************************)
(* How the tables are filled to powers of two.  A program carries, for     *)
(* every table and every size of a ladder, a block of that many dummy      *)
(* instructions closed by a jump back to its start.  Traversing the block  *)
(* of size s of a table adds s rows to the table and one to JUMP, so JUMP  *)
(* is planned last, from what all the others owe it.                       *)
(*                                                                         *)
(* rows is the number of rows each table has from the run.                 *)
(***************************************************************************)
EXTENDS Integers, Sequences, FiniteSetsExt

CONSTANTS
  LadderTop,       \* log2 of the largest block, 7 in the code
  MinBlake2sRows,  \* the least height of the BLAKE2S table, 8 in the code
  MaxLogRows       \* log2 of the greatest height of a table, 32 in the code

(* JUMP needs the two smallest blocks.                                     *)
ASSUME LadderAssumption ==
  LadderTop \in Nat \ {0} /\ MinBlake2sRows \in Nat \ {0} /\ MaxLogRows \in Nat

fillTables == <<"xor", "mulNative", "setConstant", "deref", "jump", "blake2s">>
Tables     == {fillTables[i] : i \in 1..6}

(* 2^n and sums over 0..n - 1, as recursive functions.                     *)
Pow2[n \in Nat] == IF n = 0 THEN 1 ELSE 2 * Pow2[n - 1]

SumUpTo(f, n) ==
  LET upTo[k \in 0..n] == IF k = 0 THEN 0 ELSE upTo[k - 1] + f[k - 1] IN upTo[n]

(* The ladder, largest first: fillSizes[k] rows in the block of index k.   *)
Ladder    == 0..LadderTop
fillSizes == [k \in Ladder |-> Pow2[LadderTop - k]]

minRows(t) == IF t = "blake2s" THEN MinBlake2sRows ELSE 1

clog2(n) == CHOOSE e \in 0..n : n <= Pow2[e] /\ \A f \in 0..e - 1 : Pow2[f] < n

fillTarget(n, floor) == Pow2[clog2(Max({n, floor, 1}))]

(* As many of the largest block as fit, then one per set bit.              *)
fillGreedy(p) ==
  [k \in Ladder |-> IF k = 0 THEN p \div fillSizes[0]
                             ELSE (p % fillSizes[k - 1]) \div fillSizes[k]]

fillOf(rows, t) == fillGreedy(fillTarget(rows[t], minRows(t)) - rows[t])

Traversals(count) == SumUpTo(count, LadderTop + 1)

(* Every traversal of a block of another table closes with a jump.         *)
fillJumps(rows, t) == Traversals(fillOf(rows, t))

(* Wrong: BLAKE2S, filled after JUMP, is forgotten.                        *)
jumpOwedSoFar(rows) ==
  rows["jump"] + fillJumps(rows, "xor") + fillJumps(rows, "mulNative")
    + fillJumps(rows, "setConstant") + fillJumps(rows, "deref")

(* What JUMP owes: its rows and the closing jumps of the five others.      *)
jumpOwed(rows) ==
  rows["jump"] + fillJumps(rows, "xor") + fillJumps(rows, "mulNative")
    + fillJumps(rows, "setConstant") + fillJumps(rows, "deref") + fillJumps(rows, "blake2s")

(* Wrong: a gap of one is let through.                                     *)
JumpFitsAnyGap(owed, tau) == tau \in 0..MaxLogRows /\ owed <= Pow2[tau]

JumpFits(owed, tau) ==
  tau \in 0..MaxLogRows /\ owed <= Pow2[tau] /\ Pow2[tau] # owed + 1

(* A gap is filled by twos, the block of size one with its closing jump,   *)
(* and at most one three.  A gap of one cannot be filled.                  *)
jumpMix(gap) == IF gap % 2 = 0 THEN [one |-> gap \div 2, two |-> 0]
                               ELSE [one |-> Max({gap - 3, 0}) \div 2, two |-> 1]

jumpCount(gap) == [k \in Ladder |-> CASE k = LadderTop     -> jumpMix(gap).one
                                      [] k = LadderTop - 1 -> jumpMix(gap).two
                                      [] OTHER             -> 0]

planCount(rows, tau, t) ==
  IF t = "jump" THEN jumpCount(Pow2[tau] - jumpOwed(rows)) ELSE fillOf(rows, t)

tableHeight(rows, tau, t) ==
  IF t = "jump" THEN Pow2[tau] ELSE fillTarget(rows[t], minRows(t))

(* The run leaves every table room to be filled within the cap.            *)
Fits(rows, tau) ==
  /\ \A t \in Tables \ {"jump"} : fillTarget(rows[t], minRows(t)) <= Pow2[MaxLogRows]
  /\ JumpFits(jumpOwed(rows), tau)

=============================================================================
