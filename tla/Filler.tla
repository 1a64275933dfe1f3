------------------------------- MODULE Filler -------------------------------
(***************************************************************************)
(* The fill, counted: the cycles are traversed table by table and size by  *)
(* size, each as many times as the plan says, and the heights grow.  This  *)
(* is what WitnessBuilder, which writes the rows, implements.              *)
(***************************************************************************)
EXTENDS FillPlan

CONSTANT RowCounts   \* the rows the runs leave in the six tables

ASSUME CountsAssumption == RowCounts \subseteq [Tables -> Nat]

VARIABLES
  rows,     \* the rows of the run
  tau,      \* log2 of the height chosen for JUMP
  cycle,    \* how many cycles have been dealt with
  heights   \* the rows of each table so far

fillVars == <<rows, tau, cycle, heights>>

Cycles == Len(fillTables) * (LadderTop + 1)
tableOf(c) == fillTables[(c \div (LadderTop + 1)) + 1]
indexOf(c) == c % (LadderTop + 1)

Init ==
  /\ rows \in RowCounts
  /\ tau \in 0..MaxLogRows
  /\ Fits(rows, tau)
  /\ cycle = 0
  /\ heights = rows

(* n traversals of the next cycle: n times its dummies, n closing jumps.   *)
Traverse ==
  /\ cycle < Cycles
  /\ LET t == tableOf(cycle)
         n == planCount(rows, tau, t)[indexOf(cycle)]
     IN  heights' = [u \in Tables |->
                       heights[u]
                         + (IF u = t THEN n * fillSizes[indexOf(cycle)] ELSE 0)
                         + (IF u = "jump" THEN n ELSE 0)]
  /\ cycle' = cycle + 1
  /\ UNCHANGED <<rows, tau>>

Next == Traverse

Spec == Init /\ [][Next]_fillVars

-----------------------------------------------------------------------------
(* No table ever has more rows than its announced height, although JUMP    *)
(* grows with every other table's fill, before and after its own.          *)
NeverAboveHeight ==
  \A t \in Tables : heights[t] <= tableHeight(rows, tau, t)

IsPowerOfTwo(n) == \E e \in 0..MaxLogRows : n = Pow2[e]

(* The fill ends with every table exactly at its announced height, which   *)
(* the caps accept: a power of two, at least the table's floor.            *)
(* (Trace.count_rows, tableHeight_pow).                                    *)
FillIsExact ==
  cycle = Cycles =>
    \A t \in Tables :
      /\ heights[t] = tableHeight(rows, tau, t)
      /\ IsPowerOfTwo(heights[t]) /\ heights[t] >= minRows(t)

=============================================================================
