------------------------------ MODULE Execution ------------------------------
(***************************************************************************)
(* What a valid execution of a program over a fixed image is: the          *)
(* reference that the checker, the witness and the trace reader are held   *)
(* to; and which filler rows may stand beside it.                          *)
(***************************************************************************)
EXTENDS LeanIsa, FiniteSets

CONSTANTS MinCells, MaxCells   \* the memory window: 2^16 and 2^32 cells in the code

(* The window keeps one address from naming two cells.                     *)
ASSUME WindowAssumption ==
  /\ MinCells \in Nat /\ MaxCells \in Nat
  /\ MaxCells <= Ord

(* The public boundary of the reference (HasPublicBoundary): the window,   *)
(* and the two public words at g^0 and g^1.                                *)
HasPublicBoundary(words, L) ==
  /\ L.size \in MinCells..MaxCells
  /\ read(L, gpow(0)) = words[1]
  /\ read(L, gpow(1)) = words[2]

(* A run of the reference machine, as the list of its registers: it starts *)
(* at (1, 1) and each register pair but the last is away from the sentinel *)
(* and steps to the next one (`run' unfolded; the sentinel is never        *)
(* executed).                                                              *)
IsRun(p, L, rs) ==
  /\ rs[1] = InitialRegs
  /\ \A i \in 1..Len(rs) - 1 :
       rs[i].pc # FinalPc(p) /\ step(p, L, rs[i]) = rs[i + 1]

(* A valid execution: the boundary, and a run to (finalPc, 1).             *)
ValidExecution(p, words, L, rs) ==
  /\ HasPublicBoundary(words, L)
  /\ IsRun(p, L, rs)
  /\ rs[Len(rs)] = FinalRegs(p)

-----------------------------------------------------------------------------
(* Filler rows beside a run: when their starts are accepted under a step.  *)
(* None is at the sentinel, and the successors are the starts, each as     *)
(* many times; a step that fails has the successor NoRegs, which is no     *)
(* start, so it fails all of them.                                         *)
Times(s, x) == Cardinality({i \in DOMAIN s : s[i] = x})

SuccessorsMatch(starts, nexts) ==
  \A x \in {starts[i] : i \in DOMAIN starts} \cup {nexts[i] : i \in DOMAIN nexts} :
    Times(starts, x) = Times(nexts, x)

FillerRowsValid(p, L, starts) ==
  /\ \A i \in DOMAIN starts : starts[i].pc # FinalPc(p)
  /\ SuccessorsMatch(starts, [i \in DOMAIN starts |-> step(p, L, starts[i])])

=============================================================================
