------------------------------- MODULE Export -------------------------------
(***************************************************************************)
(* The checks of an exported trace that stand on the execution checker: an *)
(* export is the words of the final memory with, for every opcode, how     *)
(* many rows the main run has and how many there are with the filler, and  *)
(* their total; adapted, its memory and its main count are the arguments   *)
(* of a check.  The filler rows are checked apart, with the same steps.    *)
(***************************************************************************)
EXTENDS TraceChecker, Functions

CONSTANTS
  NoTrace,          \* adapt refuses
  LongestRun,       \* how far the reference is run
  Starts(_, _, _),  \* the lists of filler rows tried with a program, words and a budget
  Exports(_, _)     \* the exports tried with an image and an announced count

ASSUME ExportsAssumption ==
  /\ NoTrace \notin [image : Images, steps : Nat]
  /\ LongestRun \in Nat /\ \A n \in Budgets : n <= LongestRun
  /\ \A p \in Programs, w \in PublicInputs, n \in Budgets : Starts(p, w, n) \subseteq Seq(Regs)
  /\ \A L \in Images : \E kappa \in 0..L.size : L.size = 2^kappa
  /\ \A L \in Images, n \in Budgets : \A e \in Exports(L, n) :
       e.memory \in Seq(E) /\ e.mainCounts \in [1..6 -> Nat] /\ e.rowCounts \in [1..6 -> Nat]

total(counts) == counts[1] + counts[2] + counts[3] + counts[4] + counts[5] + counts[6]

mainSteps(e) == total(e.mainCounts)

Accounted(e) ==
  /\ \A i \in DOMAIN e.mainCounts : e.mainCounts[i] <= e.rowCounts[i]
  /\ e.cycles = total(e.rowCounts)

adapt(e) ==
  LET n == Len(e.memory)
  IN  IF n \in MinCells..MaxCells /\ (\E kappa \in 0..n : n = 2^kappa) /\ Accounted(e)
      THEN [image |-> [size |-> n, cell |-> [i \in 0..n - 1 |-> e.memory[i + 1]]],
            steps |-> mainSteps(e)]
      ELSE NoTrace

(* The export is the one whose check this state is.                        *)
IsChecked(e) == adapt(e) = [image |-> image, steps |-> budget]

validateInput(e) == checkTraceAccepts /\ IsChecked(e)

checkFillerRows(starts) ==
  /\ \A i \in DOMAIN starts : starts[i].pc # FinalPc(prog)
  /\ SuccessorsMatch(starts, [i \in DOMAIN starts |-> stepChecked(prog, image, hints, starts[i])])

-----------------------------------------------------------------------------
(* The reference `run' from (1, 1): the registers after n steps, none of   *)
(* them taken from the sentinel.                                           *)
onward(p, L, regs) == IF regs = NoRegs \/ regs.pc = FinalPc(p) THEN NoRegs ELSE step(p, L, regs)

run(p, L, n) ==
  LET after[k \in 0..n] == IF k = 0 THEN InitialRegs ELSE onward(p, L, after[k - 1]) IN after[n]

ValidLengths ==
  {n \in 0..LongestRun : HasPublicBoundary(input, image) /\ run(prog, image, n) = FinalRegs(prog)}

(* Filler rows are accepted, whatever the hints, exactly when they close   *)
(* up: the rows are a permutation of themselves under the reference step,  *)
(* so that they are closed walks, none of them through the sentinel.       *)
AcceptedFillersClose ==
  \A starts \in Starts(prog, input, budget) :
    checkFillerRows(starts) <=>
      \E next \in Bijection(DOMAIN starts, DOMAIN starts) : \A i \in DOMAIN starts :
        /\ starts[i].pc # FinalPc(prog)
        /\ step(prog, image, starts[i]) = starts[next[i]]

(* The verdict is exact.  With a budget, "ok" comes with the one length    *)
(* that is valid and is given whenever a valid length fits the budget; an  *)
(* error other than exhausted fuel means that no length at all is valid;   *)
(* and exhausted fuel says nothing of longer runs, only that none within   *)
(* the budget is valid (checkWithinFuel_eq_ok_iff, CheckError's comment).  *)
(* The filler rows, which have no budget, are accepted exactly when they   *)
(* close up (checkFillerRows_eq_true_iff).                                 *)
VerdictIsExact ==
  /\ status = "ok" => ValidLengths = {steps}
  /\ status = "fuelExhausted" => \A n \in ValidLengths : n > budget
  /\ status \in Errors \ {"fuelExhausted"} => ValidLengths = {}
  /\ status = "start" /\ image.size <= Ord => AcceptedFillersClose

(* checkTrace accepts exactly the announced counts that are valid          *)
(* (checkTrace_eq_true_iff), and an export is accepted exactly when it is  *)
(* of the whole memory, its rows add up and its main rows, without the     *)
(* filler, are as many as a valid run has steps (validateInput_eq_true_iff). *)
AnnouncedCountIsExact ==
  status \in Verdicts =>
    LET valid == budget \in ValidLengths
    IN  /\ checkTraceAccepts <=> valid
        /\ \A e \in Exports(image, budget) :
             validateInput(e) <=>
               /\ valid
               /\ e.memory = [i \in 1..image.size |-> image.cell[i - 1]]
               /\ total(e.mainCounts) = budget
               /\ total(e.rowCounts) = e.cycles
               /\ \A i \in 1..6 : e.mainCounts[i] <= e.rowCounts[i]

=============================================================================
