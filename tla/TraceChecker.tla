---------------------------- MODULE TraceChecker ----------------------------
(***************************************************************************)
(* The executable checker of a fixed execution (checkWithinFuel, and       *)
(* checkTrace, which is checkWithinFuel with the announced step count as   *)
(* its budget).  It first checks the public boundary, then runs the        *)
(* program over the image for at most `budget' transitions.  Every read    *)
(* and every fetch goes through an untrusted list of hinted indices.       *)
(*                                                                         *)
(* The program, the public words, the image, the hints and the budget are  *)
(* the arguments of the call: they are chosen once, in Init.               *)
(***************************************************************************)
EXTENDS Execution

CONSTANTS
  Programs,            \* the programs a check may be called with
  Images,              \* the images
  PublicInputs,        \* the pairs of public words <<word0, word1>>
  HintLists,           \* the hint lists, sequences of naturals
  Budgets              \* the fuels

ASSUME ArgumentsAssumption ==
  /\ \A p \in Programs : IsProgram(p)
  /\ \A L \in Images : IsImage(L)
  /\ PublicInputs \subseteq E \X E
  /\ \A h \in HintLists : h \in Seq(Nat)
  /\ Budgets \subseteq Nat

VARIABLES
  prog, input, image, hints, budget,   \* the arguments
  status,    \* where the check stands, or its verdict
  r,         \* the registers
  fuel,      \* the transitions still allowed
  trail      \* the registers so far, r included (Trace.regs)

args == <<prog, input, image, hints, budget>>
vars == <<prog, input, image, hints, budget, status, r, fuel, trail>>

Errors   == {"publicBoundary", "invalidStep", "finalFrame", "fuelExhausted"}
Verdicts == Errors \cup {"ok"}

(* The number of transitions made: what runToHalt returns with "ok".       *)
steps == Len(trail) - 1

(***************************************************************************)
(* The address search of the carrier: the first hint that lies in the      *)
(* address space and names the address, else the scan, which finds the     *)
(* least index that names it.                                              *)
(***************************************************************************)
Least(S) == CHOOSE i \in S : \A j \in S : i <= j

NoIndex == -1

hintIndices(n, hs) == {j \in DOMAIN hs : hs[j] < n}

scan(n, a) ==
  IF HasIndex(n, a) THEN Least({i \in 0..n - 1 : gpow(i) = a}) ELSE NoIndex

(* Wrong: an in-range hint is trusted.                                     *)
addressIndexTrusting(n, hs, a) ==
  IF hintIndices(n, hs) # {} THEN hs[Least(hintIndices(n, hs))] ELSE scan(n, a)

addressIndex(n, hs, a) ==
  LET hits == {j \in hintIndices(n, hs) : gpow(hs[j]) = a}
  IN  IF hits # {} THEN hs[Least(hits)] ELSE scan(n, a)

readImage(L, hs, a) ==
  LET i == addressIndex(L.size, hs, a) IN IF i = NoIndex THEN NoWord ELSE L.cell[i]

fetchInstruction(p, hs, pc) ==
  LET i == addressIndex(p.size, hs, pc) IN IF i = NoIndex THEN NoInstr ELSE p.code[i]

carrier(L, hs) == [a \in K |-> readImage(L, hs, a)]

stepChecked(p, L, hs, regs) ==
  executeWith(carrier(L, hs), regs, fetchInstruction(p, hs, regs.pc))

checkBoundary(L, words) ==
  /\ L.size \in MinCells..MaxCells
  /\ readImage(L, <<>>, gpow(0)) = words[1]
  /\ readImage(L, <<>>, gpow(1)) = words[2]

-----------------------------------------------------------------------------

Init ==
  /\ prog \in Programs /\ input \in PublicInputs /\ image \in Images
  /\ hints \in HintLists /\ budget \in Budgets
  /\ status = "start"
  /\ r = InitialRegs
  /\ fuel = budget
  /\ trail = <<InitialRegs>>

Conclude(verdict) == status' = verdict /\ UNCHANGED <<args, r, fuel, trail>>

BoundaryHolds ==
  /\ status = "start"
  /\ checkBoundary(image, input)
  /\ Conclude("running")

BoundaryFails ==
  /\ status = "start"
  /\ ~checkBoundary(image, input)
  /\ Conclude("publicBoundary")

(* The halting test comes before the fuel test and before the fetch.       *)
Halt ==
  /\ status = "running" /\ r.pc = FinalPc(prog)
  /\ r.fp = One
  /\ Conclude("ok")

(* Wrong: only the final registers halt the machine.                       *)
HaltInFinalFrameOnly ==
  status = "running" /\ r = FinalRegs(prog) /\ r.fp # One /\ Conclude("finalFrame")

HaltInWrongFrame ==
  /\ status = "running" /\ r.pc = FinalPc(prog)
  /\ r.fp # One
  /\ Conclude("finalFrame")

(* Wrong: the fuel test comes before the halting test.                     *)
RunOutOfFuelFirst == status = "running" /\ fuel = 0 /\ Conclude("fuelExhausted")

RunOutOfFuel ==
  /\ status = "running" /\ r.pc # FinalPc(prog)
  /\ fuel = 0
  /\ Conclude("fuelExhausted")

StepFails ==
  /\ status = "running" /\ r.pc # FinalPc(prog)
  /\ fuel > 0
  /\ stepChecked(prog, image, hints, r) = NoRegs
  /\ Conclude("invalidStep")

(* Wrong: the sentinel is executed.                                        *)
AdvanceAnywhere ==
  /\ status = "running"
  /\ \E next \in {stepChecked(prog, image, hints, r)} :
       /\ next # NoRegs
       /\ r' = next
       /\ trail' = Append(trail, next)
  /\ UNCHANGED <<args, status>>

Advance ==
  /\ status = "running" /\ r.pc # FinalPc(prog)
  /\ \E next \in {stepChecked(prog, image, hints, r)} :
       /\ next # NoRegs
       /\ r' = next
       /\ trail' = Append(trail, next)
  /\ UNCHANGED <<args, status>>

(* Wrong: a step that does not look at the fuel.                           *)
StepOnNoFuel == fuel' = fuel - 1 /\ Advance

StepSucceeds == fuel > 0 /\ Advance /\ fuel' = fuel - 1

Next == \/ BoundaryHolds \/ BoundaryFails
        \/ Halt \/ HaltInWrongFrame
        \/ RunOutOfFuel \/ StepFails \/ StepSucceeds

(* The check is one recursive call: it runs until it returns.              *)
Spec == Init /\ [][Next]_vars /\ WF_vars(Next)

(* Wrong: checkTrace content with a run no longer than announced.          *)
checkTraceWithin == status = "ok"

(* checkTrace: the announced count must be the one found.                  *)
checkTraceAccepts == status = "ok" /\ steps = budget

-----------------------------------------------------------------------------
(* Every variable has its type; the arguments are among those offered.     *)
TypeOK ==
  /\ prog \in Programs /\ input \in PublicInputs /\ image \in Images
  /\ hints \in HintLists /\ budget \in Budgets
  /\ status \in {"start", "running"} \cup Verdicts
  /\ r \in Regs
  /\ fuel \in 0..budget
  /\ trail \in Seq(Regs)

(* What the checker accepts, whatever the hints, is a valid execution of   *)
(* the hint-free reference machine, no longer than the budget: the words   *)
(* of checkWithinFuel_eq_ok_iff from left to right.                        *)
AcceptedIsValid ==
  status = "ok" => /\ ValidExecution(prog, input, image, trail)
                   /\ steps <= budget

(* The other direction: when the checker returns, a valid execution within *)
(* the budget has been found, with its exact length, and one beyond the    *)
(* budget can only have exhausted the fuel.  So the three other errors say *)
(* that no valid execution of any length exists.  (Quantifies over all     *)
(* runs: proved in TraceCheckerProofs; VerdictIsExact of Export            *)
(* is its finite form.)                                                    *)
ValidIsAccepted ==
  status \in Verdicts =>
    \A rs \in Seq(Regs) :
      Len(rs) > 0 /\ ValidExecution(prog, input, image, rs) =>
        IF Len(rs) - 1 <= budget
        THEN status = "ok" /\ steps = Len(rs) - 1
        ELSE status = "fuelExhausted"

(* Every transition, whether or not the check ends in "ok", is one of the  *)
(* hint-free reference machine, which never leaves the sentinel.           *)
Reference == INSTANCE Machine WITH regs <- r

ImplementsMachine == Reference!Spec

(* The check returns: no loop of the program outlives the fuel.            *)
Terminates == <>(status \in Verdicts)

=============================================================================
