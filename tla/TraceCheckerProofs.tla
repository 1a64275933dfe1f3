------------------------- MODULE TraceCheckerProofs -------------------------
(***************************************************************************)
(* The checker decides validity, for every field, instruction argument,    *)
(* hint list and budget.  The inductive invariant follows the loop from    *)
(* both sides: the trail is a run of the reference machine, and every run  *)
(* of the reference machine agrees with the trail as far as both go.  Then *)
(* the same of the checks of exports, against the lengths of all runs.     *)
(***************************************************************************)
EXTENDS Export, TLAPS, WellFoundedInduction, FiniteSetTheorems

-----------------------------------------------------------------------------
(* A nonempty set of naturals has a least element, and Least finds it.     *)
LessThan == {ss \in Nat \X Nat : ss[1] < ss[2]}

LEMMA LeastProperty ==
  ASSUME NEW S \in SUBSET Nat, S # {}
  PROVE  Least(S) \in S /\ \A j \in S : Least(S) <= j
<1>1. OpToRel(<, Nat) = LessThan
  BY DEF OpToRel, LessThan
<1>2. IsWellFoundedOn(LessThan, Nat)
  BY ONLY <1>1, NatLessThanWellFounded
<1>3. \E i \in S : \A j \in S : <<j, i>> \notin LessThan
  BY <1>2, WFMin
<1>4. \A i, j \in Nat : j < i => <<j, i>> \in LessThan
  BY DEF LessThan
<1>5. \E i \in S : \A j \in S : i <= j
  <2>1. PICK i \in S : \A j \in S : <<j, i>> \notin LessThan
    BY <1>3
  <2>2. ASSUME NEW j \in S PROVE i <= j
    <3>1. i \in Nat /\ j \in Nat
      OBVIOUS
    <3>2. ~(j < i)
      BY <3>1, <2>1, <1>4
    <3> QED BY <3>1, <3>2
  <2> QED BY <2>2
<1> QED BY <1>5 DEF Least

(* Below its order the powers of g are distinct.                           *)
LEMMA GpowInjective ==
  ASSUME NEW i \in 0..Ord - 1 PROVE gpow(i) = i
BY OrdAssumption DEF gpow

(* The search of the carrier agrees with the bounded logarithm of the      *)
(* reference for every hint list (addressIndex_eq_gLog): a hint buys       *)
(* speed, never trust.                                                     *)
LEMMA AddressIndexAgrees ==
  ASSUME NEW n \in 1..Ord, NEW hs \in Seq(Nat), NEW a
  PROVE  addressIndex(n, hs, a) = IF HasIndex(n, a) THEN gLog(n, a) ELSE NoIndex
<1> DEFINE hits == {j \in hintIndices(n, hs) : gpow(hs[j]) = a}
<1>1. \A i \in 0..n - 1 : i \in 0..Ord - 1 /\ gpow(i) = i
  BY GpowInjective, OrdAssumption
<1>2. CASE hits # {}
  <2>1. hits \in SUBSET Nat
    BY DEF hintIndices
  <2>2. Least(hits) \in hits
    BY <2>1, <1>2, LeastProperty
  <2>3. hs[Least(hits)] \in 0..n - 1 /\ gpow(hs[Least(hits)]) = a
    BY <2>2 DEF hintIndices
  <2>4. HasIndex(n, a) /\ gLog(n, a) = hs[Least(hits)]
    BY <1>1, <2>3 DEF HasIndex, gLog
  <2>5. addressIndex(n, hs, a) = hs[Least(hits)]
    BY <1>2 DEF addressIndex
  <2> QED BY <2>4, <2>5
<1>3. CASE hits = {}
  <2>1. addressIndex(n, hs, a) = scan(n, a)
    BY <1>3 DEF addressIndex
  <2>2. ASSUME HasIndex(n, a) PROVE scan(n, a) = gLog(n, a)
    <3> DEFINE S == {i \in 0..n - 1 : gpow(i) = a}
    <3>1. S \in SUBSET Nat /\ S # {}
      BY <2>2 DEF HasIndex
    <3>2. Least(S) \in S
      BY <3>1, LeastProperty
    <3>3. gLog(n, a) \in S
      BY <2>2 DEF HasIndex, gLog
    <3>4. \A i, j \in S : i = j
      BY <1>1
    <3>5. scan(n, a) = Least(S)
      BY <2>2 DEF scan
    <3> QED BY <3>2, <3>3, <3>4, <3>5
  <2> QED BY <2>1, <2>2 DEF scan
<1> QED BY <1>2, <1>3

(* So the two readers are the same function, and the two steps the same    *)
(* step (readImage_eq_read, fetchInstruction_eq_fetch,                     *)
(* stepChecked_eq_step).                                                   *)
LEMMA ReadersAgree ==
  ASSUME NEW L, IsImage(L), L.size <= Ord, NEW hs \in Seq(Nat)
  PROVE  /\ \A a : readImage(L, hs, a) = read(L, a)
         /\ carrier(L, hs) = reader(L)
<1>1. L.size \in 1..Ord
  BY OrdAssumption DEF IsImage
<1>2. ASSUME NEW a PROVE readImage(L, hs, a) = read(L, a)
  <2>1. addressIndex(L.size, hs, a)
          = IF HasIndex(L.size, a) THEN gLog(L.size, a) ELSE NoIndex
    BY <1>1, AddressIndexAgrees
  <2>2. HasIndex(L.size, a) => gLog(L.size, a) \in 0..L.size - 1
    BY DEF HasIndex, gLog
  <2> QED BY <1>1, <2>1, <2>2 DEF readImage, read, NoIndex
<1> QED BY <1>2 DEF carrier, reader

LEMMA FetchesAgree ==
  ASSUME NEW p, IsProgram(p), NEW hs \in Seq(Nat), NEW pc
  PROVE  fetchInstruction(p, hs, pc) = fetch(p, pc)
<1>1. p.size \in 1..Ord
  BY DEF IsProgram
<1>2. addressIndex(p.size, hs, pc)
        = IF HasIndex(p.size, pc) THEN gLog(p.size, pc) ELSE NoIndex
  BY <1>1, AddressIndexAgrees
<1>3. HasIndex(p.size, pc) => gLog(p.size, pc) \in 0..p.size - 1
  BY DEF HasIndex, gLog
<1> QED BY <1>1, <1>2, <1>3 DEF fetchInstruction, fetch, NoIndex

LEMMA StepsAgree ==
  ASSUME NEW p, IsProgram(p), NEW L, IsImage(L), L.size <= Ord,
         NEW hs \in Seq(Nat), NEW regs
  PROVE  stepChecked(p, L, hs, regs) = step(p, L, regs)
BY ReadersAgree, FetchesAgree DEF stepChecked, step

(* The boundary the checker tests is the public boundary of the reference  *)
(* (checkBoundary_eq_true_iff).                                            *)
LEMMA BoundariesAgree ==
  ASSUME NEW L, IsImage(L), NEW words
  PROVE  /\ checkBoundary(L, words) <=> HasPublicBoundary(words, L)
         /\ HasPublicBoundary(words, L) => L.size <= Ord
<1>1. L.size \in MinCells..MaxCells => L.size <= Ord
  BY WindowAssumption, OrdAssumption
<1>2. <<>> \in Seq(Nat)
  OBVIOUS
<1> QED BY <1>1, <1>2, ReadersAgree DEF checkBoundary, HasPublicBoundary

-----------------------------------------------------------------------------
(* A step that does not fail gives registers.                              *)
LEMMA NextRegsType ==
  ASSUME NEW regs \in Regs PROVE NextRegs(regs) \in Regs
BY OrdAssumption DEF NextRegs, Regs, K, KMul, gpow, Zero

LEMMA ReadType ==
  ASSUME NEW L, IsImage(L), NEW a \in K
  PROVE  reader(L)[a] \in E \cup {NoWord}
<1>1. reader(L)[a] = read(L, a)
  BY DEF reader
<1>2. HasIndex(L.size, a) => gLog(L.size, a) \in 0..L.size - 1
  BY DEF HasIndex, gLog
<1> QED BY <1>1, <1>2 DEF read, IsImage

LEMMA StepType ==
  ASSUME NEW p, IsProgram(p), NEW L, IsImage(L), NEW regs \in Regs
  PROVE  step(p, L, regs) \in Regs \cup {NoRegs}
<1> DEFINE ins == fetch(p, regs.pc)
<1> DEFINE rd == reader(L)
<1> DEFINE w(j) == rd[KMul(regs.fp, ins.o[j])]
<1> SUFFICES ASSUME ins # NoInstr, Holds(rd, regs, ins)
             PROVE  After(rd, regs, ins) \in Regs
  BY DEF step, executeWith
<1>1. CASE ins.op = "jump" /\ Limb(w(1), 0) # Zero
  <2>1. ins \in Instr
    BY DEF fetch, IsProgram, HasIndex, gLog
  <2>2. ins.o \in Operands(3)
    BY <2>1, <1>1 DEF Instr
  <2>3. \A j \in 1..3 : w(j) # NoWord
    BY <1>1, <2>2 DEF Holds, Addresses, Operands
  <2>4. ASSUME NEW j \in 1..3 PROVE w(j) \in E
    <3>1. KMul(regs.fp, ins.o[j]) \in K
      BY <2>2, OrdAssumption DEF Operands, KMul, K, Zero, Regs
    <3> QED BY <3>1, <2>3, ReadType
  <2>5. Limb(w(2), 0) \in K /\ Limb(w(3), 0) \in K
    BY <2>4 DEF Limb, E
  <2> QED BY <1>1, <2>5 DEF After, Regs
<1>2. CASE ~(ins.op = "jump" /\ Limb(w(1), 0) # Zero)
  BY <1>2, NextRegsType DEF After
<1> QED BY <1>1, <1>2

-----------------------------------------------------------------------------
(***************************************************************************)
(* The inductive invariant.  Past the boundary the public boundary holds;  *)
(* the trail is a run of the reference machine that ends in the current    *)
(* registers and is as long as the fuel spent; a verdict was given for its *)
(* own reason.                                                             *)
(***************************************************************************)
TrailIsRun ==
  /\ Len(trail) = budget - fuel + 1
  /\ trail[Len(trail)] = r
  /\ IsRun(prog, image, trail)

VerdictHasReason ==
  /\ status \notin {"start", "publicBoundary"} => HasPublicBoundary(input, image)
  /\ status = "publicBoundary" => ~HasPublicBoundary(input, image)
  /\ status = "ok" => r = FinalRegs(prog)
  /\ status = "finalFrame" => r.pc = FinalPc(prog) /\ r.fp # One
  /\ status = "fuelExhausted" => r.pc # FinalPc(prog) /\ fuel = 0
  /\ status = "invalidStep" => r.pc # FinalPc(prog) /\ step(prog, image, r) = NoRegs

IInv == TypeOK /\ TrailIsRun /\ VerdictHasReason

(* The arguments are what the assumptions on the constants say.            *)
LEMMA ArgumentTypes ==
  ASSUME TypeOK
  PROVE  /\ IsProgram(prog) /\ IsImage(image)
         /\ hints \in Seq(Nat) /\ budget \in Nat
BY ArgumentsAssumption DEF TypeOK

LEMMA InitialRegsType == InitialRegs \in Regs
BY OrdAssumption DEF InitialRegs, Regs, K, One

LEMMA InitIInv == Init => IInv
<1> SUFFICES ASSUME Init PROVE IInv
  OBVIOUS
<1>1. TypeOK
  BY InitialRegsType, ArgumentsAssumption DEF Init, TypeOK
<1>2. TrailIsRun
  BY <1>1, ArgumentTypes DEF Init, TrailIsRun, IsRun
<1>3. VerdictHasReason
  BY DEF Init, VerdictHasReason
<1> QED BY <1>1, <1>2, <1>3 DEF IInv

(* An action that only concludes leaves the trail a run.                   *)
LEMMA ConcludeKeepsTrail ==
  ASSUME IInv, NEW v \in {"running"} \cup Verdicts, Conclude(v)
  PROVE  TypeOK' /\ TrailIsRun'
BY DEF IInv, Conclude, TypeOK, TrailIsRun, IsRun, args, Verdicts

LEMMA StepKeepsIInv ==
  ASSUME IInv, StepSucceeds PROVE IInv'
<1> USE DEF IInv
<1>1. PICK next \in {stepChecked(prog, image, hints, r)} :
        next # NoRegs /\ r' = next /\ trail' = Append(trail, next)
  BY DEF StepSucceeds, Advance
<1>2. /\ IsProgram(prog) /\ IsImage(image) /\ hints \in Seq(Nat)
      /\ budget \in Nat /\ r \in Regs
  BY ArgumentTypes DEF TypeOK
<1>3. HasPublicBoundary(input, image) /\ image.size <= Ord
  BY <1>2, BoundariesAgree DEF StepSucceeds, Advance, VerdictHasReason
<1>4. next = step(prog, image, r)
  BY <1>1, <1>2, <1>3, StepsAgree
<1>5. next \in Regs
  BY <1>1, <1>2, <1>4, StepType
<1>6. /\ UNCHANGED <<prog, input, image, hints, budget, status>>
      /\ fuel \in 1..budget /\ fuel' = fuel - 1
      /\ r.pc # FinalPc(prog) /\ status = "running"
  BY <1>2 DEF StepSucceeds, Advance, args, TypeOK
<1>7. trail \in Seq(Regs) /\ Len(trail) \in Nat \ {0}
  BY <1>2 DEF TypeOK, TrailIsRun
<1>8. /\ Len(trail') = Len(trail) + 1
      /\ \A i \in 1..Len(trail) : trail'[i] = trail[i]
      /\ trail'[Len(trail) + 1] = next
  BY <1>1, <1>5, <1>7
<1>9. TypeOK'
  BY <1>1, <1>2, <1>5, <1>6, <1>7 DEF TypeOK
<1>10. TrailIsRun'
  <2>1. Len(trail') = budget' - fuel' + 1 /\ trail'[Len(trail')] = r'
    BY <1>1, <1>2, <1>6, <1>7, <1>8 DEF TrailIsRun
  <2>2. trail'[1] = InitialRegs
    BY <1>7, <1>8 DEF TrailIsRun, IsRun
  <2>3. ASSUME NEW i \in 1..Len(trail') - 1
        PROVE  trail'[i].pc # FinalPc(prog) /\ step(prog, image, trail'[i]) = trail'[i + 1]
    <3>1. CASE i = Len(trail)
      BY <3>1, <1>4, <1>6, <1>7, <1>8 DEF TrailIsRun
    <3>2. CASE i \in 1..Len(trail) - 1
      BY <3>2, <1>7, <1>8 DEF TrailIsRun, IsRun
    <3> QED BY <3>1, <3>2, <1>7, <1>8
  <2> QED BY <2>1, <2>2, <2>3, <1>6 DEF TrailIsRun, IsRun
<1>11. VerdictHasReason'
  BY <1>3, <1>6 DEF VerdictHasReason, HasPublicBoundary
<1> QED BY <1>9, <1>10, <1>11

LEMMA NextIInv == IInv /\ [Next]_vars => IInv'
<1> SUFFICES ASSUME IInv, [Next]_vars PROVE IInv'
  OBVIOUS
<1>1. IsProgram(prog) /\ IsImage(image) /\ hints \in Seq(Nat) /\ budget \in Nat
  BY ArgumentTypes DEF IInv
<1>2. CASE UNCHANGED vars
  BY <1>2 DEF vars, IInv, TypeOK, TrailIsRun, IsRun, VerdictHasReason, HasPublicBoundary
<1>3. ASSUME NEW v \in {"running"} \cup Verdicts, Conclude(v), VerdictHasReason'
      PROVE  IInv'
  BY <1>3, ConcludeKeepsTrail DEF IInv
<1>4. CASE BoundaryHolds
  BY <1>1, <1>3, <1>4, BoundariesAgree
     DEF BoundaryHolds, Conclude, args, VerdictHasReason, HasPublicBoundary, Verdicts
<1>5. CASE BoundaryFails
  BY <1>1, <1>3, <1>5, BoundariesAgree
     DEF BoundaryFails, Conclude, args, VerdictHasReason, HasPublicBoundary, Verdicts, Errors
<1>6. CASE Halt
  <2>1. r = FinalRegs(prog)
    BY <1>6 DEF Halt, FinalRegs, IInv, TypeOK, Regs
  <2> QED BY <1>3, <1>6, <2>1
     DEF Halt, Conclude, args, IInv, VerdictHasReason, HasPublicBoundary, Verdicts
<1>7. CASE HaltInWrongFrame
  BY <1>3, <1>7 DEF HaltInWrongFrame, Conclude, args, IInv, VerdictHasReason,
                    HasPublicBoundary, Verdicts, Errors
<1>8. CASE RunOutOfFuel
  BY <1>3, <1>8 DEF RunOutOfFuel, Conclude, args, IInv, VerdictHasReason,
                    HasPublicBoundary, Verdicts, Errors
<1>9. CASE StepFails
  <2>1. step(prog, image, r) = NoRegs
    BY <1>1, <1>9, BoundariesAgree, StepsAgree DEF StepFails, IInv, VerdictHasReason
  <2> QED BY <1>3, <1>9, <2>1
     DEF StepFails, Conclude, args, IInv, VerdictHasReason, HasPublicBoundary, Verdicts, Errors
<1>10. CASE StepSucceeds
  BY <1>10, StepKeepsIInv
<1> QED BY <1>2, <1>4, <1>5, <1>6, <1>7, <1>8, <1>9, <1>10 DEF Next

(* IInv holds in every reachable state.                                     *)
THEOREM IInvAlways == Spec => []IInv
BY InitIInv, NextIInv, PTL DEF Spec

(* Type correctness.                                                       *)
THEOREM TypeCorrect == Spec => []TypeOK
<1>1. IInv => TypeOK
  BY DEF IInv
<1> QED BY <1>1, IInvAlways, PTL

(* Soundness: whatever the hints, what the checker accepts is a valid      *)
(* execution of the reference machine within the budget.                   *)
THEOREM CheckerSound == Spec => []AcceptedIsValid
<1>1. IInv => AcceptedIsValid
  <2> SUFFICES ASSUME IInv, status = "ok" 
               PROVE  ValidExecution(prog, input, image, trail) /\ steps <= budget
    BY DEF AcceptedIsValid
  <2>1. budget \in Nat /\ fuel \in 0..budget
    BY ArgumentTypes DEF IInv, TypeOK
  <2> QED BY <2>1 DEF IInv, TrailIsRun, VerdictHasReason, ValidExecution, steps
<1> QED BY <1>1, IInvAlways, PTL

(* Refinement: every step of the checker is a step of the reference        *)
(* machine over the same image, or leaves its registers alone.             *)
THEOREM CheckerImplementsMachine == Spec => ImplementsMachine
<1>1. Init => Reference!Init
  BY DEF Init, Reference!Init
<1>2. IInv /\ [Next]_vars => [Reference!Step]_<<prog, image, r>>
  <2> SUFFICES ASSUME IInv, [Next]_vars PROVE [Reference!Step]_<<prog, image, r>>
    OBVIOUS
  <2>1. CASE StepSucceeds
    <3>1. stepChecked(prog, image, hints, r) = step(prog, image, r)
      BY <2>1, ArgumentTypes, BoundariesAgree, StepsAgree
         DEF IInv, StepSucceeds, Advance, VerdictHasReason
    <3> QED BY <2>1, <3>1 DEF StepSucceeds, Advance, args, Reference!Step
  <2>2. CASE UNCHANGED <<prog, image, r>>
    BY <2>2
  <2> QED BY <2>1, <2>2 DEF Next, vars, args, Conclude, BoundaryHolds, BoundaryFails,
                             Halt, HaltInWrongFrame, RunOutOfFuel, StepFails
<1> QED BY <1>1, <1>2, IInvAlways, PTL DEF Spec, ImplementsMachine, Reference!Spec

-----------------------------------------------------------------------------
(* The other direction.  Any run of the reference machine goes through the *)
(* current registers if it is long enough, and is not yet at the sentinel  *)
(* if it is not: the machine is deterministic.                             *)
RunsAgree ==
  \A rs \in Seq(Regs) :
    Len(rs) > 0 /\ IsRun(prog, image, rs) =>
      IF Len(rs) >= Len(trail) THEN rs[Len(trail)] = r
                               ELSE rs[Len(rs)].pc # FinalPc(prog)

LEMMA InitRunsAgree == Init => RunsAgree
BY DEF Init, RunsAgree, IsRun

LEMMA StepKeepsRunsAgree ==
  ASSUME IInv, RunsAgree, StepSucceeds PROVE RunsAgree'
<1>1. /\ UNCHANGED <<prog, image>>
      /\ r.pc # FinalPc(prog)
      /\ r' = step(prog, image, r)
      /\ trail' = Append(trail, r')
  <2>1. HasPublicBoundary(input, image)
    BY DEF IInv, StepSucceeds, Advance, VerdictHasReason
  <2>2. stepChecked(prog, image, hints, r) = step(prog, image, r)
    BY <2>1, ArgumentTypes, BoundariesAgree, StepsAgree DEF IInv
  <2> QED BY <2>2 DEF StepSucceeds, Advance, args
<1>2. Len(trail) \in Nat \ {0} /\ Len(trail') = Len(trail) + 1
  <2>1. trail \in Seq(Regs) /\ budget \in Nat /\ fuel \in 0..budget
    BY ArgumentTypes DEF IInv, TypeOK
  <2> QED BY <1>1, <2>1 DEF IInv, TrailIsRun
<1>3. ASSUME NEW rs \in Seq(Regs), Len(rs) > 0, IsRun(prog, image, rs)
      PROVE  IF Len(rs) >= Len(trail) + 1 THEN rs[Len(trail) + 1] = r'
                                          ELSE rs[Len(rs)].pc # FinalPc(prog)
  <2>1. CASE Len(rs) >= Len(trail) + 1
    <3>1. rs[Len(trail)] = r
      BY <1>2, <1>3, <2>1 DEF RunsAgree
    <3>2. step(prog, image, rs[Len(trail)]) = rs[Len(trail) + 1]
      BY <1>2, <1>3, <2>1 DEF IsRun
    <3> QED BY <1>1, <2>1, <3>1, <3>2
  <2>2. CASE Len(rs) = Len(trail)
    BY <1>1, <1>2, <1>3, <2>2 DEF RunsAgree
  <2>3. CASE Len(rs) < Len(trail)
    BY <1>2, <1>3, <2>3 DEF RunsAgree
  <2> QED BY <1>2, <2>1, <2>2, <2>3
<1> QED BY <1>1, <1>2, <1>3 DEF RunsAgree, IsRun

LEMMA NextRunsAgree == IInv /\ RunsAgree /\ [Next]_vars => RunsAgree'
<1> SUFFICES ASSUME IInv, RunsAgree, [Next]_vars PROVE RunsAgree'
  OBVIOUS
<1>1. CASE StepSucceeds
  BY <1>1, StepKeepsRunsAgree
<1>2. CASE UNCHANGED <<prog, image, r, trail>>
  BY <1>2 DEF RunsAgree, IsRun
<1> QED BY <1>1, <1>2 DEF Next, vars, args, Conclude, BoundaryHolds, BoundaryFails,
                         Halt, HaltInWrongFrame, RunOutOfFuel, StepFails

(* A run that agrees with the trail and reaches the final registers within *)
(* the fuel is the trail, and one that does not can only have exhausted it. *)
LEMMA ValidsAreAccepted == IInv /\ RunsAgree => ValidIsAccepted
<1> SUFFICES ASSUME IInv, RunsAgree, status \in Verdicts,
                    NEW rs \in Seq(Regs), Len(rs) > 0,
                    ValidExecution(prog, input, image, rs)
             PROVE  IF Len(rs) - 1 <= budget
                    THEN status = "ok" /\ steps = Len(rs) - 1
                    ELSE status = "fuelExhausted"
  BY DEF ValidIsAccepted
<1>1. /\ budget \in Nat /\ fuel \in 0..budget /\ r \in Regs
      /\ Len(trail) = budget - fuel + 1
  BY ArgumentTypes DEF IInv, TypeOK, TrailIsRun
<1>2. IsRun(prog, image, rs) /\ rs[Len(rs)] = FinalRegs(prog)
  BY DEF ValidExecution
<1>3. Len(rs) >= Len(trail) /\ rs[Len(trail)] = r
  BY <1>1, <1>2 DEF RunsAgree, FinalRegs
<1>4. CASE Len(rs) = Len(trail)
  <2>1. r = FinalRegs(prog)
    BY <1>2, <1>3, <1>4
  <2>2. status = "ok"
    BY <2>1 DEF IInv, VerdictHasReason, ValidExecution, FinalRegs, Verdicts, Errors
  <2> QED BY <1>1, <1>4, <2>2 DEF steps
<1>5. CASE Len(rs) > Len(trail)
  <2>1. /\ r.pc # FinalPc(prog)
        /\ step(prog, image, r) = rs[Len(trail) + 1]
    BY <1>1, <1>2, <1>3, <1>5 DEF IsRun
  <2>2. step(prog, image, r) # NoRegs
    BY <1>1, <1>5, <2>1, NoRegsAssumption
  <2>3. status = "fuelExhausted" /\ fuel = 0
    BY <2>1, <2>2
       DEF IInv, VerdictHasReason, ValidExecution, FinalRegs, Verdicts, Errors
  <2> QED BY <1>1, <1>5, <2>3
<1> QED BY <1>1, <1>3, <1>4, <1>5

(* Any run agrees with the trail, in every state.                          *)
LEMMA RunsAlwaysAgree == Spec => []RunsAgree
<1>1. IInv /\ IInv' /\ RunsAgree /\ [Next]_vars => RunsAgree'
  BY NextRunsAgree
<1> QED BY <1>1, InitRunsAgree, IInvAlways, PTL DEF Spec

(* Completeness: a valid execution within the budget is found, whatever    *)
(* the hints, and every error but exhausted fuel excludes all of them.     *)
THEOREM CheckerComplete == Spec => []ValidIsAccepted
BY ValidsAreAccepted, RunsAlwaysAgree, IInvAlways, PTL

-----------------------------------------------------------------------------
(***************************************************************************)
(* The verdict against all lengths, and the exports.  The reference `run'  *)
(* is a recursion on the number of steps: it is unfolded into a sequence   *)
(* of registers, so that a length is valid exactly when some execution of  *)
(* that length is.                                                         *)
(***************************************************************************)

(* Induction: a set with 0 and with the successors of its naturals has     *)
(* them all.                                                               *)
LEMMA Induction ==
  ASSUME NEW S, 0 \in S, \A n \in Nat : n \in S => n + 1 \in S
  PROVE  \A n \in Nat : n \in S
<1> DEFINE C == Nat \ S
<1>1. SUFFICES ASSUME C # {}
              PROVE  FALSE
  OBVIOUS
<1>2. Least(C) \in C /\ \A j \in C : Least(C) <= j
  BY <1>1, LeastProperty
<1>3. PICK m \in C : \A j \in C : m <= j
  BY <1>2
<1>4. m - 1 \in Nat /\ m - 1 \notin C
  BY <1>3
<1> QED
  BY <1>3, <1>4

(* The registers of the reference, one by one.                             *)
Reaches(p, L, n, g) ==
  g = [k \in 0..n |-> IF k = 0 THEN InitialRegs ELSE onward(p, L, g[k - 1])]

(* They exist.                                                             *)
LEMMA ReachesExist ==
  ASSUME NEW p, NEW L, NEW n \in Nat
  PROVE  \E g : Reaches(p, L, n, g)
<1> DEFINE S == {k \in Nat : \E g : Reaches(p, L, k, g)}
<1>1. 0 \in S
  <2> DEFINE g == [k \in 0..0 |-> InitialRegs]
  <2>1. Reaches(p, L, 0, g)
    BY DEF Reaches
  <2> QED
    BY <2>1
<1>2. ASSUME NEW k \in Nat, k \in S PROVE k + 1 \in S
  <2>1. PICK g : Reaches(p, L, k, g)
    BY <1>2
  <2> DEFINE h == [j \in 0..(k + 1) |-> IF j = k + 1 THEN onward(p, L, g[k]) ELSE g[j]]
  <2>2. ASSUME NEW j \in 0..(k + 1)
        PROVE  h[j] = IF j = 0 THEN InitialRegs ELSE onward(p, L, h[j - 1])
    <3>1. CASE j = k + 1
      <4>1. h[j] = onward(p, L, g[k]) /\ j # 0 /\ j - 1 = k /\ k # k + 1 /\ k \in 0..(k + 1)
        BY <3>1
      <4>2. h[k] = g[k]
        BY <4>1
      <4> QED
        BY <4>1, <4>2
    <3>2. CASE j # k + 1 /\ j = 0
      BY <3>2, <2>1 DEF Reaches
    <3>3. CASE j # k + 1 /\ j # 0
      <4>1. j \in 0..k /\ h[j] = g[j] /\ j - 1 \in 0..(k + 1) /\ j - 1 # k + 1
        BY <3>3
      <4>2. h[j - 1] = g[j - 1]
        BY <4>1
      <4>3. g[j] = onward(p, L, g[j - 1])
        BY <3>3, <4>1, <2>1 DEF Reaches
      <4> QED
        BY <3>3, <4>1, <4>2, <4>3
    <3> QED
      BY <3>1, <3>2, <3>3
  <2>3. h = [j \in 0..(k + 1) |-> h[j]]
    OBVIOUS
  <2> HIDE DEF h
  <2>4. h = [j \in 0..(k + 1) |-> IF j = 0 THEN InitialRegs ELSE onward(p, L, h[j - 1])]
    BY <2>2, <2>3
  <2>5. Reaches(p, L, k + 1, h)
    BY <2>4 DEF Reaches
  <2> QED
    BY <2>5
<1> HIDE DEF S
<1>3. \A k \in Nat : k \in S
  BY <1>1, <1>2, Induction
<1> QED
  BY <1>3 DEF S

(* Two of them agree as far as both go.                                    *)
LEMMA ReachesAgree ==
  ASSUME NEW p, NEW L, NEW n \in Nat, NEW m \in Nat, m <= n,
         NEW g, NEW h, Reaches(p, L, n, g), Reaches(p, L, m, h)
  PROVE  g[m] = h[m]
<1> DEFINE S == {k \in Nat : k <= m => g[k] = h[k]}
<1>1. 0 \in S
  BY DEF Reaches
<1>2. ASSUME NEW k \in Nat, k \in S PROVE k + 1 \in S
  <2> SUFFICES ASSUME k + 1 <= m PROVE g[k + 1] = h[k + 1]
    OBVIOUS
  <2>1. k + 1 \in 0..n /\ k + 1 \in 0..m /\ k + 1 # 0 /\ (k + 1) - 1 = k /\ g[k] = h[k]
    BY <1>2
  <2>2. g[k + 1] = onward(p, L, g[(k + 1) - 1])
    BY <2>1 DEF Reaches
  <2>3. h[k + 1] = onward(p, L, h[(k + 1) - 1])
    BY <2>1 DEF Reaches
  <2> QED
    BY <2>1, <2>2, <2>3
<1> HIDE DEF S
<1>3. \A k \in Nat : k \in S
  BY <1>1, <1>2, Induction
<1> QED
  BY <1>3 DEF S

(* The reference after no step and after one step more.                    *)
LEMMA RunGrows ==
  ASSUME NEW p, NEW L
  PROVE  /\ run(p, L, 0) = InitialRegs
         /\ \A n \in Nat : run(p, L, n + 1) = onward(p, L, run(p, L, n))
<1> DEFINE G(n) == CHOOSE g : Reaches(p, L, n, g)
<1>1. \A n \in Nat : Reaches(p, L, n, G(n))
  BY ReachesExist
<1>2. \A n : run(p, L, n) = G(n)[n]
  BY DEF run, Reaches
<1> HIDE DEF G
<1>3. run(p, L, 0) = InitialRegs
  <2>1. Reaches(p, L, 0, G(0))
    BY <1>1
  <2>2. G(0)[0] = InitialRegs
    BY <2>1 DEF Reaches
  <2> QED
    BY <1>2, <2>2
<1>4. ASSUME NEW n \in Nat PROVE run(p, L, n + 1) = onward(p, L, run(p, L, n))
  <2>1. Reaches(p, L, n, G(n)) /\ Reaches(p, L, n + 1, G(n + 1))
    BY <1>1
  <2>2. G(n + 1)[n] = G(n)[n]
    BY <2>1, ReachesAgree
  <2>3. n + 1 \in 0..(n + 1) /\ n + 1 # 0 /\ (n + 1) - 1 = n
    OBVIOUS
  <2>4. G(n + 1)[n + 1] = onward(p, L, G(n + 1)[(n + 1) - 1])
    BY <2>1, <2>3 DEF Reaches
  <2> QED
    BY <1>2, <2>2, <2>3, <2>4
<1> QED
  BY <1>3, <1>4

(* It gives registers or fails.                                            *)
LEMMA RunType ==
  ASSUME NEW p, IsProgram(p), NEW L, IsImage(L)
  PROVE  \A n \in Nat : run(p, L, n) \in Regs \cup {NoRegs}
<1> DEFINE S == {n \in Nat : run(p, L, n) \in Regs \cup {NoRegs}}
<1>1. 0 \in S
  BY RunGrows, InitialRegsType
<1>2. ASSUME NEW n \in Nat, n \in S PROVE n + 1 \in S
  <2>1. run(p, L, n + 1) = onward(p, L, run(p, L, n))
    BY RunGrows
  <2>2. CASE run(p, L, n) = NoRegs
    BY <2>1, <2>2 DEF onward
  <2>3. CASE run(p, L, n) \in Regs
    <3>1. step(p, L, run(p, L, n)) \in Regs \cup {NoRegs}
      BY <2>3, StepType
    <3> QED
      BY <2>1, <3>1 DEF onward
  <2> QED
    BY <1>2, <2>2, <2>3
<1> HIDE DEF S
<1>3. \A n \in Nat : n \in S
  BY <1>1, <1>2, Induction
<1> QED
  BY <1>3 DEF S

(* A reference that has not failed has not failed before.                  *)
LEMMA RunBefore ==
  ASSUME NEW p, NEW L, NEW n \in Nat, run(p, L, n) # NoRegs, NEW k \in 0..n
  PROVE  run(p, L, k) # NoRegs
<1> DEFINE S == {j \in Nat : j <= n => run(p, L, n - j) # NoRegs}
<1>1. 0 \in S
  OBVIOUS
<1>2. ASSUME NEW j \in Nat, j \in S PROVE j + 1 \in S
  <2> SUFFICES ASSUME j + 1 <= n PROVE run(p, L, n - (j + 1)) # NoRegs
    OBVIOUS
  <2>1. n - (j + 1) \in Nat /\ (n - (j + 1)) + 1 = n - j /\ run(p, L, n - j) # NoRegs
    BY <1>2
  <2>2. run(p, L, (n - (j + 1)) + 1) = onward(p, L, run(p, L, n - (j + 1)))
    BY <2>1, RunGrows
  <2> QED
    BY <2>1, <2>2 DEF onward
<1> HIDE DEF S
<1>3. \A j \in Nat : j \in S
  BY <1>1, <1>2, Induction
<1>4. n - k \in Nat /\ n - k <= n /\ n - (n - k) = k
  OBVIOUS
<1>5. n - k \in S
  BY <1>3, <1>4
<1> QED
  BY <1>4, <1>5 DEF S

(* So it is a run of the machine, as long as it has steps.                 *)
LEMMA ReferenceIsRun ==
  ASSUME NEW p, IsProgram(p), NEW L, IsImage(L), NEW n \in Nat, run(p, L, n) # NoRegs
  PROVE  \E rs \in Seq(Regs) : /\ Len(rs) = n + 1
                               /\ IsRun(p, L, rs)
                               /\ rs[Len(rs)] = run(p, L, n)
<1> DEFINE at(k) == run(p, L, k)
<1> DEFINE rs == [i \in 1..(n + 1) |-> at(i - 1)]
<1>1. \A k \in 0..n : at(k) \in Regs
  BY RunBefore, RunType
<1>2. ASSUME NEW k \in Nat, k + 1 <= n
      PROVE  at(k).pc # FinalPc(p) /\ step(p, L, at(k)) = at(k + 1)
  <2>1. at(k + 1) = onward(p, L, at(k))
    BY RunGrows
  <2>2. at(k + 1) # NoRegs
    BY <1>2, RunBefore
  <2> QED
    BY <2>1, <2>2 DEF onward
<1>3. at(0) = InitialRegs
  BY RunGrows
<1> HIDE DEF at
<1>4. rs \in Seq(Regs) /\ Len(rs) = n + 1
  BY <1>1
<1>5. \A i \in 1..(n + 1) : rs[i] = at(i - 1)
  OBVIOUS
<1> HIDE DEF rs
<1>6. rs[1] = InitialRegs
  BY <1>3, <1>5
<1>7. ASSUME NEW i \in 1..Len(rs) - 1
      PROVE  rs[i].pc # FinalPc(p) /\ step(p, L, rs[i]) = rs[i + 1]
  <2>1. /\ i \in 1..(n + 1) /\ i + 1 \in 1..(n + 1)
        /\ i - 1 \in Nat /\ (i - 1) + 1 <= n /\ (i - 1) + 1 = (i + 1) - 1
    BY <1>4
  <2>2. rs[i] = at(i - 1) /\ rs[i + 1] = at((i + 1) - 1)
    BY <1>5, <2>1
  <2>3. at(i - 1).pc # FinalPc(p) /\ step(p, L, at(i - 1)) = at((i - 1) + 1)
    BY <1>2, <2>1
  <2> QED
    BY <2>1, <2>2, <2>3
<1>8. IsRun(p, L, rs)
  BY <1>6, <1>7 DEF IsRun
<1>9. rs[Len(rs)] = at(n)
  BY <1>4, <1>5
<1> QED
  BY <1>4, <1>8, <1>9 DEF at

(* And any run is the reference's, as far as it goes.                      *)
LEMMA RunIsReference ==
  ASSUME NEW p, NEW L, NEW rs \in Seq(Regs), Len(rs) > 0, IsRun(p, L, rs)
  PROVE  \A k \in Nat : k < Len(rs) => run(p, L, k) = rs[k + 1]
<1> DEFINE S == {k \in Nat : k < Len(rs) => run(p, L, k) = rs[k + 1]}
<1>1. 0 \in S
  BY RunGrows DEF IsRun
<1>2. ASSUME NEW k \in Nat, k \in S PROVE k + 1 \in S
  <2> SUFFICES ASSUME k + 1 < Len(rs) PROVE run(p, L, k + 1) = rs[(k + 1) + 1]
    OBVIOUS
  <2>1. k + 1 \in 1..Len(rs) - 1 /\ k + 1 \in 1..Len(rs) /\ run(p, L, k) = rs[k + 1]
    BY <1>2
  <2>2. rs[k + 1].pc # FinalPc(p) /\ step(p, L, rs[k + 1]) = rs[(k + 1) + 1]
    BY <2>1 DEF IsRun
  <2>3. rs[k + 1] # NoRegs
    BY <2>1, NoRegsAssumption
  <2>4. run(p, L, k + 1) = onward(p, L, run(p, L, k))
    BY RunGrows
  <2> QED
    BY <2>1, <2>2, <2>3, <2>4 DEF onward
<1> HIDE DEF S
<1>3. \A k \in Nat : k \in S
  BY <1>1, <1>2, Induction
<1> QED
  BY <1>3 DEF S

(* A length is valid exactly when an execution of that length is.          *)
LEMMA LengthIsExecution ==
  ASSUME NEW p, IsProgram(p), NEW L, IsImage(L), NEW words, NEW n \in Nat
  PROVE  HasPublicBoundary(words, L) /\ run(p, L, n) = FinalRegs(p)
           <=> \E rs \in Seq(Regs) : Len(rs) = n + 1 /\ ValidExecution(p, words, L, rs)
<1>1. ASSUME HasPublicBoundary(words, L), run(p, L, n) = FinalRegs(p)
      PROVE  \E rs \in Seq(Regs) : Len(rs) = n + 1 /\ ValidExecution(p, words, L, rs)
  <2>1. FinalRegs(p) \in Regs
    BY OrdAssumption DEF FinalRegs, FinalPc, Regs, K, One, IsProgram, gpow
  <2>2. run(p, L, n) # NoRegs
    BY <1>1, <2>1, NoRegsAssumption
  <2>3. PICK rs \in Seq(Regs) : /\ Len(rs) = n + 1
                                /\ IsRun(p, L, rs)
                                /\ rs[Len(rs)] = run(p, L, n)
    BY <2>2, ReferenceIsRun
  <2> QED
    BY <1>1, <2>3 DEF ValidExecution
<1>2. ASSUME NEW rs \in Seq(Regs), Len(rs) = n + 1, ValidExecution(p, words, L, rs)
      PROVE  HasPublicBoundary(words, L) /\ run(p, L, n) = FinalRegs(p)
  <2>1. IsRun(p, L, rs) /\ rs[n + 1] = FinalRegs(p) /\ HasPublicBoundary(words, L)
    BY <1>2 DEF ValidExecution
  <2>2. run(p, L, n) = rs[n + 1]
    BY <1>2, <2>1, RunIsReference
  <2> QED
    BY <2>1, <2>2
<1> QED
  BY <1>1, <1>2

(* With a length no longer than the longest tried, this is membership in   *)
(* ValidLengths.                                                           *)
LEMMA LengthIsValid ==
  ASSUME TypeOK, NEW n \in Nat
  PROVE  n \in ValidLengths
           <=> /\ n <= LongestRun
               /\ \E rs \in Seq(Regs) : Len(rs) = n + 1 /\ ValidExecution(prog, input, image, rs)
<1>1. IsProgram(prog) /\ IsImage(image)
  BY ArgumentTypes
<1>2. HasPublicBoundary(input, image) /\ run(prog, image, n) = FinalRegs(prog)
        <=> \E rs \in Seq(Regs) : Len(rs) = n + 1 /\ ValidExecution(prog, input, image, rs)
  BY <1>1, LengthIsExecution
<1>3. n \in 0..LongestRun <=> n <= LongestRun
  BY ExportsAssumption
<1> QED
  BY <1>2, <1>3 DEF ValidLengths

(* A valid length within the budget has been found, one beyond it can only *)
(* have exhausted the fuel.                                                *)
LEMMA ValidLengthIsFound ==
  ASSUME TypeOK, ValidIsAccepted, status \in Verdicts, NEW n \in ValidLengths
  PROVE  IF n <= budget THEN status = "ok" /\ steps = n ELSE status = "fuelExhausted"
<1>1. n \in Nat
  BY ExportsAssumption DEF ValidLengths
<1>2. PICK rs \in Seq(Regs) : Len(rs) = n + 1 /\ ValidExecution(prog, input, image, rs)
  BY <1>1, LengthIsValid
<1>3. Len(rs) > 0 /\ Len(rs) - 1 = n
  BY <1>1, <1>2
<1> QED
  BY <1>2, <1>3 DEF ValidIsAccepted

(* What has been found is a valid length.                                  *)
LEMMA FoundLengthIsValid ==
  ASSUME TypeOK, AcceptedIsValid, status = "ok", Len(trail) > 0
  PROVE  steps \in ValidLengths /\ steps <= budget
<1>1. /\ trail \in Seq(Regs) /\ budget \in Nat /\ budget <= LongestRun /\ LongestRun \in Nat
  BY ArgumentTypes, ExportsAssumption DEF TypeOK
<1>2. ValidExecution(prog, input, image, trail) /\ steps <= budget
  BY DEF AcceptedIsValid
<1>3. steps \in Nat /\ Len(trail) = steps + 1 /\ steps <= LongestRun
  BY <1>1, <1>2 DEF steps
<1> QED
  BY <1>1, <1>2, <1>3, LengthIsValid

-----------------------------------------------------------------------------
(* Two lists match, each value as many times, exactly when one is a        *)
(* permutation of the other.                                               *)
At(s, D, x) == {i \in D : s[i] = x}

AsMany(D, s, t) ==
  /\ \A i \in D : Cardinality(At(s, D, s[i])) = Cardinality(At(t, D, s[i]))
  /\ \A i \in D : Cardinality(At(s, D, t[i])) = Cardinality(At(t, D, t[i]))

(* From the permutation to the counts.                                     *)
LEMMA PermutedMatch ==
  ASSUME NEW D, IsFiniteSet(D), NEW s, NEW t, NEW next \in Bijection(D, D),
         \A i \in D : t[i] = s[next[i]], NEW x
  PROVE  Cardinality(At(s, D, x)) = Cardinality(At(t, D, x))
<1> DEFINE A == At(t, D, x)
           B == At(s, D, x)
           f == [i \in A |-> next[i]]
<1>1. next \in [D -> D] /\ (\A i, j \in D : next[i] = next[j] => i = j)
        /\ \A k \in D : \E i \in D : next[i] = k
  BY DEF Bijection, Injection, Surjection, IsInjective
<1>2. f \in [A -> B]
  BY <1>1 DEF At
<1>3. \A i, j \in A : f[i] = f[j] => i = j
  BY <1>1 DEF At
<1>4. \A k \in B : \E i \in A : f[i] = k
  BY <1>1 DEF At
<1>5. f \in Bijection(A, B)
  BY <1>2, <1>3, <1>4 DEF Bijection, Injection, Surjection, IsInjective
<1>6. A \in SUBSET D
  BY DEF At
<1> HIDE DEF A, B, f
<1>7. IsFiniteSet(A)
  BY <1>6, FS_Subset
<1>8. ExistsBijection(A, B)
  BY <1>5 DEF ExistsBijection
<1>9. Cardinality(B) = Cardinality(A)
  BY <1>7, <1>8, FS_Bijection
<1> QED
  BY <1>9 DEF A, B

(* From the counts to the permutation: a bijection for each value, put     *)
(* together.                                                               *)
LEMMA MatchPermuted ==
  ASSUME NEW D, IsFiniteSet(D), NEW s, NEW t, AsMany(D, s, t)
  PROVE  \E next \in Bijection(D, D) : \A i \in D : t[i] = s[next[i]]
<1> DEFINE b(x) == CHOOSE f \in Bijection(At(t, D, x), At(s, D, x)) : TRUE
           next == [i \in D |-> b(t[i])[i]]
<1>1. ASSUME NEW x, Cardinality(At(s, D, x)) = Cardinality(At(t, D, x))
      PROVE  b(x) \in Bijection(At(t, D, x), At(s, D, x))
  <2>1. At(s, D, x) \in SUBSET D /\ At(t, D, x) \in SUBSET D
    BY DEF At
  <2>2. IsFiniteSet(At(s, D, x)) /\ IsFiniteSet(At(t, D, x))
    BY <2>1, FS_Subset
  <2>3. ExistsBijection(At(t, D, x), At(s, D, x))
    BY <1>1, <2>2, FS_SameCardinalityBij
  <2> QED
    BY <2>3 DEF ExistsBijection
<1>2. ASSUME NEW x, Cardinality(At(s, D, x)) = Cardinality(At(t, D, x))
      PROVE  /\ \A i \in D : t[i] = x => b(x)[i] \in D /\ s[b(x)[i]] = x
             /\ \A i, j \in D : t[i] = x /\ t[j] = x /\ b(x)[i] = b(x)[j] => i = j
             /\ \A k \in D : s[k] = x => \E i \in D : t[i] = x /\ b(x)[i] = k
  <2>1. PICK f : f = b(x)
    OBVIOUS
  <2>2. f \in Bijection(At(t, D, x), At(s, D, x))
    BY <1>1, <1>2, <2>1
  <2>3. /\ \A i \in At(t, D, x) : f[i] \in At(s, D, x)
        /\ \A i, j \in At(t, D, x) : f[i] = f[j] => i = j
        /\ \A k \in At(s, D, x) : \E i \in At(t, D, x) : f[i] = k
    BY <2>2 DEF Bijection, Injection, Surjection, IsInjective
  <2>4. /\ \A i : i \in At(t, D, x) <=> i \in D /\ t[i] = x
        /\ \A i : i \in At(s, D, x) <=> i \in D /\ s[i] = x
    BY DEF At
  <2>5. /\ \A i \in D : t[i] = x => f[i] \in D /\ s[f[i]] = x
        /\ \A i, j \in D : t[i] = x /\ t[j] = x /\ f[i] = f[j] => i = j
        /\ \A k \in D : s[k] = x => \E i \in D : t[i] = x /\ f[i] = k
    BY <2>3, <2>4
  <2> QED
    BY <2>1, <2>5
<1> HIDE DEF b
<1>3. \A i \in D : next[i] = b(t[i])[i]
  OBVIOUS
<1>4. next = [i \in D |-> next[i]]
  OBVIOUS
<1> HIDE DEF next
<1>5. \A i \in D : next[i] \in D /\ s[next[i]] = t[i]
  BY <1>2, <1>3 DEF AsMany
<1>6. ASSUME NEW i \in D, NEW j \in D, next[i] = next[j] PROVE i = j
  <2>1. t[i] = t[j]
    BY <1>5, <1>6
  <2>2. b(t[i])[i] = b(t[i])[j]
    BY <1>3, <1>6, <2>1
  <2> QED
    BY <1>2, <2>1, <2>2 DEF AsMany
<1>7. ASSUME NEW k \in D PROVE \E i \in D : next[i] = k
  <2>1. PICK i \in D : t[i] = s[k] /\ b(s[k])[i] = k
    BY <1>2 DEF AsMany
  <2> QED
    BY <1>3, <2>1
<1>8. next \in [D -> D]
  BY <1>4, <1>5
<1>9. next \in Bijection(D, D)
  BY <1>6, <1>7, <1>8 DEF Bijection, Injection, Surjection, IsInjective
<1> QED
  BY <1>5, <1>9

(* Both, for lists.                                                        *)
LEMMA MatchIsPermutation ==
  ASSUME NEW D, IsFiniteSet(D), NEW s, NEW t, DOMAIN s = D, DOMAIN t = D
  PROVE  SuccessorsMatch(s, t)
           <=> \E next \in Bijection(D, D) : \A i \in D : t[i] = s[next[i]]
<1>1. \A x : Times(s, x) = Cardinality(At(s, D, x)) /\ Times(t, x) = Cardinality(At(t, D, x))
  BY DEF Times, At
<1>2. ASSUME SuccessorsMatch(s, t)
      PROVE  \E next \in Bijection(D, D) : \A i \in D : t[i] = s[next[i]]
  <2>1. /\ \A i \in D : Times(s, s[i]) = Times(t, s[i])
        /\ \A i \in D : Times(s, t[i]) = Times(t, t[i])
    BY <1>2 DEF SuccessorsMatch
  <2>2. \A i \in D : Cardinality(At(s, D, s[i])) = Cardinality(At(t, D, s[i]))
    BY <1>1, <2>1
  <2>3. \A i \in D : Cardinality(At(s, D, t[i])) = Cardinality(At(t, D, t[i]))
    BY <1>1, <2>1
  <2>4. AsMany(D, s, t)
    BY <2>2, <2>3 DEF AsMany
  <2> QED
    BY <2>4, MatchPermuted
<1>3. ASSUME NEW next \in Bijection(D, D), \A i \in D : t[i] = s[next[i]]
      PROVE  SuccessorsMatch(s, t)
  <2>1. \A x : Times(s, x) = Times(t, x)
    BY <1>1, <1>3, PermutedMatch
  <2> QED
    BY <2>1 DEF SuccessorsMatch
<1> QED
  BY <1>2, <1>3

(* So filler rows are accepted exactly when they close up.                 *)
LEMMA FillersClose ==
  ASSUME TypeOK, image.size <= Ord PROVE AcceptedFillersClose
<1> SUFFICES ASSUME NEW starts \in Starts(prog, input, budget)
             PROVE  checkFillerRows(starts) <=>
                      \E next \in Bijection(DOMAIN starts, DOMAIN starts) :
                        \A i \in DOMAIN starts :
                          /\ starts[i].pc # FinalPc(prog)
                          /\ step(prog, image, starts[i]) = starts[next[i]]
  BY DEF AcceptedFillersClose
<1> DEFINE D == DOMAIN starts
           t == [i \in D |-> step(prog, image, starts[i])]
<1>1. starts \in Seq(Regs)
  BY ExportsAssumption DEF TypeOK
<1>2. IsFiniteSet(D)
  <2>1. D = 1..Len(starts) /\ 1 \in Int /\ Len(starts) \in Int
    BY <1>1
  <2> HIDE DEF D
  <2> QED
    BY <2>1, FS_Interval
<1>3. \A i \in D : stepChecked(prog, image, hints, starts[i]) = step(prog, image, starts[i])
  BY ArgumentTypes, StepsAgree
<1>4. [i \in D |-> stepChecked(prog, image, hints, starts[i])] = t
  BY <1>3
<1>5. checkFillerRows(starts)
        <=> (\A i \in D : starts[i].pc # FinalPc(prog)) /\ SuccessorsMatch(starts, t)
  BY <1>4 DEF checkFillerRows
<1>6. D = DOMAIN starts /\ DOMAIN t = D
  OBVIOUS
<1>7. SuccessorsMatch(starts, t) <=> \E next \in Bijection(D, D) : \A i \in D : t[i] = starts[next[i]]
  <2> HIDE DEF t, D
  <2> QED
    BY <1>2, <1>6, MatchIsPermutation
<1>8. \A i \in D : t[i] = step(prog, image, starts[i])
  OBVIOUS
<1>9. ExistsBijection(D, D)
  <2> HIDE DEF D
  <2> QED
    BY <1>2, FS_SameCardinalityBij
<1> HIDE DEF t, D
<1>10. checkFillerRows(starts)
         <=> \E next \in Bijection(D, D) :
               \A i \in D : starts[i].pc # FinalPc(prog) /\ step(prog, image, starts[i]) = starts[next[i]]
  BY <1>5, <1>7, <1>8
<1> QED
  BY <1>10 DEF D

-----------------------------------------------------------------------------
(* The verdict is exact, against every length and for every list of filler *)
(* rows.                                                                   *)
THEOREM VerdictAlwaysExact == Spec => []VerdictIsExact
<1>1. IInv /\ ValidIsAccepted /\ AcceptedIsValid => VerdictIsExact
  <2> SUFFICES ASSUME IInv, ValidIsAccepted, AcceptedIsValid PROVE VerdictIsExact
    OBVIOUS
  <2>1. TypeOK /\ Len(trail) > 0 /\ budget \in Nat /\ steps \in Nat
    BY ArgumentTypes DEF IInv, TypeOK, TrailIsRun, steps
  <2>2. ValidLengths \subseteq Nat
    BY ExportsAssumption DEF ValidLengths
  <2>3. ASSUME status = "ok" PROVE ValidLengths = {steps}
    <3>1. steps \in ValidLengths
      BY <2>1, <2>3, FoundLengthIsValid
    <3>2. ASSUME NEW n \in ValidLengths PROVE n = steps
      BY <2>1, <2>3, ValidLengthIsFound DEF Verdicts
    <3> QED
      BY <3>1, <3>2
  <2>4. ASSUME status = "fuelExhausted", NEW n \in ValidLengths PROVE n > budget
    BY <2>1, <2>2, <2>4, ValidLengthIsFound DEF Verdicts, Errors
  <2>5. ASSUME status \in Errors \ {"fuelExhausted"} PROVE ValidLengths = {}
    BY <2>1, <2>5, ValidLengthIsFound DEF Verdicts, Errors
  <2>6. ASSUME image.size <= Ord PROVE AcceptedFillersClose
    BY <2>1, <2>6, FillersClose
  <2> QED
    BY <2>3, <2>4, <2>5, <2>6 DEF VerdictIsExact
<1> QED
  BY <1>1, IInvAlways, CheckerComplete, CheckerSound, PTL

(* An image is the words of its cells.                                     *)
LEMMA AdaptGivesImage ==
  ASSUME NEW L, IsImage(L), NEW m \in Seq(E)
  PROVE  [size |-> Len(m), cell |-> [i \in 0..Len(m) - 1 |-> m[i + 1]]] = L
           <=> m = [i \in 1..L.size |-> L.cell[i - 1]]
<1>1. L.size \in Nat \ {0} /\ L = [size |-> L.size, cell |-> L.cell] /\ L.cell \in [0..L.size - 1 -> E]
  BY DEF IsImage
<1>2. ASSUME [size |-> Len(m), cell |-> [i \in 0..Len(m) - 1 |-> m[i + 1]]] = L
      PROVE  m = [i \in 1..L.size |-> L.cell[i - 1]]
  <2>1. L.size = Len(m) /\ L.cell = [i \in 0..Len(m) - 1 |-> m[i + 1]]
    BY <1>2
  <2>2. \A i \in 1..L.size : i - 1 \in 0..Len(m) - 1 /\ (i - 1) + 1 = i
    BY <2>1
  <2>3. \A i \in 1..L.size : L.cell[i - 1] = m[i]
    BY <2>1, <2>2
  <2>4. m = [i \in 1..L.size |-> m[i]]
    BY <2>1
  <2> QED
    BY <2>3, <2>4
<1>3. ASSUME m = [i \in 1..L.size |-> L.cell[i - 1]]
      PROVE  [size |-> Len(m), cell |-> [i \in 0..Len(m) - 1 |-> m[i + 1]]] = L
  <2>1. Len(m) = L.size
    BY <1>1, <1>3
  <2>2. \A i \in 0..L.size - 1 : i + 1 \in 1..L.size /\ (i + 1) - 1 = i
    BY <1>1
  <2>3. \A i \in 0..L.size - 1 : m[i + 1] = L.cell[i]
    BY <1>3, <2>2
  <2>4. L.cell = [i \in 0..L.size - 1 |-> m[i + 1]]
    BY <1>1, <2>3
  <2> QED
    BY <1>1, <2>1, <2>4
<1> QED
  BY <1>2, <1>3

(* checkTrace and validateInput accept exactly what they should.           *)
THEOREM CountAlwaysExact == Spec => []AnnouncedCountIsExact
<1>1. IInv /\ ValidIsAccepted /\ VerdictIsExact => AnnouncedCountIsExact
  <2> SUFFICES ASSUME IInv, ValidIsAccepted, VerdictIsExact, status \in Verdicts
               PROVE  LET valid == budget \in ValidLengths
                      IN  /\ checkTraceAccepts <=> valid
                          /\ \A e \in Exports(image, budget) :
                               validateInput(e) <=>
                                 /\ valid
                                 /\ e.memory = [i \in 1..image.size |-> image.cell[i - 1]]
                                 /\ total(e.mainCounts) = budget
                                 /\ total(e.rowCounts) = e.cycles
                                 /\ \A i \in 1..6 : e.mainCounts[i] <= e.rowCounts[i]
    BY DEF AnnouncedCountIsExact
  <2>1. TypeOK /\ budget \in Nat /\ IsImage(image) /\ image \in Images /\ budget \in Budgets
    BY ArgumentTypes DEF IInv, TypeOK
  <2>2. checkTraceAccepts <=> budget \in ValidLengths
    <3>1. ASSUME checkTraceAccepts PROVE budget \in ValidLengths
      BY <3>1 DEF checkTraceAccepts, VerdictIsExact
    <3>2. ASSUME budget \in ValidLengths PROVE checkTraceAccepts
      BY <2>1, <3>2, ValidLengthIsFound DEF checkTraceAccepts
    <3> QED
      BY <3>1, <3>2
  <2>3. ASSUME NEW e \in Exports(image, budget), budget \in ValidLengths
        PROVE  IsChecked(e) <=>
                 /\ e.memory = [i \in 1..image.size |-> image.cell[i - 1]]
                 /\ total(e.mainCounts) = budget
                 /\ total(e.rowCounts) = e.cycles
                 /\ \A i \in 1..6 : e.mainCounts[i] <= e.rowCounts[i]
    <3> DEFINE n == Len(e.memory)
               L == [size |-> n, cell |-> [i \in 0..n - 1 |-> e.memory[i + 1]]]
               fits == n \in MinCells..MaxCells /\ (\E kappa \in 0..n : n = 2^kappa) /\ Accounted(e)
    <3>1. /\ e.memory \in Seq(E) /\ e.mainCounts \in [1..6 -> Nat]
      BY <2>1, <2>3, ExportsAssumption
    <3>2. Accounted(e) <=> /\ total(e.rowCounts) = e.cycles
                           /\ \A i \in 1..6 : e.mainCounts[i] <= e.rowCounts[i]
      BY <3>1 DEF Accounted
    <3>3. L = image <=> e.memory = [i \in 1..image.size |-> image.cell[i - 1]]
      BY <2>1, <3>1, AdaptGivesImage
    <3>4. NoTrace # [image |-> image, steps |-> budget]
      BY <2>1, ExportsAssumption
    <3>5. adapt(e) = IF fits THEN [image |-> L, steps |-> total(e.mainCounts)] ELSE NoTrace
      BY DEF adapt, mainSteps
    <3>6. HasPublicBoundary(input, image)
      BY <2>3 DEF ValidLengths
    <3>7. image.size \in MinCells..MaxCells /\ \E kappa \in 0..image.size : image.size = 2^kappa
      BY <2>1, <3>6, ExportsAssumption DEF HasPublicBoundary
    <3>8. L = image => n = image.size
      OBVIOUS
    <3> HIDE DEF L
    <3>9. L = image => n \in MinCells..MaxCells /\ \E kappa \in 0..n : n = 2^kappa
      BY <3>7, <3>8
    <3> HIDE DEF n
    <3>10. IsChecked(e) <=> fits /\ L = image /\ total(e.mainCounts) = budget
      <4> HIDE DEF fits
      <4> QED
        BY <3>4, <3>5 DEF IsChecked
    <3> QED
      BY <3>2, <3>3, <3>9, <3>10
  <2> QED
    BY <2>2, <2>3 DEF validateInput
<1> QED
  BY <1>1, IInvAlways, CheckerComplete, VerdictAlwaysExact, PTL

=============================================================================
