----------------------------- MODULE TraceReader -----------------------------
(***************************************************************************)
(* Reading the trace back from a witness (traceOf): the pulled and pushed  *)
(* states of the opcode rows are put in a map, and the map is walked from  *)
(* (1, 1) until the final registers, with the number of rows as fuel.  No  *)
(* instruction is executed and no memory is read.                          *)
(*                                                                         *)
(* The program, the public words and the witness are the arguments of the  *)
(* call, chosen in Init; the witness is whatever a prover has committed.   *)
(***************************************************************************)
EXTENDS ConstraintSystem

CONSTANT Arguments   \* the calls: records [prog, input, witness]

(* A program leaves g^size without a name: 2^32 slots at most in the code. *)
IsArgument(a) ==
  /\ IsProgram(a.prog) /\ a.prog.size < Ord
  /\ a.input \in E \X E
  /\ IsImage(a.witness.image)
  /\ a.witness.rows \in Seq({a.witness.rows[i] : i \in DOMAIN a.witness.rows})
  /\ \A i \in DOMAIN a.witness.rows : IsRow(a.witness.rows[i])
  /\ a.witness.memFin \in [0..a.witness.image.size - 1 -> K]
  /\ a.witness.bcFin \in [0..a.prog.size - 1 -> K]

ASSUME ReaderAssumption == \A a \in Arguments : IsArgument(a)

VARIABLES
  prog, input, witness,   \* the arguments
  phase,      \* "map", "walk", or the result: "some" or "none"
  inserted,   \* how many rows are in the map
  stateMap,   \* the map
  fuel,       \* the steps still allowed
  walk        \* the states walked so far; the code keeps only their number

vars == <<prog, input, witness, phase, inserted, stateMap, fuel, walk>>

rows  == witness.rows
r     == walk[Len(walk)]
final == FinalRegs(prog)

(* What traceOf returns with "some".                                       *)
traceSteps == Len(walk) - 1

Insert(m, k, v) == [x \in DOMAIN m \cup {k} |-> IF x = k THEN v ELSE m[x]]

Init ==
  /\ \E a \in Arguments :
       prog = a.prog /\ input = a.input /\ witness = a.witness
  /\ phase = "map"
  /\ inserted = 0
  /\ stateMap = [x \in {} |-> x]
  /\ fuel = 0
  /\ walk = <<InitialRegs>>

(* A later row of the same state replaces an earlier one.                  *)
InsertRow ==
  /\ phase = "map" /\ inserted < Len(rows)
  /\ LET row == rows[inserted + 1]
     IN  stateMap' = Insert(stateMap, pull(row), push(row))
  /\ inserted' = inserted + 1
  /\ UNCHANGED <<prog, input, witness, phase, fuel, walk>>

(* Wrong: one step too few, as if a walk of n states had n rows.           *)
StartWalkShort ==
  /\ phase = "map" /\ inserted = Len(rows)
  /\ phase' = "walk"
  /\ fuel' = IF rows = <<>> THEN 0 ELSE Len(rows) - 1
  /\ UNCHANGED <<prog, input, witness, inserted, stateMap, walk>>

StartWalk ==
  /\ phase = "map" /\ inserted = Len(rows)
  /\ phase' = "walk"
  /\ fuel' = Len(rows)
  /\ UNCHANGED <<prog, input, witness, inserted, stateMap, walk>>

Return(result) ==
  phase' = result /\ UNCHANGED <<prog, input, witness, inserted, stateMap, fuel, walk>>

(* The arrival is tested before the fuel.                                  *)
Arrive == phase = "walk" /\ r = final /\ Return("some")

GiveUp == phase = "walk" /\ r # final /\ fuel = 0 /\ Return("none")

MissingState ==
  phase = "walk" /\ r # final /\ fuel > 0 /\ r \notin DOMAIN stateMap /\ Return("none")

WalkStep ==
  /\ phase = "walk" /\ r # final /\ fuel > 0
  /\ r \in DOMAIN stateMap
  /\ walk' = Append(walk, stateMap[r])
  /\ fuel' = fuel - 1
  /\ UNCHANGED <<prog, input, witness, phase, inserted, stateMap>>

Next == InsertRow \/ StartWalk \/ Arrive \/ GiveUp \/ MissingState \/ WalkStep

Spec == Init /\ [][Next]_vars /\ WF_vars(Next)

-----------------------------------------------------------------------------
Satisfied == SatisfiedBy(prog, input, witness)

(* Both lookups are sound (mem_channel_sound, bytecode_channel_sound): in  *)
(* a satisfying witness every word a row claims is the image's at that     *)
(* address, and every instruction a row claims is the program's at its     *)
(* counter, although no row is compared with either.                       *)
LookupsSound ==
  phase = "map" /\ inserted = 0 /\ Satisfied =>
    /\ \A x \in ReadPlaces(witness) :
         LET m == memRead(witness, x) IN read(witness.image, m.addr) = m.val
    /\ \A i \in DOMAIN rows :
         HasIndex(prog.size, rows[i].pc)
           /\ rowEntry(rows[i]) = entry(prog.code[gLog(prog.size, rows[i].pc)])

RowIsStep(row) == step(prog, witness.image, pull(row)) = push(row)

(* Every row of a satisfying witness is a step of the program, whatever    *)
(* auxiliary columns the prover filled in (rowSteps_of_satisfiedBy), and   *)
(* if the sentinel is not a JUMP no row starts from it                     *)
(* (no_row_at_sentinel).                                                   *)
RowsAreSteps ==
  phase = "map" /\ inserted = 0 /\ Satisfied =>
    \A i \in DOMAIN rows :
      /\ RowIsStep(rows[i])
      /\ SentinelSafe(prog) => rows[i].pc # FinalPc(prog)

(* Some row goes from s to t (RowSteps).                                   *)
RowSteps(s, t) == \E i \in DOMAIN rows : pull(rows[i]) = s /\ push(rows[i]) = t

(* The trace read back from a satisfying witness of a program with a safe  *)
(* sentinel exists, is a valid execution, and each of its steps is a row   *)
(* of the witness (traceOf_valid): the rows off the run, closed walks of   *)
(* their own, neither divert the walk nor exhaust its fuel.                *)
WitnessYieldsTrace ==
  phase \in {"some", "none"} /\ Satisfied /\ SentinelSafe(prog) =>
    /\ phase = "some"
    /\ ValidExecution(prog, input, witness.image, walk)
    /\ \A k \in 1..traceSteps : RowSteps(walk[k], walk[k + 1])

=============================================================================
