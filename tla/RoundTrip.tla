------------------------------ MODULE RoundTrip ------------------------------
(***************************************************************************)
(* There and back: the witness built from an execution is handed to the    *)
(* reader of traces.  The builder puts the rows of the run among those of  *)
(* the fill, sorts them into tables and forgets their order; the reader    *)
(* sees the tables only, and walks the states.  Between them,              *)
(* constraintCompleteness and traceOf_valid say that the run comes back.   *)
(***************************************************************************)
EXTENDS WitnessBuilder

VARIABLES
  witness,    \* what has been handed over
  phase,      \* "build", then the phases of the reader
  inserted, stateMap, fuel, walk   \* the reader's

readerVars == <<witness, phase, inserted, stateMap, fuel, walk>>

Reader == INSTANCE TraceReader WITH Arguments <- {}, prog <- job.prog, input <- job.input

RTInit ==
  /\ Init
  /\ witness = <<>> /\ phase = "build"
  /\ inserted = 0 /\ stateMap = [x \in {} |-> x] /\ fuel = 0
  /\ walk = <<InitialRegs>>

Build == Next /\ UNCHANGED readerVars

HandOver ==
  /\ phase = "build" /\ Finished
  /\ witness' = padWitness /\ phase' = "map"
  /\ UNCHANGED <<vars, inserted, stateMap, fuel, walk>>

Read == UNCHANGED vars /\ Reader!Next

RTNext == Build \/ HandOver \/ Read

(* One call after the other.                                               *)
RTSpec == RTInit /\ [][RTNext]_<<vars, readerVars>>

-----------------------------------------------------------------------------
(* What is handed over is something the reader may be called with: every   *)
(* row has the columns of its table, every cell and slot its finalize      *)
(* count.                                                                  *)
HandedOverIsArgument ==
  phase # "build" =>
    Reader!IsArgument([prog |-> job.prog, input |-> job.input, witness |-> witness])

(* The registers read back are those of the execution the witness was      *)
(* built from: the closed walks of the fill, which outnumber the run's     *)
(* rows, do not divert the walk.                                           *)
RunComesBack ==
  phase \in {"some", "none"} => phase = "some" /\ walk = job.regs

(* The walk is the reference machine over the committed image: no step of  *)
(* it needs a cell of the fill frames.                                     *)
WalksTheMachine ==
  INSTANCE Machine WITH prog <- job.prog, image <- job.image, regs <- walk[Len(walk)]

WalkImplementsMachine == WalksTheMachine!Spec

=============================================================================
