--------------------------- MODULE WitnessBuilder ---------------------------
(***************************************************************************)
(* Building a witness from a valid execution that fits: the skeletons of   *)
(* the run, then those of the fill cycle by cycle, then one row for each   *)
(* skeleton.  The numbers of the reads of a cell run across all the        *)
(* tables, so the rows are written in one sequence, through two families   *)
(* of counters, and only then sorted into tables.                          *)
(***************************************************************************)
EXTENDS Padding

CONSTANT Jobs   \* records [prog, input, image, regs, pcs, tau]: a program,
                \* its public words, a committed image, the registers of a
                \* run, the starts of the fill blocks, log2 of JUMP's height

VARIABLES
  job,      \* the execution the witness is built for
  cycle,    \* how many cycles of the fill have been dealt with
  skels,    \* the skeletons so far
  built,    \* the rows so far
  memReads, \* how often the rows read each cell
  bcReads   \* how often the rows read each slot

vars == <<job, cycle, skels, built, memReads, bcReads>>

Cycles   == Frames
tableOf(c) == fillTables[(c \div (LadderTop + 1)) + 1]
indexOf(c) == c % (LadderTop + 1)

runRows(j) == [t \in Tables |-> count(t, runSkels(j.prog, j.regs))]
padded(j)  == padImage(j.image, j.pcs)

IsJob(j) ==
  /\ IsProgram(j.prog) /\ j.prog.size < Ord /\ IsImage(j.image)
  /\ j.input \in E \X E
  /\ SentinelSafe(j.prog) /\ AreStarts(j.prog, j.pcs)
  /\ j.regs \in Seq(Regs) /\ j.regs # <<>>
  /\ ValidExecution(j.prog, j.input, j.image, j.regs)
  /\ 2 * j.image.size <= MaxCells
  /\ Fits(runRows(j), j.tau)

ASSUME JobAssumption == \A j \in Jobs : IsJob(j)

Init ==
  /\ job \in Jobs
  /\ cycle = 0
  /\ skels = runSkels(job.prog, job.regs)
  /\ built = <<>>
  /\ memReads = [a \in K |-> 0]
  /\ bcReads = [a \in K |-> 0]

(* A sequence n times over.                                                *)
Repeated(n, s) == [i \in 1..n * Len(s) |-> s[((i - 1) % Len(s)) + 1]]

(* The next cycle, as many times as the plan says.                         *)
Traverse ==
  /\ cycle < Cycles
  /\ LET t == tableOf(cycle)
         k == indexOf(cycle)
         n == planCount(runRows(job), job.tau, t)[k]
     IN  skels' = skels \o Repeated(n, cycleSkels(job.image.size, job.pcs, t, k))
  /\ cycle' = cycle + 1
  /\ UNCHANGED <<job, built, memReads, bcReads>>

Occurs(s, a, n) == Cardinality({i \in 1..n : s[i] = a})

(* Wrong: a cell read twice by one row gets the same number twice.         *)
readExpsByRow(counter, as) == [i \in DOMAIN as |-> counter[as[i]]]

(* The number of each read of a sequence: the reads of its cell before it. *)
readExps(counter, as) ==
  [i \in DOMAIN as |-> counter[as[i]] + Occurs(as, as[i], i - 1)]

(* The counters after a sequence of reads.                                 *)
readBump(counter, as) == [a \in K |-> counter[a] + Occurs(as, a, Len(as))]

skelRow(j, s, cnt, rbc) == rowOf(padded(j), s.regs, s.ins, cnt, rbc)
skelAddrs(j, s) ==
  readAddrs(skelRow(j, s, [i \in 1..Reads(s.ins.op) |-> One], One))

WriteRow ==
  /\ cycle = Cycles /\ Len(built) < Len(skels)
  /\ LET s  == skels[Len(built) + 1]
         as == skelAddrs(job, s)
         exps == readExps(memReads, as)
     IN  /\ built' = Append(built, skelRow(job, s, [i \in DOMAIN as |-> gpow(exps[i])],
                                           gpow(bcReads[s.regs.pc])))
         /\ memReads' = readBump(memReads, as)
         /\ bcReads'  = readBump(bcReads, <<s.regs.pc>>)
  /\ UNCHANGED <<job, cycle, skels>>

Next == Traverse \/ WriteRow

Spec == Init /\ [][Next]_vars

(* The rows table by table, in each table as they were written.            *)
NotAfter(i, j) ==
  \/ tableIdx(built[i].op) < tableIdx(built[j].op)
  \/ built[i].op = built[j].op /\ i <= j
place(j) == Cardinality({i \in DOMAIN built : NotAfter(i, j)})
sorted == [n \in DOMAIN built |-> built[CHOOSE j \in DOMAIN built : place(j) = n]]

(* Wrong: only the committed cells are finalized.                          *)
padWitnessCommitted ==
  [rows   |-> sorted,
   image  |-> padded(job),
   memFin |-> [i \in 0..job.image.size - 1 |-> gpow(memReads[gpow(i)])],
   bcFin  |-> [i \in 0..job.prog.size - 1 |-> gpow(bcReads[gpow(i)])]]

(* The six tables one after the other, and the two blocks, whose finalize  *)
(* counts are what the counters hold.                                      *)
padWitness ==
  [rows   |-> sorted,
   image  |-> padded(job),
   memFin |-> [i \in 0..2 * job.image.size - 1 |-> gpow(memReads[gpow(i)])],
   bcFin  |-> [i \in 0..job.prog.size - 1 |-> gpow(bcReads[gpow(i)])]]

Finished == cycle = Cycles /\ Len(built) = Len(skels)

-----------------------------------------------------------------------------
(* At every moment the reads of a cell carry exactly the counts g^0, g^1,  *)
(* ... up to its counter, each once, whichever rows and tables they are in *)
(* and however often one row reads the cell; the same for the slots.  This *)
(* is what makes the two lookups balance (chain_perm).                     *)
NumberedReads ==
  LET w == [rows |-> built]
      mem == {<<memRead(w, x).addr, memRead(w, x).count>> : x \in ReadPlaces(w)}
      bc  == {<<built[i].pc, built[i].rbc>> : i \in DOMAIN built}
      numbered(counter) == UNION {{<<a, gpow(e)>> : e \in 0..counter[a] - 1} : a \in K}
  IN  /\ mem = numbered(memReads) /\ Cardinality(mem) = Cardinality(ReadPlaces(w))
      /\ bc = numbered(bcReads) /\ Cardinality(bc) = Len(built)

(* The finished witness satisfies the constraint system                    *)
(* (constraintCompleteness).                                               *)
BuiltWitnessSatisfies == Finished => SatisfiedBy(job.prog, job.input, padWitness)

(* It represents the execution it was built for: the padded image extends  *)
(* the committed one, the run over it is the same and valid, and each of   *)
(* its steps is a row (PaddedFrom, padWitness_represents).  The rows of    *)
(* the fill are filler rows as the check of an export asks for them.       *)
TraceKept ==
  Finished =>
    /\ \A i \in 0..job.image.size - 1 : padWitness.image.cell[i] = job.image.cell[i]
    /\ ValidExecution(job.prog, job.input, padWitness.image, job.regs)
    /\ \A i \in 1..Len(job.regs) - 1 :
         \E n \in DOMAIN built : /\ pull(built[n]) = job.regs[i]
                                 /\ push(built[n]) = job.regs[i + 1]
    /\ LET run == Len(job.regs) - 1
       IN  FillerRowsValid(job.prog, padWitness.image,
                           [i \in 1..Len(skels) - run |-> skels[run + i].regs])

(* Writing the skeletons implements the counted fill, so that the tables   *)
(* end at the heights the caps ask for.                                    *)
CountedFill ==
  INSTANCE Filler WITH rows      <- runRows(job),
                       tau       <- job.tau,
                       heights   <- [t \in Tables |-> count(t, skels)],
                       RowCounts <- [Tables -> Nat]

FillsAsCounted == CountedFill!Spec /\ []CountedFill!FillIsExact

=============================================================================
