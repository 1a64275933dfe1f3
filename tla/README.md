# leanerVM in TLA+

leanerVM is a verified zkVM in Lean 4: an instruction set of six opcodes over a
committed memory, a constraint system whose satisfying witnesses are its
executions, and the proof system that proves that constraint system. Lean proves
theorems about these definitions. This project restates the *programs* among them
as state machines, model-checks what they do on small instances, and proves the
central facts for every value of the constants with TLAPS. The repository's Python
and shell scripts, which audit the Lean sources, the prose, the imports and the
parameters, are modelled beside them: they are the only programs here that parse
free text, write files and call other programs.

## 1. Inventory

The repository has four layers of Lean (`LeanerVM/`), each using the ones before,
and tests, benches, scripts and docs around them. Nothing in it runs concurrently,
and only one script (`build_timing.py`) keeps a file that a kill can cut short. What
is hard is **ordering** (rows sorted out of the order
of the run, counters threaded through tables, chain steps that two parties must
take alike), **untrusted data** (hints, witness columns, proof streams), **limits**
(fuel, exponents that wrap around, heights), **state carried from line to line** by
hand-written scanners, and **long legal sequences** that must compose.

| Component | State | Operations | Hard behaviour | What makes it correct |
|---|---|---|---|---|
| Field and exponent addressing (`Parameters/Field`, `Generator`) | none | arithmetic of K and E, powers of g | powers repeat after 2^64 - 1 | an address names one cell within the caps |
| Instructions, memory, step (`Semantics/Instruction`, `Memory`, `Step`) | registers (pc, fp), an image that never changes | `read`, `fetch`, `executeWith`, `step` | reads and domain tests that do not affect the result but decide success | one set of six arms for every reader |
| Reference execution (`Semantics/Execution`, `RunTrace`, `Walk`) | registers | `run`, `ValidExecution` | the sentinel is never executed; a final counter in a wrong frame | defines validity |
| Execution checker (`Semantics/Executable`) | registers, fuel | `checkBoundary`, `runToHalt`, `checkWithinFuel`, `checkTrace` | untrusted hints, order of the halting and fuel tests, exact counts | the verdict is exactly the reference's |
| Export validation and filler check (`Semantics/TraceInput`, `FillerRows`) | none | `adapt`, `validateInput`, `checkFillerRows` | main versus total counts; failed filler steps | accepts what the checker accepts, of the adapted export |
| BLAKE2s (`Parameters/Blake2s`, `Semantics/Blake2s*`) | none | compression | fast and reference form | equal |
| Tables, channels, bus (`Arithmetization/Tables/*`, `Rows`, `Channels`, `Boundary`, `Bus`, `Messages`, `Bytecode`) | the witness | the messages a row sends; balance | counts that are 0 or wrap, columns the prover chooses | a balanced bus makes every lookup true |
| Constraint statement (`Arithmetization/Statement`, `Steps`, `Equivalence`) | none | `SatisfiedBy` | each conjunct is needed by some forged witness | every row is a step |
| Trace reader (`Arithmetization/Soundness`) | map of states, fuel, current state | `traceOf` | table order, duplicate states, walks beside the run, sentinel that jumps | a satisfying witness reads back as a valid execution |
| Fill plan (`Semantics/FillPlan`, `FillBlocks`) | counts | `fillGreedy`, `jumpOwed`, `jumpMix` | JUMP grows with every table's fill; a gap of one | every table ends at a power of two |
| Fill frames and padded trace (`Semantics/Fill*`, `Padded*`) | image, skeletons | `padImage`, `padSkels`, `runSkels` | frames above the image, copies of its words | the run is kept, the cycles close |
| Witness builder (`Arithmetization/Completeness/*`) | read counters, rows | `mkRows`, `padWitness` | counters across tables, repeated reads in a row | the witness satisfies, and represents the run |
| Fiat-Shamir chain (`Protocol/Transcript`) | chaining value | observe, squeeze, check a nonce, grind | nonce absorbed whatever the outcome; grinding gives up | prover and verifier stay in step |
| Proof stream (`Protocol/Proof`, `*Slots`, `LeanVmReader`) | chain, unread scalars and openings; what was written | `nextScalar`, `nextRoot`, `nextRoundPoly`, `checkPow`, `nextOpening`, `finish`, and the writer's mirror | too little or too much data, failures after a state change | what the writer wrote reads back |
| Merkle (`Protocol/Merkle*`) | tree levels | commit, open, verify | duplicate and unsorted queries, leftover siblings | openings are the committed rows |
| Verifier and prover (`Protocol/Verify*`, `Prove*`) | the reader's, the writer's | six phases: commit, bus, table, public input, Flock, opening | order of reads, openings, algebra | read-back of an honest proof |
| Phase algebra, WHIR (`Protocol/Bus`, `TableSumcheck`, `Flock*`, `Whir/*`, ...) | none | polynomial identities | none a model checker reaches | probabilistic soundness |
| WHIR parameters (`Parameters/Whir`) | none | `shape`, `residualLog`, `blockLogs` | two derivations of one ladder | the budget is computed on the verifier's levels |
| Random-oracle game, extractor (`Protocol/RandomOracle*`, `Core`, `Headline`, ...) | query log | log, replay, extract | flips and collisions of a log | consistent log and accepting replay give a witness |
| Composition, upstream extensions | none | proofs only | none | - |
| Option audit (`scripts/check-lean-options.py`) | offset, failures | find a command, skip separators, read a name | nested and unterminated comments, names over commands | an accepted text sets no protected option |
| Build timing (`scripts/build_timing.py`) | results file, logs | `run`, `render` | kills, cut writes, commands that do not start, lines that raise between rows | files tell the runs that returned, a report the file |
| Writing check (`scripts/check-writing.py`) | index and line; seven flags of the Markdown splitter; the text being masked; git's output | `lean_blocks`, `markdown_blocks`, `check_block`, `added_lines`, `changed_blocks`, `main` | literals that hide comments, flags left behind, offsets, renames, sources that are no text | shown prose that changed is reported, at its place, and nothing else |
| WHIR budget (`scripts/whir-mca-budget.py`) | levels, candidates, slack, threshold, certificate | `derive_ladder_shape`, `derive_config`, `exact_level`, `weighted_best` | greedy choices, rounded roots and quotients, early stops | each certified number is the least that meets its condition |
| Repository gates (`scripts/check-layers.sh`, `check-imports.sh`, `audit-lean.sh`) | a source tree | the verdict of each gate | rules per file, promises about chains of files | layering and coverage hold transitively |
| Tests of the gates (`scripts/test-policy-checks.py`) | a fixture tree | the suites' controls | a file left behind; a control another rule rejects too | each piece missing from a gate is told, or known not to be |
| Other scripts and tests (`check-docs.py`, dumps, `test-*.py`) | none | one pass, or a list of cases | none a model checker reaches | - |

Interactions. The checker and the reference share `executeWith` and differ in the
reader they pass to it. The witness builder takes a valid execution, calls the fill
plan, lays the fill frames above the image and writes rows; the constraint
statement judges the tables; the trace reader turns a satisfying witness back into
a trace. The protocol proves the statement: its prover commits to the witness and
writes a stream through the chain, its verifier reads the stream through its own
copy of the chain. The scripts are called by CI on a tree: `audit-lean.sh` calls the
option audit, the writing check calls git, and the tests of the gates plant trees and
call the gates.

The hazards, each at its line, are in `PROJECT.json`.

## 2. Plan

Written in this order.

1. **Machine and checker**: `BinaryField`, `LeanIsa`, `Execution`, `Machine`,
   `TraceChecker`, with `TraceCheckerProofs`. Abstract specification: `Machine`.
2. **Constraint system and trace reader**: `ConstraintSystem`, `TraceReader`, with `ConstraintProofs` and `TraceReaderProofs`.
3. **Fill and witness builder**: `FillPlan`, `Filler`, `Padding`,
   `WitnessBuilder`, composed with the trace reader in `RoundTrip`, with
   `FillerProofs` and `WitnessBuilderProofs`, which is about both. Abstract
   specifications: `Filler` for the rows' heights, `Machine` for the walk.
4. **Export**: `Export` on top of the checker.
5. **Chain, proof stream, verifier's walk and prover**: `ProofStream`, a writer and a
   reader along one schedule over a free hash, with a proof tampered with between
   them, with `ProofStreamProofs`. Abstract reference: a verifier that checks each
   phase as it reads it.
6. **Merkle openings**: `MerkleOpening`, prover and verifier in one, with `MerkleProofs`.
7. **Scripts**: `OptionScan`, `LeanComments`, `MarkdownBlocks`, `Sentences`,
   `ChangedProse`, `BuildTiming` with `BuildTimingProofs`, `WhirLadder`, `EtaSearch`, `ExactLevel`,
   `RepositoryGates` with its two uses `ImportGates` and `PolicyTests`.

Left: **log and replay** (the history of the chain read off a log of queries), which
would compose with `ProofStream`; the round polynomials of the proof stream.

Theorems worth proving, in order: the checker (done: type, soundness, completeness,
refinement) and the exactness of its verdicts on exports (done: `VerdictAlwaysExact`,
`CountAlwaysExact`); the timer's files (done: `FilesTell`, `ReportTell`); the reader of traces
(done: Lemma 6.3 with `ReadsAreSound`, `RowsAreTheSteps`, `TraceIsRead`); the proof
stream (done: `ReaderFollows`, `AcceptedIsBound`, `GrindsAreLeast`, `AskedAsCharged`,
`StagesAccept`); the Merkle openings (done: `OpeningIsAccepted`, `OpeningIsBound`, `OpeningIsHashedOnce`); the fill
(done: `NeverTooHigh`, `FillEndsExact`) and its refinement by the builder (done:
`FillIsCounted`); the builder (done: `constraintCompleteness` with
`ReadsAlwaysNumbered`, `TraceAlwaysKept`, `BuiltAlwaysSatisfies`, and from the caps alone
`CapsGiveNumbering`, `CapsGiveSatisfaction`) and its composition with
the reader (done: `RunAlwaysComesBack`, `WalkRefinesMachine`).

## 3. Modules and how they correspond to the code

* `BinaryField`: K as discrete logarithms `0..Ord-1` and a zero, so that
  multiplication is addition modulo `Ord` and `gpow` is the identity below it. The
  addition needs the constant `Zech` (`Zech[i]` is the logarithm of `1 + g^i`).
  E is three limbs with y^3 = y + 1. The MC modules hold Zech tables for GF(16) and
  GF(512); GF(512), because 510 nonzero powers are enough for the fill frames.
* `LeanIsa`: `Instr`, programs and images with a size, `read`, `fetch`, the six
  arms (`Holds` is the guards of `executeWith`, `After` the registers returned),
  `step`. The BLAKE2S compression is a constant function. A size need not be a
  power of two here; that is more general than the code.
* `Execution`: `HasPublicBoundary`, `run` as a relation on the list of registers,
  `ValidExecution`; when filler rows are accepted beside it (`FillerRowsValid`).
* `Machine`: the same run as a specification. The step is a constant operator, so
  an instance shares `LeanIsa`'s.
* `TraceChecker`: one action per branch of `runToHalt` and of the boundary test.
  State: `status` (where the call stands, or its verdict), `r`, `fuel`, and
  `trail`, the registers so far, which the code does not keep: it returns their
  number. The arguments are variables chosen in `Init` and never changed.
* `ConstraintSystem`: a row is its registers, operands, claimed words, auxiliary
  columns and counts; `pull`, `push`, `rowEntry`, `readAddrs`, `readWords` are what
  it sends; the conjuncts of `SatisfiedBy` keep their names. Balance is equality of
  multisets. A witness's rows are one sequence; only the builder sorts them. `rowOf`
  is the row the builder writes.
* `TraceReader`: `InsertRow` is one step of the fold of `stateMap`, `StartWalk` the
  start of `walkSteps` and the other actions its branches. The witness is an
  argument: the model does not say where it comes from.
* `FillPlan`, `Filler`: the counts of the plan, and the fill as a sequence of
  cycles that raise the heights of the tables.
* `Padding`: the fill blocks, the frames, `padImage`, `runSkels`, `cycleSkels`.
* `WitnessBuilder`: `Traverse` appends one cycle's skeletons as many times as the
  plan says, `WriteRow` is one step of `mkRows` with its two families of counters,
  `padWitness` sorts the rows by table (`place` is where a row comes to stand, the
  tables in their order and each as it was written) and finalizes.
* `RoundTrip`: the builder, then `HandOver`, then the reader over the builder's
  witness (`INSTANCE TraceReader WITH prog <- job.prog, ...`).
* `Export`: an export adapted to the arguments of a check, its validation, and the
  filler check with the checker's own steps. It adds no state: these are functions of
  a finished check. It also holds the reference `run` and the two properties that
  compare verdicts with it; the exports and filler rows tried are constants.
* `ProofStream`: `Send*`, `Squeeze`, `Grind`, `GrindFails` are the writer's calls,
  `HintOpenings` ends the proof, `Deliver` hands it over as written or with a scalar
  or an opening changed, dropped, added or moved; the verifier's actions follow
  (`StartWalk`, `Read*`, `Sample`, `CheckPow`, `ReadOpening`, `Finish`). The chaining
  value is the sequence of blocks absorbed, so two are equal exactly when the
  histories are. `asked` is the list of hashes a party has asked for.
* `MerkleOpening`: a digest is the term hashed. `BuildLevel` is a turn of
  `buildLevels`; `StoreRows` and `StoreSiblings`, one level at a time, are `merkleOpen`,
  and `trail` notes where its climb was. `HandOver` gives the verifier this opening or one
  that `Tampered` made of it. `RejectCount`, `RejectWidth`, `RejectPosition` and
  `StartWalk` are the part of `merkleVerifyWith` before the fold, in its order, `Walk` and
  `RunOut` one level of the fold, `Accept` and `RejectRoot` its end. The code's lists of
  ascending positions are sets here, and a list of rows or siblings that goes with one is
  read by rank (`Rank`): what the code reads next is what has the next rank.
* `OptionScan`: `CheckCommand` is one turn of `check`, `NextFile` and `Finish` those of
  `main`.
* `LeanComments`: one action per branch of the loop of `lean_blocks`; a character is a
  character. `MarkdownBlocks`: one action per branch of the loop over rows, on tokens.
  `Sentences`: `Collapse`, then `JudgePart` and `JudgeWords` for the parts of a block.
  `ChangedProse`: the command around them, with git's answers as an external.
* `BuildTiming`: a line printed (`Echo`), the end of the command (`Wait`), the append
  (`RecordRun`, or `CutRecord` when it is cut short) and the summary with the return
  (`Return`) are steps of their own, and `Stop` is a kill or an exception between any two
  of them. Of `render`, `StartRender` is `read_records` up to the header, `PrintRow` one
  turn of the loop, `RaiseAtRow` a conversion or a `print` that raises in it. The file
  is the sequence of writes it was made by, which may share a line. A line is what
  decides its fate: no JSON, JSON short of fields, JSON that cannot be asked for fields
  (a number, `null`), one whose numbers do not convert, a record. Invocations follow one
  another, as the steps of `build-timing.yml` do, and no log is the results file. A
  status of 1 stands for any but 0 and the command's.
* `WhirLadder`, `EtaSearch`, `ExactLevel`: the loops of the budget script, one action
  per turn and outcome. In `ExactLevel` a double has `PRECISION` bits, and every root
  and quotient that the script rounds is rounded to the nearest double, ties to even
  (`fl`, `RootOfRho`); the exact fractions of the script are exact.
* `RepositoryGates`: each gate as a function from a tree, and the `Book` of the pieces
  the gates are made of, to its diagnostics: a piece is an alternative of a pattern
  (a forbidden layer, a word around `import` or its absence, a module itself or those
  below it, a name of the allow-list, a trust-sensitive word, a protected option, a path
  of the audit) or a check. `ImportGates` edits a tree, `PolicyTests` runs the
  suites on gates with one piece missing. The gates read files line by line, and a line
  of the model is an import of Lean's: that an import line inside a block comment
  satisfies `has_import`, or that a second import on one line escapes `check-layers.sh`,
  is outside the model.
* The `MC` modules give the constants their values for TLC. `MCWritingCheck`,
  `MCLeanLexers`, `MCWhirBudget` and `MCRepositoryGates` hold several modules that
  share a script or a purpose but no state: a first variable says which of them a
  behaviour is of, and the variables of the others rest.

Definitions whose comment begins with "Wrong:" are plausible mistakes in the
definition that follows them. No specification uses them; replacing the definition
by its mistake must make TLC find the property paired with it in `PROJECT.json`
violated, which shows that the property says something about the code.

## 4. What the runs check

| Run | Properties | Instance |
|---|---|---|
| `checker` | `AcceptedIsValid`, `VerdictIsExact`, `AnnouncedCountIsExact`, `ImplementsMachine`, `TypeOK` | GF(16); 11 programs, all images of 4 cells built from 3 public inputs and 7 words, good, bad and out-of-range hints, budgets 0, 1, 3; exports and filler rows of each |
| `checker_terminates` | `Terminates` | the programs that can loop, on images where they loop, halt, or halt in a wrong frame |
| `trace_reader` | `LookupsSound`, `RowsAreSteps`, `WitnessYieldsTrace` | GF(16); every sequence of up to 6 rows of six scenarios of honest and forged rows |
| `filler` | `NeverAboveHeight`, `FillIsExact` | the ladder 128..1 and the floor 8 of the code, heights to 2^9, row counts around powers of two |
| `round_trip` | `NumberedReads`, `BuiltWitnessSatisfies`, `TraceKept`, `HandedOverIsArgument`, `RunComesBack`, `FillsAsCounted`, `WalkImplementsMachine` | GF(512); eight programs and every JUMP height that fits; three programs stuck at a test that does not affect the result |
| `proof_stream` | `ReaderFollowsWriter`, `ChainBindsProof`, `StagesAcceptAsItGoes`, `AskedIsCharged` | schedules of six and ten operations, one or two openings, a grind of two tries, every function that says which nonces clear, one change to the proof |
| `merkle_opening` | `HonestIsAccepted`, `AcceptedIsTheOpening`, `HashedOnce` | trees of 1, 2, 4 and 8 leaves, up to 4 queries in any order, with repetitions and past the tree; one row or sibling of the opening changed (to any row or any digest there is), dropped or added, or the siblings reversed |
| `whir_budget` | `LevelsAreTheVerifiers`, `GreedIsLeast`, `SlackAndThresholdAreLeast`, `CertificateIsLeast` | the script's own constants for the ladder, all 56 pairs of size and rate; ladders of two and three levels; codes of up to 64 positions, m to 7, doubles of 8 bits |
| `writing_check` | `ReportIsTheChange`, `ExemptStaysOut`, `ShownProseIsReported`, `EveryWordInOneSentence` | changes of up to two entries; files of up to four rows; texts of up to six pieces |
| `lean_lexers` | `ProseIsTheComments`, `ReportsWhatLeanSees` | texts of up to five pieces of comment marks, quotes, escapes, newlines and names; calls with two files |
| `repository_gates` | `LayersHoldAlongChains`, `RootsReachEverything`, `SuitesTestTheGates` | up to four edits of the fixture, three new modules, seven importable ones, public and meta imports, a module added before what imports it; the gates with each of their 66 pieces missing, and with none |
| `build_timing` | `FilesTellRuns`, `ReportTellsRuns` | two runs among three calls, one with a label and one with a command that cannot be printed, two logs, three exit codes; any stop or cut, and a report after any of it; seven initial files |

`HandedOverIsArgument` is the type invariant of `RoundTrip`'s second half.

What they show. The checker decides validity whatever the hints: no budget,
announced count or hint list makes it accept an invalid run, miss a valid one, or
blame a step for what was only exhausted fuel. A witness that satisfies the
constraints cannot read a wrong word or instruction and its rows are steps,
provided counts are nonzero and reads are fewer than the powers of g: the run
includes the forged witnesses that balance when one of the two is dropped. The walk
finds the run among closed walks beside it, and the premise that the sentinel is no
JUMP is needed. Every execution that fits gets a satisfying witness, and that
witness reads back to the same registers; its fill is one that the check of an export
accepts, and that check accepts exactly the filler rows that close up into walks away
from the sentinel.

Prover and verifier keep one chain whatever the grinds do, and a verifier that ends
at the prover's chain was given the prover's proof, to the last scalar and opening;
reading everything before the openings and the algebra accepts the same proofs as
checking each phase as it is read. A Merkle opening is accepted only when it is the
prover's, which gives the committed rows in the order asked for; the prover's is always
accepted, and no node of the walk is hashed twice.

The scanners of the scripts agree with independent readings of the same texts: the
comments of a Lean file, Lean's own reading of its options, a reader's idea of what
is prose in Markdown. The budget's threshold, certificate and queries are the least that
meet their conditions. The slack is not always the least double whose parameter is at
most m: the quotient of the double below it can round down to m as well, and in the
instance it does for two of 45 codes and m. What holds there is that the assertion
behind the loop never fails, that the slack is at most one double above the least, and
that its exact parameter (`m_exact`, from the root itself) is m or m + 1. This is checked for
doubles of 8 bits; `PrecisionIsEnough` names what the deployed 53 bits have in common
with them (m is small enough that neighbouring quotients differ by less than 1, no
slack is subnormal), but nothing is proved for 53. A level's queries enter the bound of
the next only behind the degree of the ring switch, 2^31 or more against blocks of at
most 2^26 positions, so that the order of the levels costs nothing: `RingDegreeLeads` is
checked of the instance.

The timer's files keep a record of each run that returned, in order, and none of a run
whose command had not ended. The converse fails in the code, and is not claimed: a run
killed between the append and its return, or one whose summary cannot be printed, has
its record and never returned. A write that is cut short leaves an open line, which the
next record goes on with: that record is lost to the report, which refuses the file. A
report that ends well is complete; one that raises at a line whose `seconds` is no number
(lines 113 to 116) has printed the header and the rows before it, and these rows are
exactly the lines before the faulty one.

The gates, which look at single files, guarantee what they are for along chains of
imports, under the hypothesis that the library imports no test (no gate forbids it).

Observations made while modelling, none of them at odds with what the repository
says. In `markdown_blocks` a fence or indented code between two tables does not end
the first, so the second table's header row counts as prose; the context of a list
survives a heading; fences inside block quotes are not recognised. The properties
are stated so that these stand: they fix what must be reported and what must not,
and leave such rows open. What the suites of `test-policy-checks.py` do not notice the
loss of is `Untested` in `PolicyTests`: every forbidden dependency but that of Semantics
on Protocol, imports of a layer's own module (`LeanerVM.Protocol`), indented imports, the
layer Applications, five names of the allow-list (`LeanIsa.lean` among them), every
trust-sensitive word but `axiom`, the audit of `LeanerVM.lean`, public imports for the
stale and duplicate checks, and both checks under `tests/`. The suites tell every other
missing piece. Pieces are dropped one at a time and whole: what else can be wrong with
a pattern (an anchor, a quantifier, an alternative too many) is not in `Faults`, except
for the end of the allow-list, which the control of a sibling is for. Cases that differ
only in the separators and quotes around an option are one case here; how those are
skipped is `OptionScan`'s.

**Bounds, and why they are enough.** `Ord` (15, 511) bounds the field: addresses
wrap within the instances, and programs, images and hints lie on both sides of the
caps. `MinCells`, `MaxCells` bound the images; images of two and eight cells show
both failures of the window. `Budgets` lie below, at and above the lengths of the
runs, and `LongestRun` is no less than any budget and exceeds every run of the instance
that halts. `Starts` (all lists of at most two rows in two frames, once for each program
and image) and `Exports` bound what is validated. `MaxReads` is the caps' bound on
reads, one below `Ord`: a forged word read `Ord` times, the shortest wrap, is in the
instance (five rows of three reads) and must be excluded. Scenario lengths (1 to 6
rows) allow a run, a closed walk beside it and a repeated row. `LadderTop` (7 in
`filler`, 1 in the builder) bounds the ladder: the builder's two sizes include both
that `jumpMix` uses. `MinBlake2sRows` (8, 2) and `MaxLogRows` (9, 4) bound heights,
so that tables are found at, below and above their floor and each run can meet the
cap.

`FUEL` (2) lets a grind clear at once, late or never. A schedule has every kind of
operation, a checked and an unchecked scalar, and a second opening whose root and
positions come after the first's. `merkle_opening` asks for every set of up to three
of four leaves and for pairs, and more, of eight, so that paired and single nodes meet
on each of three levels, in trees whose leaves repeat; and it has leaves wider than rows, where two rows
share an image. `MAX_M`, `MAX_COLS`, `MAX_RATE`, `MAX_EXACT_M`, `M_MAX`, `B_MAX`, `MAX_OOD`,
`PRECISION` and `GRID_LOG` bound the budget's searches and doubles; `RING_DEGREE` (8) leads the queries and samples
of every level, as 2^31 does; candidates are on both sides of each bound, so that each
loop stops early, runs through and finds nothing. The two limits of the writing check
are 1 and 2 words in place of 20 and 25, so that short texts exceed them. The texts
are all combinations of the pieces that interact; a scanner's flag is opened, carried
over one row and closed within four rows. `MAX_EDITS` (4) is what it takes to add a
module to the tree, to one or both aggregates, and to break a chain; `MaxRuns` (2) puts
a run after one that is killed or cut, over a file that has lines already, and `MaxOutput` (1)
is a line printed and not yet flushed; the theorems hold for any number of either.

**Fairness.** Weak fairness of the whole next-state relation in `TraceChecker` and
`TraceReader`: each is one call of a pure function, which is evaluated until it
returns. Nothing else is scheduled. `Terminates` is checked under it. The builder
has no liveness property: its steps are bounded by the plan, and `RunComesBack`
speaks of the finished reader. The modules of the protocol and of the scripts state
safety only: each of their loops runs over a text, a list or a bounded range, and what
they could get wrong is what they return. `CHECK_DEADLOCK FALSE` is in every configuration,
because every one of these calls returns and then stops.

## 5. What is proved

`TraceCheckerProofs`, for every field order and Zech table, program set, image set,
hint lists and budgets, from the assumptions of the modules it extends
(`OrdAssumption` and its like on the field, `NoRegsAssumption` that "no registers"
is not a register pair, `WindowAssumption` that an image has at most `Ord` cells,
`ArgumentsAssumption` on the calls):

* `TypeCorrect`: `Spec => []TypeOK`.
* `CheckerSound`: `Spec => []AcceptedIsValid`.
* `CheckerImplementsMachine`: `Spec => ImplementsMachine`, the refinement of
  `Machine`.
* `CheckerComplete`: `Spec => []ValidIsAccepted`: whenever the check has returned,
  every valid execution within the budget has been found with its exact length, and
  every error but exhausted fuel excludes valid executions of every length. It
  quantifies over all sequences of registers, so TLC cannot check it.
* `VerdictAlwaysExact`: `Spec => []VerdictIsExact`, its finite form, which TLC checks: the
  verdict against every length of the reference `run`; and the filler rows are accepted,
  whatever the hints, exactly when they are a permutation of themselves under the step.
* `CountAlwaysExact`: `Spec => []AnnouncedCountIsExact`: `checkTrace` accepts exactly the
  announced counts that are valid, and `validateInput` exactly the exports of the whole
  memory whose rows add up to such a count.

The last two also rest on `ExportsAssumption`: images have a power of two of cells (a
`MemImage` has, by its type), exports and filler rows are lists of what the code reads
them as, "no trace" is not a trace, and no budget exceeds `LongestRun`.

The argument. `AddressIndexAgrees` shows the search through hints equal to the
reference's bounded logarithm, because below `Ord` the powers of g are distinct; the
two readers and the two steps are then the same functions. `TypeOK` says nothing of
how the registers came about, so `AcceptedIsValid` is not inductive. `IInv` adds
that the trail is a run of the reference that ends in the current registers and is
as long as the fuel spent (`TrailIsRun`), and that each verdict was given for its
own reason (`VerdictHasReason`). Completeness needs the run from the other side:
`RunsAgree` says every run of the reference passes through the current registers,
or stops short of them away from the sentinel. It is kept because the step is a
function, and replaces an induction over the length of the other run. For the finite
forms the reference `run` is unfolded into a list of registers and back
(`ReferenceIsRun`, `RunIsReference`), so that a length is valid exactly when an execution
of that length is (`LengthIsExecution`). Two lists of rows match, each value as often,
exactly when one is a permutation of the other (`MatchIsPermutation`): a bijection for
each value, put together.

`TraceReaderProofs`, for every field order and Zech table that
satisfy `FieldAssumption` (addition is commutative, `1 + .` associates with it, and
everything is its own opposite; multiplication needs no assumption), every program,
image and list of rows that `ReaderAssumption` admits, with no bound on the number of rows but
`CapsAssumption` (fewer reads than g has powers):

* `ReadsAreSound`: `Spec => []LookupsSound`.
* `RowsAreTheSteps`: `Spec => []RowsAreSteps`.
* `TraceIsRead`: `Spec => []WitnessYieldsTrace`, the soundness of the arithmetization:
  a satisfying witness of a program with a safe sentinel yields a valid execution.

The argument. Take a read whose address and word are no row's of the block. What it
pushes is pulled by another such read, so the counts of such reads are closed under
multiplication by g, and not being 0 they are all `Ord` powers: more than there are
reads (`NoForgedReads`, Lemma 6.3). It is stated once, for any lookup, and used for
the memory and for the bytecode. An entry tells the operands, the constant and the
store mode of its instruction (`EntryTells`), JUMP's residuals make its indicator the
truth of its condition (`JumpPushes`), DEREF's flags select its source
(`StoreIsSource`); so a row with its cells and its instruction is a step
(`SupportedIsStep`). A row at a safe sentinel would push the counter g^size, where
nothing pulls.

For the walk, `WitnessYieldsTrace` is not inductive: it says nothing before the reader
returns. `IInv` adds that the map holds a row for each state inserted (`MapMatches`),
that the walk goes along rows (`WalkIsRows`), that fuel spent and length agree
(`FuelCounts`), and that no state comes twice and none is pulled more often than a
later one (`NoReturn`). The last is the heart of it: the rows that leave a state are
all steps, so they go to one state, which balance makes pulled at least as often, and
more often if anything else is pushed to it. A walk that came back would enter a state
it had already entered from elsewhere, and the number would have grown around the
circle. All states of the walk being different, each pulled by a row, they are no more
than the rows, and the fuel suffices (`RoomToWalk`, the pigeonhole).

The facts about the constraint system are in `ConstraintProofs`, which says nothing of
who reads or writes a witness; reader and builder share them. Among them
`OrderIsFree`: reordering the rows of a witness changes neither what is satisfied nor
what balances.

`WitnessBuilderProofs`, for every field as above, every ladder, plan and compression,
and every job that `JobAssumption` admits (a valid execution of a program that has its
fill blocks, over an image with room for the frames, and whose padded image stays
within the caps), from `RoomAssumption` (the frames fit above the smallest image),
`DigestAssumption` (the digest of the zero message is two canonical cells) and
`LadderAssumption` (JUMP has its two smallest blocks, and a floor is positive):

* `BuilderInvHolds`: `Spec => []BuilderInv`.
* `TraceAlwaysKept`: `Spec => []TraceKept`: the run keeps its rows and the rest closes up.
* `ReadsAlwaysNumbered`: `Spec => [](ReadsFit => NumberedReads)`.
* `BuiltAlwaysSatisfies`: `Spec => [](ReadsFit => BuiltWitnessSatisfies)`, the
  completeness of the arithmetization (`constraintCompleteness`).
* `FillIsCounted`: `Spec => FillsAsCounted`: the builder's traversals are those of
  `Filler`, cycle by cycle, and its finished tables have exactly the planned heights.

* `CapsGiveNumbering`, `CapsGiveSatisfaction`: the two without their premise, from
  `CapsCoverReads`: nine reads for each row of six tables of the greatest height are at
  most `MaxReads`.

`ReadsFit` says that the rows built read no more often than the reads are allowed to
number, which is one of the conjuncts of `SatisfiedBy`. It follows from the caps on the
heights, as in the code: `NeverAboveCap` of `Filler` bounds every table, the refinement
carries that to the builder's skeletons, there are six tables, and a row reads nine cells
at most. `CapsCoverReads` is true of the code's numbers (54 * 2^32 is far below
2^64 - 1). It is not true of the instance of TLC, whose field is too small for six full
tables and whose tables never are all full; there TLC checks the conclusions themselves.

The argument. `BuiltWitnessSatisfies` says nothing before the end, so `BuilderInv` says
what has been laid and written so far. `SkelsKept`: each skeleton is sound (it is at an
instruction of the program which holds over the padded image and leads to registers),
the first ones are the run's, and the others are closed: a permutation of their places
takes each to one that stands at its successor. A whole number of cycles of blocks is
closed (`CycleCloses`: each block steps through its frame, and its last jump goes back
to its first row in the next frame, or around), whichever number the plan says.
`RowsKept`: row i is the row of skeleton i, and the counts its reads carry are powers
of g of the numbers of earlier reads of the same cell or slot, which the counters hold
(`Numbered`). It is needed because the counts go on across tables, and within one row
that reads a cell twice. At the end every cell's reads carry `1, g, .., g^(n-1)` and
the block's row for it 1 and g^n, so what is pushed is what is pulled, each once
(`PermOfDistinct`); `ReadsFit` keeps the powers apart. The states balance along the run
and along the permutation of the rest (`FollowsIsOneToOne`). Sorting the rows changes
nothing (`OrderIsFree`). For `FillIsCounted` the number of rows of a table is counted
over stretches of skeletons: one traversal has the dummies of its table and one closing
jump (`CountCycle`), and n of them n times as many (`CountRepeated`).

The second half of the module is about the composition, from the same assumptions and with
no bound on reads: the builder's rows are known, so that nothing has to be inferred from
their balance.

* `AlwaysAnArgument`: `RTSpec => []HandedOverIsArgument`.
* `RunAlwaysComesBack`: `RTSpec => []RunComesBack`.
* `WalkRefinesMachine`: `RTSpec => WalkImplementsMachine`, over the committed image.

The argument. `RunComesBack` says nothing before the reader returns. `ReaderInv` adds
that the map takes each state to where the padded image steps (`MapFollows`), that the
walk is the beginning of the run (`WalkFollows`), and that fuel and walk add up. Every
state of the run short of the sentinel is a row's, so the map holds it, and there are no
fewer rows than states; hence neither of the two ways to give up is open
(`WalkHasNext`). `BuildsAsBuilder` says that the composition is the builder to the
builder's own theorems, which so hold of it too.

`FillerProofs`, for every ladder, floor and cap, and all rows a run can leave, from
`LadderAssumption` and `CountsAssumption` (the counts are naturals):

* `FilledAsPlanned`: `Spec => []FilledSoFar`.
* `NeverTooHigh`: `Spec => []NeverAboveHeight`.
* `NeverAboveCap`: `Spec => []WithinCap`: on its way the fill keeps every table within the
  greatest height of a table.
* `FillEndsExact`: `Spec => []FillIsExact`: every table ends at its power of two, JUMP with
  the closing jumps of all the others.

The argument. Neither property is inductive, as neither says how much of the plan is
still to come. `FilledSoFar` does: a table's height is the run's rows, the dummies of its
blocks dealt with so far, and for JUMP the number of all traversals so far. The rest is
arithmetic. The greedy counts deliver what they are asked for, because each remainder of a
power of two is a bit and the next remainder (`HalvesModulo`, `GreedySum`); the two
counts of JUMP deliver every gap but one (`JumpMixSpec`, `JumpSum`), and a partial sum of
naturals is at most the whole (`SumsBounded`). Powers and sums are recursive functions: that
these unfold (`Pow2Unfolds`, `SumUnfolds`) is proved, from the least argument at which they
would not, since the library's induction theorems take an operator and cannot be used.

`ProofStreamProofs`, for every set of scalars, every schedule of announcements, roots,
samples and grinds, every list of openings, every honest message and every function
that says which nonces clear, from `ScalarAssumption`, `FuelAssumption`,
`ScheduleAssumption` (an opening names a root of its schedule and a sample
drawn after it and after those of the openings before, as the levels of `walkOpenings`
do, and the algebra speaks of scalars and roots only) and `MessagesAssumption` (an honest prover
announces one of the sizes, and its digests encode as canonical cells, as
`isCanonical128_wordsCell` of `Semantics/Blake2sOutput.lean:56` says of every cell of one):

* `ReaderFollows`: `Spec => []ReaderFollowsWriter`: a proof that arrives as written is
  read as it was written, and accepted. It is the completeness of the stream.
* `AcceptedIsBound`: `Spec => []ChainBindsProof`: whoever accepts at the prover's chain
  was given the prover's proof, to the last scalar and the last opening, whatever was
  done to it on its way.
* `GrindsAreLeast`: `Spec => []GrindIsLeast`: every nonce sent is the least that clears,
  found by trying those below it, and giving up is having tried them all.
* `AskedAsCharged`: `Spec => []AskedIsCharged`: and the verifier, whatever it was given, has
  asked the hash for what its schedule charges up to the operation it came to, the one
  that rejected included.
* `StagesAccept`: `Spec => []StagesAcceptAsItGoes`: reading everything first, opening then
  and checking last accepts what a verifier accepts that opens and checks each phase as it
  reads it, and nothing else, whatever was delivered. It is what `Verify.lean` and the
  `Setup`, `Bus` and `Whir` of its directory say of the Rust: no difference in what is accepted.

The argument. Neither property is inductive: both are silent while the writer writes.
`Inv` says what a chain is. It carries the stream (`Carries`: its blocks other than
squeezes are the scalars of the proof, in order, so the number of such blocks is where
the reader stands in the stream), and it transcribes a run (`Transcribes`: the blocks
of the i-th operation stand behind those of the ones before, two for a root and one
for any other, and say what it resulted in). The writer's chain does both
(`WriterInv`), the reader's does both for what has been read (`ReaderInv`), and its
openings are those of the roots and the positions it has got (`Opens`). A chain
carries one stream and transcribes one run, so a reader that used everything up
and stands at the writer's chain has the writer's stream, results and openings. For
the other direction `FollowInv` adds that the reader's chain starts the writer's:
the block that stands next in the writer's chain is then the one the reader's call
absorbs, and it finds its scalar, its canonical digest and its clearing nonce
(`Follows`). `GrindInv` restates the grinds for a fixed hash and adds what the writer
knows when it gives up; where an earlier grind stood on the chain is read off its number
of roots (`Before`), so a later operation moves none. `ChargeInv` adds to the sum that
nothing was asked before the walk. No more is needed of the verifier than what one
operation does to its list of queries (`AsksFor`).

The two verifiers of `StagesAccept` fail at different places, so neither can be followed step
by step by the other. Both are compared with a third thing that is about the proof alone:
it is `Good` if some prover could have written it (`Leads`: one that sends the
message wherever the algebra checks it and opens where it is asked). A reader that
ends well has written such a proof down (`ReadIsGood`); a reader of such a proof follows its
prover and so fails nowhere (`LeadInv` for the stages, `LedAsItGoes` phase by phase for the
other, which reads an opening as soon as its positions are drawn and finds its root there,
since roots come first). `ReadAsItGoes` is a recursive function along the schedule:
that it unfolds is proved from the least operation at which it would not (`GoesExist`,
`GoesAgree`).

`MerkleProofs`, for every set of words and width of a leaf, every commitment of rows of
one width that fits a leaf, under heights that halve down to one node, every list of
positions, every set of digests foreign to the tree and every `Tampered`, from
`WordsAssumption`, `CommitmentsAssumption` and `QueriesAssumption`:

* `OpeningIsBound`: `Spec => []AcceptedIsTheOpening`: an accepted opening is the prover's,
  to the width of a row and the last sibling. As `Tampered` may be the set of all
  openings, this is the binding of the commitment under a hash without collisions, and
  says also that the octopus leaves no choice of siblings.
* `OpeningIsAccepted`: `Spec => []HonestIsAccepted`: the prover's opening passes the shape
  test made before any hash, is never rejected for positions in the tree, and
  `rowsInQueryOrder` gives each query its row.
* `OpeningIsHashedOnce`: `Spec => []HashedOnce`: whatever is accepted, as many hashes were
  made as there are nodes on the paths, and as many siblings taken as stand beside them.

The argument. What an accepted walk says about the leaves is not to be seen at the root,
where one digest is left. `Inv` puts it as a conditional: the walk stands where the climb
stood (`Walked`: the same positions at the same height, as many siblings taken as were
stored below), and **if** the nodes there are the tree's (`Genuine`), then so are all the
rows and siblings they were made of (`MadeOf`); that is `Bound`. It holds at the leaves
because the digest of a leaf gives its image and the width test its row. One level up, a
parent that is the tree's has both children the tree's, since a digest is what was
hashed: a child that was a node makes the nodes below genuine, a child that was supplied
is the sibling the climb stored under the same rank (`KeptByWalk`). At the root the
condition is what `Accept` tests. `Repeated` is the other direction: the prover's own
opening keeps the nodes genuine, and never runs out (`Fits`, `Stored`). `CountInv` is
independent of what the digests say: the nodes at a height are those the positions pass
there, so that a level hashes the parents of the ones below (`PassedGrows`) and takes one
sibling for each node without one (`SiblingsOfAlone`), none of which the paths pass
(`BesideGrows`). Positions are
finite sets of naturals; `Rank` is a bijection onto `1..Cardinality` (`RankGrows`,
`RankedIsRanked`), and depth enters only through heights that halve, so no power of two
is needed.

`BuildTimingProofs`, for every set of calls, logs and outputs, every number of
invocations and lines, and every results file at the start, from `FirstAssumption`
(what the file holds at first was written by no run of the model) and `CodesAssumption` (a
command ends with -64..255, so that only the code 0 leaves the status 0):

* `FilesTell`: `Spec => []FilesTellRuns`: wherever runs were stopped or cut short, each
  one that returned has its record, whole and with its line ended; every record
  of a run is of one whose command had ended, and says what it did; records are in the
  runs' order; only a cut write leaves its line open; and a log holds the whole output
  of the ended command that opened it last.
* `ReportTell`: `Spec => ReportTellsRuns`: each step of a report leaves it with the first
  lines of the file as its rows; one that ends well has a row for each run that
  returned; it is refused or raises only for a fault of the file; and one that raises
  behind its first rows has stopped at a faulty line.

The argument. `FilesTellRuns` is not inductive: nothing in it says what the run under way
still owes. `IInv` adds which phase belongs to which run and that the log of the run
under way is its own (`UnderWay`), that a run which waited has a log (`HasLog`), that no
write is of a later run, and one past the append has its record (`Written`), and that a
report under way has shown a prefix of a file whose lines all read (`Printing`). `NewRunKeeps`, `UpdateKeeps` and
`AppendKeeps` are the three kinds of step that change runs or results. For the report,
`BadLine` finds the fault behind a line that does not read (it is foreign, cut, or goes on
with a line that was), `NoRow` behind one that reads and has no row, and `RowsTell` that a
report that reached the end has shown every record.

**Only model-checked.** `Terminates`: liveness, like anything about ENABLED, is out of the
prover's reach. What a recursive definition computes can be proved only where a set with a
least element serves for the induction (powers, sums and phases along a schedule, the nodes
above a position); where the recursion is over a text or a search, it is TLC's: the
scanners (folds over sequences, compared with references that are recursive over the text);
the budget (folds over grids, and least values of searches) and the gates (chains of imports
of any length).

## 6. Not modelled, and why

* The height caps of `SatisfiedBy` enter `ConstraintSystem` only as a bound on
  reads; the builder's heights are checked in `FillsAsCounted`. The four
  public lanes enter as the two words they make.
* The BLAKE2s compression is a constant: the machine only relates its inputs and
  outputs. TLC uses a toy function that depends on every cell.
* Of the proof stream: round polynomials, whose dropped coefficient is the algebra's.
  The byte layout of blocks, digests and leaves: a block is a tag and an element, and
  the encodings are injective in the code by their lengths.
* What a verifier's schedule contains: the six phases are a list of reads, and their
  number depends on sizes no instance of TLC can have; a short list of each kind stands
  for it.
* Of the export: that an accepted export's rows balance the state channel. The code
  makes no such promise (`TraceInput`: "accounting conditions, not proofs").
* Of the writing check: the vocabulary, the words of its patterns and the format of
  annotations. A pattern is found or not, at a place. `strip_html_comments` leaves out the
  escaped opener (`\<!--`, lines 164 to 167), which no row of the instance has.
* Of the budget: bounds in bits (logarithms of doubles) are values of a candidate.
* `check-docs.py` and the dump scripts: one pass without state. The unit tests of the
  scripts: lists of cases, read as evidence. `test-warning-policy.py`: a list of builds
  whose outcome is lake's and Lean's.
* The algebra of the phases and WHIR: identities of polynomials over a field of
  2^192 elements that hold except with small probability. A model over a small field
  would be unfaithful to the bounds, which are the point.
* Probability bounds of the random-oracle game, and the composition of error terms.
* Lemmas and proofs as such: they are not operations. Where a lemma states what an
  operation promises, a property here checks it of the operation's model.
* `ToArkLib`, `ToVCVio`, `ToCompPoly`, `ToClean`, the Lean tests and benches. The part of
  `ToVCVio` that the Merkle walk is written in is in `MerkleOpening`.
