------------------------------ MODULE ProofStream ------------------------------
(***************************************************************************)
(* A proof written by the prover, delivered, and read by the verifier: the *)
(* Fiat-Shamir chain of Transcript.lean, the writer and the reader of      *)
(* Proof.lean, and the stages in which Prove.lean writes and Verify.lean   *)
(* reads.                                                                  *)
(*                                                                         *)
(* The hash is ideal: a chaining value is the sequence of the blocks that  *)
(* were absorbed, a challenge is the value it is squeezed from.  Whether a *)
(* nonce clears a base is an arbitrary function of the base (`clears`).    *)
(* The algebra is a set of ops whose scalar must be the honest one.  What  *)
(* an opening is authenticated by is MerkleOpening's subject: here it is   *)
(* accepted when it is the one of its root and its positions.              *)
(***************************************************************************)
EXTENDS Integers, SequencesExt

CONSTANTS
  Scalars,    \* the elements a proof carries
  Wide,       \* those with a nonzero top limb
  FUEL,       \* the nonces a grind tries
  Sizes,      \* the sizes an announcement can announce
  Schedule,   \* size -> the chain's ops: the announcement first
  Openings,   \* size -> per level, the op of its root and the op of its positions
  Checked,    \* the ops the algebra checks
  Messages,   \* what honest provers send, per op
  Clearings   \* the functions a hash may be, as far as grinding sees it

ASSUME ScalarAssumption == Scalars \subseteq Nat /\ Wide \subseteq Scalars /\ 0 \in Scalars \ Wide
ASSUME FuelAssumption == FUEL \in Nat /\ 0..(FUEL - 1) \subseteq Scalars
(* Each level is opened at positions of its own, drawn after its root and  *)
(* after those of the level before (walkOpenings, Verify/Whir.lean).       *)
ASSUME ScheduleAssumption ==
  /\ Sizes \subseteq Scalars
  /\ \A s \in Sizes :
       /\ Schedule[s] \in Seq([op : {"scalar", "root", "sample", "grind"}, bits : Nat])
       /\ Schedule[s] # <<>> /\ Schedule[s][1].op = "scalar"
       /\ Openings[s] \in Seq([root : Nat, at : Nat])
       /\ \A l \in DOMAIN Openings[s] :
            /\ Openings[s][l].root \in DOMAIN Schedule[s] /\ Schedule[s][Openings[s][l].root].op = "root"
            /\ Openings[s][l].at \in DOMAIN Schedule[s] /\ Schedule[s][Openings[s][l].at].op = "sample"
            /\ Openings[s][l].root < Openings[s][l].at
            /\ \A k \in 1..(l - 1) : Openings[s][k].at < Openings[s][l].at
       /\ \A i \in Checked \cap DOMAIN Schedule[s] : Schedule[s][i].op \in {"scalar", "root"}
(* An honest prover announces its size first; its digests encode as        *)
(* canonical cells.                                                        *)
ASSUME MessagesAssumption ==
  \A m \in Messages :
    /\ m[1] \in Sizes
    /\ \A i \in DOMAIN Schedule[m[1]] :
         /\ Schedule[m[1]][i].op = "scalar" => m[i] \in Scalars
         /\ Schedule[m[1]][i].op = "root" => m[i] \in (Scalars \ Wide) \X (Scalars \ Wide)

VARIABLES
  message, clears,   \* the honest messages and the hash, fixed
  writer,            \* [fs, stream, merkle, told, asked]: told is the result of each op
  proof,             \* what is delivered
  reader,            \* [fs, stream, merkle, got, rows, asked, error]
  stage

vars == <<message, clears, writer, proof, reader, stage>>

-----------------------------------------------------------------------------
(* The chain: a block absorbed, and what the grinding hashes say.          *)
Absorb(fs, tag, x) == Append(fs, <<tag, x>>)

Weight(fs) == FoldLeft(LAMBDA n, b : n + b[2], 0, fs)
lowBitsZero(fs, nonce) == nonce \in clears[Weight(fs) % 2]

observe(p, x) == [p EXCEPT !.fs = Absorb(@, "observe", x), !.asked = Append(@, <<p.fs, "observe", x>>)]
squeeze(p) == [p EXCEPT !.fs = Absorb(@, "squeeze", 0), !.asked = Append(@, <<p.fs, "squeeze", 0>>)]
absorbNonce(p, nonce) == [p EXCEPT !.fs = Absorb(@, "nonce", nonce), !.asked = Append(@, <<p.fs, "nonce", nonce>>)]
powBase(p) == [p EXCEPT !.asked = Append(@, <<p.fs, "base", 0>>)]

-----------------------------------------------------------------------------
(* The writer.                                                             *)
Told(w, result) == [w EXCEPT !.told = Append(@, result)]
addScalar(w, x) == [observe(w, x) EXCEPT !.stream = Append(@, x)]

addRoot(w, d) == addScalar(addScalar(w, d[1]), d[2])

(* The first nonce that clears, among those FUEL allows.                   *)
findNonce(fs) == Min({n \in 0..(FUEL - 1) : lowBitsZero(fs, n)})

Found(fs, bits) == bits = 0 \/ \E n \in 0..(FUEL - 1) : lowBitsZero(fs, n)

Tries(fs, last) == [n \in 1..(last + 1) |-> <<fs, "try", n - 1>>]

(* Out of fuel: all that is left is what was asked.                        *)
GiveUp(w) == [powBase(w) EXCEPT !.asked = @ \o Tries(w.fs, FUEL - 1)]

grind(w, bits) ==
  LET nonce == IF bits = 0 THEN 0 ELSE findNonce(w.fs)
      tried == [powBase(w) EXCEPT !.asked = @ \o (IF bits = 0 THEN <<>> ELSE Tries(w.fs, nonce))]
  IN  Told([absorbNonce(tried, nonce) EXCEPT !.stream = Append(@, nonce)], nonce)

-----------------------------------------------------------------------------
(* The reader.  A throw keeps only the error and what was asked.           *)
Throw(r, error) == [r EXCEPT !.error = error]
Failed(r) == r.error # "none"
Got(r, result) == IF Failed(r) THEN r ELSE [r EXCEPT !.got = Append(@, result)]

takeRaw(r) == IF r.stream = <<>> THEN Throw(r, "exceededStream") ELSE [r EXCEPT !.stream = Tail(@)]

takeScalar(r) == IF Failed(takeRaw(r)) THEN takeRaw(r) ELSE observe(takeRaw(r), Head(r.stream))

nextScalar(r) == Got(takeScalar(r), Head(r.stream))

(* Both halves are read before either is judged.                           *)
nextRoot(r) ==
  LET first == takeScalar(r)
      both == IF Failed(first) THEN first ELSE takeScalar(first)
      d == <<r.stream[1], r.stream[2]>>
  IN  IF Failed(both) THEN both
      ELSE IF d[1] \in Wide \/ d[2] \in Wide THEN Throw(both, "nonCanonicalEncoding")
      ELSE Got(both, d)

sample(r) == Got(squeeze(r), r.fs)

PowOk(r, bits, nonce) == IF bits = 0 THEN nonce = 0 ELSE lowBitsZero(r.fs, nonce)

(* Wrong: the nonce that does not clear is not absorbed.                   *)
checkPowUnabsorbed(r, bits) ==
  LET nonce == Head(r.stream)
      tried == [powBase(takeRaw(r)) EXCEPT !.asked = @ \o (IF bits = 0 THEN <<>> ELSE <<<<r.fs, "try", nonce>>>>)]
  IN  IF Failed(takeRaw(r)) THEN takeRaw(r)
      ELSE IF PowOk(r, bits, nonce) THEN Got(absorbNonce(tried, nonce), nonce) ELSE Throw(tried, "powFailed")

(* Wrong: the nonce is checked and never absorbed.                         *)
checkPowBeside(r, bits) ==
  LET nonce == Head(r.stream)
      tried == [powBase(takeRaw(r)) EXCEPT !.asked = @ \o (IF bits = 0 THEN <<>> ELSE <<<<r.fs, "try", nonce>>>>)]
  IN  IF Failed(takeRaw(r)) THEN takeRaw(r)
      ELSE IF PowOk(r, bits, nonce) THEN Got(tried, nonce) ELSE Throw(tried, "powFailed")

checkPow(r, bits) ==
  LET nonce == Head(r.stream)
      tried == [powBase(takeRaw(r)) EXCEPT !.asked = @ \o (IF bits = 0 THEN <<>> ELSE <<<<r.fs, "try", nonce>>>>)]
      absorbed == absorbNonce(tried, nonce)
  IN  IF Failed(takeRaw(r)) THEN takeRaw(r)
      ELSE IF PowOk(r, bits, nonce) THEN Got(absorbed, nonce) ELSE Throw(absorbed, "powFailed")

Opening(root, positions) == [root |-> root, at |-> positions, shape |-> "fits"]

(* The level's opening against its root, at its positions.                 *)
nextOpening(r, level) ==
  IF r.merkle = <<>> THEN Throw(r, "missingHint")
  ELSE LET rest == [r EXCEPT !.merkle = Tail(@)]
       IN  IF Head(r.merkle) = Opening(r.got[level.root], r.got[level.at])
           THEN [rest EXCEPT !.rows = Append(@, Head(r.merkle))] ELSE Throw(rest, "invalidMerkleOpening")

(* Wrong: only the openings must be used up.                               *)
finishOpenings(r) == IF r.merkle = <<>> THEN r ELSE Throw(r, "notFullyConsumed")

finish(r) == IF r.stream = <<>> /\ r.merkle = <<>> THEN r ELSE Throw(r, "notFullyConsumed")

-----------------------------------------------------------------------------
Ops(size) == Schedule[size]
Writing(op) == /\ stage = "write" /\ Len(writer.told) < Len(Ops(message[1]))
               /\ Ops(message[1])[Len(writer.told) + 1].op = op
ToSend == message[Len(writer.told) + 1]
Bits == Ops(message[1])[Len(writer.told) + 1].bits

NoProof == [stream |-> <<>>, merkle |-> <<>>]
(* The program hash, the seed and the first state.                         *)
Seeding == [n \in 1..3 |-> <<<<>>, "seed", n>>]
Reader(p) == [fs |-> <<>>, stream |-> p.stream, merkle |-> p.merkle, got |-> <<>>, rows |-> <<>>, asked |-> <<>>,
              error |-> "none"]

Init ==
  /\ message \in Messages /\ clears \in Clearings
  /\ writer = [fs |-> <<>>, stream |-> <<>>, merkle |-> <<>>, told |-> <<>>, asked |-> Seeding]
  /\ proof = NoProof /\ reader = Reader(NoProof) /\ stage = "write"

Fixed == UNCHANGED <<message, clears>>
Write(w) == writer' = w /\ Fixed /\ UNCHANGED <<proof, reader, stage>>

SendScalar == Writing("scalar") /\ Write(Told(addScalar(writer, ToSend), ToSend))
SendRoot == Writing("root") /\ Write(Told(addRoot(writer, ToSend), ToSend))
Squeeze == Writing("sample") /\ Write(Told(squeeze(writer), writer.fs))
Grind == Writing("grind") /\ Found(writer.fs, Bits) /\ Write(grind(writer, Bits))

GrindFails ==
  /\ Writing("grind") /\ ~Found(writer.fs, Bits)
  /\ writer' = GiveUp(writer) /\ stage' = "unproved" /\ Fixed /\ UNCHANGED <<proof, reader>>

(* Every opening is written after the whole chain.                         *)
HintOpenings ==
  /\ stage = "write" /\ Len(writer.told) = Len(Ops(message[1]))
  /\ LET levels == Openings[message[1]]
     IN  writer' = [writer EXCEPT !.merkle =
                      [l \in DOMAIN levels |-> Opening(writer.told[levels[l].root], writer.told[levels[l].at])]]
  /\ stage' = "deliver" /\ Fixed /\ UNCHANGED <<proof, reader>>

Written == [stream |-> writer.stream, merkle |-> writer.merkle]

(* What reaches the verifier: the proof, or one with a scalar or an        *)
(* opening changed, dropped, added or moved.                               *)
Deliveries ==
  LET s == Written.stream
      m == Written.merkle
  IN  {Written}
      \cup {[Written EXCEPT !.stream = t] :
              t \in {[s EXCEPT ![i] = x] : i \in DOMAIN s, x \in Scalars} \cup {Append(s, x) : x \in Scalars}
                    \cup {RemoveAt(s, i) : i \in DOMAIN s} \cup {<<>>}}
      \cup {[Written EXCEPT !.merkle = t] :
              t \in {RemoveAt(m, l) : l \in DOMAIN m} \cup {Append(m, m[l]) : l \in DOMAIN m}
                    \cup {[m EXCEPT ![l].shape = "tooWide"] : l \in DOMAIN m}
                    \cup {[m EXCEPT ![l] = m[k]] : l \in DOMAIN m, k \in DOMAIN m} \cup {Reverse(m)}}

Deliver ==
  /\ stage = "deliver" /\ stage' = "setup" /\ proof' \in Deliveries
  /\ reader' = Reader(proof') /\ Fixed /\ UNCHANGED writer

(* The announced size, off the head of the stream; and the openings'       *)
(* number and shapes: before any hash.                                     *)
SetupOk(p) == p.stream # <<>> /\ Head(p.stream) \in Sizes
OpeningsOk(p) == /\ Len(p.merkle) = Len(Openings[Head(p.stream)])
                 /\ \A l \in DOMAIN p.merkle : p.merkle[l].shape = "fits"

Read(r) == reader' = r /\ stage' = (IF Failed(r) THEN "rejected" ELSE stage) /\ Fixed /\ UNCHANGED <<writer, proof>>

RejectSetup ==
  /\ stage = "setup" /\ ~(SetupOk(proof) /\ OpeningsOk(proof))
  /\ stage' = "rejected" /\ Fixed /\ UNCHANGED <<writer, proof, reader>>

StartWalk ==
  /\ stage = "setup" /\ SetupOk(proof) /\ OpeningsOk(proof)
  /\ reader' = [reader EXCEPT !.asked = Seeding] /\ stage' = "walk" /\ Fixed /\ UNCHANGED <<writer, proof>>

Size == Head(proof.stream)
NextOp == Ops(Size)[Len(reader.got) + 1]
Walking(op) == stage = "walk" /\ Len(reader.got) < Len(Ops(Size)) /\ NextOp.op = op

ReadScalar == Walking("scalar") /\ Read(nextScalar(reader))
ReadRoot == Walking("root") /\ Read(nextRoot(reader))
Sample == Walking("sample") /\ Read(sample(reader))
CheckPow == Walking("grind") /\ Read(checkPow(reader, NextOp.bits))

Walked == stage = "walk" /\ Len(reader.got) = Len(Ops(Size))

ReadOpening ==
  /\ Walked /\ Len(reader.rows) < Len(Openings[Size])
  /\ Read(nextOpening(reader, Openings[Size][Len(reader.rows) + 1]))

Agrees(r, i) == i \in Checked => r.got[i] = message[i]

(* Wrong: the algebra alone decides.                                       *)
FinishUnconsumed ==
  /\ Walked /\ Len(reader.rows) = Len(Openings[Size])
  /\ stage' = IF \A i \in DOMAIN reader.got : Agrees(reader, i) THEN "accepted" ELSE "rejected"
  /\ Fixed /\ UNCHANGED <<writer, proof, reader>>

(* The stream and the openings used up, then the algebra.                  *)
Finish ==
  /\ Walked /\ Len(reader.rows) = Len(Openings[Size])
  /\ reader' = finish(reader)
  /\ stage' = IF ~Failed(finish(reader)) /\ \A i \in DOMAIN reader.got : Agrees(reader, i) THEN "accepted" ELSE "rejected"
  /\ Fixed /\ UNCHANGED <<writer, proof>>

Next ==
  \/ SendScalar \/ SendRoot \/ Squeeze \/ Grind \/ GrindFails \/ HintOpenings
  \/ Deliver
  \/ RejectSetup \/ StartWalk \/ ReadScalar \/ ReadRoot \/ Sample \/ CheckPow \/ ReadOpening \/ Finish

Spec == Init /\ [][Next]_vars

-----------------------------------------------------------------------------
Judged == stage \in {"accepted", "rejected"}

(* A proof that arrives as written is read op by op as it was written: the *)
(* same values, the same challenges, the same chain, and it is accepted.   *)
ReaderFollowsWriter ==
  stage \in {"walk", "accepted", "rejected"} /\ proof = Written =>
    /\ IsPrefix(reader.got, writer.told) /\ reader.error = "none"
    /\ stage # "rejected"
    /\ stage = "accepted" => reader.got = writer.told /\ reader.fs = writer.fs

(* The chain binds the proof: a reader that accepts at the writer's state  *)
(* was given the writer's proof, to the last scalar and the last opening.  *)
ChainBindsProof == stage = "accepted" /\ reader.fs = writer.fs => proof = Written

(* The verifier as its Rust original reads (Verify.lean, "Differences      *)
(* from the Rust"): each phase is checked as it is read, each level opened *)
(* where its positions are drawn.                                          *)
DoOp(r, o) == CASE o.op = "scalar" -> nextScalar(r) [] o.op = "root" -> nextRoot(r)
                [] o.op = "sample" -> sample(r) [] o.op = "grind" -> checkPow(r, o.bits)

ThenChecked(r, i) == IF Failed(r) \/ Agrees(r, i) THEN r ELSE Throw(r, "algebra")

Drawn(levels, i) == {l \in DOMAIN levels : levels[l].at = i}
ThenOpened(r, i, levels) ==
  IF Failed(r) \/ Drawn(levels, i) = {} THEN r ELSE nextOpening(r, levels[Min(Drawn(levels, i))])

Phase(size, r, i) ==
  IF Failed(r) THEN r ELSE ThenOpened(ThenChecked(DoOp(r, Ops(size)[i]), i), i, Openings[size])

ReadAsItGoes(p, n) ==
  LET after[i \in 0..n] == IF i = 0 THEN Reader(p) ELSE Phase(Head(p.stream), after[i - 1], i) IN after[n]

AsItGoes(p) ==
  LET read == ReadAsItGoes(p, Len(Ops(Head(p.stream))))
  IN  SetupOk(p) /\ ~Failed(read) /\ ~Failed(finish(read))

(* Reading everything first, opening then, and checking last accepts what  *)
(* checking each phase as it is read accepts.                              *)
StagesAcceptAsItGoes == Judged => (stage = "accepted" <=> AsItGoes(proof))

(* The blocks of a chain that its first n ops absorb: a root two, every    *)
(* other op one.                                                           *)
Roots(ops) == {i \in DOMAIN ops : ops[i].op = "root"}
At(ops, n) == n + Cardinality(Roots(ops) \cap (1..n))

(* A grind sends the least nonce that clears the chain it came to, after   *)
(* trying every smaller one, and each nonce told is absorbed once.         *)
GrindsLeast(ops, w) ==
  LET grinds == {i \in DOMAIN w.told : ops[i].op = "grind"}
      before(i) == SubSeq(w.fs, 1, At(ops, i - 1))
      tried(fs, n) == <<fs, "try", n>> \in Range(w.asked)
  IN  /\ {q \in Range(w.asked) : q[2] = "nonce"} = {<<before(i), "nonce", w.told[i]>> : i \in grinds}
      /\ \A j, k \in DOMAIN w.asked : w.asked[j][2] = "nonce" /\ w.asked[j] = w.asked[k] => j = k
      /\ \A i \in grinds :
           IF ops[i].bits = 0 THEN w.told[i] = 0
           ELSE \A n \in 0..w.told[i] : tried(before(i), n) /\ (lowBitsZero(before(i), n) <=> n = w.told[i])

(* And when none clears, all were tried and no nonce is absorbed.          *)
GrindIsLeast ==
  /\ GrindsLeast(Ops(message[1]), writer)
  /\ stage = "unproved" =>
       \A n \in 0..(FUEL - 1) : ~lowBitsZero(writer.fs, n) /\ <<writer.fs, "try", n>> \in Range(writer.asked)

(* The hashes an op asks for, when it finds its scalars.                   *)
Charge(o) == CASE o.op = "scalar" -> 1 [] o.op = "root" -> 2 [] o.op = "sample" -> 1
               [] o.op = "grind" -> IF o.bits = 0 THEN 2 ELSE 3

Charged(ops, n) == LET upTo[k \in 0..n] == IF k = 0 THEN 0 ELSE upTo[k - 1] + Charge(ops[k]) IN upTo[n]

(* What the verifier hashes is settled by the ops it came to: an op that   *)
(* rejects what it read has asked for as much as one that accepts it.  And *)
(* what the prover hashes for a nonce is the search for the least one.     *)
AskedIsCharged ==
  /\ GrindIsLeast
  /\ reader.asked # <<>> /\ reader.error # "exceededStream" =>
       LET done == Len(reader.got) + (IF reader.error \in {"powFailed", "nonCanonicalEncoding"} THEN 1 ELSE 0)
       IN  Len(reader.asked) = Len(Seeding) + Charged(Ops(Size), done)

=============================================================================
