------------------------------ MODULE PolicyTests ------------------------------
(***************************************************************************)
(* scripts/test-policy-checks.py: the gates run against planted trees.  A  *)
(* suite edits a fresh fixture and requires a gate to pass or to fail with *)
(* an expected message; the first requirement not met raises.  A message   *)
(* is its rule and the tree it is about ("Missing from LeanerVM.lean" and  *)
(* "Missing from tests/LeanerVMTests.lean" are one rule with two roots).   *)
(* Cases that differ in the separators and quotes around one option, which *)
(* check-lean-options.py skips (OptionScan), are one case here.            *)
(*                                                                         *)
(* The suites are run on gates with one piece missing, which says what     *)
(* they test.                                                              *)
(***************************************************************************)
EXTENDS RepositoryGates

VARIABLES book, suite, done, tree, outcome

vars == <<book, suite, done, tree, outcome>>

(* One alternative of a pattern or one check dropped, or none.             *)
Faults == {Book} \cup {Book \ {piece} : piece \in Book}

Said(d) == <<d.rule, d.root>>

Run(check) == Gate(check, tree, book)

-----------------------------------------------------------------------------
Write(path, file) == <<[op |-> "write", path |-> path, file |-> file]>>
Unlink(path) == <<[op |-> "unlink", path |-> path]>>
Passes(check) == <<[op |-> "pass", check |-> check]>>
Fails(check, rule, root) == <<[op |-> "fail", check |-> check, says |-> <<rule, root>>]>>

(* A control: plant a file, require the failure it is planted for.         *)
Control(check, path, file, rule) == Write(path, file) \o Fails(check, rule, path[1])
Allowance(check, path, file) == Write(path, file) \o Passes(check) \o Unlink(path)

Trusting == [File(<<>>) EXCEPT !.trust = {"axiom"}]
Optioned(option) == [File(<<>>) EXCEPT !.option = option]

test_source_audit ==
  LET check == "audit-lean.sh"
      probe(root) == (IF root = "tests" THEN Tests ELSE <<"LeanerVM", "Semantics">>) \o <<"Violation">>
      overrides(root) ==
        FlattenSeq([n \in DOMAIN Options |-> Control(check, probe(root), Optioned(Options[n]), "overridden")])
      separators(root) ==
        overrides(root)
        \o Control(check, probe(root), Optioned("unterminated"), "unterminated")
        \o Allowance(check, probe(root), File(<<>>))
  IN  Passes(check)
      \o Control(check, probe("LeanerVM"), Trusting, "trust")
      \o overrides("LeanerVM") \o Unlink(probe("LeanerVM"))
      \o separators("LeanerVM") \o separators("tests")
      \o Passes(check)

-----------------------------------------------------------------------------
LayerGate == "check-layers.sh"

import_forms == <<{}, {"public"}, {"meta"}, {"public", "meta"}, {"all"}>>

(* The import planted in each form, in turn.                               *)
Forms(path, module, rule) ==
  FlattenSeq([n \in DOMAIN import_forms |-> Control(LayerGate, path, File(Import(import_forms[n], module)), rule)])
  \o Unlink(path)

Basic(layer) == <<"LeanerVM", layer, "Basic">>
Protocol(name) == <<"LeanerVM", "Protocol", name>>
Arith == File(Import({"public"}, Basic("Arithmetization")))

LayerControls ==
  LET unknown == <<"LeanerVM", "Experimental", "Basic">>
      loose == <<"LeanerVM", "Loose">>
  IN  Forms(<<"LeanerVM", "Semantics", "Violation">>, Basic("Protocol"), "Semantics")
      \o Control(LayerGate, unknown, File(<<>>), "unknown layer") \o Unlink(unknown)
      \o Control(LayerGate, loose, File(<<>>), "loose") \o Unlink(loose)

WallControls ==
  Forms(Protocol("Spine") \o <<"Phase">>, Basic("Arithmetization"), "wall")
  \o Allowance(LayerGate, Protocol("FixedColumns"), Arith)
  \o Allowance(LayerGate, Protocol("Headline"), File(Import({"public"}, <<"LeanerVM", "Arithmetization", "Soundness">>)))
  \o Allowance(LayerGate, Protocol("LeanIsa") \o <<"Sound">>, Arith)

(* Wrong: no sibling of the adaptor is tried.                              *)
test_layer_gateNoSibling == Passes(LayerGate) \o LayerControls \o WallControls \o Passes(LayerGate)

test_layer_gate ==
  LET sibling == Protocol("LeanIsaExtra")
  IN  Passes(LayerGate) \o LayerControls \o WallControls
      \o Control(LayerGate, sibling, Arith, "wall") \o Unlink(sibling)
      \o Passes(LayerGate)

-----------------------------------------------------------------------------
test_aggregate_gate ==
  LET check == "check-imports.sh"
      root == <<"LeanerVM">>
      plain == Aggregate({}, Basics)
      planted(name) == [plain EXCEPT !.imports = @ \o Import({}, <<"LeanerVM", "Semantics", name>>)]
      orphan == <<"LeanerVM", "Semantics", "Orphan">>
      test == Tests \o <<"Orphan">>
      misplaced == <<"tests", "Loose">>
  IN  Passes(check)
      \o Control(check, orphan, File(<<>>), "missing") \o Unlink(orphan)
      \o Control(check, test, File(<<>>), "missing") \o Unlink(test)
      \o Control(check, misplaced, File(<<>>), "outside") \o Unlink(misplaced)
      \o Control(check, Main, File(<<>>), "main") \o Write(Main, Fixture[Main]) \o Passes(check)
      \o Write(root, plain) \o Write(Tests, File(Import({}, <<"LeanerVMTests", "Imports">>)))
      \o Write(Main, File(Import({}, <<"LeanerVMTests">>))) \o Passes(check)
      \o Control(check, root, planted("Ghost"), "stale")
      \o Control(check, root, planted("Basic"), "duplicate")

Suites == <<test_source_audit, test_layer_gate, test_aggregate_gate>>

-----------------------------------------------------------------------------
Init == book \in Faults /\ suite = 1 /\ done = 0 /\ tree = Fixture /\ outcome = "running"

Step == Suites[suite][done + 1]

(* The next step is an op.                                                 *)
At(op) == outcome = "running" /\ done < Len(Suites[suite]) /\ Step.op = op

WriteFile == At("write") /\ tree' = (Step.path :> Step.file) @@ tree /\ done' = done + 1 /\ UNCHANGED <<book, suite, outcome>>
RemoveFile == At("unlink") /\ tree' = Restrict(tree, DOMAIN tree \ {Step.path}) /\ done' = done + 1 /\ UNCHANGED <<book, suite, outcome>>

Proceed(ok) ==
  /\ IF ok THEN done' = done + 1 /\ UNCHANGED outcome ELSE outcome' = "raised" /\ UNCHANGED done
  /\ UNCHANGED <<book, suite, tree>>

require_pass == At("pass") /\ Proceed(Run(Step.check) = {})

require_failure == At("fail") /\ Proceed(\E d \in Run(Step.check) : Said(d) = Step.says)

NextSuite ==
  /\ outcome = "running" /\ done = Len(Suites[suite])
  /\ IF suite < Len(Suites) THEN suite' = suite + 1 /\ done' = 0 /\ tree' = Fixture /\ UNCHANGED outcome
                            ELSE outcome' = "passed" /\ UNCHANGED <<suite, done, tree>>
  /\ UNCHANGED book

Next == WriteFile \/ RemoveFile \/ require_pass \/ require_failure \/ NextSuite

Spec == Init /\ [][Next]_vars

-----------------------------------------------------------------------------
(* A negative control fails for the planted reason alone: the gates say    *)
(* nothing else of its tree, so that no earlier plant still stands behind  *)
(* it and the control would pass without its rule.                         *)
ControlsStandAlone == At("fail") => {Said(d) : d \in Gate(Step.check, tree, Book)} = {Step.says}

(* What no suite exercises: ten of the eleven layer dependencies, imports  *)
(* of a layer's own module, indented imports, the missing layer, five      *)
(* names of the wall's allow-list, four trust-sensitive words, the scan of *)
(* the library root, public lines of the aggregates that are stale or      *)
(* twice there, and both faults in the tests' aggregate.                   *)
Untested ==
  (UNION {{layer} \X Forbidden[layer] : layer \in DOMAIN Forbidden} \ {<<"Semantics", "Protocol">>})
  \cup {<<"layer end", "itself">>, <<"wall end", "itself">>, <<"import_prefix", "with", "indented">>}
  \cup {<<"layer", "Applications">>}
  \cup {"allowed"} \X {"LeanIsa", "Transcript", "Proof", "Compile", "Verify"}
  \cup {"trust"} \X (Trust \ {"axiom"}) \cup {<<"path", "LeanerVM.lean">>}
  \cup {<<"list_imports", "with", "public">>, <<"stale", "tests">>, <<"duplicate", "tests">>}

(* The suites raise for every piece that is missing but the untested ones. *)
FaultsAreTold ==
  /\ outcome = "passed" => Book \ book \subseteq Untested
  /\ outcome = "raised" => ~(Book \ book \subseteq Untested)

=============================================================================
