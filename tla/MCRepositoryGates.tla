--------------------------- MODULE MCRepositoryGates ---------------------------
(***************************************************************************)
(* The gates under two uses.  In one a tree is edited up to four times,    *)
(* with one new module in each of three places, and the gates judge what   *)
(* is there (ImportGates); in the other the gates' own tests plant files   *)
(* in the tree (PolicyTests).                                              *)
(***************************************************************************)
EXTENDS PolicyTests

CONSTANT MAX_EDITS   \* the number of edits

VARIABLES use, edits

App == <<"LeanerVM", "Applications", "App">>
Headline == <<"LeanerVM", "Protocol", "Headline">>
Paths == {App, Headline, <<"tests", "LeanerVMTests", "New">>}
Importable ==
  {[form |-> {"public"}, module |-> m] :
     m \in {App, <<"LeanerVM">>, Headline, <<"LeanerVMTests", "New">>}
            \cup {Basic(layer) : layer \in {"Arithmetization", "Protocol", "Semantics"}}}
  \cup {[form |-> {"meta"}, module |-> App]}

Edited == INSTANCE ImportGates

ASSUME EditsAssumption == MAX_EDITS \in Nat

testVars == <<book, suite, done, outcome>>

MCInit ==
  \/ use = "edits" /\ Edited!Init /\ book = {} /\ suite = 0 /\ done = 0 /\ outcome = "edited"
  \/ use = "tests" /\ Init /\ edits = 0

MCNext ==
  /\ UNCHANGED use
  /\ \/ use = "edits" /\ Edited!Next /\ UNCHANGED testVars
     \/ use = "tests" /\ Next /\ UNCHANGED edits

MCSpec == MCInit /\ [][MCNext]_<<vars, use, edits>>

-----------------------------------------------------------------------------
(* Lower layers reach no higher one along any chain of imports, whenever   *)
(* the gates pass (ImportGates).                                           *)
LayersHoldAlongChains == use = "edits" => Edited!LayersHoldAlongChains

(* The library root and the test driver build every module, whenever the   *)
(* gates pass (ImportGates).                                               *)
RootsReachEverything == use = "edits" => Edited!RootsReachEverything

(* A control fails for its own violation alone, and the suites raise for   *)
(* every piece missing from the gates but the ones they do not try         *)
(* (PolicyTests).                                                          *)
SuitesTestTheGates == use = "tests" => ControlsStandAlone /\ FaultsAreTold

=============================================================================
