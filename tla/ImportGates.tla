------------------------------ MODULE ImportGates ------------------------------
(***************************************************************************)
(* What the import gates are for.  They read each file on its own; what    *)
(* they protect is transitive: the layers' order along every chain of      *)
(* imports, and that a build of the two roots builds every module.  A tree *)
(* is edited one line at a time; whatever is reached, a tree that passes   *)
(* the gates and builds has both.                                          *)
(***************************************************************************)
EXTENDS RepositoryGates

CONSTANTS
  Paths,        \* the files an edit may add
  Importable,   \* the import lines an edit may add, each [form, module]
  MAX_EDITS     \* the number of edits

VARIABLES tree, edits

vars == <<tree, edits>>

ModuleOf(p) == IF p[1] = "tests" THEN Tail(p) ELSE p
Modules == {ModuleOf(p) : p \in DOMAIN tree}

Init == tree = Fixture /\ edits = 0

AddFile ==
  /\ edits < MAX_EDITS /\ edits' = edits + 1
  /\ \E p \in Paths \ DOMAIN tree : tree' = (p :> File(<<>>)) @@ tree

(* The module is added before an import of it: in the other order nothing  *)
(* builds between.                                                         *)
AddImport ==
  /\ edits < MAX_EDITS /\ edits' = edits + 1
  /\ \E p \in DOMAIN tree, line \in Importable :
       /\ line.module \in Modules
       /\ tree' = [tree EXCEPT ![p].imports = Append(@, line)]

DropImport ==
  /\ edits < MAX_EDITS /\ edits' = edits + 1
  /\ \E p \in DOMAIN tree : \E line \in Range(tree[p].imports) :
       tree' = [tree EXCEPT ![p].imports = SelectSeq(@, LAMBDA i : i # line)]

Next == AddFile \/ AddImport \/ DropImport

Spec == Init /\ [][Next]_vars

-----------------------------------------------------------------------------
Direct == UNION {{<<ModuleOf(p), line.module>> : line \in Range(tree[p].imports)} : p \in DOMAIN tree}

(* What each module reaches: chains through one more module at a time.     *)
Reaches ==
  LET through(m, r) == r \cup ({e[1] : e \in {e \in r : e[2] = m}} \X {e[2] : e \in {e \in r : e[1] = m}})
  IN  FoldSet(through, Direct, Modules)

(* Lean builds the tree: every import is a module, and none is its own.    *)
Builds == LET r == Reaches IN /\ \A e \in Direct : e[2] \in Modules
                              /\ \A e \in r : e[1] # e[2]

Accepted == check_imports(tree, Book) = {} /\ check_layers(tree, Book) = {}

(* Lower layers reach no higher one, along any chain of imports: also not  *)
(* through the aggregate, which every module would be part of a cycle      *)
(* with.  The library is taken to import no test.                          *)
LayersHoldAlongChains ==
  Accepted /\ Builds /\ (\A e \in Direct : e[1][1] = "LeanerVM" => e[2][1] = "LeanerVM") =>
    \A e \in Reaches :
      Len(e[1]) > 1 /\ e[1][2] \in DOMAIN Forbidden =>
        Len(e[2]) > 1 /\ e[2][2] \notin Forbidden[e[1][2]]

(* Building the library root and the test driver builds every module.      *)
RootsReachEverything ==
  Accepted /\ Builds =>
    LET reached == {e[2] : e \in {d \in Reaches : d[1] \in {<<"LeanerVM">>, <<"Main">>}}}
    IN  Modules \subseteq reached \cup {<<"LeanerVM">>, <<"Main">>}

=============================================================================
