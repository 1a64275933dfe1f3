--------------------------- MODULE RepositoryGates ---------------------------
(***************************************************************************)
(* The gates scripts/check-layers.sh, check-imports.sh and audit-lean.sh   *)
(* as functions of a source tree.  A path and a module are sequences of    *)
(* names: tests/LeanerVMTests/A.lean is <<"tests", "LeanerVMTests", "A">>. *)
(* A tree maps each path to [imports, trust, option]: its import lines     *)
(* [form, module] in order, where the form is the set of words around      *)
(* "import"; the trust-sensitive words in it; and the protected option     *)
(* check-lean-options.py finds set in it ("none", or "unterminated").      *)
(* The gates read lines, and a line here is an import of Lean's.           *)
(*                                                                         *)
(* A gate's verdict is the set of its diagnostics [rule, root, path], of   *)
(* which its messages name the rule and the root; it exits 0 when there    *)
(* are none.  The alternatives of its patterns and its checks are pieces   *)
(* of a book, so that one can be missing.                                  *)
(***************************************************************************)
EXTENDS Integers, SequencesExt

Under(path, dir) == IsPrefix(dir, path) /\ path # dir

(* Wrong: semantics may use applications.                                  *)
ForbiddenLess ==
  [Parameters |-> {"Semantics", "Arithmetization", "Applications", "Protocol"},
   Semantics |-> {"Arithmetization", "Protocol"},
   Arithmetization |-> {"Applications", "Protocol"}, Applications |-> {"Arithmetization", "Protocol"}]

Forbidden ==
  [Parameters |-> {"Semantics", "Arithmetization", "Applications", "Protocol"},
   Semantics |-> {"Arithmetization", "Applications", "Protocol"},
   Arithmetization |-> {"Applications", "Protocol"}, Applications |-> {"Arithmetization", "Protocol"}]

Layers == {"Applications", "Arithmetization", "Parameters", "Protocol", "Semantics"}

(* The modules inside the wall; "LeanIsa/" is any module in that directory.*)
AllowList == {"FixedColumns", "LeanIsa", "LeanIsa/", "Transcript", "Proof", "Compile", "Verify", "Headline"}

Trust == {"axiom", "sorry", "admit", "unsafe", "native_decide"}
Options == <<"autoImplicit", "relaxedAutoImplicit", "warningAsError", "linter", "weak.linter">>

(* The optional parts of the patterns for an import line.                  *)
Optional ==
  [import_prefix |-> {"indented", "public", "meta", "all"}, has_import |-> {"public"}, list_imports |-> {"public"}]

Book ==
  UNION {{layer} \X Forbidden[layer] : layer \in DOMAIN Forbidden}
  \cup {"layer end", "wall end"} \X {"itself", "below"}
  \cup UNION {{pattern} \X {"with", "without"} \X Optional[pattern] : pattern \in DOMAIN Optional}
  \cup {"layer"} \X Layers
  \cup {"allowed"} \X (AllowList \cup {"end"})
  \cup {"wall", "unknown layer", "loose", "missing", "stale", "duplicate"} \X {"LeanerVM"}
  \cup {"main", "missing", "stale", "duplicate", "outside"} \X {"tests"}
  \cup {"trust"} \X Trust \cup {"option"} \X (Range(Options) \cup {"unterminated"})
  \cup {"path"} \X {"LeanerVM", "LeanerVM.lean", "tests"}

Reads(book, pattern, form) ==
  /\ form \subseteq Optional[pattern]
  /\ \A word \in Optional[pattern] : <<pattern, IF word \in form THEN "with" ELSE "without", word>> \in book

(* The modules that a file's import lines name, in order, as a pattern     *)
(* reads them.                                                             *)
Names(tree, book, pattern, path) ==
  LET lines == tree[path].imports
      read == {form \in {lines[n].form : n \in DOMAIN lines} : Reads(book, pattern, form)}
      seen == SelectSeq(lines, LAMBDA i : i.form \in read)
  IN  [n \in DOMAIN seen |-> seen[n].module]

Diagnostics(rule, root, paths) == {[rule |-> rule, root |-> root, path |-> p] : p \in paths}
Checked(book, rule, root, paths) == IF <<rule, root>> \in book THEN Diagnostics(rule, root, paths) ELSE {}

-----------------------------------------------------------------------------
Imports(tree, book, path, end, dir) ==
  \E module \in Range(Names(tree, book, "import_prefix", path)) :
    \/ module = dir /\ <<end, "itself">> \in book
    \/ Under(module, dir) /\ <<end, "below">> \in book

(* Names that begin with another.                                          *)
Begins(name, allowed) == name = allowed \/ <<name, allowed>> = <<"LeanIsaExtra", "LeanIsa">>

Allowed(book, path) ==
  LET inside == SubSeq(path, 3, Len(path))
  IN  \E name \in AllowList :
        /\ <<"allowed", name>> \in book
        /\ \/ inside = <<name>>
           \/ name = "LeanIsa/" /\ Len(inside) = 2 /\ inside[1] = "LeanIsa"
           \/ <<"allowed", "end">> \notin book /\ Begins(inside[1], name)

check_layers(tree, book) ==
  LET lean(dir) == {p \in DOMAIN tree : Under(p, dir)}
      forbidden(layer) == {p \in lean(<<"LeanerVM", layer>>) : \E f \in Forbidden[layer] :
                             <<layer, f>> \in book /\ Imports(tree, book, p, "layer end", <<"LeanerVM", f>>)}
  IN  UNION {Diagnostics(layer, "LeanerVM", forbidden(layer)) : layer \in DOMAIN Forbidden}
      \cup Checked(book, "wall", "LeanerVM", {p \in lean(<<"LeanerVM", "Protocol">>) :
             Imports(tree, book, p, "wall end", <<"LeanerVM", "Arithmetization">>) /\ ~Allowed(book, p)})
      \cup Checked(book, "unknown layer", "LeanerVM", {p \in lean(<<"LeanerVM">>) : Len(p) > 2 /\ <<"layer", p[2]>> \notin book})
      \cup Checked(book, "loose", "LeanerVM", {p \in lean(<<"LeanerVM">>) : Len(p) = 2})

(* Wrong: a test module that the aggregate leaves out is not noticed.      *)
AggregatedAnyhow(tree, book, aggregate, root, dir) ==
  Checked(book, "stale", aggregate[1], {root \o m : m \in Range(Names(tree, book, "list_imports", aggregate))} \ DOMAIN tree)

(* One aggregate: it imports every module under dir, once, and no other.   *)
Aggregated(tree, book, aggregate, root, dir) ==
  LET listed == Names(tree, book, "list_imports", aggregate)
      imported == Range(Names(tree, book, "has_import", aggregate))
      module(p) == SubSeq(p, Len(root) + 1, Len(p))
  IN  Checked(book, "missing", aggregate[1], {p \in DOMAIN tree : Under(p, dir) /\ module(p) \notin imported})
      \cup Checked(book, "stale", aggregate[1], {root \o m : m \in Range(listed)} \ DOMAIN tree)
      \cup Checked(book, "duplicate", aggregate[1], {root \o listed[i] : i \in {i \in DOMAIN listed :
                                         \E j \in DOMAIN listed : i # j /\ listed[i] = listed[j]}})

Main == <<"tests", "Main">>
Tests == <<"tests", "LeanerVMTests">>

check_imports(tree, book) ==
  Checked(book, "main", "tests", IF <<"LeanerVMTests">> \in Range(Names(tree, book, "has_import", Main)) THEN {} ELSE {Main})
  \cup Aggregated(tree, book, <<"LeanerVM">>, <<>>, <<"LeanerVM">>)
  \cup Aggregated(tree, book, Tests, <<"tests">>, Tests)
  \cup Checked(book, "outside", "tests", {p \in DOMAIN tree :
                                   Under(p, <<"tests">>) /\ p \notin {Main, Tests} /\ ~Under(p, Tests)})

(* The option scan runs only when no trust-sensitive word was found.       *)
audit_lean(tree, book) ==
  LET scanned == {p \in DOMAIN tree : <<"path", IF p = <<"LeanerVM">> THEN "LeanerVM.lean" ELSE p[1]>> \in book}
      trusted == {p \in scanned : \E word \in tree[p].trust : <<"trust", word>> \in book}
      set(why) == {p \in scanned : <<"option", tree[p].option>> \in book /\ (tree[p].option = "unterminated") = why}
      found(rule, paths) == {[rule |-> rule, root |-> p[1], path |-> p] : p \in paths}
  IN  IF trusted # {} THEN found("trust", trusted)
      ELSE found("overridden", set(FALSE)) \cup found("unterminated", set(TRUE))

-----------------------------------------------------------------------------
Import(form, module) == <<[form |-> form, module |-> module]>>
File(imports) == [imports |-> imports, trust |-> {}, option |-> "none"]

(* The fixture of the gates' tests.                                        *)
Basics == [n \in 1..4 |-> <<"LeanerVM", <<"Arithmetization", "Parameters", "Protocol", "Semantics">>[n], "Basic">>]
Aggregate(form, modules) == File(FlattenSeq([n \in DOMAIN modules |-> Import(form, modules[n])]))

Fixture ==
  [p \in Range(Basics) |-> File(<<>>)]
  @@ (<<"LeanerVM">> :> Aggregate({"public"}, Basics))
  @@ (<<"tests", "LeanerVMTests", "Imports">> :> File(<<>>))
  @@ (Tests :> File(Import({"public"}, <<"LeanerVMTests", "Imports">>)))
  @@ (Main :> File(Import({"public"}, <<"LeanerVMTests">>)))

Gate(check, tree, book) ==
  CASE check = "check-layers.sh" -> check_layers(tree, book)
    [] check = "check-imports.sh" -> check_imports(tree, book)
    [] check = "audit-lean.sh" -> audit_lean(tree, book)

=============================================================================
