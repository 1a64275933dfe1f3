----------------------------- MODULE MCLeanLexers -----------------------------
(***************************************************************************)
(* The two scripts that read Lean text without Lean: the comments that     *)
(* check-writing.py cuts out of a file (LeanComments) and the options that *)
(* check-lean-options.py looks for (OptionScan).  A behaviour is one of    *)
(* the two on any text; the variables of the other rest at 0.              *)
(***************************************************************************)
EXTENDS Integers, SequencesExt, FiniteSetsExt

VARIABLES
  script,   \* "writing" or "options"
  text, index, line, comment_lines, blocks, done,
  files, file, offset, failures, exit

writingVars == <<text, index, line, comment_lines, blocks, done>>
optionVars  == <<files, file, offset, failures, exit>>
vars == <<script, writingVars, optionVars>>

Separated(ps, n) == {FlattenSeq(p) : p \in UNION {[1..k -> ps] : k \in 0..n}}

-----------------------------------------------------------------------------
(* Every text of up to three characters, and of up to five of the pieces   *)
(* that make comments, strings and literals.                               *)
Singles == {<<c>> : c \in {"w", "r", "space", "newline", "/", "-", "!", "quote", "'", "\\", "#"}}
Marks == {<<"/", "-">>, <<"-", "/">>, <<"-", "-">>, <<"w">>, <<"newline">>, <<"space">>, <<"quote">>, <<"\\", "newline">>}
Literals ==
  {<<"'", "quote", "'">>, <<"'", "\\", "'", "'">>, <<"r", "quote">>,
   <<"r", "#", "quote">>, <<"quote", "#">>, <<"w", "'">>, <<"quote">>, <<"-", "-", "w">>,
   <<"newline">>, <<"/", "-", "!", "w">>, <<"\\", "quote">>}

Texts == Separated(Singles, 3) \cup Separated(Marks, 5) \cup Separated(Literals, 4)

(* Every text made of a context, a set_option, up to four pieces of        *)
(* separator and one name, and calls with two files.                       *)
Gaps == {<<"/", "-">>, <<"-", "/">>, <<"-", "-">>, <<"/">>, <<"-">>, <<"newline">>,
         <<"space">>, <<"warningAsError">>, <<"quote">>}

W == "warningAsError"
Names ==
  {<<W>>, <<"[", W, "]", "space">>, <<W, ".", "other">>, <<W, "other">>, <<W, ".">>,
   <<"linter", ".", "other">>, <<"[", "linter", "]", ".", "other">>,
   <<"weak", ".", "linter">>, <<"weak", ".", "[", "linter", "]">>, <<"other", ".", "linter">>,
   <<"[", W>>, <<"space", "set_option", "space", "linter", "space">>}

Contexts == {<<>>, <<"/", "-">>, <<"quote">>}
Command(c, s, n) == c \o <<"set_option">> \o s \o n

Arguments ==
  {<<Command(<<>>, s, n)>> : s \in Separated(Gaps, 4), n \in {<<W>>, <<"other">>}}
  \cup {<<Command(c, s, n)>> : c \in Contexts, s \in Separated(Gaps, 2), n \in Names}
  \cup {<<Command(c, t, n), Command(<<>>, s, <<"other">>)>> :
          s \in Separated(Gaps, 1), t \in Separated(Gaps, 1), c \in Contexts, n \in Names}

-----------------------------------------------------------------------------
Comments == INSTANCE LeanComments
Options  == INSTANCE OptionScan

ASSUME TextsAssumption == \A t \in Texts : t \in Seq(Comments!Chars)
ASSUME ArgumentsAssumption == \A fs \in Arguments : fs \in Seq(Seq(Options!Chars)) /\ fs # <<>>

CommentsRest == text = 0 /\ index = 0 /\ line = 0 /\ comment_lines = 0 /\ blocks = 0 /\ done = 0
OptionsRest  == files = 0 /\ file = 0 /\ offset = 0 /\ failures = 0 /\ exit = 0

Init ==
  \/ script = "writing" /\ Comments!Init /\ OptionsRest
  \/ script = "options" /\ Options!Init /\ CommentsRest

Next ==
  /\ UNCHANGED script
  /\ \/ script = "writing" /\ Comments!Next /\ UNCHANGED optionVars
     \/ script = "options" /\ Options!Next /\ UNCHANGED writingVars

Spec == Init /\ [][Next]_vars

-----------------------------------------------------------------------------
(* The prose handed on is what Lean reads as comments, each character on   *)
(* the line it has in the file (LeanComments).                             *)
ProseIsTheComments == script = "writing" => Comments!LinesAreTheFiles /\ Comments!ProseIsTheComments

(* A text the scan accepts sets no protected option as Lean reads it, and  *)
(* what the scan reports is set there (OptionScan).                        *)
ReportsWhatLeanSees == script = "options" => Options!ReportsWhatLeanSees /\ Options!NothingHidden

=============================================================================
