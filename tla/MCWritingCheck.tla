---------------------------- MODULE MCWritingCheck ----------------------------
(***************************************************************************)
(* The three stages of scripts/check-writing.py on Markdown in one model:  *)
(* which sources a change names (ChangedProse), the blocks of a source     *)
(* (MarkdownBlocks) and the sentences of a block (Sentences).  Each stage  *)
(* hands the next a plain value, so a behaviour is one stage on any value, *)
(* and the variables of the others rest at 0.                              *)
(***************************************************************************)
EXTENDS Integers, SequencesExt, FiniteSetsExt

CONSTANTS PROCEDURAL_LIMIT, DESCRIPTIVE_LIMIT

VARIABLES
  stage,    \* "change", "blocks" or "sentences"
  repository, mode, names, cursor, result, todo, touched, diagnostics, printed, phase,
  path, lines, code_spans, offset, current, fence, header_row, legal_section, comment, list_context,
  blocks,
  text, procedural, counted, parts, part, found

changeVars   == <<repository, mode, names, cursor, result, todo, touched, diagnostics, printed, phase>>
blockVars    == <<path, lines, code_spans, offset, current, fence, header_row, legal_section, comment,
                  list_context, blocks>>
sentenceVars == <<text, procedural, counted, parts, part, found>>
vars == <<stage, changeVars, blockVars, sentenceVars>>

-----------------------------------------------------------------------------
(* Up to two entries over three paths and an old name, one of them not     *)
(* checked, with files of two blocks in four lines.                        *)
Paths == {"a.md", "b.md", "c.txt", "old.md"}
CheckedPaths == {"a.md", "b.md", "old.md"}

Entries == {[status |-> s, source |-> p, path |-> p] : s \in {"A", "M", "T"}, p \in Paths}
           \cup {[status |-> "R", source |-> p, path |-> q] : p, q \in Paths}
Real(es) ==
  \A n \in DOMAIN es : /\ es[n].path # "old.md"
                       /\ es[n].status = "R" => es[n].source # es[n].path
                       /\ \A i \in DOMAIN es : /\ i # n => es[i].path # es[n].path
                                               /\ es[n].status = "R" => es[i].path # es[n].source
Lists == {<<>>} \cup {<<e>> : e \in Entries} \cup {<<e, f>> : e, f \in Entries}

TwoBlocks == {[line |-> 1, last_line |-> 2], [line |-> 4, last_line |-> 4]}
FileOf(kind, a, d) == [kind |-> kind, added |-> a, deleted |-> d, blocks |-> TwoBlocks]
Files == {FileOf(kind, a, d) : kind \in {"text", "symlink", "binary", "unreadable"}, a \in {{}, {2, 3}}, d \in {{}, {4}}}
         \cup {FileOf("text", a, {}) : a \in {{3}, {1, 4}}}

Repositories ==
  {[entries |-> es, files |-> ("a.md" :> f) @@ ("b.md" :> FileOf(kind, {1}, {3})) @@ ("c.txt" :> FileOf("text", {1}, {3}))] :
     es \in {l \in Lists : Real(l)}, f \in Files, kind \in {"text", "symlink"}}

Modes == {[base |-> TRUE, names |-> <<>>], [base |-> FALSE, names |-> <<"a.md", "b.md">>]}

-----------------------------------------------------------------------------
(* Every text of up to three lines out of the families of lines that       *)
(* interact (fences and comments, headings, items and tables), and of four *)
(* out of the ones that stay open.                                         *)
W == <<"w">>
Blank == <<>>

Spans == {W, Blank, <<"ticks3">>, <<"ticks4">>, <<"tildes3">>, <<"ticks3", "w">>, <<"indent", "ticks3">>, <<"<!--", "w">>,
          <<"w", "-->", "w">>, <<"tick", "<!--", "tick">>, <<"tick", "w">>}
Sections == {W, Blank, <<"#", "license">>, <<"##", "license", "##">>, <<"#", "w">>, <<"##", "w">>,
             <<"##", "porting">>, <<"<!--", "-->", "#", "w">>, <<">", "#", "w">>, <<"#">>}
Items == {W, Blank, <<"-", "w">>, <<"-", "[x]", "w">>, <<"indent", "w">>, <<"indent", "-", "w">>, <<"|", "w", "|", "w">>,
          <<"|", "-", "|">>, <<"---">>, <<"key:", "w">>, <<">", "w">>}
Mixed == {W, Blank, <<"-", "<!--">>, <<"|", "w", "<!--", "|", "-->">>, <<"-->", "ticks3">>, <<"#", "license">>, <<"ticks3">>,
          <<"indent", "w">>, <<"---">>, <<"key:">>, <<"-", "[x]">>}
Deeper == {W, Blank, <<"ticks3">>, <<"<!--", "w">>, <<"-->", "w">>, <<"#", "license">>, <<"#", "w">>}

Markdown == UNION {[1..n -> s] : n \in 0..3, s \in {Spans, Sections, Items, Mixed}} \cup [1..4 -> Deeper]
Kinds == {[lean |-> FALSE, procedural |-> FALSE, contributing |-> FALSE],
          [lean |-> TRUE, procedural |-> FALSE, contributing |-> FALSE],
          [lean |-> FALSE, procedural |-> TRUE, contributing |-> TRUE]}

(* Every text of up to four of the pieces below (parentheses that nest or  *)
(* do not match, links, quotations, code and abbreviations), and of six of *)
(* the pieces that nest.                                                   *)
Pieces == {<<"w", "space">>, <<"W">>, <<"w">>, <<".", "space">>, <<".">>, <<"newline">>, <<"etc.", "space">>, <<"(">>, <<")">>}
Marked == {<<"w", "space">>, <<"W">>, <<".", "space">>, <<"(">>, <<")">>, <<"quote", "w">>, <<"quote">>,
           <<"[", "w">>, <<"](t)">>, <<"tick", "space">>}
Prose == {FlattenSeq(p) : p \in UNION {[1..n -> s] : n \in 1..4, s \in {Pieces, Marked}}
                                 \cup [1..6 -> {<<"w", "space">>, <<".", "space">>, <<"(">>, <<")">>}]}

-----------------------------------------------------------------------------
Change    == INSTANCE ChangedProse WITH blocks <- touched
Splitter  == INSTANCE MarkdownBlocks WITH Texts <- Markdown, Paths <- Kinds
Sentence  == INSTANCE Sentences WITH Texts <- Prose

(* What git tells apart, tokens, characters.                               *)
ASSUME RepositoriesAssumption ==
  \A r \in Repositories :
    /\ \A n \in DOMAIN r.entries :
         /\ {r.entries[n].source, r.entries[n].path} \subseteq Paths
         /\ r.entries[n].status \notin {"R", "C"} => r.entries[n].source = r.entries[n].path
    /\ \A p \in DOMAIN r.files : r.files[p].kind \in Change!Kinds
ASSUME TextsAssumption ==
  /\ \A t \in Markdown : t \in Seq(Seq(Splitter!Tokens)) /\ \A r \in DOMAIN t : \A c \in 2..Len(t[r]) : t[r][c] # "indent"
  /\ \A t \in Prose : t \in Seq(Sentence!Chars)
ASSUME LimitsAssumption == PROCEDURAL_LIMIT \in Nat /\ DESCRIPTIVE_LIMIT \in Nat

ChangeRests ==
  /\ repository = 0 /\ mode = 0 /\ names = 0 /\ cursor = 0 /\ result = 0 /\ todo = 0
  /\ touched = 0 /\ diagnostics = 0 /\ printed = 0 /\ phase = 0
BlocksRest ==
  /\ path = 0 /\ lines = 0 /\ code_spans = 0 /\ offset = 0 /\ current = 0 /\ fence = 0 /\ header_row = 0
  /\ legal_section = 0 /\ comment = 0 /\ list_context = 0 /\ blocks = 0
SentencesRest == text = 0 /\ procedural = 0 /\ counted = 0 /\ parts = 0 /\ part = 0 /\ found = 0

Init ==
  \/ stage = "change" /\ Change!Init /\ BlocksRest /\ SentencesRest
  \/ stage = "blocks" /\ Splitter!Init /\ ChangeRests /\ SentencesRest
  \/ stage = "sentences" /\ Sentence!Init /\ ChangeRests /\ BlocksRest

Next ==
  /\ UNCHANGED stage
  /\ \/ stage = "change" /\ Change!Next /\ UNCHANGED <<blockVars, sentenceVars>>
     \/ stage = "blocks" /\ Splitter!Next /\ UNCHANGED <<changeVars, sentenceVars>>
     \/ stage = "sentences" /\ Sentence!Next /\ UNCHANGED <<changeVars, blockVars>>

Spec == Init /\ [][Next]_vars

-----------------------------------------------------------------------------
(* The lines read off git's output are the added ones, and a report covers *)
(* all its sources (ChangedProse).                                         *)
ReportIsTheChange == stage = "change" => Change!ChangesAreGits /\ Change!ReportIsTheChange

(* Nothing exempt is prose, and nothing is prose at a wrong line           *)
(* (MarkdownBlocks).                                                       *)
ExemptStaysOut == stage = "blocks" => Splitter!ExemptStaysOut

(* What a reader sees as prose is reported, with the limit that its own    *)
(* block asks for (MarkdownBlocks).                                        *)
ShownProseIsReported == stage = "blocks" => Splitter!ShownProseIsReported /\ Splitter!ProceduralIsTheItems

(* Each word is counted in one sentence, at its own place, and no          *)
(* abbreviation ends a sentence inside a text (Sentences).                 *)
EveryWordInOneSentence ==
  stage = "sentences" =>
    Sentence!PartsArePlaces /\ Sentence!EveryWordInOneSentence /\ Sentence!AbbreviationsEndNothing

=============================================================================
