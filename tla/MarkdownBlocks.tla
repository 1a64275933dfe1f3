---------------------------- MODULE MarkdownBlocks ----------------------------
(***************************************************************************)
(* markdown_blocks of scripts/check-writing.py: one pass over the lines of *)
(* a Markdown text that keeps paragraphs, list items and table cells, and  *)
(* leaves out front matter, fenced and indented code, HTML comments,       *)
(* headings, table headers and legal sections.                             *)
(*                                                                         *)
(* A line is a sequence of tokens with a space between two; "indent" is    *)
(* four spaces at its start.  A line of a block is kept as the columns its *)
(* tokens have in the line of the file.                                    *)
(***************************************************************************)
EXTENDS Integers, SequencesExt, FiniteSetsExt

CONSTANTS
  Texts,   \* the files: sequences of lines
  Paths    \* what a path decides: records [lean, procedural, contributing]

Fences == ("ticks3" :> <<"tick", 3>>) @@ ("ticks4" :> <<"tick", 4>>) @@ ("tildes3" :> <<"tilde", 3>>)
Ticks  == ("tick" :> 1) @@ ("ticks3" :> 3) @@ ("ticks4" :> 4)
Level  == ("#" :> 1) @@ ("##" :> 2)
Tokens == {"indent", "tick", "<!--", "-->", "license", "porting", "w", "|", "-", "---", ">",
           "key:", "[x]"} \cup DOMAIN Fences \cup DOMAIN Level

VARIABLES
  path, lines,     \* the arguments
  code_spans,      \* the places of the text inside code spans
  offset,          \* the next line
  current,         \* the block being built: [line, last, procedural, text], open iff text # <<>>
  fence,           \* the open fence, or <<>>
  header_row,      \* a table row here would be a header
  legal_section,   \* the level of the legal heading above, or 0
  comment,         \* an HTML comment is open
  list_context,
  blocks

vars == <<path, lines, code_spans, offset, current, fence, header_row, legal_section, comment,
          list_context, blocks>>

Row(r) == lines[r]

(* The places of the text inside code spans: a run of backticks closes at  *)
(* the next run of the same width, on whatever line.                       *)
CodeSpans ==
  LET flat == FlattenSeq([r \in DOMAIN lines |-> [c \in DOMAIN lines[r] |-> <<r, c>>]])
      tick(i) == LET t == lines[flat[i][1]][flat[i][2]] IN IF t \in DOMAIN Ticks THEN Ticks[t] ELSE 0
      spans[i \in 1..Len(flat) + 1] ==
        IF i > Len(flat) THEN {}
        ELSE LET ends == {j \in i + 1..Len(flat) : tick(j) = tick(i)}
             IN  IF tick(i) = 0 \/ ends = {} THEN spans[i + 1]
                 ELSE {flat[k] : k \in i..Min(ends)} \cup spans[Min(ends) + 1]
  IN  spans[1]

(* The columns left of a line, and whether a comment stays open behind it. *)
strip_html_comments(r, inside0) ==
  LET strip[c \in 1..Len(Row(r)) + 1, inside \in BOOLEAN] ==
        IF c > Len(Row(r)) THEN [raw |-> <<>>, inside |-> inside]
        ELSE IF inside THEN strip[c + 1, Row(r)[c] # "-->"]
        ELSE IF Row(r)[c] = "<!--" /\ <<r, c>> \notin code_spans THEN strip[c + 1, TRUE]
        ELSE LET rest == strip[c + 1, FALSE] IN [rest EXCEPT !.raw = <<c>> \o @]
  IN  strip[1, inside0]

(* The first line behind YAML front matter.                                *)
FirstLine(t) ==
  LET closing == {r \in 2..Len(t) : t[r] = <<"---">>}
  IN  IF t # <<>> /\ t[1] = <<"---">> /\ closing # {}
           /\ \E r \in 2..Min(closing) - 1 : t[r] # <<>> /\ t[r][1] = "key:"
        THEN Min(closing) + 1 ELSE 1

-----------------------------------------------------------------------------
NoBlock == [line |-> 0, last |-> 0, procedural |-> FALSE, text |-> <<>>]

Init ==
  /\ path \in Paths /\ lines \in Texts
  /\ code_spans = CodeSpans
  /\ offset = FirstLine(lines)
  /\ current = NoBlock /\ fence = <<>> /\ header_row = TRUE /\ legal_section = 0
  /\ comment = FALSE /\ list_context = FALSE /\ blocks = <<>>

Flushed == IF current.text = <<>> THEN blocks ELSE Append(blocks, current)
flush == blocks' = Flushed /\ current' = NoBlock

Line == offset <= Len(lines) /\ offset' = offset + 1 /\ UNCHANGED <<path, lines, code_spans>>

Bare == SelectSeq(Row(offset), LAMBDA t : t # "indent")
Opens == ~comment /\ Bare # <<>> /\ Bare[1] \in DOMAIN Fences
Indented == Row(offset) # <<>> /\ Row(offset)[1] = "indent"
IsCode == ~path.lean /\ Indented /\ current.text = <<>> /\ ~comment /\ ~list_context

raw == strip_html_comments(offset, comment).raw
Tok(cols, k) == IF k \in DOMAIN cols THEN Row(offset)[cols[k]] ELSE "none"
stripped ==
  LET k == Min({j \in 1..Len(raw) + 1 : Tok(raw, j) \notin {"indent", ">"}}) IN SubSeq(raw, k, Len(raw))

IsHeading == Tok(stripped, 1) \in DOMAIN Level /\ Len(stripped) > 1
Title == LET n == IF Len(stripped) > 2 /\ Tok(stripped, Len(stripped)) \in DOMAIN Level THEN 1 ELSE 0
         IN  SubSeq(stripped, 2, Len(stripped) - n)
IsLegal == Len(Title) = 1 /\ Tok(Title, 1) \in {"license"} \cup (IF path.contributing THEN {"porting"} ELSE {})
IsBreak == stripped = <<>> \/ (Len(stripped) = 1 /\ Tok(stripped, 1) = "---")

(* The column of a list item's marker, 0 if the line is no item.           *)
Marker == LET k == IF Tok(raw, 1) = "indent" THEN 2 ELSE 1
          IN  IF Tok(raw, k) = "-" /\ raw[k] < Len(Row(offset)) THEN raw[k] ELSE 0

InFence ==
  /\ Line /\ fence # <<>>
  /\ fence' = IF Len(Bare) = 1 /\ Bare[1] \in DOMAIN Fences /\ Fences[Bare[1]][1] = fence[1]
                 /\ Fences[Bare[1]][2] >= fence[2] THEN <<>> ELSE fence
  /\ UNCHANGED <<current, header_row, legal_section, comment, list_context, blocks>>

(* Wrong: the paragraph above a fence goes on behind it.                   *)
OpenFenceKept ==
  /\ Line /\ fence = <<>> /\ Opens
  /\ fence' = Fences[Bare[1]]
  /\ UNCHANGED <<current, blocks, header_row, legal_section, comment, list_context>>

OpenFence ==
  /\ Line /\ fence = <<>> /\ Opens
  /\ flush /\ fence' = Fences[Bare[1]]
  /\ UNCHANGED <<header_row, legal_section, comment, list_context>>

IndentedCode ==
  /\ Line /\ fence = <<>> /\ ~Opens /\ IsCode
  /\ UNCHANGED <<current, fence, header_row, legal_section, comment, list_context, blocks>>

(* What every line behind these does first.                                *)
TextLine ==
  /\ Line /\ fence = <<>> /\ ~Opens /\ ~IsCode
  /\ comment' = strip_html_comments(offset, comment).inside
  /\ UNCHANGED fence

(* Wrong: any heading ends a legal section.                                *)
HeadingAny ==
  /\ TextLine /\ IsHeading
  /\ flush /\ header_row' = TRUE
  /\ legal_section' = IF IsLegal THEN Level[Tok(stripped, 1)] ELSE 0
  /\ UNCHANGED list_context

Heading ==
  /\ TextLine /\ IsHeading
  /\ flush /\ header_row' = TRUE
  /\ LET level == Level[Tok(stripped, 1)]
         above == IF level <= legal_section THEN 0 ELSE legal_section
     IN  legal_section' = IF above = 0 /\ IsLegal THEN level ELSE above
  /\ UNCHANGED list_context

LegalText ==
  /\ TextLine /\ ~IsHeading /\ legal_section # 0
  /\ UNCHANGED <<current, header_row, legal_section, list_context, blocks>>

ProseLine == TextLine /\ ~IsHeading /\ legal_section = 0 /\ UNCHANGED legal_section

Break == ProseLine /\ IsBreak /\ flush /\ header_row' = TRUE /\ UNCHANGED list_context

SplitCells ==
  LET bars == SetToSortSeq({k \in DOMAIN stripped : Tok(stripped, k) = "|"} \cup {Len(stripped) + 1}, <)
  IN  SelectSeq([n \in 1..Len(bars) - 1 |-> SubSeq(stripped, bars[n] + 1, bars[n + 1] - 1)],
                LAMBDA cell : cell # <<>>)

TableRow ==
  /\ ProseLine /\ ~IsBreak /\ Tok(stripped, 1) = "|"
  /\ current' = NoBlock
  /\ IF Len(stripped) > 1 /\ \A k \in DOMAIN stripped : Tok(stripped, k) \in {"|", "-", "---"}
       THEN blocks' = Flushed /\ UNCHANGED header_row
       ELSE /\ blocks' = Flushed \o
                 (IF header_row THEN <<>>
                  ELSE [n \in DOMAIN SplitCells |->
                          [line |-> offset, last |-> offset, procedural |-> FALSE, text |-> <<SplitCells[n]>>]])
            /\ header_row' = FALSE
  /\ UNCHANGED list_context

Plain == ProseLine /\ ~IsBreak /\ Tok(stripped, 1) # "|" /\ header_row' = TRUE

Item ==
  /\ Plain /\ Marker # 0
  /\ blocks' = Flushed
  /\ LET rest == SelectSeq(raw, LAMBDA c : c > Marker)
     IN  current' = [line |-> offset, last |-> offset, text |-> <<rest>>,
                     procedural |-> path.procedural \/ (Tok(rest, 1) = "[x]" /\ rest[1] < Len(Row(offset)))]
  /\ list_context' = TRUE

Paragraph ==
  /\ Plain /\ Marker = 0
  /\ list_context' = (list_context /\ (raw[1] # 1 \/ Indented))
  /\ current' = [line |-> IF current.text = <<>> THEN offset ELSE current.line,
                 last |-> offset,
                 procedural |-> IF current.text = <<>> THEN path.procedural ELSE current.procedural,
                 text |-> Append(current.text, stripped)]
  /\ UNCHANGED blocks

Finish ==
  /\ offset = Len(lines) + 1 /\ offset' = offset + 1 /\ flush
  /\ UNCHANGED <<path, lines, code_spans, fence, header_row, legal_section, comment, list_context>>

Next == InFence \/ OpenFence \/ IndentedCode \/ Heading \/ LegalText \/ Break \/ TableRow \/ Item
        \/ Paragraph \/ Finish

Spec == Init /\ [][Next]_vars

-----------------------------------------------------------------------------
Done == offset > Len(lines) + 1

(* What is open where a row begins: <<"text">>, <<"comment">> or a fence.  *)
(* One thing at a time, where the code has a fence and a flag.             *)
Open ==
  LET opener(r) == {c \in DOMAIN lines[r] : lines[r][c] = "<!--" /\ <<r, c>> \notin code_spans}
      stays(r, m) == \E o \in opener(r) \cup (IF m = <<"comment">> THEN {0} ELSE {}) :
                       \A c \in o + 1..Len(lines[r]) : lines[r][c] # "-->"
      bare(r) == SelectSeq(lines[r], LAMBDA t : t # "indent")
      open[r \in 1..Len(lines) + 1] ==
        IF r <= FirstLine(lines) THEN <<"text">>
        ELSE LET m == open[r - 1]
                 b == bare(r - 1)
                 mark == IF b # <<>> /\ b[1] \in DOMAIN Fences THEN Fences[b[1]] ELSE <<>>
             IN  IF Len(m) = 2 THEN IF Len(b) = 1 /\ mark # <<>> /\ mark[1] = m[1] /\ mark[2] >= m[2]
                                      THEN <<"text">> ELSE m
                 ELSE IF m = <<"text">> /\ mark # <<>> THEN mark
                 ELSE IF stays(r - 1, m) THEN <<"comment">> ELSE <<"text">>
  IN  open

(* Out of code, comments and quotation marks: what a row shows.            *)
Shown(r) ==
  LET o == Open[r]
      openers(c) == {k \in 1..c - 1 : lines[r][k] = "<!--" /\ <<r, k>> \notin code_spans}
                      \cup (IF o = <<"comment">> THEN {0} ELSE {})
      hidden(c) == \E k \in openers(c) : \A j \in k + 1..c - 1 : lines[r][j] # "-->"
  IN  IF Len(o) = 2 \/ r < FirstLine(lines) THEN {}
      ELSE {c \in DOMAIN lines[r] : /\ ~hidden(c) /\ lines[r][c] \notin {"indent", ">"}
                                    /\ lines[r][c] = "<!--" => <<r, c>> \in code_spans}

Lead(r) == IF Shown(r) = {} THEN "none" ELSE lines[r][Min(Shown(r))]
HeadingLevel(r) == IF Lead(r) \in DOMAIN Level /\ Cardinality(Shown(r)) > 1 THEN Level[Lead(r)] ELSE 0

(* Under a legal heading, until a heading that does not lie deeper.        *)
UnderLegal(r) ==
  \E h \in 1..r - 1 :
    /\ HeadingLevel(h) # 0
    /\ LET title == [c \in Shown(h) \ {Min(Shown(h))} |-> lines[h][c]]
       IN  \/ Cardinality(DOMAIN title) = 1 /\ Range(title) \subseteq {"license"}
           \/ Cardinality(DOMAIN title) = 2 /\ title[Min(DOMAIN title)] = "license"
                /\ title[Max(DOMAIN title)] \in DOMAIN Level
           \/ path.contributing /\ Range(title) = {"porting"} /\ Cardinality(DOMAIN title) = 1
    /\ \A k \in h + 1..r : HeadingLevel(k) = 0 \/ HeadingLevel(k) > HeadingLevel(h)

(* What the suggestions will point at: the lines of a block are counted    *)
(* on from its first.                                                      *)
Reported ==
  UNION {UNION {{<<b.line + k - 1, c>> : c \in Range(b.text[k])} : k \in DOMAIN b.text} : b \in Range(blocks)}

(* Nothing exempt is reported, and nothing at a wrong line: no front       *)
(* matter, code, comment, heading, legal section or table header.          *)
ExemptStaysOut ==
  Done => \A p \in Reported :
    LET r == p[1]
    IN  /\ p[2] \in Shown(r) \/ lines[r][p[2]] = ">"
        /\ HeadingLevel(r) = 0 /\ ~UnderLegal(r)
        /\ Lead(r) = "|" => r > 1 /\ Shown(r - 1) # {}
        /\ lines[r][1] = "indent" /\ ~path.lean =>
             \/ \E c \in Shown(r - 1) : <<r - 1, c>> \in Reported
             \/ \E q \in 1..r - 1 : Lead(q) = "-"

(* Every other word of the lines that are not indented is reported.        *)
ShownProseIsReported ==
  Done =>
    \A r \in DOMAIN lines : \A c \in Shown(r) :
      \/ lines[r][c] # "w" \/ <<r, c>> \in Reported
      \/ lines[r][1] = "indent" \/ HeadingLevel(r) # 0 \/ UnderLegal(r) \/ Len(Open[r]) = 2
      \/ Lead(r) \in DOMAIN Fences /\ Open[r] = <<"text">>
      \/ Lead(r) = "|" /\ (r = 1 \/ Lead(r - 1) # "|" \/ \A k \in Shown(r - 1) : lines[r - 1][k] # "w")

(* A block is judged as a procedure for its own sake: it is a checklist    *)
(* item or its file is a procedure, whatever block came before it; and     *)
(* its lines are the rows it claims, so that an added line finds it.       *)
ProceduralIsTheItems ==
  \A n \in DOMAIN blocks :
    LET b == blocks[n]
    IN  /\ b.procedural =>
             path.procedural \/ \E k \in 2..Len(lines[b.line]) : SubSeq(lines[b.line], k - 1, k) = <<"-", "[x]">>
        /\ b.last = b.line + Len(b.text) - 1
=============================================================================
