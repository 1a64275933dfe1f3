----------------------------- MODULE LeanComments -----------------------------
(***************************************************************************)
(* lean_blocks of scripts/check-writing.py: the prose of a Lean file, cut  *)
(* out of its comments.  One pass over the text keeps the number of the    *)
(* current line beside the index; every comment, and every run of line     *)
(* comments on consecutive lines, is handed to the Markdown splitter with  *)
(* the number of its first line.                                           *)
(*                                                                         *)
(* A chunk of prose is kept as the places its characters have in the text, *)
(* with 0 for the newline that joins two line comments.                    *)
(***************************************************************************)
EXTENDS Integers, Sequences, FiniteSetsExt

CONSTANT Texts   \* the files: sequences of characters

Letter == {"w", "r"}
Space  == {"space", "newline"}
Chars  == Letter \cup Space \cup {"/", "-", "!", "quote", "'", "\\", "#"}

VARIABLES
  text,           \* the file
  index,          \* the next character, Len(text) + 1 at the end
  line,           \* the line of that character
  comment_lines,  \* the run of line comments so far: records [line, body]
  blocks,         \* the chunks handed on: records [line, body]
  done

vars == <<text, index, line, comment_lines, blocks, done>>

length == Len(text)
At(i, s) == i + Len(s) - 1 <= length /\ SubSeq(text, i, i + Len(s) - 1) = s
Places(i, j) == [k \in 1..j - i |-> i + k - 1]
Newlines(i, j) == Cardinality({k \in i..j - 1 : k <= length /\ text[k] = "newline"})

(* The first place from i on where s stands, and the place behind it.      *)
Behind(i, s) ==
  LET found == {k \in i..length : At(k, s)}
  IN  IF found = {} THEN length + 1 ELSE Min(found) + Len(s)

strip(places) ==
  LET kept == {k \in DOMAIN places : text[places[k]] \notin Space}
  IN  IF kept = {} THEN <<>> ELSE SubSeq(places, Min(kept), Max(kept))

(* A quote or an r that continues an identifier starts no literal.         *)
Continues(i) == i > 1 /\ text[i - 1] \in Letter \cup {"'"}

(* The ends of literals that start at i, 0 if none does.                   *)
CharEnd(i) ==
  IF ~At(i, <<"'">>) \/ Continues(i) THEN 0
  ELSE IF At(i + 1, <<"\\">>) /\ At(i + 3, <<"'">>) /\ text[i + 2] # "newline" THEN i + 4
  ELSE IF At(i + 2, <<"'">>) /\ text[i + 1] \notin {"\\", "'", "newline"} THEN i + 3
  ELSE 0

RawEnd(i) ==
  LET hashes == {k \in 0..length : At(i, <<"r">> \o [n \in 1..k |-> "#"] \o <<"quote">>)}
      k == Min(hashes)
  IN  IF hashes = {} \/ Continues(i) THEN 0
      ELSE Behind(i + k + 2, <<"quote">> \o [n \in 1..k |-> "#"])

(* Wrong: a backslash escapes nothing.                                     *)
StringEndPlain(i) ==
  IF At(i, <<"quote">>) THEN Behind(i + 1, <<"quote">>) ELSE 0

StringEnd(i) ==
  LET end[k \in 1..length + 2] ==
        IF k > length THEN k + 1
        ELSE IF text[k] = "quote" THEN k + 1
        ELSE IF text[k] = "\\" THEN end[k + 2]
        ELSE end[k + 1]
  IN  IF At(i, <<"quote">>) THEN Min({end[i + 1], length + 1}) ELSE 0

(* Behind a block comment: the place and the comments still open there.    *)
BlockEnd(i) ==
  LET cursor[k \in 1..length + 1, depth \in 0..length] ==
        IF k > length \/ depth = 0 THEN [end |-> k, depth |-> depth]
        ELSE IF At(k, <<"/", "-">>) THEN cursor[k + 2, depth + 1]
        ELSE IF At(k, <<"-", "/">>) THEN cursor[k + 2, depth - 1]
        ELSE cursor[k + 1, depth]
  IN  cursor[i + 2, 1]

-----------------------------------------------------------------------------
Init ==
  /\ text \in Texts
  /\ index = 1 /\ line = 1 /\ comment_lines = <<>> /\ blocks = <<>> /\ done = FALSE

(* flush_line_comments                                                     *)
Run ==
  LET body[k \in 1..Len(comment_lines)] ==
        (IF k = 1 THEN <<>> ELSE body[k - 1] \o <<0>>) \o comment_lines[k].body
  IN  [line |-> comment_lines[1].line, body |-> body[Len(comment_lines)]]
Flushed == IF comment_lines = <<>> THEN blocks ELSE Append(blocks, Run)

Literal(i) ==
  LET ends == {CharEnd(i), RawEnd(i), StringEnd(i)} \ {0}
  IN  IF ends = {} THEN 0 ELSE Min(ends)

More == ~done /\ index <= length

SkipLiteral ==
  /\ More /\ Literal(index) # 0
  /\ index' = Literal(index)
  /\ line' = line + Newlines(index, index')
  /\ UNCHANGED <<text, comment_lines, blocks, done>>

BlockComment ==
  /\ More /\ At(index, <<"/", "-">>)
  /\ LET e == BlockEnd(index)
         start == index + (IF At(index + 2, <<"-">>) \/ At(index + 2, <<"!">>) THEN 3 ELSE 2)
         stop == IF e.depth = 0 THEN e.end - 2 ELSE e.end
     IN  /\ blocks' = Append(Flushed, [line |-> line, body |-> Places(start, stop)])
         /\ index' = e.end
  /\ line' = line + Newlines(index, index')
  /\ comment_lines' = <<>>
  /\ UNCHANGED <<text, done>>

LineStart(i) == Max({0} \cup {k \in 1..i - 1 : text[k] = "newline"}) + 1
AfterCode(i) == \E k \in LineStart(i)..i - 1 : text[k] \notin Space

JoinsRun == comment_lines = <<>> \/ comment_lines[Len(comment_lines)].line = line - 1

LineComment ==
  /\ More /\ At(index, <<"-", "-">>)
  /\ LET end == Min({k \in index..length + 1 : k > length \/ text[k] = "newline"})
         here == [line |-> line, body |-> strip(Places(index + 2, end))]
     IN  /\ index' = end
         /\ IF AfterCode(index)
              THEN blocks' = Append(Flushed, here) /\ comment_lines' = <<>>
            ELSE IF JoinsRun
              THEN comment_lines' = Append(comment_lines, here) /\ UNCHANGED blocks
            ELSE blocks' = Flushed /\ comment_lines' = <<here>>
  /\ UNCHANGED <<text, line, done>>

(* Code on a later line ends a run of line comments.                       *)
Skip ==
  /\ More /\ Literal(index) = 0
  /\ ~At(index, <<"/", "-">>) /\ ~At(index, <<"-", "-">>)
  /\ IF text[index] \notin Space /\ comment_lines # <<>>
        /\ comment_lines[Len(comment_lines)].line # line
       THEN blocks' = Flushed /\ comment_lines' = <<>>
       ELSE UNCHANGED <<blocks, comment_lines>>
  /\ index' = index + 1
  /\ line' = line + Newlines(index, index')
  /\ UNCHANGED <<text, done>>

Finish ==
  /\ ~done /\ index > length
  /\ blocks' = Flushed /\ comment_lines' = <<>> /\ done' = TRUE
  /\ UNCHANGED <<text, index, line>>

Next == SkipLiteral \/ BlockComment \/ LineComment \/ Skip \/ Finish

Spec == Init /\ [][Next]_vars

-----------------------------------------------------------------------------
LineOf(i) == 1 + Newlines(1, i)

(* The line of a chunk's k-th character, as the Markdown splitter counts.  *)
CountedLine(b, k) ==
  b.line + Cardinality({n \in 1..k - 1 : b.body[n] = 0 \/ text[b.body[n]] = "newline"})

(* Whatever comments, strings and literals span, each character of prose   *)
(* is reported with the line it has in the file, and the chunks are in the *)
(* order of the file.                                                      *)
LinesAreTheFiles ==
  /\ done => line = LineOf(length + 1)
  /\ \A n \in DOMAIN blocks :
       LET b == blocks[n]
       IN  /\ \A k \in DOMAIN b.body : b.body[k] # 0 => CountedLine(b, k) = LineOf(b.body[k])
           /\ n > 1 => \A p \in Range(b.body) \ {0}, q \in Range(blocks[n - 1].body) : q < p

(* Which characters Lean reads as comments: a lexer that moves by one      *)
(* character, except over a literal without escapes to interpret.          *)
Lexed ==
  LET to(m, d, h, u) == [mode |-> m, depth |-> d, half |-> h, until |-> u]
      step(l, i) ==
        LET c == text[i]
            half == IF c \in {"/", "-"} THEN c ELSE "none"
            jump == Max({CharEnd(i), RawEnd(i)})
        IN  CASE i < l.until -> l
              [] l.mode = "line" -> to(IF c = "newline" THEN "code" ELSE "line", 0, "none", 0)
              [] l.mode = "string" ->
                   IF c = "\\" THEN to("string", 0, "none", i + 2)
                   ELSE to(IF c = "quote" THEN "code" ELSE "string", 0, "none", 0)
              [] l.half = "/" /\ c = "-" -> to("code", l.depth + 1, "none", 0)
              [] l.half = "-" /\ c = "/" /\ l.depth > 0 -> to("code", l.depth - 1, "none", 0)
              [] l.half = "-" /\ c = "-" /\ l.depth = 0 -> to("line", 0, "none", 0)
              [] l.depth = 0 /\ jump # 0 -> to("code", 0, "none", jump)
              [] l.depth = 0 /\ c = "quote" -> to("string", 0, "none", 0)
              [] OTHER -> to("code", l.depth, half, 0)
      lex[i \in 0..length] == IF i = 0 THEN to("code", 0, "none", 0) ELSE step(lex[i - 1], i)
  IN  {i \in 1..length : lex[i].mode = "line" \/ lex[i].depth > 0}

(* The letters that are handed on are those Lean reads as comments: no     *)
(* literal opens or hides a comment, none is handed on twice.              *)
ProseIsTheComments ==
  done =>
    LET letters(b) == {p \in Range(b.body) \ {0} : text[p] \in Letter}
    IN  /\ UNION {letters(blocks[n]) : n \in DOMAIN blocks}
             = {i \in Lexed : text[i] \in Letter}
        /\ \A n, m \in DOMAIN blocks : n # m => letters(blocks[n]) \cap letters(blocks[m]) = {}

=============================================================================
