------------------------------ MODULE OptionScan ------------------------------
(***************************************************************************)
(* The source gate of scripts/check-lean-options.py: no Lean file may      *)
(* override a repository-wide option.  Every set_option of a file is a     *)
(* candidate, wherever it stands; from each the gate skips the separators  *)
(* Lean allows before the option's name (space, line comments, nested      *)
(* block comments), reads the name and judges it.                          *)
(*                                                                         *)
(* A text is a sequence of characters, except that an identifier's letters *)
(* come in lumps: "set_option", the protected names, and "other".  Lumps   *)
(* side by side are one longer identifier.  The guillemets of an escaped   *)
(* component are written [ and ].                                          *)
(***************************************************************************)
EXTENDS Integers, Sequences, FiniteSetsExt

CONSTANT Arguments   \* the texts of the files that one call checks, in order

Word  == {"set_option", "warningAsError", "linter", "weak", "other"}
Chars == Word \cup {"/", "-", "newline", "space", ".", "[", "]", "quote"}

VARIABLES
  files,      \* the texts
  file,       \* the file being checked
  offset,     \* where the search for the next candidate starts
  failures,   \* what will be printed: records [file, line, why]
  exit        \* the exit code; -1 before the end

vars == <<files, file, offset, failures, exit>>

source == files[file]

StartsWith(text, i, s) == i + Len(s) - 1 <= Len(text) /\ SubSeq(text, i, i + Len(s) - 1) = s
LineIn(text, i) == 1 + Cardinality({j \in 1..i - 1 : text[j] = "newline"})

(* \bset_option\b *)
IsCommand(text, i) ==
  /\ text[i] = "set_option"
  /\ i > 1 => text[i - 1] \notin Word
  /\ i < Len(text) => text[i + 1] \notin Word

BehindLine(text, i) ==
  LET ends == {j \in i..Len(text) : text[j] = "newline"}
  IN  IF ends = {} THEN Len(text) + 1 ELSE Min(ends) + 1

Unterminated == 0

(* Wrong: block comments do not nest.                                      *)
deeperFlat(depth) == depth

deeper(depth) == depth + 1

(* Inside a block comment quotes and line-comment markers are plain text.  *)
skip_separators(text, offset0) ==
  LET skip[i \in 1..Len(text) + 1, depth \in 0..Len(text)] ==
        IF i > Len(text) THEN IF depth = 0 THEN i ELSE Unterminated
        ELSE IF depth > 0 THEN
          IF StartsWith(text, i, <<"/", "-">>) THEN skip[i + 2, deeper(depth)]
          ELSE IF StartsWith(text, i, <<"-", "/">>) THEN skip[i + 2, depth - 1]
          ELSE skip[i + 1, depth]
        ELSE IF text[i] \in {"space", "newline"} THEN skip[i + 1, 0]
        ELSE IF StartsWith(text, i, <<"-", "-">>) THEN skip[BehindLine(text, i + 2), 0]
        ELSE IF StartsWith(text, i, <<"/", "-">>) THEN skip[i + 2, 1]
        ELSE i
  IN  skip[offset0, 0]

(* NAME_PART: its letters lie in from..to, and the match ends before next; *)
(* next is 0 without a match.                                              *)
NamePart(text, i) ==
  LET part(from, to, next) == [from |-> from, to |-> to, next |-> next]
      end == Min({j \in i..Len(text) + 1 : j > Len(text) \/ text[j] \notin Word})
      closers == {j \in i + 1..Len(text) : text[j] = "]"}
  IN  IF end > i THEN part(i, end - 1, end)
      ELSE IF i <= Len(text) /\ text[i] = "[" /\ closers # {}
        THEN part(i + 1, Min(closers) - 1, Min(closers) + 1)
      ELSE part(0, 0, 0)

option_name(text, offset0) ==
  LET name[i \in 1..Len(text) + 2] ==
        LET p == NamePart(text, i)
            more == p.next <= Len(text) /\ text[p.next] = "."
        IN  IF p.next = 0 THEN <<>>
            ELSE <<SubSeq(text, p.from, p.to)>> \o (IF more THEN name[p.next + 1] ELSE <<>>)
  IN  name[offset0]

Linter == <<"linter">>

Protected(n) ==
  \/ n = <<<<"warningAsError">>>>
  \/ Len(n) >= 1 /\ n[1] = Linter
  \/ Len(n) >= 2 /\ n[1] = <<"weak">> /\ n[2] = Linter

-----------------------------------------------------------------------------
Init ==
  /\ files \in Arguments
  /\ file = 1 /\ offset = 1 /\ failures = <<>> /\ exit = -1

Candidates == {i \in offset..Len(source) : IsCommand(source, i)}

(* The next candidate may stand inside the separators of this one.         *)
Behind(command) == command

CheckCommand ==
  /\ exit = -1 /\ Candidates # {}
  /\ LET command == Min(Candidates)
         start == skip_separators(source, command + 1)
         report(why) == [file |-> file, line |-> LineIn(source, command), why |-> why]
     IN  /\ offset' = Behind(command + 1)
         /\ failures' =
              IF start = Unterminated THEN Append(failures, report("unterminated"))
              ELSE IF Protected(option_name(source, start))
                THEN Append(failures, report("override"))
              ELSE failures
  /\ UNCHANGED <<files, file, exit>>

NextFile ==
  /\ exit = -1 /\ Candidates = {} /\ file < Len(files)
  /\ file' = file + 1 /\ offset' = 1
  /\ UNCHANGED <<files, failures, exit>>

Finish ==
  /\ exit = -1 /\ Candidates = {} /\ file = Len(files)
  /\ exit' = IF failures = <<>> THEN 0 ELSE 1
  /\ UNCHANGED <<files, file, offset, failures>>

Next == CheckCommand \/ NextFile \/ Finish

Spec == Init /\ [][Next]_vars

-----------------------------------------------------------------------------
(* What Lean makes of a text, one character at a time and from its start:  *)
(* in code, a line comment or a string, under how many block comments, and *)
(* which half of a delimiter the last character may be.                    *)
LexStep(l, c) ==
  LET to(m, d, h) == [mode |-> m, depth |-> d, half |-> h]
      half == IF c \in {"/", "-"} THEN c ELSE "none"
  IN  CASE l.mode = "line"   -> to(IF c = "newline" THEN "code" ELSE "line", 0, "none")
        [] l.mode = "string" -> to(IF c = "quote" THEN "code" ELSE "string", 0, "none")
        [] OTHER ->
             CASE l.half = "/" /\ c = "-" -> to("code", l.depth + 1, "none")
               [] l.half = "-" /\ c = "/" /\ l.depth > 0 -> to("code", l.depth - 1, "none")
               [] l.half = "-" /\ c = "-" /\ l.depth = 0 -> to("line", 0, "none")
               [] c = "quote" /\ l.depth = 0 -> to("string", 0, "none")
               [] OTHER -> to("code", l.depth, half)

Lex(text) ==
  LET lex[n \in 0..Len(text)] ==
        IF n = 0 THEN [mode |-> "code", depth |-> 0, half |-> "none"]
                 ELSE LexStep(lex[n - 1], text[n])
  IN  lex

(* The candidates Lean sees, with the place and the verdict of their name. *)
InCode(lex, n) == lex[n].mode = "code" /\ lex[n].depth = 0

Significant(text, lex, j) ==
  \/ lex[j].mode = "string"
  \/ /\ InCode(lex, j - 1) /\ InCode(lex, j) /\ text[j] \notin {"space", "newline"}
     /\ j < Len(text) /\ text[j] \in {"/", "-"} => InCode(lex, j + 1)

NameStart(text, lex, i) ==
  Min({j \in i + 1..Len(text) : Significant(text, lex, j)} \cup {Len(text) + 1})

(* text[j..e] is a component with the letters w.                           *)
Component(text, j, e, w) ==
  \/ StartsWith(text, j, w) /\ e = j + Len(w) - 1 /\ (e < Len(text) => text[e + 1] \notin Word)
  \/ StartsWith(text, j, <<"[">> \o w \o <<"]">>) /\ e = j + Len(w) + 1

IsA(text, j, e, lump) == Component(text, j, e, <<lump>>)
DotAt(text, e) == e + 1 <= Len(text) /\ text[e + 1] = "."
Continues(text, e) ==
  DotAt(text, e) /\ \E f \in e + 2..Len(text), lump \in Word :
                      IsA(text, e + 2, f, lump)

Overrides(text, j) ==
  \E e \in j..Len(text) :
    \/ IsA(text, j, e, "warningAsError") /\ ~Continues(text, e)
    \/ IsA(text, j, e, "linter")
    \/ /\ IsA(text, j, e, "weak") /\ DotAt(text, e)
       /\ \E f \in e + 2..Len(text) : IsA(text, e + 2, f, "linter")

Reported(k, line, why) ==
  \E n \in DOMAIN failures : failures[n] = [file |-> k, line |-> line, why |-> why]

(* On every line whose candidates are all code, the finished gate reports  *)
(* an override exactly when one of them sets a protected option as Lean    *)
(* reads it from the start of the file, and an unterminated separator      *)
(* exactly when the file ends in a comment behind one of them.  Candidates *)
(* inside comments and strings may be reported as well: the gate does not  *)
(* know where it starts.                                                   *)
ReportsWhatLeanSees ==
  exit # -1 =>
    \A k \in DOMAIN files :
      LET text == files[k]
          lex  == Lex(text)
          cands == {i \in DOMAIN text : IsCommand(text, i)}
          open == lex[Len(text)].depth > 0
      IN  \A line \in {LineIn(text, i) : i \in cands} :
            LET here == {i \in cands : LineIn(text, i) = line}
                starts == {NameStart(text, lex, i) : i \in here}
            IN  (\A i \in here : InCode(lex, i - 1)) =>
                  /\ Reported(k, line, "override") <=> \E j \in starts : Overrides(text, j)
                  /\ Reported(k, line, "unterminated") <=> open /\ Len(text) + 1 \in starts

(* No candidate hides another: whatever the gate skipped behind a command, *)
(* a linter's name after set_option and one space, in any of the files,    *)
(* makes the call fail.                                                    *)
NothingHidden ==
  exit = 0 =>
    \A k \in DOMAIN files : \A i \in DOMAIN files[k] :
      ~StartsWith(files[k], i, <<"space", "set_option", "space", "linter", "space">>)

=============================================================================
