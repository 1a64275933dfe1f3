------------------------------- MODULE Sentences -------------------------------
(***************************************************************************)
(* mask, sentence_spans and check_block of scripts/check-writing.py: the   *)
(* suggestions for one block of prose.  Exempt elements are blanked in     *)
(* place, parentheses are taken out innermost first and become sentences   *)
(* of their own, and every suggestion carries an offset into the block, of *)
(* which its line is computed.                                             *)
(*                                                                         *)
(* A character is a lump: "w" and "W" are words (side by side one longer   *)
(* word), "etc." is an abbreviation, "](t)" ends a link.                   *)
(***************************************************************************)
EXTENDS Integers, SequencesExt

CONSTANTS
  Texts,               \* the blocks
  PROCEDURAL_LIMIT, DESCRIPTIVE_LIMIT

Space == {"space", "newline"}
Word  == {"w", "W", "etc.", "X"}
Chars == (Word \ {"X"}) \cup Space \cup {".", "(", ")", "quote", "tick", "[", "](t)"}

VARIABLES
  text,        \* the block's text; its first line is line 1
  procedural,
  counted,     \* the masked text, with the parentheses collapsed so far
  parts,       \* the parenthesised texts: records [text, offset]
  part,        \* the parts whose sentences were judged, -1 while collapsing
  found        \* the suggestions: records [rule, line, from, to]

vars == <<text, procedural, counted, parts, part, found>>

(* t with from..to blanked; a token leaves one word in its second place.   *)
blank(t, from, to, token) ==
  LET places == {k \in from..to : t[k] # "newline"}
      x == IF places = {} THEN 0 ELSE Min({Max(places), Min({to + 1} \cup (places \ {Min(places)}))})
  IN  [k \in DOMAIN t |-> IF k \notin places THEN t[k] ELSE IF token /\ k = x THEN "X" ELSE "space"]

BlankAll(t, pairs) == FoldLeft(LAMBDA u, p : blank(u, p[1], p[2], TRUE), t, pairs)

(* Blank what mark opens and the next mark closes, from the left.          *)
BlankMarks(t, mark) ==
  LET marks == SetToSortSeq({k \in DOMAIN t : t[k] = mark}, <)
  IN  BlankAll(t, [n \in 1..Len(marks) \div 2 |-> <<marks[2 * n - 1], marks[2 * n]>>])

(* A link keeps its label.                                                 *)
BlankLinks(t) ==
  LET closes(i) == {j \in i + 1..Len(t) : t[j] = "](t)"}
      opens == {i \in DOMAIN t : /\ t[i] = "[" /\ closes(i) # {}
                                 /\ \A h \in 1..i - 1 : t[h] = "[" => \E j \in h + 1..i - 1 : t[j] = "](t)"}
      gone == opens \cup {Min(closes(i)) : i \in opens}
  IN  [k \in DOMAIN t |-> IF k \in gone THEN "space" ELSE t[k]]

Masked(t) == BlankMarks(BlankLinks(BlankMarks(t, "tick")), "quote")

(* The parentheses without a parenthesis inside.                           *)
Innermost(t) ==
  {<<i, j>> \in (1..Len(t)) \X (1..Len(t)) : i < j /\ t[i] = "(" /\ t[j] = ")"
                                        /\ \A k \in i + 1..j - 1 : t[k] \notin {"(", ")"}}

EndsInAbbreviation(t) ==
  t # <<>> /\ t[Len(t)] = "etc." /\ (Len(t) > 1 => t[Len(t) - 1] \in Space)

(* A sentence may start at i: a capital, an opening mark, or a file's name *)
StartsSentence(t, i) ==
  \/ t[i] \in {"W", "X", "(", "["}
  \/ /\ t[i] = "w"
     /\ \E d \in i + 1..Len(t) - 1 :
          /\ t[d] = "." /\ \A k \in i..d - 1 : t[k] \in {"w", "W", "X"}
          /\ \E e \in d + 1..Len(t) : /\ \A k \in d + 1..e : t[k] \in {"w", "W", "X"}
                                      /\ e < Len(t) => t[e + 1] \in Space

(* The spans <<first, last>> of the sentences, without surrounding space.  *)
sentence_spans(t) ==
  LET gap(i) == Min({j \in i..Len(t) + 1 : j = Len(t) + 1 \/ t[j] \notin Space})
      boundary(i) == /\ i > 1 /\ t[i] \in Space /\ t[i - 1] \in {".", "etc."}
                     /\ gap(i) <= Len(t) /\ StartsSentence(t, gap(i))
      cut[start \in 1..Len(t) + 1, i \in 1..Len(t) + 1] ==
        IF i > Len(t) THEN <<<<start, Len(t)>>>>
        ELSE IF boundary(i) /\ ~EndsInAbbreviation(SubSeq(t, start, i - 1))
               THEN <<<<start, i - 1>>>> \o cut[gap(i), gap(i)]
        ELSE cut[start, i + 1]
      inked(s) == {k \in s[1]..s[2] : t[k] \notin Space}
      spans == SelectSeq(cut[1, 1], LAMBDA s : inked(s) # {})
  IN  [n \in DOMAIN spans |-> <<Min(inked(spans[n])), Max(inked(spans[n]))>>]

word_count(t, s) ==
  Cardinality({k \in s[1]..s[2] : /\ t[k] \in Word
                                  /\ \A j \in s[1]..k - 1 : t[j] \in Word =>
                                       \E h \in j + 1..k - 1 : t[h] \in Space})

LineAt(offset) == 1 + Cardinality({k \in 1..offset - 1 : text[k] = "newline"})
add(rule, from, to) == [rule |-> rule, line |-> LineAt(from), from |-> from, to |-> to]

-----------------------------------------------------------------------------
Init ==
  /\ text \in Texts /\ procedural \in BOOLEAN
  /\ counted = Masked(text) /\ parts = <<>> /\ part = -1 /\ found = {}

(* Wrong: a part's offset is that of its parenthesis.                      *)
CollapseAtParenthesis ==
  /\ part = -1 /\ Innermost(counted) # {}
  /\ LET pairs == SetToSortSeq(Innermost(counted), LAMBDA p, q : p[1] < q[1])
     IN  /\ parts' = parts \o [n \in DOMAIN pairs |->
                        [text |-> SubSeq(counted, pairs[n][1] + 1, pairs[n][2] - 1), offset |-> pairs[n][1] - 1]]
         /\ counted' = BlankAll(counted, pairs)
  /\ UNCHANGED <<text, procedural, part, found>>

(* One round of the loop.                                                  *)
Collapse ==
  /\ part = -1 /\ Innermost(counted) # {}
  /\ LET pairs == SetToSortSeq(Innermost(counted), LAMBDA p, q : p[1] < q[1])
     IN  /\ parts' = parts \o [n \in DOMAIN pairs |->
                        [text |-> SubSeq(counted, pairs[n][1] + 1, pairs[n][2] - 1), offset |-> pairs[n][1]]]
         /\ counted' = BlankAll(counted, pairs)
  /\ UNCHANGED <<text, procedural, part, found>>

suggested_length == IF procedural THEN PROCEDURAL_LIMIT ELSE DESCRIPTIVE_LIMIT
Part(n) == IF n = 0 THEN [text |-> counted, offset |-> 0] ELSE parts[n]

Long(p) ==
  {add("S1", p.offset + s[1], p.offset + s[2]) :
     s \in {s \in Range(sentence_spans(p.text)) : word_count(p.text, s) > suggested_length}}

JudgePart ==
  /\ part < Len(parts) /\ (part = -1 => Innermost(counted) = {})
  /\ part' = part + 1
  /\ found' = found \cup Long(Part(part'))
  /\ UNCHANGED <<text, procedural, counted, parts>>

(* The word patterns read the text with its parentheses.                   *)
JudgeWords ==
  /\ part = Len(parts) /\ part' = part + 1
  /\ LET plain == Masked(text)
     IN  found' = found \cup {add("W7", k, k) : k \in {k \in DOMAIN plain :
                    plain[k] = "etc." /\ (k > 1 => plain[k - 1] \notin Word \cup {"."})}}
  /\ UNCHANGED <<text, procedural, counted, parts>>

Next == Collapse \/ JudgePart \/ JudgeWords

Spec == Init /\ [][Next]_vars

-----------------------------------------------------------------------------
Collapsed == part >= 0

(* Masking moves nothing: a part's words and newlines are the block's, at  *)
(* the part's offset, so that a suggestion points at the words it counted. *)
PartsArePlaces ==
  \A n \in 0..Len(parts) :
    LET p == Part(n)
    IN  \A k \in DOMAIN p.text :
          /\ p.offset + k \in DOMAIN text
          /\ p.text[k] \in {text[p.offset + k], "X", "space"}
          /\ p.text[k] = "newline" <=> text[p.offset + k] = "newline"

(* However parentheses nest or fail to match, each word that is not exempt *)
(* is counted in exactly one sentence of exactly one part.                 *)
EveryWordInOneSentence ==
  Collapsed =>
    LET plain == Masked(text)
        counts(p) == {<<n, m>> \in (0..Len(parts)) \X (1..Len(text)) :
                        LET q == Part(n)
                            spans == sentence_spans(q.text)
                        IN  /\ m \in DOMAIN spans
                            /\ p - q.offset \in spans[m][1]..spans[m][2]
                            /\ q.text[p - q.offset] = plain[p]}
    IN  \A p \in DOMAIN plain : plain[p] \in {"w", "W", "etc."} => Cardinality(counts(p)) = 1

(* A sentence ends in an abbreviation only where its text ends.            *)
AbbreviationsEndNothing ==
  Collapsed =>
    \A n \in 0..Len(parts) :
      LET t == Part(n).text
          spans == sentence_spans(t)
      IN  \A m \in 1..Len(spans) - 1 :
            t[spans[m][2]] = "etc." => spans[m][2] > 1 /\ t[spans[m][2] - 1] \notin Space
=============================================================================
