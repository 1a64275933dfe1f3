----------------------------- MODULE ChangedProse -----------------------------
(***************************************************************************)
(* The command scripts/check-writing.py in its three modes: the prose that *)
(* changed since a base, named files, or standard input.  With a base, git *)
(* is asked for the changed paths and then, path by path, for the added    *)
(* lines; the blocks that hold an added line are checked.  A source that   *)
(* cannot be read as text becomes a diagnostic, an error of git, of the    *)
(* system or of the vocabulary ends the command.                           *)
(***************************************************************************)
EXTENDS Integers, SequencesExt

CONSTANTS
  Paths,          \* strings
  CheckedPaths,   \* checked_path
  Repositories,   \* records [entries, files], below
  Modes           \* records [base, names]: a base, or names to read

(* An entry of the difference is [status, source, path]; a file is [kind,  *)
(* added, deleted, blocks]: the lines added, the lines behind which some   *)
(* were only deleted, and the line ranges of the blocks of prose.          *)
Kinds == {"text", "symlink", "binary", "unreadable"}

VARIABLES
  repository, mode,   \* the arguments
  names,              \* what git diff --name-status -z printed, NUL by NUL
  cursor,             \* the next of them
  result,             \* the added lines, by path
  todo,               \* the sources still to be read
  blocks,             \* the blocks to check: <<path, block>>
  diagnostics,        \* the sources reported as input that was not checked
  printed,            \* the report: its diagnostics and blocks
  phase               \* "git", "read", "check", or the exit code as a string

vars == <<repository, mode, names, cursor, result, todo, blocks, diagnostics, printed, phase>>

(* git's output: one field per name, two names for a rename or a copy, and *)
(* an empty field behind the last NUL.                                     *)
NameStatus(entries) ==
  FlattenSeq([n \in DOMAIN entries |->
    <<entries[n].status>> \o
    (IF entries[n].status \in {"R", "C"} THEN <<entries[n].source>> ELSE <<>>) \o <<entries[n].path>>]) \o <<"">>

(* The hunks of a file: every maximal run of added lines is +first,count,  *)
(* with a count of 1 left out (-1 here); a deletion is +first,0.           *)
Hunks(file) ==
  {<<a, b>> \in file.added \X file.added :
     a <= b /\ a..b \subseteq file.added /\ a - 1 \notin file.added /\ b + 1 \notin file.added}
HunkHeads(file) ==
  {<<h[1], IF h[1] = h[2] THEN -1 ELSE h[2] - h[1] + 1>> : h \in Hunks(file)} \cup {<<d, 0>> : d \in file.deleted}

-----------------------------------------------------------------------------
Init ==
  /\ repository \in Repositories /\ mode \in Modes
  /\ names = <<>> /\ cursor = 1 /\ result = <<>> /\ blocks = {} /\ diagnostics = {} /\ printed = {}
  /\ todo = IF mode.base THEN {} ELSE Range(mode.names)
  /\ phase = IF mode.base THEN "git" ELSE "read"

args == <<repository, mode>>

(* merge-base and the list of changed paths.                               *)
ListChanges ==
  /\ phase = "git" /\ names = <<>>
  /\ names' = NameStatus(repository.entries)
  /\ UNCHANGED <<args, cursor, result, todo, blocks, diagnostics, printed, phase>>

(* Any of the calls of git may fail; so may the vocabulary.                *)
Fail ==
  /\ phase \in {"git", "check"}
  /\ phase' = "2"
  /\ UNCHANGED <<args, names, cursor, result, todo, blocks, diagnostics, printed>>

LinesOf(heads) == UNION {h[1]..h[1] + (IF h[2] = -1 THEN 1 ELSE h[2]) - 1 : h \in heads}

(* Wrong: a rename is followed by one name.                                *)
ReadEntryOneName ==
  /\ phase = "git" /\ cursor < Len(names)
  /\ LET path == names[cursor + 1]
     IN  result' = IF path \in CheckedPaths
                     THEN (path :> LinesOf(HunkHeads(repository.files[path]))) @@ result ELSE result
  /\ cursor' = cursor + 2
  /\ UNCHANGED <<args, names, todo, blocks, diagnostics, printed, phase>>

ReadEntry ==
  /\ phase = "git" /\ cursor < Len(names)
  /\ LET width == IF names[cursor] \in {"R", "C"} THEN 2 ELSE 1
         path == names[cursor + width]
     IN  /\ result' = IF path \in CheckedPaths
                        THEN (path :> LinesOf(HunkHeads(repository.files[path]))) @@ result ELSE result
         /\ cursor' = cursor + width + 1
  /\ UNCHANGED <<args, names, todo, blocks, diagnostics, printed, phase>>

StartReading ==
  /\ phase = "git" /\ names # <<>> /\ cursor >= Len(names)
  /\ phase' = "read" /\ todo' = DOMAIN result
  /\ UNCHANGED <<args, names, cursor, result, blocks, diagnostics, printed>>

Touched(path, b) == ~mode.base \/ \E line \in result[path] : b.line <= line /\ line <= b.last_line

Kind(path) == IF path \in DOMAIN repository.files THEN repository.files[path].kind ELSE "unreadable"

ReadSource ==
  /\ phase = "read"
  /\ \E path \in todo :
       /\ Kind(path) = "text"
       /\ blocks' = blocks \cup {<<path, b>> : b \in {b \in repository.files[path].blocks : Touched(path, b)}}
       /\ todo' = todo \ {path}
  /\ UNCHANGED <<args, names, cursor, result, diagnostics, printed, phase>>

DiagnoseSource ==
  /\ phase = "read"
  /\ \E path \in todo :
       /\ Kind(path) \in {"symlink", "binary"}
       /\ diagnostics' = diagnostics \cup {path} /\ todo' = todo \ {path}
  /\ UNCHANGED <<args, names, cursor, result, blocks, printed, phase>>

(* OSError                                                                 *)
UnreadableSource ==
  /\ phase = "read" /\ \E path \in todo : Kind(path) = "unreadable"
  /\ phase' = "2"
  /\ UNCHANGED <<args, names, cursor, result, todo, blocks, diagnostics, printed>>

StartChecking ==
  /\ phase = "read" /\ todo = {} /\ phase' = "check"
  /\ UNCHANGED <<args, names, cursor, result, todo, blocks, diagnostics, printed>>

Report ==
  /\ phase = "check" /\ phase' = "0"
  /\ printed' = {<<"Input", p>> : p \in diagnostics} \cup blocks
  /\ UNCHANGED <<args, names, cursor, result, todo, blocks, diagnostics>>

Next == ListChanges \/ Fail \/ ReadEntry \/ StartReading \/ ReadSource \/ DiagnoseSource
        \/ UnreadableSource \/ StartChecking \/ Report

Spec == Init /\ [][Next]_vars

-----------------------------------------------------------------------------
Changed == {repository.entries[n].path : n \in DOMAIN repository.entries} \cap CheckedPaths

(* The fields of git's output are read in step with its entries: whatever  *)
(* renames come before, the paths found are the changed ones to be         *)
(* checked, each with the lines the change adds to it.                     *)
ChangesAreGits ==
  /\ DOMAIN result \subseteq Changed
  /\ \A p \in DOMAIN result : result[p] = repository.files[p].added
  /\ mode.base /\ phase \in {"read", "check", "0"} => DOMAIN result = Changed

(* A report covers all its sources: every block that an added line falls   *)
(* into (every block, without a base) is checked and no other, and every   *)
(* source that is no text is named, whatever the other sources are.        *)
ReportIsTheChange ==
  phase = "0" =>
    LET sources == IF mode.base THEN Changed ELSE Range(mode.names)
        file(p) == repository.files[p]
    IN  printed =
          {<<"Input", p>> : p \in {p \in sources : file(p).kind # "text"}}
          \cup UNION {{<<p, b>> : b \in {b \in file(p).blocks :
                          ~mode.base \/ file(p).added \cap b.line..b.last_line # {}}} :
                      p \in {p \in sources : file(p).kind = "text"}}

=============================================================================
