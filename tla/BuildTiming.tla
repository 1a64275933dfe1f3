----------------------------- MODULE BuildTiming -----------------------------
(***************************************************************************)
(* scripts/build_timing.py: invocations of `run`, one after another, each  *)
(* measuring one command into a shared file of records and a log of its    *)
(* own choice, and invocations of `render` between them.  Either may raise *)
(* and either may be killed, at any statement, and a write to the results  *)
(* may be cut short.  Times are left out; no log is the results file.      *)
(***************************************************************************)
EXTENDS Integers, Sequences

CONSTANTS
  Calls,        \* what an invocation is given: records [label, command]
  Unprintable,  \* the labels and commands standard output cannot encode
  Logs,         \* the log files
  Output,       \* what a command may print: a set of lines
  Codes,        \* how a command may end: exit codes, and -n for signal n
  FirstWrites,  \* what the results file may hold at first
  MaxRuns,      \* bound: invocations of run
  MaxOutput     \* bound: lines printed by one command

(* The results are the writes they were made by: a text, the invocation    *)
(* that wrote it (0 for none: startedAt tells them apart) and whether it   *)
(* ended its line; if not, the next write goes on with that line.          *)
Texts == {"record", "cut", "garbage", "fieldless", "atom", "unconvertible"}
NoCall == [label |-> "none", command |-> "none"]
Write == [text : Texts, run : Nat, call : Calls \cup {NoCall}, code : Codes, ended : BOOLEAN]
Foreign(text, ended) == [text |-> text, run |-> 0, call |-> NoCall, code |-> 0, ended |-> ended]

ASSUME FirstAssumption ==
  \A s \in FirstWrites : s \in Seq(Write) /\ \A i \in DOMAIN s : s[i].run = 0
ASSUME CodesAssumption == Codes \subseteq -64..255 /\ 0 \in Codes

VARIABLES
  results,   \* the results file; a missing file has no writes
  logs,      \* the log files: their lines, and the run that opened them last
  phase,     \* "idle", "reading", "waited", "recorded"; "printing" of render
  runs,      \* the invocations of run so far, the last one perhaps under way
  rendered   \* how the last render since then ended, and the rows it printed

vars == <<results, logs, phase, runs, rendered>>

NoReport == [end |-> "none", rows |-> <<>>]

Init ==
  /\ results \in FirstWrites
  /\ logs = [l \in Logs |-> [run |-> 0, lines |-> <<>>]]
  /\ phase = "idle" /\ runs = <<>>
  /\ rendered = NoReport

-----------------------------------------------------------------------------
Started(call, log, end, status) ==
  [call |-> call, log |-> log, output |-> <<>>, waited |-> FALSE, code |-> 0,
   end |-> end, status |-> status]

Last == Len(runs)
Update(run) == runs' = [runs EXCEPT ![Last] = run]
Finish(end, status) ==
  /\ Update([runs[Last] EXCEPT !.end = end, !.status = status])
  /\ phase' = "idle"
  /\ UNCHANGED rendered

(* No command, or no log that can be opened.                               *)
RunNothing ==
  /\ phase = "idle" /\ Len(runs) < MaxRuns
  /\ \E status \in 1..2 : runs' = Append(runs, Started(NoCall, "none", "refused", status))
  /\ rendered' = NoReport
  /\ UNCHANGED <<results, logs, phase>>

(* The log is truncated before the command is started.                     *)
Open ==
  /\ phase = "idle" /\ Len(runs) < MaxRuns
  /\ \E call \in Calls, log \in Logs :
       /\ runs' = Append(runs, Started(call, log, "running", -1))
       /\ logs' = [logs EXCEPT ![log] = [run |-> Len(runs'), lines |-> <<>>]]
  /\ phase' = "reading" /\ rendered' = NoReport
  /\ UNCHANGED results

Echo ==
  /\ phase = "reading" /\ Len(runs[Last].output) < MaxOutput
  /\ \E line \in Output : Update([runs[Last] EXCEPT !.output = Append(@, line)])
  /\ UNCHANGED <<results, logs, phase, rendered>>

(* The command has ended and the log is closed.                            *)
Wait ==
  /\ phase = "reading"
  /\ \E code \in Codes : Update([runs[Last] EXCEPT !.waited = TRUE, !.code = code])
  /\ logs' = [logs EXCEPT ![runs[Last].log].lines = runs[Last].output]
  /\ phase' = "waited"
  /\ UNCHANGED <<results, rendered>>

RecordOf(r, ended) ==
  [text |-> "record", run |-> r, call |-> runs[r].call, code |-> runs[r].code, ended |-> ended]

CutOf(r) == [Foreign("cut", FALSE) EXCEPT !.run = r]

(* Wrong: the results are opened for writing, not for appending.           *)
RecordOver ==
  /\ phase = "waited"
  /\ results' = <<RecordOf(Last, TRUE)>>
  /\ phase' = "recorded"
  /\ UNCHANGED <<logs, runs, rendered>>

RecordRun ==
  /\ phase = "waited"
  /\ results' = Append(results, RecordOf(Last, TRUE))
  /\ phase' = "recorded"
  /\ UNCHANGED <<logs, runs, rendered>>

(* Killed between two writes of one record, or no room for all of it: part *)
(* of the record, or all of it without its newline.                        *)
CutRecord ==
  /\ phase = "waited"
  /\ \E w \in {CutOf(Last), RecordOf(Last, FALSE)} : results' = Append(results, w)
  /\ Finish("cut", 1)
  /\ UNCHANGED logs

(* The status a process leaves when it exits with a code.                  *)
Status(code) == code % 256

(* The summary is printed.                                                 *)
Return ==
  /\ phase = "recorded" /\ runs[Last].call.label \notin Unprintable
  /\ Finish("returned", Status(runs[Last].code))
  /\ UNCHANGED <<results, logs>>

(* Killed, interrupted or raised: the command cannot be started, its       *)
(* output not decoded, printed or stored, the results not opened, or the   *)
(* summary not printed.  The log has some of what was printed.             *)
Stop ==
  /\ phase \in {"reading", "waited", "recorded"}
  /\ IF phase = "reading"
       THEN \E n \in 0..Len(runs[Last].output) :
              logs' = [logs EXCEPT ![runs[Last].log].lines = SubSeq(runs[Last].output, 1, n)]
       ELSE UNCHANGED logs
  /\ Finish("stopped", 1)
  /\ UNCHANGED results

-----------------------------------------------------------------------------
(* What read_records makes of a write: a line shared with another is no    *)
(* JSON; an unconvertible one has every field, an atom cannot be asked for *)
(* any (a number, null).                                                   *)
Alone(i) == (i > 1 => results[i - 1].ended) /\ (i < Len(results) => results[i].ended)
Reads(i) == Alone(i) /\ results[i].text \in {"record", "unconvertible"}
IsAtom(i) == Alone(i) /\ results[i].text = "atom"

Prints(w) == w.call.label \notin Unprintable /\ w.call.command \notin Unprintable
HasRow(i) == results[i].text = "record" /\ Prints(results[i])

(* The first line that does not read decides; if each does, the header is  *)
(* printed.                                                                *)
StartRender ==
  /\ phase = "idle"
  /\ LET bad == {i \in DOMAIN results : ~Reads(i)}
         raises == \E i \in bad : IsAtom(i) /\ \A j \in bad : i <= j
         starts == results # <<>> /\ bad = {}
     IN  /\ phase' = IF starts THEN "printing" ELSE "idle"
         /\ rendered' = [end |-> IF starts THEN "running" ELSE IF raises THEN "raised" ELSE "refused",
                         rows |-> <<>>]
  /\ UNCHANGED <<results, logs, runs>>

Shown == Len(rendered.rows)

PrintRow ==
  /\ phase = "printing" /\ Shown < Len(results) /\ HasRow(Shown + 1)
  /\ rendered' = [rendered EXCEPT !.rows = Append(@, results[Shown + 1])]
  /\ UNCHANGED <<results, logs, phase, runs>>

EndsRender(end, shown) ==
  /\ rendered' = [end |-> end, rows |-> SubSeq(rendered.rows, 1, shown)]
  /\ phase' = "idle"
  /\ UNCHANGED <<results, logs, runs>>

(* float, int or print raise: nothing catches it, the rows before it stay. *)
RaiseAtRow ==
  /\ phase = "printing" /\ Shown < Len(results) /\ ~HasRow(Shown + 1)
  /\ EndsRender("raised", Shown)

(* Killed, or standard output is gone.                                     *)
StopRender == phase = "printing" /\ \E n \in 0..Shown : EndsRender("stopped", n)

(* Wrong: a row that cannot be printed ends the table like the last one.   *)
EndRenderAnyhow ==
  /\ phase = "printing" /\ (Shown < Len(results) => ~HasRow(Shown + 1))
  /\ EndsRender("complete", Shown)

EndRender ==
  /\ phase = "printing" /\ Shown = Len(results)
  /\ EndsRender("complete", Shown)

Next == \/ RunNothing \/ Open \/ Echo \/ Wait \/ RecordRun \/ CutRecord \/ Return \/ Stop
        \/ StartRender \/ PrintRow \/ RaiseAtRow \/ StopRender \/ EndRender

Spec == Init /\ [][Next]_vars

-----------------------------------------------------------------------------
(* Every invocation that returned has its record in the file.  Conversely  *)
(* whatever the file holds was there before or is of an invocation whose   *)
(* command had ended, with its label, command and code, and in their       *)
(* order; and only a write that was cut short leaves its line open, so     *)
(* that nothing else spoils the record behind it.                          *)
RecordsTellRuns ==
  /\ \A r \in DOMAIN runs :
       /\ runs[r].end = "returned" => \E i \in DOMAIN results : results[i] = RecordOf(r, TRUE)
       /\ runs[r].status = 0 => runs[r].end = "returned" /\ runs[r].code = 0
  /\ \A i \in DOMAIN results : results[i].run > 0 =>
       LET run == runs[results[i].run]
       IN  /\ run.waited
           /\ results[i].text = "record" => results[i] = RecordOf(results[i].run, results[i].ended)
           /\ ~results[i].ended => run.end = "cut"
  /\ \A i, j \in DOMAIN results :
       i < j => \/ results[i].run < results[j].run
                \/ results[i].run = 0 /\ results[j].run = 0

(* A log opened last by an invocation whose command ended holds the whole  *)
(* output of that command.                                                 *)
LogsTellRuns ==
  \A r \in DOMAIN runs :
    runs[r].waited /\ logs[runs[r].log].run = r => logs[runs[r].log].lines = runs[r].output

(* Wherever invocations were killed, raised or ran out of room, what is    *)
(* left on disk tells at least of those that returned, and of none whose   *)
(* command did not end.                                                    *)
FilesTellRuns == RecordsTellRuns /\ LogsTellRuns

(* What a report may fail for: a line no invocation wrote, one that was    *)
(* cut short, or a label or command that cannot be printed.                *)
Fault(i) ==
  LET w == results[i]
  IN  \/ w.run = 0 /\ (w.text # "record" \/ ~w.ended)
      \/ w.run > 0 /\ runs[w.run].end = "cut"
      \/ ~Prints(w)

ReportTells ==
  /\ rendered.rows = SubSeq(results, 1, Shown)
  /\ rendered.end = "complete" =>
       \A r \in DOMAIN runs : runs[r].end = "returned" =>
         \E n \in DOMAIN rendered.rows : rendered.rows[n] = RecordOf(r, TRUE)
  /\ rendered.end \in {"refused", "raised"} => results = <<>> \/ \E i \in DOMAIN results : Fault(i)
  /\ rendered.end = "raised" /\ Shown > 0 => Shown < Len(results) /\ Fault(Shown + 1)

(* A report that ends well shows every invocation that returned, the       *)
(* failed ones too; it fails of itself only for a fault of the file; and   *)
(* one that raises after its first rows has shown the lines before the     *)
(* faulty one, each of them and nothing else.                              *)
ReportTellsRuns == [][phase = "printing" \/ StartRender => ReportTells']_vars

=============================================================================
