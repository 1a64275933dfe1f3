-------------------------- MODULE BuildTimingProofs --------------------------
(***************************************************************************)
(* What the timer leaves on disk and what a report tells of it, for every  *)
(* set of calls, logs, outputs and codes, every results file it starts     *)
(* with and every bound.                                                   *)
(***************************************************************************)
EXTENDS BuildTiming, TLAPS

Log   == [run : Nat, lines : Seq(Output)]
Ends  == {"running", "refused", "returned", "cut", "stopped"}
Run   == [call : Calls \cup {NoCall}, log : Logs \cup {"none"}, output : Seq(Output),
          waited : BOOLEAN, code : Codes, end : Ends, status : Int]
Report == [end : {"none", "running", "refused", "raised", "stopped", "complete"}, rows : Seq(Write)]
Running == {"reading", "waited", "recorded"}

Types ==
  /\ results \in Seq(Write)
  /\ logs \in [Logs -> Log]
  /\ phase \in Running \cup {"idle", "printing"}
  /\ runs \in Seq(Run)
  /\ rendered \in Report

(* The invocation under way is the last one and its log is its own.        *)
UnderWay ==
  phase \in Running => /\ Last > 0
                       /\ runs[Last].log \in Logs /\ logs[runs[Last].log].run = Last
                       /\ runs[Last].end = "running" /\ runs[Last].status = -1
                       /\ runs[Last].waited <=> phase # "reading"
                       /\ phase = "waited" => logs[runs[Last].log].lines = runs[Last].output

(* An invocation that waited for its command has a log.                    *)
HasLog == \A r \in DOMAIN runs : runs[r].waited => runs[r].log \in Logs

(* No write is of a later invocation, nor of one yet to write; and what an *)
(* invocation wrote is a record or was cut short.                          *)
Written ==
  /\ \A i \in DOMAIN results :
       /\ results[i].run <= Last
       /\ phase \in {"reading", "waited"} => results[i].run < Last
       /\ results[i].run > 0 => results[i].text = "record" \/ ~results[i].ended
  /\ phase = "recorded" => \E i \in DOMAIN results : results[i] = RecordOf(Last, TRUE)

(* Rows are printed once every line was read, and in the lines' order.     *)
Printing ==
  phase = "printing" => /\ rendered.end = "running" /\ Shown <= Len(results)
                        /\ rendered.rows = SubSeq(results, 1, Shown)
                        /\ \A i \in DOMAIN results : Reads(i)

IInv == Types /\ UnderWay /\ HasLog /\ Written /\ Printing /\ FilesTellRuns

(* An exit status is 0 only for the code 0: a signal is not lost in it.    *)
LEMMA StatusTells == \A code \in Codes : Status(code) \in Int /\ (Status(code) = 0 <=> code = 0)
BY CodesAssumption DEF Status

(* What the sequences of writes and of invocations are made of.            *)
LEMMA Parts ==
  ASSUME Types
  PROVE  /\ Len(runs) \in Nat /\ DOMAIN runs = 1..Len(runs)
         /\ Len(results) \in Nat /\ DOMAIN results = 1..Len(results)
         /\ \A r \in DOMAIN runs : runs[r] \in Run
         /\ \A i \in DOMAIN results : results[i] \in Write /\ results[i].run \in Nat
                                      /\ results[i].ended \in BOOLEAN
<1>1. runs \in Seq(Run) /\ results \in Seq(Write)
  BY DEF Types
<1>2. /\ Len(runs) \in Nat /\ DOMAIN runs = 1..Len(runs)
      /\ Len(results) \in Nat /\ DOMAIN results = 1..Len(results)
  BY <1>1
<1>3. \A r \in DOMAIN runs : runs[r] \in Run
  BY <1>1, <1>2
<1>4. \A i \in DOMAIN results : results[i] \in Write
  BY <1>1, <1>2
<1>5. \A w \in Write : w.run \in Nat /\ w.ended \in BOOLEAN
  BY DEF Write
<1> QED
  BY <1>2, <1>3, <1>4, <1>5

(* What the invocation under way may write, and what it stays as it ends.  *)
OwnWrite(w) ==
  /\ w \in Write /\ w.run = Last /\ (w = RecordOf(Last, TRUE) \/ ~w.ended)
  /\ w.text = "record" => w = RecordOf(Last, w.ended)

SameRun(run) ==
  /\ run.log = runs[Last].log /\ run.call = runs[Last].call /\ run.code = runs[Last].code
  /\ run.output = runs[Last].output /\ run.waited = runs[Last].waited

EndedAs(end, status) == [runs[Last] EXCEPT !.end = end, !.status = status]

(* An invocation that ends is otherwise what it was.                       *)
LEMMA Ended ==
  ASSUME runs[Last] \in Run, NEW end \in Ends, NEW status \in Int
  PROVE  /\ EndedAs(end, status) \in Run /\ EndedAs(end, status).end = end
         /\ EndedAs(end, status).status = status /\ SameRun(EndedAs(end, status))
<1> DEFINE run == runs[Last]
<1>1. EndedAs(end, status) = [run EXCEPT !.end = end, !.status = status] /\ run \in Run
  BY DEF EndedAs
<1>2. EndedAs(end, status) \in Run /\ EndedAs(end, status).end = end /\ EndedAs(end, status).status = status
  <2> HIDE DEF run
  <2> QED
    BY <1>1 DEF Run
<1>3. /\ EndedAs(end, status).log = run.log /\ EndedAs(end, status).call = run.call
      /\ EndedAs(end, status).code = run.code /\ EndedAs(end, status).output = run.output
      /\ EndedAs(end, status).waited = run.waited
  <2> HIDE DEF run
  <2> QED
    BY <1>1 DEF Run
<1> QED
  BY <1>2, <1>3 DEF SameRun

LEMMA InitHolds == Init => IInv
<1> SUFFICES ASSUME Init PROVE IInv
  OBVIOUS
<1>1. /\ results \in Seq(Write) /\ \A i \in DOMAIN results : results[i].run = 0
  BY FirstAssumption DEF Init
<1>2. Types
  BY <1>1 DEF Init, Types, Log, NoReport, Report
<1>3. Len(runs) = 0 /\ DOMAIN runs = {} /\ phase = "idle"
  BY DEF Init
<1>4. UnderWay /\ HasLog /\ Written /\ Printing
  BY <1>1, <1>3 DEF UnderWay, HasLog, Written, Printing, Running, Last
<1>5. RecordsTellRuns
  BY <1>1, <1>3 DEF RecordsTellRuns
<1>6. LogsTellRuns
  BY <1>3 DEF LogsTellRuns
<1> QED
  BY <1>2, <1>4, <1>5, <1>6 DEF IInv, FilesTellRuns

(* A new invocation, which has neither waited nor returned, keeps what the *)
(* files tell of the earlier ones, whichever log it opens.                 *)
LEMMA NewRunKeeps ==
  ASSUME IInv, phase = "idle",
         NEW run \in Run, runs' = Append(runs, run), ~run.waited, run.end # "returned", run.status # 0,
         UNCHANGED results,
         \/ UNCHANGED logs
         \/ run.log \in Logs /\ logs' = [logs EXCEPT ![run.log] = [run |-> Len(runs'), lines |-> <<>>]]
  PROVE  HasLog' /\ FilesTellRuns'
         /\ runs' \in Seq(Run) /\ Len(runs') = Len(runs) + 1 /\ runs'[Len(runs) + 1] = run
         /\ \A i \in DOMAIN results' : /\ results'[i].run < Len(runs')
                                       /\ results'[i].run > 0 => results'[i].text = "record" \/ ~results'[i].ended
<1>1. Types /\ HasLog /\ Written /\ RecordsTellRuns /\ LogsTellRuns
  BY DEF IInv, FilesTellRuns
<1>2. /\ runs' \in Seq(Run) /\ Len(runs') = Len(runs) + 1 /\ runs'[Len(runs) + 1] = run
      /\ DOMAIN runs' = 1..(Len(runs) + 1) /\ \A r \in 1..Len(runs) : runs'[r] = runs[r]
  BY <1>1 DEF Types
<1>3. HasLog'
  BY <1>1, <1>2, Parts DEF HasLog
<1>4. \A i \in DOMAIN results : results[i].run <= Len(runs)
  BY <1>1 DEF Written, Last
<1>5. RecordsTellRuns'
  <2>1. ASSUME NEW r \in DOMAIN runs'
        PROVE  /\ runs'[r].end = "returned" => \E i \in DOMAIN results : results[i] = RecordOf(r, TRUE)'
               /\ runs'[r].status = 0 => runs'[r].end = "returned" /\ runs'[r].code = 0
    <3>1. CASE r \in DOMAIN runs
      <4>1. runs'[r] = runs[r]
        BY <1>1, <1>2, <3>1, Parts
      <4>2. RecordOf(r, TRUE)' = RecordOf(r, TRUE)
        BY <4>1 DEF RecordOf
      <4>3. /\ runs[r].end = "returned" => \E i \in DOMAIN results : results[i] = RecordOf(r, TRUE)
            /\ runs[r].status = 0 => runs[r].end = "returned" /\ runs[r].code = 0
        BY <1>1, <3>1 DEF RecordsTellRuns
      <4> QED
        BY <4>1, <4>2, <4>3
    <3>2. CASE r = Len(runs) + 1
      <4>1. runs'[r] = run
        BY <1>2, <3>2
      <4> QED
        BY <4>1
    <3>3. r \in DOMAIN runs \/ r = Len(runs) + 1
      BY <1>1, <1>2, Parts
    <3> QED
      BY <3>1, <3>2, <3>3
  <2>2. ASSUME NEW i \in DOMAIN results, results[i].run > 0
        PROVE  /\ runs'[results[i].run] = runs[results[i].run]
               /\ RecordOf(results[i].run, results[i].ended)' = RecordOf(results[i].run, results[i].ended)
    <3>1. results[i].run \in 1..Len(runs)
      BY <1>1, <1>4, <2>2, Parts
    <3>2. runs'[results[i].run] = runs[results[i].run]
      BY <1>2, <3>1
    <3> QED
      BY <3>2 DEF RecordOf
  <2>3. \A i \in DOMAIN results : results[i].run > 0 =>
          /\ runs'[results[i].run].waited
          /\ results[i].text = "record" => results[i] = RecordOf(results[i].run, results[i].ended)'
          /\ ~results[i].ended => runs'[results[i].run].end = "cut"
    <3>1. \A i \in DOMAIN results : results[i].run > 0 =>
            /\ runs[results[i].run].waited
            /\ results[i].text = "record" => results[i] = RecordOf(results[i].run, results[i].ended)
            /\ ~results[i].ended => runs[results[i].run].end = "cut"
      BY <1>1 DEF RecordsTellRuns
    <3> QED
      BY <2>2, <3>1
  <2>4. \A i, j \in DOMAIN results :
          i < j => \/ results[i].run < results[j].run
                   \/ results[i].run = 0 /\ results[j].run = 0
    BY <1>1 DEF RecordsTellRuns
  <2> QED
    BY <2>1, <2>3, <2>4, Zenon DEF RecordsTellRuns
<1>6. LogsTellRuns'
  <2> SUFFICES ASSUME NEW r \in DOMAIN runs', runs'[r].waited, logs'[runs'[r].log].run = r
               PROVE  logs'[runs'[r].log].lines = runs'[r].output
    BY DEF LogsTellRuns
  <2>1. r \in 1..Len(runs) /\ r # Len(runs) + 1 /\ runs'[r] = runs[r]
    <3>1. r # Len(runs) + 1
      BY <1>2
    <3> QED
      BY <1>1, <1>2, <3>1, Parts
  <2>2. runs[r].log \in Logs /\ r \in DOMAIN runs
    BY <1>1, <2>1, Parts DEF HasLog
  <2>3. logs'[runs[r].log] = logs[runs[r].log]
    <3>1. CASE UNCHANGED logs
      BY <3>1
    <3>2. CASE run.log \in Logs /\ logs' = [logs EXCEPT ![run.log] = [run |-> Len(runs'), lines |-> <<>>]]
      <4>1. logs'[run.log].run = Len(runs) + 1
        BY <1>1, <1>2, <3>2 DEF Types
      <4>2. runs[r].log # run.log
        BY <2>1, <4>1
      <4> QED
        BY <1>1, <2>2, <3>2, <4>2 DEF Types
    <3> QED
      BY <3>1, <3>2
  <2> QED
    BY <1>1, <2>1, <2>2, <2>3 DEF LogsTellRuns
<1>7. \A i \in DOMAIN results' : /\ results'[i].run < Len(runs')
                                 /\ results'[i].run > 0 => results'[i].text = "record" \/ ~results'[i].ended
  BY <1>1, <1>2, <1>4, Parts DEF Written
<1> QED
  BY <1>2, <1>3, <1>5, <1>6, <1>7 DEF FilesTellRuns

(* The log of the invocation under way was written as it goes on.          *)
LogWritten(run) ==
  \E lines \in Seq(Output) : /\ logs' = [logs EXCEPT ![runs[Last].log].lines = lines]
                             /\ run.waited => lines = run.output

LogKept(run) == logs' = logs /\ (run.waited => runs[Last].waited)

(* What the invocation under way is after one more step of its own.        *)
GoesOn(run) ==
  /\ run \in Run /\ Update(run) /\ run.log = runs[Last].log /\ run.end # "cut"
  /\ runs[Last].waited => run.waited /\ run.call = runs[Last].call /\ run.code = runs[Last].code
                          /\ run.output = runs[Last].output
  /\ run.end = "returned" => phase = "recorded"
  /\ run.status = 0 => run.end = "returned" /\ run.code = 0

(* The invocation under way keeps what the files tell of all as it goes    *)
(* on: its record, if it has one, says what it did, and its log is its own.*)
LEMMA UpdateKeeps ==
  ASSUME IInv, phase \in Running, NEW run, GoesOn(run), LogKept(run) \/ LogWritten(run), results' = results
  PROVE  HasLog' /\ FilesTellRuns'
         /\ runs' \in Seq(Run) /\ Len(runs') = Len(runs) /\ runs'[Len(runs)] = run
         /\ logs' \in [Logs -> Log] /\ logs'[run.log].run = Len(runs)
<1>0. /\ run \in Run /\ Update(run) /\ run.log = runs[Last].log /\ run.end # "cut"
      /\ runs[Last].waited => run.waited /\ run.call = runs[Last].call /\ run.code = runs[Last].code
                              /\ run.output = runs[Last].output
      /\ run.end = "returned" => phase = "recorded"
      /\ run.status = 0 => run.end = "returned" /\ run.code = 0
  BY DEF GoesOn
<1>1. /\ Types /\ HasLog /\ Written /\ RecordsTellRuns /\ LogsTellRuns
      /\ Len(runs) > 0 /\ runs[Len(runs)].log \in Logs /\ logs[runs[Len(runs)].log].run = Len(runs)
      /\ runs[Len(runs)].end = "running" /\ (runs[Len(runs)].waited <=> phase # "reading")
  BY DEF IInv, FilesTellRuns, UnderWay, Last
<1>2. /\ runs' \in Seq(Run) /\ Len(runs') = Len(runs) /\ runs'[Len(runs)] = run
      /\ DOMAIN runs' = 1..Len(runs) /\ \A r \in 1..Len(runs) : r # Len(runs) => runs'[r] = runs[r]
  BY <1>0, <1>1 DEF Types, Update, Last
<1>3. HasLog'
  BY <1>0, <1>1, <1>2, Parts DEF HasLog, Last
<1>4. ASSUME NEW i \in DOMAIN results, results[i].run > 0
      PROVE  /\ results[i].run \in DOMAIN runs
             /\ runs'[results[i].run].waited
             /\ RecordOf(results[i].run, results[i].ended)' = RecordOf(results[i].run, results[i].ended)
             /\ ~results[i].ended => runs'[results[i].run].end = "cut"
  <2> DEFINE r == results[i].run
  <2>1. r \in 1..Len(runs) /\ DOMAIN runs = 1..Len(runs)
    BY <1>0, <1>1, <1>4, Parts DEF Written, Last
  <2>2. runs[r].waited /\ (~results[i].ended => runs[r].end = "cut")
    BY <1>0, <1>1, <1>4 DEF RecordsTellRuns
  <2>3. CASE r = Len(runs)
    <3>0. runs'[r] = run /\ runs[r] = runs[Last]
      BY <1>0, <1>2, <2>3 DEF Last
    <3>1. /\ runs'[r].waited /\ runs'[r].call = runs[r].call /\ runs'[r].code = runs[r].code
          /\ results[i].ended
      <4>1. run.waited /\ run.call = runs[Last].call /\ run.code = runs[Last].code
        BY <1>0, <2>2, <3>0
      <4>2. runs[r].end # "cut"
        <5>1. runs[Len(runs)].end = "running"
          BY <1>0, <1>1
        <5> QED
          BY <2>3, <5>1
      <4> QED
        BY <2>2, <3>0, <4>1, <4>2
    <3> QED
      BY <2>1, <3>1 DEF RecordOf
  <2>4. CASE r # Len(runs)
    <3>1. runs'[r] = runs[r]
      BY <1>0, <1>2, <2>1, <2>4
    <3> QED
      BY <2>1, <2>2, <3>1 DEF RecordOf
  <2> QED
    BY <2>3, <2>4
<1>5. RecordsTellRuns'
  <2>1. ASSUME NEW r \in DOMAIN runs'
        PROVE  /\ runs'[r].end = "returned" => \E i \in DOMAIN results : results[i] = RecordOf(r, TRUE)'
               /\ runs'[r].status = 0 => runs'[r].end = "returned" /\ runs'[r].code = 0
    <3>1. CASE r # Len(runs)
      <4>1. runs'[r] = runs[r] /\ r \in DOMAIN runs
        BY <1>0, <1>1, <1>2, <3>1, Parts
      <4>2. RecordOf(r, TRUE)' = RecordOf(r, TRUE)
        BY <4>1 DEF RecordOf
      <4>3. /\ runs[r].end = "returned" => \E i \in DOMAIN results : results[i] = RecordOf(r, TRUE)
            /\ runs[r].status = 0 => runs[r].end = "returned" /\ runs[r].code = 0
        BY <1>0, <1>1, <4>1 DEF RecordsTellRuns
      <4> QED
        BY <4>1, <4>2, <4>3
    <3>2. CASE r = Len(runs)
      <4>1. runs'[r] = run
        BY <1>0, <1>2, <3>2
      <4>2. ASSUME run.end = "returned"
            PROVE  \E i \in DOMAIN results : results[i] = RecordOf(r, TRUE)'
        <5>1. phase = "recorded"
          BY <1>0, <4>2
        <5>2. PICK i \in DOMAIN results : results[i] = RecordOf(r, TRUE)
          BY <1>0, <1>1, <3>2, <5>1 DEF Written, Last
        <5>3. runs[Len(runs)].waited
          BY <1>0, <1>1, <5>1
        <5>4. runs'[r].call = runs[r].call /\ runs'[r].code = runs[r].code
          BY <1>0, <3>2, <4>1, <5>3 DEF Last
        <5>5. RecordOf(r, TRUE)' = RecordOf(r, TRUE)
          BY <5>4 DEF RecordOf
        <5> QED
          BY <5>2, <5>5
      <4> QED
        BY <1>0, <4>1, <4>2
    <3> QED
      BY <3>1, <3>2
  <2>2. \A i \in DOMAIN results : results[i].run > 0 =>
          /\ runs'[results[i].run].waited
          /\ results[i].text = "record" => results[i] = RecordOf(results[i].run, results[i].ended)'
          /\ ~results[i].ended => runs'[results[i].run].end = "cut"
    BY <1>0, <1>1, <1>4 DEF RecordsTellRuns
  <2>3. \A i, j \in DOMAIN results :
          i < j => \/ results[i].run < results[j].run
                   \/ results[i].run = 0 /\ results[j].run = 0
    BY <1>0, <1>1 DEF RecordsTellRuns
  <2> QED
    BY <2>1, <2>2, <2>3, Zenon DEF RecordsTellRuns
<1>6. /\ logs' \in [Logs -> Log] /\ logs'[run.log].run = Len(runs)
      /\ \A l \in Logs : l # run.log => logs'[l] = logs[l]
  <2>1. CASE LogKept(run)
    BY <1>0, <1>1, <2>1 DEF Types, Last, LogKept
  <2>2. CASE LogWritten(run)
    <3>0. PICK lines \in Seq(Output) : logs' = [logs EXCEPT ![runs[Last].log].lines = lines]
      BY <2>2 DEF LogWritten
    <3>1. logs \in [Logs -> Log] /\ runs[Len(runs)].log = run.log /\ run.log \in Logs
      BY <1>0, <1>1 DEF Types, Last
    <3>2. logs' = [logs EXCEPT ![run.log].lines = lines]
      BY <3>0, <3>1 DEF Last
    <3>3. /\ logs'[run.log] = [logs[run.log] EXCEPT !.lines = lines]
          /\ DOMAIN logs' = Logs /\ \A l \in Logs : l # run.log => logs'[l] = logs[l]
      BY <3>1, <3>2
    <3>4. logs[run.log] \in Log /\ logs[run.log].run = Len(runs)
      BY <1>0, <1>1, <3>1
    <3>5. logs'[run.log] \in Log /\ logs'[run.log].run = Len(runs)
      BY <3>3, <3>4 DEF Log
    <3>6. logs' \in [Logs -> Log]
      BY <3>1, <3>2, <3>3, <3>5
    <3> QED
      BY <3>3, <3>5, <3>6
  <2> QED
    BY <2>1, <2>2
<1>8. LogsTellRuns'
  <2> SUFFICES ASSUME NEW r \in DOMAIN runs', runs'[r].waited, logs'[runs'[r].log].run = r
               PROVE  logs'[runs'[r].log].lines = runs'[r].output
    BY DEF LogsTellRuns
  <2>1. r \in 1..Len(runs) /\ DOMAIN runs = 1..Len(runs)
    BY <1>0, <1>1, <1>2, Parts
  <2>2. CASE r = Len(runs)
    <3>1. runs'[r] = run
      BY <1>0, <1>2, <2>2
    <3>2. CASE LogKept(run)
      <4>1. runs[r].waited /\ run.output = runs[r].output /\ runs[r].log = run.log /\ logs' = logs
        BY <1>0, <2>2, <3>1, <3>2 DEF Last, LogKept
      <4>2. logs[runs[r].log].lines = runs[r].output
        BY <1>0, <1>1, <2>1, <2>2, <4>1 DEF LogsTellRuns
      <4> QED
        BY <3>1, <3>2, <4>1, <4>2
    <3>3. CASE LogWritten(run)
      <4>0. PICK lines \in Seq(Output) : /\ logs' = [logs EXCEPT ![runs[Last].log].lines = lines]
                                         /\ run.waited => lines = run.output
        BY <3>3 DEF LogWritten
      <4>1. logs \in [Logs -> Log] /\ runs[Last].log = run.log /\ run.log \in Logs
        BY <1>0, <1>1 DEF Types, Last
      <4>2. logs' = [logs EXCEPT ![run.log].lines = lines]
        BY <4>0, <4>1
      <4>3. logs'[run.log].lines = lines
        BY <4>1, <4>2 DEF Log
      <4> QED
        BY <3>1, <4>0, <4>3
    <3> QED
      BY <3>2, <3>3
  <2>3. CASE r # Len(runs)
    <3>1. runs'[r] = runs[r]
      BY <1>0, <1>2, <2>1, <2>3
    <3>2. runs[r].log \in Logs
      BY <1>0, <1>1, <2>1, <3>1 DEF HasLog
    <3>3. runs[r].log # run.log
      BY <1>0, <1>6, <2>3, <3>1
    <3>4. logs'[runs[r].log] = logs[runs[r].log]
      BY <1>0, <1>6, <3>2, <3>3
    <3> QED
      BY <1>0, <1>1, <2>1, <3>1, <3>4 DEF LogsTellRuns
  <2> QED
    BY <2>2, <2>3
<1> QED
  BY <1>0, <1>2, <1>3, <1>5, <1>6, <1>8 DEF FilesTellRuns

(* A write appended by the invocation under way is of no earlier one, and  *)
(* keeps what the files tell if it is a record of it, or was cut short.    *)
LEMMA AppendKeeps ==
  ASSUME IInv, phase = "waited",
         NEW w, OwnWrite(w), results' = Append(results, w),
         NEW run \in Run, SameRun(run), run.end # "returned", run.status # 0, ~w.ended => run.end = "cut",
         Update(run), UNCHANGED logs
  PROVE  HasLog' /\ FilesTellRuns'
         /\ runs' \in Seq(Run) /\ Len(runs') = Len(runs) /\ runs'[Len(runs)] = run
         /\ results' \in Seq(Write) /\ results'[Len(results) + 1] = w
         /\ DOMAIN results' = 1..(Len(results) + 1)
         /\ \A i \in DOMAIN results' : /\ results'[i].run <= Len(runs')
                                       /\ results'[i].run > 0 => results'[i].text = "record" \/ ~results'[i].ended
<1>0. /\ w \in Write /\ w.run = Last /\ (w = RecordOf(Last, TRUE) \/ ~w.ended)
      /\ w.text = "record" => w = RecordOf(Last, w.ended)
      /\ run.log = runs[Last].log /\ run.call = runs[Last].call /\ run.code = runs[Last].code
      /\ run.output = runs[Last].output /\ run.waited
  BY DEF OwnWrite, SameRun, IInv, UnderWay, Running
<1>1. /\ Types /\ HasLog /\ Written /\ RecordsTellRuns /\ LogsTellRuns
      /\ Len(runs) > 0 /\ Len(runs) \in Nat /\ runs[Len(runs)].log \in Logs
      /\ runs[Len(runs)].waited
  BY Parts DEF IInv, FilesTellRuns, UnderWay, Last, Running
<1>2. /\ runs' \in Seq(Run) /\ Len(runs') = Len(runs) /\ runs'[Len(runs)] = run
      /\ DOMAIN runs' = 1..Len(runs) /\ \A r \in 1..Len(runs) : r # Len(runs) => runs'[r] = runs[r]
  BY <1>0, <1>1 DEF Types, Update, Last
<1>3. HasLog'
  BY <1>0, <1>1, <1>2, Parts DEF HasLog, Last
<1>4. /\ results' \in Seq(Write) /\ results'[Len(results) + 1] = w /\ Len(results) \in Nat
      /\ DOMAIN results' = 1..(Len(results) + 1) /\ DOMAIN results = 1..Len(results)
      /\ \A i \in 1..Len(results) : results'[i] = results[i]
  BY <1>0, <1>1 DEF Types
<1>5. \A r, ended : RecordOf(r, ended)' = RecordOf(r, ended) \/ r \notin 1..Len(runs)
  <2> SUFFICES ASSUME NEW r \in 1..Len(runs), NEW ended PROVE RecordOf(r, ended)' = RecordOf(r, ended)
    OBVIOUS
  <2>1. runs'[r].call = runs[r].call /\ runs'[r].code = runs[r].code
    BY <1>0, <1>2 DEF Last
  <2> QED
    BY <2>1 DEF RecordOf
<1>6. ASSUME NEW i \in 1..Len(results)
      PROVE  /\ results[i].run \in Nat /\ results[i].run < Len(runs)
             /\ results[i].run > 0 => results[i].text = "record" \/ ~results[i].ended
  BY <1>0, <1>1, <1>4, Parts DEF Written, Last
<1>7. \A i \in DOMAIN results' : /\ results'[i].run <= Len(runs')
                                 /\ results'[i].run > 0 => results'[i].text = "record" \/ ~results'[i].ended
  <2> DEFINE Fits(v) == v.run <= Len(runs) /\ (v.run > 0 => v.text = "record" \/ ~v.ended)
  <2>1. \A i \in 1..Len(results) : Fits(results[i])
    BY <1>0, <1>1, <1>6
  <2>2. Fits(w)
    BY <1>0, <1>1 DEF RecordOf, Last
  <2> HIDE DEF Fits
  <2>3. \A i \in DOMAIN results' : Fits(results'[i])
    BY <1>0, <1>4, <2>1, <2>2
  <2> QED
    BY <1>0, <1>2, <2>3 DEF Fits
<1>8. RecordsTellRuns'
  <2>1. ASSUME NEW r \in DOMAIN runs'
        PROVE  /\ runs'[r].end = "returned" => \E i \in DOMAIN results' : results'[i] = RecordOf(r, TRUE)'
               /\ runs'[r].status = 0 => runs'[r].end = "returned" /\ runs'[r].code = 0
    <3>1. CASE r # Len(runs)
      <4>1. runs'[r] = runs[r] /\ r \in DOMAIN runs /\ r \in 1..Len(runs)
        BY <1>0, <1>1, <1>2, <3>1, Parts
      <4>2. RecordOf(r, TRUE)' = RecordOf(r, TRUE)
        BY <1>5, <4>1
      <4>3. /\ runs[r].end = "returned" => \E i \in DOMAIN results : results[i] = RecordOf(r, TRUE)
            /\ runs[r].status = 0 => runs[r].end = "returned" /\ runs[r].code = 0
        BY <1>0, <1>1, <4>1 DEF RecordsTellRuns
      <4>4. ASSUME NEW i \in DOMAIN results PROVE i \in DOMAIN results' /\ results'[i] = results[i]
        BY <1>0, <1>4
      <4> QED
        BY <4>1, <4>2, <4>3, <4>4
    <3>2. CASE r = Len(runs)
      <4>1. runs'[r] = run
        BY <1>0, <1>2, <3>2
      <4> QED
        BY <4>1
    <3> QED
      BY <3>1, <3>2
  <2> DEFINE Rec(v) == [text |-> "record", run |-> v.run, call |-> runs'[v.run].call,
                        code |-> runs'[v.run].code, ended |-> v.ended]
             Tells(v) == v.run > 0 => /\ runs'[v.run].waited
                                      /\ v.text = "record" => v = Rec(v)
                                      /\ ~v.ended => runs'[v.run].end = "cut"
  <2>2. \A i \in DOMAIN results' : Tells(results'[i])
    <3>1. ASSUME NEW i \in 1..Len(results), results[i].run > 0 PROVE Tells(results[i])
      <4> DEFINE r == results[i].run
      <4>1. r \in 1..Len(runs) /\ r # Len(runs) /\ i \in DOMAIN results
        BY <1>0, <1>1, <1>4, <1>6, <3>1
      <4>2. runs'[r] = runs[r]
        BY <1>0, <1>2, <4>1
      <4>3. RecordOf(r, results[i].ended) = Rec(results[i])
        BY <4>2 DEF RecordOf
      <4>4. /\ runs[r].waited
            /\ results[i].text = "record" => results[i] = RecordOf(r, results[i].ended)
            /\ ~results[i].ended => runs[r].end = "cut"
        BY <1>0, <1>1, <3>1, <4>1 DEF RecordsTellRuns
      <4> HIDE DEF Rec
      <4> QED
        BY <4>2, <4>3, <4>4
    <3>2. Tells(w)
      <4> DEFINE r == w.run
      <4>1. r = Len(runs) /\ runs'[r] = run
        BY <1>0, <1>1, <1>2 DEF Last
      <4>2. w.text = "record" => w = RecordOf(r, w.ended)
        BY <1>0, <4>1 DEF Last
      <4>3. RecordOf(r, w.ended) = Rec(w)
        <5>1. runs'[w.run].call = runs[w.run].call /\ runs'[w.run].code = runs[w.run].code
          BY <1>0, <4>1 DEF Last
        <5> QED
          BY <5>1 DEF RecordOf
      <4>4. runs'[r].waited /\ (~w.ended => runs'[r].end = "cut")
        BY <1>0, <4>1
      <4> HIDE DEF Rec
      <4> QED
        BY <4>2, <4>3, <4>4
    <3>3. \A i \in 1..Len(results) : Tells(results[i])
      BY <3>1
    <3> HIDE DEF Tells
    <3> QED
      BY <1>0, <1>4, <3>2, <3>3
  <2>3. ASSUME NEW i \in DOMAIN results', NEW j \in DOMAIN results', i < j
        PROVE  \/ results'[i].run < results'[j].run
               \/ results'[i].run = 0 /\ results'[j].run = 0
    <3>1. i \in 1..Len(results) /\ results'[i] = results[i]
      BY <1>0, <1>4, <2>3
    <3>2. CASE j \in 1..Len(results)
      BY <1>0, <1>1, <1>4, <2>3, <3>1, <3>2 DEF RecordsTellRuns
    <3>3. CASE j = Len(results) + 1
      <4>1. results'[j].run = Len(runs)
        BY <1>0, <1>4, <3>3 DEF Last
      <4> QED
        BY <1>6, <3>1, <4>1
    <3> QED
      BY <1>0, <1>4, <3>2, <3>3
  <2>4. \A i, j \in DOMAIN results' :
          i < j => \/ results'[i].run < results'[j].run
                   \/ results'[i].run = 0 /\ results'[j].run = 0
    BY <2>3
  <2>5. \A i \in DOMAIN results' : results'[i].run > 0 =>
          LET r == runs'[results'[i].run]
          IN  /\ r.waited
              /\ results'[i].text = "record" => results'[i] = RecordOf(results[i].run, results[i].ended)'
              /\ ~results'[i].ended => r.end = "cut"
    BY <2>2 DEF RecordOf
  <2> HIDE DEF Tells, Rec
  <2> QED
    BY <2>1, <2>4, <2>5, Zenon DEF RecordsTellRuns
<1>9. LogsTellRuns'
  <2> SUFFICES ASSUME NEW r \in DOMAIN runs', runs'[r].waited, logs[runs'[r].log].run = r
               PROVE  logs[runs'[r].log].lines = runs'[r].output
    BY DEF LogsTellRuns
  <2>1. r \in DOMAIN runs /\ r \in 1..Len(runs)
    BY <1>0, <1>1, <1>2, Parts
  <2>2. runs'[r].log = runs[r].log /\ runs'[r].output = runs[r].output /\ runs[r].waited
    <3>1. CASE r = Len(runs)
      BY <1>0, <1>1, <1>2, <3>1 DEF Last
    <3>2. CASE r # Len(runs)
      BY <1>0, <1>2, <2>1, <3>2
    <3> QED
      BY <3>1, <3>2
  <2> QED
    BY <1>0, <1>1, <2>1, <2>2 DEF LogsTellRuns
<1> QED
  BY <1>0, <1>2, <1>3, <1>4, <1>7, <1>8, <1>9 DEF FilesTellRuns

(* A step of an invocation is no step of a report.                         *)
LEMMA NoRendering == phase' \in Running \cup {"idle"} => Printing'
BY DEF Printing, Running

LEMMA RunStepKeeps ==
  ASSUME IInv, RunNothing \/ Open \/ Echo \/ Wait \/ RecordRun \/ CutRecord \/ Return \/ Stop
  PROVE  IInv'
<1>0. /\ Types /\ UnderWay /\ Written /\ results \in Seq(Write) /\ logs \in [Logs -> Log]
      /\ runs \in Seq(Run) /\ rendered \in Report /\ Len(runs) \in Nat /\ 0 \in Codes
      /\ phase \in Running => Len(runs) > 0 /\ runs[Last] \in Run /\ runs[Last].end = "running"
                              /\ runs[Last].output \in Seq(Output)
  <2>1. /\ Types /\ UnderWay /\ Written /\ results \in Seq(Write) /\ logs \in [Logs -> Log]
        /\ runs \in Seq(Run) /\ rendered \in Report /\ Len(runs) \in Nat /\ 0 \in Codes
    BY Parts, CodesAssumption DEF IInv, Types
  <2>2. ASSUME phase \in Running
        PROVE  Len(runs) > 0 /\ runs[Last] \in Run /\ runs[Last].end = "running"
    BY <2>1, <2>2, Parts DEF UnderWay, Last
  <2>3. \A run \in Run : run.output \in Seq(Output)
    BY DEF Run
  <2> QED
    BY <2>1, <2>2, <2>3
<1>1. CASE RunNothing
  <2>1. PICK status \in 1..2 : runs' = Append(runs, Started(NoCall, "none", "refused", status))
    BY <1>1 DEF RunNothing
  <2> DEFINE run == Started(NoCall, "none", "refused", status)
  <2>2. run \in Run /\ ~run.waited /\ run.end # "returned" /\ run.status # 0
    BY <1>0 DEF Started, Run, Ends
  <2>3. phase = "idle" /\ phase' = phase /\ UNCHANGED <<results, logs>> /\ rendered' = NoReport
    BY <1>1 DEF RunNothing
  <2> HIDE DEF run
  <2>4. /\ HasLog' /\ FilesTellRuns' /\ runs' \in Seq(Run) /\ Len(runs') = Len(runs) + 1
        /\ \A i \in DOMAIN results' : /\ results'[i].run < Len(runs')
                                      /\ results'[i].run > 0 => results'[i].text = "record" \/ ~results'[i].ended
    BY <2>1, <2>2, <2>3, NewRunKeeps DEF run
  <2>5. Types'
    BY <1>0, <2>3, <2>4 DEF Types, NoReport, Report
  <2>6. UnderWay' /\ Printing'
    BY <2>3, NoRendering DEF UnderWay, Running
  <2>7. Written'
    <3>1. \A i \in DOMAIN results' : results'[i].run <= Last'
      BY <1>0, <2>3, <2>4, Parts DEF Last
    <3> QED
      BY <2>3, <2>4, <3>1 DEF Written
  <2> QED
    BY <2>4, <2>5, <2>6, <2>7 DEF IInv
<1>2. CASE Open
  <2>1. PICK call \in Calls, log \in Logs :
          /\ runs' = Append(runs, Started(call, log, "running", -1))
          /\ logs' = [logs EXCEPT ![log] = [run |-> Len(runs'), lines |-> <<>>]]
    BY <1>2 DEF Open
  <2> DEFINE run == Started(call, log, "running", -1)
  <2>2. /\ run \in Run /\ ~run.waited /\ run.end = "running" /\ run.end # "returned"
        /\ run.status # 0 /\ run.status = -1 /\ run.log = log
    BY <1>0 DEF Started, Run, Ends
  <2>3. /\ phase = "idle" /\ phase' = "reading" /\ UNCHANGED results /\ rendered' = NoReport
        /\ runs' = Append(runs, run) /\ run.log \in Logs
        /\ logs' = [logs EXCEPT ![run.log] = [run |-> Len(runs'), lines |-> <<>>]]
    BY <1>2, <2>1, <2>2 DEF Open
  <2> HIDE DEF run
  <2>4. /\ HasLog' /\ FilesTellRuns' /\ runs' \in Seq(Run) /\ Len(runs') = Len(runs) + 1
        /\ runs'[Len(runs) + 1] = run
        /\ \A i \in DOMAIN results' : /\ results'[i].run < Len(runs')
                                      /\ results'[i].run > 0 => results'[i].text = "record" \/ ~results'[i].ended
    BY <2>2, <2>3, NewRunKeeps
  <2>5. logs' \in [Logs -> Log] /\ logs'[run.log].run = Len(runs')
    BY <1>0, <2>3, <2>4 DEF Log
  <2>6. Types'
    BY <1>0, <2>3, <2>4, <2>5 DEF Types, NoReport, Report, Running
  <2>7. UnderWay'
    BY <1>0, <2>2, <2>3, <2>4, <2>5 DEF UnderWay, Last
  <2>8. Written'
    <3>1. \A i \in DOMAIN results' : /\ results'[i].run < Last'
                                     /\ results'[i].run > 0 => results'[i].text = "record" \/ ~results'[i].ended
      BY <2>4 DEF Last
    <3>2. \A i \in DOMAIN results' : results'[i].run <= Last'
      BY <1>0, <2>3, <2>4, <3>1, Parts DEF Last
    <3> QED
      BY <2>3, <3>1, <3>2 DEF Written
  <2>9. Printing'
    BY <2>3, NoRendering DEF Running
  <2> QED
    BY <2>4, <2>6, <2>7, <2>8, <2>9 DEF IInv
<1>3. CASE Echo
  <2>1. PICK line \in Output : Update([runs[Last] EXCEPT !.output = Append(@, line)])
    BY <1>3 DEF Echo
  <2> DEFINE run == [runs[Last] EXCEPT !.output = Append(@, line)]
  <2>2. phase = "reading" /\ phase \in Running /\ UNCHANGED <<results, logs, phase, rendered>> /\ ~runs[Last].waited
    BY <1>0, <1>3 DEF Echo, Running, UnderWay
  <2>2a. Append(runs[Last].output, line) \in Seq(Output)
    BY <1>0, <2>2
  <2>3. /\ run \in Run /\ run.log = runs[Last].log /\ run.end = "running" /\ run.status = -1 /\ ~run.waited
    BY <1>0, <2>2, <2>2a DEF Run, UnderWay
  <2>4. Update(run)
    BY <2>1
  <2> HIDE DEF run
  <2>5. /\ HasLog' /\ FilesTellRuns' /\ runs' \in Seq(Run) /\ Len(runs') = Len(runs)
        /\ runs'[Len(runs)] = run /\ logs'[run.log].run = Len(runs)
    <3>1. GoesOn(run)
      BY <2>2, <2>3, <2>4 DEF GoesOn
    <3>2. LogKept(run) /\ results' = results
      BY <2>2, <2>3 DEF LogKept
    <3> QED
      BY <2>2, <2>3, <3>1, <3>2, UpdateKeeps
  <2>6. Types'
    BY <1>0, <2>2, <2>5 DEF Types
  <2>7. UnderWay'
    BY <1>0, <2>2, <2>3, <2>5 DEF UnderWay, Last
  <2>8. Written' /\ Printing'
    BY <1>0, <2>2, <2>5, NoRendering DEF Written, Last
  <2> QED
    BY <2>5, <2>6, <2>7, <2>8 DEF IInv
<1>4. CASE Wait
  <2>1. PICK code \in Codes : Update([runs[Last] EXCEPT !.waited = TRUE, !.code = code])
    BY <1>4 DEF Wait
  <2> DEFINE run == [runs[Last] EXCEPT !.waited = TRUE, !.code = code]
  <2>2. /\ phase = "reading" /\ phase \in Running /\ UNCHANGED <<results, rendered>> /\ phase' = "waited"
        /\ ~runs[Last].waited /\ logs' = [logs EXCEPT ![runs[Last].log].lines = runs[Last].output]
    BY <1>0, <1>4 DEF Wait, Running, UnderWay
  <2>3. /\ run \in Run /\ run.log = runs[Last].log /\ run.end = "running" /\ run.status = -1 /\ run.waited
        /\ run.output = runs[Last].output
    BY <1>0, <2>2 DEF Run, UnderWay
  <2>4. Update(run)
    BY <2>1
  <2> HIDE DEF run
  <2>5. /\ HasLog' /\ FilesTellRuns' /\ runs' \in Seq(Run) /\ Len(runs') = Len(runs)
        /\ runs'[Len(runs)] = run /\ logs' \in [Logs -> Log] /\ logs'[run.log].run = Len(runs)
    <3>1. LogWritten(run)
      BY <1>0, <2>2, <2>3 DEF LogWritten
    <3>2. GoesOn(run)
      BY <2>2, <2>3, <2>4 DEF GoesOn
    <3>3. results' = results
      BY <2>2
    <3> QED
      BY <2>2, <3>1, <3>2, <3>3, UpdateKeeps
  <2>5a. run.log \in Logs
    BY <1>0, <2>2, <2>3 DEF UnderWay
  <2>5b. logs'[run.log].lines = run.output
    <3>1. logs' = [logs EXCEPT ![run.log].lines = run.output]
      BY <2>2, <2>3
    <3> QED
      BY <1>0, <2>5a, <3>1 DEF Log
  <2>6. Types'
    BY <1>0, <2>2, <2>5 DEF Types, Running
  <2>7. UnderWay'
    BY <1>0, <2>2, <2>3, <2>5, <2>5a, <2>5b DEF UnderWay, Last
  <2>8. Written' /\ Printing'
    BY <1>0, <2>2, <2>5, NoRendering DEF Written, Last, Running
  <2> QED
    BY <2>5, <2>6, <2>7, <2>8 DEF IInv
<1>5. CASE RecordRun
  <2>1. phase = "waited" /\ phase' = "recorded" /\ results' = Append(results, RecordOf(Last, TRUE))
        /\ UNCHANGED <<logs, runs, rendered>>
    BY <1>5 DEF RecordRun
  <2> DEFINE w   == RecordOf(Last, TRUE)
             run == runs[Last]
  <2>2. /\ run \in Run /\ run.end = "running" /\ run.status = -1 /\ run.waited
        /\ run.log \in Logs /\ logs[run.log].run = Last /\ logs[run.log].lines = run.output
    BY <1>0, <2>1 DEF UnderWay, Running
  <2>3. w \in Write /\ w.run = Last /\ w.ended = TRUE
    BY <1>0, <2>2 DEF RecordOf, Write, Texts, Run, Last
  <2>4. Update(run)
    BY <1>0, <2>1 DEF Update, Last
  <2>4a. results' = Append(results, w) /\ OwnWrite(w) /\ SameRun(run)
    BY <2>1, <2>3 DEF OwnWrite, SameRun
  <2>4b. run.end # "returned" /\ run.status # 0 /\ UNCHANGED logs
    BY <2>1, <2>2
  <2>4c. ~w.ended => run.end = "cut"
    BY <2>3
  <2> HIDE DEF w, run
  <2>5. /\ HasLog' /\ FilesTellRuns' /\ runs' \in Seq(Run) /\ Len(runs') = Len(runs)
        /\ results' \in Seq(Write) /\ results'[Len(results) + 1] = w
        /\ DOMAIN results' = 1..(Len(results) + 1)
        /\ \A i \in DOMAIN results' : /\ results'[i].run <= Len(runs')
                                      /\ results'[i].run > 0 => results'[i].text = "record" \/ ~results'[i].ended
    BY <2>1, <2>2, <2>4, <2>4a, <2>4b, <2>4c, AppendKeeps
  <2>6. Types'
    BY <1>0, <2>1, <2>5 DEF Types, Running
  <2>7. UnderWay'
    BY <1>0, <2>1, <2>2 DEF UnderWay, Last, run, Running
  <2>8. Written'
    <3>1. Len(results) + 1 \in DOMAIN results' /\ results'[Len(results) + 1] = RecordOf(Last, TRUE)'
      <4>1. RecordOf(Last, TRUE)' = RecordOf(Last, TRUE)
        BY <2>1 DEF RecordOf, Last
      <4>2. Len(results) \in Nat
        BY <1>0, Parts
      <4>3. Len(results) + 1 \in DOMAIN results'
        BY <2>5, <4>2
      <4>4. results'[Len(results) + 1] = w
        BY <2>5
      <4> QED
        BY <4>1, <4>3, <4>4 DEF w
    <3>2. \E i \in DOMAIN results' : results'[i] = RecordOf(Last, TRUE)'
      BY <3>1
    <3>3. phase' = "recorded"
      BY <2>1
    <3>4. \A i \in DOMAIN results' : /\ results'[i].run <= Last'
                                     /\ results'[i].run > 0 => results'[i].text = "record" \/ ~results'[i].ended
      BY <2>5 DEF Last
    <3> QED
      BY <3>2, <3>3, <3>4 DEF Written
  <2>9. Printing'
    BY <2>1, NoRendering DEF Running
  <2> QED
    BY <2>5, <2>6, <2>7, <2>8, <2>9 DEF IInv
<1>6. CASE CutRecord
  <2>1. PICK w \in {CutOf(Last), RecordOf(Last, FALSE)} : results' = Append(results, w)
    BY <1>6 DEF CutRecord
  <2> DEFINE run == EndedAs("cut", 1)
  <2>2. phase = "waited" /\ phase' = "idle" /\ UNCHANGED <<logs, rendered>> /\ Update(run)
    BY <1>6 DEF CutRecord, Finish, EndedAs
  <2>3. run \in Run /\ run.end = "cut" /\ run.status = 1 /\ SameRun(run)
    BY <1>0, <2>2, Ended DEF Ends, Running
  <2>4. CutOf(Last) \in Write /\ CutOf(Last).run = Last /\ ~CutOf(Last).ended /\ CutOf(Last).text = "cut"
    BY <1>0 DEF CutOf, Foreign, Write, Texts, Last
  <2>5. /\ RecordOf(Last, FALSE) \in Write /\ RecordOf(Last, FALSE).run = Last
        /\ RecordOf(Last, FALSE).ended = FALSE
    <3>1. runs[Last].call \in Calls \cup {NoCall} /\ runs[Last].code \in Codes /\ Last \in Nat
      BY <1>0, <2>2 DEF Run, Last, Running
    <3> QED
      BY <3>1 DEF RecordOf, Write, Texts
  <2>6. OwnWrite(w) /\ run.end # "returned" /\ run.status # 0
    <3>1. w \in Write /\ w.run = Last /\ ~w.ended
      BY <2>1, <2>4, <2>5
    <3>2. w.text = "record" => w = RecordOf(Last, FALSE)
      BY <2>1, <2>4
    <3>3. w.text = "record" => w = RecordOf(Last, w.ended)
      BY <2>5, <3>2
    <3>4. OwnWrite(w)
      BY <3>1, <3>3, Zenon DEF OwnWrite
    <3> QED
      BY <2>3, <3>4
  <2> HIDE DEF run
  <2>7. /\ HasLog' /\ FilesTellRuns' /\ runs' \in Seq(Run) /\ Len(runs') = Len(runs)
        /\ results' \in Seq(Write)
        /\ \A i \in DOMAIN results' : /\ results'[i].run <= Len(runs')
                                      /\ results'[i].run > 0 => results'[i].text = "record" \/ ~results'[i].ended
    BY <2>1, <2>2, <2>3, <2>6, AppendKeeps
  <2>8. Types'
    BY <1>0, <2>2, <2>7 DEF Types
  <2>9. UnderWay' /\ Written' /\ Printing'
    BY <2>2, <2>7, NoRendering DEF UnderWay, Written, Last, Running
  <2> QED
    BY <2>7, <2>8, <2>9 DEF IInv
<1>7. CASE Return
  <2> DEFINE run == EndedAs("returned", Status(runs[Last].code))
  <2>1. phase = "recorded" /\ phase' = "idle" /\ UNCHANGED <<results, logs, rendered>> /\ Update(run)
    BY <1>7 DEF Return, Finish, EndedAs
  <2>2. runs[Last] \in Run /\ runs[Last].waited /\ runs[Last].code \in Codes
    BY <1>0, <2>1 DEF UnderWay, Running, Run
  <2>3. Status(runs[Last].code) \in Int /\ (Status(runs[Last].code) = 0 <=> runs[Last].code = 0)
    BY <2>2, StatusTells
  <2>4. /\ run \in Run /\ run.end = "returned" /\ run.status = Status(runs[Last].code) /\ run.waited
        /\ run.log = runs[Last].log /\ run.call = runs[Last].call /\ run.code = runs[Last].code
        /\ run.output = runs[Last].output
    <3>1. "returned" \in Ends
      BY DEF Ends
    <3>2. /\ run \in Run /\ run.end = "returned" /\ run.status = Status(runs[Last].code) /\ SameRun(run)
      BY <2>2, <2>3, <3>1, Ended
    <3> HIDE DEF run
    <3> QED
      BY <2>2, <3>2 DEF SameRun
  <2>5. run.status = 0 => run.end = "returned" /\ run.code = 0
    BY <2>3, <2>4
  <2>6. phase \in Running /\ UNCHANGED results /\ UNCHANGED logs /\ run.end # "cut"
    BY <2>1, <2>4 DEF Running
  <2> HIDE DEF run
  <2>7. HasLog' /\ FilesTellRuns' /\ runs' \in Seq(Run) /\ Len(runs') = Len(runs)
    <3>1. GoesOn(run)
      BY <2>1, <2>2, <2>4, <2>5, <2>6 DEF GoesOn
    <3>2. LogKept(run) /\ results' = results
      BY <2>1, <2>2, <2>4 DEF LogKept
    <3> QED
      BY <2>6, <3>1, <3>2, UpdateKeeps
  <2>8. Types'
    BY <1>0, <2>1, <2>7 DEF Types
  <2>9. UnderWay' /\ Written' /\ Printing'
    BY <1>0, <2>1, <2>7, NoRendering DEF UnderWay, Written, Last, Running
  <2> QED
    BY <2>7, <2>8, <2>9 DEF IInv
<1>8. CASE Stop
  <2> DEFINE run == EndedAs("stopped", 1)
  <2>1. phase \in Running /\ phase' = "idle" /\ UNCHANGED <<results, rendered>> /\ Update(run)
    BY <1>8 DEF Stop, Finish, EndedAs, Running
  <2>2. /\ run \in Run /\ run.end = "stopped" /\ run.status = 1 /\ run.waited = runs[Last].waited
        /\ run.log = runs[Last].log /\ run.call = runs[Last].call /\ run.code = runs[Last].code
        /\ run.output = runs[Last].output
    BY <1>0, <2>1, Ended DEF Ends, SameRun
  <2>3. UNCHANGED logs \/ LogWritten(run)
    <3>1. CASE phase = "reading"
      <4>1. PICK n \in 0..Len(runs[Last].output) :
              logs' = [logs EXCEPT ![runs[Last].log].lines = SubSeq(runs[Last].output, 1, n)]
        BY <1>8, <3>1 DEF Stop
      <4>2. SubSeq(runs[Last].output, 1, n) \in Seq(Output)
        BY <1>0, <2>1
      <4>3. ~run.waited
        BY <1>0, <2>1, <2>2, <3>1 DEF UnderWay
      <4> HIDE DEF run
      <4> QED
        BY <4>1, <4>2, <4>3 DEF LogWritten
    <3>2. CASE phase # "reading"
      BY <1>8, <3>2 DEF Stop
    <3> QED
      BY <3>1, <3>2
  <2> HIDE DEF run
  <2>4. run.end # "cut" /\ run.end # "returned" /\ run.status # 0
    BY <2>2
  <2>5. HasLog' /\ FilesTellRuns' /\ runs' \in Seq(Run) /\ Len(runs') = Len(runs) /\ logs' \in [Logs -> Log]
    <3>1. GoesOn(run)
      BY <2>1, <2>2, <2>4 DEF GoesOn
    <3>2. LogKept(run) \/ LogWritten(run)
      BY <2>2, <2>3 DEF LogKept
    <3>3. results' = results
      BY <2>1
    <3> QED
      BY <2>1, <3>1, <3>2, <3>3, UpdateKeeps
  <2>6. Types'
    BY <1>0, <2>1, <2>5 DEF Types
  <2>7. UnderWay' /\ Written' /\ Printing'
    BY <1>0, <2>1, <2>5, NoRendering DEF UnderWay, Written, Last, Running
  <2> QED
    BY <2>5, <2>6, <2>7 DEF IInv
<1> QED
  BY <1>1, <1>2, <1>3, <1>4, <1>5, <1>6, <1>7, <1>8

(* The steps of a report change no invocation and no file.                 *)
LEMMA FilesKept ==
  ASSUME IInv, UNCHANGED <<results, logs, runs>>, phase \in {"idle", "printing"}, phase' \in {"idle", "printing"}
  PROVE  /\ UnderWay' /\ HasLog' /\ Written' /\ FilesTellRuns'
         /\ \A i : (Reads(i)' <=> Reads(i)) /\ (HasRow(i)' <=> HasRow(i)) /\ (Fault(i)' <=> Fault(i))
<1>1. UnderWay'
  BY DEF UnderWay, Running
<1>2. HasLog'
  BY DEF IInv, HasLog
<1>3. Written'
  BY DEF IInv, Written, Last
<1>4. \A r, ended : RecordOf(r, ended)' = RecordOf(r, ended)
  BY DEF RecordOf
<1>5. RecordsTellRuns'
  BY DEF IInv, FilesTellRuns, RecordsTellRuns, RecordOf
<1>6. LogsTellRuns'
  BY DEF IInv, FilesTellRuns, LogsTellRuns
<1>7. \A i : (Reads(i)' <=> Reads(i)) /\ (HasRow(i)' <=> HasRow(i)) /\ (Fault(i)' <=> Fault(i))
  BY DEF Reads, Alone, HasRow, Fault
<1> QED
  BY <1>1, <1>2, <1>3, <1>5, <1>6, <1>7 DEF FilesTellRuns

(* A line that does not read has a fault, or the one it runs into.         *)
LEMMA BadLine ==
  ASSUME IInv, NEW i \in DOMAIN results, ~Reads(i)
  PROVE  \E j \in DOMAIN results : Fault(j)
<1>1. /\ Types /\ Written /\ RecordsTellRuns /\ DOMAIN results = 1..Len(results) /\ Len(results) \in Nat
      /\ \A j \in DOMAIN results : results[j].run \in Nat /\ results[j].ended \in BOOLEAN
  BY Parts DEF IInv, FilesTellRuns
<1>2. ASSUME NEW j \in DOMAIN results, ~results[j].ended PROVE Fault(j)
  <2>1. CASE results[j].run = 0
    BY <1>2, <2>1 DEF Fault
  <2>2. CASE results[j].run > 0
    BY <1>1, <1>2, <2>2 DEF Fault, RecordsTellRuns
  <2> QED
    BY <1>1, <2>1, <2>2
<1>3. ASSUME NEW j \in DOMAIN results, results[j].text # "record" PROVE Fault(j)
  <2>1. CASE results[j].run = 0
    BY <1>3, <2>1 DEF Fault
  <2>2. CASE results[j].run > 0
    BY <1>1, <1>2, <1>3, <2>2 DEF Written
  <2> QED
    BY <1>1, <2>1, <2>2
<1>4. CASE i > 1 /\ ~results[i - 1].ended
  BY <1>1, <1>2, <1>4
<1>5. CASE ~results[i].ended
  BY <1>2, <1>5
<1>6. CASE results[i].text # "record"
  BY <1>3, <1>6
<1> QED
  BY <1>4, <1>5, <1>6 DEF Reads, Alone

(* A line that reads and has no row has a fault.                           *)
LEMMA NoRow ==
  ASSUME IInv, NEW i \in DOMAIN results, ~HasRow(i)
  PROVE  Fault(i)
<1>1. /\ Types /\ Written /\ RecordsTellRuns
      /\ results[i].run \in Nat /\ results[i].ended \in BOOLEAN
  BY Parts DEF IInv, FilesTellRuns
<1>2. CASE ~Prints(results[i])
  BY <1>2 DEF Fault
<1>3. CASE results[i].text # "record" /\ results[i].run = 0
  BY <1>3 DEF Fault
<1>4. CASE results[i].text # "record" /\ results[i].run > 0
  <2>1. ~results[i].ended
    BY <1>1, <1>4 DEF Written
  <2> QED
    BY <1>1, <1>4, <2>1 DEF Fault, RecordsTellRuns
<1> QED
  BY <1>1, <1>2, <1>3, <1>4 DEF HasRow

(* The rows of a report are first lines; one more, or fewer, are as well.  *)
LEMMA Prefixes ==
  ASSUME NEW S, NEW s \in Seq(S), NEW n \in 0..Len(s)
  PROVE  /\ SubSeq(s, 1, n) \in Seq(S) /\ Len(SubSeq(s, 1, n)) = n
         /\ n < Len(s) => Append(SubSeq(s, 1, n), s[n + 1]) = SubSeq(s, 1, n + 1)
         /\ \A k \in 0..n : SubSeq(SubSeq(s, 1, n), 1, k) = SubSeq(s, 1, k)
         /\ SubSeq(s, 1, Len(s)) = s
<1>1. SubSeq(s, 1, n) \in Seq(S) /\ Len(SubSeq(s, 1, n)) = n
  OBVIOUS
<1>2. ASSUME n < Len(s) PROVE Append(SubSeq(s, 1, n), s[n + 1]) = SubSeq(s, 1, n + 1)
  BY <1>2
<1>3. ASSUME NEW k \in 0..n PROVE SubSeq(SubSeq(s, 1, n), 1, k) = SubSeq(s, 1, k)
  OBVIOUS
<1>4. SubSeq(s, 1, Len(s)) = s
  OBVIOUS
<1> QED
  BY <1>1, <1>2, <1>3, <1>4

(* A report whose rows are the first lines tells what it should, if it     *)
(* ends well with all of them, and of itself only for a fault.             *)
LEMMA RowsTell ==
  ASSUME IInv, UNCHANGED <<results, logs, runs>>, phase \in {"idle", "printing"}, phase' \in {"idle", "printing"},
         NEW end \in {"running", "refused", "raised", "stopped", "complete"}, NEW n \in 0..Len(results),
         rendered'.end = end, rendered'.rows = SubSeq(results, 1, n), rendered' \in Report,
         end = "complete" => n = Len(results),
         end \in {"refused", "raised"} => results = <<>> \/ \E i \in DOMAIN results : Fault(i),
         end = "raised" /\ n > 0 => n < Len(results) /\ Fault(n + 1),
         phase' = "printing" => end = "running" /\ \A i \in DOMAIN results : Reads(i)
  PROVE  IInv' /\ ReportTells'
<1>1. /\ UnderWay' /\ HasLog' /\ Written' /\ FilesTellRuns'
      /\ \A i : (Reads(i)' <=> Reads(i)) /\ (Fault(i)' <=> Fault(i))
  BY FilesKept
<1>2. /\ results \in Seq(Write) /\ Len(results) \in Nat /\ DOMAIN results = 1..Len(results) /\ Types
      /\ RecordsTellRuns
  BY Parts DEF IInv, Types, FilesTellRuns
<1>3. Shown' = n /\ results' = results /\ runs' = runs
  <2>1. Len(SubSeq(results, 1, n)) = n
    BY <1>2, Prefixes
  <2>2. Len(rendered'.rows) = n
    BY <2>1
  <2> QED
    BY <2>2 DEF Shown
<1>4. Types'
  BY <1>2 DEF Types
<1>5. Printing'
  BY <1>1, <1>3 DEF Printing
<1>6. ASSUME end = "complete", NEW r \in DOMAIN runs, runs[r].end = "returned"
      PROVE  \E k \in DOMAIN rendered'.rows : rendered'.rows[k] = RecordOf(r, TRUE)
  <2>1. rendered'.rows = results
    BY <1>2, <1>6, Prefixes
  <2> QED
    BY <1>2, <1>6, <2>1 DEF RecordsTellRuns
<1>7. \A r : RecordOf(r, TRUE)' = RecordOf(r, TRUE)
  BY DEF RecordOf
<1>8. /\ rendered'.rows = SubSeq(results', 1, Shown')
      /\ rendered'.end = "complete" =>
           \A r \in DOMAIN runs' : runs'[r].end = "returned" =>
             \E k \in DOMAIN rendered'.rows : rendered'.rows[k] = RecordOf(r, TRUE)'
  BY <1>3, <1>6, <1>7
<1>9. /\ rendered'.end \in {"refused", "raised"} => results' = <<>> \/ \E i \in DOMAIN results' : Fault(i)'
      /\ rendered'.end = "raised" /\ Shown' > 0 => Shown' < Len(results') /\ Fault(n + 1)'
  BY <1>1, <1>3
<1>10. Fault(n + 1)' <=> Fault(Shown + 1)'
  BY <1>3 DEF Fault
<1>11. ReportTells'
  BY <1>8, <1>9, <1>10 DEF ReportTells
<1> QED
  BY <1>1, <1>4, <1>5, <1>11 DEF IInv

(* A report that ends shows what ReportTells says, and one that goes on    *)
(* has read every line and shows the first ones.                           *)
LEMMA RenderStepTells ==
  ASSUME IInv, StartRender \/ PrintRow \/ RaiseAtRow \/ StopRender \/ EndRender
  PROVE  IInv' /\ ReportTells'
<1>0. /\ Types /\ Printing /\ FilesTellRuns /\ results \in Seq(Write) /\ Len(results) \in Nat
      /\ DOMAIN results = 1..Len(results) /\ rendered \in Report /\ Shown \in Nat /\ rendered.rows \in Seq(Write)
  <2>1. Types /\ Printing /\ FilesTellRuns
    BY DEF IInv
  <2>2. rendered \in Report /\ results \in Seq(Write)
    BY <2>1 DEF Types
  <2>3. rendered.rows \in Seq(Write)
    BY <2>2 DEF Report
  <2>4. Shown \in Nat
    BY <2>3 DEF Shown
  <2> QED
    BY <2>1, <2>2, <2>3, <2>4
<1>1. UNCHANGED <<results, logs, runs>> /\ phase \in {"idle", "printing"} /\ phase' \in {"idle", "printing"}
  BY DEF StartRender, PrintRow, RaiseAtRow, StopRender, EndRender, EndsRender
<1>1a. UNCHANGED <<results, logs, runs>>
  BY <1>1
<1>2. CASE StartRender
  <2> DEFINE bad    == {i \in DOMAIN results : ~Reads(i)}
             raises == \E i \in bad : IsAtom(i) /\ \A j \in bad : i <= j
             starts == results # <<>> /\ bad = {}
             end    == IF starts THEN "running" ELSE IF raises THEN "raised" ELSE "refused"
  <2>1. phase' = (IF starts THEN "printing" ELSE "idle") /\ rendered' = [end |-> end, rows |-> <<>>]
    BY <1>2 DEF StartRender
  <2>2. ~starts => results = <<>> \/ \E i \in DOMAIN results : Fault(i)
    BY BadLine
  <2>3. starts => \A i \in DOMAIN results : Reads(i)
    OBVIOUS
  <2>4. end \in {"running", "refused", "raised"} /\ (starts <=> end = "running")
    OBVIOUS
  <2> HIDE DEF end, starts
  <2>5. 0 \in 0..Len(results) /\ rendered'.rows = SubSeq(results, 1, 0) /\ rendered'.end = end
    BY <1>0, <2>1
  <2>6. rendered' \in Report
    BY <2>1, <2>4 DEF Report
  <2>7. end \in {"refused", "raised"} => results = <<>> \/ \E i \in DOMAIN results : Fault(i)
    BY <2>2, <2>4
  <2>8. phase' = "printing" => end = "running" /\ \A i \in DOMAIN results : Reads(i)
    BY <2>1, <2>3, <2>4
  <2>9. end # "complete" /\ end \in {"running", "refused", "raised", "stopped", "complete"}
    BY <2>4
  <2> QED
    BY <1>1, <1>1a, <2>5, <2>6, <2>7, <2>8, <2>9, RowsTell
<1> DEFINE n == Shown
<1>3. ASSUME phase = "printing"
      PROVE  /\ n \in 0..Len(results) /\ rendered.rows = SubSeq(results, 1, n)
             /\ \A i \in DOMAIN results : Reads(i)
  BY <1>0, <1>3 DEF Printing
<1>4. CASE PrintRow
  <2>1. phase = "printing" /\ phase' = phase /\ n < Len(results) /\ HasRow(n + 1)
        /\ rendered' = [rendered EXCEPT !.rows = Append(@, results[n + 1])]
    BY <1>4 DEF PrintRow
  <2>2. n \in 0..Len(results) /\ rendered.rows = SubSeq(results, 1, n) /\ n + 1 \in 0..Len(results)
        /\ rendered.end = "running"
    BY <1>0, <1>3, <2>1 DEF Printing
  <2> HIDE DEF n
  <2>3. Append(SubSeq(results, 1, n), results[n + 1]) = SubSeq(results, 1, n + 1)
        /\ SubSeq(results, 1, n + 1) \in Seq(Write)
    BY <1>0, <2>1, <2>2, Prefixes
  <2>4. rendered'.rows = SubSeq(results, 1, n + 1) /\ rendered'.end = "running"
        /\ rendered' = [end |-> "running", rows |-> SubSeq(results, 1, n + 1)]
    BY <1>0, <2>1, <2>2, <2>3 DEF Report
  <2>5. rendered' \in Report
    BY <2>3, <2>4 DEF Report
  <2> DEFINE k   == n + 1
             end == "running"
  <2>6. k \in 0..Len(results) /\ rendered'.rows = SubSeq(results, 1, k) /\ rendered'.end = end
    BY <2>2, <2>4
  <2>7. end = "running" /\ end \in {"running", "refused", "raised", "stopped", "complete"}
    OBVIOUS
  <2> HIDE DEF k, end
  <2>8. end # "complete" /\ end \notin {"refused", "raised"} /\ end # "raised"
    BY <2>7
  <2>9. \A i \in DOMAIN results : Reads(i)
    BY <1>3, <2>1
  <2> QED
    BY <1>1, <1>1a, <2>5, <2>6, <2>7, <2>8, <2>9, RowsTell
<1>5. ASSUME NEW end \in {"raised", "stopped", "complete"}, NEW k \in 0..n, phase = "printing", EndsRender(end, k),
             end = "complete" => k = Len(results),
             end = "raised" => k < Len(results) /\ Fault(k + 1)
      PROVE  IInv' /\ ReportTells'
  <2>1. phase' = "idle" /\ rendered'.end = end /\ rendered'.rows = SubSeq(rendered.rows, 1, k)
        /\ rendered' = [end |-> end, rows |-> SubSeq(rendered.rows, 1, k)]
    BY <1>5 DEF EndsRender
  <2>2. n \in 0..Len(results) /\ rendered.rows = SubSeq(results, 1, n) /\ k \in 0..Len(results)
    <3>1. n \in 0..Len(results) /\ rendered.rows = SubSeq(results, 1, n)
      BY <1>3, <1>5
    <3> HIDE DEF n
    <3>2. k \in 0..n
      BY <1>5
    <3> QED
      BY <1>0, <3>1, <3>2
  <2>2a. k \in 0..n
    BY <1>5
  <2> HIDE DEF n
  <2>3. SubSeq(rendered.rows, 1, k) = SubSeq(results, 1, k) /\ SubSeq(results, 1, k) \in Seq(Write)
    <3>1. \A j \in 0..n : SubSeq(SubSeq(results, 1, n), 1, j) = SubSeq(results, 1, j)
      BY <1>0, <2>2, Prefixes
    <3>2. SubSeq(SubSeq(results, 1, n), 1, k) = SubSeq(results, 1, k)
      BY <2>2a, <3>1
    <3>3. SubSeq(results, 1, k) \in Seq(Write)
      BY <1>0, <2>2, Prefixes
    <3> QED
      BY <2>2, <3>2, <3>3
  <2>4. rendered' \in Report
    BY <2>1, <2>3 DEF Report
  <2>5. end \in {"refused", "raised"} => \E i \in DOMAIN results : Fault(i)
    <3>1. ASSUME end = "raised" PROVE k + 1 \in DOMAIN results /\ Fault(k + 1)
      BY <1>0, <1>5, <2>2, <3>1
    <3> QED
      BY <1>5, <3>1
  <2>6. /\ rendered'.rows = SubSeq(results, 1, k) /\ phase' # "printing"
        /\ end \in {"running", "refused", "raised", "stopped", "complete"}
        /\ end = "raised" /\ k > 0 => k < Len(results) /\ Fault(k + 1)
    BY <1>5, <2>1, <2>3
  <2> QED
    BY <1>1, <1>1a, <1>5, <2>1, <2>2, <2>4, <2>5, <2>6, RowsTell
<1>6. CASE RaiseAtRow
  <2>1. phase = "printing" /\ n < Len(results) /\ ~HasRow(n + 1) /\ EndsRender("raised", n)
    BY <1>6 DEF RaiseAtRow
  <2>2. n + 1 \in DOMAIN results
    BY <1>0, <2>1
  <2>3. Fault(n + 1) /\ n \in 0..n
    BY <1>0, <2>1, <2>2, NoRow
  <2> HIDE DEF n
  <2> QED
    BY <1>5, <2>1, <2>3
<1>7. CASE StopRender
  <2>1. PICK k \in 0..n : phase = "printing" /\ EndsRender("stopped", k)
    BY <1>7 DEF StopRender
  <2> HIDE DEF n
  <2> QED
    BY <1>5, <2>1
<1>8. CASE EndRender
  <2>1. phase = "printing" /\ n = Len(results) /\ EndsRender("complete", n)
    BY <1>8 DEF EndRender, Shown
  <2>2. n \in 0..n
    BY <1>0
  <2> HIDE DEF n
  <2> QED
    BY <1>5, <2>1, <2>2
<1> QED
  BY <1>2, <1>4, <1>6, <1>7, <1>8

LEMMA StepKeeps == IInv /\ [Next]_vars => IInv'
<1> SUFFICES ASSUME IInv, [Next]_vars PROVE IInv'
  OBVIOUS
<1>1. CASE RunNothing \/ Open \/ Echo \/ Wait \/ RecordRun \/ CutRecord \/ Return \/ Stop
  BY <1>1, RunStepKeeps
<1>2. CASE StartRender \/ PrintRow \/ RaiseAtRow \/ StopRender \/ EndRender
  BY <1>2, RenderStepTells
<1>3. CASE UNCHANGED vars
  BY <1>3 DEF vars, IInv, Types, UnderWay, HasLog, Written, Printing, FilesTellRuns, RecordsTellRuns,
              LogsTellRuns, RecordOf, Last, Shown, Reads, Alone
<1> QED
  BY <1>1, <1>2, <1>3 DEF Next

LEMMA Invariant == Spec => []IInv
<1> QED
  BY InitHolds, StepKeeps, PTL DEF Spec

(* Wherever an invocation is killed, raises or runs out of room, and       *)
(* however many do: the results file holds a record of each invocation     *)
(* that returned, none of one whose command did not end, and only a write  *)
(* that was cut short leaves its line open; and a log opened last by an    *)
(* invocation whose command ended holds all of its output.                 *)
THEOREM FilesTell == Spec => []FilesTellRuns
<1>1. IInv => FilesTellRuns
  BY DEF IInv
<1> QED
  BY <1>1, Invariant, PTL

(* A report that ends well has a row for each invocation that returned; it *)
(* fails of itself only for a line none of them wrote, one cut short or    *)
(* one that cannot be printed; and the rows before such a line are there.  *)
THEOREM ReportTell == Spec => ReportTellsRuns
<1>1. ASSUME IInv, [Next]_vars PROVE [phase = "printing" \/ StartRender => ReportTells']_vars
  <2> SUFFICES ASSUME phase = "printing" \/ StartRender, Next PROVE ReportTells'
    BY <1>1
  <2>1. StartRender \/ PrintRow \/ RaiseAtRow \/ StopRender \/ EndRender
    BY DEF Next, RunNothing, Open, Echo, Wait, RecordRun, CutRecord, Return, Stop
  <2> QED
    BY <1>1, <2>1, RenderStepTells
<1> QED
  BY <1>1, Invariant, PTL DEF Spec, ReportTellsRuns

=============================================================================
