------------------------------- MODULE Scripts -------------------------------
(***************************************************************************)
(* The three scripts that start bench.exe again and again and decide by    *)
(* its exit code, by the line it prints and by the snapshot file it        *)
(* writes: validate_benchmarks.py, run_all_benchmarks.py (the matrix) and  *)
(* run_long_snapshots.py.                                                  *)
(*                                                                         *)
(* bench.exe is a process of its own: it may fail, crash, also behind its  *)
(* line, or hang.  A line is the number of the job that printed it and     *)
(* its verify_errors; of the snapshot file only the time in its last row   *)
(* is kept.                                                                *)
(*                                                                         *)
(* A definition called a variant is a plausible mistake in the definition  *)
(* after it: the properties are tried on it.                               *)
(***************************************************************************)
EXTENDS Integers, Sequences

CONSTANTS
  Impls,    \* the number of runs of a script's loop: IMPLS, or the whole matrix
  MaxTime,  \* bound: the times in the rows of a snapshot file
  Crashed, Killed, \* what the system makes the exit code of a process that ends so
  None,     \* Python's None
  Missing, EmptyFile  \* no snapshot file, and one without a row

ASSUME ScriptsAssumption ==
  /\ {Impls, MaxTime} \subseteq Nat \ {0}
  /\ {Crashed, Killed} \subseteq Nat \ {0, 1, 2} /\ None \notin Nat

VARIABLES
  script, visible,  \* which script; the matrix's BENCH_VISIBLE
  pc, job,          \* where it is, and at which run of bench.exe
  child,            \* that process: is it at work, and with what did it end
  late,             \* has it had the time it is given
  out,              \* its line, as far as the script has it
  file,             \* its snapshot file
  rc, row, last_elapsed, \* the long script's locals
  results,          \* results.csv
  code,             \* what the script exits with
  log               \* history: how the runs of bench.exe ended

vars == <<script, visible, pc, job, child, late, out, file, rc, row, last_elapsed, results, code, log>>
local == <<rc, row, last_elapsed>>

Time == 1 .. MaxTime

\* The validator starts with the self-test and with wrongget.
Jobs == IF script = "validate" THEN Impls + 2 ELSE Impls
Snapshots == script = "long" \/ (script = "validate" /\ job > 2)

Init ==
  /\ script \in {"validate", "matrix", "long"}
  /\ visible \in IF script = "matrix" THEN BOOLEAN ELSE {FALSE}
  /\ pc = "start" /\ job = 1
  /\ child = [st |-> "none", rc |-> 0, line |-> None]
  /\ late = FALSE /\ out = None /\ file = Missing
  /\ rc = None /\ row = None /\ last_elapsed = None
  /\ results = <<>> /\ code = None /\ log = <<>>

-----------------------------------------------------------------------------
(* bench.exe                                                               *)

\* The map is seeded before the snapshot file is opened and cut off.
OpenFile ==
  /\ child.st = "seeding" /\ Snapshots
  /\ child' = [child EXCEPT !.st = "running"]
  /\ file' = EmptyFile
  /\ UNCHANGED <<script, visible, pc, job, late, out, local, results, code, log>>

\* Two rows may carry the same time.
WriteRow ==
  /\ child.st = "running"
  /\ \E t \in Time : (file \in Time => t >= file) /\ file' = t
  /\ UNCHANGED <<script, visible, pc, job, child, late, out, local, results, code, log>>

\* It prints its line last but for destroying the map, and succeeds with both.
End ==
  /\ child.st \in {"seeding", "running"}
  /\ \E c \in {0, 1, 2, Crashed}, errors \in {0, 1}, printed \in BOOLEAN :
       LET line == IF printed THEN [job |-> job, errors |-> errors] ELSE None
       IN  /\ c = 0 => printed /\ (Snapshots => file \in Time /\ child.st = "running")
           /\ c \in {1, 2} => ~printed
           /\ child' = [st |-> "ended", rc |-> c, line |-> line]
           /\ log' = Append(log, [rc |-> c, line |-> line])
  /\ UNCHANGED <<script, visible, pc, job, late, out, file, local, results, code>>

Bench == OpenFile \/ WriteRow \/ End

\* The time that the script allows is over.
Deadline ==
  /\ child.st \in {"seeding", "running"} /\ ~late
  /\ late' = TRUE
  /\ UNCHANGED <<script, visible, pc, job, child, out, file, local, results, code, log>>

-----------------------------------------------------------------------------
(* What the scripts have in common                                         *)

\* Popen.  The long script's files may be there from an earlier day.
Start ==
  /\ pc = "start" /\ job <= Jobs
  /\ child' = [st |-> "seeding", rc |-> 0, line |-> None]
  /\ file' \in {Missing} \cup (IF script = "long" THEN Time ELSE {})
  /\ late' = FALSE /\ out' = None
  /\ rc' = None /\ row' = None /\ last_elapsed' = None
  /\ pc' = IF script = "long" THEN "poll" ELSE "wait"
  /\ UNCHANGED <<script, visible, job, results, code, log>>

Exit(c) == pc' = "exit" /\ code' = c /\ UNCHANGED job
NextJob == pc' = "start" /\ job' = job + 1 /\ UNCHANGED code

Done ==
  /\ pc = "start" /\ job > Jobs
  /\ Exit(0)
  /\ UNCHANGED <<script, visible, child, late, out, file, local, results, log>>

Ended == child.st = "ended"

Kill ==
  /\ child' = [st |-> "ended", rc |-> Killed, line |-> None]
  /\ log' = Append(log, [rc |-> Killed, line |-> None])

\* Ctrl+C, whatever it does to bench.exe: run_all_benchmarks.py catches it, the
\* others die of it.
Interrupt ==
  /\ pc # "exit"
  /\ Exit(IF script = "matrix" THEN 130 ELSE Killed)
  /\ UNCHANGED <<script, visible, child, late, out, file, local, results, log>>

-----------------------------------------------------------------------------
(* subprocess.run, and _run_bench_one                                      *)

\* The process has ended.  subprocess.run has all its output with that, a visible
\* run goes on to join its reader.
Waited ==
  /\ pc = "wait" /\ Ended
  /\ IF visible THEN pc' = "join" /\ UNCHANGED out ELSE pc' = "judge" /\ out' = child.line
  /\ UNCHANGED <<script, visible, job, child, late, file, local, results, code, log>>

\* The reader thread, at whatever time.
Read ==
  /\ visible /\ Ended /\ out = None /\ child.line # None
  /\ out' = child.line
  /\ UNCHANGED <<script, visible, pc, job, child, late, file, local, results, code, log>>

\* th.join(timeout=5) comes back with or without the reader.
Join ==
  /\ pc = "join"
  /\ pc' = "judge"
  /\ UNCHANGED <<script, visible, job, child, late, out, file, local, results, code, log>>

\* TimeoutExpired, once bench.exe is killed: the matrix handles it.
TimeoutExpired ==
  /\ pc = "wait" /\ ~Ended /\ late
  /\ Kill
  /\ Exit(IF script = "matrix" THEN 124 ELSE 1)
  /\ UNCHANGED <<script, visible, late, out, file, local, results>>

\* What the validator exits with behind a run, 0 if it goes on.
Verdict ==
  CASE child.rc # 0                     -> child.rc
    [] child.rc = 0 /\ job = 1          -> 0
    [] child.rc = 0 /\ job = 2          -> IF out.errors > 0 THEN 0 ELSE 4
    [] child.rc = 0 /\ job > 2          -> IF out.errors # 0 THEN 2 ELSE IF file = Missing THEN 3 ELSE 0

Validate ==
  /\ script = "validate" /\ pc = "judge"
  /\ IF Verdict = 0 THEN NextJob ELSE Exit(Verdict)
  /\ UNCHANGED <<script, visible, child, late, out, file, local, results, log>>

\* sys.exit(rc if rc else 1): a run without a line counts as failed.  Variant: its
\* own exit code is taken.
AsItIs(c) == c
NotZero(c) == IF c # 0 THEN c ELSE 1

Tabulate ==
  /\ script = "matrix" /\ pc = "judge"
  /\ IF child.rc # 0 \/ out = None
     THEN Exit(NotZero(child.rc)) /\ UNCHANGED results
     ELSE NextJob /\ results' = Append(results, out)
  /\ UNCHANGED <<script, visible, child, late, out, file, local, log>>

-----------------------------------------------------------------------------
(* The long script's loop                                                  *)

\* rc = p.poll()
Poll ==
  /\ pc = "poll"
  /\ rc' = IF Ended THEN child.rc ELSE None
  /\ pc' = "look"
  /\ UNCHANGED <<script, visible, job, child, late, out, file, row, last_elapsed, results, code, log>>

\* rows[-1] if rows else None, or None if the file cannot be opened.  Variant: the
\* test for rows is missing.
Unguarded == {None, file}
last_snapshot_line == {None} \cup ({file} \cap Time)

\* A row with another time than the last is shown.
Look ==
  /\ pc = "look"
  /\ row' \in last_snapshot_line
  /\ last_elapsed' = IF row' # None THEN row' ELSE last_elapsed
  /\ pc' = "decide"
  /\ UNCHANGED <<script, visible, job, child, late, out, file, rc, results, code, log>>

\* The return code the loop goes by.  Variant: the process is asked again.
AskedAgain == IF Ended THEN child.rc ELSE None
Polled == rc

\* time.time() > deadline.  Variant: there is none.
NeverLate == FALSE
Late == late

\* The process is through; or its time is over; or the loop sleeps.
Decide ==
  /\ pc = "decide"
  /\ \/ /\ Polled # None
        /\ IF Polled # 0 THEN Exit(Polled) ELSE NextJob
        /\ UNCHANGED <<child, log>>
     \/ /\ Polled = None /\ Late
        /\ Exit(1)
        /\ IF Ended THEN UNCHANGED <<child, log>> ELSE Kill
     \/ /\ Polled = None /\ ~Late
        /\ pc' = "poll"
        /\ UNCHANGED <<job, code, child, log>>
  /\ UNCHANGED <<script, visible, late, out, file, local, results>>

Script ==
  \/ Start \/ Done \/ Waited \/ Join \/ TimeoutExpired \/ Validate \/ Tabulate
  \/ Poll \/ Look \/ Decide

Next == Script \/ Bench \/ Deadline \/ Read \/ Interrupt

Spec == Init /\ [][Next]_vars

\* A script runs and its clock goes; nothing is asked of bench.exe.
FairSpec == Spec /\ WF_vars(Script) /\ WF_vars(Deadline)

-----------------------------------------------------------------------------
(* Properties                                                              *)

Line == [job : 1 .. Jobs, errors : {0, 1}] \cup {None}

\* Every variable keeps its type, and a script has an exit code exactly when it is
\* through.
TypeOK ==
  /\ script \in {"validate", "matrix", "long"} /\ visible \in BOOLEAN
  /\ pc \in {"start", "wait", "join", "judge", "poll", "look", "decide", "exit"}
  /\ job \in 1 .. Jobs + 1 /\ late \in BOOLEAN
  /\ child \in [st : {"none", "seeding", "running", "ended"}, rc : {0, 1, 2, Crashed, Killed}, line : Line]
  /\ out \in Line /\ file \in {Missing, EmptyFile} \cup Time
  /\ rc \in {None, 0, 1, 2, Crashed, Killed} /\ {row, last_elapsed} \subseteq Time \cup {None}
  /\ results \in Seq(Line \ {None}) /\ (code # None <=> pc = "exit")
  /\ Len(log) <= Jobs

\* A script that exits with 0 has earned it: it has made every run, each has
\* succeeded, the validator has seen wrongget's errors and no other's, and
\* results.csv has a line of every run.  And whichever way a script ends, each line
\* in results.csv is the one that the run in its place has printed and has
\* survived; the reader thread may be late, the run may time out.
VerdictIsEarned ==
  /\ code = 0 =>
       /\ Len(log) = Jobs
       /\ \A j \in DOMAIN log : log[j].rc = 0
       /\ script = "validate" =>
            \A j \in 2 .. Jobs : log[j].line.errors > 0 <=> j = 2
       /\ script = "matrix" => Len(results) = Jobs
  /\ \A j \in DOMAIN results : log[j].rc = 0 /\ results[j] = log[j].line /\ results[j].job = j

\* When the long script leaves a run that has succeeded, the progress it has shown
\* last has the time of the run's last row, unless the file could not be read: the
\* rows of an earlier day and the rows written meanwhile do not hide it.
LastRowIsShown ==
  script = "long" /\ pc = "start" /\ job > 1 /\ row # None => last_elapsed = file

\* A script comes to an end, even if bench.exe hangs.
ScriptEnds == <>(pc = "exit")

=============================================================================
