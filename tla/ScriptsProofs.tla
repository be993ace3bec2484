---------------------------- MODULE ScriptsProofs ----------------------------
(***************************************************************************)
(* Scripts for any number of runs and any times: an exit code of 0 is      *)
(* earned, a line in results.csv is the line of its run, and the last row  *)
(* of a run is shown.                                                      *)
(*                                                                         *)
(* Which runs are over follows from where the script is (Runs): it judges  *)
(* a run only when its process has ended, whichever way it has learnt so,  *)
(* and a late line, a late row or a kill cannot come between.  What has    *)
(* been judged so far is good (Judged).                                    *)
(***************************************************************************)
EXTENDS Scripts, TLAPS

-----------------------------------------------------------------------------
(* Where the script is                                                     *)

Codes == {0, 1, 2, Crashed, Killed}
Ends  == [rc : Codes, line : Line]

\* The places where a run is under way, or is judged.
Busy == {"wait", "join", "judge", "poll", "look", "decide"}

Runs ==
  /\ log \in Seq(Ends)
  /\ child.st = "none" => pc \in {"start", "exit"} /\ job = 1 /\ log = <<>>
  /\ child.st \in {"seeding", "running"} =>
       pc \in {"wait", "poll", "look", "decide", "exit"} /\ job <= Jobs /\ Len(log) = job - 1
  /\ pc = "start" => Len(log) = job - 1
  /\ pc \in Busy => job <= Jobs /\ child.st # "none" /\ (Ended => Len(log) = job)
  /\ pc \in {"join", "judge"} => Ended
  /\ pc \in {"look", "decide"} /\ rc # None => Ended

RInv == TypeOK /\ Runs

LEMMA SomeJobs == Jobs \in Nat \ {0}
  BY ScriptsAssumption DEF Jobs

LEMMA RunsInit == Init => RInv
<1> SUFFICES ASSUME Init PROVE RInv
  OBVIOUS
<1>1. None \in Line /\ <<>> \in Seq(Ends) /\ <<>> \in Seq(Line \ {None}) /\ Len(<<>>) = 0
  BY DEF Line
<1>2. child \in [st : {"none", "seeding", "running", "ended"}, rc : Codes, line : Line]
  BY <1>1 DEF Init, Codes
<1>3. TypeOK
  <2>1. visible \in BOOLEAN /\ job \in 1 .. Jobs + 1 /\ Len(log) <= Jobs
    <3>1. visible \in BOOLEAN
      BY DEF Init
    <3>2. job = 1 /\ log = <<>>
      BY DEF Init
    <3> QED  BY <1>1, <3>1, <3>2, SomeJobs
  <2>2. out \in Line /\ results \in Seq(Line \ {None}) /\ (code # None <=> pc = "exit")
    BY <1>1 DEF Init
  <2>3. /\ script \in {"validate", "matrix", "long"} /\ pc = "start" /\ late = FALSE
        /\ file = Missing /\ rc = None /\ row = None /\ last_elapsed = None
    BY DEF Init
  <2> QED  BY <1>2, <2>1, <2>2, <2>3 DEF TypeOK, Codes
<1> QED  BY <1>1, <1>3, SomeJobs DEF Init, RInv, Runs, Busy, Ended

\* The process of bench.exe.
LEMMA RunsBench ==
  ASSUME RInv, Bench \/ Deadline \/ Read
  PROVE  RInv'
<1> USE ScriptsAssumption, SomeJobs DEF RInv, local
<1>1. Jobs' = Jobs /\ Line' = Line /\ Ends' = Ends
  BY DEF Bench, OpenFile, WriteRow, End, Deadline, Read, Jobs, Line, Ends
<1>2. CASE OpenFile
  <2>1. /\ child.st = "seeding" /\ child'.st = "running"
        /\ child' \in [st : {"none", "seeding", "running", "ended"}, rc : Codes, line : Line]
    BY <1>2 DEF OpenFile, TypeOK, Codes
  <2>2. TypeOK'
    BY <1>1, <1>2, <2>1 DEF OpenFile, TypeOK, Codes
  <2> QED  BY <1>1, <1>2, <2>1, <2>2 DEF OpenFile, Runs, Busy, Ended
<1>3. CASE WriteRow
  BY <1>1, <1>3 DEF WriteRow, TypeOK, Runs, Busy, Ended
<1>4. CASE End
  <2> PICK c \in {0, 1, 2, Crashed}, errors \in {0, 1}, printed \in BOOLEAN :
        LET line == IF printed THEN [job |-> job, errors |-> errors] ELSE None
        IN  /\ child' = [st |-> "ended", rc |-> c, line |-> line]
            /\ log' = Append(log, [rc |-> c, line |-> line])
    BY <1>4 DEF End
  <2> PICK line : line = IF printed THEN [job |-> job, errors |-> errors] ELSE None
    OBVIOUS
  <2>1. child.st \in {"seeding", "running"} /\ job \in 1 .. Jobs /\ Len(log) = job - 1
    BY <1>4 DEF End, TypeOK, Runs
  <2>2. line \in Line /\ c \in Codes
    BY <2>1 DEF Line, Codes
  <2>3. /\ child' = [st |-> "ended", rc |-> c, line |-> line]
        /\ log' = Append(log, [rc |-> c, line |-> line])
    OBVIOUS
  <2>4. [rc |-> c, line |-> line] \in Ends /\ log \in Seq(Ends)
    BY <2>2 DEF Ends, Runs
  <2>5. log' \in Seq(Ends) /\ Len(log') = job
    BY <2>1, <2>3, <2>4
  <2>6. UNCHANGED <<script, visible, pc, job, late, out, file, local, results, code>>
    BY <1>4 DEF End
  <2>7. child' \in [st : {"none", "seeding", "running", "ended"}, rc : Codes, line : Line]
    BY <2>2, <2>3
  <2>8. TypeOK'
    BY <1>1, <2>1, <2>5, <2>6, <2>7 DEF TypeOK, Codes
  <2> QED  BY <1>1, <2>1, <2>3, <2>5, <2>6, <2>8 DEF Runs, Busy, Ended
<1>5. CASE Deadline
  BY <1>1, <1>5 DEF Deadline, TypeOK, Runs, Busy, Ended
<1>6. CASE Read
  BY <1>1, <1>6 DEF Read, TypeOK, Runs, Busy, Ended
<1> QED  BY <1>2, <1>3, <1>4, <1>5, <1>6 DEF Bench

\* A process that is killed.
LEMMA KillEnds ==
  ASSUME RInv, Kill, child.st \in {"seeding", "running"}, UNCHANGED <<script, job>>
  PROVE  /\ child' \in [st : {"none", "seeding", "running", "ended"}, rc : Codes, line : Line]
         /\ child'.st = "ended"
         /\ log' \in Seq(Ends) /\ Len(log') = job /\ job <= Jobs
<1>1. log \in Seq(Ends) /\ Len(log) = job - 1 /\ job <= Jobs /\ job \in Nat
  BY SomeJobs DEF RInv, TypeOK, Runs
<1>2. [rc |-> Killed, line |-> None] \in Ends
  BY DEF Ends, Codes, Line
<1>3. log' = Append(log, [rc |-> Killed, line |-> None])
  BY DEF Kill
<1>4. child' \in [st : {"none", "seeding", "running", "ended"}, rc : Codes, line : Line] /\ child'.st = "ended"
  BY DEF Kill, Codes, Line
<1>5. log' \in Seq(Ends) /\ Len(log') = job
  BY <1>1, <1>2, <1>3
<1> QED  BY <1>1, <1>4, <1>5

LEMMA VerdictIsCode ==
  ASSUME RInv
  PROVE  Verdict \in Nat
  BY ScriptsAssumption, SomeJobs DEF Verdict, RInv, TypeOK

LEMMA RunsScript ==
  ASSUME RInv, Script \/ Interrupt
  PROVE  RInv'
<1> USE ScriptsAssumption, SomeJobs DEF RInv, local, Exit, NextJob
<1>1. Jobs' = Jobs /\ Line' = Line /\ Ends' = Ends
  BY DEF Script, Start, Done, Waited, Join, TimeoutExpired, Validate, Tabulate, Poll, Look, Decide, Interrupt,
         Jobs, Line, Ends
<1>2. CASE Start
  <2>1. child' \in [st : {"none", "seeding", "running", "ended"}, rc : Codes, line : Line]
    BY <1>2 DEF Start, Codes, Line
  <2>2. TypeOK'
    BY <1>1, <1>2, <2>1 DEF Start, TypeOK, Codes, Line
  <2> QED  BY <1>1, <1>2, <2>2 DEF Start, TypeOK, Runs, Busy, Ended
<1>3. CASE Done
  BY <1>1, <1>3 DEF Done, TypeOK, Runs, Busy, Ended
<1>4. CASE Waited
  BY <1>1, <1>4 DEF Waited, TypeOK, Runs, Busy, Ended
<1>5. CASE Join
  BY <1>1, <1>5 DEF Join, TypeOK, Runs, Busy, Ended
<1>6. CASE TimeoutExpired
  <2>1. child.st \in {"seeding", "running"} /\ Kill /\ UNCHANGED <<script, job>>
    BY <1>6 DEF TimeoutExpired, Runs, TypeOK, Ended, Busy
  <2>2. /\ child' \in [st : {"none", "seeding", "running", "ended"}, rc : Codes, line : Line]
        /\ child'.st = "ended" /\ log' \in Seq(Ends) /\ Len(log') = job /\ job <= Jobs
    BY <2>1, KillEnds
  <2>3. TypeOK'
    BY <1>1, <1>6, <2>2 DEF TimeoutExpired, TypeOK, Codes
  <2> QED  BY <1>1, <1>6, <2>2, <2>3 DEF TimeoutExpired, TypeOK, Runs, Busy, Ended
<1>7. CASE Validate
  <2>1. Ended /\ Len(log) = job /\ job \in 1 .. Jobs
    BY <1>7 DEF Validate, Runs, TypeOK, Busy
  <2>2. Verdict \in Nat
    BY <2>1, VerdictIsCode
  <2> QED  BY <1>1, <1>7, <2>1, <2>2 DEF Validate, TypeOK, Runs, Busy, Ended
<1>8. CASE Tabulate
  <2>1. Ended /\ Len(log) = job /\ job \in 1 .. Jobs /\ out \in Line /\ results \in Seq(Line \ {None})
    BY <1>8 DEF Tabulate, Runs, TypeOK, Busy
  <2>2. CASE child.rc # 0 \/ out = None
    BY <1>1, <1>8, <2>1, <2>2 DEF Tabulate, NotZero, TypeOK, Runs, Busy, Ended
  <2>3. CASE ~(child.rc # 0 \/ out = None)
    <3>1. results' = Append(results, out) /\ out \in Line \ {None}
      BY <1>8, <2>1, <2>3 DEF Tabulate
    <3>2. results' \in Seq(Line \ {None})
      BY <2>1, <3>1
    <3> QED  BY <1>1, <1>8, <2>1, <2>3, <3>2 DEF Tabulate, TypeOK, Runs, Busy, Ended
  <2> QED  BY <2>2, <2>3
<1>9. CASE Poll
  BY <1>1, <1>9 DEF Poll, TypeOK, Runs, Busy, Ended
<1>10. CASE Look
  BY <1>1, <1>10 DEF Look, last_snapshot_line, TypeOK, Runs, Busy, Ended
<1>11. CASE Decide
  <2>1. CASE Polled # None
    BY <1>1, <1>11, <2>1 DEF Decide, Polled, TypeOK, Runs, Busy, Ended
  <2>2. CASE Polled = None /\ Late /\ ~Ended
    <3>1. child.st \in {"seeding", "running"} /\ Kill /\ UNCHANGED <<script, job>>
      BY <1>11, <2>2 DEF Decide, Runs, TypeOK, Ended, Busy
    <3>2. /\ child' \in [st : {"none", "seeding", "running", "ended"}, rc : Codes, line : Line]
          /\ child'.st = "ended" /\ log' \in Seq(Ends) /\ Len(log') = job /\ job <= Jobs
      BY <3>1, KillEnds
    <3>3. TypeOK'
      BY <1>1, <1>11, <2>2, <3>2 DEF Decide, TypeOK, Codes
    <3> QED  BY <1>1, <1>11, <2>2, <3>2, <3>3 DEF Decide, TypeOK, Runs, Busy, Ended
  <2>3. CASE Polled = None /\ Late /\ Ended
    BY <1>1, <1>11, <2>3 DEF Decide, TypeOK, Runs, Busy, Ended
  <2>4. CASE Polled = None /\ ~Late
    BY <1>1, <1>11, <2>4 DEF Decide, TypeOK, Runs, Busy, Ended
  <2> QED  BY <2>1, <2>2, <2>3, <2>4
<1>12. CASE Interrupt
  BY <1>1, <1>12 DEF Interrupt, TypeOK, Runs, Busy, Ended
<1> QED  BY <1>2, <1>3, <1>4, <1>5, <1>6, <1>7, <1>8, <1>9, <1>10, <1>11, <1>12 DEF Script

LEMMA RunsNext == RInv /\ [Next]_vars => RInv'
<1> SUFFICES ASSUME RInv, [Next]_vars PROVE RInv'
  OBVIOUS
<1>1. CASE Next
  BY <1>1, RunsBench, RunsScript DEF Next
<1>2. CASE UNCHANGED vars
  BY <1>2 DEF vars, local, RInv, TypeOK, Runs, Ended, Jobs, Line, Ends
<1> QED  BY <1>1, <1>2

LEMMA RunsInvariance == Spec => []RInv
  BY RunsInit, RunsNext, PTL DEF Spec

-----------------------------------------------------------------------------
(* What has been judged                                                    *)

\* What a run that the script has left behind is like, and a line it has kept.
Passed(j) ==
  /\ log[j].rc = 0
  /\ script = "validate" /\ j >= 2 => (log[j].line.errors > 0 <=> j = 2)
Kept(j) == log[j].rc = 0 /\ results[j] = log[j].line /\ results[j].job = j

\* Which script is where.
Where ==
  /\ visible => script = "matrix"
  /\ pc \in {"wait", "join", "judge"} => script # "long"
  /\ pc \in {"poll", "look", "decide"} => script = "long"
  /\ pc = "join" => visible

\* The process that has ended is the last of the log, and the return code the
\* long script has polled is its.
Reported ==
  /\ pc \in {"look", "decide"} /\ rc # None => rc = child.rc
  /\ pc \in Busy /\ Ended =>
       log[job] = [rc |-> child.rc, line |-> child.line] /\ (child.line # None => child.line.job = job)

\* A line comes from the process that has ended.
Heard ==
  /\ pc \in Busy /\ out # None => Ended /\ out = child.line
  /\ pc = "judge" /\ ~visible => out = child.line

Judged == pc \in Busy \cup {"start"} => \A j \in 1 .. job - 1 : Passed(j)

Tabled ==
  /\ script # "matrix" => results = <<>>
  /\ script = "matrix" /\ pc \in Busy \cup {"start"} => Len(results) = job - 1
  /\ Len(results) <= Len(log)
  /\ \A j \in 1 .. Len(results) : Kept(j)

Succeeded ==
  code = 0 =>
    /\ Ended
    /\ Len(log) = Jobs /\ \A j \in 1 .. Jobs : Passed(j)
    /\ script = "matrix" => Len(results) = Jobs

JInv == Where /\ Reported /\ Heard /\ Judged /\ Tabled /\ Succeeded

LEMMA JudgedInit == Init => JInv
<1> SUFFICES ASSUME Init PROVE JInv
  OBVIOUS
<1>1. results = <<>> /\ log = <<>> /\ Len(<<>>) = 0 /\ job = 1 /\ pc = "start" /\ code = None
  BY DEF Init
<1>2. visible => script = "matrix"
  BY DEF Init
<1> QED  BY <1>1, <1>2, ScriptsAssumption DEF JInv, Where, Reported, Heard, Judged, Tabled, Succeeded, Busy

\* The log grows at its end.
LEMMA LogGrows ==
  ASSUME RInv, NEW e, log' = Append(log, e)
  PROVE  /\ \A j \in 1 .. Len(log) : log'[j] = log[j]
         /\ log'[Len(log) + 1] = e /\ Len(log') = Len(log) + 1 /\ Len(log) \in Nat
  BY DEF RInv, Runs

LEMMA JudgedBench ==
  ASSUME RInv, RInv', JInv, Bench \/ Deadline \/ Read
  PROVE  JInv'
<1> USE ScriptsAssumption, SomeJobs DEF local
<1>1. Jobs' = Jobs
  BY DEF Bench, OpenFile, WriteRow, End, Deadline, Read, Jobs
<1>2. CASE End
  <2> PICK c \in {0, 1, 2, Crashed}, errors \in {0, 1}, printed \in BOOLEAN :
        LET line == IF printed THEN [job |-> job, errors |-> errors] ELSE None
        IN  /\ child' = [st |-> "ended", rc |-> c, line |-> line]
            /\ log' = Append(log, [rc |-> c, line |-> line])
    BY <1>2 DEF End
  <2> PICK line : line = IF printed THEN [job |-> job, errors |-> errors] ELSE None
    OBVIOUS
  <2>1. child.st \in {"seeding", "running"} /\ job \in 1 .. Jobs /\ Len(log) = job - 1 /\ ~Ended
    BY <1>2 DEF End, RInv, TypeOK, Runs, Ended
  <2>2. UNCHANGED <<script, visible, pc, job, late, out, file, local, results, code>>
    BY <1>2 DEF End
  <2>3. log' = Append(log, [rc |-> c, line |-> line])
    OBVIOUS
  <2>4. /\ \A j \in 1 .. Len(log) : log'[j] = log[j]
        /\ log'[job] = [rc |-> c, line |-> line] /\ Len(log') = job
    BY <2>1, <2>3, LogGrows
  <2>0. Where' /\ (pc \in {"look", "decide"} => rc = None)
    BY <2>1, <2>2 DEF RInv, Runs, JInv, Where
  <2>5. Reported'
    BY <2>0, <2>2, <2>4 DEF Reported
  <2>6. Heard'
    BY <2>1, <2>2 DEF JInv, Heard, RInv, Runs
  <2>7. Judged'
    BY <2>1, <2>2, <2>4 DEF JInv, Judged, Passed
  <2>8. Tabled'
    <3>1. Len(results) \in Nat /\ Len(results) <= Len(log)
      BY DEF RInv, TypeOK, JInv, Tabled
    <3>2. \A j \in 1 .. Len(results) : log'[j] = log[j]
      BY <2>1, <2>4, <3>1
    <3>3. \A j \in 1 .. Len(results) : Kept(j)'
      BY <2>2, <3>2 DEF JInv, Tabled, Kept
    <3> QED  BY <2>1, <2>2, <2>4, <3>1, <3>3 DEF JInv, Tabled
  <2>9. Succeeded'
    BY <2>1, <2>2 DEF JInv, Succeeded
  <2> QED  BY <2>0, <2>5, <2>6, <2>7, <2>8, <2>9 DEF JInv
<1>3. CASE OpenFile \/ WriteRow \/ Deadline
  <2>1. UNCHANGED <<script, visible, pc, job, out, local, results, code, log>>
    BY <1>3 DEF OpenFile, WriteRow, Deadline
  <2>2. ~Ended /\ ~Ended'
    BY <1>3 DEF OpenFile, WriteRow, Deadline, Ended, RInv, TypeOK
  <2>3. pc # "judge" /\ (pc \in {"look", "decide"} => rc = None) /\ (pc \in Busy => out = None) /\ code # 0
    BY <2>2 DEF RInv, Runs, JInv, Heard, Succeeded
  <2> QED  BY <1>1, <2>1, <2>2, <2>3 DEF JInv, Where, Reported, Heard, Judged, Tabled, Succeeded, Passed, Kept
<1>4. CASE Read
  BY <1>1, <1>4 DEF Read, JInv, Where, Reported, Heard, Judged, Tabled, Succeeded, Passed, Kept, Ended
<1> QED  BY <1>2, <1>3, <1>4 DEF Bench

\* A process that is killed, and with it the script exits.
LEMMA JudgedKill ==
  ASSUME RInv, JInv, Kill, child.st \in {"seeding", "running"}, pc' = "exit", code' # 0,
         UNCHANGED <<script, visible, job, results>>
  PROVE  JInv'
<1>1. log' = Append(log, [rc |-> Killed, line |-> None])
  BY DEF Kill
<1>2. \A j \in 1 .. Len(log) : log'[j] = log[j]
  BY <1>1, LogGrows
<1>3. Len(log') = Len(log) + 1 /\ Len(log) \in Nat
  BY <1>1, LogGrows
<1>4. Len(results) \in Nat /\ Len(results) <= Len(log)
  BY DEF RInv, TypeOK, JInv, Tabled
<1>5. Tabled'
  <2>1. \A j \in 1 .. Len(results) : log'[j] = log[j]
    BY <1>2, <1>3, <1>4
  <2> QED  BY <1>3, <1>4, <2>1 DEF JInv, Tabled, Kept, Busy
<1> QED  BY <1>5 DEF JInv, Where, Reported, Heard, Judged, Succeeded, Busy

\* What the script goes on from has passed.
LEMMA JudgedOn ==
  ASSUME RInv, JInv, pc \in Busy, Ended, child.rc = 0, pc' = "start", job' = job + 1, code' # 0,
         script = "validate" /\ job >= 2 => (child.line.errors > 0 <=> job = 2),
         UNCHANGED <<script, visible, log>>, Tabled'
  PROVE  JInv'
<1>1. job \in Nat \ {0}
  BY SomeJobs DEF RInv, TypeOK
<1>2. log[job] = [rc |-> child.rc, line |-> child.line]
  BY DEF JInv, Reported
<1>3. Passed(job)
  BY <1>2 DEF Passed
<1>4. \A j \in 1 .. job' - 1 : Passed(j)
  BY <1>1, <1>3 DEF JInv, Judged
<1>5. Judged'
  BY <1>4 DEF Judged, Passed
<1> QED  BY <1>5 DEF JInv, Where, Reported, Heard, Succeeded, Busy

LEMMA JudgedScript ==
  ASSUME RInv, RInv', JInv, Script \/ Interrupt
  PROVE  JInv'
<1> USE ScriptsAssumption, SomeJobs DEF local, Exit, NextJob
<1>1. Jobs' = Jobs
  BY DEF Script, Start, Done, Waited, Join, TimeoutExpired, Validate, Tabulate, Poll, Look, Decide, Interrupt,
         Jobs
<1>0. /\ job \in 1 .. Jobs + 1 /\ Codes \subseteq Nat /\ child.rc \in Codes
      /\ Len(results) \in Nat /\ Len(log) \in Nat /\ Len(log) <= Jobs
  BY DEF RInv, TypeOK, Runs, Codes
<1>2. CASE Start
  <2>1. /\ ~Ended' /\ out' = None /\ pc = "start" /\ pc' = IF script = "long" THEN "poll" ELSE "wait"
        /\ UNCHANGED <<script, visible, job, results, code, log>>
    BY <1>2 DEF Start, Ended
  <2>2. code' # 0
    BY <2>1 DEF RInv, TypeOK
  <2> QED  BY <2>1, <2>2 DEF JInv, Where, Reported, Heard, Judged, Tabled, Succeeded, Passed, Kept, Busy
<1>3. CASE Done
  <2>1. /\ pc = "start" /\ job = Jobs + 1 /\ Len(log) = Jobs /\ pc' = "exit"
        /\ UNCHANGED <<script, visible, child, results, log>>
    BY <1>0, <1>3 DEF Done, RInv, Runs
  <2>2. Ended
    BY <2>1 DEF RInv, TypeOK, Runs, Ended
  <2> QED  BY <1>1, <2>1, <2>2 DEF JInv, Where, Reported, Heard, Judged, Tabled, Succeeded, Passed, Kept, Ended, Busy
<1>4. CASE Waited
  BY <1>1, <1>4 DEF Waited, RInv, TypeOK, JInv, Where, Reported, Heard, Judged, Tabled, Succeeded, Passed, Kept, Ended,
                    Busy
<1>5. CASE Join
  <2>1. visible
    BY <1>5 DEF Join, JInv, Where
  <2> QED  BY <1>1, <1>5 DEF Join, RInv, TypeOK, JInv, Where, Reported, Heard, Judged, Tabled, Succeeded, Passed, Kept,
                             Ended, Busy
<1>6. CASE TimeoutExpired
  <2>1. child.st \in {"seeding", "running"}
    BY <1>6 DEF TimeoutExpired, RInv, Runs, TypeOK, Ended, Busy
  <2> QED  BY <1>6, <2>1, JudgedKill DEF TimeoutExpired
<1>7. CASE Validate
  <2>1. Ended /\ pc \in Busy
    BY <1>7 DEF Validate, RInv, Runs, Busy
  <2>2. Verdict \in Nat
    BY VerdictIsCode
  <2>3. CASE Verdict = 0
    <3>1. out = child.line
      BY <1>7 DEF Validate, JInv, Where, Heard, RInv, TypeOK
    <3>2. child.rc = 0 /\ (job >= 2 => (child.line.errors > 0 <=> job = 2))
      BY <1>0, <2>3, <3>1 DEF Verdict
    <3>3. Tabled'
      BY <1>7 DEF Validate, JInv, Tabled, Kept
    <3>4. code' # 0
      BY <1>7, <2>3 DEF Validate, RInv, TypeOK
    <3> QED  BY <1>7, <2>1, <2>3, <3>2, <3>3, <3>4, JudgedOn DEF Validate
  <2>4. CASE Verdict # 0
    BY <1>7, <2>4 DEF Validate, JInv, Where, Reported, Heard, Judged, Tabled, Succeeded, Kept, Busy
  <2> QED  BY <2>3, <2>4
<1>8. CASE Tabulate
  <2>1. Ended /\ pc \in Busy /\ Len(log) = job /\ Len(results) = job - 1
    BY <1>8 DEF Tabulate, RInv, Runs, Busy, JInv, Tabled
  <2>2. CASE child.rc # 0 \/ out = None
    BY <1>8, <1>0, <2>2 DEF Tabulate, NotZero, JInv, Where, Reported, Heard, Judged, Tabled, Succeeded, Kept, Busy
  <2>3. CASE ~(child.rc # 0 \/ out = None)
    <3>1. /\ results' = Append(results, out) /\ UNCHANGED <<script, visible, log, code>>
          /\ job' = job + 1 /\ pc' = "start" /\ child.rc = 0 /\ script = "matrix"
      BY <1>8, <2>3 DEF Tabulate
    <3>2. out = child.line /\ log[job].line = out /\ log[job].rc = 0 /\ out.job = job
      BY <2>1, <2>3 DEF JInv, Heard, Reported
    <3>3. /\ Len(results') = job /\ results'[job] = out
          /\ \A j \in 1 .. job - 1 : results'[j] = results[j]
      BY <2>1, <3>1 DEF RInv, TypeOK
    <3>4. Tabled'
      BY <1>0, <2>1, <3>1, <3>2, <3>3 DEF JInv, Tabled, Kept
    <3>5. code' # 0
      BY <1>8, <3>1 DEF Tabulate, RInv, TypeOK
    <3> QED  BY <2>1, <3>1, <3>4, <3>5, JudgedOn
  <2> QED  BY <2>2, <2>3
<1>9. CASE Poll \/ Look
  <2>1. /\ pc \in {"poll", "look"} /\ pc' \in {"look", "decide"} /\ (pc' = "decide" => pc = "look" /\ rc' = rc)
        /\ (pc' = "look" /\ rc' # None => rc' = child.rc)
        /\ UNCHANGED <<script, visible, job, child, out, results, code, log>>
    BY <1>9 DEF Poll, Look
  <2>2. code # 0
    BY <2>1 DEF RInv, TypeOK
  <2> QED  BY <1>1, <2>1, <2>2 DEF JInv, Where, Reported, Heard, Judged, Tabled, Passed, Kept, Succeeded, Ended, Busy
<1>10. CASE Decide
  <2>1. CASE Polled = 0
    <3>1. Ended /\ child.rc = 0 /\ pc \in Busy /\ script = "long"
      BY <1>10, <2>1 DEF Decide, Polled, RInv, Runs, JInv, Where, Reported, Busy
    <3>2. pc' = "start" /\ job' = job + 1 /\ UNCHANGED <<script, visible, log, code, results>>
      BY <1>10, <2>1 DEF Decide
    <3>3. Tabled' /\ code' # 0
      BY <1>10, <3>1, <3>2 DEF Decide, JInv, Tabled, Kept, RInv, TypeOK
    <3> QED  BY <3>1, <3>2, <3>3, JudgedOn
  <2>2. CASE Polled # None /\ Polled # 0
    BY <1>10, <2>2 DEF Decide, JInv, Where, Reported, Heard, Judged, Tabled, Succeeded, Kept, Busy
  <2>3. CASE Polled = None /\ Late /\ ~Ended
    <3>1. child.st \in {"seeding", "running"}
      BY <1>10, <2>3 DEF Decide, RInv, Runs, TypeOK, Ended, Busy
    <3> QED  BY <1>10, <2>3, <3>1, JudgedKill DEF Decide
  <2>4. CASE Polled = None /\ Late /\ Ended
    BY <1>10, <2>4 DEF Decide, JInv, Where, Reported, Heard, Judged, Tabled, Succeeded, Kept, Busy
  <2>5. CASE Polled = None /\ ~Late
    <3>1. /\ pc = "decide" /\ pc' = "poll"
          /\ UNCHANGED <<script, visible, job, child, out, results, code, log, rc>>
      BY <1>10, <2>5 DEF Decide
    <3>2. code # 0
      BY <3>1 DEF RInv, TypeOK
    <3> QED  BY <1>1, <3>1, <3>2 DEF JInv, Where, Reported, Heard, Judged, Tabled, Passed, Kept, Succeeded, Ended, Busy
  <2> QED  BY <2>1, <2>2, <2>3, <2>4, <2>5
<1>11. CASE Interrupt
  BY <1>11 DEF Interrupt, JInv, Where, Reported, Heard, Judged, Tabled, Succeeded, Kept, Busy
<1> QED  BY <1>2, <1>3, <1>4, <1>5, <1>6, <1>7, <1>8, <1>9, <1>10, <1>11 DEF Script

LEMMA JudgedNext == RInv /\ RInv' /\ JInv /\ [Next]_vars => JInv'
<1> SUFFICES ASSUME RInv, RInv', JInv, [Next]_vars PROVE JInv'
  OBVIOUS
<1>1. CASE Next
  BY <1>1, JudgedBench, JudgedScript DEF Next
<1>2. CASE UNCHANGED vars
  BY <1>2 DEF vars, local, JInv, Where, Reported, Heard, Judged, Tabled, Succeeded, Passed, Kept, Ended, Busy, Jobs
<1> QED  BY <1>1, <1>2

LEMMA JudgedInvariance == Spec => []JInv
  BY JudgedInit, JudgedNext, RunsInvariance, PTL DEF Spec

-----------------------------------------------------------------------------
(* What has been shown                                                     *)

\* The last row that was looked at when the process had ended is the last there is.
SInv ==
  /\ pc = "decide" /\ rc # None /\ row # None => last_elapsed = file
  /\ LastRowIsShown

LEMMA ShownNext == RInv /\ JInv /\ SInv /\ [Next]_vars => SInv'
<1> SUFFICES ASSUME RInv, JInv, SInv, [Next]_vars PROVE SInv'
  OBVIOUS
<1> USE ScriptsAssumption DEF RInv, TypeOK, Runs, SInv, LastRowIsShown, local, Exit, NextJob, Ended, Busy
<1>1. CASE Bench \/ Deadline \/ Read \/ Interrupt
  BY <1>1 DEF Bench, OpenFile, WriteRow, End, Deadline, Read, Interrupt
<1>2. CASE Start \/ Done \/ Waited \/ Join \/ TimeoutExpired
  BY <1>2 DEF Start, Done, Waited, Join, TimeoutExpired
<1>3. CASE Validate \/ Tabulate
  BY <1>3 DEF Validate, Tabulate
<1>4. CASE Poll
  BY <1>4 DEF Poll
<1>5. CASE Look
  BY <1>5 DEF Look, last_snapshot_line
<1>6. CASE Decide
  BY <1>6 DEF Decide, Polled
<1>7. CASE UNCHANGED vars
  BY <1>7 DEF vars
<1> QED  BY <1>1, <1>2, <1>3, <1>4, <1>5, <1>6, <1>7 DEF Next, Script

-----------------------------------------------------------------------------
(* The theorems                                                            *)

\* Every variable keeps its type, and a script has an exit code exactly when it is
\* through.
THEOREM TypesAreKept == Spec => []TypeOK
<1>1. RInv => TypeOK
  BY DEF RInv
<1> QED  BY <1>1, RunsInvariance, PTL

\* A script that exits with 0 has earned it, however many runs it makes, and a line
\* in results.csv is the line of the run in its place.
THEOREM SuccessIsEarned == Spec => []VerdictIsEarned
<1>1. RInv /\ JInv => VerdictIsEarned
  <2> SUFFICES ASSUME RInv, JInv PROVE VerdictIsEarned
    OBVIOUS
  <2>1. DOMAIN log = 1 .. Len(log) /\ DOMAIN results = 1 .. Len(results)
    BY DEF RInv, TypeOK, Runs
  <2>2. \A j \in 2 .. Jobs : j \in 1 .. Jobs /\ j >= 2
    BY SomeJobs
  <2>3. code = 0 =>
          /\ Len(log) = Jobs /\ \A j \in DOMAIN log : log[j].rc = 0
          /\ script = "validate" => \A j \in 2 .. Jobs : log[j].line.errors > 0 <=> j = 2
          /\ script = "matrix" => Len(results) = Jobs
    BY <2>1, <2>2 DEF JInv, Succeeded, Passed
  <2>4. \A j \in DOMAIN results : log[j].rc = 0 /\ results[j] = log[j].line /\ results[j].job = j
    BY <2>1 DEF JInv, Tabled, Kept
  <2> QED  BY <2>3, <2>4 DEF VerdictIsEarned
<1> QED  BY <1>1, RunsInvariance, JudgedInvariance, PTL

\* The progress that the long script has shown last of a run is the run's last row.
THEOREM ShownIsLast == Spec => []LastRowIsShown
<1>1. Init => SInv
  BY ScriptsAssumption DEF Init, SInv, LastRowIsShown
<1>2. SInv => LastRowIsShown
  BY DEF SInv
<1> QED  BY <1>1, <1>2, ShownNext, RunsInvariance, JudgedInvariance, PTL DEF Spec
=============================================================================
