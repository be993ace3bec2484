------------------------------- MODULE Bench -------------------------------
(***************************************************************************)
(* One run of bench.c: bench_main sets a map up, starts the workers,       *)
(* writes a row of the snapshot file now and then while they work, adds up *)
(* what they have done when they are through, prints the result and takes  *)
(* everything down again.  Every call that can fail has a cleanup path of  *)
(* its own, a list of what it gives back one after another; workers that   *)
(* are already started go on meanwhile.                                    *)
(*                                                                         *)
(* The workers share two atomic counters with bench_main; each has fields  *)
(* of its own (op_n and lat_idx, then *out_ops and lat_written) that       *)
(* bench_main reads after the wait.  Which operation a worker picks and    *)
(* what the map answers is left open, up to whether val_check rejects it.  *)
(*                                                                         *)
(* A definition called a variant is a plausible mistake in the definition  *)
(* after it: the properties are tried on it.                               *)
(***************************************************************************)
EXTENDS Integers, Sequences, FiniteSets, FiniteSetsExt

CONSTANTS
  Asked,        \* --threads
  MaxWait,      \* MAXIMUM_WAIT_OBJECTS, 64: how many handles a wait can take
  ErrorMod,     \* verify_errors counts modulo this, 2^32 in the code
  SampleEvery,  \* 97
  LatCap,       \* per_thread_lat, 50000
  MaxOps,       \* bound: the operations a worker does before its time is up
  MaxTimeouts   \* bound: the waits that time out

ASSUME BenchAssumption ==
  /\ Asked \in Int
  /\ {MaxWait, ErrorMod, SampleEvery, LatCap} \subseteq Nat \ {0}
  /\ {MaxOps, MaxTimeouts} \subseteq Nat

\* if (threads < 1) ...; if (threads > 64) ...  Variant: only the first.
AtLeastOne(n) == IF n < 1 THEN 1 ELSE n
Clamped(n) == IF n < 1 THEN 1 ELSE IF n > MaxWait THEN MaxWait ELSE n

Worker == 0 .. Clamped(Asked) - 1

VARIABLES
  pc,             \* where bench_main is
  held,           \* what it has obtained and not given back
  handles,        \* likewise the handles, by worker
  given,          \* history: what it has given back
  step,           \* how far it is on the path that gives things back
  started,        \* the workers CreateThread has started
  waited,         \* what the last wait returned
  row,            \* snap_last_ops, and the last row of the snapshot file
  timeouts,
  result,         \* what bench_main prints
  rc,             \* what it returns
  ops_live, verify_errors,          \* BenchShared
  wpc,            \* where each worker is
  op_n, lat_idx,                    \* its locals
  ops_each, lat_written,            \* its results
  rejected        \* history: the values val_check has rejected

own    == <<held, handles, given, step>>
main   == <<pc, own, started, waited, row, timeouts, result, rc>>
shared == <<ops_live, verify_errors>>
work   == <<wpc, op_n, lat_idx, ops_each, lat_written, rejected>>
vars   == <<main, shared, work>>

Arrays   == {"th", "ctxs", "ops_each", "lat_all"}
Resource == {"map", "file", "merged"} \cup Arrays
NoRow    == [ops |-> 0, errors |-> 0, written |-> FALSE]
Nothing  == [ops |-> 0, errors |-> 0, samples |-> 0, printed |-> FALSE]
Zeros    == [w \in Worker |-> 0]

Init ==
  /\ pc = "create" /\ held = {} /\ handles = {} /\ given = {} /\ step = 0 /\ started = {} /\ waited = "nothing"
  /\ row = NoRow /\ timeouts = 0 /\ result = Nothing /\ rc = 0
  /\ ops_live = 0 /\ verify_errors = 0
  /\ wpc = [w \in Worker |-> "none"]
  /\ op_n = Zeros /\ lat_idx = Zeros /\ ops_each = Zeros /\ lat_written = Zeros
  /\ rejected = 0

-----------------------------------------------------------------------------
(* What bench_main gives back                                              *)

\* The cleanup path behind each call that can fail, in the order of the code.
\* Variant: the file stays open.
OpenFailed  == <<"map">>
FileLeftOpen == <<"th", "ctxs", "ops_each", "lat_all", "map">>
AllocFailed == <<"file", "th", "ctxs", "ops_each", "lat_all", "map">>
SpawnFailed == <<"file", "handles", "th", "ctxs", "ops_each", "lat_all", "map">>

\* What it gives back when all is well: behind the wait, with the percentile, and
\* at the end.
WorkersDone == <<"handles", "th", "file">>
SamplesDone == <<"merged">>
AllDone     == <<"lat_all", "ops_each", "ctxs", "map">>

Path == [openfailed |-> OpenFailed, allocfailed |-> AllocFailed, spawnfailed |-> SpawnFailed,
         collect |-> WorkersDone, p99 |-> SamplesDone, destroy |-> AllDone]

\* Where it is when it has come to the end of a path.
Behind == [openfailed |-> "down", allocfailed |-> "down", spawnfailed |-> "down",
           collect |-> "merge", p99 |-> "print", destroy |-> "down"]

\* The handles that are closed: those of the threads started when CreateThread has
\* failed, of all when all are through.
ClosedNow == IF pc = "spawnfailed" THEN {w \in Worker : w < Cardinality(started)} ELSE Worker

\* The next thing on the path.  free and the tests of snap_fp let pass what has
\* never been obtained.
GiveBack ==
  /\ pc \in DOMAIN Path
  /\ LET r == Path[pc][step + 1]
     IN  /\ held' = held \ {r}
         /\ handles' = IF r = "handles" THEN handles \ ClosedNow ELSE handles
         /\ given' = given \cup {r}
  /\ IF step + 1 < Len(Path[pc]) THEN step' = step + 1 /\ UNCHANGED pc
     ELSE step' = 0 /\ pc' = Behind[pc]
  /\ UNCHANGED <<started, waited, row, timeouts, result, rc, shared, work>>

-----------------------------------------------------------------------------
(* bench_main                                                              *)

\* A call fails: print what, take its cleanup path, return 1.
Fail(path) == pc' = path /\ rc' = 1

\* vt->create, and the puts that seed the map.  A snapshot file is asked for, or not.
Create ==
  /\ pc = "create"
  /\ \/ held' = {"map"} /\ pc' \in {"open", "alloc"} /\ UNCHANGED rc
     \/ Fail("down") /\ UNCHANGED held
  /\ UNCHANGED <<handles, given, step, started, waited, row, timeouts, result, shared, work>>

Open ==
  /\ pc = "open"
  /\ \/ held' = held \cup {"file"} /\ pc' = "alloc" /\ UNCHANGED rc
     \/ Fail("openfailed") /\ UNCHANGED held
  /\ UNCHANGED <<handles, given, step, started, waited, row, timeouts, result, shared, work>>

\* All four arrays are asked for before the first is looked at.
Alloc ==
  /\ pc = "alloc"
  /\ \E got \in SUBSET Arrays :
       /\ held' = held \cup got
       /\ IF got = Arrays THEN pc' = "spawn" /\ UNCHANGED rc ELSE Fail("allocfailed")
  /\ UNCHANGED <<handles, given, step, started, waited, row, timeouts, result, shared, work>>

\* One round of the loop that starts the workers, in the order of their tid.
\* The failure path takes the map down under the workers already started.
Spawn ==
  /\ pc = "spawn"
  /\ LET t == Cardinality(started)
     IN  \/ /\ started' = started \cup {t}
            /\ handles' = handles \cup {t}
            /\ wpc' = [wpc EXCEPT ![t] = "check"]
            /\ pc' = IF t + 1 \in Worker THEN "spawn" ELSE "wait"
            /\ UNCHANGED rc
         \/ Fail("spawnfailed") /\ UNCHANGED <<started, handles, wpc>>
  /\ UNCHANGED <<held, given, step, waited, row, timeouts, result, shared,
                 op_n, lat_idx, ops_each, lat_written, rejected>>

Snapshots == "file" \in held

Through == \A w \in Worker : wpc[w] = "gone"

\* What WaitForMultipleObjects can return now; it refuses more handles than
\* MaxWait, and only the wait of the snapshot loop times out.
WaitReturns ==
  IF Cardinality(Worker) > MaxWait THEN {"failed"}
  ELSE IF Through THEN {"signalled"}
  ELSE IF Snapshots /\ timeouts < MaxTimeouts THEN {"timeout"}
  ELSE {}

\* Every wait of the loop is followed by a row.  Variant: the last one is not.
LastRowLost(w) == IF w = "timeout" THEN "load" ELSE "collect"
AfterWait(w) == "load"

\* if (w != WAIT_TIMEOUT) break.  Variant: the loop goes on as long as it has a file.
NeverOver(w) == FALSE
Over(w) == w # "timeout"

Wait ==
  /\ pc = "wait"
  /\ \E w \in WaitReturns :
       /\ waited' = w
       /\ timeouts' = IF w = "timeout" THEN timeouts + 1 ELSE timeouts
       /\ pc' = IF Snapshots THEN AfterWait(w) ELSE "collect"
  /\ UNCHANGED <<own, started, row, result, rc, shared, work>>

\* A row is two loads, ops_now and then verr_now; workers go on between them.
LoadOps ==
  /\ pc = "load"
  /\ row' = [row EXCEPT !.ops = ops_live]
  /\ pc' = "errors"
  /\ UNCHANGED <<own, started, waited, timeouts, result, rc, shared, work>>

LoadErrors ==
  /\ pc = "errors"
  /\ row' = [row EXCEPT !.errors = verify_errors, !.written = TRUE]
  /\ pc' = IF Over(waited) THEN "collect" ELSE "wait"
  /\ UNCHANGED <<own, started, waited, timeouts, result, rc, shared, work>>

\* for (t = 0; t < threads; ++t) total += f[t]
Total(f) ==
  LET total[t \in Nat] == IF t = 0 THEN 0 ELSE total[t - 1] + f[t - 1]
  IN  total[Clamped(Asked)]

\* The results are added up, and the samples merged if there is memory for it.
Merge ==
  /\ pc = "merge"
  /\ \/ /\ held' = held \cup {"merged"}
        /\ result' = [result EXCEPT !.ops = Total(ops_each),
             !.samples = Total([w \in Worker |-> Min({lat_written[w], LatCap})])]
     \/ /\ UNCHANGED held
        /\ result' = [result EXCEPT !.ops = Total(ops_each)]
  /\ pc' = "p99"
  /\ UNCHANGED <<handles, given, step, started, waited, row, timeouts, rc, shared, work>>

Report ==
  /\ pc = "print"
  /\ result' = [result EXCEPT !.errors = verify_errors, !.printed = TRUE]
  /\ pc' = "destroy"
  /\ UNCHANGED <<own, started, waited, row, timeouts, rc, shared, work>>

\* bench_main returns, and the process ends with it.
Exit ==
  /\ pc = "down"
  /\ pc' = "exit"
  /\ UNCHANGED <<own, started, waited, row, timeouts, result, rc, shared, work>>

Main ==
  \/ Create \/ Open \/ Alloc \/ Spawn \/ Wait \/ LoadOps \/ LoadErrors
  \/ Merge \/ Report \/ GiveBack \/ Exit

-----------------------------------------------------------------------------
(* worker                                                                  *)

WGoto(w, l) == wpc' = [wpc EXCEPT ![w] = l]

\* while (qpc_now() < end): one more operation, or the time is up.
Check(w) ==
  /\ wpc[w] = "check"
  /\ \/ op_n[w] < MaxOps /\ WGoto(w, "op")
     \/ WGoto(w, "stop")
  /\ UNCHANGED <<main, shared, op_n, lat_idx, ops_each, lat_written, rejected>>

\* The call into the map; val_check rejects what a get has returned, or not.
Operate(w) ==
  /\ wpc[w] = "op"
  /\ \/ WGoto(w, "reject") /\ rejected' = rejected + 1
     \/ WGoto(w, "count") /\ UNCHANGED rejected
  /\ UNCHANGED <<main, shared, op_n, lat_idx, ops_each, lat_written>>

\* atomic_fetch_add(&verify_errors, 1)
Incremented(n) == (n + 1) % ErrorMod

Reject(w) ==
  /\ wpc[w] = "reject"
  /\ verify_errors' = Incremented(verify_errors)
  /\ WGoto(w, "count")
  /\ UNCHANGED <<main, ops_live, op_n, lat_idx, ops_each, lat_written, rejected>>

\* Is the operation just counted one whose latency is kept?  Variants: the bound
\* of the buffer is forgotten; the buffer takes the first latencies there are.
AnySample(w) == op_n'[w] % SampleEvery = 0
FirstSamples(w) == lat_idx[w] < LatCap
Sampled(w) == op_n'[w] % SampleEvery = 0 /\ lat_idx[w] < LatCap

\* atomic_fetch_add(&ops_live, 1), then the worker's own count and sample.
Count(w) ==
  /\ wpc[w] = "count"
  /\ ops_live' = ops_live + 1
  /\ op_n' = [op_n EXCEPT ![w] = @ + 1]
  /\ lat_idx' = IF Sampled(w) THEN [lat_idx EXCEPT ![w] = @ + 1] ELSE lat_idx
  /\ WGoto(w, "check")
  /\ UNCHANGED <<main, verify_errors, ops_each, lat_written, rejected>>

\* *out_ops and lat_written are set, and the thread ends.
Stop(w) ==
  /\ wpc[w] = "stop"
  /\ ops_each' = [ops_each EXCEPT ![w] = op_n[w]]
  /\ lat_written' = [lat_written EXCEPT ![w] = lat_idx[w]]
  /\ WGoto(w, "gone")
  /\ UNCHANGED <<main, shared, op_n, lat_idx, rejected>>

Work(w) == Check(w) \/ Operate(w) \/ Reject(w) \/ Count(w) \/ Stop(w)

\* The process ends when bench_main returns, whatever its threads are at.
Next == pc # "exit" /\ (Main \/ \E w \in Worker : Work(w))

Spec == Init /\ [][Next]_vars

\* Every thread that can run does; the bound on operations is the worker's time.
FairSpec == Spec /\ WF_vars(Main) /\ \A w \in Worker : WF_vars(pc # "exit" /\ Work(w))

-----------------------------------------------------------------------------
(* Properties                                                              *)

\* Every variable keeps its type.  In particular no worker writes beyond its part
\* of the sample buffer.
TypeOK ==
  /\ pc \in {"create", "open", "alloc", "spawn", "wait", "load", "errors", "merge", "print",
             "down", "exit"} \cup DOMAIN Path
  /\ held \subseteq Resource /\ given \subseteq Resource \cup {"handles"}
  /\ step \in Nat /\ (pc \in DOMAIN Path => step < Len(Path[pc]))
  /\ started \subseteq Worker /\ handles \subseteq Worker
  /\ waited \in {"nothing", "timeout", "signalled", "failed"}
  /\ row \in [ops : Nat, errors : 0 .. ErrorMod - 1, written : BOOLEAN] /\ timeouts \in 0 .. MaxTimeouts
  /\ result \in [ops : Nat, errors : 0 .. ErrorMod - 1, samples : Nat, printed : BOOLEAN]
  /\ rc \in {0, 1}
  /\ ops_live \in Nat /\ verify_errors \in 0 .. ErrorMod - 1
  /\ wpc \in [Worker -> {"none", "check", "op", "reject", "count", "stop", "gone"}]
  /\ op_n \in [Worker -> 0 .. MaxOps] /\ ops_each \in [Worker -> 0 .. MaxOps]
  /\ lat_idx \in [Worker -> 0 .. LatCap] /\ lat_written \in [Worker -> 0 .. LatCap]
  /\ rejected \in Nat

Running(w) == wpc[w] \notin {"none", "gone"}

\* What a worker uses: the map, its context, and its parts of two arrays.
Used == {"map", "ctxs", "ops_each", "lat_all"}

\* What the workers use outlives them, except when CreateThread fails: then
\* bench_main takes it down under the workers already started.
MapOutlivesWorkers ==
  (\E w \in Worker : Running(w)) /\ ~(Used \subseteq held) => rc = 1 /\ started # Worker

\* Whichever call fails, and whichever of the allocations before it have not, the
\* path it takes gives back all there is: when bench_main returns, nothing is left.
\* Nothing is given back twice on the way, the map not before it is there, the
\* handles of no other threads than those started and not after their array.
NothingLeaks ==
  /\ pc \in {"down", "exit"} => held = {} /\ handles = {}
  /\ pc \in DOMAIN Path =>
       LET r == Path[pc][step + 1]
       IN  /\ r \notin given
           /\ r = "map" => "map" \in held
           /\ r = "handles" => "th" \in held /\ ClosedNow \subseteq handles

\* What bench_main prints is what has happened: the operations it adds up from the
\* workers are those counted in ops_live, the errors those val_check has found, as
\* far as 32 bits can tell, and the last row of the snapshot file says the same.
TotalsAgree ==
  result.printed =>
    /\ result.ops = ops_live
    /\ result.errors = rejected % ErrorMod
    /\ row.written => row.ops = result.ops /\ row.errors = result.errors

\* The samples that p99 is taken of are every SampleEvery-th latency of each
\* worker until its part of the buffer is full, or none at all.
SamplesAreKept ==
  result.printed =>
    result.samples \in {0, Total([w \in Worker |-> Min({op_n[w] \div SampleEvery, LatCap})])}

\* bench_main returns: the workers run out of time, and the wait sees it.
Terminates == <>(pc = "exit")

=============================================================================
