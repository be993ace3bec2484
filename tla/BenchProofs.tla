---------------------------- MODULE BenchProofs ----------------------------
(***************************************************************************)
(* Bench for any number of threads asked for and any limits: bench_main    *)
(* returns with nothing left to give back, whichever call has failed,      *)
(* takes nothing away from a worker that still runs, except where          *)
(* CreateThread has failed, and prints what the workers have done.         *)
(*                                                                         *)
(* What bench_main has, while it gets on, follows from where it is         *)
(* (Holds); on a path that gives things back nothing is had that is not    *)
(* still to come on this path or a later one (Returns).  Whom it has       *)
(* started follows from where it is (Starts); what it may take down        *)
(* follows from what the wait has told it (Waits), and the wait tells the  *)
(* truth because the clamp keeps the number of handles within what it can  *)
(* take.  The counters say what the workers have done at any time          *)
(* (Counts), so that a row or a line written when they are through is      *)
(* final (Rows, Prints).                                                   *)
(***************************************************************************)
EXTENDS Bench, SharedLemmas, FiniteSetTheorems, TLAPS

\* Abbreviations every proof may expand.
USE DEF AfterWait, Over

-----------------------------------------------------------------------------
(* The invariant                                                           *)

\* The places of bench_main between the start of the last worker and the end of
\* the last wait, those after it, and its paths that give things back.
Waiting  == {"wait", "load", "errors"}
After    == {"collect", "merge", "p99", "print", "destroy"}
Failing  == {"openfailed", "allocfailed", "spawnfailed"}
OnPath   == Failing \cup {"collect", "p99", "destroy"}

\* What the invariant says of the variables' types.
Types ==
  /\ pc \in {"create", "open", "alloc", "spawn", "down", "exit"} \cup Waiting \cup After \cup Failing
  /\ held \subseteq Resource
  /\ started \subseteq Worker
  /\ wpc \in [Worker -> {"none", "check", "op", "reject", "count", "stop", "gone"}]
  /\ waited \in {"nothing", "timeout", "signalled", "failed"}
  /\ step \in Nat
  /\ given \subseteq Resource \cup {"handles"}

\* What is still to come on a path, and on those after it.
Left(p) == IF p \in OnPath THEN {Path[p][i] : i \in step + 1 .. Len(Path[p])} ELSE {}
Later(p) ==
  IF p \in {"collect", "merge"} THEN {"merged", "lat_all", "ops_each", "ctxs", "map"}
  ELSE IF p \in {"p99", "print"} THEN {"lat_all", "ops_each", "ctxs", "map"}
  ELSE {}

\* What bench_main has where it gets on.
Holds ==
  /\ pc \in {"create", "open", "alloc", "spawn"} \cup Waiting =>
       given = {} /\ handles = started /\ "merged" \notin held
  /\ pc \in {"create", "open", "alloc"} => held \cap Arrays = {}
  /\ pc \in {"create", "open"} => "file" \notin held
  /\ pc = "create" => held = {}
  /\ pc \in {"open", "alloc", "spawn"} \cup Waiting => "map" \in held
  /\ pc \in {"spawn"} \cup Waiting => Arrays \subseteq held

\* Where it gives things back, it has nothing but what is still to come, and the
\* map and the handles as long as they are to come; nothing to come is given.
Returns ==
  /\ pc \in OnPath => step < Len(Path[pc])
  /\ pc \notin OnPath => step = 0
  /\ pc \in OnPath \cup After =>
       /\ held \subseteq Left(pc) \cup Later(pc)
       /\ given \cap (Left(pc) \cup Later(pc)) = {}
       /\ "map" \in Left(pc) \cup Later(pc) => "map" \in held
       /\ handles = IF "handles" \in Left(pc) THEN started ELSE {}
       /\ "handles" \in Left(pc) => "th" \in held
  /\ pc \in {"down", "exit"} => held = {} /\ handles = {}

\* The first n workers.
First(n) == 0 .. n - 1

\* Whom it has started: nobody, then one after the other, then everybody.
Starts ==
  /\ \A w \in Worker : wpc[w] # "none" <=> w \in started
  /\ pc \in {"create", "open", "alloc", "openfailed", "allocfailed"} => started = {}
  /\ pc \in {"spawn", "spawnfailed"} => \E n \in Worker : started = First(n)
  /\ pc \in Waiting \cup After => started = Worker

\* What the waits have told it.
Waits ==
  /\ pc \in {"load", "errors"} /\ waited # "timeout" => Through
  /\ pc \in After => Through
  /\ pc \in Failing => rc = 1 /\ started # Worker
  /\ pc \in {"down", "exit"} => (rc = 1 /\ started # Worker) \/ \A w \in Worker : ~Running(w)

IInv == Types /\ Holds /\ Returns /\ Starts /\ Waits

-----------------------------------------------------------------------------
(* The number of workers                                                   *)

\* There is a worker, and one handle for each fits into a wait.
LEMMA ClampedBounds == Clamped(Asked) \in 1 .. MaxWait
  BY BenchAssumption DEF Clamped

LEMMA HandlesFit == Cardinality(Worker) \in 1 .. MaxWait
<1>1. Clamped(Asked) \in 1 .. MaxWait /\ MaxWait \in Nat
  BY ClampedBounds, BenchAssumption
<1>2. Cardinality(0 .. Clamped(Asked) - 1) = Clamped(Asked)
  BY <1>1, FS_Interval
<1> QED  BY <1>1, <1>2 DEF Worker

\* The tid of the next worker is the number of those started.
LEMMA NextTid ==
  ASSUME NEW n \in Worker, started = First(n)
  PROVE  Cardinality(started) = n
<1>1. n \in Nat
  BY ClampedBounds, BenchAssumption DEF Worker
<1>2. Cardinality(0 .. n - 1) = n
  BY <1>1, FS_Interval
<1> QED  BY <1>2 DEF First

-----------------------------------------------------------------------------
(* The paths                                                               *)

\* What is on each path.
LEMMA PathIs ==
  /\ DOMAIN Path = OnPath
  /\ Path["openfailed"] = <<"map">>
  /\ Path["allocfailed"] = <<"file", "th", "ctxs", "ops_each", "lat_all", "map">>
  /\ Path["spawnfailed"] = <<"file", "handles", "th", "ctxs", "ops_each", "lat_all", "map">>
  /\ Path["collect"] = <<"handles", "th", "file">>
  /\ Path["p99"] = <<"merged">>
  /\ Path["destroy"] = <<"lat_all", "ops_each", "ctxs", "map">>
  BY DEF Path, OpenFailed, AllocFailed, SpawnFailed, WorkersDone, SamplesDone, AllDone, OnPath, Failing

\* Nothing is on a path twice or also on a later one; the handles come before their
\* array.
LEMMA PathFacts ==
  ASSUME NEW p \in OnPath
  PROVE  /\ Len(Path[p]) \in Nat \ {0}
         /\ \A i \in 1 .. Len(Path[p]) :
              /\ Path[p][i] \in Resource \cup {"handles"}
              /\ Path[p][i] \notin Later(p)
              /\ \A j \in 1 .. Len(Path[p]) :
                   i < j => Path[p][i] # Path[p][j] /\ ~(Path[p][i] = "th" /\ Path[p][j] = "handles")
<1> DEFINE q == Path[p]
<1> USE DEF Later, Resource, Arrays
<1>1. CASE p = "openfailed"
  <2>1. Len(q) = 1 /\ q[1] = "map"
    BY <1>1, PathIs
  <2> HIDE DEF q
  <2>2. \A i \in 1 .. Len(q) : i = 1
    BY <2>1
  <2>3. /\ Len(q) \in Nat \ {0}
        /\ \A i \in 1 .. Len(q) :
             /\ q[i] \in Resource \cup {"handles"} /\ q[i] \notin Later(p)
             /\ \A j \in 1 .. Len(q) : i < j => q[i] # q[j] /\ ~(q[i] = "th" /\ q[j] = "handles")
    BY <1>1, <2>1, <2>2
  <2> QED  BY <2>3 DEF q
<1>2. CASE p = "allocfailed"
  <2>1. Len(q) = 6 /\ q[1] = "file" /\ q[2] = "th" /\ q[3] = "ctxs" /\ q[4] = "ops_each" /\ q[5] = "lat_all" /\ q[6] = "map"
    BY <1>2, PathIs
  <2> HIDE DEF q
  <2>2. \A i \in 1 .. Len(q) : i = 1 \/ i = 2 \/ i = 3 \/ i = 4 \/ i = 5 \/ i = 6
    BY <2>1
  <2>3. /\ Len(q) \in Nat \ {0}
        /\ \A i \in 1 .. Len(q) :
             /\ q[i] \in Resource \cup {"handles"} /\ q[i] \notin Later(p)
             /\ \A j \in 1 .. Len(q) : i < j => q[i] # q[j] /\ ~(q[i] = "th" /\ q[j] = "handles")
    BY <1>2, <2>1, <2>2
  <2> QED  BY <2>3 DEF q
<1>3. CASE p = "spawnfailed"
  <2>1. Len(q) = 7 /\ q[1] = "file" /\ q[2] = "handles" /\ q[3] = "th" /\ q[4] = "ctxs" /\ q[5] = "ops_each" /\ q[6] = "lat_all" /\ q[7] = "map"
    BY <1>3, PathIs
  <2> HIDE DEF q
  <2>2. \A i \in 1 .. Len(q) : i = 1 \/ i = 2 \/ i = 3 \/ i = 4 \/ i = 5 \/ i = 6 \/ i = 7
    BY <2>1
  <2>3. /\ Len(q) \in Nat \ {0}
        /\ \A i \in 1 .. Len(q) :
             /\ q[i] \in Resource \cup {"handles"} /\ q[i] \notin Later(p)
             /\ \A j \in 1 .. Len(q) : i < j => q[i] # q[j] /\ ~(q[i] = "th" /\ q[j] = "handles")
    BY <1>3, <2>1, <2>2
  <2> QED  BY <2>3 DEF q
<1>4. CASE p = "collect"
  <2>1. Len(q) = 3 /\ q[1] = "handles" /\ q[2] = "th" /\ q[3] = "file"
    BY <1>4, PathIs
  <2> HIDE DEF q
  <2>2. \A i \in 1 .. Len(q) : i = 1 \/ i = 2 \/ i = 3
    BY <2>1
  <2>3. /\ Len(q) \in Nat \ {0}
        /\ \A i \in 1 .. Len(q) :
             /\ q[i] \in Resource \cup {"handles"} /\ q[i] \notin Later(p)
             /\ \A j \in 1 .. Len(q) : i < j => q[i] # q[j] /\ ~(q[i] = "th" /\ q[j] = "handles")
    BY <1>4, <2>1, <2>2
  <2> QED  BY <2>3 DEF q
<1>5. CASE p = "p99"
  <2>1. Len(q) = 1 /\ q[1] = "merged"
    BY <1>5, PathIs
  <2> HIDE DEF q
  <2>2. \A i \in 1 .. Len(q) : i = 1
    BY <2>1
  <2>3. /\ Len(q) \in Nat \ {0}
        /\ \A i \in 1 .. Len(q) :
             /\ q[i] \in Resource \cup {"handles"} /\ q[i] \notin Later(p)
             /\ \A j \in 1 .. Len(q) : i < j => q[i] # q[j] /\ ~(q[i] = "th" /\ q[j] = "handles")
    BY <1>5, <2>1, <2>2
  <2> QED  BY <2>3 DEF q
<1>6. CASE p = "destroy"
  <2>1. Len(q) = 4 /\ q[1] = "lat_all" /\ q[2] = "ops_each" /\ q[3] = "ctxs" /\ q[4] = "map"
    BY <1>6, PathIs
  <2> HIDE DEF q
  <2>2. \A i \in 1 .. Len(q) : i = 1 \/ i = 2 \/ i = 3 \/ i = 4
    BY <2>1
  <2>3. /\ Len(q) \in Nat \ {0}
        /\ \A i \in 1 .. Len(q) :
             /\ q[i] \in Resource \cup {"handles"} /\ q[i] \notin Later(p)
             /\ \A j \in 1 .. Len(q) : i < j => q[i] # q[j] /\ ~(q[i] = "th" /\ q[j] = "handles")
    BY <1>6, <2>1, <2>2
  <2> QED  BY <2>3 DEF q
<1> QED  BY <1>1, <1>2, <1>3, <1>4, <1>5, <1>6 DEF OnPath, Failing

\* All that a path gives back.
Whole(p) == {Path[p][i] : i \in 1 .. Len(Path[p])}

LEMMA WholeIs ==
  /\ Whole("openfailed") = {"map"}
  /\ Whole("allocfailed") = {"file", "map"} \cup Arrays
  /\ Whole("spawnfailed") = {"file", "handles", "map"} \cup Arrays
  /\ Whole("collect") = {"handles", "th", "file"}
  /\ Whole("p99") = {"merged"}
  /\ Whole("destroy") = {"lat_all", "ops_each", "ctxs", "map"}
<1> USE PathIs DEF Whole, Arrays
<1>1. Whole("openfailed") = {"map"}
  OBVIOUS
<1>2. Whole("allocfailed") = {"file", "map"} \cup Arrays
  OBVIOUS
<1>3. Whole("spawnfailed") = {"file", "handles", "map"} \cup Arrays
  OBVIOUS
<1>4. Whole("collect") = {"handles", "th", "file"}
  OBVIOUS
<1>5. Whole("p99") = {"merged"}
  OBVIOUS
<1>6. Whole("destroy") = {"lat_all", "ops_each", "ctxs", "map"}
  OBVIOUS
<1> QED  BY <1>1, <1>2, <1>3, <1>4, <1>5, <1>6

-----------------------------------------------------------------------------
(* The steps                                                               *)

\* What is to come at the start of a path, with one thing given back, and at its end.
LEMMA LeftIs ==
  ASSUME pc \in OnPath, step \in Nat, step < Len(Path[pc])
  PROVE  /\ step = 0 => Left(pc) = Whole(pc)
         /\ Path[pc][step + 1] \in Left(pc)
         /\ \A x \in Left(pc) : x = Path[pc][step + 1] \/
                                \E i \in step + 2 .. Len(Path[pc]) : x = Path[pc][i]
         /\ \A i \in step + 2 .. Len(Path[pc]) : Path[pc][i] \in Left(pc)
<1>1. Len(Path[pc]) \in Nat \ {0}
  BY PathFacts
<1> QED  BY <1>1 DEF Left, Whole

\* A path is entered at its start, with all of it to come.
LEMMA PathEntered ==
  ASSUME pc' \in OnPath, step' = 0
  PROVE  Left(pc)' = Whole(pc') /\ 0 < Len(Path[pc'])
<1>1. Len(Path[pc']) \in Nat \ {0}
  BY PathFacts
<1> QED  BY <1>1 DEF Left, Whole

\* Behind the waits all that has been obtained is still to come.
LEMMA CollectEntered ==
  ASSUME IInv, pc \in Waiting, pc' \in Waiting \cup {"collect"},
         UNCHANGED <<held, handles, given, step, started>>
  PROVE  Returns'
<1> USE DEF IInv, Types, Holds, Returns, Waiting, After, OnPath, Failing
<1>1. step = 0 /\ "merged" \notin held /\ handles = started /\ given = {} /\ {"map", "th"} \subseteq held
  BY DEF Arrays
<1>2. CASE pc' = "collect"
  <2>1. Left(pc)' = {"handles", "th", "file"} /\ 0 < Len(Path[pc'])
    BY <1>1, <1>2, PathEntered, WholeIs
  <2> QED  BY <1>1, <1>2, <2>1 DEF Resource, Arrays, Later
<1>3. CASE pc' \in Waiting
  BY <1>1, <1>3
<1> QED  BY <1>2, <1>3

\* A path is taken step by step, and left for what comes behind it.
LEMMA GiveBackStep ==
  ASSUME IInv, GiveBack
  PROVE  Types' /\ Holds' /\ Returns'
<1> DEFINE r == Path[pc][step + 1]
           n == Len(Path[pc])
           Rest == {Path[pc][i] : i \in step + 2 .. n}
<1> USE DEF IInv, Types, Returns
<1>w. Worker \subseteq Nat
  BY ClampedBounds, BenchAssumption DEF Worker
<1>0. pc \in OnPath
  BY PathIs DEF GiveBack
<1>9. n \in Nat \ {0}
  BY <1>0, PathFacts
<1>1. /\ pc \in OnPath /\ n \in Nat \ {0} /\ step \in 0 .. n - 1
      /\ held' = held \ {r} /\ given' = given \cup {r}
      /\ handles' = IF r = "handles" THEN handles \ ClosedNow ELSE handles
      /\ UNCHANGED <<started, waited, wpc, rc>>
  BY <1>0, <1>9 DEF GiveBack, work
<1>2. /\ Left(pc) = Rest \cup {r} /\ r \notin Rest /\ r \notin Later(pc) /\ Rest \cap Later(pc) = {}
      /\ r = "th" => "handles" \notin Rest
  <2>1. Left(pc) = Rest \cup {r}
    BY <1>1, LeftIs
  <2>2. \A i \in step + 2 .. n : i \in 1 .. n /\ step + 1 \in 1 .. n /\ step + 1 < i
    BY <1>1
  <2>3. r \notin Rest /\ (r = "th" => "handles" \notin Rest)
    BY <1>1, <2>2, PathFacts
  <2>4. r \notin Later(pc) /\ Rest \cap Later(pc) = {}
    BY <1>1, <2>2, PathFacts
  <2> QED  BY <2>1, <2>3, <2>4
<1>3. r \in Resource \cup {"handles"}
  <2>1. step + 1 \in 1 .. n
    BY <1>1
  <2> QED  BY <1>1, <2>1, PathFacts
<1>4. r = "handles" => handles \ ClosedNow = {}
  <2> SUFFICES ASSUME r = "handles" PROVE handles \ ClosedNow = {}
    OBVIOUS
  <2>1. handles = started
    BY <1>1, <1>2 DEF After
  <2>2. CASE pc = "spawnfailed"
    <3> PICK m \in Worker : started = First(m)
      BY <2>2 DEF Starts
    <3>1. Cardinality(started) = m
      BY NextTid
    <3>2. \A w \in First(m) : w < m
      BY <1>w DEF First
    <3>3. ClosedNow = {w \in Worker : w < m}
      BY <2>2, <3>1 DEF ClosedNow
    <3>4. started \subseteq ClosedNow
      BY <3>2, <3>3
    <3> QED  BY <2>1, <3>4
  <2>3. CASE pc # "spawnfailed"
    <3>1. ClosedNow = Worker
      BY <2>3 DEF ClosedNow
    <3> QED  BY <2>1, <3>1
  <2> QED  BY <2>2, <2>3
<1>5. /\ held' \subseteq Rest \cup Later(pc)
      /\ given' \cap (Rest \cup Later(pc)) = {}
      /\ "map" \in Rest \cup Later(pc) => "map" \in held'
      /\ handles' = IF "handles" \in Rest THEN started' ELSE {}
      /\ "handles" \in Rest => "th" \in held'
  <2> HIDE DEF Rest, r, n
  <2>1. /\ held' \subseteq Rest \cup Later(pc)
        /\ given' \cap (Rest \cup Later(pc)) = {}
        /\ "map" \in Rest \cup Later(pc) => "map" \in held'
    BY <1>1, <1>2 DEF After
  <2>2. handles' = IF "handles" \in Rest THEN started' ELSE {}
    BY <1>1, <1>2, <1>4 DEF After
  <2>3. "handles" \in Rest => "th" \in held'
    BY <1>1, <1>2 DEF After
  <2> QED  BY <2>1, <2>2, <2>3
<1>6. CASE step + 1 < n
  <2>1. step' = step + 1 /\ pc' = pc
    BY <1>6 DEF GiveBack
  <2>2. Left(pc)' = Rest
    BY <1>1, <2>1 DEF Left
  <2>3. Later(pc)' = Later(pc)
    BY <2>1 DEF Later
  <2> HIDE DEF Rest, r
  <2>4. Returns'
    BY <1>1, <1>5, <1>6, <2>1, <2>2, <2>3 DEF OnPath, After, Failing
  <2> QED  BY <1>1, <1>3, <2>1, <2>4 DEF Holds, OnPath, After, Failing, Waiting
<1>7. CASE ~(step + 1 < n)
  <2>1. step' = 0 /\ pc' = Behind[pc]
    BY <1>7 DEF GiveBack
  <2>2. Rest = {}
    BY <1>1, <1>7
  <2> HIDE DEF Rest, r
  <2>3. /\ pc \in Failing \cup {"destroy"} => pc' = "down"
        /\ pc = "collect" => pc' = "merge"
        /\ pc = "p99" => pc' = "print"
    BY <2>1 DEF Behind, Failing
  <2>4. CASE pc \in Failing \cup {"destroy"}
    <3>1. held' = {} /\ handles' = {}
      BY <1>5, <2>2, <2>4 DEF Later, Failing
    <3> QED  BY <1>1, <1>3, <2>1, <2>3, <2>4, <3>1 DEF Holds, OnPath, After, Failing, Waiting
  <2>5. CASE pc \in {"collect", "p99"}
    <3>1. pc' \in {"merge", "print"} /\ Left(pc)' = {} /\ Later(pc)' = Later(pc)
      BY <2>3, <2>5 DEF Left, Later, OnPath, Failing
    <3> QED  BY <1>1, <1>3, <1>5, <2>1, <2>2, <3>1 DEF Holds, OnPath, After, Failing, Waiting
  <2> QED  BY <1>1, <2>4, <2>5 DEF OnPath
<1> QED  BY <1>1, <1>6, <1>7

\* bench_main gets on, or takes its cleanup path and returns 1 before the last
\* worker is started.
LEMMA MainStep ==
  ASSUME IInv, Main
  PROVE  IInv'
<1> USE DEF IInv, Types, Holds, Starts, Waits, Waiting, After, Failing, main, own, shared, work
<1>w. 0 \in Worker /\ Worker \subseteq Nat
  BY ClampedBounds, BenchAssumption DEF Worker
<1>1. CASE Create
  BY <1>1, <1>w DEF Create, Fail, Running, Resource, Returns, OnPath
<1>2. CASE Open
  <2>1. CASE pc' = "alloc"
    <3>1. /\ held' = held \cup {"file"} /\ UNCHANGED <<handles, given, step, started, waited, wpc>>
          /\ pc = "open" /\ step = 0
      BY <1>2, <2>1 DEF Open, Fail, Returns, OnPath
    <3>2. Returns'
      BY <2>1, <3>1 DEF Returns, OnPath
    <3> QED  BY <2>1, <3>1, <3>2 DEF Resource, Arrays
  <2>2. CASE pc' = "openfailed" /\ rc' = 1
    <3>1. held' \subseteq {"map"} /\ "map" \in held' /\ step' = 0 /\ given' = {} /\ handles' = {} /\ started' = {}
      BY <1>2, <2>2 DEF Open, Fail, Resource, Arrays, Returns, OnPath
    <3>2. Returns'
      BY <2>2, <3>1, PathEntered, WholeIs DEF Returns, OnPath, Later
    <3> QED  BY <1>2, <1>w, <2>2, <3>1, <3>2 DEF Open, Resource
  <2> QED  BY <1>2, <2>1, <2>2 DEF Open, Fail
<1>3. CASE Alloc
  <2> PICK got \in SUBSET Arrays :
        held' = held \cup got /\ IF got = Arrays THEN pc' = "spawn" /\ UNCHANGED rc ELSE Fail("allocfailed")
    BY <1>3 DEF Alloc
  <2>1. /\ started = {} /\ started' = {} /\ handles' = {} /\ given' = {} /\ step' = 0 /\ UNCHANGED <<waited, wpc>>
        /\ "merged" \notin held' /\ held' \subseteq Resource /\ "map" \in held'
    BY <1>3 DEF Alloc, Returns, OnPath, Resource, Arrays
  <2>2. CASE got = Arrays
    <3>1. First(0) = {}
      BY DEF First
    <3> QED  BY <1>w, <2>1, <2>2, <3>1 DEF Returns, OnPath
  <2>3. CASE pc' = "allocfailed" /\ rc' = 1
    <3>1. held' \subseteq {"file", "map"} \cup Arrays
      BY <2>1 DEF Resource
    <3>2. Returns'
      BY <2>1, <2>3, <3>1, PathEntered, WholeIs DEF Returns, OnPath, Later, Arrays
    <3> QED  BY <1>w, <2>1, <2>3, <3>2
  <2> QED  BY <2>2, <2>3 DEF Fail
<1>4. CASE Spawn
  <2> PICK n \in Worker : started = First(n)
    BY <1>4 DEF Spawn
  <2>1. Cardinality(started) = n
    BY NextTid
  <2>0. /\ UNCHANGED <<held, given, step, waited>> /\ pc = "spawn" /\ step = 0
        /\ given = {} /\ handles = started /\ "merged" \notin held
    BY <1>4 DEF Spawn, Returns, OnPath
  <2>2. CASE Fail("spawnfailed") /\ UNCHANGED <<started, handles, wpc>>
    <3>1. n \notin First(n)
      BY <1>w DEF First
    <3>2. held' \subseteq {"file", "handles", "map"} \cup Arrays /\ "map" \in held' /\ "th" \in held'
      BY <2>0 DEF Resource, Arrays
    <3>3. Returns'
      BY <2>0, <2>2, <3>2, PathEntered, WholeIs DEF Fail, Returns, OnPath, Later
    <3> QED  BY <2>0, <2>2, <3>1, <3>3 DEF Fail
  <2>3. CASE /\ started' = started \cup {n}
             /\ handles' = handles \cup {n}
             /\ wpc' = [wpc EXCEPT ![n] = "check"]
             /\ pc' = IF n + 1 \in Worker THEN "spawn" ELSE "wait"
             /\ UNCHANGED rc
    <3>1. started' = First(n + 1)
      BY <2>3, <1>w DEF First
    <3>2. n + 1 \in Worker \/ First(n + 1) = Worker
      BY ClampedBounds, BenchAssumption DEF First, Worker
    <3>3. \A w \in Worker : wpc'[w] # "none" <=> w \in started'
      BY <2>3
    <3>4. Types' /\ Holds' /\ Returns'
      BY <2>0, <2>3 DEF Returns, OnPath
    <3> QED  BY <2>0, <2>3, <3>1, <3>2, <3>3, <3>4
  <2> QED  BY <1>4, <2>1, <2>2, <2>3 DEF Spawn
<1>5. CASE Wait
  <2> PICK x \in WaitReturns : waited' = x
    BY <1>5 DEF Wait
  <2>1. x = "timeout" \/ (x = "signalled" /\ Through)
    BY HandlesFit, BenchAssumption DEF WaitReturns
  <2>2. ~Snapshots => x # "timeout"
    BY HandlesFit, BenchAssumption DEF WaitReturns
  <2>3. UNCHANGED <<held, handles, given, step, started, wpc, rc>> /\ pc' \in {"load", "collect"} /\ pc = "wait"
    BY <1>5 DEF Wait
  <2>4. Returns'
    BY <2>3, CollectEntered
  <2> QED  BY <1>5, <2>1, <2>2, <2>3, <2>4 DEF Wait, Through
<1>6. CASE LoadOps
  BY <1>6 DEF LoadOps, Through, Returns, OnPath
<1>7. CASE LoadErrors
  <2>1. UNCHANGED <<held, handles, given, step, started, wpc, rc>> /\ pc' \in {"wait", "collect"} /\ pc = "errors"
    BY <1>7 DEF LoadErrors
  <2>2. Returns'
    BY <2>1, CollectEntered
  <2> QED  BY <1>7, <2>1, <2>2 DEF LoadErrors, Through
<1>8. CASE Merge
  <2>1. /\ pc = "merge" /\ pc' = "p99" /\ UNCHANGED <<handles, given, step, started, waited, wpc, rc>>
        /\ held' \in {held, held \cup {"merged"}}
    BY <1>8 DEF Merge
  <2>2. Returns'
    <3>1. Left(pc)' = {"merged"}
      BY <2>1, PathEntered, WholeIs DEF Returns, OnPath
    <3>2. Left(pc) = {}
      BY <2>1 DEF Left, OnPath
    <3> QED  BY <2>1, <3>1, <3>2, PathFacts DEF Returns, OnPath, Later
  <2> QED  BY <2>1, <2>2 DEF Through, Resource
<1>9. CASE Report
  <2>1. /\ pc = "print" /\ pc' = "destroy" /\ UNCHANGED <<held, handles, given, step, started, waited, wpc, rc>>
    BY <1>9 DEF Report
  <2>2. Returns'
    <3>1. Left(pc)' = {"lat_all", "ops_each", "ctxs", "map"}
      BY <2>1, PathEntered, WholeIs DEF Returns, OnPath
    <3>2. Left(pc) = {}
      BY <2>1 DEF Left, OnPath
    <3> QED  BY <2>1, <3>1, <3>2, PathFacts DEF Returns, OnPath, Later
  <2> QED  BY <2>1, <2>2 DEF Through
<1>10. CASE GiveBack
  <2>1. UNCHANGED <<started, waited, wpc, rc>> /\ (pc' = pc \/ (pc \in DOMAIN Path /\ pc' = Behind[pc]))
    BY <1>10 DEF GiveBack
  <2>2. Types' /\ Holds' /\ Returns'
    BY <1>10, GiveBackStep
  <2>3. CASE pc' = pc
    BY <2>1, <2>2, <2>3 DEF Through, Running
  <2>4. CASE pc \in DOMAIN Path /\ pc' = Behind[pc]
    <3>1. \/ pc \in Failing \cup {"destroy"} /\ pc' = "down"
          \/ pc \in {"collect", "p99"} /\ pc' \in {"merge", "print"}
      BY <2>4, PathIs DEF Behind, OnPath
    <3> QED  BY <2>1, <2>2, <3>1 DEF Through, Running
  <2> QED  BY <2>1, <2>3, <2>4
<1>11. CASE Exit
  BY <1>11 DEF Exit, Running, Returns, OnPath
<1> QED  BY <1>1, <1>2, <1>3, <1>4, <1>5, <1>6, <1>7, <1>8, <1>9, <1>10, <1>11 DEF Main

LEMMA ReturnsSame ==
  ASSUME Returns, UNCHANGED <<pc, held, handles, given, step, started>>
  PROVE  Returns'
<1>1. Left(pc)' = Left(pc) /\ Later(pc)' = Later(pc)
  BY DEF Left, Later
<1> QED  BY <1>1 DEF Returns

\* A worker neither starts again when it has gone nor touches what bench_main has.
LEMMA WorkStep ==
  ASSUME IInv, NEW w \in Worker, Work(w)
  PROVE  IInv'
<1> USE DEF IInv, Types, WGoto
<1>1. /\ wpc[w] \notin {"none", "gone"}
      /\ \E l \in {"check", "op", "reject", "count", "stop", "gone"} : wpc' = [wpc EXCEPT ![w] = l]
      /\ UNCHANGED main
  BY DEF Work, Check, Operate, Reject, Count, Stop
<1>2. UNCHANGED <<pc, own, started, waited, rc>>
  BY <1>1 DEF main
<1>3. Types' /\ Holds' /\ Starts'
  BY <1>1, <1>2 DEF Holds, Starts, own
<1>5. Returns'
  BY <1>2, ReturnsSame DEF own
<1>4. Waits'
  BY <1>1, <1>2 DEF Waits, Through, Running
<1> QED  BY <1>3, <1>4, <1>5

LEMMA InvInit == Init => IInv
  BY DEF Init, IInv, Types, Holds, Returns, Starts, Waits, Waiting, After, Failing, OnPath, Resource

LEMMA InvNext == IInv /\ [Next]_vars => IInv'
<1> SUFFICES ASSUME IInv, [Next]_vars PROVE IInv'
  OBVIOUS
<1>1. CASE Next
  BY <1>1, MainStep, WorkStep DEF Next
<1>2. CASE UNCHANGED vars
  BY <1>2, ReturnsSame DEF vars, main, own, work, IInv, Types, Holds, Starts, Waits, Through, Running
<1> QED  BY <1>1, <1>2

LEMMA Invariance == Spec => []IInv
  BY InvInit, InvNext, PTL DEF Spec

-----------------------------------------------------------------------------
(* The theorems                                                            *)

\* Whichever call fails, whichever of the arrays could not be had, and whatever the
\* workers are at: the path bench_main takes gives everything back once.
THEOREM EverythingIsGivenBack == Spec => []NothingLeaks
<1>1. ASSUME IInv PROVE NothingLeaks
  <2>1. pc \in {"down", "exit"} => held = {} /\ handles = {}
    BY <1>1 DEF IInv, Returns
  <2>2. ASSUME pc \in DOMAIN Path
        PROVE  LET r == Path[pc][step + 1]
               IN  r \notin given /\ (r = "map" => "map" \in held)
                   /\ (r = "handles" => "th" \in held /\ ClosedNow \subseteq handles)
    <3> DEFINE r == Path[pc][step + 1]
    <3>1. pc \in OnPath /\ r \in Left(pc)
      BY <1>1, <2>2, PathIs, LeftIs DEF IInv, Types, Returns
    <3>2. r \notin given /\ (r = "map" => "map" \in held) /\ (r = "handles" => "th" \in held /\ handles = started)
      BY <1>1, <3>1 DEF IInv, Returns
    <3> HIDE DEF r
    <3>3. r = "handles" => ClosedNow \subseteq started
      <4>1. CASE pc = "spawnfailed"
        <5> PICK m \in Worker : started = First(m)
          BY <1>1, <4>1 DEF IInv, Starts
        <5>1. Cardinality(started) = m
          BY NextTid
        <5>2. \A w \in Worker : w < m => w \in First(m)
          BY ClampedBounds, BenchAssumption DEF First, Worker
        <5>3. ClosedNow = {w \in Worker : w < m}
          BY <4>1, <5>1 DEF ClosedNow
        <5> QED  BY <5>2, <5>3
      <4>2. CASE pc = "collect"
        <5>1. started = Worker
          BY <1>1, <4>2 DEF IInv, Starts, After
        <5>2. ClosedNow = Worker
          BY <4>2 DEF ClosedNow
        <5> QED  BY <5>1, <5>2
      <4>3. CASE pc \notin {"spawnfailed", "collect"}
        <5>1. r \in Whole(pc)
          BY <1>1, <3>1, PathFacts DEF Left, Whole, IInv, Types
        <5> QED  BY <3>1, <4>3, <5>1, WholeIs DEF OnPath, Failing, Arrays
      <4> QED  BY <4>1, <4>2, <4>3
    <3> QED  BY <3>2, <3>3 DEF r
  <2> QED  BY <2>1, <2>2 DEF NothingLeaks
<1> QED  BY <1>1, Invariance, PTL

\* No worker loses what it uses while it runs, for any --threads: the one way to
\* lose it is the failure path of CreateThread.
THEOREM WorkersKeepTheirMap == Spec => []MapOutlivesWorkers
<1>1. IInv => MapOutlivesWorkers
  BY DEF IInv, Types, Holds, Starts, Waits, Waiting, After, Failing, MapOutlivesWorkers, Through, Running, Used, Arrays
<1> QED  BY <1>1, Invariance, PTL

-----------------------------------------------------------------------------
(* The types                                                               *)

\* A worker with an operation under way has not used up its time.
Limits == \A w \in Worker : wpc[w] \in {"op", "reject", "count"} => op_n[w] < MaxOps

\* The types that do not follow from where bench_main is.
Others ==
  /\ row \in [ops : Nat, errors : 0 .. ErrorMod - 1, written : BOOLEAN] /\ timeouts \in 0 .. MaxTimeouts
  /\ result \in [ops : Nat, errors : 0 .. ErrorMod - 1, samples : Nat, printed : BOOLEAN]
  /\ rc \in {0, 1}
  /\ ops_live \in Nat /\ verify_errors \in 0 .. ErrorMod - 1
  /\ wpc \in [Worker -> {"none", "check", "op", "reject", "count", "stop", "gone"}]
  /\ op_n \in [Worker -> 0 .. MaxOps] /\ ops_each \in [Worker -> 0 .. MaxOps]
  /\ lat_idx \in [Worker -> 0 .. LatCap] /\ lat_written \in [Worker -> 0 .. LatCap]
  /\ rejected \in Nat

TInv == Others /\ Limits

LEMMA TypesFollow ==
  ASSUME IInv, Others
  PROVE  TypeOK
<1>1. pc \in {"create", "open", "alloc", "spawn", "wait", "load", "errors", "merge", "print",
              "down", "exit"} \cup DOMAIN Path
  BY PathIs DEF IInv, Types, Waiting, After, OnPath
<1>2. pc \in DOMAIN Path => step < Len(Path[pc])
  BY PathIs DEF IInv, Returns
<1>3. handles \subseteq Worker
  BY DEF IInv, Types, Holds, Returns, OnPath
<1> QED  BY <1>1, <1>2, <1>3 DEF IInv, Types, Others, TypeOK


LEMMA Threads == Clamped(Asked) \in Nat \ {0} /\ Worker = 0 .. Clamped(Asked) - 1
  BY ClampedBounds, BenchAssumption DEF Worker

\* The loop over the workers is a sum.
LEMMA TotalIsSum ==
  ASSUME NEW f
  PROVE  Total(f) = SumTo(f)[Clamped(Asked)]
  BY DEF Total, SumTo

LEMMA TotalSame ==
  ASSUME NEW f, NEW g, \A w \in Worker : f[w] = g[w]
  PROVE  Total(f) = Total(g)
  BY Threads, TotalIsSum, SumSame

LEMMA TotalGrows ==
  ASSUME NEW f, NEW g, NEW w \in Worker,
         \A v \in Worker : f[v] \in Nat /\ g[v] = IF v = w THEN f[v] + 1 ELSE f[v]
  PROVE  Total(g) = Total(f) + 1
<1> DEFINE m == Clamped(Asked)
<1>1. m \in Nat /\ Worker = 0 .. m - 1 /\ Total(f) = SumTo(f)[m] /\ Total(g) = SumTo(g)[m]
  BY Threads, TotalIsSum
<1> HIDE DEF m
<1>2. /\ w \in 0 .. m - 1 /\ \A n \in 0 .. m - 1 : f[n] \in Nat
      /\ \A n \in 0 .. m - 1 : g[n] = IF n = w THEN f[n] + 1 ELSE f[n]
  BY <1>1
<1>3. SumTo(g)[m] = SumTo(f)[m] + 1
  BY <1>1, <1>2, SumGrows
<1> QED  BY <1>1, <1>3

LEMMA TotalIsNat ==
  ASSUME NEW f, \A w \in Worker : f[w] \in Nat
  PROVE  Total(f) \in Nat
  BY Threads, TotalIsSum, SumIsNat

LEMMA MinOfTwo ==
  ASSUME NEW a \in Nat, NEW b \in Nat
  PROVE  Min({a, b}) = IF a <= b THEN a ELSE b
  BY DEF Min

LEMMA TypesInit == Init => TInv
<1> USE BenchAssumption
<1>1. Init => Others
  BY DEF Init, Others, Zeros, NoRow, Nothing
<1> QED  BY <1>1 DEF Init, TInv, Limits

LEMMA TypesMain ==
  ASSUME IInv, TInv, Main
  PROVE  TInv'
<1> USE BenchAssumption DEF TInv, Others, shared, work, Limits
<1>1. CASE Create
  BY <1>1 DEF Create, Fail
<1>2. CASE Open
  BY <1>2 DEF Open, Fail
<1>3. CASE Alloc
  BY <1>3 DEF Alloc, Fail
<1>4. CASE Spawn
  <2> PICK n \in Worker : started = First(n)
    BY <1>4 DEF Spawn, IInv, Starts
  <2>1. Cardinality(started) = n
    BY NextTid
  <2>2. wpc' \in [Worker -> {"none", "check", "op", "reject", "count", "stop", "gone"}]
    BY <1>4, <2>1 DEF Spawn, Fail
  <2> QED  BY <1>4, <2>2 DEF Spawn, Fail
<1>5. CASE Wait
  <2> PICK r \in WaitReturns : waited' = r /\ timeouts' = IF r = "timeout" THEN timeouts + 1 ELSE timeouts
    BY <1>5 DEF Wait
  <2>1. r \in {"failed", "signalled", "timeout"} /\ (r = "timeout" => timeouts < MaxTimeouts)
    BY DEF WaitReturns
  <2> QED  BY <1>5, <2>1 DEF Wait
<1>6. CASE LoadOps
  BY <1>6 DEF LoadOps
<1>7. CASE LoadErrors
  BY <1>7 DEF LoadErrors
<1>8. CASE Merge
  <2>1. Total(ops_each) \in Nat
    BY TotalIsNat
  <2>2. Total([w \in Worker |-> Min({lat_written[w], LatCap})]) \in Nat
    <3> DEFINE kept == [w \in Worker |-> Min({lat_written[w], LatCap})]
    <3>1. \A w \in Worker : lat_written[w] \in Nat /\ LatCap \in Nat
      OBVIOUS
    <3>0. \A w \in Worker : kept[w] \in Nat
      BY <3>1, MinOfTwo
    <3> HIDE DEF kept
    <3>2. Total(kept) \in Nat
      BY <3>0, TotalIsNat
    <3> QED  BY <3>2 DEF kept
  <2>3. result' \in [ops : Nat, errors : 0 .. ErrorMod - 1, samples : Nat, printed : BOOLEAN]
    BY <1>8, <2>1, <2>2 DEF Merge
  <2> QED  BY <1>8, <2>3 DEF Merge
<1>9. CASE Report
  BY <1>9 DEF Report
<1>10. CASE GiveBack
  BY <1>10 DEF GiveBack
<1>11. CASE Exit
  BY <1>11 DEF Exit
<1> QED  BY <1>1, <1>2, <1>3, <1>4, <1>5, <1>6, <1>7, <1>8, <1>9, <1>10, <1>11 DEF Main

LEMMA TypesWork ==
  ASSUME IInv, TInv, NEW w \in Worker, Work(w)
  PROVE  TInv'
<1> USE BenchAssumption DEF TInv, Others, main, shared, Limits, WGoto
<1>1. CASE Check(w)
  BY <1>1 DEF Check
<1>2. CASE Operate(w)
  BY <1>2 DEF Operate
<1>3. CASE Reject(w)
  <2>1. (verify_errors + 1) % ErrorMod \in 0 .. ErrorMod - 1
    OBVIOUS
  <2> QED  BY <1>3, <2>1 DEF Reject, Incremented
<1>4. CASE Count(w)
  BY <1>4 DEF Count, Sampled
<1>5. CASE Stop(w)
  BY <1>5 DEF Stop
<1> QED  BY <1>1, <1>2, <1>3, <1>4, <1>5 DEF Work

LEMMA TypesNext == IInv /\ TInv /\ [Next]_vars => TInv'
<1> SUFFICES ASSUME IInv, TInv, [Next]_vars PROVE TInv'
  OBVIOUS
<1>1. CASE Next
  BY <1>1, TypesMain, TypesWork DEF Next
<1>2. CASE UNCHANGED vars
  BY <1>2 DEF vars, main, shared, work, TInv, Others, Limits
<1> QED  BY <1>1, <1>2

LEMMA TypesInvariance == Spec => []TInv
  BY TypesInit, TypesNext, Invariance, PTL DEF Spec

-----------------------------------------------------------------------------
(* What is counted                                                         *)

\* The rejected values that are not counted yet.
Rejecting == {w \in Worker : wpc[w] = "reject"}

\* How many samples a worker has that has done k operations.
SamplesOf(k) == Min({k \div SampleEvery, LatCap})

\* The counters say what the workers have done, except for the rejected values
\* that are still to be counted; a worker that has gone has left its results.
Counts ==
  /\ ops_live = Total(op_n)
  /\ Cardinality(Rejecting) <= rejected
  /\ verify_errors = (rejected - Cardinality(Rejecting)) % ErrorMod
  /\ \A w \in Worker : lat_idx[w] = SamplesOf(op_n[w])
  /\ \A w \in Worker : wpc[w] = "gone" => ops_each[w] = op_n[w] /\ lat_written[w] = lat_idx[w]

\* The rows are written while bench_main waits and only with a file; the last one
\* is written when the workers are through and what it says will not change.
Rows ==
  /\ pc \in {"create", "open", "alloc", "spawn"} => ~row.written
  /\ pc = "wait" /\ ~Snapshots => ~row.written
  /\ pc \in {"load", "errors"} => Snapshots
  /\ pc = "errors" /\ waited # "timeout" => row.ops = ops_live
  /\ pc \in {"collect", "merge", "p99", "print"} /\ row.written =>
       row.ops = ops_live /\ row.errors = verify_errors

\* What is added up when the workers are through is what they have counted.
Adds ==
  /\ pc \notin {"p99", "print", "destroy", "down", "exit"} => result = Nothing
  /\ pc \in {"p99", "print"} =>
       /\ ~result.printed /\ result.ops = ops_live
       /\ result.samples \in {0, Total([w \in Worker |-> SamplesOf(op_n[w])])}

\* What has been printed is what is so when the workers are through.
Prints ==
  result.printed =>
    /\ pc \in {"destroy", "down", "exit"} /\ Through
    /\ result.ops = ops_live /\ result.errors = verify_errors
    /\ row.written => row.ops = result.ops /\ row.errors = result.errors
    /\ result.samples \in {0, Total([w \in Worker |-> SamplesOf(op_n[w])])}

CInv == Counts /\ Rows /\ Adds /\ Prints

\* One operation more is one sample more when it is the SampleEvery-th again and
\* there is room.
LEMMA NextSample ==
  ASSUME NEW k \in Nat
  PROVE  SamplesOf(k + 1) = IF (k + 1) % SampleEvery = 0 /\ SamplesOf(k) < LatCap
                            THEN SamplesOf(k) + 1 ELSE SamplesOf(k)
<1>1. SampleEvery \in Nat \ {0} /\ LatCap \in Nat
  BY BenchAssumption
<1> DEFINE d == k \div SampleEvery
           e == (k + 1) \div SampleEvery
<1>2. d \in Nat /\ e = IF (k + 1) % SampleEvery = 0 THEN d + 1 ELSE d
  BY <1>1, DivModNext
<1>3. SamplesOf(k) = Min({d, LatCap}) /\ SamplesOf(k + 1) = Min({e, LatCap})
  BY DEF SamplesOf
<1> HIDE DEF d, e
<1>4. /\ e \in Nat
      /\ SamplesOf(k) = IF d <= LatCap THEN d ELSE LatCap
      /\ SamplesOf(k + 1) = IF e <= LatCap THEN e ELSE LatCap
  BY <1>1, <1>2, <1>3, MinOfTwo
<1> QED  BY <1>1, <1>2, <1>4

\* Who rejects is one of finitely many.
LEMMA RejectingIsFinite ==
  ASSUME NEW S \in SUBSET Worker
  PROVE  IsFiniteSet(S) /\ Cardinality(S) \in Nat
<1>1. IsFiniteSet(Worker)
  BY Threads, FS_Interval
<1> QED  BY <1>1, FS_Subset, FS_CardinalityType

LEMMA CountsInit == Init => CInv
<1> SUFFICES ASSUME Init PROVE CInv
  OBVIOUS
<1> USE BenchAssumption DEF Init, Zeros
<1>1. Total(op_n) = 0
  BY Threads, TotalIsSum, SumZero
<1>2. Rejecting = {}
  BY DEF Rejecting
<1>3. Cardinality(Rejecting) = 0 /\ 0 % ErrorMod = 0
  BY <1>2, FS_EmptySet
<1>4. \A w \in Worker : lat_idx[w] = SamplesOf(op_n[w])
  <2>1. 0 \div SampleEvery = 0
    OBVIOUS
  <2> QED  BY <2>1, MinOfTwo DEF SamplesOf
<1>5. Counts
  BY <1>1, <1>3, <1>4 DEF Counts
<1> QED  BY <1>5 DEF CInv, Rows, Adds, Prints, NoRow, Nothing

\* bench_main counts nothing itself.
LEMMA CountsMain ==
  ASSUME IInv, TInv, CInv, Main
  PROVE  CInv'
<1> USE BenchAssumption DEF CInv
<1>0. /\ UNCHANGED <<ops_live, verify_errors, op_n, lat_idx, ops_each, lat_written, rejected>>
      /\ \A w \in Worker : wpc'[w] = wpc[w] \/ (wpc[w] = "none" /\ wpc'[w] = "check")
  <2>1. CASE Spawn
    <3> PICK n \in Worker : started = First(n)
      BY <2>1 DEF Spawn, IInv, Starts
    <3>1. Cardinality(started) = n /\ n \notin started
      BY NextTid, Threads DEF First
    <3>2. wpc[n] = "none" /\ wpc \in [Worker -> {"none", "check", "op", "reject", "count", "stop", "gone"}]
      BY <3>1 DEF IInv, Starts, TInv, Others
    <3> QED  BY <2>1, <3>1, <3>2 DEF Spawn, shared
  <2>2. CASE ~Spawn
    BY <2>2 DEF Main, Create, Open, Alloc, Wait, LoadOps, LoadErrors, Merge, Report, GiveBack, Exit, shared, work
  <2> QED  BY <2>1, <2>2
<1>1. Rejecting' = Rejecting
  BY <1>0 DEF Rejecting
<1>2. Counts'
  BY <1>0, <1>1 DEF Counts
<1>3. Through => Through'
  BY <1>0 DEF Through
<1>4. Rows'
  <2> USE DEF Rows, Snapshots, TInv, Others
  <2>1. CASE Create \/ Open \/ Alloc \/ Spawn
    BY <2>1 DEF Create, Open, Alloc, Spawn, Fail
  <2>2. CASE Wait
    BY <2>2 DEF Wait, own
  <2>3. CASE LoadOps \/ LoadErrors
    BY <2>3 DEF LoadOps, LoadErrors, own, shared
  <2>4. CASE Merge \/ Report \/ Exit
    BY <1>0, <2>4 DEF Merge, Report, Exit, own
  <2>5. CASE GiveBack
    <3>1. pc \in OnPath /\ row' = row /\ (pc' = pc \/ pc' = Behind[pc])
      BY <2>5, PathIs DEF GiveBack
    <3>2. \/ pc' = pc \/ pc' = "down"
          \/ pc = "collect" /\ pc' = "merge"
          \/ pc = "p99" /\ pc' = "print"
      BY <3>1 DEF Behind, OnPath, Failing
    <3> QED  BY <1>0, <3>1, <3>2 DEF OnPath, Failing
  <2> QED  BY <2>1, <2>2, <2>3, <2>4, <2>5 DEF Main
<1>6. ASSUME Merge PROVE Adds' /\ Prints'
  <2> DEFINE kept == [w \in Worker |-> Min({lat_written[w], LatCap})]
             due  == [w \in Worker |-> SamplesOf(op_n[w])]
  <2>1. Through /\ result = Nothing
    BY <1>6 DEF Merge, IInv, Waits, After, Adds
  <2>2. \A w \in Worker : ops_each[w] = op_n[w] /\ lat_written[w] = lat_idx[w]
    BY <2>1 DEF Through, Counts
  <2>3. Total(ops_each) = ops_live
    <3>1. Total(ops_each) = Total(op_n)
      BY <2>2, TotalSame
    <3> QED  BY <3>1 DEF Counts
  <2>4. kept = due
    <3>1. ASSUME NEW w \in Worker PROVE Min({lat_written[w], LatCap}) = SamplesOf(op_n[w])
      <4>1. lat_written[w] = SamplesOf(op_n[w]) /\ lat_written[w] \in 0 .. LatCap
        BY <2>2 DEF Counts, TInv, Others
      <4> QED  BY <4>1, MinOfTwo
    <3> QED  BY <3>1
  <2>5. /\ result' = [result EXCEPT !.ops = Total(ops_each), !.samples = Total(kept)]
           \/ result' = [result EXCEPT !.ops = Total(ops_each)]
        /\ pc' = "p99"
    BY <1>6 DEF Merge
  <2>6. Total(due)' = Total(due)
    BY <1>0
  <2> HIDE DEF kept, due
  <2>7. ~result'.printed /\ result'.ops = ops_live' /\ result'.samples \in {0, Total(due)'}
    BY <1>0, <2>1, <2>3, <2>4, <2>5, <2>6 DEF Nothing
  <2>8. Adds'
    BY <2>5, <2>7 DEF Adds, due
  <2>9. Prints'
    BY <2>7 DEF Prints
  <2> QED  BY <2>8, <2>9
<1>7. ASSUME Report PROVE Adds' /\ Prints'
  <2>1. Through /\ pc = "print" /\ pc' = "destroy" /\ row' = row
        /\ result' = [result EXCEPT !.errors = verify_errors, !.printed = TRUE]
    BY <1>7 DEF Report, IInv, Waits, After
  <2>2. /\ result.ops = ops_live /\ result.samples \in {0, Total([w \in Worker |-> SamplesOf(op_n[w])])}
        /\ row.written => row.ops = ops_live /\ row.errors = verify_errors
    BY <2>1 DEF Adds, Rows
  <2>3. /\ result'.ops = result.ops /\ result'.samples = result.samples /\ result'.errors = verify_errors
    BY <2>1 DEF TInv, Others
  <2>4. Prints'
    BY <1>0, <1>3, <2>1, <2>2, <2>3 DEF Prints
  <2>5. Adds'
    BY <2>1 DEF Adds
  <2> QED  BY <2>4, <2>5
<1>8. ASSUME ~Merge /\ ~Report PROVE Adds' /\ Prints'
  <2>1. result' = result /\ (pc \in {"destroy", "down", "exit"} => row' = row)
    BY <1>8 DEF Main, Create, Open, Alloc, Spawn, Wait, LoadOps, LoadErrors, GiveBack, Exit
  <2>2. /\ pc \in {"destroy", "down", "exit"} => pc' \in {"destroy", "down", "exit"}
        /\ pc \in {"p99", "print"} => pc' \in {"p99", "print"}
        /\ pc \notin {"p99", "print", "destroy", "down", "exit"} => pc' \notin {"p99", "print", "destroy", "exit"}
    <3>1. CASE GiveBack
      <4>1. pc \in OnPath /\ (pc' = pc \/ pc' = Behind[pc])
        BY <3>1, PathIs DEF GiveBack
      <4> QED  BY <4>1 DEF Behind, OnPath, Failing
    <3>2. CASE ~GiveBack
      BY <1>8, <3>2 DEF Main, Create, Open, Alloc, Spawn, Wait, LoadOps, LoadErrors, Exit, Fail
    <3> QED  BY <3>1, <3>2
  <2>3. Prints'
    BY <1>0, <1>3, <2>1, <2>2 DEF Prints
  <2>4. Adds'
    BY <1>0, <2>1, <2>2 DEF Adds
  <2> QED  BY <2>3, <2>4
<1> QED  BY <1>2, <1>4, <1>6, <1>7, <1>8

\* What a worker counts, it counts once.
LEMMA CountsWork ==
  ASSUME IInv, TInv, CInv, NEW w \in Worker, Work(w)
  PROVE  CInv'
<1> USE BenchAssumption DEF CInv
<1>0. /\ UNCHANGED <<pc, held, waited, row, result>> /\ ~Through
      /\ wpc \in [Worker -> {"none", "check", "op", "reject", "count", "stop", "gone"}]
      /\ op_n \in [Worker -> Nat] /\ rejected \in Nat /\ verify_errors \in Nat
      /\ lat_idx \in [Worker -> Nat] /\ ops_each \in [Worker -> Nat] /\ lat_written \in [Worker -> Nat]
  <2>1. ~Through
    BY DEF Work, Check, Operate, Reject, Count, Stop, Through
  <2>2. Others /\ UNCHANGED main
    BY DEF Work, Check, Operate, Reject, Count, Stop, TInv
  <2> QED  BY <2>1, <2>2 DEF Others, main, own
<1>1. Prints' /\ Adds'
  BY <1>0 DEF Prints, Adds, IInv, Waits, After
<1>2. Rows'
  BY <1>0 DEF Rows, Snapshots, IInv, Waits, After
<1>3. IsFiniteSet(Rejecting) /\ Cardinality(Rejecting) \in Nat
  BY RejectingIsFinite DEF Rejecting
<1>4. Counts'
  <2>1. CASE Check(w)
    <3>1. Rejecting' = Rejecting
      BY <1>0, <2>1 DEF Check, WGoto, Rejecting
    <3> QED  BY <1>0, <2>1, <3>1 DEF Counts, Check, WGoto, shared
  <2>2. CASE Operate(w)
    <3>1. CASE WGoto(w, "reject") /\ rejected' = rejected + 1
      <4>1. Rejecting' = Rejecting \cup {w} /\ w \notin Rejecting
        BY <1>0, <2>2, <3>1 DEF Operate, WGoto, Rejecting
      <4>2. Cardinality(Rejecting') = Cardinality(Rejecting) + 1
        BY <1>3, <4>1, FS_AddElement
      <4>3. rejected' - Cardinality(Rejecting') = rejected - Cardinality(Rejecting)
        BY <1>0, <1>3, <3>1, <4>2
      <4> QED  BY <1>0, <1>3, <2>2, <3>1, <4>2, <4>3 DEF Counts, Operate, WGoto, shared
    <3>2. CASE WGoto(w, "count") /\ UNCHANGED rejected
      <4>1. Rejecting' = Rejecting
        BY <1>0, <2>2, <3>2 DEF Operate, WGoto, Rejecting
      <4> QED  BY <1>0, <2>2, <3>2, <4>1 DEF Counts, Operate, WGoto, shared
    <3> QED  BY <2>2, <3>1, <3>2 DEF Operate
  <2>3. CASE Reject(w)
    <3>1. Rejecting' = Rejecting \ {w} /\ w \in Rejecting
      BY <1>0, <2>3 DEF Reject, WGoto, Rejecting
    <3>2. Cardinality(Rejecting') = Cardinality(Rejecting) - 1
      BY <1>3, <3>1, FS_RemoveElement
    <3> DEFINE d == rejected - Cardinality(Rejecting)
    <3>3. d \in Nat /\ rejected' - Cardinality(Rejecting') = d + 1
      BY <1>0, <1>3, <2>3, <3>2 DEF Counts, Reject
    <3>4. verify_errors = d % ErrorMod /\ verify_errors' = (verify_errors + 1) % ErrorMod
      BY <2>3 DEF Counts, Reject, Incremented
    <3> HIDE DEF d
    <3>5. verify_errors' = (rejected' - Cardinality(Rejecting')) % ErrorMod
      BY <3>3, <3>4, DivModNext
    <3>6. Cardinality(Rejecting') <= rejected'
      BY <1>0, <1>3, <2>3, <3>2 DEF Counts, Reject
    <3> QED  BY <1>0, <2>3, <3>5, <3>6 DEF Counts, Reject, WGoto
  <2>4. CASE Count(w)
    <3>1. Rejecting' = Rejecting
      BY <1>0, <2>4 DEF Count, WGoto, Rejecting
    <3>2. Total(op_n') = Total(op_n) + 1
      <4>1. \A v \in Worker : op_n[v] \in Nat /\ op_n'[v] = IF v = w THEN op_n[v] + 1 ELSE op_n[v]
        BY <1>0, <2>4 DEF Count
      <4> QED  BY <4>1, TotalGrows
    <3>3. \A v \in Worker : lat_idx'[v] = SamplesOf(op_n'[v])
      <4>1. lat_idx'[w] = SamplesOf(op_n[w] + 1)
        BY <1>0, <2>4, NextSample DEF Count, Sampled, Counts
      <4>2. op_n'[w] = op_n[w] + 1 /\ \A v \in Worker \ {w} : op_n'[v] = op_n[v] /\ lat_idx'[v] = lat_idx[v]
        BY <1>0, <2>4 DEF Count
      <4> QED  BY <4>1, <4>2 DEF Counts
    <3>4. \A v \in Worker : wpc'[v] = "gone" => v # w /\ wpc[v] = "gone"
      BY <1>0, <2>4 DEF Count, WGoto
    <3>5. \A v \in Worker : wpc'[v] = "gone" => ops_each'[v] = op_n'[v] /\ lat_written'[v] = lat_idx'[v]
      BY <1>0, <2>4, <3>4 DEF Count, Counts
    <3> QED  BY <2>4, <3>1, <3>2, <3>3, <3>5 DEF Counts, Count
  <2>5. CASE Stop(w)
    <3>1. Rejecting' = Rejecting
      BY <1>0, <2>5 DEF Stop, WGoto, Rejecting
    <3>2. \A v \in Worker : wpc'[v] = "gone" => ops_each'[v] = op_n'[v] /\ lat_written'[v] = lat_idx'[v]
      BY <1>0, <2>5 DEF Stop, WGoto, Counts
    <3> QED  BY <2>5, <3>1, <3>2 DEF Counts, Stop, shared
  <2> QED  BY <2>1, <2>2, <2>3, <2>4, <2>5 DEF Work
<1> QED  BY <1>1, <1>2, <1>4

LEMMA CountsNext == IInv /\ TInv /\ CInv /\ [Next]_vars => CInv'
<1> SUFFICES ASSUME IInv, TInv, CInv, [Next]_vars PROVE CInv'
  OBVIOUS
<1>1. CASE Next
  BY <1>1, CountsMain, CountsWork DEF Next
<1>2. CASE UNCHANGED vars
  BY <1>2 DEF vars, main, own, shared, work, CInv, Counts, Rejecting, Rows, Adds, Snapshots, Prints, Through
<1> QED  BY <1>1, <1>2

LEMMA CountsInvariance == Spec => []CInv
  BY CountsInit, CountsNext, Invariance, TypesInvariance, PTL DEF Spec

-----------------------------------------------------------------------------
(* The theorems about the results                                          *)

\* Every variable keeps its type; no worker writes beyond its part of the sample
\* buffer, whatever the operations it does.
THEOREM TypesAreKept == Spec => []TypeOK
<1>1. IInv /\ TInv => TypeOK
  BY TypesFollow DEF TInv
<1> QED  BY <1>1, Invariance, TypesInvariance, PTL

\* What bench_main prints is what the workers have done and found, for any number
\* of them, and the last row of the snapshot file says the same.
THEOREM ResultsAgree == Spec => []TotalsAgree
<1>1. TInv /\ CInv => TotalsAgree
  <2> SUFFICES ASSUME TInv, CInv, result.printed PROVE TotalsAgree
    BY DEF TotalsAgree
  <2>1. Through
    BY DEF CInv, Prints
  <2>2. Rejecting = {}
    BY <2>1 DEF Rejecting, Through
  <2>3. Cardinality(Rejecting) = 0 /\ rejected \in Nat
    BY <2>2, FS_EmptySet DEF TInv, Others
  <2>4. verify_errors = rejected % ErrorMod
    BY <2>3 DEF CInv, Counts
  <2> QED  BY <2>4 DEF CInv, Prints, TotalsAgree
<1> QED  BY <1>1, TypesInvariance, CountsInvariance, PTL

\* The samples p99 is taken of are the ones the workers should have kept, or none.
THEOREM SamplesAgree == Spec => []SamplesAreKept
<1>1. CInv => SamplesAreKept
  BY DEF CInv, Prints, SamplesAreKept, SamplesOf
<1> QED  BY <1>1, CountsInvariance, PTL
=============================================================================
