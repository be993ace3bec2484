------------------------------ MODULE Workload ------------------------------
(***************************************************************************)
(* What one run of bench.c asks of its map: the keys it seeds, the keys    *)
(* and operations its workers draw, the values they put and check, and the *)
(* percentile it takes of the latencies it has kept.                       *)
(*                                                                         *)
(* The map is a function that answers at once; what becomes of calls that  *)
(* overlap is the subject of the maps' own modules.  The numbers of        *)
(* rng_u64 are any numbers.  The powers, weights and sums of zipf_sample   *)
(* are in units of 1/Scale, cut off; of the library's pow no more is       *)
(* assumed than that it does not fall from one key to the next when the    *)
(* exponent is not negative.  A value is the uint64_t at its start.        *)
(***************************************************************************)
EXTENDS CommandLine, Functions

CONSTANTS
  BitXor(_, _),   \* the operator ^ of C
  Magic,       \* 0x9E3779B97F4A7C15
  GoodKey, BadKey,  \* the self-test's 999 and 12345
  Grain,       \* the 1000000 of zipf_sample
  Scale,       \* bound: the precision of its sums
  Pow(_, _),   \* pow(key, s), in units of 1/Scale, at least one
  NoValue,     \* there is no such key
  Latencies,   \* the sequences of latencies the workers may leave, one after another
  MaxOps       \* bound: the operations of all workers

\* The exponents that can be asked for.
Exponents == {Real[tok] : tok \in DOMAIN Real} \cup {DefaultExponent}

ASSUME WorkloadAssumption ==
  /\ {Magic, GoodKey, BadKey} \subseteq 0 .. Width - 1
  /\ Magic \notin {0, BadKey}
  /\ \A x, y \in 0 .. Width - 1 : BitXor(x, y) \in 0 .. Width - 1 /\ (BitXor(x, y) = 0 <=> x = y)
  /\ {Grain, Scale} \subseteq Nat \ {0} /\ Grain <= Width
  /\ \A s \in Exponents :
       /\ \A x \in 1 .. Width - 1 : Pow(x, s) \in Nat \ {0}
       /\ s >= 0 => Pow(1, s) = Scale /\ \A x \in 1 .. Width - 2 : Pow(x, s) <= Pow(x + 1, s)
  /\ NoValue \notin 0 .. Width - 1
  /\ Latencies \subseteq Seq(Nat)
  /\ MaxOps \in Nat

VARIABLES
  k,       \* the key: the seeding loop's, then the one a worker has drawn
  store,   \* the map
  ops,     \* the operations done
  check,   \* how val_check took the last value a get returned
  lats, p99

parse == <<pc, argv, a, cfg, rc>>
data  == <<k, store, ops, check, lats, p99>>
vars  == <<parse, data>>

uint64 == 0 .. Width - 1
Empty  == [x \in uint64 |-> NoValue]

Init ==
  /\ ParseInit
  /\ k = 1 /\ store = Empty /\ ops = 0 /\ check = "none"
  /\ lats = <<>> /\ p99 = 0

Command == Parse /\ UNCHANGED data

-----------------------------------------------------------------------------
(* Values                                                                  *)

val_encode(key) == BitXor(key, Magic)

\* Variant: a buffer of zeros passes as a value that is not there.
ZerosPass(key, v) == IF v \in {val_encode(key), 0} THEN 0 ELSE 1
val_check(key, v) == IF v = val_encode(key) THEN 0 ELSE 1

\* What a get leaves in the caller's buffer.
Copied(v) == IF cfg.impl = "wrongget" THEN 0 ELSE v

\* --verify-selftest
SelfTest ==
  /\ pc = "selftest"
  /\ rc' = IF val_check(GoodKey, val_encode(GoodKey)) # 0 \/ val_check(BadKey, 0) = 0 THEN 2 ELSE 0
  /\ pc' = "exit"
  /\ UNCHANGED <<argv, a, cfg, data>>

-----------------------------------------------------------------------------
(* Seeding                                                                 *)

\* if (seed_count >= keyspace) seed_count = keyspace - 1
SeedCount == IF cfg.seed >= cfg.keyspace THEN cfg.keyspace - 1 ELSE cfg.seed

Seed ==
  /\ pc = "seed" /\ k <= SeedCount
  /\ store' = [store EXCEPT ![k] = val_encode(k)]
  /\ k' = (k + 1) % Width
  /\ UNCHANGED <<parse, ops, check, lats, p99>>

Start ==
  /\ pc = "seed" /\ k > SeedCount
  /\ pc' = "run"
  /\ UNCHANGED <<argv, a, cfg, rc, data>>

-----------------------------------------------------------------------------
(* Keys                                                                    *)

key_uniform(u) == IF cfg.keyspace <= 1 THEN 1 ELSE (u % (cfg.keyspace - 1)) + 1

\* 1.0 / pow(k, s).  Variant: the power itself.
Power(x, s) == Pow(x, s)
Weight(x, s) == (Scale * Scale) \div Pow(x, s)

\* acc after each turn of the loop: the sums of the first weights.
Sums(n, s) ==
  LET weights == [x \in 0 .. n - 1 |-> Weight(x + 1, s)]
      acc[x \in Nat] == IF x = 0 THEN 0 ELSE acc[x - 1] + weights[x - 1]
  IN  acc

\* The first key whose sum reaches r, or else n.
zipf_sample(u) ==
  LET n == cfg.keyspace
      acc == Sums(n, cfg.zipf_s)
      r == (u % Grain) * acc[n]
      reached == {x \in 1 .. n : r <= acc[x] * Grain}
  IN  IF reached = {} THEN n ELSE CHOOSE x \in reached : \A y \in reached : x <= y

\* The key space ends before n, the sample does not.  Variant: it is not cut off.
Uncut(x) == AtLeast(x, 1)
Cut(x) == AtMost(AtLeast(x, 1), cfg.keyspace - 1)

key_zipf(u) == Cut(zipf_sample(u))

next_key(u) == IF cfg.use_zipf # 0 THEN key_zipf(u) ELSE key_uniform(u)

-----------------------------------------------------------------------------
(* The workers                                                             *)

Draw ==
  /\ pc = "run" /\ ops < MaxOps
  /\ \E u \in uint64 : k' = next_key(u)
  /\ pc' = "op" /\ check' = "none"
  /\ UNCHANGED <<argv, a, cfg, rc, store, ops, lats, p99>>

\* Of 100 operations, how many are gets, and how many gets or puts.
Gets(profile) ==
  CASE profile = 0 -> 90 [] profile = 1 -> 50 [] profile = 2 -> 20 [] OTHER -> 40
GetsOrPuts(profile) ==
  CASE profile = 0 -> 98 [] profile = 1 -> 85 [] profile = 2 -> 80 [] OTHER -> 70

Op(r) ==
  IF r < Gets(ProfileId(cfg.profile)) THEN "get"
  ELSE IF r < GetsOrPuts(ProfileId(cfg.profile)) THEN "put" ELSE "del"

Operate ==
  /\ pc = "op"
  /\ \E op \in {Op(r) : r \in 0 .. 99} :
       /\ store' = [store EXCEPT ![k] = CASE op = "put" -> val_encode(k)
                                          [] op = "del" -> NoValue
                                          [] op = "get" -> @]
       /\ check' = IF op # "get" \/ store[k] = NoValue THEN "none"
                   ELSE IF val_check(k, Copied(store[k])) = 0 THEN "passed" ELSE "rejected"
  /\ ops' = ops + 1
  /\ pc' = "run"
  /\ UNCHANGED <<argv, a, cfg, rc, k, lats, p99>>

-----------------------------------------------------------------------------
(* The percentile                                                          *)

\* What qsort with cmp_u64 makes of an array.  Variant: it is forgotten.
AsWritten(s) == s
Sorted(s) ==
  LET order == CHOOSE p \in [DOMAIN s -> DOMAIN s] :
                 (\A i, j \in DOMAIN s : i < j => s[p[i]] <= s[p[j]]) /\ IsInjective(p)
  IN  [i \in DOMAIN s |-> s[order[i]]]

percentile_ns(s) == IF s = <<>> THEN 0 ELSE Sorted(s)[((Len(s) - 1) * 99) \div 100 + 1]

\* The workers' time is up; the latencies are merged unless memory is short, and
\* the map is destroyed.
Report ==
  /\ pc = "run"
  /\ lats' \in Latencies \cup {<<>>}
  /\ p99' = percentile_ns(lats')
  /\ pc' = "exit"
  /\ store' = Empty /\ k' = 1 /\ ops' = 0 /\ check' = "none"
  /\ UNCHANGED <<argv, a, cfg, rc>>

Next == Command \/ SelfTest \/ Seed \/ Start \/ Draw \/ Operate \/ Report

Spec == Init /\ [][Next]_vars

-----------------------------------------------------------------------------
(* Properties                                                              *)

\* Every variable keeps its type, and the limits of bench_main hold behind them.
TypeOK ==
  /\ pc \in {"args", "selftest", "select", "seed", "run", "op", "exit"}
  /\ argv \in Lines \cup {<<>>} /\ a \in 1 .. Len(argv) + 1
  /\ DOMAIN cfg = DOMAIN Defaults
  /\ \A o \in UnsignedOption : cfg[o] \in uint64
  /\ pc \notin {"args", "exit"} =>
       /\ cfg.threads \in 1 .. 64 /\ cfg.seconds >= 1 /\ cfg.buckets >= 16
       /\ cfg.snapshot_interval_sec >= 0
       /\ cfg.snapshot_interval_sec > 0 => cfg.snapshot_file # NoToken
  /\ rc \in {0, 1, 2}
  /\ k \in uint64 /\ store \in [uint64 -> uint64 \cup {NoValue}] /\ ops \in 0 .. MaxOps
  /\ check \in {"none", "passed", "rejected"}

\* Key 0 is the sentinels', and keyspace is one past the last key: whatever the
\* options say, and however the seeding loop's counter wraps, no put, get or del
\* names a key outside 1 .. keyspace - 1.
KeysStayInRange ==
  /\ pc = "op" => k \in 1 .. cfg.keyspace - 1
  /\ \A x \in uint64 : store[x] # NoValue => x \in 1 .. cfg.keyspace - 1

\* With --zipf and an exponent of 0 or more, whole or not, a smaller key is drawn at
\* least as often as the next, up to one draw in Grain; the last key also gets what
\* was cut off.
SmallKeysAreHot ==
  pc = "run" /\ ops = 0 /\ cfg.use_zipf # 0 /\ cfg.zipf_s >= 0 =>
    LET draws == [x \in 1 .. cfg.keyspace - 1 |-> Cardinality({u \in 0 .. Grain - 1 : key_zipf(u) = x})]
    IN  \A x \in 1 .. cfg.keyspace - 3 : draws[x] + 1 >= draws[x + 1]

\* A hit is rejected exactly when the map is wrongget, whichever put of whichever
\* worker the value comes from; the one key whose value is zeros passes even then.
\* The self-test never fails.
HitsVerify ==
  /\ check # "none" => (check = "rejected" <=> cfg.impl = "wrongget" /\ k # Magic)
  /\ rc # 2

\* p99 is a latency some operation had; at most 99 in 100 of the others are
\* smaller, and fewer than one in 100 plus one are larger.
P99IsRank ==
  pc = "exit" /\ lats # <<>> =>
    LET others  == Len(lats) - 1
        smaller == {j \in DOMAIN lats : lats[j] < p99}
        larger  == {j \in DOMAIN lats : lats[j] > p99}
    IN  /\ \E j \in DOMAIN lats : lats[j] = p99
        /\ 100 * Cardinality(smaller) <= 99 * others
        /\ 100 * Cardinality(larger) < others + 100

=============================================================================
