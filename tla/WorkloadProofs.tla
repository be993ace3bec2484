--------------------------- MODULE WorkloadProofs ---------------------------
(***************************************************************************)
(* Theorems about CommandLine and Workload, for command lines of any       *)
(* length, numbers of any width, and any number of operations.             *)
(***************************************************************************)
EXTENDS Workload, SharedLemmas, FiniteSetTheorems

-----------------------------------------------------------------------------
(* Reading the command line                                                *)

Option == ValueOption \cup Flag

\* The options' types.
Typed ==
  /\ cfg = [o \in Option |-> cfg[o]]
  /\ \A o \in IntOption : cfg[o] \in Int
  /\ \A o \in UnsignedOption : cfg[o] \in uint64
  /\ cfg.zipf_s \in Exponents
  /\ cfg.snapshot_file \in DOMAIN Number \cup {NoToken, "snapshots.csv"}

\* The limits that bench_main puts on the options hold once it has read them.
Limited ==
  /\ cfg.threads \in 1 .. 64 /\ cfg.seconds >= 1 /\ cfg.keyspace >= 2 /\ cfg.buckets >= 16
  /\ cfg.snapshot_interval_sec >= 0
  /\ cfg.snapshot_interval_sec > 0 => cfg.snapshot_file # NoToken

PInv ==
  /\ pc \in {"args", "selftest", "select", "seed", "run", "op", "exit"}
  /\ argv \in Seq(DOMAIN Number) /\ argv \in Lines \cup {<<>>} /\ a \in 1 .. Len(argv) + 1
  /\ Typed
  /\ pc \notin {"args", "exit"} => Limited
  /\ rc \in {0, 1}

LEMMA ParsedInit == Init => PInv
<1> SUFFICES ASSUME Init PROVE PInv
  OBVIOUS
<1> USE CommandLineAssumption DEF Init, ParseInit
<1>1. Defaults = [o \in Option |-> Defaults[o]]
  BY DEF Defaults, Option, ValueOption, TextOption, IntOption, RealOption, UnsignedOption, Flag
<1>2. \A o \in IntOption : Defaults[o] \in Int
  BY DEF Defaults, IntOption
<1>3. \A o \in UnsignedOption : Defaults[o] \in uint64
  BY DEF Defaults, UnsignedOption, uint64
<1>4. Defaults.snapshot_file = NoToken /\ Defaults.zipf_s \in Exponents
  BY DEF Defaults, Exponents
<1>5. argv \in Seq(DOMAIN Number) /\ 1 \in 1 .. Len(argv) + 1
  OBVIOUS
<1> QED  BY <1>1, <1>2, <1>3, <1>4, <1>5 DEF PInv, Typed

\* The arguments of the loop.
LEMMA ArgIsToken ==
  ASSUME PInv, NEW j \in 1 .. Len(argv)
  PROVE  Arg(j) = argv[j] /\ argv[j] \in DOMAIN Number /\ Number[argv[j]] \in Int /\ Real[argv[j]] \in Exponents
<1>1. Arg(j) = argv[j] /\ argv[j] \in DOMAIN Number
  BY DEF PInv, Arg
<1>2. Number[argv[j]] \in Int /\ argv[j] \in DOMAIN Real
  BY <1>1, CommandLineAssumption
<1>3. Real[argv[j]] \in Exponents
  BY <1>2 DEF Exponents
<1> QED  BY <1>1, <1>2, <1>3

LEMMA UnsignedFits ==
  ASSUME NEW x \in Int
  PROVE  Unsigned(x) \in uint64
  BY CommandLineAssumption DEF Unsigned, uint64

LEMMA ParsedTakes ==
  ASSUME PInv, TakeOption
  PROVE  PInv'
<1> DEFINE o == Arg(a)
           v == ValueOf(o, Arg(a + 1))
<1>1. pc = "args" /\ a \in 1 .. Len(argv) /\ o \in ValueOption /\ a + 1 \in 1 .. Len(argv)
  BY DEF TakeOption, IsOption, PInv
<1>2. Arg(a + 1) \in DOMAIN Number /\ Number[Arg(a + 1)] \in Int /\ Real[Arg(a + 1)] \in Exponents
  BY <1>1, ArgIsToken
<1>3. cfg' = [cfg EXCEPT ![o] = v] /\ a' = a + 2 /\ UNCHANGED <<pc, argv, rc>>
  BY DEF TakeOption, Past
<1>4. /\ o \in TextOption => v \in DOMAIN Number
      /\ o \in IntOption => v \in Int
      /\ o \in RealOption => v \in Exponents
      /\ o \in UnsignedOption => v \in uint64
  BY <1>1, <1>2, UnsignedFits DEF ValueOf, TextOption, IntOption, RealOption, UnsignedOption
<1> HIDE DEF o, v
<1>5. Typed'
  <2>1. o \in Option
    BY <1>1 DEF Option
  <2>2. cfg' = [p \in Option |-> cfg'[p]] /\ \A p \in Option : cfg'[p] = IF p = o THEN v ELSE cfg[p]
    BY <1>3, <2>1 DEF PInv, Typed
  <2>3. /\ IntOption \subseteq Option /\ UnsignedOption \subseteq Option
        /\ "zipf_s" \in RealOption \cap Option /\ "snapshot_file" \in TextOption \cap Option
    BY DEF Option, ValueOption, TextOption, RealOption
  <2> QED  BY <1>4, <2>2, <2>3 DEF PInv, Typed, uint64
<1> QED  BY <1>1, <1>3, <1>5 DEF PInv

LEMMA ParsedPasses ==
  ASSUME PInv, TakeFlag \/ Help \/ Ignore
  PROVE  PInv'
<1>1. pc = "args" /\ a \in 1 .. Len(argv) /\ UNCHANGED <<argv, rc>> /\ pc' \in {"args", "exit"} /\ a' \in {a, a + 1}
  BY DEF TakeFlag, Help, Ignore, PInv
<1>2. Typed'
  <2>1. CASE UNCHANGED cfg
    BY <2>1 DEF PInv, Typed, uint64
  <2>2. CASE TakeFlag
    <3> PICK o \in Flag : cfg' = [cfg EXCEPT ![o] = 1]
      BY <2>2 DEF TakeFlag
    <3>1. cfg' = [p \in Option |-> cfg'[p]] /\ \A p \in Option : cfg'[p] = IF p = o THEN 1 ELSE cfg[p]
      BY DEF PInv, Typed, Option
    <3>2. /\ IntOption \subseteq Option \ Flag /\ UnsignedOption \subseteq Option \ Flag
          /\ {"zipf_s", "snapshot_file"} \subseteq Option \ Flag
      BY DEF Option, ValueOption, TextOption, IntOption, RealOption, UnsignedOption, Flag
    <3> QED  BY <3>1, <3>2 DEF PInv, Typed, uint64
  <2> QED  BY <2>1, <2>2 DEF TakeFlag, Help, Ignore
<1> QED  BY <1>1, <1>2 DEF PInv

LEMMA ParsedLimits ==
  ASSUME PInv, Limit
  PROVE  PInv'
<1>1. pc' \in {"selftest", "select"} /\ argv' = <<>> /\ a' = 1 /\ rc' = rc
  BY DEF Limit
<1>2. {"threads", "seconds", "keyspace", "buckets", "snapshot_interval_sec", "snapshot_file",
       "zipf_s"} \subseteq Option
  BY DEF Option, ValueOption, TextOption, IntOption, RealOption, UnsignedOption
<1>3. cfg = [o \in Option |-> cfg[o]]
  BY DEF PInv, Typed
<1> DEFINE file == IF cfg.snapshot_interval_sec > 0 /\ cfg.snapshot_file = NoToken
                   THEN "snapshots.csv" ELSE cfg.snapshot_file
<1>4. /\ cfg' = [o \in Option |-> cfg'[o]]
      /\ cfg'["threads"] = AtMost(AtLeast(cfg["threads"], 1), 64)
      /\ cfg'["seconds"] = AtLeast(cfg["seconds"], 1)
      /\ cfg'["keyspace"] = AtLeast(cfg["keyspace"], 2)
      /\ cfg'["buckets"] = AtLeast(cfg["buckets"], 16)
      /\ cfg'["snapshot_interval_sec"] = AtLeast(cfg["snapshot_interval_sec"], 0)
      /\ cfg'["snapshot_file"] = file
      /\ \A o \in Option \ {"threads", "seconds", "keyspace", "buckets", "snapshot_interval_sec", "snapshot_file"} :
           cfg'[o] = cfg[o]
  BY <1>2, <1>3 DEF Limit
<1>5. /\ \A o \in IntOption : cfg[o] \in Int
      /\ \A o \in UnsignedOption : cfg[o] \in uint64
      /\ cfg["snapshot_file"] \in DOMAIN Number \cup {NoToken, "snapshots.csv"}
  BY DEF PInv, Typed
<1>6. Width \in Nat /\ Width > 2 /\ NoToken # "snapshots.csv"
  BY CommandLineAssumption
<1>7. /\ cfg'["threads"] \in 1 .. 64
      /\ cfg'["seconds"] \in Int /\ cfg'["seconds"] >= 1
      /\ cfg'["buckets"] \in Int /\ cfg'["buckets"] >= 16
      /\ cfg'["snapshot_interval_sec"] \in Int /\ cfg'["snapshot_interval_sec"] >= 0
  BY <1>4, <1>5 DEF AtLeast, AtMost, IntOption
<1>8. cfg'["keyspace"] \in uint64 /\ cfg'["keyspace"] >= 2
  BY <1>4, <1>5, <1>6 DEF AtLeast, UnsignedOption, uint64
<1>9. cfg'["snapshot_interval_sec"] > 0 => cfg["snapshot_interval_sec"] > 0
  BY <1>4, <1>5 DEF AtLeast, IntOption
<1>10. /\ cfg'["snapshot_file"] \in DOMAIN Number \cup {NoToken, "snapshots.csv"}
       /\ cfg'["snapshot_interval_sec"] > 0 => cfg'["snapshot_file"] # NoToken
  BY <1>4, <1>5, <1>6, <1>9
<1>11. \A o \in IntOption : cfg'[o] \in Int
  BY <1>4, <1>5, <1>7 DEF IntOption, Option, ValueOption
<1>12. \A o \in UnsignedOption : cfg'[o] \in uint64
  BY <1>4, <1>5, <1>8 DEF UnsignedOption, Option, ValueOption
<1>13. uint64' = uint64 /\ cfg'["zipf_s"] \in Exponents
  BY <1>2, <1>4 DEF PInv, Typed, uint64
<1>14. Typed'
  BY <1>4, <1>10, <1>11, <1>12, <1>13 DEF Typed
<1>15. Limited'
  BY <1>7, <1>8, <1>10 DEF Limited
<1> QED  BY <1>1, <1>14, <1>15 DEF PInv

\* What is behind the command line does not change the options.
LEMMA ParsedKeeps ==
  ASSUME PInv, UNCHANGED <<argv, a, cfg>>, rc' \in {0, 1},
         pc' \in {"seed", "run", "op", "exit"}, pc # "args", pc = "exit" => pc' = "exit"
  PROVE  PInv'
  BY DEF PInv, Typed, Limited, uint64

LEMMA ParsedSelects == PInv /\ Select => PInv'
<1> SUFFICES ASSUME PInv, Select PROVE PInv'
  OBVIOUS
<1>1. UNCHANGED <<argv, a, cfg>> /\ pc = "select" /\ pc' \in {"seed", "exit"} /\ rc' \in {0, 1}
  BY DEF Select, PInv
<1> QED  BY <1>1, ParsedKeeps

\* val_encode and val_check.
LEMMA EncodeFits ==
  ASSUME NEW x \in uint64
  PROVE  val_encode(x) \in uint64 /\ (val_encode(x) = 0 <=> x = Magic)
  BY WorkloadAssumption DEF val_encode, uint64

LEMMA SelfTestPasses == SelfTest => rc' = 0
<1> SUFFICES ASSUME SelfTest PROVE rc' = 0
  OBVIOUS
<1>1. BadKey \in uint64 /\ BadKey # Magic
  BY WorkloadAssumption DEF uint64
<1>2. val_check(GoodKey, val_encode(GoodKey)) = 0 /\ val_check(BadKey, 0) # 0
  BY <1>1, EncodeFits DEF val_check
<1> QED  BY <1>2 DEF SelfTest

LEMMA ParsedNext == PInv /\ [Next]_vars => PInv'
<1> SUFFICES ASSUME PInv, [Next]_vars PROVE PInv'
  OBVIOUS
<1>1. CASE Command
  BY <1>1, ParsedTakes, ParsedPasses, ParsedLimits, ParsedSelects DEF Command, Parse
<1>2. CASE SelfTest
  <2>1. UNCHANGED <<argv, a, cfg>> /\ pc = "selftest" /\ pc' = "exit"
    BY <1>2 DEF SelfTest
  <2> QED  BY <1>2, <2>1, SelfTestPasses, ParsedKeeps
<1>3. CASE Start \/ Draw \/ Operate \/ Report
  <2>1. UNCHANGED <<argv, a, cfg, rc>> /\ pc \in {"seed", "run", "op"} /\ pc' \in {"run", "op", "exit"}
    BY <1>3 DEF Start, Draw, Operate, Report
  <2>2. rc \in {0, 1}
    BY DEF PInv
  <2> QED  BY <2>1, <2>2, ParsedKeeps
<1>4. CASE Seed \/ UNCHANGED vars
  <2>1. UNCHANGED parse
    BY <1>4 DEF Seed, vars
  <2> QED  BY <2>1 DEF PInv, Typed, Limited, uint64, parse
<1> QED  BY <1>1, <1>2, <1>3, <1>4 DEF Next

LEMMA ParsedInvariance == Spec => []PInv
  BY ParsedInit, ParsedNext, PTL DEF Spec

-----------------------------------------------------------------------------
(* Keys                                                                    *)

\* Whatever number is drawn, the key is one of those that the seeding puts, or could.
LEMMA UniformInRange ==
  ASSUME NEW u \in uint64, cfg.keyspace \in uint64, cfg.keyspace >= 2
  PROVE  key_uniform(u) \in 1 .. cfg.keyspace - 1
<1> DEFINE m == cfg.keyspace - 1
<1>1. m \in Nat \ {0} /\ u \in Nat
  BY CommandLineAssumption DEF uint64
<1> HIDE DEF m
<1>2. u % m \in 0 .. m - 1
  BY <1>1, DivModNext
<1>3. (u % m) + 1 \in 1 .. m
  BY <1>1, <1>2
<1> QED  BY <1>1, <1>3 DEF m, key_uniform

LEMMA ZipfInRange ==
  ASSUME NEW u \in uint64, cfg.keyspace \in uint64, cfg.keyspace >= 2
  PROVE  key_zipf(u) \in 1 .. cfg.keyspace - 1
<1> DEFINE n == cfg.keyspace
           acc == Sums(n, cfg.zipf_s)
           reached == {x \in 1 .. n : (u % Grain) * acc[n] <= acc[x] * Grain}
           z == IF reached = {} THEN n ELSE CHOOSE x \in reached : \A y \in reached : x <= y
<1>1. n \in Nat /\ n >= 2
  BY CommandLineAssumption DEF uint64
<1>2. zipf_sample(u) = z
  BY DEF zipf_sample
<1> HIDE DEF acc
<1>3. reached \subseteq 1 .. n
  OBVIOUS
<1> HIDE DEF n, reached
<1>4. reached # {} => \E x \in reached : \A y \in reached : x <= y
  BY <1>3, Least
<1>5. z \in 1 .. n
  <2>1. CASE reached = {}
    BY <1>1, <2>1
  <2>2. CASE reached # {}
    <3>1. z \in reached
      BY <1>4, <2>2, Zenon
    <3> QED  BY <1>3, <3>1
  <2> QED  BY <2>1, <2>2
<1> HIDE DEF z
<1>6. AtMost(AtLeast(z, 1), n - 1) \in 1 .. n - 1
  BY <1>1, <1>5 DEF AtMost, AtLeast
<1> QED  BY <1>2, <1>6 DEF key_zipf, Cut, n

LEMMA KeyInRange ==
  ASSUME NEW u \in uint64, cfg.keyspace \in uint64, cfg.keyspace >= 2
  PROVE  next_key(u) \in 1 .. cfg.keyspace - 1
  BY UniformInRange, ZipfInRange DEF next_key

-----------------------------------------------------------------------------
(* The map                                                                 *)

\* The key of the loop or of the worker.
Counted ==
  /\ k \in uint64
  /\ pc \in {"args", "selftest", "select"} => k = 1
  /\ pc = "seed" => k \in 1 .. SeedCount + 1
  /\ pc = "op" => k \in 1 .. cfg.keyspace - 1 /\ ops < MaxOps

\* A key of the map is in its range, and has the value that is encoded from it.
Stored ==
  /\ store \in [uint64 -> uint64 \cup {NoValue}]
  /\ pc \in {"args", "selftest", "select", "exit"} => store = Empty
  /\ \A x \in uint64 : store[x] # NoValue => x \in 1 .. cfg.keyspace - 1 /\ store[x] = val_encode(x)

\* The last value a get returned is that of key k.
Checked ==
  /\ check \in {"none", "passed", "rejected"}
  /\ check # "none" => pc = "run" /\ (check = "rejected" <=> cfg.impl = "wrongget" /\ k # Magic)

WInv == Counted /\ Stored /\ Checked /\ ops \in 0 .. MaxOps

LEMMA RunInit == Init => WInv
<1> SUFFICES ASSUME Init PROVE WInv
  OBVIOUS
<1>1. pc = "args" /\ k = 1 /\ store = Empty /\ ops = 0 /\ check = "none"
  BY DEF Init, ParseInit
<1>2. Width \in Nat /\ Width > 2
  BY CommandLineAssumption
<1>3. MaxOps \in Nat
  BY WorkloadAssumption
<1> QED  BY <1>1, <1>2, <1>3 DEF WInv, Counted, Stored, Checked, Empty, uint64

\* The seeding stays below the key space, so that its counter does not wrap.
LEMMA SeedBounds ==
  ASSUME PInv, pc = "seed"
  PROVE  SeedCount \in 0 .. cfg.keyspace - 1 /\ cfg.keyspace \in uint64 /\ cfg.keyspace >= 2
<1>1. cfg.keyspace \in uint64 /\ cfg.keyspace >= 2 /\ cfg.seed \in uint64
  BY DEF PInv, Typed, Limited, UnsignedOption
<1> QED  BY <1>1, CommandLineAssumption DEF SeedCount, uint64

LEMMA RunNext ==
  ASSUME PInv, WInv, [Next]_vars
  PROVE  WInv'
<1>0. Width \in Nat /\ Width > 2 /\ uint64 = 0 .. Width - 1
  BY CommandLineAssumption DEF uint64
<1>1. CASE Command
  <2>1. pc \in {"args", "select"} /\ pc' \in {"args", "selftest", "select", "seed", "exit"}
        /\ (pc' = "seed" => pc = "select" /\ UNCHANGED cfg) /\ (pc = "select" => UNCHANGED cfg)
    BY <1>1 DEF Command, Parse, TakeOption, TakeFlag, Help, Ignore, Limit, Select
  <2>2. UNCHANGED <<k, store, ops, check, lats, p99>> /\ k = 1 /\ store = Empty
    BY <1>1, <2>1 DEF Command, data, WInv, Counted, Stored
  <2>3. check = "none" /\ \A x \in uint64 : store[x] = NoValue
    BY <2>1, <2>2 DEF WInv, Checked, Empty
  <2>4. pc' = "seed" => 1 \in 1 .. SeedCount' + 1
    <3> SUFFICES ASSUME pc' = "seed" PROVE 1 \in 1 .. SeedCount' + 1
      OBVIOUS
    <3>1. PInv' /\ SeedCount' = SeedCount
      BY <1>1, <2>1, ParsedNext DEF Next, SeedCount
    <3>2. cfg'.keyspace \in uint64 /\ cfg'.keyspace >= 2 /\ cfg'.seed \in uint64
      BY <3>1 DEF PInv, Typed, Limited, UnsignedOption, uint64
    <3> QED  BY <1>0, <2>1, <3>1, <3>2 DEF SeedCount
  <2>5. Counted'
    BY <1>0, <2>1, <2>2, <2>4 DEF Counted
  <2>6. Stored'
    BY <1>0, <2>1, <2>2, <2>3 DEF WInv, Stored, Empty, uint64
  <2>7. Checked'
    BY <2>2, <2>3 DEF Checked
  <2> QED  BY <2>2, <2>5, <2>6, <2>7 DEF WInv
<1>2. CASE SelfTest
  BY <1>2 DEF SelfTest, data, WInv, Counted, Stored, Checked, Empty, uint64
<1>3. CASE Seed
  <2>1. pc = "seed" /\ k <= SeedCount /\ k' = (k + 1) % Width /\ store' = [store EXCEPT ![k] = val_encode(k)]
        /\ UNCHANGED <<pc, cfg, ops, check>>
    BY <1>3 DEF Seed, parse
  <2>2. k \in 1 .. cfg.keyspace - 1 /\ cfg.keyspace \in uint64 /\ k \in uint64 /\ k + 1 \in 1 .. SeedCount + 1
    BY <1>0, <2>1, SeedBounds DEF WInv, Counted
  <2>3. k' = k + 1
    BY <1>0, <2>1, <2>2
  <2>4. Counted'
    BY <1>0, <2>1, <2>2, <2>3 DEF Counted, SeedCount, uint64
  <2>5. Stored'
    BY <1>0, <2>1, <2>2, EncodeFits DEF WInv, Stored, val_encode, uint64
  <2> QED  BY <2>1, <2>4, <2>5 DEF WInv, Checked
<1>4. CASE Start
  BY <1>4 DEF Start, data, WInv, Counted, Stored, Checked, Empty, uint64
<1>5. CASE Draw
  <2> PICK u \in uint64 : k' = next_key(u)
    BY <1>5 DEF Draw
  <2>1. cfg.keyspace \in uint64 /\ cfg.keyspace >= 2
    BY <1>5 DEF Draw, PInv, Typed, Limited, UnsignedOption
  <2>2. k' \in 1 .. cfg.keyspace - 1
    BY <2>1, KeyInRange
  <2>3. pc' = "op" /\ check' = "none" /\ UNCHANGED <<cfg, store, ops>> /\ ops < MaxOps /\ pc = "run"
    BY <1>5 DEF Draw
  <2> QED  BY <1>0, <2>1, <2>2, <2>3 DEF WInv, Counted, Stored, Checked
<1>6. CASE Operate
  <2> PICK r \in 0 .. 99 :
        /\ store' = [store EXCEPT ![k] = CASE Op(r) = "put" -> val_encode(k)
                                          [] Op(r) = "del" -> NoValue
                                          [] Op(r) = "get" -> @]
        /\ check' = IF Op(r) # "get" \/ store[k] = NoValue THEN "none"
                    ELSE IF val_check(k, Copied(store[k])) = 0 THEN "passed" ELSE "rejected"
    BY <1>6 DEF Operate
  <2>1. pc = "op" /\ pc' = "run" /\ ops' = ops + 1 /\ UNCHANGED <<cfg, k>>
    BY <1>6 DEF Operate
  <2>2. k \in 1 .. cfg.keyspace - 1 /\ k \in uint64 /\ ops < MaxOps /\ ops \in Nat /\ MaxOps \in Nat
    BY <2>1, WorkloadAssumption DEF WInv, Counted
  <2>3. Op(r) \in {"get", "put", "del"}
    BY DEF Op
  <2>4. \E v \in {val_encode(k), NoValue, store[k]} : store' = [store EXCEPT ![k] = v]
    BY <2>3
  <2>5. Stored'
    BY <2>1, <2>2, <2>4, EncodeFits DEF WInv, Stored, val_encode, uint64
  <2>6. Checked'
    <3>1. store[k] # NoValue => store[k] = val_encode(k)
      BY <2>2 DEF WInv, Stored
    <3>2. store[k] # NoValue => (val_check(k, Copied(store[k])) # 0 <=> cfg.impl = "wrongget" /\ k # Magic)
      BY <2>2, <3>1, EncodeFits DEF val_check, Copied
    <3> QED  BY <2>1, <3>2 DEF Checked
  <2> QED  BY <2>1, <2>2, <2>5, <2>6 DEF WInv, Counted, uint64
<1>7. CASE Report
  <2>1. pc' = "exit" /\ store' = Empty /\ k' = 1 /\ ops' = 0 /\ check' = "none" /\ MaxOps \in Nat
    BY <1>7, WorkloadAssumption DEF Report
  <2> QED  BY <1>0, <2>1 DEF WInv, Counted, Stored, Checked, Empty, uint64
<1>8. CASE UNCHANGED vars
  BY <1>8 DEF vars, parse, data, WInv, Counted, Stored, Checked, SeedCount, Empty, val_encode, uint64
<1> QED  BY <1>1, <1>2, <1>3, <1>4, <1>5, <1>6, <1>7, <1>8 DEF Next

LEMMA RunInvariance == Spec => []WInv
<1>1. PInv /\ WInv /\ [Next]_vars => WInv'
  BY RunNext
<1> QED  BY RunInit, <1>1, ParsedInvariance, PTL DEF Spec

-----------------------------------------------------------------------------
(* The last value counts                                                   *)

\* The places before a where option has been given.
Before(option) == {j \in Given(option) : j < a}

\* What the loop has made of the options it is through with.
Taken ==
  pc = "args" /\ Pairs =>
    /\ a % 2 = 1
    /\ \A o \in ValueOption :
         /\ Before(o) = {} => cfg[o] = Defaults[o]
         /\ \A j \in Before(o) : (\A i \in Before(o) : i <= j) => cfg[o] = ValueOf(o, argv[j + 1])

LEMMA TakenInit == Init => Taken
<1> SUFFICES ASSUME Init PROVE Taken
  OBVIOUS
<1>1. a = 1 /\ cfg = Defaults
  BY DEF Init, ParseInit
<1>2. \A o \in ValueOption : Before(o) = {}
  BY <1>1 DEF Before, Given
<1> QED  BY <1>1, <1>2 DEF Taken

\* On a line of options with their values the loop does nothing but take them.
LEMMA OptionsAreTaken ==
  ASSUME PInv, Taken, pc = "args", Pairs, a <= Len(argv)
  PROVE  /\ a \in 1 .. Len(argv) /\ a % 2 = 1 /\ a + 1 \in 1 .. Len(argv)
         /\ Arg(a) = argv[a] /\ Arg(a + 1) = argv[a + 1]
         /\ argv[a] \in ValueOption /\ ~TakeFlag /\ ~Help /\ ~Ignore
<1>1. a \in 1 .. Len(argv) /\ a % 2 = 1 /\ Len(argv) % 2 = 0 /\ Len(argv) \in Nat
  BY DEF PInv, Taken, Pairs
<1>2. a + 1 \in 1 .. Len(argv)
  BY <1>1
<1>3. argv[a] \in ValueOption
  BY <1>1 DEF Pairs
<1>4. Arg(a) = argv[a] /\ Arg(a + 1) = argv[a + 1]
  BY <1>1, <1>2, ArgIsToken
<1>5. argv[a] \notin Flag /\ argv[a] # "help"
  BY <1>3 DEF ValueOption, TextOption, IntOption, RealOption, UnsignedOption, Flag
<1>6. IsOption
  BY <1>2, <1>3, <1>4 DEF IsOption
<1> QED  BY <1>1, <1>2, <1>3, <1>4, <1>5, <1>6 DEF TakeFlag, Help, Ignore

LEMMA TakenNext ==
  ASSUME PInv, Taken, [Next]_vars
  PROVE  Taken'
<1> SUFFICES ASSUME pc' = "args", Pairs' PROVE Taken'
  BY DEF Taken
<1>1. CASE TakeOption
  <2>1. pc = "args" /\ a <= Len(argv) /\ argv' = argv /\ a' = a + 2
        /\ cfg' = [cfg EXCEPT ![Arg(a)] = ValueOf(Arg(a), Arg(a + 1))]
    BY <1>1 DEF TakeOption, Past
  <2>2. Pairs /\ \A o : Given(o)' = Given(o)
    BY <2>1 DEF Pairs, Given
  <2>3. /\ a \in 1 .. Len(argv) /\ a % 2 = 1
        /\ Arg(a) = argv[a] /\ Arg(a + 1) = argv[a + 1] /\ argv[a] \in ValueOption
    BY <2>1, <2>2, OptionsAreTaken
  <2>4. a' % 2 = 1
    BY <2>1, <2>3
  <2>5. \A o \in ValueOption : cfg'[o] = IF o = argv[a] THEN ValueOf(o, argv[a + 1]) ELSE cfg[o]
    BY <2>1, <2>3 DEF PInv, Typed, Option
  <2>6. \A o : Before(o)' = Before(o) \cup (IF o = argv[a] THEN {a} ELSE {})
    <3> SUFFICES ASSUME NEW o PROVE Before(o)' = Before(o) \cup (IF o = argv[a] THEN {a} ELSE {})
      OBVIOUS
    <3>1. \A j \in Given(o) : j \in 1 .. Len(argv) /\ j % 2 = 1 /\ argv[j] = o
      BY DEF Given
    <3>2. \A j \in Nat : j % 2 = 1 => j # a + 1
      BY <2>3
    <3>3. \A j \in Given(o) : j < a' <=> j < a \/ j = a
      BY <2>1, <2>3, <3>1, <3>2
    <3>4. a \in Given(o) <=> o = argv[a]
      BY <2>3 DEF Given
    <3>5. Before(o)' = {j \in Given(o) : j < a'}
      BY <2>2 DEF Before
    <3> QED  BY <3>3, <3>4, <3>5 DEF Before
  <2>7. ASSUME NEW o \in ValueOption
        PROVE  /\ Before(o)' = {} => cfg'[o] = Defaults[o]
               /\ \A j \in Before(o)' : (\A i \in Before(o)' : i <= j) => cfg'[o] = ValueOf(o, argv[j + 1])
    <3>1. \A j \in Before(o) : j \in 1 .. Len(argv) /\ j < a
      BY DEF Before, Given
    <3>2. CASE o = argv[a]
      <4>1. a \in Before(o)' /\ \A j \in Before(o)' : j = a \/ j < a
        BY <2>6, <3>1, <3>2
      <4>2. \A j \in Before(o)' : (\A i \in Before(o)' : i <= j) => j = a
        BY <2>3, <2>6, <3>1, <4>1
      <4> QED  BY <2>5, <3>2, <4>1, <4>2
    <3>3. CASE o # argv[a]
      <4>1. Before(o)' = Before(o) /\ cfg'[o] = cfg[o]
        BY <2>5, <2>6, <3>3
      <4> QED  BY <2>1, <2>2, <4>1 DEF Taken
    <3> QED  BY <3>2, <3>3
  <2>8. \A o, x : ValueOf(o, x)' = ValueOf(o, x)
    BY DEF ValueOf
  <2> QED  BY <2>1, <2>4, <2>7, <2>8 DEF Taken
<1>2. CASE TakeFlag \/ Help \/ Ignore
  <2>1. pc = "args" /\ a <= Len(argv) /\ argv' = argv
    BY <1>2 DEF TakeFlag, Help, Ignore
  <2>2. Pairs
    BY <2>1 DEF Pairs
  <2> QED  BY <1>2, <2>1, <2>2, OptionsAreTaken
<1>3. CASE UNCHANGED vars
  <2>1. UNCHANGED <<pc, argv, a, cfg>>
    BY <1>3 DEF vars, parse
  <2>2. Pairs /\ pc = "args" /\ \A o : Before(o)' = Before(o)
    BY <2>1 DEF Pairs, Before, Given
  <2>3. \A o, x : ValueOf(o, x)' = ValueOf(o, x)
    BY DEF ValueOf
  <2> QED  BY <2>1, <2>2, <2>3 DEF Taken
<1>4. ASSUME Limit \/ Select \/ SelfTest \/ Seed \/ Start \/ Draw \/ Operate \/ Report
      PROVE  FALSE
  BY <1>4 DEF Limit, Select, SelfTest, Seed, Start, Draw, Operate, Report, parse
<1> QED  BY <1>1, <1>2, <1>3, <1>4 DEF Next, Command, Parse

LEMMA TakenInvariance == Spec => []Taken
<1>1. PInv /\ Taken /\ [Next]_vars => Taken'
  BY TakenNext
<1> QED  BY TakenInit, <1>1, ParsedInvariance, PTL DEF Spec

-----------------------------------------------------------------------------
(* The interval                                                            *)

\* Both numbers are even, so that their remainders are.
LEMMA RemainderIsEven ==
  ASSUME NEW sec \in Nat
  PROVE  Milliseconds(sec) \in 0 .. DwordRange - 2
<1> DEFINE x == sec * PerSecond
<1>1. PerSecond \in Nat /\ DwordRange \in Nat \ {0} /\ PerSecond % 2 = 0 /\ DwordRange % 2 = 0
  BY CommandLineAssumption
<1>2. PICK p \in Nat : PerSecond = 2 * p
  <2>1. PICK p \in Nat, r \in 0 .. 2 - 1 : PerSecond = 2 * p + r
    BY <1>1, DivMod
  <2> QED  BY <1>1, <2>1
<1>3. PICK d \in Nat : DwordRange = 2 * d
  <2>1. PICK d \in Nat, r \in 0 .. 2 - 1 : DwordRange = 2 * d + r
    BY <1>1, DivMod
  <2> QED  BY <1>1, <2>1
<1>4. x \in Nat /\ x = 2 * (sec * p) /\ sec * p \in Nat
  BY <1>1, <1>2
<1> HIDE DEF x
<1>5. PICK q \in Nat, r \in 0 .. DwordRange - 1 : x = DwordRange * q + r
  BY <1>1, <1>4, DivMod
<1>6. x % DwordRange = r
  BY <1>1, <1>4, <1>5, DivModIs
<1>7. DwordRange * q = 2 * (d * q) /\ d * q \in Nat
  BY <1>3
<1>8. r # DwordRange - 1
  <2> DEFINE u == sec * p
             v == d * q
  <2>1. u \in Nat /\ v \in Nat /\ 2 * u = 2 * v + r
    BY <1>4, <1>5, <1>7
  <2> HIDE DEF u, v
  <2> QED  BY <1>3, <2>1
<1> QED  BY <1>1, <1>5, <1>6, <1>8 DEF Milliseconds, x

-----------------------------------------------------------------------------
(* The percentile                                                          *)

\* The first m places of s, taken in order p, are sorted, and no later one is smaller.
SortedTo(s, p, m) ==
  \A i, j \in DOMAIN s : i <= m /\ i < j => s[p[i]] <= s[p[j]]

\* Two places of an order are exchanged.
Exchanged(p, b, c) == [i \in DOMAIN p |-> IF i = b THEN p[c] ELSE IF i = c THEN p[b] ELSE p[i]]

LEMMA OneMoreSorted ==
  ASSUME NEW s \in Seq(Nat), NEW m \in 1 .. Len(s),
         NEW p \in [DOMAIN s -> DOMAIN s], IsInjective(p), SortedTo(s, p, m - 1)
  PROVE  \E q \in [DOMAIN s -> DOMAIN s] : IsInjective(q) /\ SortedTo(s, q, m)
<1> DEFINE D == DOMAIN s
<1>1. D = 1 .. Len(s) /\ Len(s) \in Nat /\ \A i \in D : s[i] \in Nat /\ p[i] \in D
  OBVIOUS
<1> DEFINE T == {s[p[i]] : i \in m .. Len(s)}
<1>2. T \in SUBSET Nat /\ s[p[m]] \in T
  <2>1. \A i \in m .. Len(s) : i \in D
    BY <1>1
  <2> HIDE DEF D
  <2>2. \A i \in m .. Len(s) : s[p[i]] \in Nat
    BY <1>1, <2>1
  <2>3. m \in m .. Len(s)
    BY <1>1
  <2> QED  BY <2>2, <2>3
<1>3. PICK v \in T : \A w \in T : v <= w
  BY <1>2, Least
<1>4. PICK c \in m .. Len(s) : v = s[p[c]]
  OBVIOUS
<1>5. \A i \in m .. Len(s) : s[p[c]] <= s[p[i]]
  BY <1>3, <1>4
<1> HIDE DEF T
<1>0. m \in D /\ c \in D /\ c >= m /\ m \in Nat /\ \A i \in D : i \in Nat /\ (i >= m => i \in m .. Len(s))
  BY <1>1
<1> HIDE DEF D
<1> DEFINE q == Exchanged(p, m, c)
<1>6. /\ q \in [D -> D] /\ q[m] = p[c]
      /\ \A i \in D : q[i] = IF i = m THEN p[c] ELSE IF i = c THEN p[m] ELSE p[i]
  <2>1. DOMAIN p = D
    BY DEF D
  <2> QED  BY <1>0, <1>1, <2>1 DEF Exchanged
<1> HIDE DEF q
<1>7. IsInjective(q)
  <2>1. \A i, j \in D : p[i] = p[j] => i = j
    BY DEF IsInjective, D
  <2>2. ASSUME NEW i \in D, NEW j \in D, q[i] = q[j] PROVE i = j
    BY <1>0, <1>6, <2>1, <2>2
  <2>3. DOMAIN q = D
    BY <1>6
  <2> QED  BY <2>2, <2>3 DEF IsInjective
<1>8. SortedTo(s, q, m)
  <2> SUFFICES ASSUME NEW i \in D, NEW j \in D, i <= m, i < j
               PROVE  s[q[i]] <= s[q[j]]
    BY DEF SortedTo, D
  <2>1. \E g \in D : q[j] = p[g] /\ (i < m => i < g) /\ (i = m => g >= m)
    <3>1. CASE j = c
      <4>1. q[j] = p[m] /\ m \in D
        BY <1>0, <1>6, <3>1
      <4> QED  BY <1>0, <3>1, <4>1
    <3>2. CASE j # c /\ j # m
      <4>1. q[j] = p[j]
        BY <1>0, <1>6, <3>2
      <4> QED  BY <1>0, <4>1
    <3>3. CASE j = m
      <4>1. q[j] = p[c] /\ i < c
        BY <1>0, <1>6, <3>3
      <4> QED  BY <1>0, <3>3, <4>1
    <3> QED  BY <3>1, <3>2, <3>3
  <2> PICK g \in D : q[j] = p[g] /\ (i < m => i < g) /\ (i = m => g >= m)
    BY <2>1
  <2>2. CASE i = m
    <3>1. q[i] = p[c] /\ g \in m .. Len(s)
      BY <1>0, <1>6, <2>1, <2>2
    <3> QED  BY <1>5, <3>1
  <2>3. CASE i # m
    <3>1. i < m /\ q[i] = p[i] /\ i <= m - 1 /\ i < g
      BY <1>0, <1>6, <2>1, <2>3
    <3>2. s[p[i]] <= s[p[g]]
      BY <3>1 DEF SortedTo, D
    <3> QED  BY <3>1, <3>2
  <2> QED  BY <2>2, <2>3
<1> QED  BY <1>6, <1>7, <1>8 DEF D

\* Every array can be sorted.
LEMMA OrderExists ==
  ASSUME NEW s \in Seq(Nat)
  PROVE  \E p \in [DOMAIN s -> DOMAIN s] :
           (\A i, j \in DOMAIN s : i < j => s[p[i]] <= s[p[j]]) /\ IsInjective(p)
<1> DEFINE T == {m \in Nat : m <= Len(s) =>
                   \E p \in [DOMAIN s -> DOMAIN s] : IsInjective(p) /\ SortedTo(s, p, m)}
<1>1. DOMAIN s = 1 .. Len(s) /\ Len(s) \in Nat
  OBVIOUS
<1>2. 0 \in T
  <2> DEFINE id == [i \in DOMAIN s |-> i]
  <2>1. id \in [DOMAIN s -> DOMAIN s] /\ IsInjective(id) /\ SortedTo(s, id, 0)
    BY <1>1 DEF IsInjective, SortedTo
  <2> QED  BY <2>1
<1>3. ASSUME NEW m \in T PROVE m + 1 \in T
  <2> SUFFICES ASSUME m + 1 <= Len(s)
               PROVE  \E p \in [DOMAIN s -> DOMAIN s] : IsInjective(p) /\ SortedTo(s, p, m + 1)
    OBVIOUS
  <2> PICK p \in [DOMAIN s -> DOMAIN s] : IsInjective(p) /\ SortedTo(s, p, m)
    BY <1>1
  <2>1. m + 1 \in 1 .. Len(s) /\ (m + 1) - 1 = m
    BY <1>1
  <2>2. SortedTo(s, p, (m + 1) - 1)
    BY <2>1
  <2> HIDE DEF T
  <2> QED  BY <2>1, <2>2, OneMoreSorted
<1> HIDE DEF T
<1>4. T = Nat
  BY <1>2, <1>3, Induction DEF T
<1>5. Len(s) \in T
  BY <1>1, <1>4
<1> PICK p \in [DOMAIN s -> DOMAIN s] : IsInjective(p) /\ SortedTo(s, p, Len(s))
  BY <1>5 DEF T
<1>6. \A i, j \in DOMAIN s : i < j => s[p[i]] <= s[p[j]]
  BY <1>1 DEF SortedTo
<1> QED  BY <1>6

\* The places lo .. hi of an order lie in U.
LEMMA PlacesCount ==
  ASSUME NEW s \in Seq(Nat), NEW p \in [DOMAIN s -> DOMAIN s], IsInjective(p),
         NEW lo \in DOMAIN s, NEW hi \in DOMAIN s, lo <= hi,
         NEW U \in SUBSET DOMAIN s, \A q \in lo .. hi : p[q] \in U
  PROVE  /\ Cardinality(DOMAIN s \ U) \in Nat
         /\ Cardinality(DOMAIN s \ U) <= Len(s) - (hi - lo + 1)
<1>1. DOMAIN s = 1 .. Len(s) /\ Len(s) \in Nat /\ lo \in Nat /\ hi \in Nat
  OBVIOUS
<1>2. IsFiniteSet(DOMAIN s) /\ Cardinality(DOMAIN s) = Len(s)
  <2>1. IsFiniteSet(1 .. Len(s)) /\ Cardinality(1 .. Len(s)) = IF 1 > Len(s) THEN 0 ELSE Len(s) - 1 + 1
    BY <1>1, FS_Interval
  <2> QED  BY <1>1, <2>1
<1>3. Cardinality(lo .. hi) = hi - lo + 1
  BY <1>1, FS_Interval
<1>4. IsFiniteSet(U) /\ Cardinality(U) \in Nat /\ DOMAIN s \cap U = U
  BY <1>2, FS_Subset, FS_CardinalityType
<1> DEFINE f == [q \in lo .. hi |-> p[q]]
<1>5. f \in Injection(lo .. hi, U)
  <2>1. lo .. hi \subseteq DOMAIN s
    BY <1>1
  <2>2. f \in [lo .. hi -> U]
    OBVIOUS
  <2>3. IsInjective(f)
    BY <2>1 DEF IsInjective
  <2> QED  BY <2>2, <2>3 DEF Injection
<1> HIDE DEF f
<1>6. hi - lo + 1 <= Cardinality(U)
  BY <1>3, <1>4, <1>5, FS_Injection
<1>7. /\ IsFiniteSet(DOMAIN s \ U)
      /\ Cardinality(DOMAIN s \ U) = Cardinality(DOMAIN s) - Cardinality(DOMAIN s \cap U)
  BY <1>2, FS_Difference
<1>8. Cardinality(DOMAIN s \ U) \in Nat
  BY <1>7, FS_CardinalityType
<1>9. Cardinality(DOMAIN s \ U) = Len(s) - Cardinality(U)
  BY <1>2, <1>4, <1>7
<1> QED  BY <1>1, <1>4, <1>6, <1>8, <1>9

\* How many others are smaller, and how many larger, than what percentile_ns returns.
LEMMA PercentileIsRank ==
  ASSUME NEW s \in Seq(Nat), s # <<>>
  PROVE  LET v == percentile_ns(s)
         IN  /\ \E j \in DOMAIN s : s[j] = v
             /\ 100 * Cardinality({j \in DOMAIN s : s[j] < v}) <= 99 * (Len(s) - 1)
             /\ 100 * Cardinality({j \in DOMAIN s : s[j] > v}) < (Len(s) - 1) + 100
<1> DEFINE n == Len(s)
           e == ((n - 1) * 99) \div 100
           v == percentile_ns(s)
           p == CHOOSE p \in [DOMAIN s -> DOMAIN s] :
                  (\A i, j \in DOMAIN s : i < j => s[p[i]] <= s[p[j]]) /\ IsInjective(p)
<1>1. DOMAIN s = 1 .. n /\ n \in Nat \ {0} /\ \A j \in DOMAIN s : s[j] \in Nat
  OBVIOUS
<1>2. /\ p \in [DOMAIN s -> DOMAIN s] /\ IsInjective(p)
      /\ \A i, j \in DOMAIN s : i < j => s[p[i]] <= s[p[j]]
  BY OrderExists
<1>3. v = [i \in DOMAIN s |-> s[p[i]]][e + 1]
  BY DEF percentile_ns, Sorted
<1> HIDE DEF p, n, v
<1>4. e \in Nat /\ 100 * e <= (n - 1) * 99 /\ (n - 1) * 99 < 100 * e + 100
  <2> DEFINE x == (n - 1) * 99
  <2>1. x \in Nat
    BY <1>1
  <2> HIDE DEF x
  <2> DEFINE M == 100
  <2>2. M \in Nat \ {0}
    OBVIOUS
  <2> HIDE DEF M
  <2>3. PICK q \in Nat, r \in 0 .. M - 1 : x = M * q + r
    BY <2>1, <2>2, DivMod
  <2>4. x \div M = q
    BY <2>1, <2>2, <2>3, DivModIs
  <2>5. e = q
    BY <2>4 DEF x, M
  <2> HIDE DEF e
  <2>6. x = 100 * q + r /\ r \in 0 .. 99 /\ x = (n - 1) * 99
    BY <2>3 DEF x, M
  <2> QED  BY <2>5, <2>6
<1> HIDE DEF e
<1>5. e + 1 \in 1 .. n
  BY <1>1, <1>4
<1>6. v = s[p[e + 1]] /\ p[e + 1] \in DOMAIN s
  BY <1>1, <1>2, <1>3, <1>5
<1>7. 100 * Cardinality({j \in DOMAIN s : s[j] < v}) <= 99 * (n - 1)
  <2> DEFINE U == {j \in DOMAIN s : s[j] >= v}
  <2>1. {j \in DOMAIN s : s[j] < v} = DOMAIN s \ U
    BY <1>1, <1>6
  <2>2. \A q \in e + 1 .. n : p[q] \in U
    <3> SUFFICES ASSUME NEW q \in e + 1 .. n PROVE p[q] \in DOMAIN s /\ s[p[q]] >= v
      OBVIOUS
    <3>1. q \in DOMAIN s /\ e + 1 \in DOMAIN s /\ (q = e + 1 \/ e + 1 < q)
      BY <1>1, <1>4, <1>5
    <3>2. p[q] \in DOMAIN s /\ s[p[q]] \in Nat /\ v \in Nat
      BY <1>1, <1>2, <1>6, <3>1
    <3>3. q = e + 1 => s[p[q]] = v
      BY <1>6
    <3>4. q # e + 1 => v <= s[p[q]]
      BY <1>2, <1>6, <3>1
    <3> QED  BY <3>2, <3>3, <3>4
  <2>3. e + 1 \in DOMAIN s /\ n \in DOMAIN s /\ e + 1 <= n /\ U \in SUBSET DOMAIN s
    BY <1>1, <1>5
  <2> HIDE DEF U
  <2> DEFINE c == Cardinality(DOMAIN s \ U)
  <2>4. c \in Nat /\ c <= Len(s) - (n - (e + 1) + 1)
    BY <1>2, <2>2, <2>3, PlacesCount
  <2>5. c <= e
    BY <1>1, <1>4, <2>4 DEF n
  <2> HIDE DEF c
  <2>6. 100 * c <= 99 * (n - 1)
    BY <1>1, <1>4, <2>4, <2>5
  <2> QED  BY <2>1, <2>6 DEF c
<1>8. 100 * Cardinality({j \in DOMAIN s : s[j] > v}) < (n - 1) + 100
  <2> DEFINE U == {j \in DOMAIN s : s[j] <= v}
  <2>1. {j \in DOMAIN s : s[j] > v} = DOMAIN s \ U
    BY <1>1, <1>6
  <2>2. \A q \in 1 .. e + 1 : p[q] \in U
    <3> SUFFICES ASSUME NEW q \in 1 .. e + 1 PROVE p[q] \in DOMAIN s /\ s[p[q]] <= v
      OBVIOUS
    <3>1. q \in DOMAIN s /\ e + 1 \in DOMAIN s /\ (q = e + 1 \/ q < e + 1)
      BY <1>1, <1>4, <1>5
    <3>2. p[q] \in DOMAIN s /\ s[p[q]] \in Nat /\ v \in Nat
      BY <1>1, <1>2, <1>6, <3>1
    <3>3. q = e + 1 => s[p[q]] = v
      BY <1>6
    <3>4. q # e + 1 => s[p[q]] <= v
      BY <1>2, <1>6, <3>1
    <3> QED  BY <3>2, <3>3, <3>4
  <2>3. e + 1 \in DOMAIN s /\ 1 \in DOMAIN s /\ 1 <= e + 1 /\ U \in SUBSET DOMAIN s
    BY <1>1, <1>4, <1>5
  <2> HIDE DEF U
  <2> DEFINE c == Cardinality(DOMAIN s \ U)
  <2>4. c \in Nat /\ c <= Len(s) - ((e + 1) - 1 + 1)
    BY <1>2, <2>2, <2>3, PlacesCount
  <2>5. c <= n - (e + 1)
    BY <1>1, <1>4, <2>4 DEF n
  <2> HIDE DEF c
  <2>6. 100 * c < (n - 1) + 100
    BY <1>1, <1>4, <2>4, <2>5
  <2> QED  BY <2>1, <2>6 DEF c
<1> QED  BY <1>6, <1>7, <1>8 DEF v, n

\* What Report leaves.
Ranked == lats \in Latencies \cup {<<>>} /\ p99 = percentile_ns(lats)

LEMMA RankedInvariance == Spec => []Ranked
<1>1. Init => Ranked
  BY DEF Init, Ranked, percentile_ns
<1>2. Ranked /\ [Next]_vars => Ranked'
  <2> SUFFICES ASSUME Ranked, [Next]_vars PROVE Ranked'
    OBVIOUS
  <2>1. CASE Report
    BY <2>1 DEF Report, Ranked
  <2>2. CASE UNCHANGED <<lats, p99>>
    BY <2>2 DEF Ranked
  <2>3. Report \/ UNCHANGED <<lats, p99>>
    BY DEF Next, Command, SelfTest, Seed, Start, Draw, Operate, data, vars
  <2> QED  BY <2>1, <2>2, <2>3
<1> QED  BY <1>1, <1>2, PTL DEF Spec

-----------------------------------------------------------------------------
(* The weights of the keys                                                 *)

\* With s >= 0 the next key does not weigh more.
LEMMA WeightFalls ==
  ASSUME NEW s \in Exponents, s >= 0, NEW x \in 1 .. Width - 2
  PROVE  Weight(x, s) \in Nat /\ Weight(x + 1, s) \in Nat /\ Weight(x + 1, s) <= Weight(x, s)
<1>0. Width \in Nat /\ x \in 1 .. Width - 1 /\ x + 1 \in 1 .. Width - 1
  BY CommandLineAssumption
<1>1. PICK p \in Nat \ {0} : p = Pow(x, s)
  BY <1>0, WorkloadAssumption
<1>2. PICK q \in Nat \ {0} : q = Pow(x + 1, s)
  BY <1>0, WorkloadAssumption
<1>3. p <= q
  BY <1>1, <1>2, WorkloadAssumption
<1>5. PICK one \in Nat : one = Scale * Scale
  BY WorkloadAssumption
<1>4. Weight(x, s) = one \div p /\ Weight(x + 1, s) = one \div q
  BY <1>1, <1>2, <1>5 DEF Weight
<1>6. PICK c \in Nat, i \in 0 .. p - 1 : one = p * c + i
  BY <1>5, DivMod
<1>7. PICK d \in Nat, j \in 0 .. q - 1 : one = q * d + j
  BY <1>5, DivMod
<1>8. one \div p = c /\ one \div q = d
  BY <1>5, <1>6, <1>7, DivModIs
<1>9. d <= c
  <2> SUFFICES ASSUME c + 1 <= d PROVE FALSE
    OBVIOUS
  <2>1. p * (c + 1) <= q * d
    BY <1>3, ProductGrows
  <2>2. p * (c + 1) = p * c + p /\ p * c \in Nat /\ q * d \in Nat
    OBVIOUS
  <2> QED  BY <1>6, <1>7, <2>1, <2>2
<1> QED  BY <1>4, <1>8, <1>9

\* The first key weighs 1, whatever the exponent.
LEMMA FirstWeight ==
  ASSUME NEW s \in Exponents, s >= 0
  PROVE  Weight(1, s) = Scale /\ Scale \in Nat \ {0}
<1>1. Pow(1, s) = Scale
  BY WorkloadAssumption
<1>2. Weight(1, s) = (Scale * Scale) \div Scale
  BY <1>1 DEF Weight
<1>3. PICK c \in Nat \ {0} : c = Scale
  BY WorkloadAssumption
<1>4. c * c = c * c + 0 /\ 0 \in 0 .. c - 1 /\ c * c \in Nat
  OBVIOUS
<1>5. (c * c) \div c = c
  BY <1>4, DivModIs
<1> QED  BY <1>2, <1>3, <1>5

\* The sums of the weights of n keys grow, by less and less.
SlowSums(acc, n) ==
  /\ acc[0] = 0 /\ acc[n] > 0
  /\ \A x \in 0 .. n : acc[x] \in Nat /\ acc[x] <= acc[n]
  /\ \A x \in 0 .. n - 1 : acc[x] <= acc[x + 1]
  /\ \A x \in 1 .. n - 1 : acc[x + 1] - acc[x] <= acc[x] - acc[x - 1]

LEMMA SumsGrowSlowly ==
  ASSUME NEW n \in 1 .. Width - 1, NEW s \in Exponents, s >= 0
  PROVE  SlowSums(Sums(n, s), n)
<1> DEFINE w == [x \in 0 .. n - 1 |-> Weight(x + 1, s)]
           acc == SumTo(w)
<1>1. Sums(n, s) = acc
  BY DEF Sums, SumTo
<1>0. Width \in Nat /\ n \in Nat \ {0}
  BY CommandLineAssumption
<1>2. \A x \in 0 .. n - 1 : w[x] \in Nat
  <2> SUFFICES ASSUME NEW x \in 0 .. n - 1 PROVE Weight(x + 1, s) \in Nat
    OBVIOUS
  <2>1. CASE x = 0
    BY <2>1, FirstWeight
  <2>2. CASE x # 0
    <3>1. x \in 1 .. Width - 2
      BY <1>0, <2>2
    <3> QED  BY <3>1, WeightFalls
  <2> QED  BY <2>1, <2>2
<1>3. ASSUME NEW x \in 1 .. n - 1 PROVE w[x] <= w[x - 1]
  <2>1. w[x] = Weight(x + 1, s) /\ w[x - 1] = Weight((x - 1) + 1, s) /\ (x - 1) + 1 = x
    OBVIOUS
  <2> HIDE DEF w
  <2>2. x \in 1 .. Width - 2
    BY <1>0
  <2>3. Weight(x + 1, s) <= Weight(x, s)
    BY <2>2, WeightFalls
  <2> QED  BY <2>1, <2>3
<1>4. w[0] > 0
  <2>1. w[0] = Weight(0 + 1, s)
    BY <1>0
  <2> HIDE DEF w
  <2> QED  BY <2>1, FirstWeight
<1> HIDE DEF w
<1>5. acc[0] = 0 /\ \A x \in Nat : acc[x + 1] = acc[x] + w[x]
  BY SumNext
<1>6. \A x \in 0 .. n : acc[x] \in Nat
  BY <1>2, SumIsNat
<1> HIDE DEF acc
<1>7. \A x \in 0 .. n - 1 : acc[x] <= acc[x + 1]
  BY <1>2, <1>5, <1>6
<1>8. ASSUME NEW x \in 1 .. n - 1 PROVE acc[x + 1] - acc[x] <= acc[x] - acc[x - 1]
  <2>1. acc[x + 1] = acc[x] + w[x] /\ acc[x] = acc[x - 1] + w[x - 1]
    BY <1>5
  <2>2. w[x] <= w[x - 1] /\ w[x] \in Nat /\ w[x - 1] \in Nat /\ acc[x] \in Nat /\ acc[x - 1] \in Nat
    BY <1>2, <1>3, <1>6
  <2> QED  BY <2>1, <2>2
<1>9. \A x \in 0 .. n : acc[x] <= acc[n]
  <2> DEFINE T == {d \in Nat : d <= n => acc[n - d] <= acc[n]}
  <2>1. 0 \in T /\ T \in SUBSET Nat
    BY <1>6
  <2>2. ASSUME NEW d \in T PROVE d + 1 \in T
    <3> SUFFICES ASSUME d + 1 <= n PROVE acc[n - (d + 1)] <= acc[n]
      OBVIOUS
    <3>1. n - (d + 1) \in 0 .. n - 1 /\ (n - (d + 1)) + 1 = n - d /\ acc[n - d] <= acc[n]
      OBVIOUS
    <3>2. acc[n - (d + 1)] <= acc[n - d]
      BY <1>7, <3>1
    <3> QED  BY <1>6, <3>1, <3>2
  <2> HIDE DEF T
  <2>3. T = Nat
    BY <2>1, <2>2, Induction
  <2>4. ASSUME NEW x \in 0 .. n PROVE acc[x] <= acc[n]
    <3>1. n - x \in T /\ n - x <= n /\ n - (n - x) = x
      BY <2>3
    <3> QED  BY <3>1 DEF T
  <2> QED  BY <2>4
<1>10. acc[n] > 0
  <2>1. acc[1] = acc[0] + w[0] /\ acc[1] <= acc[n] /\ w[0] \in Nat /\ acc[n] \in Nat
    BY <1>2, <1>5, <1>6, <1>9
  <2> QED  BY <1>4, <1>5, <2>1
<1> QED  BY <1>1, <1>5, <1>6, <1>7, <1>8, <1>9, <1>10 DEF SlowSums

\* The number of draws out of 0 .. Grain - 1 that the sums up to key x take in.
Mark(acc, n, x) == (acc[x] * Grain) \div acc[n]

LEMMA MarkIs ==
  ASSUME NEW n \in Nat \ {0}, NEW acc, SlowSums(acc, n), NEW x \in 0 .. n
  PROVE  /\ Mark(acc, n, x) \in Nat
         /\ Mark(acc, n, x) * acc[n] <= acc[x] * Grain
         /\ acc[x] * Grain < (Mark(acc, n, x) + 1) * acc[n]
         /\ \A u \in Nat : u * acc[n] <= acc[x] * Grain <=> u <= Mark(acc, n, x)
<1>1. acc[n] \in Nat \ {0} /\ acc[x] \in Nat /\ Grain \in Nat \ {0}
  <2>1. n \in 0 .. n
    OBVIOUS
  <2>2. acc[n] \in Nat /\ acc[x] \in Nat /\ acc[n] > 0
    BY <2>1 DEF SlowSums
  <2>3. Grain \in Nat \ {0}
    BY WorkloadAssumption
  <2> QED  BY <2>2, <2>3
<1> DEFINE S == acc[n]
           A == acc[x] * Grain
<1>2. S \in Nat \ {0} /\ A \in Nat
  BY <1>1
<1> HIDE DEF S, A
<1>3. PICK q \in Nat, r \in 0 .. S - 1 : A = S * q + r
  BY <1>2, DivMod
<1>4. A \div S = q
  BY <1>2, <1>3, DivModIs
<1>5. q * S = S * q /\ S * q \in Nat /\ (q + 1) * S = S * q + S
  BY <1>2
<1>6. q * S <= A /\ A < (q + 1) * S
  BY <1>2, <1>3, <1>5
<1>7. ASSUME NEW u \in Nat PROVE u * S <= A <=> u <= q
  <2>1. u * S \in Nat /\ q * S \in Nat /\ (q + 1) * S \in Nat
    BY <1>2
  <2>2. u <= q => u * S <= q * S
    BY <1>2, ProductGrows
  <2>3. q + 1 <= u => (q + 1) * S <= u * S
    BY <1>2, ProductGrows
  <2> QED  BY <1>2, <1>6, <2>1, <2>2, <2>3
<1> QED  BY <1>4, <1>6, <1>7 DEF Mark, S, A

\* The marks are at most one further apart at the next key.
LEMMA MarksGrowSlowly ==
  ASSUME NEW n \in Nat \ {0}, NEW acc, SlowSums(acc, n), NEW x \in 1 .. n - 1
  PROVE  /\ Mark(acc, n, x - 1) <= Mark(acc, n, x) /\ Mark(acc, n, x) <= Mark(acc, n, x + 1)
         /\ Mark(acc, n, x + 1) - Mark(acc, n, x) <= Mark(acc, n, x) - Mark(acc, n, x - 1) + 1
<1> DEFINE S == acc[n]
           a1 == Mark(acc, n, x - 1)
           a2 == Mark(acc, n, x)
           a3 == Mark(acc, n, x + 1)
           b1 == acc[x - 1]
           b2 == acc[x]
           b3 == acc[x + 1]
<1>1. x - 1 \in 0 .. n /\ x \in 0 .. n /\ x + 1 \in 0 .. n /\ x - 1 \in 0 .. n - 1 /\ x \in 0 .. n - 1
  OBVIOUS
<1>2. /\ a1 \in Nat /\ a2 \in Nat /\ a3 \in Nat
      /\ a1 * S <= b1 * Grain /\ b2 * Grain < (a2 + 1) * S /\ a3 * S <= b3 * Grain
      /\ \A u \in Nat : u * S <= b2 * Grain <=> u <= a2
      /\ \A u \in Nat : u * S <= b3 * Grain <=> u <= a3
      /\ a2 * S <= b2 * Grain
  BY <1>1, MarkIs
<1>3. /\ S \in Nat \ {0} /\ b1 \in Nat /\ b2 \in Nat /\ b3 \in Nat /\ b1 <= b2 /\ b2 <= b3
      /\ b3 - b2 <= b2 - b1
  BY <1>1 DEF SlowSums
<1>4. Grain \in Nat \ {0}
  BY WorkloadAssumption
<1> HIDE DEF S, a1, a2, a3, b1, b2, b3
<1>5. b1 * Grain <= b2 * Grain /\ b2 * Grain <= b3 * Grain
  BY <1>3, <1>4, ProductGrows
<1>6. (b1 + b3) * Grain <= (2 * b2) * Grain
  BY <1>3, <1>4, ProductGrows
<1>7. /\ b1 * Grain \in Nat /\ b2 * Grain \in Nat /\ b3 * Grain \in Nat
      /\ a1 * S \in Nat /\ a2 * S \in Nat /\ a3 * S \in Nat
      /\ (b1 + b3) * Grain = b1 * Grain + b3 * Grain /\ (2 * b2) * Grain = 2 * (b2 * Grain)
      /\ (a1 + a3) * S = a1 * S + a3 * S /\ (a2 + 1) * S = a2 * S + S
      /\ (2 * a2 + 2) * S = 2 * (a2 * S) + 2 * S
  BY <1>2, <1>3, <1>4
<1>8. a1 <= a2 /\ a2 <= a3
  <2>1. a1 * S <= b2 * Grain /\ a2 * S <= b3 * Grain
    BY <1>2, <1>5, <1>7
  <2> QED  BY <1>2, <2>1
<1>9. a1 + a3 < 2 * a2 + 2
  <2>1. (a1 + a3) * S < (2 * a2 + 2) * S
    BY <1>2, <1>3, <1>6, <1>7
  <2>2. 2 * a2 + 2 <= a1 + a3 => (2 * a2 + 2) * S <= (a1 + a3) * S
    BY <1>2, <1>3, ProductGrows
  <2>3. (a1 + a3) * S \in Nat /\ (2 * a2 + 2) * S \in Nat
    BY <1>2, <1>3
  <2> QED  BY <1>2, <2>1, <2>2, <2>3
<1>10. a1 <= a2 /\ a2 <= a3 /\ a3 - a2 <= a2 - a1 + 1
  BY <1>2, <1>8, <1>9
<1> QED  BY <1>10 DEF a1, a2, a3
\* The draws out of 0 .. Grain - 1 that key x gets.
Drawn(x) == {u \in 0 .. Grain - 1 : key_zipf(u) = x}

\* Any key but the last gets the draws up to its mark that the key before it does not.
LEMMA DrawnIs ==
  ASSUME cfg.keyspace \in uint64, cfg.zipf_s \in Exponents, cfg.zipf_s >= 0,
         NEW x \in 1 .. cfg.keyspace - 2, NEW u \in 0 .. Grain - 1
  PROVE  LET M(y) == Mark(Sums(cfg.keyspace, cfg.zipf_s), cfg.keyspace, y)
         IN  u \in Drawn(x) <=> u <= M(x) /\ (x = 1 \/ M(x - 1) < u)
<1> DEFINE n == cfg.keyspace
           acc == Sums(n, cfg.zipf_s)
           M(y) == Mark(acc, n, y)
           reached == {y \in 1 .. n : (u % Grain) * acc[n] <= acc[y] * Grain}
           z == IF reached = {} THEN n ELSE CHOOSE y \in reached : \A w \in reached : y <= w
<1>0. n \in Nat /\ x \in 1 .. n - 2
  BY CommandLineAssumption DEF uint64
<1>1. n \in Nat \ {0} /\ x \in 1 .. n - 2 /\ Grain \in Nat \ {0}
  <2>1. Grain \in Nat \ {0}
    BY WorkloadAssumption
  <2> QED  BY <1>0, <2>1
<1>2. zipf_sample(u) = z
  BY DEF zipf_sample
<1>3. SlowSums(acc, n)
  <2>1. n \in 1 .. Width - 1
    BY <1>0, CommandLineAssumption DEF uint64
  <2> QED  BY <2>1, SumsGrowSlowly
<1>4. u % Grain = u
  BY <1>1
<1> HIDE DEF acc
<1>5. reached = {y \in 1 .. n : u <= M(y)}
  <2>1. \A y \in 1 .. n : u * acc[n] <= acc[y] * Grain <=> u <= M(y)
    BY <1>1, <1>3, MarkIs
  <2> QED  BY <1>4, <2>1
<1>6. n \in reached
  <2>1. acc[n] \in Nat /\ n \in 1 .. n
    BY <1>1, <1>3 DEF SlowSums
  <2>2. u * acc[n] <= Grain * acc[n] /\ Grain * acc[n] = acc[n] * Grain
    BY <1>1, <2>1, ProductGrows
  <2> QED  BY <1>4, <2>1, <2>2
<1> HIDE DEF n, reached
<1>7. reached \subseteq 1 .. n
  BY <1>5
<1>8. z \in reached /\ \A w \in reached : z <= w
  <2>1. \E y \in reached : \A w \in reached : y <= w
    BY <1>6, <1>7, Least
  <2> QED  BY <1>6, <2>1, Zenon
<1> HIDE DEF z
<1>9. key_zipf(u) = x <=> z = x
  <2>1. key_zipf(u) = AtMost(AtLeast(z, 1), n - 1)
    BY <1>2 DEF key_zipf, Cut, n
  <2>2. z \in 1 .. n
    BY <1>7, <1>8
  <2> QED  BY <1>1, <2>1, <2>2 DEF AtMost, AtLeast
<1>10. \A y \in 1 .. n : M(y) \in Nat
  BY <1>1, <1>3, MarkIs
<1>11. \A y \in 1 .. n - 1 : M(y) <= M(y + 1)
  BY <1>1, <1>3, MarksGrowSlowly
<1>12. ASSUME x # 1, NEW y \in 1 .. x - 1 PROVE M(y) <= M(x - 1)
  <2> DEFINE T == {d \in Nat : d <= x - 2 => M((x - 1) - d) <= M(x - 1)}
  <2>1. 0 \in T /\ T \in SUBSET Nat
    BY <1>1, <1>10, <1>12
  <2>2. ASSUME NEW d \in T PROVE d + 1 \in T
    <3> SUFFICES ASSUME d + 1 <= x - 2 PROVE M((x - 1) - (d + 1)) <= M(x - 1)
      OBVIOUS
    <3>1. /\ (x - 1) - (d + 1) \in 1 .. n - 1 /\ ((x - 1) - (d + 1)) + 1 = (x - 1) - d
          /\ (x - 1) - d \in 1 .. n /\ x - 1 \in 1 .. n
      BY <1>1, <1>12
    <3>2. M((x - 1) - d) <= M(x - 1)
      OBVIOUS
    <3> DEFINE c == (x - 1) - (d + 1)
    <3>3. c \in 1 .. n - 1 /\ c + 1 = (x - 1) - d /\ c \in 1 .. n
      BY <1>1, <3>1
    <3> HIDE DEF M, c
    <3>4. M(c) <= M(c + 1)
      BY <1>11, <3>3
    <3>5. M(c + 1) <= M(x - 1)
      BY <3>2, <3>3
    <3>6. M(c) \in Nat /\ M(c + 1) \in Nat /\ M(x - 1) \in Nat
      BY <1>10, <3>1, <3>3
    <3>7. M(c) <= M(x - 1)
      BY <3>4, <3>5, <3>6
    <3> QED  BY <3>7 DEF c
  <2> HIDE DEF T
  <2>3. T = Nat
    BY <2>1, <2>2, Induction
  <2>4. (x - 1) - y \in T /\ (x - 1) - y <= x - 2 /\ (x - 1) - ((x - 1) - y) = y
    BY <1>1, <2>3
  <2> QED  BY <2>4 DEF T
<1> HIDE DEF M
<1>13. x \in 1 .. n /\ (x # 1 => x - 1 \in 1 .. n /\ x - 1 \in 1 .. x - 1)
  BY <1>1
<1>14. z = x => u <= M(x) /\ (x = 1 \/ M(x - 1) < u)
  <2> SUFFICES ASSUME z = x PROVE u <= M(x) /\ (x = 1 \/ M(x - 1) < u)
    OBVIOUS
  <2>1. u <= M(x)
    BY <1>5, <1>8
  <2>2. x # 1 => x - 1 \notin reached
    BY <1>1, <1>8, <1>13
  <2>3. x # 1 => ~(u <= M(x - 1)) /\ M(x - 1) \in Nat
    BY <1>5, <1>10, <1>13, <2>2
  <2> QED  BY <1>1, <2>1, <2>3
<1>15. u <= M(x) /\ (x = 1 \/ M(x - 1) < u) => z = x
  <2> SUFFICES ASSUME u <= M(x), x = 1 \/ M(x - 1) < u PROVE z = x
    OBVIOUS
  <2>1. x \in reached /\ z \in 1 .. n
    BY <1>5, <1>7, <1>8, <1>13
  <2>2. z <= x
    BY <1>8, <2>1
  <2>3. CASE x = 1
    BY <2>1, <2>2, <2>3
  <2>4. CASE M(x - 1) < u
    <3>1. \A y \in 1 .. x - 1 : x # 1 /\ M(y) <= M(x - 1)
      BY <1>1, <1>12
    <3>2. \A y \in 1 .. x - 1 : ~(u <= M(y))
      BY <1>1, <1>10, <1>13, <2>4, <3>1
    <3>3. z \notin 1 .. x - 1
      BY <1>5, <1>8, <3>2
    <3> QED  BY <1>1, <2>1, <2>2, <3>3
  <2> QED  BY <2>3, <2>4
<1> QED  BY <1>9, <1>14, <1>15 DEF Drawn, M, acc, n

LEMMA DrawsFall ==
  ASSUME cfg.keyspace \in uint64, cfg.zipf_s \in Exponents, cfg.zipf_s >= 0, NEW x \in 1 .. cfg.keyspace - 3
  PROVE  Cardinality(Drawn(x)) + 1 >= Cardinality(Drawn(x + 1))
<1> DEFINE n == cfg.keyspace
           acc == Sums(n, cfg.zipf_s)
           M(y) == Mark(acc, n, y)
           G == Grain
           m1 == M(x - 1)
           m2 == M(x)
           m3 == M(x + 1)
           D == Drawn(x)
           E == Drawn(x + 1)
<1>1. n \in Nat \ {0} /\ G \in Nat \ {0} /\ x \in 1 .. n - 1 /\ x \in 1 .. n - 2
  <2>1. n \in Nat
    BY CommandLineAssumption DEF uint64
  <2>2. G \in Nat \ {0}
    BY WorkloadAssumption
  <2> HIDE DEF G
  <2> QED  BY <2>1, <2>2
<1>2. SlowSums(acc, n)
  <2>1. n \in 1 .. Width - 1
    BY <1>1, CommandLineAssumption DEF uint64
  <2> QED  BY <2>1, SumsGrowSlowly
<1>3. m1 \in Nat /\ m2 \in Nat /\ m3 \in Nat
  BY <1>1, <1>2, MarkIs
<1>4. m1 <= m2 /\ m2 <= m3 /\ m3 - m2 <= m2 - m1 + 1
  BY <1>1, <1>2, MarksGrowSlowly
<1>5. \A u \in 0 .. G - 1 : u \in D <=> u <= m2 /\ (x = 1 \/ m1 < u)
  BY <1>1, DrawnIs
<1>6. \A u \in 0 .. G - 1 : u \in E <=> u <= m3 /\ m2 < u
  <2>1. x + 1 \in 1 .. n - 2 /\ (x + 1) - 1 = x /\ x + 1 # 1
    BY <1>1
  <2> QED  BY <2>1, DrawnIs
<1>7. D \subseteq 0 .. G - 1 /\ E \subseteq 0 .. G - 1
  BY DEF Drawn
<1> HIDE DEF D, E, m1, m2, m3, G
<1>8. IsFiniteSet(D) /\ IsFiniteSet(E)
  <2> DEFINE top == G - 1
  <2>1. top \in Int /\ D \subseteq 0 .. top /\ E \subseteq 0 .. top
    BY <1>1, <1>7
  <2> HIDE DEF top
  <2>2. IsFiniteSet(0 .. top)
    BY <2>1, FS_Interval
  <2> QED  BY <2>1, <2>2, FS_Subset
<1>9. Cardinality(D) \in Nat /\ Cardinality(E) \in Nat
  BY <1>8, FS_CardinalityType
<1>10. CASE m2 >= G - 1
  <2>1. E = {}
    BY <1>1, <1>3, <1>6, <1>7, <1>10
  <2> QED  BY <1>9, <2>1, FS_EmptySet DEF D, E
<1>11. CASE m2 < G - 1
  <2> DEFINE lo == m1 + 1
             mid == m2 + 1
  <2>1. lo .. m2 \subseteq D /\ E \subseteq mid .. m3
    BY <1>1, <1>3, <1>5, <1>6, <1>7, <1>11
  <2>0. lo \in Int /\ mid \in Int /\ lo = m1 + 1 /\ mid = m2 + 1
    BY <1>3
  <2> HIDE DEF lo, mid
  <2>2. Cardinality(lo .. m2) = IF lo > m2 THEN 0 ELSE m2 - lo + 1
    BY <1>3, <2>0, FS_Interval
  <2>3. /\ IsFiniteSet(mid .. m3)
        /\ Cardinality(mid .. m3) = IF mid > m3 THEN 0 ELSE m3 - mid + 1
    <3>1. m3 \in Int
      BY <1>3
    <3> QED  BY <2>0, <3>1, FS_Interval
  <2>4. Cardinality(lo .. m2) <= Cardinality(D)
    BY <1>8, <2>1, FS_Subset
  <2>5. m2 - m1 <= Cardinality(D)
    BY <1>3, <1>4, <2>0, <2>2, <2>4
  <2>6. Cardinality(E) <= Cardinality(mid .. m3)
    BY <2>1, <2>3, FS_Subset
  <2>7. Cardinality(E) <= m3 - m2
    BY <1>3, <1>4, <2>0, <2>3, <2>6
  <2> QED  BY <1>3, <1>4, <1>9, <2>5, <2>7 DEF D, E
<1> QED  BY <1>1, <1>3, <1>10, <1>11

-----------------------------------------------------------------------------
(* The theorems                                                            *)

\* Every variable keeps its type, and the limits of bench_main hold behind the
\* command line, whatever is on it.
THEOREM TypesAreKept == Spec => []TypeOK
<1>1. PInv /\ WInv => TypeOK
  <2> SUFFICES ASSUME PInv, WInv PROVE TypeOK
    OBVIOUS
  <2>1. DOMAIN cfg = DOMAIN Defaults
    BY DEF PInv, Typed, Defaults, Option, ValueOption, TextOption, IntOption, RealOption, UnsignedOption, Flag
  <2> QED  BY <2>1 DEF TypeOK, PInv, Typed, Limited, WInv, Counted, Stored, Checked
<1> QED  BY <1>1, ParsedInvariance, RunInvariance, PTL

\* Of a command line of options with their values each option has its last value,
\* for lines of any length and values that look like options.
THEOREM TheLastValueCounts == Spec => []LastValueCounts
<1>1. PInv /\ Taken => LastValueCounts
  <2> SUFFICES ASSUME PInv, Taken, pc = "args", a > Len(argv), Pairs, NEW o \in ValueOption
               PROVE  cfg[o] = IF Given(o) = {} THEN Defaults[o]
                               ELSE LET j == CHOOSE j \in Given(o) : \A i \in Given(o) : i <= j
                                    IN  ValueOf(o, argv[j + 1])
    BY DEF LastValueCounts
  <2>1. Given(o) \in SUBSET (0 .. Len(argv)) /\ Len(argv) \in Nat
    BY DEF Given, PInv
  <2>2. Before(o) = Given(o)
    BY <2>1 DEF Before, PInv
  <2>3. CASE Given(o) = {}
    BY <2>2, <2>3 DEF Taken
  <2>4. CASE Given(o) # {}
    <3> DEFINE j == CHOOSE j \in Given(o) : \A i \in Given(o) : i <= j
    <3>1. \E m \in Given(o) : \A i \in Given(o) : i <= m
      BY <2>1, <2>4, Greatest
    <3>2. j \in Given(o) /\ \A i \in Given(o) : i <= j
      BY <3>1, Zenon
    <3> HIDE DEF j
    <3>3. cfg[o] = ValueOf(o, argv[j + 1])
      BY <2>2, <3>2 DEF Taken
    <3> QED  BY <2>4, <3>3 DEF j
  <2> QED  BY <2>3, <2>4
<1> QED  BY <1>1, ParsedInvariance, TakenInvariance, PTL

\* The snapshot loop never waits for ever for its next row: 1000 and the range of a
\* DWORD are both even, INFINITE is not.
THEOREM RowsDoKeepComing == Spec => []RowsKeepComing
<1>1. PInv => RowsKeepComing
  <2> SUFFICES ASSUME PInv, cfg.snapshot_interval_sec > 0,
                      NEW ms \in IntervalMs(cfg.snapshot_interval_sec)
               PROVE  ms # INFINITE /\ (Fits(cfg.snapshot_interval_sec) => ms = cfg.snapshot_interval_sec * PerSecond)
    BY DEF RowsKeepComing
  <2> DEFINE sec == cfg.snapshot_interval_sec
             m == Milliseconds(sec)
  <2>1. sec \in Nat \ {0}
    BY DEF PInv, Typed, IntOption
  <2> HIDE DEF sec
  <2>2. m \in 0 .. DwordRange - 2
    BY <2>1, RemainderIsEven
  <2>3. PerSecond \in Nat \ {0} /\ PerSecond % 2 = 0 /\ DwordRange \in Nat \ {0} /\ DwordRange % 2 = 0
    BY CommandLineAssumption
  <2>4. PerSecond # INFINITE
    BY <2>3 DEF INFINITE
  <2>5. Fits(sec) => m = sec * PerSecond /\ m # 0
    <3> SUFFICES ASSUME Fits(sec) PROVE m = sec * PerSecond /\ m # 0
      OBVIOUS
    <3> DEFINE x == sec * PerSecond
    <3>1. x \in Nat \ {0}
      BY <2>1, <2>3
    <3>2. x < DwordRange
      BY <2>3, <3>1 DEF Fits
    <3> HIDE DEF x
    <3>3. x = DwordRange * 0 + x /\ x \in 0 .. DwordRange - 1
      BY <2>3, <3>1, <3>2
    <3>4. x % DwordRange = x
      BY <2>3, <3>1, <3>3, DivModIs
    <3> QED  BY <3>1, <3>4 DEF x, Milliseconds
  <2> HIDE DEF m
  <2>6. ms = (IF m = 0 THEN PerSecond ELSE m) \/ (~Fits(sec) /\ ms = m)
    BY DEF IntervalMs, sec, m
  <2>7. m # INFINITE
    BY <2>2, <2>3 DEF INFINITE
  <2>8. ms # INFINITE /\ (Fits(sec) => ms = sec * PerSecond)
    BY <2>4, <2>5, <2>6, <2>7
  <2> QED  BY <2>8 DEF sec
<1> QED  BY <1>1, ParsedInvariance, PTL

\* No put, get or del names the sentinels' key or one beyond the key space, for any
\* key space, any seed and any number that is drawn.
THEOREM KeysDoStayInRange == Spec => []KeysStayInRange
<1>1. WInv => KeysStayInRange
  BY DEF WInv, Counted, Stored, KeysStayInRange
<1> QED  BY <1>1, RunInvariance, PTL

\* With --zipf and any exponent of 0 or more no key but the last is drawn more often than the key
\* before it, but for the one draw in Grain that rounding may move.
THEOREM SmallKeysStayHot == Spec => []SmallKeysAreHot
<1>1. ASSUME PInv PROVE SmallKeysAreHot
  <2>1. cfg.keyspace \in uint64 /\ cfg.zipf_s \in Exponents
    BY <1>1 DEF PInv, Typed, UnsignedOption
  <2>2. cfg.keyspace \in Nat
    BY <2>1, CommandLineAssumption DEF uint64
  <2> DEFINE draws == [x \in 1 .. cfg.keyspace - 1 |-> Cardinality({u \in 0 .. Grain - 1 : key_zipf(u) = x})]
  <2>3. \A x \in 1 .. cfg.keyspace - 1 : draws[x] = Cardinality(Drawn(x))
    BY DEF Drawn
  <2> HIDE DEF draws
  <2>4. ASSUME cfg.zipf_s >= 0, NEW x \in 1 .. cfg.keyspace - 3
        PROVE  draws[x] + 1 >= draws[x + 1]
    <3>1. x \in 1 .. cfg.keyspace - 1 /\ x + 1 \in 1 .. cfg.keyspace - 1
      BY <2>2
    <3>2. Cardinality(Drawn(x)) + 1 >= Cardinality(Drawn(x + 1))
      BY <2>1, <2>4, DrawsFall
    <3> QED  BY <2>3, <3>1, <3>2
  <2> QED  BY <2>4 DEF SmallKeysAreHot, draws
<1> QED  BY <1>1, ParsedInvariance, PTL

\* val_check rejects the hits of the wrongget map, but for one key, and no others.
THEOREM OnlyWronggetFails == Spec => []HitsVerify
<1>1. PInv /\ WInv => HitsVerify
  BY DEF PInv, WInv, Checked, HitsVerify
<1> QED  BY <1>1, ParsedInvariance, RunInvariance, PTL

\* The percentile is a rank, of however many latencies.
THEOREM PercentileRanks == Spec => []P99IsRank
<1>1. Ranked => P99IsRank
  <2> SUFFICES ASSUME Ranked, lats # <<>> PROVE P99IsRank
    BY DEF P99IsRank
  <2>1. lats \in Seq(Nat)
    BY WorkloadAssumption DEF Ranked
  <2> QED  BY <2>1, PercentileIsRank DEF Ranked, P99IsRank
<1> QED  BY <1>1, RankedInvariance, PTL
=============================================================================
