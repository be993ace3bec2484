----------------------------- MODULE CommandLine -----------------------------
(***************************************************************************)
(* How bench_main reads its command line: the loop over the arguments, the *)
(* limits it puts on what it has read, and the choice of a map and of a    *)
(* mix of operations.                                                      *)
(*                                                                         *)
(* An argument is a token; the option --threads is the token "threads",    *)
(* and likewise the others.  Any token can also stand where a value is     *)
(* expected.  atoi, strtoull and atof make a number of every token, 0 of   *)
(* one that is none; a double is counted in units as small as wanted.      *)
(*                                                                         *)
(* A definition called a variant is a plausible mistake in the definition  *)
(* after it: the properties are tried on it.                               *)
(***************************************************************************)
EXTENDS Integers, Sequences, FiniteSets

CONSTANTS
  Lines,       \* the command lines to look at: sequences of tokens
  Number,      \* Number[tok]: what atoi makes of it
  Real,        \* Real[tok]: what atof makes of it, in units
  DefaultExponent, \* 1.0001, in the same units
  NoToken,     \* argv[argc], a null pointer
  Width,       \* the number of values of a uint64_t
  DwordRange,  \* the number of values of an int or a DWORD
  PerSecond,   \* 1000 milliseconds
  DefaultKeyspace, \* 1000000
  DefaultBuckets   \* 1024

ASSUME CommandLineAssumption ==
  /\ Lines \subseteq Seq(DOMAIN Number)
  /\ \A tok \in DOMAIN Number : {Number[tok], Real[tok]} \subseteq Int
  /\ DOMAIN Real = DOMAIN Number /\ DefaultExponent \in Int
  /\ NoToken \notin DOMAIN Number \cup {"snapshots.csv"}
  /\ {Width, DwordRange, PerSecond, DefaultKeyspace, DefaultBuckets} \subseteq Nat \ {0, 1, 2}
  /\ DefaultKeyspace < Width
  /\ PerSecond % 2 = 0 /\ DwordRange % 2 = 0

VARIABLES
  pc,
  argv, a,  \* the command line, and the loop's i
  cfg,      \* the locals that the options set
  rc        \* what bench_main returns

TextOption   == {"impl", "profile", "snapshot_file"}
IntOption    == {"threads", "seconds", "buckets", "use_zipf", "snapshot_interval_sec"}
RealOption   == {"zipf_s"}
UnsignedOption == {"keyspace", "seed"}
Flag         == {"csv_header", "snapshot_csv_header", "verify_selftest"}
ValueOption  == TextOption \cup IntOption \cup RealOption \cup UnsignedOption

Defaults ==
  [impl |-> "mutex", profile |-> "mixed", snapshot_file |-> NoToken,
   threads |-> 8, seconds |-> 5, buckets |-> DefaultBuckets, use_zipf |-> 0,
   zipf_s |-> DefaultExponent, snapshot_interval_sec |-> 0, keyspace |-> DefaultKeyspace, seed |-> 0,
   csv_header |-> 0, snapshot_csv_header |-> 0, verify_selftest |-> 0]

\* strtoull takes a sign, which wraps, and no more than a uint64_t holds, with
\* either sign.
Unsigned(x) == IF (IF x < 0 THEN -x ELSE x) >= Width THEN Width - 1 ELSE x % Width

ValueOf(option, tok) ==
  CASE option \in TextOption     -> tok
    [] option \in IntOption      -> Number[tok]
    [] option \in RealOption     -> Real[tok]
    [] option \in UnsignedOption -> Unsigned(Number[tok])

ParseInit ==
  /\ pc = "args"
  /\ argv \in Lines
  /\ a = 1
  /\ cfg = Defaults
  /\ rc = 0

Arg(j) == IF j <= Len(argv) THEN argv[j] ELSE NoToken

\* !strcmp(argv[i], option) && i + 1 < argc
IsOption == Arg(a) \in ValueOption /\ a + 1 <= Len(argv)

\* How far an option with its value takes the loop.  Variant: i is not moved past
\* the value.
NotPast(j) == j + 1
Past(j) == j + 2

TakeOption ==
  /\ pc = "args" /\ a <= Len(argv)
  /\ IsOption
  /\ cfg' = [cfg EXCEPT ![Arg(a)] = ValueOf(Arg(a), Arg(a + 1))]
  /\ a' = Past(a)
  /\ UNCHANGED <<pc, argv, rc>>

TakeFlag ==
  /\ pc = "args" /\ a <= Len(argv)
  /\ Arg(a) \in Flag
  /\ cfg' = [cfg EXCEPT ![Arg(a)] = 1]
  /\ a' = a + 1
  /\ UNCHANGED <<pc, argv, rc>>

Help ==
  /\ pc = "args" /\ a <= Len(argv)
  /\ Arg(a) = "help"
  /\ pc' = "exit"
  /\ UNCHANGED <<argv, a, cfg, rc>>

\* Anything else is passed over, an option without its value included.
Ignore ==
  /\ pc = "args" /\ a <= Len(argv)
  /\ ~IsOption /\ Arg(a) \notin Flag \cup {"help"}
  /\ a' = a + 1
  /\ UNCHANGED <<pc, argv, cfg, rc>>

AtLeast(x, lo) == IF x < lo THEN lo ELSE x

\* Variant: no limit.
Unlimited(x, hi) == x
AtMost(x, hi) == IF x > hi THEN hi ELSE x

\* The limits; the command line itself is not looked at again.
Limit ==
  /\ pc = "args" /\ a > Len(argv)
  /\ cfg' = [cfg EXCEPT
       !.threads  = AtMost(AtLeast(@, 1), 64),
       !.seconds  = AtLeast(@, 1),
       !.keyspace = AtLeast(@, 2),
       !.buckets  = AtLeast(@, 16),
       !.snapshot_interval_sec = AtLeast(@, 0),
       !.snapshot_file = IF cfg.snapshot_interval_sec > 0 /\ @ = NoToken THEN "snapshots.csv" ELSE @]
  /\ pc' = IF cfg.verify_selftest = 1 THEN "selftest" ELSE "select"
  /\ argv' = <<>> /\ a' = 1
  /\ UNCHANGED rc

\* vt_by_name
Known == {"mutex", "rwlock", "skiplock", "lfhash", "lfskip", "wrongget"}

\* profile_id: a name it does not know is 1, "mixed".
ProfileId(s) ==
  CASE s = "readheavy" -> 0 [] s = "mixed" -> 1 [] s = "writeheavy" -> 2 [] s = "churn" -> 3
    [] OTHER -> 1

\* An unknown implementation ends the program; vt->create may fail.
Select ==
  /\ pc = "select"
  /\ \/ cfg.impl \in Known /\ pc' = "seed" /\ UNCHANGED rc
     \/ pc' = "exit" /\ rc' = 1
  /\ UNCHANGED <<argv, a, cfg>>

Parse == TakeOption \/ TakeFlag \/ Help \/ Ignore \/ Limit \/ Select

-----------------------------------------------------------------------------
(* The interval between snapshots                                          *)

\* The product is an int, and one that does not fit wraps.  Variant: it saturates.
Saturated(sec) == AtMost(sec * PerSecond, DwordRange - 1)
Milliseconds(sec) == (sec * PerSecond) % DwordRange

Fits(sec) == sec * PerSecond < DwordRange \div 2

\* interval_ms: 0 becomes a second.  For the compiler a product of a positive int
\* that does not fit is undefined, so that it may leave out the test for 0.
IntervalMs(sec) ==
  LET ms == Milliseconds(sec)
  IN  {IF ms = 0 THEN PerSecond ELSE ms} \cup (IF Fits(sec) THEN {} ELSE {ms})

INFINITE == DwordRange - 1

-----------------------------------------------------------------------------
(* Properties                                                              *)

\* A command line on which every option is followed by its value.
Pairs == Len(argv) % 2 = 0 /\ \A j \in 1 .. Len(argv) : j % 2 = 1 => argv[j] \in ValueOption

Given(option) == {j \in 1 .. Len(argv) : j % 2 = 1 /\ argv[j] = option}

\* Of a command line of options with their values, whatever the values look like,
\* each option has its last value, and the others have their defaults.
LastValueCounts ==
  pc = "args" /\ a > Len(argv) /\ Pairs =>
    \A option \in ValueOption :
      cfg[option] =
        IF Given(option) = {} THEN Defaults[option]
        ELSE LET j == CHOOSE j \in Given(option) : \A i \in Given(option) : i <= j
             IN  ValueOf(option, argv[j + 1])

\* The snapshot loop never waits for ever for its next row, however the product of
\* interval and 1000 wraps; an interval that fits is waited for in full.
RowsKeepComing ==
  pc = "run" /\ cfg.snapshot_interval_sec > 0 =>
    LET sec == cfg.snapshot_interval_sec
    IN  \A ms \in IntervalMs(sec) : ms # INFINITE /\ (Fits(sec) => ms = sec * PerSecond)

=============================================================================
