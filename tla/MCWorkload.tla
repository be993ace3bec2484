----------------------------- MODULE MCWorkload -----------------------------
(* Constants for checking Workload with TLC.                               *)
EXTENDS Workload, Bitwise, SequencesExt

OfBits(x, y) == x ^^ y

Numbers == [tok \in ValueOption \cup Flag \cup
                    {"help", "wrongget", "lfhash", "other", "readheavy", "churn",
                     "-70", "-1", "0", "0.5", "1", "1.2", "3", "6", "16", "70"} |->
  CASE tok = "-70" -> -70 [] tok = "-1" -> -1 [] tok \in {"1", "1.2"} -> 1 [] tok = "3" -> 3
    [] tok = "6" -> 6 [] tok = "16" -> 16 [] tok = "70" -> 70 [] OTHER -> 0]

\* A double in units of 1/10000.
Reals == [tok \in DOMAIN Numbers |->
  CASE tok = "0.5" -> 5000 [] tok = "1.2" -> 12000 [] OTHER -> Numbers[tok] * 10000]

\* 10000 * x^0.5, x^1.0001 and x^1.2, cut off, for the keys there are.
Root == <<10000, 14142, 17320, 20000, 22360, 24494, 26457, 28284, 30000, 31622, 33166, 34641,
          36055, 37416, 38729, 40000, 41231, 42426, 43588, 44721, 45825, 46904, 47958, 48989,
          50000, 50990, 51961, 52915, 53851, 54772, 55677>>
Default == <<10000, 20001, 30003, 40005, 50008, 60010, 70013, 80016, 90019, 100023, 110026, 120029,
             130033, 140036, 150040, 160044, 170048, 180052, 190055, 200059, 210063, 220068, 230072, 240076,
             250080, 260084, 270089, 280093, 290097, 300102, 310106>>
Docs == <<10000, 22973, 37371, 52780, 68986, 85858, 103304, 121257, 139666, 158489, 177693, 197250,
          217136, 237330, 257815, 278576, 299597, 320868, 342376, 364112, 386067, 408232, 430599, 453162,
          475913, 498847, 521959, 545242, 568692, 592305, 616075>>

\* No line asks for the others.
Powers(x, s) ==
  CASE s = -10000 -> 10000 \div x [] s = 0 -> 10000 [] s = 10000 -> 10000 * x
    [] s = 5000 -> Root[x] [] s = 10001 -> Default[x] [] s = 12000 -> Docs[x]
    [] OTHER -> IF x = 1 THEN 10000 ELSE 1000000

\* Every line of up to four of these tokens, in any order.
AnyLine == SeqOf({"impl", "keyspace", "seed", "verify_selftest", "help", "wrongget", "-1", "1"}, 4)

\* Small key spaces and a large one, seeded to the brim, the keys drawn in both ways.
Ways == {<<"use_zipf", "0", "zipf_s", "1">>, <<"use_zipf", "1">>} \cup
        {<<"use_zipf", "1", "zipf_s", s>> : s \in {"-1", "0", "0.5", "1", "1.2"}}

Draws ==
  {<<"keyspace", ks, "seed", sd, "impl", i>> \o w :
     ks \in {"0", "3", "6"}, sd \in {"-1", "3"}, i \in {"wrongget", "lfhash"}, w \in Ways} \cup
  {<<"keyspace", ks, "seed", sd, "impl", "wrongget">> \o w :
     ks \in {"-1", "-70", "70"}, sd \in {"-1", "70"}, w \in Ways}

\* The other numbers, at and beyond their limits.
Limits == {<<o, v, "profile", p, "snapshot_interval_sec", s>> :
             o \in {"threads", "seconds", "buckets"}, v \in {"-1", "70"},
             p \in {"other", "readheavy", "churn"}, s \in {"-1", "1", "3", "6", "16"}}

SomeLines == AnyLine \cup Draws \cup Limits

SomeLatencies == SeqOf(1 .. 3, 3)
=============================================================================
