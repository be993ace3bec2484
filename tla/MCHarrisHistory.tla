-------------------------- MODULE MCHarrisHistory --------------------------
(* Constants for checking HarrisHistory with TLC.                          *)
EXTENDS HarrisHistory, TLC

\* val_encode: one value per key.
BenchValue == [k \in Key |-> {[w \in Word |-> k]}]

AnyCall == [t \in Thread |-> Operation \X Key]

Symmetric == Permutations(Thread) \cup Permutations(Node)
=============================================================================
