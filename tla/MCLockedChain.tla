--------------------------- MODULE MCLockedChain ---------------------------
(* Constants for checking LockedChain and LockedChainMap with TLC.         *)
EXTENDS LockedChainMap

\* Two values under key 1, one under every other.
Values == [k \in Key |-> IF k = 1 THEN {[w \in Word |-> 1], [w \in Word |-> 11]}
                         ELSE {[w \in Word |-> k]}]
=============================================================================
