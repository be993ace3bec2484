---------------------------- MODULE MCHarrisList ----------------------------
(* Constants for checking HarrisList with TLC.                             *)
EXTENDS HarrisMap, TLC

CONSTANTS w1, w2, t1, t2, t3

\* val_encode: one value per key, here a word of the key and a word of zeros.
BenchValue == [k \in Key |-> {[w \in Word |-> IF w = w1 THEN k ELSE 0]}]

\* A caller that puts two values under each key.
TwoValues == [k \in Key |-> {[w \in Word |-> k], [w \in Word |-> k + 10]}]

AnyCall == [t \in Thread |-> Operation \X Key]

\* One reader of the largest key, two threads that delete.
ReaderAndDeleters ==
  [t \in Thread |->
     CASE t = t1 -> {<<"get", 3>>}
       [] t = t2 -> {<<"del", 2>>, <<"del", 3>>}
       [] t = t3 -> {<<"del", 1>>}]

\* The list bench_main leaves when it seeds the map, in ascending order of the
\* keys and before it starts a thread: here with as many keys as there are nodes.
Seeded ==
  /\ allocated = Node
  /\ \E nth \in [Key -> Node] :
       /\ \A j, k \in Key : nth[j] = nth[k] => j = k
       /\ key  = [n \in Cell |-> IF n = Head THEN 0 ELSE CHOOSE k \in Key : nth[k] = n]
       /\ val  = [n \in Node |-> CHOOSE v \in ValueOf[CHOOSE k \in Key : nth[k] = n] : TRUE]
       /\ next = [n \in Cell |->
                    LET k == IF n = Head THEN 1 ELSE 1 + CHOOSE j \in Key : nth[j] = n
                    IN  IF k \in Key THEN Plain(nth[k]) ELSE NullRef]
  /\ pc   = [t \in Thread |-> "idle"]
  /\ kind = [t \in Thread |-> "none"]
  /\ arg  = [t \in Thread |-> AnyKey]
  /\ buf  = [t \in Thread |-> EmptyBuf]
  /\ todo = [t \in Thread |-> {}]
  /\ pred = [t \in Thread |-> Head]
  /\ curr = [t \in Thread |-> NullRef]
  /\ succ = [t \in Thread |-> NullRef]
  /\ new  = [t \in Thread |-> NULL]
  /\ ret  = [t \in Thread |-> 0]

SeededSpec == Seeded /\ [][Next]_vars

Symmetric == Permutations(Thread) \cup Permutations(Node)
NodeSymmetric == Permutations(Node)
=============================================================================
