----------------------------- MODULE HarrisMap -----------------------------
(***************************************************************************)
(* What HarrisList is to a single caller: the map of KVMap, except that a  *)
(* put that inserts a key loses every larger key of the bucket, because    *)
(* put_impl links the new node without its successor.                      *)
(***************************************************************************)
EXTENDS HarrisList

CONSTANT NoValue   \* no value: the key is not in the map, the call has none

ASSUME HarrisMapAssumption == \A k \in Key : NoValue \notin ValueOf[k]

\* What the list stores under k; a put that has begun to copy counts as done.
StoredUnder(k) ==
  IF \E n \in Live : key[n] = k
  THEN LET n == CHOOSE m \in Live : key[m] = k
           W == {t \in Thread : pc[t] = "write" /\ curr[t].ptr = n /\ todo[t] # Word}
       IN  IF W = {} THEN val[n] ELSE buf[CHOOSE t \in W : TRUE]
  ELSE NoValue

\* A put takes effect with its first word or its link, a del when it marks.
Effected(t) ==
  \/ pc[t] \in {"unlink", "done"}
  \/ pc[t] = "write" /\ todo[t] # Word

AnswerOf(t) ==
  [ret |-> IF pc[t] \in {"unlink", "write"} THEN 1 ELSE ret[t],
   val |-> IF kind[t] = "get" /\ ret[t] = 1 THEN buf[t] ELSE NoValue]

\* The keys an insertion of k loses.
Larger == [k \in Key |-> {j \in Key : j > k}]

Map == INSTANCE KVMap WITH
  Value  <- UNION {ValueOf[k] : k \in Key},
  Cut    <- Larger,
  Given  <- [v \in UNION {ValueOf[k] : k \in Key} |-> v],
  store  <- [k \in Key |-> StoredUnder(k)],
  status <- [t \in Thread |->
               IF pc[t] = "idle" THEN "idle" ELSE IF Effected(t) THEN "done" ELSE "called"],
  call   <- [t \in Thread |->
               IF kind[t] = "none" THEN [op |-> "none"]
               ELSE [op |-> kind[t], key |-> arg[t],
                     val |-> IF kind[t] = "put" THEN buf[t] ELSE NoValue]],
  answer <- [t \in Thread |->
               IF Effected(t) THEN AnswerOf(t) ELSE [ret |-> 0, val |-> NoValue]]

\* A single caller sees a map that loses the larger keys at every insertion, and
\* nothing else wrong with it: overwriting, get and del are as promised.
IsCuttingMap == Map!Spec

=============================================================================
