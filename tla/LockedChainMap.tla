--------------------------- MODULE LockedChainMap ---------------------------
(***************************************************************************)
(* LockedChain implements the map of KVMap: each operation takes effect    *)
(* while it has the lock.                                                  *)
(***************************************************************************)
EXTENDS LockedChain

CONSTANT NoValue  \* what the map has under a key that is not in it

ASSUME LockedChainMapAssumption == \A k \in Key : NoValue \notin ValueOf[k]

\* The puts that have begun to copy their value into node n.
Writers(n) == {t \in Thread : pc[t] = "write" /\ curr[t] = n /\ todo[t] # Word}

\* The value in node n.  The value a put is in the middle of copying counts as
\* copied: the put took effect with its first word.
ValueAt(n) == IF Writers(n) = {} THEN val[n] ELSE buf[CHOOSE t \in Writers(n) : TRUE]

\* What the chain stores under k.
StoredUnder(k) ==
  LET At == {n \in Chain : key[n] = k}
  IN  IF At = {} THEN NoValue ELSE ValueAt(CHOOSE n \in At : TRUE)

\* The operations that have taken effect: a put with its first word, a del
\* when it has cut its node off the chain, and all that have decided.
Effected(t) ==
  \/ pc[t] \in {"free", "release", "done"}
  \/ pc[t] = "write" /\ todo[t] # Word

\* The answer of a call that has taken effect.
AnswerOf(t) ==
  [ret |-> IF pc[t] \in {"free", "write"} THEN 1 ELSE ret[t],
   val |-> IF kind[t] = "get" /\ ret[t] = 1 THEN buf[t] ELSE NoValue]

AnyValue == UNION {ValueOf[k] : k \in Key}

Map(given) == INSTANCE KVMap WITH
  Value  <- AnyValue,
  Given  <- given,
  Cut    <- [k \in Key |-> {}],
  store  <- [k \in Key |-> StoredUnder(k)],
  status <- [t \in Thread |->
               IF pc[t] = "idle" THEN "idle" ELSE IF Effected(t) THEN "done" ELSE "called"],
  call   <- [t \in Thread |->
               IF kind[t] = "none" THEN [op |-> "none"]
               ELSE [op |-> kind[t], key |-> arg[t],
                     val |-> IF kind[t] = "put" THEN buf[t] ELSE NoValue]],
  answer <- [t \in Thread |->
               IF Effected(t) THEN AnswerOf(t) ELSE [ret |-> 0, val |-> NoValue]]

AsPut  == [v \in AnyValue |-> v]
Zeroed == [v \in AnyValue |-> [w \in Word |-> Zero]]

\* Whatever the interleaving, callers cannot tell the chain from a map whose
\* operations are atomic; the wrongget map is one, too, but for the zeros its gets
\* hand out.
IsMap ==
  /\ Map(AsPut)!Init
  /\ [][IF impl = "wrongget" THEN Map(Zeroed)!Next ELSE Map(AsPut)!Next]_(Map(AsPut)!vars)

=============================================================================
