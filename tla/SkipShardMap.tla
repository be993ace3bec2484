---------------------------- MODULE SkipShardMap ----------------------------
(***************************************************************************)
(* SkipShard implements the map of KVMap: a put of a new key and a del take *)
(* effect on the bottom level.                                             *)
(***************************************************************************)
EXTENDS SkipShard

\* What the shard stores under k.
StoredUnder(k) ==
  LET At == {n \in Chain(0) : key[n] = k}
  IN  IF At = {} THEN NoValue ELSE val[CHOOSE n \in At : TRUE]

\* A put takes effect with the splice of level 0, a del when its node is off it.
Effected(t) ==
  \/ pc[t] \in {"free", "leave", "done"}
  \/ pc[t] \in {"splice", "del"} /\ lv[t] > 0

AnswerOf(t) ==
  [ret |-> IF pc[t] \in {"free", "del"} THEN 1 ELSE ret[t],
   val |-> IF kind[t] = "get" /\ ret[t] = 1 THEN buf[t] ELSE NoValue]

Map == INSTANCE KVMap WITH
  Cut    <- [k \in Key |-> {}],
  Given  <- [v \in Value |-> v],
  store  <- [k \in Key |-> StoredUnder(k)],
  status <- [t \in Thread |->
               IF pc[t] = "idle" THEN "idle" ELSE IF Effected(t) THEN "done" ELSE "called"],
  call   <- [t \in Thread |->
               IF kind[t] = "none" THEN [op |-> "none"]
               ELSE [op |-> kind[t], key |-> arg[t],
                     val |-> IF kind[t] = "put" THEN buf[t] ELSE NoValue]],
  answer <- [t \in Thread |->
               IF Effected(t) THEN AnswerOf(t) ELSE [ret |-> 0, val |-> NoValue]]

\* Callers cannot tell the shard from a map whose operations are atomic.
IsMap == Map!Spec

=============================================================================
