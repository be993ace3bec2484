-------------------------- MODULE SkipShardProofs --------------------------
(***************************************************************************)
(* SkipShard for any number of threads, nodes, keys and levels: no loop of *)
(* the skip list leaves the arrays it indexes, uses a predecessor that the *)
(* search has not set, or goes over a node that is freed.                  *)
(*                                                                         *)
(* sl_del frees a node after it has taken it off each of its levels at the *)
(* node the search has left that level from.  That this node leads to it   *)
(* is the heart of the matter: on every level the nodes are in the order   *)
(* of their keys and none is skipped (AllLevels), so that the place where a   *)
(* search leaves a level is the place of the key (Left).                   *)
(*                                                                         *)
(* From Upwards and NoneSkipped alone it cannot be seen, without an        *)
(* induction over the nodes, that a level leads to all its nodes.  Whole   *)
(* says so: what goes in or comes out is one node, and the lemmas of       *)
(* SharedLemmas say what that does to a list.  With Whole the shard is a    *)
(* skip list (ShardIsSkipList), and level 0 is the map that callers see    *)
(* (SkipShardIsMap).                                                       *)
(***************************************************************************)
EXTENDS SkipShardMap, SharedLemmas

\* Abbreviations every proof may expand.
USE DEF Levels, CanEnter

\* The loop of random_level stops at the limit, and at any level before it.
LEMMA LevelsInReach == RandomLevel = 1 .. MaxHeight
<1>1. MaxHeight \in Nat \ {0}
  BY SkipShardAssumption
<1>2. ASSUME NEW h \in RandomLevel
      PROVE  h \in 1 .. MaxHeight
  <2>1. h \in 1 .. MaxHeight + 1 /\ \A lvl \in 1 .. h - 1 : lvl < MaxHeight
    BY DEF RandomLevel, Climbs
  <2>2. h = MaxHeight + 1 => MaxHeight \in 1 .. h - 1
    BY <1>1
  <2> QED  BY <1>1, <2>1, <2>2
<1>3. 1 .. MaxHeight \subseteq RandomLevel
  BY <1>1 DEF RandomLevel, Climbs
<1> QED  BY <1>2, <1>3

-----------------------------------------------------------------------------
(* The invariant                                                           *)

\* The program points between taking the lock and giving it back.
InLock == {"search", "get", "put", "alloc", "splice", "del", "free", "leave"}

\* What the program point of t says about its locals.
ControlAt(t) ==
  /\ t \in owner <=> pc[t] \in InLock
  /\ kind[t] = "none" <=> pc[t] = "idle"
  /\ pc[t] \in {"put", "alloc", "splice"} => kind[t] = "put"
  /\ pc[t] = "get" => kind[t] = "get"
  /\ pc[t] \in {"del", "free"} => kind[t] = "del"
  /\ pc[t] = "search" => x[t] # NULL
  /\ pc[t] \in {"get", "put", "del", "free"} => x[t] \in allocated
  /\ pc[t] \in {"get", "put", "del", "free"} => key[x[t]] = arg[t]
  /\ pc[t] = "del" => lv[t] < height[x[t]]
  /\ pc[t] = "splice" => /\ new[t] \in allocated
                         /\ lv[t] < height[new[t]]
                         /\ key[new[t]] = arg[t]

Control ==
  /\ \A t \in Thread : ControlAt(t)
  /\ \A t, u \in owner : t = u

\* Node n is not on level l, although it is high enough: put has not come to the
\* level yet, or del has left it behind.
Off(t, n, l) ==
  \/ pc[t] = "splice" /\ new[t] = n /\ l >= lv[t]
  \/ pc[t] = "del" /\ x[t] = n /\ l < lv[t]
  \/ pc[t] = "free" /\ x[t] = n

\* The nodes on level l.
On(l) ==
  {Head} \cup {n \in allocated : height[n] > l /\ \A t \in Thread : ~Off(t, n, l)}

\* The head is below every key, and the nodes have different ones.
Keys ==
  /\ height[Head] = MaxHeight
  /\ key[Head] = 0
  /\ \A n \in allocated : key[n] \in Key
  /\ \A m, n \in allocated : key[m] = key[n] => m = n

\* A level leads upwards from node to node of the level, and skips none.
Upwards(l) ==
  \A n \in On(l) : next[n][l] # NULL => next[n][l] \in On(l) /\ key[n] < key[next[n][l]]

NoneSkipped(l) ==
  \A m, n \in On(l) : key[m] < key[n] => next[m][l] # NULL /\ key[next[m][l]] <= key[n]

AllLevels == \A l \in Level : Upwards(l) /\ NoneSkipped(l)

\* The search of t has left level l at the place of its key.
Left(t, l) ==
  /\ pred[t][l] \in On(l)
  /\ key[pred[t][l]] < arg[t]
  /\ next[pred[t][l]][l] # NULL => key[next[pred[t][l]][l]] >= arg[t]

\* Where t is, and what its search has found.
SearchAt(t) ==
  /\ pc[t] = "search" => x[t] \in On(lv[t]) /\ key[x[t]] < arg[t]
  /\ pc[t] = "search" /\ kind[t] # "get" => \A l \in Level : l > lv[t] => Left(t, l)
  /\ pc[t] = "search" /\ kind[t] = "get" => lv[t] = 0
  /\ pc[t] = "alloc" => /\ \A l \in Level : Left(t, l)
                        /\ \A n \in allocated : key[n] # arg[t]
  /\ pc[t] \in {"splice", "del"} => \A l \in Level : l >= lv[t] => Left(t, l)

Search == \A t \in Thread : SearchAt(t)

\* Following level l from the head, one meets every node on it and no other.
Row(l) == [n \in Cell |-> next[n][l]]
Whole == \A l \in Level : Reach(Cell, Row(l), NULL, Head) = On(l)

\* The values in the nodes are those of puts; the node a put is splicing in has its
\* value, and from level 1 on the put is sure to return 1.
ValuesAt(t) ==
  /\ kind[t] = "put" => buf[t] \in Value
  /\ pc[t] = "splice" => val[new[t]] = buf[t]
  /\ pc[t] = "splice" /\ lv[t] > 0 => ret[t] = 1

Values ==
  /\ \A n \in allocated : val[n] \in Value
  /\ \A t \in Thread : ValuesAt(t)

IInv == TypeOK /\ Control /\ Keys /\ AllLevels /\ Search /\ Whole /\ Values

-----------------------------------------------------------------------------
(* What the invariant says of the one thread inside                        *)

\* What thread t can do.
Move(t) == Begin(t) \/ Enter(t) \/ Inside(t) \/ Return(t)

LEMMA Constants ==
  /\ Key \subseteq Nat \ {0} /\ AnyKey \in Key
  /\ Head \notin Node /\ NULL \notin Node /\ NULL # Head
  /\ MaxHeight \in Nat /\ MaxHeight > 1
  /\ Level = 0 .. MaxHeight - 1 /\ 0 \in Level /\ MaxHeight - 1 \in Level
  BY SkipShardAssumption DEF AnyKey, Level

\* Nobody else is inside.
LEMMA Alone ==
  ASSUME Control, NEW t \in Thread, pc[t] \in InLock, NEW u \in Thread, u # t
  PROVE  pc[u] \notin InLock
  BY DEF Control, ControlAt

\* So that the levels are those of its own point of view.
LEMMA OnIs ==
  ASSUME Control, NEW t \in Thread, pc[t] \in InLock, NEW l \in Level
  PROVE  On(l) = {Head} \cup {n \in allocated : height[n] > l /\ ~Off(t, n, l)}
<1>1. \A u \in Thread, n \in allocated : u # t => ~Off(u, n, l)
  BY Alone DEF Off, InLock
<1> QED  BY <1>1 DEF On

LEMMA OnIsCell ==
  ASSUME TypeOK, NEW l \in Level
  PROVE  On(l) \subseteq allocated \cup {Head} /\ On(l) \subseteq Cell
  BY DEF On, TypeOK, Cell

\* No key is the head's.
LEMMA NodeAbove ==
  ASSUME IInv, NEW l \in Level, NEW n \in On(l), next[n][l] # NULL
  PROVE  next[n][l] \in On(l) /\ next[n][l] \in allocated /\ key[n] < key[next[n][l]]
<1>1. next[n][l] \in On(l) /\ key[n] < key[next[n][l]]
  BY DEF IInv, AllLevels, Upwards
<1>2. n \in Cell
  BY OnIsCell DEF IInv
<1>3. next[n][l] # Head
  BY <1>1, <1>2 DEF IInv, Keys, TypeOK
<1> QED  BY <1>1, <1>3 DEF On

\* A search that leaves the bottom level at a place without its key proves that
\* nobody has the key; one that has found the node proves that every level it is
\* on leads to it from the place where the search has left that level.
LEMMA LeftLeads ==
  ASSUME IInv, NEW t \in Thread, NEW l \in Level, Left(t, l),
         NEW n \in On(l), key[n] = arg[t]
  PROVE  next[pred[t][l]][l] = n
<1> DEFINE p == pred[t][l]
           q == next[p][l]
<1>1. p \in On(l) /\ key[p] < key[n]
  BY DEF Left
<1>2. q # NULL /\ key[q] <= key[n]
  BY <1>1 DEF IInv, AllLevels, NoneSkipped
<1>3. key[q] >= key[n]
  BY <1>2 DEF Left
<1>4. q \in allocated /\ n \in allocated
  <2>1. key[n] # 0
    BY Constants DEF IInv, TypeOK
  <2>2. n # Head
    BY <2>1 DEF IInv, Keys
  <2> QED  BY <1>1, <1>2, <2>2, NodeAbove DEF On
<1>5. key[q] \in Nat /\ key[n] \in Nat
  BY <1>4 DEF IInv, TypeOK, Cell
<1> QED  BY <1>2, <1>3, <1>4, <1>5 DEF IInv, Keys

-----------------------------------------------------------------------------
(* Types and control                                                       *)

LEMMA TypeStep ==
  ASSUME IInv, NEW t \in Thread, Move(t)
  PROVE  TypeOK'
<1> USE Constants DEF Goto, Decide, heap, Cell, NoPred, NoNext
<1>i. TypeOK /\ ControlAt(t) /\ SearchAt(t)
  BY DEF IInv, Control, Search
<1>p. \A l \in Level : Left(t, l) => pred[t][l] \in Cell
  BY <1>i, OnIsCell DEF Left
<1>1. CASE Begin(t)
  BY <1>1, <1>i DEF Begin, Call, TypeOK
<1>2. CASE Enter(t)
  <2>1. Top(t) \in Level
    BY DEF Top, IInv, Keys
  <2> QED  BY <1>2, <1>i, <2>1 DEF Enter, TypeOK
<1>3. CASE Advance(t)
  BY <1>3, <1>i DEF Advance, TypeOK, ControlAt
<1>4. CASE Descend(t)
  <2>1. [pred[t] EXCEPT ![lv[t]] = x[t]] \in [Level -> Cell \cup {Junk}]
    BY <1>4, <1>i DEF Descend, TypeOK, ControlAt
  <2>2. lv[t] - 1 \in Level
    BY <1>4, <1>i DEF Descend, TypeOK
  <2> QED  BY <1>4, <1>i, <2>1, <2>2 DEF Descend, TypeOK
<1>5. CASE Bottom(t)
  <2>1. [pred[t] EXCEPT ![0] = x[t]] \in [Level -> Cell \cup {Junk}]
    BY <1>5, <1>i DEF Bottom, TypeOK, ControlAt
  <2>2. next[x[t]][0] \in Node \cup {NULL}
    BY <1>5, <1>i DEF Bottom, TypeOK, ControlAt
  <2>3. kind[t] \in {"put", "get", "del"}
    BY <1>5, <1>i DEF Bottom, TypeOK, ControlAt
  <2>4. /\ pc' \in [Thread -> {"idle", "enter", "search", "get", "put", "alloc", "splice",
                              "del", "free", "leave", "done"}]
        /\ ret' \in [Thread -> {0, 1}]
    <3>1. \/ \E l \in {kind[t], "alloc"} : pc' = [pc EXCEPT ![t] = l] /\ UNCHANGED ret
          \/ Decide(t, 0)
      BY <1>5, <1>i DEF Bottom
    <3>2. CASE Decide(t, 0)
      BY <1>i, <3>2 DEF TypeOK
    <3>3. ASSUME NEW l \in {kind[t], "alloc"}, pc' = [pc EXCEPT ![t] = l] /\ UNCHANGED ret
          PROVE  /\ pc' \in [Thread -> {"idle", "enter", "search", "get", "put", "alloc", "splice",
                                        "del", "free", "leave", "done"}]
                 /\ ret' \in [Thread -> {0, 1}]
      BY <1>i, <2>3, <3>3 DEF TypeOK
    <3> QED  BY <3>1, <3>2, <3>3
  <2>5. pred' \in [Thread -> [Level -> Cell \cup {Junk}]] /\ x' \in [Thread -> Cell \cup {NULL}]
    BY <1>5, <1>i, <2>1, <2>2 DEF Bottom, TypeOK
  <2> QED  BY <1>5, <1>i, <2>4, <2>5 DEF Bottom, TypeOK
<1>6. CASE Get(t)
  BY <1>6, <1>i DEF Get, TypeOK, ControlAt
<1>7. CASE Overwrite(t)
  BY <1>7, <1>i DEF Overwrite, TypeOK, ControlAt
<1>8. CASE Alloc(t)
  <2> PICK n \in Node \ allocated, h \in 1 .. MaxHeight :
         /\ allocated' = allocated \cup {n}
         /\ key'    = [key EXCEPT ![n] = arg[t]]
         /\ val'    = [val EXCEPT ![n] = buf[t]]
         /\ height' = [height EXCEPT ![n] = h]
         /\ next'   = [next EXCEPT ![n] = NoNext]
         /\ new'    = [new EXCEPT ![t] = n]
    BY <1>8, LevelsInReach DEF Alloc
  <2>1. allocated' \in SUBSET Node /\ key' \in [Cell -> Nat]
        /\ val' \in [Node -> Value \cup {NoValue}] /\ new' \in [Thread -> Node \cup {NULL}]
    BY <1>i DEF TypeOK
  <2>2. height' \in [Cell -> 1 .. MaxHeight]
    BY <1>i DEF TypeOK
  <2>3. NoNext \in [Level -> Node \cup {NULL}]
    OBVIOUS
  <2>4. next' \in [Cell -> [Level -> Node \cup {NULL}]]
    BY <2>3, <1>i DEF TypeOK
  <2> QED  BY <1>8, <1>i, <2>1, <2>2, <2>4 DEF Alloc, TypeOK
<1>9. CASE AllocFails(t)
  BY <1>9, <1>i DEF AllocFails, TypeOK
<1>10. CASE Splice(t)
  <2> DEFINE l == lv[t]
             p == pred[t][l]
             n == new[t]
  <2>1. l \in Level /\ p \in Cell /\ n \in Node
    BY <1>10, <1>i, <1>p DEF Splice, TypeOK, ControlAt, SearchAt
  <2>2. next' = [[next EXCEPT ![n][l] = next[p][l]] EXCEPT ![p][l] = n]
    BY <1>10 DEF Splice
  <2>3. [next EXCEPT ![n][l] = next[p][l]] \in [Cell -> [Level -> Node \cup {NULL}]]
    BY <2>1, <1>i DEF TypeOK
  <2>4. next' \in [Cell -> [Level -> Node \cup {NULL}]]
    BY <2>1, <2>2, <2>3
  <2>5. lv' \in [Thread -> Level]
    <3>1. height[n] \in 1 .. MaxHeight
      BY <2>1, <1>i DEF TypeOK
    <3>2. lv[t] + 1 < height[n] => lv[t] + 1 \in Level
      BY <2>1, <3>1
    <3>3. lv' = lv \/ (lv' = [lv EXCEPT ![t] = l + 1] /\ l + 1 < height[n])
      BY <1>10 DEF Splice, NextLevel
    <3> QED  BY <3>2, <3>3, <1>i DEF TypeOK
  <2>6. pc' = pc \/ pc' = [pc EXCEPT ![t] = "leave"]
    BY <1>10 DEF Splice, NextLevel
  <2> QED  BY <1>10, <1>i, <2>4, <2>5, <2>6 DEF Splice, TypeOK
<1>11. CASE Unsplice(t)
  <2> DEFINE l == lv[t]
             p == pred[t][l]
  <2>1. l \in Level /\ p \in Cell /\ x[t] \in Node
    BY <1>11, <1>i, <1>p DEF Unsplice, TypeOK, ControlAt, SearchAt
  <2>2. next' \in [Cell -> [Level -> Node \cup {NULL}]]
    BY <1>11, <2>1, <1>i DEF Unsplice, TypeOK
  <2>3. lv' \in [Thread -> Level]
    <3>1. height[x[t]] \in 1 .. MaxHeight
      BY <2>1, <1>i DEF TypeOK
    <3>2. lv[t] + 1 < height[x[t]] => lv[t] + 1 \in Level
      BY <2>1, <3>1
    <3>3. lv' = lv \/ (lv' = [lv EXCEPT ![t] = l + 1] /\ l + 1 < height[x[t]])
      BY <1>11 DEF Unsplice, NextLevel
    <3> QED  BY <3>2, <3>3, <1>i DEF TypeOK
  <2>4. pc' = pc \/ pc' = [pc EXCEPT ![t] = "free"]
    BY <1>11 DEF Unsplice, NextLevel
  <2> QED  BY <1>11, <1>i, <2>2, <2>3, <2>4 DEF Unsplice, TypeOK
<1>12. CASE Free(t)
  BY <1>12, <1>i DEF Free, TypeOK, ControlAt
<1>13. CASE Leave(t)
  BY <1>13, <1>i DEF Leave, TypeOK
<1>14. CASE Return(t)
  BY <1>14, <1>i DEF Return, TypeOK
<1> QED  BY <1>1, <1>2, <1>3, <1>4, <1>5, <1>6, <1>7, <1>8, <1>9, <1>10, <1>11, <1>12, <1>13, <1>14 DEF Move, Inside

\* The step of a thread does not touch what the others know of themselves.
LEMMA OthersStay ==
  ASSUME IInv, NEW t \in Thread, Move(t), NEW u \in Thread, u # t
  PROVE  /\ pc'[u] = pc[u] /\ kind'[u] = kind[u] /\ arg'[u] = arg[u] /\ lv'[u] = lv[u]
         /\ x'[u] = x[u] /\ pred'[u] = pred[u] /\ new'[u] = new[u]
         /\ u \in owner' <=> u \in owner
  BY DEF Move, Inside, Begin, Call, Enter, Advance, Descend, Bottom, Get, Overwrite, Alloc, AllocFails,
         Splice, Unsplice, Free, Leave, Return, NextLevel, Goto, Decide, IInv, TypeOK

\* The heap changes only in the hands of the thread inside.
LEMMA HeapIsMine ==
  ASSUME NEW t \in Thread, Move(t), ~(UNCHANGED <<allocated, key, height, next>>)
  PROVE  pc[t] \in {"alloc", "splice", "del", "free"}
  BY DEF Move, Inside, Begin, Call, Enter, Advance, Descend, Bottom, Get, Overwrite, Alloc, AllocFails,
         Splice, Unsplice, Free, Leave, Return, heap

\* The lock lets one thread in at a time, and each loop over the levels of a node
\* ends at its height.
LEMMA ControlStep ==
  ASSUME IInv, NEW t \in Thread, Move(t)
  PROVE  Control'
<1> USE DEF Goto, Decide, heap, ControlAt, InLock
<1>i. ControlAt(t) /\ SearchAt(t)
  BY DEF IInv, Control, Search
<1>t. /\ pc   \in [Thread -> {"idle", "enter", "search", "get", "put", "alloc", "splice",
                              "del", "free", "leave", "done"}]
      /\ kind \in [Thread -> {"none", "put", "get", "del"}]
      /\ owner \subseteq Thread /\ allocated \subseteq Node
      /\ x \in [Thread -> Cell \cup {NULL}] /\ new \in [Thread -> Node \cup {NULL}]
      /\ arg \in [Thread -> Key] /\ lv \in [Thread -> Level]
      /\ key \in [Cell -> Nat] /\ height \in [Cell -> 1 .. MaxHeight]
  BY DEF IInv, TypeOK
<1>1. ASSUME NEW u \in Thread, u # t PROVE ControlAt(u)'
  <2>1. ControlAt(u)
    BY DEF IInv, Control
  <2>2. CASE UNCHANGED <<allocated, key, height, next>>
    BY <2>1, <2>2, <1>1, OthersStay
  <2>3. CASE ~(UNCHANGED <<allocated, key, height, next>>)
    <3>1. pc[u] \notin InLock
      BY <2>3, <1>1, HeapIsMine, Alone DEF IInv
    <3> QED  BY <2>1, <3>1, <1>1, OthersStay
  <2> QED  BY <2>2, <2>3
<1>2. \A u, v \in owner' : u = v
  <2>1. CASE Enter(t)
    BY <2>1 DEF Enter, CanEnter
  <2>2. CASE ~Enter(t)
    <3>1. owner' \subseteq owner
      BY <2>2 DEF Move, Inside, Begin, Call, Advance, Descend, Bottom, Get, Overwrite, Alloc, AllocFails,
                  Splice, Unsplice, Free, Leave, Return
    <3> QED  BY <3>1 DEF IInv, Control
  <2> QED  BY <2>1, <2>2
<1>3. ControlAt(t)'
  <2> USE <1>i, <1>t
  <2>1. CASE Begin(t)
    BY <2>1 DEF Begin, Call
  <2>2. CASE Enter(t)
    BY <2>2, Constants DEF Enter
  <2>3. CASE Advance(t)
    BY <2>3 DEF Advance, Before
  <2>4. CASE Descend(t)
    BY <2>4 DEF Descend
  <2>5. CASE Bottom(t)
    <3> DEFINE n == next[x[t]][0]
    <3>1. x[t] \in On(0) /\ 0 \in Level
      BY <2>5, Constants DEF Bottom, SearchAt
    <3>2. n # NULL => n \in allocated
      BY <3>1, NodeAbove
    <3>3. x' = [x EXCEPT ![t] = n] /\ lv[t] = 0 /\ pc[t] = "search"
          /\ UNCHANGED <<owner, heap, kind, arg, lv, new>>
      BY <2>5 DEF Bottom
    <3>4. CASE Holds(n, arg[t])
      <4>1. pc' = [pc EXCEPT ![t] = kind[t]] /\ n \in allocated /\ key[n] = arg[t]
        BY <3>4, <3>2, <2>5 DEF Bottom, Holds
      <4>2. height[n] > 0
        BY <4>1, Constants DEF Cell
      <4>3. kind[t] \in {"put", "get", "del"}
        BY <3>3
      <4> QED  BY <3>3, <4>1, <4>2, <4>3
    <3>5. CASE ~Holds(n, arg[t])
      <4>1. pc'[t] = (IF kind[t] = "put" THEN "alloc" ELSE "leave")
        BY <3>5, <2>5 DEF Bottom
      <4> QED  BY <3>3, <4>1
    <3> QED  BY <3>4, <3>5
  <2>6. CASE Get(t)
    BY <2>6 DEF Get
  <2>7. CASE Overwrite(t)
    BY <2>7 DEF Overwrite
  <2>8. CASE Alloc(t)
    <3> PICK n \in Node \ allocated, h \in 1 .. MaxHeight :
           /\ allocated' = allocated \cup {n}
           /\ key'    = [key EXCEPT ![n] = arg[t]]
           /\ height' = [height EXCEPT ![n] = h]
           /\ new'    = [new EXCEPT ![t] = n]
      BY <2>8, LevelsInReach DEF Alloc
    <3>1. /\ new'[t] = n /\ n \in allocated' /\ key'[n] = arg[t] /\ height'[n] = h
          /\ lv'[t] = 0 /\ pc'[t] = "splice" /\ UNCHANGED <<owner, kind, arg, x>> /\ pc[t] = "alloc"
      BY <2>8 DEF Alloc, Cell
    <3> QED  BY <3>1, Constants
  <2>9. CASE AllocFails(t)
    BY <2>9 DEF AllocFails
  <2>10. CASE Splice(t)
    <3>1. \/ pc' = pc /\ lv'[t] = lv[t] + 1 /\ lv[t] + 1 < height[new[t]]
          \/ pc'[t] = "leave" /\ lv' = lv
      BY <2>10 DEF Splice, NextLevel
    <3> QED  BY <2>10, <3>1 DEF Splice
  <2>11. CASE Unsplice(t)
    <3>1. \/ pc' = pc /\ lv'[t] = lv[t] + 1 /\ lv[t] + 1 < height[x[t]]
          \/ pc'[t] = "free" /\ lv' = lv
      BY <2>11 DEF Unsplice, NextLevel
    <3> QED  BY <2>11, <3>1 DEF Unsplice
  <2>12. CASE Free(t)
    BY <2>12 DEF Free
  <2>13. CASE Leave(t)
    BY <2>13 DEF Leave
  <2>14. CASE Return(t)
    BY <2>14 DEF Return
  <2> QED  BY <2>1, <2>2, <2>3, <2>4, <2>5, <2>6, <2>7, <2>8, <2>9, <2>10, <2>11, <2>12, <2>13, <2>14 DEF Move, Inside
<1> QED  BY <1>1, <1>2, <1>3 DEF Control

\* A new node has a key that no node of the shard has.
LEMMA KeysStep ==
  ASSUME IInv, NEW t \in Thread, Move(t)
  PROVE  Keys'
<1> USE Constants DEF Keys, IInv, Cell
<1>1. CASE Alloc(t)
  <2> PICK n \in Node \ allocated, h \in 1 .. MaxHeight :
         /\ allocated' = allocated \cup {n}
         /\ key'    = [key EXCEPT ![n] = arg[t]]
         /\ height' = [height EXCEPT ![n] = h]
    BY <1>1, LevelsInReach DEF Alloc
  <2>1. \A m \in allocated : key[m] # arg[t]
    BY <1>1 DEF Search, SearchAt, Alloc
  <2> QED  BY <2>1 DEF TypeOK
<1>2. CASE Free(t)
  BY <1>2 DEF Free, TypeOK, Control, ControlAt
<1>3. CASE ~Alloc(t) /\ ~Free(t)
  <2>1. UNCHANGED <<allocated, key, height>>
    BY <1>3 DEF Move, Inside, Begin, Call, Enter, Advance, Descend, Bottom, Get, Overwrite, AllocFails,
                Splice, Unsplice, Leave, Return, heap
  <2> QED  BY <2>1
<1> QED  BY <1>1, <1>2, <1>3

-----------------------------------------------------------------------------
(* The levels                                                              *)

\* A step that neither splices a node into a level nor out of one leaves the
\* levels as they are: a new node is on none yet, a freed one on none any more.
LEMMA SameLevels ==
  ASSUME IInv, NEW t \in Thread, Move(t), ~Splice(t), ~Unsplice(t), NEW l \in Level
  PROVE  /\ On(l)' = On(l)
         /\ \A n \in On(l) : key'[n] = key[n] /\ next'[n] = next[n]
<1> USE DEF Goto, Decide, heap
<1>t. /\ allocated \subseteq Node /\ lv \in [Thread -> Level] /\ x \in [Thread -> Cell \cup {NULL}]
      /\ key \in [Cell -> Nat] /\ height \in [Cell -> 1 .. MaxHeight]
      /\ next \in [Cell -> [Level -> Node \cup {NULL}]]
      /\ pc \in [Thread -> {"idle", "enter", "search", "get", "put", "alloc", "splice",
                            "del", "free", "leave", "done"}]
      /\ new \in [Thread -> Node \cup {NULL}]
      /\ kind \in [Thread -> {"none", "put", "get", "del"}]
  BY DEF IInv, TypeOK
<1>u. \A u \in Thread, n \in Node : u # t => (Off(u, n, l)' <=> Off(u, n, l))
  BY OthersStay DEF Off
<1>1. CASE Alloc(t)
  <2> PICK n \in Node \ allocated, h \in 1 .. MaxHeight :
         /\ allocated' = allocated \cup {n}
         /\ key'    = [key EXCEPT ![n] = arg[t]]
         /\ height' = [height EXCEPT ![n] = h]
         /\ next'   = [next EXCEPT ![n] = NoNext]
         /\ new'    = [new EXCEPT ![t] = n]
    BY <1>1, LevelsInReach DEF Alloc
  <2>1. Off(t, n, l)'
    <3>1. pc'[t] = "splice" /\ new'[t] = n /\ lv'[t] = 0
      BY <1>1, <1>t DEF Alloc
    <3> QED  BY <3>1, Constants DEF Off
  <2>2. \A m \in allocated : ~Off(t, m, l) /\ ~Off(t, m, l)'
    <3>1. pc[t] = "alloc" /\ pc'[t] = "splice" /\ new'[t] = n
      BY <1>1, <1>t DEF Alloc
    <3> QED  BY <3>1 DEF Off
  <2>3. \A m \in allocated : height'[m] = height[m]
    BY <1>t DEF Cell
  <2>4. On(l)' = On(l)
    <3>1. \A m : m \in allocated' /\ height'[m] > l /\ (\A u \in Thread : ~Off(u, m, l)')
                 <=> m \in allocated /\ height[m] > l /\ \A u \in Thread : ~Off(u, m, l)
      BY <2>1, <2>2, <2>3, <1>t, <1>u
    <3> QED  BY <3>1 DEF On
  <2>5. n \notin On(l)
    BY <1>t, Constants DEF On
  <2>6. On(l) \subseteq Cell
    BY OnIsCell DEF IInv
  <2> QED  BY <2>4, <2>5, <2>6, <1>t
<1>2. CASE Free(t)
  <2>1. /\ pc[t] = "free" /\ pc'[t] = "leave" /\ x[t] \in allocated /\ allocated' = allocated \ {x[t]}
        /\ \A n \in Cell : n # x[t] => key'[n] = key[n] /\ next'[n] = next[n] /\ height'[n] = height[n]
    BY <1>2, <1>t DEF Free, IInv, Control, ControlAt, Cell
  <2>2. \A n \in Node : (Off(t, n, l) <=> n = x[t]) /\ ~Off(t, n, l)'
    BY <2>1 DEF Off
  <2>3. On(l)' = On(l)
    <3>1. \A m : m \in allocated' /\ height'[m] > l /\ (\A u \in Thread : ~Off(u, m, l)')
                 <=> m \in allocated /\ height[m] > l /\ \A u \in Thread : ~Off(u, m, l)
      BY <2>1, <2>2, <1>t, <1>u DEF Cell
    <3> QED  BY <3>1 DEF On
  <2>4. x[t] \notin On(l)
    BY <2>1, <2>2, <1>t, Constants DEF On
  <2>5. On(l) \subseteq Cell
    BY OnIsCell DEF IInv
  <2> QED  BY <2>1, <2>3, <2>4, <2>5
<1>3. CASE ~Alloc(t) /\ ~Free(t)
  <2>1. UNCHANGED <<allocated, key, height, next>>
    BY <1>3 DEF Move, Inside, Begin, Call, Enter, Advance, Descend, Bottom, Get, Overwrite, AllocFails,
                Leave, Return
  <2>2. \A n \in Node : ~Off(t, n, l) /\ ~Off(t, n, l)'
    <3>1. pc[t] \notin {"splice", "del", "free"}
      BY <1>3 DEF Move, Inside, Begin, Call, Enter, Advance, Descend, Bottom, Get, Overwrite, AllocFails,
                  Leave, Return
    <3>2. pc'[t] \notin {"splice", "free"} /\ (pc'[t] = "del" => lv'[t] = 0)
      BY <1>3, <1>t, Constants DEF Move, Inside, Begin, Call, Enter, Advance, Descend, Bottom, Get, Overwrite, AllocFails,
                  Leave, Return, IInv, Control, ControlAt
    <3> QED  BY <3>1, <3>2, Constants DEF Off
  <2>3. On(l)' = On(l)
    <3>1. \A m : m \in allocated' /\ height'[m] > l /\ (\A u \in Thread : ~Off(u, m, l)')
                 <=> m \in allocated /\ height[m] > l /\ \A u \in Thread : ~Off(u, m, l)
      BY <2>1, <2>2, <1>t, <1>u
    <3> QED  BY <3>1 DEF On
  <2> QED  BY <2>1, <2>3
<1> QED  BY <1>1, <1>2, <1>3

\* put splices its node into the level it has come to.
LEMMA SpliceLevels ==
  ASSUME IInv, NEW t \in Thread, Splice(t), NEW l \in Level
  PROVE  /\ On(l)' = IF l = lv[t] THEN On(l) \cup {new[t]} ELSE On(l)
         /\ new[t] \in Node /\ new[t] \notin On(lv[t]) /\ key[new[t]] = arg[t]
         /\ UNCHANGED <<allocated, key, height>>
<1> USE DEF Goto
<1>1. /\ pc[t] = "splice" /\ new' = new /\ UNCHANGED <<allocated, key, height>>
      /\ \/ pc'[t] = "splice" /\ lv'[t] = lv[t] + 1
         \/ pc'[t] = "leave" /\ lv[t] + 1 >= height[new[t]]
  <2>1. pc[t] = "splice" /\ new' = new /\ UNCHANGED <<allocated, key, height>>
    BY DEF Splice
  <2>2. lv[t] \in Nat /\ height[new[t]] \in Nat
    BY <2>1, Constants DEF IInv, TypeOK, Control, ControlAt, Cell
  <2>3. pc \in [Thread -> {"idle", "enter", "search", "get", "put", "alloc", "splice",
                           "del", "free", "leave", "done"}] /\ lv \in [Thread -> Level]
    BY DEF IInv, TypeOK
  <2>4. CASE lv[t] + 1 < height[new[t]]
    BY <2>1, <2>3, <2>4 DEF Splice, NextLevel
  <2>5. CASE ~(lv[t] + 1 < height[new[t]])
    BY <2>1, <2>2, <2>3, <2>5 DEF Splice, NextLevel
  <2> QED  BY <2>1, <2>4, <2>5
<1>2. new[t] \in allocated /\ lv[t] < height[new[t]] /\ lv[t] \in Level /\ new[t] \in Node
      /\ height \in [Cell -> 1 .. MaxHeight] /\ key[new[t]] = arg[t] /\ allocated \subseteq Node
  BY <1>1 DEF IInv, Control, ControlAt, TypeOK
<1>3. \A u \in Thread, n \in Node : u # t => ~Off(u, n, l) /\ ~Off(u, n, l)'
  <2>1. Move(t)
    BY DEF Move, Inside
  <2>2. \A u \in Thread : u # t => pc[u] \notin InLock /\ pc'[u] \notin InLock
    BY <1>1, <2>1, Alone, OthersStay DEF IInv, InLock
  <2> QED  BY <2>2 DEF Off, InLock
<1>4. \A n \in Node : Off(t, n, l) <=> n = new[t] /\ l >= lv[t]
  BY <1>1 DEF Off
<1>5. \A n \in Node : height[n] > l => (Off(t, n, l)' <=> n = new[t] /\ l >= lv[t] + 1)
  <2> TAKE n \in Node
  <2>1. height[n] \in Nat /\ l \in Nat /\ lv[t] \in Nat
    BY <1>2, Constants DEF Cell
  <2> QED  BY <1>1, <2>1 DEF Off
<1>6. \A n \in Node : n \in allocated /\ height[n] > l
                      => ((\A u \in Thread : ~Off(u, n, l)') <=>
                          (\A u \in Thread : ~Off(u, n, l)) \/ (n = new[t] /\ l = lv[t]))
  <2>1. l \in Nat /\ lv[t] \in Nat
    BY <1>2, Constants
  <2> QED  BY <1>3, <1>4, <1>5, <2>1
<1>7. On(l)' = IF l = lv[t] THEN On(l) \cup {new[t]} ELSE On(l)
  BY <1>1, <1>2, <1>6 DEF On
<1>8. new[t] \notin On(lv[t])
  <2>1. Off(t, new[t], lv[t])
    BY <1>1, <1>2, Constants DEF Off
  <2> QED  BY <2>1, <1>2, Constants DEF On
<1> QED  BY <1>1, <1>2, <1>7, <1>8

\* del takes its node off the level it has come to.
LEMMA UnspliceLevels ==
  ASSUME IInv, NEW t \in Thread, Unsplice(t), NEW l \in Level
  PROVE  /\ On(l)' = IF l = lv[t] THEN On(l) \ {x[t]} ELSE On(l)
         /\ x[t] \in Node /\ x[t] \in On(lv[t]) /\ key[x[t]] = arg[t]
         /\ UNCHANGED <<allocated, key, height>>
<1> USE DEF Goto
<1>1. /\ pc[t] = "del" /\ x' = x /\ UNCHANGED <<allocated, key, height>>
      /\ \/ pc'[t] = "del" /\ lv'[t] = lv[t] + 1
         \/ pc'[t] = "free" /\ lv[t] + 1 >= height[x[t]]
  <2>1. pc[t] = "del" /\ x' = x /\ UNCHANGED <<allocated, key, height>>
    BY DEF Unsplice
  <2>2. lv[t] \in Nat /\ height[x[t]] \in Nat
    BY <2>1, Constants DEF IInv, TypeOK, Control, ControlAt, Cell
  <2>3. pc \in [Thread -> {"idle", "enter", "search", "get", "put", "alloc", "splice",
                           "del", "free", "leave", "done"}] /\ lv \in [Thread -> Level]
    BY DEF IInv, TypeOK
  <2>4. CASE lv[t] + 1 < height[x[t]]
    BY <2>1, <2>3, <2>4 DEF Unsplice, NextLevel
  <2>5. CASE ~(lv[t] + 1 < height[x[t]])
    BY <2>1, <2>2, <2>3, <2>5 DEF Unsplice, NextLevel
  <2> QED  BY <2>1, <2>4, <2>5
<1>2. x[t] \in allocated /\ lv[t] < height[x[t]] /\ lv[t] \in Level /\ x[t] \in Node
      /\ height \in [Cell -> 1 .. MaxHeight] /\ key[x[t]] = arg[t] /\ allocated \subseteq Node
  BY <1>1 DEF IInv, Control, ControlAt, TypeOK
<1>3. \A u \in Thread, n \in Node : u # t => /\ ~Off(u, n, l) /\ ~Off(u, n, l)'
                                             /\ ~Off(u, n, lv[t])
  <2>1. Move(t)
    BY DEF Move, Inside
  <2>2. \A u \in Thread : u # t => pc[u] \notin InLock /\ pc'[u] \notin InLock
    BY <1>1, <2>1, Alone, OthersStay DEF IInv, InLock
  <2> QED  BY <2>2 DEF Off, InLock
<1>4. \A n \in Node : Off(t, n, l) <=> n = x[t] /\ l < lv[t]
  BY <1>1 DEF Off
<1>5. \A n \in Node : height[n] > l => (Off(t, n, l)' <=> n = x[t] /\ l < lv[t] + 1)
  <2> TAKE n \in Node
  <2>1. height[n] \in Nat /\ l \in Nat /\ lv[t] \in Nat
    BY <1>2, Constants DEF Cell
  <2> QED  BY <1>1, <2>1 DEF Off
<1>6. \A n \in Node : n \in allocated /\ height[n] > l
                      => ((\A u \in Thread : ~Off(u, n, l)') <=>
                          (\A u \in Thread : ~Off(u, n, l)) /\ ~(n = x[t] /\ l = lv[t]))
  <2>1. l \in Nat /\ lv[t] \in Nat
    BY <1>2, Constants
  <2> QED  BY <1>3, <1>4, <1>5, <2>1
<1>7. On(l)' = IF l = lv[t] THEN On(l) \ {x[t]} ELSE On(l)
  BY <1>1, <1>2, <1>6, Constants DEF On
<1>8. x[t] \in On(lv[t])
  <2>1. ~Off(t, x[t], lv[t])
    BY <1>1, <1>2, Constants DEF Off
  <2> QED  BY <2>1, <1>2, <1>3 DEF On
<1> QED  BY <1>1, <1>2, <1>7, <1>8

\* A level is in the order of its keys, and they are all different.
LEMMA KeysDiffer ==
  ASSUME IInv, NEW m \in allocated \cup {Head}, NEW n \in allocated \cup {Head}, key[m] = key[n]
  PROVE  m = n
  BY Constants DEF IInv, Keys

\* What a splice in or out writes: the next of p on level l, and that of n if n is
\* the node that goes in.
LEMMA SpliceNext ==
  ASSUME IInv, NEW t \in Thread, Splice(t)
  PROVE  /\ Left(t, lv[t]) /\ lv[t] \in Level
         /\ pred[t][lv[t]] # new[t]
         /\ next'[new[t]][lv[t]] = next[pred[t][lv[t]]][lv[t]]
         /\ next'[pred[t][lv[t]]][lv[t]] = new[t]
         /\ \A c \in Cell, l \in Level :
              c \notin {new[t], pred[t][lv[t]]} \/ l # lv[t] => next'[c][l] = next[c][l]
<1> DEFINE l0 == lv[t]
           n == new[t]
           p == pred[t][l0]
<1>1. pc[t] = "splice" /\ l0 \in Level /\ l0 >= lv[t]
  BY Constants DEF Splice, IInv, TypeOK
<1>2. Left(t, l0)
  BY <1>1 DEF IInv, Search, SearchAt
<1>3. p \in On(l0) /\ p \in Cell
  BY <1>1, <1>2, OnIsCell DEF Left, IInv
<1>4. n \in Node /\ n \notin On(l0)
  BY <1>1, SpliceLevels
<1>5. next \in [Cell -> [Level -> Node \cup {NULL}]]
  BY DEF IInv, TypeOK
<1>6. next' = [[next EXCEPT ![n][l0] = next[p][l0]] EXCEPT ![p][l0] = n]
  BY DEF Splice
<1>7. p # n /\ n \in Cell
  BY <1>3, <1>4 DEF Cell
<1> HIDE DEF l0, n, p
<1>8. /\ next'[n][l0] = next[p][l0] /\ next'[p][l0] = n
      /\ \A c \in Cell, l \in Level : c \notin {n, p} \/ l # l0 => next'[c][l] = next[c][l]
  BY <1>1, <1>3, <1>5, <1>6, <1>7
<1> QED  BY <1>1, <1>2, <1>7, <1>8 DEF l0, n, p

LEMMA UnspliceNext ==
  ASSUME IInv, NEW t \in Thread, Unsplice(t)
  PROVE  /\ Left(t, lv[t]) /\ lv[t] \in Level
         /\ next[pred[t][lv[t]]][lv[t]] = x[t]
         /\ next'[pred[t][lv[t]]][lv[t]] = next[x[t]][lv[t]]
         /\ \A c \in Cell, l \in Level :
              c # pred[t][lv[t]] \/ l # lv[t] => next'[c][l] = next[c][l]
<1> DEFINE l0 == lv[t]
           n == x[t]
           p == pred[t][l0]
<1>1. pc[t] = "del" /\ l0 \in Level /\ l0 >= lv[t]
  BY Constants DEF Unsplice, IInv, TypeOK
<1>2. Left(t, l0)
  BY <1>1 DEF IInv, Search, SearchAt
<1>3. p \in On(l0) /\ p \in Cell
  BY <1>1, <1>2, OnIsCell DEF Left, IInv
<1>4. n \in On(l0) /\ key[n] = arg[t]
  BY <1>1, UnspliceLevels
<1>5. next[p][l0] = n
  BY <1>1, <1>2, <1>4, LeftLeads
<1>6. next' = [next EXCEPT ![p][l0] = next[n][l0]] /\ next \in [Cell -> [Level -> Node \cup {NULL}]]
  BY DEF Unsplice, IInv, TypeOK
<1> HIDE DEF l0, n, p
<1>7. /\ next'[p][l0] = next[n][l0]
      /\ \A c \in Cell, l \in Level : c # p \/ l # l0 => next'[c][l] = next[c][l]
  BY <1>1, <1>3, <1>6
<1> QED  BY <1>1, <1>2, <1>5, <1>7 DEF l0, n, p

\* On every level the nodes stay in order, none skipped: a node goes in and comes
\* out between the same two nodes.
LEMMA LevelsStep ==
  ASSUME IInv, NEW t \in Thread, Move(t)
  PROVE  AllLevels'
<1> SUFFICES ASSUME NEW l \in Level PROVE Upwards(l)' /\ NoneSkipped(l)'
  <2>1. Level' = Level
    BY DEF Level
  <2> QED  BY <2>1 DEF AllLevels
<1>i. Upwards(l) /\ NoneSkipped(l)
  BY DEF IInv, AllLevels
<1>o. On(l) \subseteq allocated \cup {Head} /\ On(l) \subseteq Cell
  BY OnIsCell DEF IInv
<1>k. key \in [Cell -> Nat] /\ arg[t] \in Nat /\ allocated \subseteq Node
  BY Constants DEF IInv, TypeOK
<1>d. \A m, n \in allocated \cup {Head} : key[m] = key[n] => m = n
  BY KeysDiffer
<1>1. CASE ~Splice(t) /\ ~Unsplice(t)
  <2>1. On(l)' = On(l) /\ \A n \in On(l) : key'[n] = key[n] /\ next'[n] = next[n]
    BY <1>1, SameLevels
  <2> QED  BY <2>1, <1>i DEF Upwards, NoneSkipped
<1>2. CASE Splice(t)
  <2> DEFINE n == new[t]
             p == pred[t][l]
             q == next[p][l]
  <2>1. CASE l # lv[t]
    <3>1. On(l)' = On(l) /\ key' = key
      BY <1>2, <2>1, SpliceLevels
    <3>2. \A c \in On(l) : next'[c][l] = next[c][l]
      BY <1>2, <1>o, <2>1, SpliceNext
    <3> QED  BY <3>1, <3>2, <1>i DEF Upwards, NoneSkipped
  <2>2. CASE l = lv[t]
    <3>1. On(l)' = On(l) \cup {n} /\ n \notin On(l) /\ key[n] = arg[t] /\ key' = key /\ n \in Node
      BY <1>2, <2>2, SpliceLevels
    <3>2. /\ p # n /\ next'[n][l] = q /\ next'[p][l] = n
          /\ \A c \in On(l) \ {p} : next'[c][l] = next[c][l]
      <4>1. \A c \in On(l) : c # n
        BY <3>1
      <4> QED  BY <1>2, <2>2, <1>o, <4>1, SpliceNext
    <3>3. /\ p \in On(l) /\ key[p] < key[n]
          /\ q # NULL => key[q] >= key[n] /\ q \in On(l)
      BY <1>2, <2>2, <3>1, <1>i, SpliceNext DEF Left, Upwards
    <3>4. n \in allocated
      BY <1>2 DEF Splice, IInv, Control, ControlAt
    <3>5. q # NULL => key[q] > key[n]
      <4>1. q # NULL => key[q] # key[n]
        BY <1>o, <1>d, <3>1, <3>3, <3>4
      <4> QED  BY <4>1, <1>o, <1>k, <3>1, <3>3
    <3>6. Upwards(l)'
      BY <1>i, <3>1, <3>2, <3>3, <3>5 DEF Upwards
    <3>n. \A c \in On(l) \cup {n} : key[c] \in Nat
      BY <1>o, <1>k, <3>1
    <3>7. ASSUME NEW a \in On(l), NEW b \in On(l), key[a] < key[b]
          PROVE  next'[a][l] # NULL /\ key[next'[a][l]] <= key[b]
      <4>1. next[a][l] # NULL /\ key[next[a][l]] <= key[b]
        BY <1>i, <3>7 DEF NoneSkipped
      <4>2. CASE a # p
        BY <4>1, <4>2, <3>2
      <4>3. CASE a = p
        BY <4>1, <4>3, <3>1, <3>2, <3>3, <3>n, <1>k, Constants
      <4> QED  BY <4>2, <4>3
    <3>8. ASSUME NEW a \in On(l), key[a] < key[n]
          PROVE  next'[a][l] # NULL /\ key[next'[a][l]] <= key[n]
      <4>1. CASE a = p
        BY <4>1, <3>1, <3>2, <1>k, Constants
      <4>2. CASE a # p /\ key[a] < key[p]
        <5>1. next[a][l] # NULL /\ key[next[a][l]] <= key[p] /\ next[a][l] \in On(l)
          BY <4>2, <3>3, <1>i DEF NoneSkipped, Upwards
        <5> QED  BY <5>1, <4>2, <3>2, <3>3, <3>n
      <4>3. CASE a # p /\ key[p] < key[a]
        <5>1. q # NULL /\ key[q] <= key[a]
          BY <4>3, <3>3, <1>i DEF NoneSkipped
        <5> QED  BY <5>1, <3>3, <3>8, <3>n
      <4>4. a # p => key[a] # key[p]
        BY <1>o, <1>d, <3>3
      <4> QED  BY <4>1, <4>2, <4>3, <4>4, <3>3, <3>n
    <3>9. ASSUME NEW b \in On(l), key[n] < key[b]
          PROVE  next'[n][l] # NULL /\ key[next'[n][l]] <= key[b]
      <4>1. key[p] < key[b]
        BY <3>3, <3>9, <3>n
      <4> QED  BY <4>1, <3>2, <3>3, <1>i DEF NoneSkipped
    <3>10. ~(key[n] < key[n])
      BY <3>n
    <3>11. NoneSkipped(l)'
      BY <3>1, <3>7, <3>8, <3>9, <3>10 DEF NoneSkipped
    <3> QED  BY <3>6, <3>11
  <2> QED  BY <2>1, <2>2
<1>3. CASE Unsplice(t)
  <2> DEFINE n == x[t]
             p == pred[t][l]
  <2>1. CASE l # lv[t]
    <3>1. On(l)' = On(l) /\ key' = key
      BY <1>3, <2>1, UnspliceLevels
    <3>2. \A c \in On(l) : next'[c][l] = next[c][l]
      BY <1>3, <1>o, <2>1, UnspliceNext
    <3> QED  BY <3>1, <3>2, <1>i DEF Upwards, NoneSkipped
  <2>2. CASE l = lv[t]
    <3>1. On(l)' = On(l) \ {n} /\ n \in On(l) /\ key[n] = arg[t] /\ key' = key
      BY <1>3, <2>2, UnspliceLevels
    <3>2. /\ next[p][l] = n /\ next'[p][l] = next[n][l]
          /\ \A c \in On(l) \ {p} : next'[c][l] = next[c][l]
      BY <1>3, <2>2, <1>o, UnspliceNext
    <3>3. p \in On(l) /\ key[p] < key[n]
      BY <1>3, <2>2, <3>1, UnspliceNext DEF Left
    <3>n. \A c \in On(l) : key[c] \in Nat
      BY <1>o, <1>k
    <3>4. \A a \in On(l) : a # p => next[a][l] # n
      <4> SUFFICES ASSUME NEW a \in On(l), a # p, next[a][l] = n PROVE FALSE
        OBVIOUS
      <4>1. n # NULL /\ key[a] < key[n]
        BY <1>o, <3>1, <1>i, Constants DEF Upwards, Cell
      <4>2. CASE key[a] < key[p]
        <5>1. key[n] <= key[p]
          BY <4>2, <3>3, <1>i DEF NoneSkipped
        <5> QED  BY <5>1, <3>1, <3>3, <3>n
      <4>3. CASE key[p] < key[a]
        <5>1. key[n] <= key[a]
          BY <4>3, <3>2, <3>3, <1>i DEF NoneSkipped
        <5> QED  BY <5>1, <4>1, <3>1, <3>n
      <4>4. key[a] # key[p]
        BY <1>o, <1>d, <3>3
      <4> QED  BY <4>2, <4>3, <4>4, <3>3, <3>n
    <3>5. Upwards(l)'
      <4> SUFFICES ASSUME NEW a \in On(l), a # n, next'[a][l] # NULL
                   PROVE  next'[a][l] \in On(l) /\ next'[a][l] # n /\ key[a] < key[next'[a][l]]
        BY <3>1 DEF Upwards
      <4>1. CASE a # p
        BY <4>1, <3>2, <3>4, <1>i DEF Upwards
      <4>2. CASE a = p
        <5>1. next[n][l] \in On(l) /\ key[n] < key[next[n][l]]
          BY <4>2, <3>1, <3>2, <1>i DEF Upwards
        <5> QED  BY <5>1, <4>2, <3>1, <3>2, <3>3, <3>n
      <4> QED  BY <4>1, <4>2
    <3>6. NoneSkipped(l)'
      <4> SUFFICES ASSUME NEW a \in On(l), NEW b \in On(l), a # n, b # n, key[a] < key[b]
                   PROVE  next'[a][l] # NULL /\ key[next'[a][l]] <= key[b]
        BY <3>1 DEF NoneSkipped
      <4>1. CASE a # p
        BY <4>1, <3>2, <1>i DEF NoneSkipped
      <4>2. CASE a = p
        <5>1. key[n] <= key[b]
          BY <4>2, <3>2, <1>i DEF NoneSkipped
        <5>2. key[n] # key[b]
          BY <1>o, <1>d, <3>1
        <5>3. key[n] < key[b]
          BY <5>1, <5>2, <3>1, <3>n
        <5> QED  BY <5>3, <4>2, <3>1, <3>2, <1>i DEF NoneSkipped
      <4> QED  BY <4>1, <4>2
    <3> QED  BY <3>5, <3>6
  <2> QED  BY <2>1, <2>2
<1> QED  BY <1>1, <1>2, <1>3

-----------------------------------------------------------------------------
(* The search                                                              *)

\* Where a search has left a level stays the place of its key as long as nothing
\* is written to that level.
LEMMA LeftStays ==
  ASSUME IInv, NEW t \in Thread, NEW l \in Level, Left(t, l),
         On(l)' = On(l), pred'[t][l] = pred[t][l], arg'[t] = arg[t],
         \A n \in On(l) : key'[n] = key[n] /\ next'[n][l] = next[n][l]
  PROVE  Left(t, l)'
  BY DEF Left, IInv, AllLevels, Upwards

LEMMA SearchStep ==
  ASSUME IInv, NEW t \in Thread, Move(t)
  PROVE  Search'
<1> SUFFICES ASSUME NEW u \in Thread PROVE SearchAt(u)'
  BY DEF Search
<1> USE DEF Goto, Decide, heap
<1>l. Level' = Level
  BY DEF Level
<1>t. /\ pc \in [Thread -> {"idle", "enter", "search", "get", "put", "alloc", "splice",
                            "del", "free", "leave", "done"}]
      /\ kind \in [Thread -> {"none", "put", "get", "del"}]
      /\ x \in [Thread -> Cell \cup {NULL}] /\ lv \in [Thread -> Level]
      /\ arg \in [Thread -> Key] /\ pred \in [Thread -> [Level -> Cell \cup {Junk}]]
      /\ key \in [Cell -> Nat] /\ height \in [Cell -> 1 .. MaxHeight]
  BY DEF IInv, TypeOK
<1>i. SearchAt(u) /\ SearchAt(t) /\ ControlAt(t)
  BY DEF IInv, Search, Control
<1>1. CASE u # t
  <2>1. CASE pc[u] \notin InLock
    BY <2>1, <1>1, OthersStay DEF SearchAt, InLock
  <2>2. CASE pc[u] \in InLock
    <3>1. pc[t] \notin InLock /\ pc[u] # "idle"
      BY <1>1, <2>2, Alone DEF IInv, InLock
    <3>2. UNCHANGED <<allocated, key, height, next>> /\ ~Splice(t) /\ ~Unsplice(t)
      BY <3>1, HeapIsMine DEF InLock, Splice, Unsplice
    <3>3. \A l \in Level : On(l)' = On(l)
      BY <3>2, SameLevels
    <3>4. /\ pred'[u] = pred[u] /\ arg'[u] = arg[u] /\ pc'[u] = pc[u] /\ kind'[u] = kind[u]
          /\ lv'[u] = lv[u] /\ x'[u] = x[u]
      BY <1>1, OthersStay
    <3>5. \A l \in Level : Left(u, l) => Left(u, l)'
      BY <3>2, <3>3, <3>4, LeftStays
    <3> PICK l \in Level : l = lv[u]
      BY <1>t
    <3>6. On(lv[u])' = On(l)'
      BY <3>4 DEF On, Off
    <3>7. pc[u] = "search" => x'[u] \in On(lv[u])' /\ key'[x'[u]] < arg'[u]
      BY <1>i, <3>2, <3>3, <3>4, <3>6 DEF SearchAt
    <3> QED  BY <1>i, <1>l, <3>2, <3>4, <3>5, <3>7 DEF SearchAt
  <2> QED  BY <2>1, <2>2
<1>2. CASE u = t
  <2> SUFFICES SearchAt(t)'
    BY <1>2
  <2>1. CASE Begin(t) \/ Return(t) \/ Get(t) \/ Overwrite(t) \/ AllocFails(t) \/ Free(t) \/ Leave(t)
    <3>1. pc'[t] \in {"enter", "idle", "leave", "done"}
      BY <2>1, <1>t DEF Begin, Call, Return, Get, Overwrite, AllocFails, Free, Leave
    <3> QED  BY <3>1 DEF SearchAt
  <2>2. CASE Enter(t)
    <3>1. pc'[t] = "search" /\ kind' = kind /\ x'[t] = Head /\ lv'[t] = Top(t) /\ arg' = arg /\ key' = key
      BY <2>2, <1>t DEF Enter
    <3>2. x'[t] \in On(lv[t])' /\ key'[x'[t]] < arg'[t]
      <4>1. Head \in On(lv[t])'
        BY DEF On
      <4>2. key[Head] = 0 /\ arg[t] \in Nat /\ arg[t] # 0
        BY <1>t, Constants DEF IInv, Keys
      <4>3. key[Head] < arg[t]
        BY <4>2
      <4> QED  BY <3>1, <4>1, <4>3
    <3>3. kind[t] # "get" => lv'[t] = MaxHeight - 1
      BY <3>1 DEF Top, IInv, Keys
    <3>4. kind[t] = "get" => lv'[t] = 0
      BY <3>1 DEF Top
    <3>5. kind[t] # "get" => \A l \in Level : ~(l > lv'[t])
      BY <3>3, Constants
    <3> QED  BY <3>1, <3>2, <3>4, <3>5, <1>l DEF SearchAt
  <2>3. CASE Advance(t) \/ Descend(t) \/ Bottom(t)
    <3>1. pc[t] = "search" /\ ~Splice(t) /\ ~Unsplice(t) /\ UNCHANGED <<allocated, key, height, next, arg, kind>>
      BY <2>3 DEF Advance, Descend, Bottom, Splice, Unsplice
    <3>2. \A l \in Level : On(l)' = On(l)
      BY <3>1, SameLevels
    <3>3. \A l \in Level : pred'[t][l] = pred[t][l] /\ Left(t, l) => Left(t, l)'
      BY <3>1, <3>2, LeftStays
    <3> PICK l \in Level : l = lv[t]
      BY <1>t
    <3>4. x[t] \in On(l) /\ key[x[t]] < arg[t] /\ x[t] \in Cell
      BY <1>i, <3>1, OnIsCell DEF SearchAt, IInv
    <3>5. next[x[t]][l] # NULL => next[x[t]][l] \in On(l) /\ next[x[t]][l] \in Cell
      BY <3>4, OnIsCell DEF IInv, AllLevels, Upwards
    <3>6. CASE Advance(t)
      <4>1. /\ pc' = pc /\ lv' = lv /\ pred' = pred
            /\ x'[t] = next[x[t]][l] /\ x'[t] # NULL /\ key[x'[t]] < arg[t]
        BY <3>6, <1>t DEF Advance, Before
      <4>2. On(lv[t])' = On(l)'
        BY <4>1 DEF On, Off
      <4>3. x'[t] \in On(lv[t])' /\ key'[x'[t]] < arg'[t]
        BY <3>1, <3>2, <3>5, <4>1, <4>2
      <4> QED  BY <1>i, <1>l, <3>1, <3>3, <4>1, <4>3 DEF SearchAt
    \* What a level is left with.
    <3>7. ASSUME ~Before(x[t], l, arg[t]), pred' = [pred EXCEPT ![t][l] = x[t]]
          PROVE  /\ Left(t, l)'
                 /\ \A i \in Level : i # l => pred'[t][i] = pred[t][i]
      <4>1. pred'[t][l] = x[t] /\ \A i \in Level : i # l => pred'[t][i] = pred[t][i]
        BY <3>7, <1>t
      <4>2. next[x[t]][l] # NULL => key[next[x[t]][l]] >= arg[t]
        BY <3>5, <3>7, <1>t, Constants DEF Before
      <4> QED  BY <3>1, <3>2, <3>4, <4>1, <4>2 DEF Left
    <3>8. CASE Descend(t)
      <4>1. /\ pc'[t] = "search" /\ lv'[t] = l - 1 /\ x' = x /\ l > 0
            /\ ~Before(x[t], l, arg[t]) /\ pred' = [pred EXCEPT ![t][l] = x[t]]
        BY <3>8, <3>1, <1>t DEF Descend
      <4>2. kind[t] # "get"
        BY <1>i, <3>1, <4>1 DEF SearchAt
      <4>3. l - 1 \in Level
        BY <4>1, Constants
      <4>4. \A i \in Level : i > l - 1 => i = l \/ i > l
        BY Constants
      <4>5. \A i \in Level : i > l - 1 => Left(t, i)'
        <5>1. \A i \in Level : i > l => i # l
          BY Constants
        <5> QED  BY <1>i, <3>1, <3>3, <3>7, <4>1, <4>2, <4>4, <5>1 DEF SearchAt
      <4>6. x[t] \in On(l - 1)
        <5>1. \A n \in allocated, i \in Level : ~Off(t, n, i)
          BY <3>1 DEF Off
        <5>2. On(l) = {Head} \cup {n \in allocated : height[n] > l}
          BY <3>1, <5>1, OnIs DEF IInv, InLock
        <5>3. On(l - 1) = {Head} \cup {n \in allocated : height[n] > l - 1}
          BY <3>1, <4>3, <5>1, OnIs DEF IInv, InLock
        <5>4. \A n \in allocated : height[n] > l => height[n] > l - 1
          <6>1. \A n \in allocated : height[n] \in Nat
            BY <1>t, Constants DEF IInv, TypeOK, Cell
          <6> QED  BY <6>1, Constants
        <5> QED  BY <3>4, <5>2, <5>3, <5>4
      <4>7. On(lv[t])' = On(l - 1)'
        BY <4>1 DEF On, Off
      <4>8. x'[t] \in On(lv[t])' /\ key'[x'[t]] < arg'[t]
        BY <3>1, <3>2, <3>4, <4>1, <4>3, <4>6, <4>7
      <4> QED  BY <1>l, <3>1, <4>1, <4>2, <4>5, <4>8 DEF SearchAt
    <3>9. CASE Bottom(t)
      <4> DEFINE n == next[x[t]][0]
      <4>1. /\ l = 0 /\ ~Before(x[t], l, arg[t]) /\ pred' = [pred EXCEPT ![t][l] = x[t]] /\ lv' = lv
            /\ pc'[t] \in {"get", "put", "del"} \/ pc'[t] = "leave"
               \/ (pc'[t] = "alloc" /\ kind[t] = "put" /\ ~Holds(n, arg[t]))
            /\ pc'[t] = "del" => kind[t] = "del"
        BY <3>9, <1>t, <1>i DEF Bottom, ControlAt
      <4>2. kind[t] # "get" => \A i \in Level : Left(t, i)'
        <5>1. \A i \in Level : i # l => i > lv[t]
          BY <4>1, Constants
        <5> QED  BY <1>i, <3>1, <3>3, <3>7, <4>1, <5>1 DEF SearchAt
      <4>3. pc'[t] = "alloc" => \A m \in allocated : key[m] # arg[t]
        <5> SUFFICES ASSUME pc'[t] = "alloc", NEW m \in allocated, key[m] = arg[t] PROVE FALSE
          OBVIOUS
        <5>1. m \in On(0)
          <6>1. height[m] > 0 /\ ~Off(t, m, 0)
            BY <3>1, <1>t, Constants DEF IInv, TypeOK, Cell, Off
          <6> QED  BY <3>1, <6>1, OnIs, Constants DEF IInv, InLock
        <5>2. n # NULL /\ key[n] <= key[m]
          BY <3>4, <4>1, <5>1, Constants DEF IInv, AllLevels, NoneSkipped
        <5>3. n \in Cell /\ ~(key[n] < arg[t]) /\ key[n] # arg[t]
          BY <3>5, <4>1, <5>2 DEF Before, Holds
        <5>4. key[n] \in Nat /\ arg[t] \in Nat
          BY <5>3, <1>t, Constants
        <5> QED  BY <5>2, <5>3, <5>4
      <4> QED  BY <1>l, <3>1, <4>1, <4>2, <4>3 DEF SearchAt
    <3> QED  BY <2>3, <3>6, <3>8, <3>9
  <2>4. CASE Alloc(t)
    <3>1. pc[t] = "alloc" /\ pc'[t] = "splice" /\ arg' = arg /\ pred' = pred /\ ~Splice(t) /\ ~Unsplice(t)
      BY <2>4, <1>t DEF Alloc, Splice, Unsplice
    <3>2. \A l \in Level : Left(t, l)'
      BY <1>i, <3>1, SameLevels, LeftStays DEF SearchAt
    <3> QED  BY <1>l, <3>1, <3>2 DEF SearchAt
  <2>5. CASE Splice(t)
    <3>1. /\ pc[t] = "splice" /\ arg' = arg /\ pred' = pred /\ key' = key
          /\ \/ pc'[t] = "splice" /\ lv'[t] = lv[t] + 1
             \/ pc'[t] = "leave"
      BY <2>5, <1>t DEF Splice, NextLevel
    <3>2. \A l \in Level : l # lv[t] => /\ On(l)' = On(l)
                                        /\ \A n \in On(l) : next'[n][l] = next[n][l]
      BY <2>5, SpliceLevels, SpliceNext, OnIsCell DEF IInv
    <3>3. \A l \in Level : l >= lv[t] + 1 => l # lv[t] /\ l >= lv[t]
      BY <1>t, Constants
    <3>4. \A l \in Level : l >= lv[t] + 1 => Left(t, l)'
      BY <1>i, <3>1, <3>2, <3>3, LeftStays DEF SearchAt
    <3> QED  BY <1>l, <3>1, <3>4 DEF SearchAt
  <2>6. CASE Unsplice(t)
    <3>1. /\ pc[t] = "del" /\ arg' = arg /\ pred' = pred /\ key' = key
          /\ \/ pc'[t] = "del" /\ lv'[t] = lv[t] + 1
             \/ pc'[t] = "free"
      BY <2>6, <1>t DEF Unsplice, NextLevel
    <3>2. \A l \in Level : l # lv[t] => /\ On(l)' = On(l)
                                        /\ \A n \in On(l) : next'[n][l] = next[n][l]
      BY <2>6, UnspliceLevels, UnspliceNext, OnIsCell DEF IInv
    <3>3. \A l \in Level : l >= lv[t] + 1 => l # lv[t] /\ l >= lv[t]
      BY <1>t, Constants
    <3>4. \A l \in Level : l >= lv[t] + 1 => Left(t, l)'
      BY <1>i, <3>1, <3>2, <3>3, LeftStays DEF SearchAt
    <3> QED  BY <1>l, <3>1, <3>4 DEF SearchAt
  <2> QED  BY <2>1, <2>2, <2>3, <2>4, <2>5, <2>6 DEF Move, Inside
<1> QED  BY <1>1, <1>2

-----------------------------------------------------------------------------
(* What a level leads to, and the values                                   *)

\* A level is a list in the sense of SharedLemmas.
LEMMA RowIsList ==
  ASSUME NEW f \in [Cell -> [Level -> Node \cup {NULL}]], NEW l \in Level
  PROVE  IsList(Cell, [n \in Cell |-> f[n][l]], NULL, Head)
<1>1. NULL \notin Cell /\ Head \in Cell /\ Node \subseteq Cell
  BY Constants DEF Cell
<1>2. \A n \in Cell : f[n][l] \in Node \cup {NULL}
  OBVIOUS
<1> QED  BY <1>1, <1>2 DEF IsList

\* No level loses a node to another's splice.
LEMMA WholeStep ==
  ASSUME IInv, NEW t \in Thread, Move(t), TypeOK'
  PROVE  Whole'
<1> SUFFICES ASSUME NEW l \in Level PROVE Reach(Cell, Row(l)', NULL, Head) = On(l)'
  <2>1. Level' = Level /\ Cell' = Cell
    BY DEF Level, Cell
  <2> QED  BY <2>1 DEF Whole, Row
<1>w. Reach(Cell, Row(l), NULL, Head) = On(l) /\ On(l) \subseteq Cell
  BY OnIsCell DEF IInv, Whole
<1>l. IsList(Cell, Row(l), NULL, Head) /\ IsList(Cell, Row(l)', NULL, Head)
  <2>1. /\ next \in [Cell -> [Level -> Node \cup {NULL}]]
        /\ next' \in [Cell -> [Level -> Node \cup {NULL}]]
    BY DEF IInv, TypeOK, Cell, Level
  <2>2. IsList(Cell, Row(l), NULL, Head)
    BY <2>1, RowIsList DEF Row
  <2>3. IsList(Cell, Row(l)', NULL, Head)
    BY <2>1, RowIsList DEF Row, Cell
  <2> QED  BY <2>2, <2>3
<1>r. \A c \in Cell : Row(l)[c] = next[c][l] /\ Row(l)'[c] = next'[c][l]
  BY DEF Row, Cell
<1>1. ASSUME On(l)' = On(l), \A c \in On(l) : next'[c][l] = next[c][l]
      PROVE  Reach(Cell, Row(l)', NULL, Head) = On(l)'
  <2>1. \A c \in Reach(Cell, Row(l), NULL, Head) : Row(l)'[c] = Row(l)[c]
    BY <1>1, <1>w, <1>r
  <2> QED  BY <1>1, <1>l, <1>w, <2>1, ReachSame
<1>2. CASE ~Splice(t) /\ ~Unsplice(t)
  <2>1. On(l)' = On(l) /\ \A n \in On(l) : next'[n] = next[n]
    BY <1>2, SameLevels
  <2> QED  BY <2>1, <1>1
<1>3. CASE Splice(t)
  <2>1. CASE l # lv[t]
    BY <1>3, <2>1, <1>1, <1>w, SpliceLevels, SpliceNext
  <2>2. CASE l = lv[t]
    <3> DEFINE n == new[t]
               p == pred[t][l]
    <3>1. On(l)' = On(l) \cup {n} /\ n \in Node /\ n \notin On(l)
      BY <1>3, <2>2, SpliceLevels
    <3>2. /\ p \in On(l) /\ next'[n][l] = next[p][l] /\ next'[p][l] = n
          /\ \A c \in Cell : c \notin {n, p} => next'[c][l] = next[c][l]
      BY <1>3, <2>2, SpliceNext DEF Left
    <3>3. n \in Cell /\ p \in Cell
      BY <1>w, <3>1, <3>2 DEF Cell
    <3> HIDE DEF n, p
    <3>4. /\ p \in Reach(Cell, Row(l), NULL, Head) /\ n \notin Reach(Cell, Row(l), NULL, Head)
          /\ Row(l)'[p] = n /\ Row(l)'[n] = Row(l)[p]
          /\ \A c \in Reach(Cell, Row(l), NULL, Head) : c # p => Row(l)'[c] = Row(l)[c]
      BY <1>w, <1>r, <3>1, <3>2, <3>3
    <3>5. Reach(Cell, Row(l)', NULL, Head) = Reach(Cell, Row(l), NULL, Head) \cup {n}
      BY <1>l, <3>3, <3>4, ReachInsert
    <3> QED  BY <1>w, <3>1, <3>5
  <2> QED  BY <2>1, <2>2
<1>4. CASE Unsplice(t)
  <2>1. CASE l # lv[t]
    BY <1>4, <2>1, <1>1, <1>w, UnspliceLevels, UnspliceNext
  <2>2. CASE l = lv[t]
    <3> DEFINE n == x[t]
               p == pred[t][l]
    <3>1. On(l)' = On(l) \ {n} /\ n \in Node /\ n \in On(l) /\ n # Head /\ n # NULL
      BY <1>4, <2>2, UnspliceLevels, Constants
    <3>2. /\ p \in On(l) /\ next[p][l] = n /\ next'[p][l] = next[n][l]
          /\ \A c \in Cell : c # p => next'[c][l] = next[c][l]
      BY <1>4, <2>2, UnspliceNext DEF Left
    <3>u. /\ Upwards(l) /\ NoneSkipped(l) /\ \A c \in On(l) : key[c] \in Nat
      BY <1>w DEF IInv, AllLevels, TypeOK
    <3>o. On(l) \subseteq allocated \cup {Head}
      BY OnIsCell DEF IInv
    <3> HIDE DEF n, p
    <3>3. p # n
      BY <3>1, <3>2, <3>u DEF Upwards
    <3>4. ASSUME NEW c \in On(l), next[c][l] = n PROVE c = p
      <4>1. key[c] < key[n] /\ key[p] < key[n]
        BY <3>1, <3>2, <3>4, <3>u DEF Upwards
      <4>2. ~(key[c] < key[p]) /\ ~(key[p] < key[c])
        BY <3>1, <3>2, <3>4, <3>u, <4>1 DEF NoneSkipped
      <4>3. key[c] = key[p]
        BY <3>2, <3>u, <4>2
      <4> QED  BY <3>2, <3>o, <4>3, KeysDiffer
    <3>5. /\ p \in Reach(Cell, Row(l), NULL, Head) /\ Row(l)[p] = n /\ Row(l)'[p] = Row(l)[n]
          /\ \A c \in Reach(Cell, Row(l), NULL, Head) : Row(l)[c] = n => c = p
          /\ \A c \in Reach(Cell, Row(l), NULL, Head) : c # p => Row(l)'[c] = Row(l)[c]
      BY <1>w, <1>r, <3>1, <3>2, <3>4
    <3>6. Reach(Cell, Row(l)', NULL, Head) = Reach(Cell, Row(l), NULL, Head) \ {n}
      BY <1>l, <1>w, <3>1, <3>3, <3>5, ReachRemove
    <3> QED  BY <1>w, <3>1, <3>6
  <2> QED  BY <2>1, <2>2
<1> QED  BY <1>2, <1>3, <1>4

\* A step of t is no step of u.
LEMMA OthersKeep ==
  ASSUME IInv, NEW t \in Thread, Move(t), NEW u \in Thread, u # t
  PROVE  buf'[u] = buf[u] /\ ret'[u] = ret[u]
  BY DEF Move, Inside, Begin, Call, Enter, Advance, Descend, Bottom, Get, Overwrite, Alloc, AllocFails,
         Splice, Unsplice, Free, Leave, Return, Decide, IInv, TypeOK

\* Nothing but a put's value ever gets into a node.
LEMMA ValuesStep ==
  ASSUME IInv, NEW t \in Thread, Move(t)
  PROVE  Values'
<1> USE DEF Goto, Decide, heap
<1>t. /\ pc \in [Thread -> {"idle", "enter", "search", "get", "put", "alloc", "splice",
                            "del", "free", "leave", "done"}]
      /\ kind \in [Thread -> {"none", "put", "get", "del"}]
      /\ x \in [Thread -> Cell \cup {NULL}] /\ lv \in [Thread -> Level]
      /\ new \in [Thread -> Node \cup {NULL}] /\ ret \in [Thread -> {0, 1}]
      /\ val \in [Node -> Value \cup {NoValue}] /\ buf \in [Thread -> Value \cup {NoValue}]
      /\ allocated \subseteq Node
  BY DEF IInv, TypeOK
<1>i. ControlAt(t) /\ ValuesAt(t) /\ \A n \in allocated : val[n] \in Value
  BY DEF IInv, Control, Values
<1>1. \A n \in allocated' : val'[n] \in Value
  <2>1. CASE Overwrite(t)
    BY <2>1, <1>t, <1>i DEF Overwrite, ControlAt, ValuesAt
  <2>2. CASE Alloc(t)
    BY <2>2, <1>t, <1>i DEF Alloc, ControlAt, ValuesAt
  <2>3. CASE Free(t)
    BY <2>3, <1>t, <1>i DEF Free
  <2>4. CASE ~Overwrite(t) /\ ~Alloc(t) /\ ~Free(t)
    <3>1. allocated' = allocated /\ val' = val
      BY <2>4 DEF Move, Inside, Begin, Call, Enter, Advance, Descend, Bottom, Get, AllocFails,
                  Splice, Unsplice, Leave, Return
    <3> QED  BY <3>1, <1>i
  <2> QED  BY <2>1, <2>2, <2>3, <2>4
<1>2. ASSUME NEW u \in Thread, u # t PROVE ValuesAt(u)'
  <2>0. ValuesAt(u)
    BY DEF IInv, Values
  <2>1. /\ pc'[u] = pc[u] /\ kind'[u] = kind[u] /\ lv'[u] = lv[u] /\ new'[u] = new[u]
        /\ buf'[u] = buf[u] /\ ret'[u] = ret[u]
    BY <1>2, OthersStay, OthersKeep
  <2>2. CASE pc[u] # "splice"
    BY <2>0, <2>1, <2>2 DEF ValuesAt
  <2>3. CASE pc[u] = "splice"
    <3>1. pc[t] \notin InLock
      BY <1>2, <2>3, Alone DEF IInv, InLock
    <3>2. val' = val
      BY <3>1 DEF InLock, Move, Inside, Begin, Call, Enter, Advance, Descend, Bottom, Get, Overwrite,
                  Alloc, AllocFails, Splice, Unsplice, Free, Leave, Return
    <3> QED  BY <2>0, <2>1, <3>2 DEF ValuesAt
  <2> QED  BY <2>2, <2>3
<1>3. ValuesAt(t)'
  <2>1. CASE Begin(t)
    <3>1. (kind'[t] = "put" => buf'[t] \in Value) /\ pc'[t] = "enter"
      BY <2>1, <1>t DEF Begin, Call
    <3> QED  BY <3>1 DEF ValuesAt
  <2>2. CASE Alloc(t)
    <3>1. /\ UNCHANGED <<kind, buf>> /\ val'[new'[t]] = buf[t] /\ lv'[t] = 0
      BY <2>2, <1>t DEF Alloc
    <3> QED  BY <3>1, <1>i DEF ValuesAt
  <2>3. CASE Splice(t)
    <3>1. UNCHANGED <<kind, buf, val, new>> /\ ret'[t] = 1 /\ pc[t] = "splice"
      BY <2>3, <1>t DEF Splice
    <3> QED  BY <3>1, <1>i DEF ValuesAt
  <2>4. CASE Get(t) \/ Return(t)
    <3>1. pc'[t] \in {"leave", "idle"} /\ kind'[t] # "put"
      BY <2>4, <1>t, <1>i DEF Get, Return, ControlAt
    <3> QED  BY <3>1 DEF ValuesAt
  <2>5. CASE \/ Enter(t) \/ Advance(t) \/ Descend(t) \/ Bottom(t) \/ Overwrite(t) \/ AllocFails(t)
             \/ Unsplice(t) \/ Free(t) \/ Leave(t)
    <3>1. pc'[t] # "splice" /\ UNCHANGED <<kind, buf>>
      BY <2>5, <1>t, <1>i DEF Enter, Advance, Descend, Bottom, Overwrite, AllocFails, Unsplice, Free,
                              Leave, NextLevel, ControlAt
    <3> QED  BY <3>1, <1>i DEF ValuesAt
  <2> QED  BY <2>1, <2>2, <2>3, <2>4, <2>5 DEF Move, Inside
<1> QED  BY <1>1, <1>2, <1>3 DEF Values

-----------------------------------------------------------------------------
(* The map that callers see                                                *)

\* The nodes that have key k.
With(k) == {n \in On(0) \ {Head} : key[n] = k}

LEMMA BottomIsChain ==
  ASSUME Whole
  PROVE  Chain(0) = On(0) \ {Head} /\ On(0) \ {Head} \subseteq allocated
  BY Constants DEF Whole, Row, Chain, On

LEMMA StoredIs ==
  ASSUME Whole, Keys, NEW n \in On(0) \ {Head}
  PROVE  StoredUnder(key[n]) = val[n]
<1>1. {m \in Chain(0) : key[m] = key[n]} = {n}
  BY BottomIsChain DEF Keys
<1>2. (CHOOSE m \in {n} : TRUE) = n
  OBVIOUS
<1> QED  BY <1>1, <1>2 DEF StoredUnder

LEMMA StoredNothing ==
  ASSUME Whole, NEW k, \A n \in On(0) \ {Head} : key[n] # k
  PROVE  StoredUnder(k) = NoValue
<1>1. {m \in Chain(0) : key[m] = k} = {}
  BY BottomIsChain
<1> QED  BY <1>1 DEF StoredUnder

\* After a step.
LEMMA StoredAfter ==
  ASSUME Whole', Keys', NEW k
  PROVE  /\ {n \in Chain(0)' : key'[n] = k} = {n \in On(0)' \ {Head} : key'[n] = k}
         /\ \A m, n \in On(0)' \ {Head} : key'[m] = key'[n] => m = n
<1>1. Chain(0)' = On(0)' \ {Head}
  BY Constants DEF Whole, Row, Chain, Level
<1>2. On(0)' \ {Head} \subseteq allocated'
  BY DEF On
<1> QED  BY <1>1, <1>2 DEF Keys

LEMMA StoredThen ==
  ASSUME Whole', Keys', NEW n \in On(0)' \ {Head}, NEW k, key'[n] = k
  PROVE  StoredUnder(k)' = val'[n]
<1>1. {m \in Chain(0)' : key'[m] = k} = {n}
  BY StoredAfter
<1>2. (CHOOSE m \in {n} : TRUE) = n
  OBVIOUS
<1> QED  BY <1>1, <1>2 DEF StoredUnder

LEMMA NothingThen ==
  ASSUME Whole', Keys', NEW k, \A n \in On(0)' \ {Head} : key'[n] # k
  PROVE  StoredUnder(k)' = NoValue
<1>1. {m \in Chain(0)' : key'[m] = k} = {}
  BY StoredAfter
<1> QED  BY <1>1 DEF StoredUnder

LEMMA SameStored ==
  ASSUME Whole, Keys, Whole', Keys', NEW k, With(k)' = With(k), \A n \in With(k) : val'[n] = val[n]
  PROVE  StoredUnder(k)' = StoredUnder(k)
<1>1. CASE With(k) = {}
  <2>1. \A n \in On(0)' \ {Head} : key'[n] # k
    BY <1>1 DEF With
  <2> QED  BY <1>1, <2>1, StoredNothing, NothingThen DEF With
<1>2. CASE With(k) # {}
  <2> PICK n \in With(k) : TRUE
    BY <1>2
  <2>1. n \in On(0) \ {Head} /\ key[n] = k /\ n \in On(0)' \ {Head} /\ key'[n] = k
    BY DEF With
  <2> QED  BY <2>1, StoredIs, StoredThen
<1> QED  BY <1>1, <1>2

\* How the other variables of the map read for t.
Status(t) == IF pc[t] = "idle" THEN "idle" ELSE IF Effected(t) THEN "done" ELSE "called"
CallBy(t) ==
  IF kind[t] = "none" THEN [op |-> "none"]
  ELSE [op |-> kind[t], key |-> arg[t], val |-> IF kind[t] = "put" THEN buf[t] ELSE NoValue]
AnswerTo(t) == IF Effected(t) THEN AnswerOf(t) ELSE [ret |-> 0, val |-> NoValue]

SameStore == \A k \in Key : StoredUnder(k)' = StoredUnder(k)
SameView(t) == Status(t)' = Status(t) /\ CallBy(t)' = CallBy(t) /\ AnswerTo(t)' = AnswerTo(t)
OnlyBy(t) == \A u \in Thread : u # t => SameView(u)

\* A step callers cannot see.
LEMMA Silent ==
  ASSUME SameStore, \A t \in Thread : SameView(t)
  PROVE  UNCHANGED Map!vars
  BY DEF SameStore, SameView, Status, CallBy, AnswerTo, Map!vars

\* The step that gives t its answer a.
LEMMA Answering ==
  ASSUME NEW t \in Thread, OnlyBy(t), Status(t) = "called", Status(t)' = "done",
         CallBy(t)' = CallBy(t), NEW a, AnswerTo(t)' = a
  PROVE  Map!Answered(t, a)
  BY DEF OnlyBy, SameView, Status, CallBy, AnswerTo, Map!Answered

LEMMA Calling ==
  ASSUME NEW t \in Thread, OnlyBy(t), Status(t) = "idle", Status(t)' = "called",
         NEW c, CallBy(t)' = c, AnswerTo(t)' = AnswerTo(t), SameStore
  PROVE  Map!Call(t, c)
  BY DEF OnlyBy, SameView, Status, CallBy, AnswerTo, SameStore, Map!Call

LEMMA Returning ==
  ASSUME NEW t \in Thread, OnlyBy(t), Status(t) = "done", Status(t)' = "idle",
         CallBy(t)' = [op |-> "none"], AnswerTo(t)' = [ret |-> 0, val |-> NoValue], SameStore
  PROVE  Map!Return(t)
  BY DEF OnlyBy, SameView, Status, CallBy, AnswerTo, SameStore, Map!Return, Map!NoCall,
         Map!NoAnswer, Map!Answers

\* The two operations that look at the map.
LEMMA Getting ==
  ASSUME NEW t \in Thread, kind[t] = "get", arg[t] \in Key, SameStore, NEW a,
         StoredUnder(arg[t]) \in Value \cup {NoValue},
         a = IF StoredUnder(arg[t]) # NoValue THEN [ret |-> 1, val |-> StoredUnder(arg[t])]
             ELSE [ret |-> 0, val |-> NoValue],
         Map!Answered(t, a)
  PROVE  Map!Get(t)
<1> DEFINE c == [u \in Thread |->
                   IF kind[u] = "none" THEN [op |-> "none"]
                   ELSE [op |-> kind[u], key |-> arg[u],
                         val |-> IF kind[u] = "put" THEN buf[u] ELSE NoValue]]
           m == [k \in Key |-> StoredUnder(k)]
           s == [u \in Thread |-> Status(u)]
           r == [u \in Thread |-> AnswerTo(u)]
           g == [v \in Value |-> v]
<1>1. c[t] = [op |-> "get", key |-> arg[t], val |-> NoValue]
  OBVIOUS
<1>2. c[t] \in Map!GetCall
  BY <1>1 DEF Map!GetCall
<1>3. c[t].key = arg[t]
  BY <1>1
<1>4. m[c[t].key] = StoredUnder(arg[t])
  BY <1>3
<1>5. s[t] = "called" /\ s' = [s EXCEPT ![t] = "done"] /\ r' = [r EXCEPT ![t] = a] /\ c' = c
  BY DEF Map!Answered, Status, AnswerTo
<1>6. m' = m
  BY DEF SameStore
<1>7. StoredUnder(arg[t]) # NoValue => g[StoredUnder(arg[t])] = StoredUnder(arg[t])
  OBVIOUS
<1> HIDE DEF c, m, s, r, g
<1>8. a = IF m[c[t].key] # NoValue THEN [ret |-> 1, val |-> g[m[c[t].key]]]
          ELSE [ret |-> 0, val |-> NoValue]
  BY <1>4, <1>7
<1>9. r' = [r EXCEPT ![t] = IF m[c[t].key] # NoValue THEN [ret |-> 1, val |-> g[m[c[t].key]]]
                            ELSE [ret |-> 0, val |-> NoValue]]
  BY <1>5, <1>8
<1> QED
  BY <1>2, <1>5, <1>6, <1>9
  DEF Map!Get, Map!Answered, Map!Present, Map!Answers, Map!NoAnswer, c, m, s, r, g, Status, AnswerTo

LEMMA Deleting ==
  ASSUME NEW t \in Thread, kind[t] = "del", arg[t] \in Key, arg' = arg,
         StoredUnder(arg[t])' = NoValue,
         \A k \in Key \ {arg[t]} : StoredUnder(k)' = StoredUnder(k), NEW a,
         a = IF StoredUnder(arg[t]) # NoValue THEN [ret |-> 1, val |-> NoValue]
             ELSE [ret |-> 0, val |-> NoValue],
         Map!Answered(t, a)
  PROVE  Map!Del(t)
<1> DEFINE c == [u \in Thread |->
                   IF kind[u] = "none" THEN [op |-> "none"]
                   ELSE [op |-> kind[u], key |-> arg[u],
                         val |-> IF kind[u] = "put" THEN buf[u] ELSE NoValue]]
           m == [k \in Key |-> StoredUnder(k)]
           s == [u \in Thread |-> Status(u)]
           r == [u \in Thread |-> AnswerTo(u)]
<1>1. c[t] = [op |-> "del", key |-> arg[t], val |-> NoValue]
  OBVIOUS
<1>2. c[t] \in Map!DelCall
  BY <1>1 DEF Map!DelCall
<1>3. c[t].key = arg[t]
  BY <1>1
<1>4. m[c[t].key] = StoredUnder(arg[t])
  BY <1>3
<1>5. m' = [m EXCEPT ![arg[t]] = NoValue]
  OBVIOUS
<1>6. s[t] = "called" /\ s' = [s EXCEPT ![t] = "done"] /\ r' = [r EXCEPT ![t] = a] /\ c' = c
  BY DEF Map!Answered, Status, AnswerTo
<1> HIDE DEF c, m, s, r
<1>7. m' = [m EXCEPT ![c[t].key] = NoValue]
  BY <1>3, <1>5
<1>8. a = IF m[c[t].key] # NoValue THEN [ret |-> 1, val |-> NoValue] ELSE [ret |-> 0, val |-> NoValue]
  BY <1>4
<1>9. r' = [r EXCEPT ![t] = IF m[c[t].key] # NoValue THEN [ret |-> 1, val |-> NoValue]
                            ELSE [ret |-> 0, val |-> NoValue]]
  BY <1>6, <1>8
<1> QED
  BY <1>2, <1>6, <1>7, <1>9
  DEF Map!Del, Map!Answered, Map!Present, Map!Answers, Map!NoAnswer, c, m, s, r, Status, AnswerTo

\* What a thread shows of itself depends on nobody else's steps.
LEMMA OthersView ==
  ASSUME IInv, NEW t \in Thread, Move(t)
  PROVE  OnlyBy(t)
<1> SUFFICES ASSUME NEW u \in Thread, u # t PROVE SameView(u)
  BY DEF OnlyBy
<1>1. /\ pc'[u] = pc[u] /\ kind'[u] = kind[u] /\ arg'[u] = arg[u] /\ buf'[u] = buf[u]
      /\ lv'[u] = lv[u] /\ ret'[u] = ret[u]
  BY OthersStay, OthersKeep
<1> QED  BY <1>1 DEF SameView, Status, CallBy, AnswerTo, Effected, AnswerOf

\* Nothing but a put or the taking out of a node changes the map.
LEMMA StoreKept ==
  ASSUME IInv, IInv', NEW t \in Thread, Move(t), ~Overwrite(t), ~Splice(t), ~Unsplice(t)
  PROVE  SameStore
<1>1. On(0)' = On(0) /\ \A n \in On(0) : key'[n] = key[n]
  BY SameLevels, Constants
<1>2. \A n \in On(0) \ {Head} : val'[n] = val[n]
  <2>1. On(0) \ {Head} \subseteq allocated /\ allocated \subseteq Node
        /\ val \in [Node -> Value \cup {NoValue}]
    BY DEF On, IInv, TypeOK
  <2>2. CASE Alloc(t)
    BY <2>1, <2>2 DEF Alloc
  <2>3. CASE Free(t)
    <3>1. x[t] \notin On(0) \ {Head}
      BY <2>3 DEF Free, On, Off
    <3> QED  BY <2>1, <2>3, <3>1 DEF Free
  <2>4. CASE ~Alloc(t) /\ ~Free(t)
    BY <2>4 DEF Move, Inside, Begin, Call, Enter, Advance, Descend, Bottom, Get, AllocFails,
                Leave, Return, heap
  <2> QED  BY <2>2, <2>3, <2>4
<1> SUFFICES ASSUME NEW k \in Key PROVE StoredUnder(k)' = StoredUnder(k)
  BY DEF SameStore
<1>3. With(k)' = With(k) /\ \A n \in With(k) : val'[n] = val[n]
  BY <1>1, <1>2 DEF With
<1> QED  BY <1>3, SameStored DEF IInv

LEMMA OverwriteStores ==
  ASSUME IInv, IInv', NEW t \in Thread, Overwrite(t)
  PROVE  /\ StoredUnder(arg[t])' = buf[t]
         /\ \A k \in Key \ {arg[t]} : StoredUnder(k)' = StoredUnder(k)
<1> USE DEF IInv
<1> PICK n : n = x[t]
  OBVIOUS
<1>1. /\ pc[t] = "put" /\ pc'[t] = "leave" /\ Move(t) /\ arg' = arg
      /\ n \in allocated /\ n \in Node /\ n # Head /\ key[n] = arg[t]
  BY Constants DEF Overwrite, Move, Inside, Decide, Goto, TypeOK, Control, ControlAt
<1>2. On(0)' = On(0) /\ key' = key
  BY <1>1, SameLevels, Constants DEF Overwrite, Splice, Unsplice
<1>3. n \in On(0) \ {Head}
  <2>1. height[n] > 0 /\ ~Off(t, n, 0)
    BY <1>1, Constants DEF TypeOK, Cell, Off
  <2> QED  BY <1>1, <2>1, OnIs, Constants DEF InLock
<1>4. val'[n] = buf[t] /\ \A m \in Node \ {n} : val'[m] = val[m]
  BY <1>1 DEF Overwrite, TypeOK
<1>5. StoredUnder(arg[t])' = buf[t]
  BY <1>1, <1>2, <1>3, <1>4, StoredThen
<1>6. ASSUME NEW k \in Key \ {arg[t]} PROVE StoredUnder(k)' = StoredUnder(k)
  <2>1. With(k)' = With(k) /\ \A m \in With(k) : m # n /\ m \in Node
    BY <1>1, <1>2 DEF With, On, TypeOK
  <2> QED  BY <1>4, <2>1, SameStored
<1> QED  BY <1>5, <1>6

\* A new node is in the map as soon as level 0 leads to it.
LEMMA SpliceStores ==
  ASSUME IInv, IInv', NEW t \in Thread, Splice(t)
  PROVE  /\ lv[t] > 0 => SameStore
         /\ lv[t] = 0 => StoredUnder(arg[t])' = buf[t]
         /\ \A k \in Key \ {arg[t]} : StoredUnder(k)' = StoredUnder(k)
<1> USE DEF IInv
<1> PICK n : n = new[t]
  OBVIOUS
<1>1. /\ pc[t] = "splice" /\ val' = val /\ key' = key /\ arg' = arg /\ n \in Node /\ n # Head /\ key[n] = arg[t]
      /\ n \notin On(lv[t])
      /\ val[n] = buf[t] /\ On(0)' = IF 0 = lv[t] THEN On(0) \cup {n} ELSE On(0)
  BY SpliceLevels, Constants DEF Splice, Values, ValuesAt
<1>2. ASSUME lv[t] > 0, NEW k \in Key PROVE StoredUnder(k)' = StoredUnder(k)
  <2>1. With(k)' = With(k)
    BY <1>1, <1>2 DEF With
  <2> QED  BY <1>1, <2>1, SameStored
<1>3. lv[t] = 0 => StoredUnder(arg[t])' = buf[t]
  BY <1>1, StoredThen
<1>4. ASSUME NEW k \in Key \ {arg[t]} PROVE StoredUnder(k)' = StoredUnder(k)
  <2>1. With(k)' = With(k)
    BY <1>1 DEF With
  <2> QED  BY <1>1, <2>1, SameStored
<1> QED  BY <1>2, <1>3, <1>4 DEF SameStore

\* A node is out of the map as soon as level 0 does not lead to it.
LEMMA UnspliceStores ==
  ASSUME IInv, IInv', NEW t \in Thread, Unsplice(t)
  PROVE  /\ lv[t] > 0 => SameStore
         /\ lv[t] = 0 => StoredUnder(arg[t]) # NoValue /\ StoredUnder(arg[t])' = NoValue
         /\ \A k \in Key \ {arg[t]} : StoredUnder(k)' = StoredUnder(k)
<1> USE DEF IInv
<1> PICK n : n = x[t]
  OBVIOUS
<1>1. /\ pc[t] = "del" /\ val' = val /\ key' = key /\ arg' = arg /\ n \in Node /\ n # Head
      /\ key[n] = arg[t] /\ n \in allocated
      /\ n \in On(lv[t]) /\ On(0)' = IF 0 = lv[t] THEN On(0) \ {n} ELSE On(0)
  <2>1. pc[t] = "del" /\ val' = val /\ key' = key /\ arg' = arg /\ n \in allocated
    BY DEF Unsplice, Control, ControlAt
  <2> QED  BY <2>1, UnspliceLevels, Constants
<1>2. ASSUME lv[t] > 0, NEW k \in Key PROVE StoredUnder(k)' = StoredUnder(k)
  <2>1. With(k)' = With(k)
    BY <1>1, <1>2 DEF With
  <2> QED  BY <1>1, <2>1, SameStored
<1>3. ASSUME lv[t] = 0 PROVE StoredUnder(arg[t]) # NoValue /\ StoredUnder(arg[t])' = NoValue
  <2>1. n \in On(0) \ {Head}
    BY <1>1, <1>3
  <2>2. StoredUnder(arg[t]) = val[n] /\ val[n] \in Value
    BY <1>1, <2>1, StoredIs DEF Values
  <2>3. \A m \in On(0)' \ {Head} : key'[m] # arg[t]
    BY <1>1, <1>3, <2>1 DEF Keys, On
  <2>4. StoredUnder(arg[t])' = NoValue
    BY <1>1, <2>3, NothingThen
  <2> QED  BY <2>2, <2>4, SkipShardAssumption
<1>4. ASSUME NEW k \in Key \ {arg[t]} PROVE StoredUnder(k)' = StoredUnder(k)
  <2>1. With(k)' = With(k)
    BY <1>1 DEF With
  <2> QED  BY <1>1, <2>1, SameStored
<1> QED  BY <1>2, <1>3, <1>4 DEF SameStore

\* A search that comes down without the key has proved that nobody has it.
LEMMA BottomMisses ==
  ASSUME IInv, NEW t \in Thread, Bottom(t), ~Holds(next[x[t]][0], arg[t])
  PROVE  StoredUnder(arg[t]) = NoValue
<1> DEFINE n == next[x[t]][0]
<1>1. pc[t] = "search" /\ lv[t] = 0 /\ ~Before(x[t], 0, arg[t]) /\ arg[t] \in Nat
  BY Constants DEF Bottom, IInv, TypeOK
<1>2. x[t] \in On(0) /\ key[x[t]] < arg[t] /\ 0 \in Level
  BY <1>1, Constants DEF IInv, Search, SearchAt
<1>3. ASSUME NEW m \in On(0) \ {Head}, key[m] = arg[t] PROVE FALSE
  <2>1. n # NULL /\ key[n] <= key[m]
    BY <1>2, <1>3 DEF IInv, AllLevels, NoneSkipped
  <2>2. ~(key[n] < arg[t]) /\ key[n] # arg[t]
    BY <1>1, <2>1 DEF Before, Holds
  <2>3. n \in On(0)
    BY <1>2, <2>1 DEF IInv, AllLevels, Upwards
  <2>4. key[n] \in Nat
    BY <1>2, <2>3, OnIsCell DEF IInv, TypeOK
  <2> QED  BY <1>1, <1>3, <2>1, <2>2, <2>4
<1> QED  BY <1>3, StoredNothing DEF IInv

\* Every step of a thread is one of KVMap, or callers cannot see it.
LEMMA MapStep ==
  ASSUME IInv, IInv', NEW t \in Thread, Move(t)
  PROVE  Map!Next \/ UNCHANGED Map!vars
<1> USE DEF Goto, Decide, heap
<1>o. OnlyBy(t)
  BY OthersView
<1>c. ControlAt(t) /\ ValuesAt(t)
  BY DEF IInv, Control, Values
<1>t. /\ pc \in [Thread -> {"idle", "enter", "search", "get", "put", "alloc", "splice",
                            "del", "free", "leave", "done"}]
      /\ kind \in [Thread -> {"none", "put", "get", "del"}]
      /\ arg \in [Thread -> Key] /\ lv \in [Thread -> Level] /\ lv[t] \in Nat
      /\ ret \in [Thread -> {0, 1}] /\ buf \in [Thread -> Value \cup {NoValue}]
  BY Constants DEF IInv, TypeOK
<1>s. ASSUME SameStore, SameView(t)
      PROVE  UNCHANGED Map!vars
  BY <1>s, <1>o, Silent DEF OnlyBy
<1>1. CASE Begin(t)
  <2> PICK op \in {"put", "get", "del"}, k \in Key, v \in Value \cup {NoValue} : Call(t, op, k, v)
    BY <1>1 DEF Begin
  <2> DEFINE c == [op |-> op, key |-> k, val |-> IF op = "put" THEN v ELSE NoValue]
  <2>1. /\ pc[t] = "idle" /\ pc'[t] = "enter" /\ kind'[t] = op /\ arg'[t] = k /\ buf'[t] = v
        /\ op = "put" => v \in Value
    BY <1>t DEF Call
  <2>2. SameStore
    BY <1>1, StoreKept DEF Begin, Call, Overwrite, Splice, Unsplice
  <2>3. /\ Status(t) = "idle" /\ Status(t)' = "called" /\ CallBy(t)' = c
        /\ AnswerTo(t)' = AnswerTo(t)
    BY <2>1 DEF Status, CallBy, AnswerTo, Effected
  <2>4. Map!Call(t, c)
    BY <2>2, <2>3, <1>o, Calling
  <2>5. c \in Map!Request
    BY <2>1 DEF Map!Request, Map!PutCall, Map!GetCall, Map!DelCall
  <2> QED  BY <2>4, <2>5 DEF Map!Next
<1>2. CASE Enter(t) \/ Advance(t) \/ Descend(t) \/ Alloc(t)
  <2>1. SameStore
    BY <1>2, StoreKept DEF Enter, Advance, Descend, Alloc, Overwrite, Splice, Unsplice
  <2>2. /\ UNCHANGED <<kind, arg, buf, ret>> /\ pc[t] \in {"enter", "search", "alloc"}
        /\ pc'[t] = "search" \/ (pc'[t] = "splice" /\ lv'[t] = 0)
    BY <1>2, <1>t DEF Enter, Advance, Descend, Alloc
  <2>3. SameView(t)
    BY <2>2 DEF SameView, Status, CallBy, AnswerTo, Effected
  <2> QED  BY <2>1, <2>3, <1>s
<1>3. CASE Free(t) \/ Leave(t)
  <2>1. SameStore
    BY <1>3, StoreKept DEF Free, Leave, Overwrite, Splice, Unsplice
  <2>2. SameView(t)
    <3>1. CASE Free(t)
      <4>1. /\ UNCHANGED <<kind, arg, buf>> /\ pc[t] = "free" /\ pc'[t] = "leave"
            /\ ret'[t] = 1 /\ kind[t] = "del"
        BY <3>1, <1>t, <1>c DEF Free, ControlAt
      <4> QED  BY <4>1 DEF SameView, Status, CallBy, AnswerTo, Effected, AnswerOf
    <3>2. CASE Leave(t)
      <4>1. UNCHANGED <<kind, arg, buf, ret>> /\ pc[t] = "leave" /\ pc'[t] = "done"
        BY <3>2, <1>t DEF Leave
      <4> QED  BY <4>1 DEF SameView, Status, CallBy, AnswerTo, Effected, AnswerOf
    <3> QED  BY <1>3, <3>1, <3>2
  <2> QED  BY <2>1, <2>2, <1>s
<1>4. CASE Bottom(t)
  <2>1. SameStore
    BY <1>4, StoreKept DEF Bottom, Overwrite, Splice, Unsplice
  <2>2. /\ UNCHANGED <<kind, arg, buf, lv>> /\ pc[t] = "search" /\ kind[t] # "none" /\ lv[t] = 0
    BY <1>4, <1>c DEF Bottom, ControlAt
  <2>3. CASE Holds(next[x[t]][0], arg[t]) \/ kind[t] = "put"
    <3>1. pc'[t] \in {"get", "put", "del", "alloc"} /\ ret' = ret
      BY <1>4, <1>t, <2>2, <2>3 DEF Bottom
    <3>2. SameView(t)
      BY <2>2, <3>1 DEF SameView, Status, CallBy, AnswerTo, Effected
    <3> QED  BY <2>1, <3>2, <1>s
  <2>4. CASE ~Holds(next[x[t]][0], arg[t]) /\ kind[t] # "put"
    <3>0. pc'[t] = "leave" /\ ret'[t] = 0
      BY <1>4, <1>t, <2>4 DEF Bottom
    <3>1. Status(t) = "called" /\ Status(t)' = "done" /\ CallBy(t)' = CallBy(t)
      BY <2>2, <3>0 DEF Status, CallBy, Effected
    <3>2. AnswerTo(t)' = [ret |-> 0, val |-> NoValue]
      BY <3>0 DEF AnswerTo, AnswerOf, Effected
    <3>3. Map!Answered(t, [ret |-> 0, val |-> NoValue])
      BY <3>1, <3>2, <1>o, Answering
    <3>4. StoredUnder(arg[t]) = NoValue
      BY <1>4, <2>4, BottomMisses
    <3>5. arg[t] \in Key
      BY <1>t
    <3>6. CASE kind[t] = "get"
      <4>1. Map!Get(t)
        BY <3>3, <3>4, <3>5, <3>6, <2>1, Getting
      <4> QED  BY <4>1 DEF Map!Next
    <3>7. CASE kind[t] = "del"
      <4>1. Map!Del(t)
        BY <3>3, <3>4, <3>5, <3>7, <2>1, <2>2, Deleting DEF SameStore
      <4> QED  BY <4>1 DEF Map!Next
    <3> QED  BY <2>2, <2>4, <3>6, <3>7, <1>t
  <2> QED  BY <2>3, <2>4
<1>5. CASE AllocFails(t)
  <2>1. SameStore
    BY <1>5, StoreKept DEF AllocFails, Overwrite, Splice, Unsplice
  <2>2. /\ UNCHANGED <<kind, arg, buf>> /\ pc[t] = "alloc" /\ kind[t] = "put"
        /\ pc'[t] = "leave" /\ ret'[t] = 0
    BY <1>5, <1>t, <1>c DEF AllocFails, ControlAt
  <2>3. Status(t) = "called" /\ Status(t)' = "done" /\ CallBy(t)' = CallBy(t)
    BY <2>2 DEF Status, CallBy, Effected
  <2>4. AnswerTo(t)' = [ret |-> 0, val |-> NoValue]
    BY <2>2 DEF AnswerTo, AnswerOf, Effected
  <2>5. Map!Answered(t, [ret |-> 0, val |-> NoValue])
    BY <2>3, <2>4, <1>o, Answering
  <2>6. StoredUnder(arg[t]) = NoValue
    BY <2>2, StoredNothing DEF IInv, Search, SearchAt, On
  <2>7. /\ CallBy(t) = [op |-> "put", key |-> arg[t], val |-> buf[t]]
        /\ arg[t] \in Key /\ buf[t] \in Value
    BY <2>2, <1>t, <1>c DEF CallBy, ValuesAt
  <2>8. Map!PutFails(t)
    BY <2>5, <2>6, <2>7, <2>1
       DEF Map!PutFails, Map!PutCall, Map!Present, Map!NoAnswer, Map!Answers, CallBy, SameStore
  <2> QED  BY <2>8 DEF Map!Next
<1>6. ASSUME StoredUnder(arg[t])' = buf[t],
             \A k \in Key \ {arg[t]} : StoredUnder(k)' = StoredUnder(k),
             kind[t] = "put", UNCHANGED <<kind, arg, buf>>, ~Effected(t), pc[t] # "idle",
             Effected(t)', pc'[t] # "idle", AnswerTo(t)' = [ret |-> 1, val |-> NoValue]
      PROVE  Map!Put(t)
  <2>1. Status(t) = "called" /\ Status(t)' = "done" /\ CallBy(t)' = CallBy(t)
    BY <1>6 DEF Status, CallBy
  <2>2. Map!Answered(t, [ret |-> 1, val |-> NoValue])
    BY <1>6, <2>1, <1>o, Answering
  <2>3. /\ CallBy(t) = [op |-> "put", key |-> arg[t], val |-> buf[t]]
        /\ arg[t] \in Key /\ buf[t] \in Value
    BY <1>6, <1>t, <1>c DEF CallBy, ValuesAt
  <2> QED  BY <1>6, <2>2, <2>3 DEF Map!Put, Map!PutCall, Map!Answers, Map!Present, CallBy
<1>7. CASE Overwrite(t)
  <2>1. /\ UNCHANGED <<kind, arg, buf>> /\ pc[t] = "put" /\ kind[t] = "put"
        /\ pc'[t] = "leave" /\ ret'[t] = 1
    BY <1>7, <1>t, <1>c DEF Overwrite, ControlAt
  <2>2. /\ ~Effected(t) /\ pc[t] # "idle" /\ Effected(t)' /\ pc'[t] # "idle"
        /\ AnswerTo(t)' = [ret |-> 1, val |-> NoValue]
    BY <2>1 DEF Effected, AnswerTo, AnswerOf
  <2> QED  BY <1>6, <1>7, <2>1, <2>2, OverwriteStores DEF Map!Next
<1>8. CASE Splice(t)
  <2>1. /\ UNCHANGED <<kind, arg, buf>> /\ pc[t] = "splice" /\ kind[t] = "put" /\ ret'[t] = 1
        /\ pc'[t] = "leave" \/ (pc'[t] = "splice" /\ lv'[t] > 0)
    BY <1>8, <1>t, <1>c DEF Splice, NextLevel, ControlAt
  <2>2. Effected(t)' /\ pc'[t] # "idle" /\ AnswerTo(t)' = [ret |-> 1, val |-> NoValue]
    BY <2>1 DEF Effected, AnswerTo, AnswerOf
  <2>3. CASE lv[t] = 0
    <3>1. ~Effected(t) /\ pc[t] # "idle"
      BY <2>1, <2>3 DEF Effected
    <3> QED  BY <1>6, <1>8, <2>1, <2>2, <2>3, <3>1, SpliceStores DEF Map!Next
  <2>4. CASE lv[t] > 0
    <3>1. AnswerTo(t) = [ret |-> 1, val |-> NoValue] /\ Effected(t)
      BY <2>1, <2>4, <1>c DEF Effected, AnswerTo, AnswerOf, ValuesAt
    <3>2. SameView(t)
      BY <2>1, <2>2, <3>1 DEF SameView, Status, CallBy
    <3> QED  BY <1>8, <2>4, <3>2, <1>s, SpliceStores
  <2> QED  BY <2>3, <2>4, <1>t
<1>9. CASE Get(t)
  <2> DEFINE n == x[t]
  <2>0. SameStore
    BY <1>9, StoreKept DEF Get, Overwrite, Splice, Unsplice
  <2>1. /\ UNCHANGED <<kind, arg>> /\ pc[t] = "get" /\ kind[t] = "get" /\ buf'[t] = val[n]
        /\ pc'[t] = "leave" /\ ret'[t] = 1 /\ n \in allocated /\ key[n] = arg[t] /\ arg[t] \in Key
    BY <1>9, <1>t, <1>c DEF Get, ControlAt
  <2>2. n \in On(0) \ {Head}
    <3>1. height[n] > 0 /\ ~Off(t, n, 0) /\ n # Head
      BY <2>1, Constants DEF IInv, TypeOK, Cell, Off
    <3> QED  BY <2>1, <3>1, OnIs, Constants DEF InLock, IInv
  <2>3. StoredUnder(arg[t]) = val[n] /\ val[n] \in Value /\ val[n] # NoValue
    BY <2>1, <2>2, StoredIs, SkipShardAssumption DEF IInv, Values
  <2>4. Status(t) = "called" /\ Status(t)' = "done" /\ CallBy(t)' = CallBy(t)
    BY <2>1 DEF Status, CallBy, Effected
  <2>5. AnswerTo(t)' = [ret |-> 1, val |-> val[n]]
    BY <2>1 DEF AnswerTo, AnswerOf, Effected
  <2>6. PICK a : a = [ret |-> 1, val |-> val[n]]
    OBVIOUS
  <2>7. Map!Answered(t, a)
    BY <2>4, <2>5, <2>6, <1>o, Answering
  <2>8. Map!Get(t)
    BY <2>0, <2>1, <2>3, <2>6, <2>7, Getting
  <2> QED  BY <2>8 DEF Map!Next
<1>10. CASE Unsplice(t)
  <2>1. /\ UNCHANGED <<kind, arg, buf, ret>> /\ pc[t] = "del" /\ kind[t] = "del"
        /\ pc'[t] = "free" \/ (pc'[t] = "del" /\ lv'[t] > 0)
    BY <1>10, <1>t, <1>c DEF Unsplice, NextLevel, ControlAt
  <2>2. Effected(t)' /\ pc'[t] # "idle" /\ AnswerTo(t)' = [ret |-> 1, val |-> NoValue]
    BY <2>1 DEF Effected, AnswerTo, AnswerOf
  <2>3. CASE lv[t] = 0
    <3>1. Status(t) = "called" /\ Status(t)' = "done" /\ CallBy(t)' = CallBy(t)
      BY <2>1, <2>2, <2>3 DEF Status, CallBy, Effected
    <3>2. Map!Answered(t, [ret |-> 1, val |-> NoValue])
      BY <2>2, <3>1, <1>o, Answering
    <3>3. /\ StoredUnder(arg[t]) # NoValue
          /\ StoredUnder(arg[t])' = NoValue
          /\ \A k \in Key \ {arg[t]} : StoredUnder(k)' = StoredUnder(k)
      BY <1>10, <2>3, UnspliceStores
    <3>4. arg[t] \in Key
      BY <1>t
    <3>5. Map!Del(t)
      BY <2>1, <3>2, <3>3, <3>4, Deleting
    <3> QED  BY <3>5 DEF Map!Next
  <2>4. CASE lv[t] > 0
    <3>1. AnswerTo(t) = [ret |-> 1, val |-> NoValue] /\ Effected(t)
      BY <2>1, <2>4 DEF Effected, AnswerTo, AnswerOf
    <3>2. SameView(t)
      BY <2>1, <2>2, <3>1 DEF SameView, Status, CallBy
    <3> QED  BY <1>10, <2>4, <3>2, <1>s, UnspliceStores
  <2> QED  BY <2>3, <2>4, <1>t
<1>11. CASE Return(t)
  <2>1. SameStore
    BY <1>11, StoreKept DEF Return, Overwrite, Splice, Unsplice
  <2>2. pc[t] = "done" /\ pc'[t] = "idle" /\ kind'[t] = "none"
    BY <1>11, <1>t DEF Return
  <2>3. /\ Status(t) = "done" /\ Status(t)' = "idle" /\ CallBy(t)' = [op |-> "none"]
        /\ AnswerTo(t)' = [ret |-> 0, val |-> NoValue]
    BY <2>2 DEF Status, CallBy, AnswerTo, Effected
  <2> QED  BY <2>1, <2>3, <1>o, Returning DEF Map!Next
<1> QED  BY <1>1, <1>2, <1>3, <1>4, <1>5, <1>7, <1>8, <1>9, <1>10, <1>11 DEF Move, Inside

-----------------------------------------------------------------------------
(* The theorems                                                            *)

\* An empty shard nobody has called yet.
LEMMA InvInit == Init => IInv
<1> SUFFICES ASSUME Init PROVE IInv
  OBVIOUS
<1> USE Constants DEF Init
<1>1. TypeOK
  <2>1. next \in [Cell -> [Level -> Node \cup {NULL}]]
    BY DEF NoNext, Cell
  <2>2. pred \in [Thread -> [Level -> Cell \cup {Junk}]]
    BY DEF NoPred
  <2>3. height \in [Cell -> 1 .. MaxHeight] /\ key \in [Cell -> Nat]
    BY DEF Cell
  <2> QED  BY <2>1, <2>2, <2>3 DEF TypeOK, Cell
<1>2. Control /\ Search
  BY DEF Control, ControlAt, InLock, Search, SearchAt
<1>3. Keys
  BY DEF Keys, Cell
<1>4. AllLevels
  <2>1. \A l \in Level : On(l) = {Head} /\ next[Head][l] = NULL
    BY DEF On, Cell, NoNext
  <2>2. key[Head] = 0
    BY DEF Cell
  <2> QED  BY <2>1, <2>2 DEF AllLevels, Upwards, NoneSkipped
<1>5. Whole
  <2> SUFFICES ASSUME NEW l \in Level PROVE Reach(Cell, Row(l), NULL, Head) = {Head}
    BY DEF Whole, On
  <2>1. IsList(Cell, Row(l), NULL, Head)
    BY <1>1, RowIsList DEF TypeOK, Row
  <2>n. Head \in Cell /\ NULL \notin Cell
    BY DEF Cell
  <2>2. Row(l)[Head] = NULL
    BY DEF Row, Cell, NoNext
  <2> QED  BY <2>1, <2>2, <2>n, ReachOneMore, ReachNothing
<1>6. Values
  BY DEF Values, ValuesAt
<1> QED  BY <1>1, <1>2, <1>3, <1>4, <1>5, <1>6 DEF IInv

LEMMA InvNext == IInv /\ [Next]_vars => IInv'
<1> SUFFICES ASSUME IInv, [Next]_vars PROVE IInv'
  OBVIOUS
<1>1. CASE Next
  <2> PICK t \in Thread : Move(t)
    BY <1>1 DEF Next, Move
  <2> QED  BY TypeStep, ControlStep, KeysStep, LevelsStep, SearchStep, WholeStep, ValuesStep DEF IInv
<1>2. CASE UNCHANGED vars
  <2> USE <1>2 DEF vars, heap, locals, IInv
  <2>1. TypeOK' /\ Control' /\ Keys'
    BY DEF TypeOK, Control, ControlAt, Keys
  <2>2. \A l \in Level : On(l)' = On(l)
    BY DEF On, Off
  <2>3. Level' = Level
    BY DEF Level
  <2>4. AllLevels'
    BY <2>2, <2>3 DEF AllLevels, Upwards, NoneSkipped
  <2>5. \A t \in Thread, l \in Level : Left(t, l) => Left(t, l)'
    BY <2>2 DEF Left
  <2>6. \A t \in Thread : On(lv[t])' = On(lv[t])
    BY DEF On, Off
  <2>7. Search'
    BY <2>3, <2>5, <2>6 DEF Search, SearchAt
  <2>8. Whole'
    BY <2>2, <2>3 DEF Whole, Row, Cell
  <2>9. Values'
    BY DEF Values, ValuesAt
  <2> QED  BY <2>1, <2>4, <2>7, <2>8, <2>9
<1> QED  BY <1>1, <1>2

LEMMA Invariance == Spec => []IInv
  BY InvInit, InvNext, PTL DEF Spec

\* Every variable of a shard keeps its type: no node is higher than its array of
\* next pointers, and no loop over the levels leaves it.
THEOREM SkipShardTypeCorrect == Spec => []TypeOK
<1>1. IInv => TypeOK
  BY DEF IInv
<1> QED  BY <1>1, Invariance, PTL

\* A search never goes over a freed node, and put and del splice at nodes that the
\* search has found: every predecessor they use is set, and still a node.
THEOREM NoPointerIsWild == Spec => []NoWildPointer
<1>1. IInv => NoWildPointer
  <2> SUFFICES ASSUME IInv, NEW t \in Thread
               PROVE  /\ pc[t] \in {"search", "get", "put", "del", "free"} => x[t] \in allocated \cup {Head}
                      /\ pc[t] \in {"splice", "del"} => pred[t][lv[t]] \in allocated \cup {Head}
    BY DEF NoWildPointer
  <2>1. lv[t] \in Level /\ lv[t] >= lv[t]
    BY Constants DEF IInv, TypeOK
  <2>2. On(lv[t]) \subseteq allocated \cup {Head}
    BY <2>1, OnIsCell DEF IInv
  <2> QED  BY <2>1, <2>2 DEF IInv, Control, ControlAt, Search, SearchAt, Left
<1> QED  BY <1>1, Invariance, PTL

\* Whenever nobody is inside, every level leads upwards through the nodes that are
\* high enough for it and skips none of them, so that a search for a key that is
\* there finds it from wherever it comes down to the level.
THEOREM LevelsAreWhole ==
  Spec => [](owner = {} =>
               \A l \in Level :
                 /\ On(l) = {Head} \cup {n \in allocated : height[n] > l}
                 /\ Upwards(l) /\ NoneSkipped(l))
<1>1. ASSUME IInv, owner = {}, NEW l \in Level
      PROVE  On(l) = {Head} \cup {n \in allocated : height[n] > l} /\ Upwards(l) /\ NoneSkipped(l)
  <2>1. \A t \in Thread, n \in allocated : ~Off(t, n, l)
    BY <1>1 DEF IInv, Control, ControlAt, InLock, Off
  <2> QED  BY <1>1, <2>1 DEF On, IInv, AllLevels
<1>2. IInv => (owner = {} =>
               \A l \in Level :
                 /\ On(l) = {Head} \cup {n \in allocated : height[n] > l}
                 /\ Upwards(l) /\ NoneSkipped(l))
  BY <1>1
<1> QED  BY <1>2, Invariance, PTL

\* Whenever the lock is free the shard is a skip list: level 0 leads to every node
\* that is allocated, each level to exactly the nodes high enough for it, and all
\* of them in the order of their keys.
THEOREM ShardIsSkipList == Spec => []IsSkipList
<1>1. ASSUME IInv, owner = {} PROVE IsSkipList
  <2>1. \A l \in Level : /\ On(l) = {Head} \cup {n \in allocated : height[n] > l}
                         /\ Chain(l) = On(l) \ {Head}
    <3> SUFFICES ASSUME NEW l \in Level
                 PROVE  /\ On(l) = {Head} \cup {n \in allocated : height[n] > l}
                        /\ Chain(l) = On(l) \ {Head}
      OBVIOUS
    <3>1. \A t \in Thread, n \in allocated : ~Off(t, n, l)
      BY <1>1 DEF IInv, Control, ControlAt, InLock, Off
    <3> QED  BY <1>1, <3>1 DEF On, IInv, Whole, Row, Chain
  <2>2. Head \notin allocated /\ \A n \in allocated : height[n] > 0
    BY <1>1, Constants DEF IInv, TypeOK, Cell
  <2>3. Chain(0) = allocated
    BY <2>1, <2>2, Constants
  <2>4. \A l \in Level : Chain(l) = {n \in Chain(0) : height[n] > l}
    BY <2>1, <2>2, <2>3
  <2>5. \A l \in Level : \A n \in Chain(l) \cup {Head} :
          next[n][l] # NULL => key[n] < key[next[n][l]]
    BY <1>1, <2>1 DEF IInv, AllLevels, Upwards
  <2> QED  BY <2>3, <2>4, <2>5 DEF IsSkipList
<1>2. IInv => IsSkipList
  BY <1>1 DEF IsSkipList
<1> QED  BY <1>2, Invariance, PTL

\* Whatever the interleaving, callers cannot tell the shard from a map whose
\* operations are atomic.
THEOREM SkipShardIsMap == Spec => IsMap
<1>1. Init => Map!Init
  <2> SUFFICES ASSUME Init PROVE Map!Init
    OBVIOUS
  <2>1. IInv
    BY InvInit
  <2>2. On(0) \ {Head} = {}
    BY DEF Init, On
  <2>3. \A k \in Key : StoredUnder(k) = NoValue
    BY <2>1, <2>2, StoredNothing DEF IInv
  <2> QED  BY <2>3 DEF Init, Effected, Map!Init, Map!NoCall, Map!NoAnswer, Map!Answers
<1>2. IInv /\ IInv' /\ [Next]_vars => [Map!Next]_(Map!vars)
  <2> SUFFICES ASSUME IInv, IInv', [Next]_vars PROVE Map!Next \/ UNCHANGED Map!vars
    OBVIOUS
  <2>1. CASE Next
    <3> PICK t \in Thread : Move(t)
      BY <2>1 DEF Next, Move
    <3> QED  BY MapStep
  <2>2. CASE UNCHANGED vars
    <3> USE <2>2 DEF vars, heap, locals
    <3>1. On(0)' = On(0)
      BY DEF On, Off
    <3>2. ASSUME NEW k \in Key PROVE StoredUnder(k)' = StoredUnder(k)
      BY <3>1, SameStored DEF With, IInv
    <3>3. \A t \in Thread : SameView(t)
      BY DEF SameView, Status, CallBy, AnswerTo, AnswerOf, Effected
    <3> QED  BY <3>2, <3>3, Silent DEF SameStore
  <2> QED  BY <2>1, <2>2
<1>3. Spec => Map!Init /\ [][Map!Next]_(Map!vars)
  BY <1>1, <1>2, Invariance, PTL DEF Spec
<1> QED  BY <1>3 DEF IsMap, Map!Spec

=============================================================================
