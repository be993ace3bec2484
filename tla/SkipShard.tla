----------------------------- MODULE SkipShard -----------------------------
(***************************************************************************)
(* One shard of kv_skiplock.c: a skip list behind a CRITICAL_SECTION.      *)
(* Shards share nothing.  The lock is exclusive, so a value is copied in   *)
(* one step; the search and the splicing of the levels, where the code can *)
(* go wrong, take a step for each node and each level.                     *)
(*                                                                         *)
(* A definition called a variant is a plausible mistake in the definition  *)
(* after it: the properties are tried on it.                               *)
(***************************************************************************)
EXTENDS Naturals, Reach

CONSTANTS
  Thread,
  Node,      \* the addresses calloc can return for an SLNode
  Head,      \* the shard's head node
  NULL,
  Key,       \* the keys callers use; the head's own key is 0
  Value,     \* the values they put
  NoValue,   \* what a buffer nobody has filled holds
  Junk,      \* what an uninitialised local holds
  MaxHeight  \* m->max_height

ASSUME SkipShardAssumption ==
  /\ Key \subseteq Nat \ {0}
  /\ Key # {}
  /\ NoValue \notin Value
  /\ Head \notin Node
  /\ NULL \notin Node \cup {Head}
  /\ Junk \notin Node \cup {Head, NULL}
  /\ MaxHeight \in Nat \ {0, 1}

VARIABLES
  owner,      \* the threads inside the critical section
  allocated,  \* the nodes calloc has handed out and free has not taken back
  key, val, height,
  next,       \* SLNode.next, by level
  pc, kind, arg,
  buf,        \* the caller's buffer
  lv,         \* the level a loop has come to
  x,          \* the node it has come to
  pred,       \* the node the search left each level from
  new,        \* sl_put's n
  ret

heap   == <<allocated, key, val, height, next>>
locals == <<kind, arg, buf, lv, x, pred, new, ret>>
vars   == <<owner, heap, pc, locals>>

Cell   == Node \cup {Head}
Level  == 0 .. MaxHeight - 1
AnyKey == CHOOSE k \in Key : TRUE
NoPred == [l \in Level |-> Junk]
NoNext == [l \in Level |-> NULL]

\* create_impl: the head has the full height and leads nowhere.
Init ==
  /\ owner = {}
  /\ allocated = {}
  /\ key    = [n \in Cell |-> 0]
  /\ val    = [n \in Node |-> NoValue]
  /\ height = [n \in Cell |-> IF n = Head THEN MaxHeight ELSE 1]
  /\ next   = [n \in Cell |-> NoNext]
  /\ pc     = [t \in Thread |-> "idle"]
  /\ kind   = [t \in Thread |-> "none"]
  /\ arg    = [t \in Thread |-> AnyKey]
  /\ buf    = [t \in Thread |-> NoValue]
  /\ lv     = [t \in Thread |-> 0]
  /\ x      = [t \in Thread |-> Head]
  /\ pred   = [t \in Thread |-> NoPred]
  /\ new    = [t \in Thread |-> NULL]
  /\ ret    = [t \in Thread |-> 0]

Goto(t, l) == pc' = [pc EXCEPT ![t] = l]

\* sl_put, sl_get or sl_del returns r.
Decide(t, r) == Goto(t, "leave") /\ ret' = [ret EXCEPT ![t] = r]

-----------------------------------------------------------------------------
(* The calls and the lock                                                  *)

Call(t, op, k, v) ==
  /\ pc[t] = "idle"
  /\ v \in IF op = "put" THEN Value ELSE {NoValue}
  /\ kind' = [kind EXCEPT ![t] = op]
  /\ arg'  = [arg EXCEPT ![t] = k]
  /\ buf'  = [buf EXCEPT ![t] = v]
  /\ Goto(t, "enter")
  /\ UNCHANGED <<owner, heap, lv, x, pred, new, ret>>

Begin(t) ==
  \E op \in {"put", "get", "del"}, k \in Key, v \in Value \cup {NoValue} : Call(t, op, k, v)

\* Where a search starts: sl_get on the bottom level, the others on the top one.
Top(t) == IF kind[t] = "get" THEN 0 ELSE height[Head] - 1

\* The lock lets t in.  Variant: it does not look.
NoLock(t) == TRUE
CanEnter(t) == owner = {}

Enter(t) ==
  /\ pc[t] = "enter"
  /\ CanEnter(t)
  /\ owner' = owner \cup {t}
  /\ x'  = [x EXCEPT ![t] = Head]
  /\ lv' = [lv EXCEPT ![t] = Top(t)]
  /\ Goto(t, "search")
  /\ UNCHANGED <<heap, kind, arg, buf, pred, new, ret>>

\* sl_put, sl_get and sl_del have returned, and their locals are gone.
Leave(t) ==
  /\ pc[t] = "leave"
  /\ owner' = owner \ {t}
  /\ Goto(t, "done")
  /\ lv'   = [lv EXCEPT ![t] = 0]
  /\ x'    = [x EXCEPT ![t] = Head]
  /\ pred' = [pred EXCEPT ![t] = NoPred]
  /\ new'  = [new EXCEPT ![t] = NULL]
  /\ UNCHANGED <<heap, kind, arg, buf, ret>>

\* The caller takes the result.
Return(t) ==
  /\ pc[t] = "done"
  /\ Goto(t, "idle")
  /\ kind' = [kind EXCEPT ![t] = "none"]
  /\ arg'  = [arg EXCEPT ![t] = AnyKey]
  /\ buf'  = [buf EXCEPT ![t] = NoValue]
  /\ ret'  = [ret EXCEPT ![t] = 0]
  /\ UNCHANGED <<owner, heap, lv, x, pred, new>>

-----------------------------------------------------------------------------
(* The search                                                              *)

\* The node after n on level l is before the place of key k.  Variant: so is an
\* equal one.
NotAfter(n, l, k) == next[n][l] # NULL /\ key[next[n][l]] <= k
Before(n, l, k) == next[n][l] # NULL /\ key[next[n][l]] < k

Advance(t) ==
  /\ pc[t] = "search"
  /\ Before(x[t], lv[t], arg[t])
  /\ x' = [x EXCEPT ![t] = next[@][lv[t]]]
  /\ UNCHANGED <<owner, heap, pc, kind, arg, buf, lv, pred, new, ret>>

\* One level down.
Descend(t) ==
  /\ pc[t] = "search"
  /\ ~Before(x[t], lv[t], arg[t])
  /\ lv[t] > 0
  /\ pred' = [pred EXCEPT ![t][lv[t]] = x[t]]
  /\ lv'   = [lv EXCEPT ![t] = @ - 1]
  /\ UNCHANGED <<owner, heap, pc, kind, arg, buf, x, new, ret>>

Holds(n, k) == n # NULL /\ key[n] = k

\* The bottom level: x becomes the node after the place, and the operation goes
\* on with it if it holds the key.
Bottom(t) ==
  /\ pc[t] = "search"
  /\ ~Before(x[t], lv[t], arg[t])
  /\ lv[t] = 0
  /\ pred' = [pred EXCEPT ![t][0] = x[t]]
  /\ LET n == next[x[t]][0]
     IN  /\ x' = [x EXCEPT ![t] = n]
         /\ IF Holds(n, arg[t])
            THEN Goto(t, kind[t]) /\ UNCHANGED ret
            ELSE IF kind[t] = "put"
                 THEN Goto(t, "alloc") /\ UNCHANGED ret
                 ELSE Decide(t, 0)
  /\ UNCHANGED <<owner, heap, kind, arg, buf, lv, new>>

-----------------------------------------------------------------------------
(* sl_get and sl_put on a key that is there                                *)

Get(t) ==
  /\ pc[t] = "get"
  /\ buf' = [buf EXCEPT ![t] = val[x[t]]]
  /\ Decide(t, 1)
  /\ UNCHANGED <<owner, heap, kind, arg, lv, x, pred, new>>

Overwrite(t) ==
  /\ pc[t] = "put"
  /\ val' = [val EXCEPT ![x[t]] = buf[t]]
  /\ Decide(t, 1)
  /\ UNCHANGED <<owner, allocated, key, height, next, kind, arg, buf, lv, x, pred, new>>

-----------------------------------------------------------------------------
(* sl_put of a new key                                                     *)

\* while (lvl < max_h).  Variant: the loop runs once too often.
OnceMore(lvl) == lvl <= MaxHeight
Climbs(lvl) == lvl < MaxHeight

\* What random_level can return: where its loop ends, or any level before.
RandomLevel == {h \in 1 .. MaxHeight + 1 : \A lvl \in 1 .. h - 1 : Climbs(lvl)}

\* sl_node_new
Alloc(t) ==
  /\ pc[t] = "alloc"
  /\ \E n \in Node \ allocated, h \in RandomLevel :
       /\ allocated' = allocated \cup {n}
       /\ key'    = [key EXCEPT ![n] = arg[t]]
       /\ val'    = [val EXCEPT ![n] = buf[t]]
       /\ height' = [height EXCEPT ![n] = h]
       /\ next'   = [next EXCEPT ![n] = NoNext]
       /\ new'    = [new EXCEPT ![t] = n]
  /\ lv' = [lv EXCEPT ![t] = 0]
  /\ Goto(t, "splice")
  /\ UNCHANGED <<owner, kind, arg, buf, x, pred, ret>>

\* calloc returned NULL.
AllocFails(t) ==
  /\ pc[t] = "alloc"
  /\ Decide(t, 0)
  /\ UNCHANGED <<owner, heap, kind, arg, buf, lv, x, pred, new>>

\* Go on to the next of the h levels, or be done.
NextLevel(t, h, end) ==
  IF lv[t] + 1 < h
  THEN lv' = [lv EXCEPT ![t] = @ + 1] /\ UNCHANGED pc
  ELSE Goto(t, end) /\ UNCHANGED lv

\* The new node goes in after pred[lv].
Splice(t) ==
  /\ pc[t] = "splice"
  /\ LET l == lv[t]
         p == pred[t][l]
     IN  next' = [next EXCEPT ![new[t]][l] = next[p][l], ![p][l] = new[t]]
  /\ NextLevel(t, height[new[t]], "leave")
  /\ ret' = [ret EXCEPT ![t] = 1]
  /\ UNCHANGED <<owner, allocated, key, val, height, kind, arg, buf, x, pred, new>>

-----------------------------------------------------------------------------
(* sl_del of a key that is there                                           *)

\* The levels x is on.  Variant: it is taken off the bottom level only.
OneLevel(n) == 1
Levels(n) == height[n]

\* x comes off level lv.
Unsplice(t) ==
  /\ pc[t] = "del"
  /\ LET l == lv[t]
     IN  next' = [next EXCEPT ![pred[t][l]][l] = next[x[t]][l]]
  /\ NextLevel(t, Levels(x[t]), "free")
  /\ UNCHANGED <<owner, allocated, key, val, height, kind, arg, buf, x, pred, new, ret>>

\* What the node holds after that is nobody's to read: it is cleared here.
Free(t) ==
  /\ pc[t] = "free"
  /\ allocated' = allocated \ {x[t]}
  /\ key'    = [key EXCEPT ![x[t]] = 0]
  /\ val'    = [val EXCEPT ![x[t]] = NoValue]
  /\ height' = [height EXCEPT ![x[t]] = 1]
  /\ next'   = [next EXCEPT ![x[t]] = NoNext]
  /\ Decide(t, 1)
  /\ UNCHANGED <<owner, kind, arg, buf, lv, x, pred, new>>

-----------------------------------------------------------------------------
Inside(t) ==
  \/ Advance(t) \/ Descend(t) \/ Bottom(t)
  \/ Get(t) \/ Overwrite(t)
  \/ Alloc(t) \/ AllocFails(t) \/ Splice(t)
  \/ Unsplice(t) \/ Free(t)
  \/ Leave(t)

Next == \E t \in Thread : Begin(t) \/ Enter(t) \/ Inside(t) \/ Return(t)

Spec == Init /\ [][Next]_vars

-----------------------------------------------------------------------------
(* Properties                                                              *)

\* Every variable keeps its type.  In particular no node is higher than the array
\* of its next pointers, and no loop over levels leaves it.
TypeOK ==
  /\ owner \in SUBSET Thread
  /\ allocated \in SUBSET Node
  /\ key    \in [Cell -> Nat]
  /\ val    \in [Node -> Value \cup {NoValue}]
  /\ height \in [Cell -> 1 .. MaxHeight]
  /\ next   \in [Cell -> [Level -> Node \cup {NULL}]]
  /\ pc     \in [Thread -> {"idle", "enter", "search", "get", "put", "alloc", "splice",
                            "del", "free", "leave", "done"}]
  /\ kind   \in [Thread -> {"none", "put", "get", "del"}]
  /\ arg    \in [Thread -> Key]
  /\ buf    \in [Thread -> Value \cup {NoValue}]
  /\ lv     \in [Thread -> Level]
  /\ x      \in [Thread -> Cell \cup {NULL}]
  /\ pred   \in [Thread -> [Level -> Cell \cup {Junk}]]
  /\ new    \in [Thread -> Node \cup {NULL}]
  /\ ret    \in [Thread -> {0, 1}]

\* The nodes on level l, by following next from the head.
Chain(l) == Reach(Cell, [n \in Cell |-> next[n][l]], NULL, Head) \ {Head}

\* Whenever the lock is free, the list is a skip list: level 0 has every node
\* that is allocated, each level has exactly the nodes that are high enough for
\* it, and every level is strictly sorted.
IsSkipList ==
  owner = {} =>
    /\ Chain(0) = allocated
    /\ \A l \in Level :
         /\ Chain(l) = {n \in Chain(0) : height[n] > l}
         /\ \A n \in Chain(l) \cup {Head} :
              next[n][l] # NULL => key[n] < key[next[n][l]]

\* The search never goes over a node that is freed, and the splice loops use no
\* pred the search has not set.
NoWildPointer ==
  \A t \in Thread :
    /\ pc[t] \in {"search", "get", "put", "del", "free"} => x[t] \in allocated \cup {Head}
    /\ pc[t] \in {"splice", "del"} => pred[t][lv[t]] \in allocated \cup {Head}

=============================================================================
