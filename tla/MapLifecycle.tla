---------------------------- MODULE MapLifecycle ----------------------------
(***************************************************************************)
(* The life of a map: create_impl, the calls made on it, destroy_impl, for *)
(* the six implementations.  What matters here is what is allocated and    *)
(* which critical sections exist; the other modules are about the calls,   *)
(* and a call is a single step here.  Nobody is inside the map when it is  *)
(* destroyed: bench_main has waited for its workers.                       *)
(*                                                                         *)
(* A definition called a variant is a plausible mistake in the definition  *)
(* after it: the properties are tried on it.                               *)
(***************************************************************************)
EXTENDS Integers, Reach

CONSTANTS
  Impl,      \* the implementations to look at
  Node,      \* the addresses of nodes and sentinels
  NULL,
  Junk,      \* neither: an address nobody has allocated
  Asked,     \* the numbers of buckets callers ask for
  Fewest,    \* 16: with less, create_impl takes its default
  Default    \* 1024, or 256 for the two that have shards

Chained  == {"mutex", "rwlock", "wrongget"}
LockFree == {"lfhash", "lfskip"}

ASSUME LifecycleAssumption ==
  /\ Impl \subseteq Chained \cup LockFree \cup {"skiplock"}
  /\ NULL \notin Node
  /\ Junk \notin Node \cup {NULL}
  /\ Asked \subseteq Int
  /\ Fewest \in Nat \ {0}
  /\ Default \in Nat \ {0}

VARIABLES
  impl, n,    \* which map, and how many buckets; they never change
  pc,
  made,       \* create_impl has returned a map
  blocks,     \* the map's own blocks: the KVMap and its arrays
  head,       \* heads[b], or shards[b].head
  section,    \* the buckets whose critical section has been initialised
  nodes,      \* the nodes and sentinels that are allocated
  next,       \* Node.next, SLNode.next[0], or LNode.next with its mark
  lost,       \* history: nodes taken out of the map and never freed
  i, end,     \* the loops over buckets
  p, nx       \* the walk that frees a bucket

store == <<blocks, head, section, nodes, next>>
vars  == <<impl, n, pc, made, store, lost, i, end, p, nx>>

Bucket == 0 .. n - 1

\* if (nbuckets < 16) nbuckets = ...
Buckets(asked) == IF asked < Fewest THEN Default ELSE asked

Arrays       == IF impl \in Chained THEN {"heads", "locks"} ELSE {"heads"}
HasSentinels == impl \notin Chained
\* SRWLOCKs are neither deleted nor need to be; the lock-free maps have none.
HasSections  == impl \in {"mutex", "wrongget", "skiplock"}

Plain(x)  == [ptr |-> x, mark |-> FALSE]
\* Where a next pointer leads.  Variant: the mark is not stripped.
Raw(r)    == IF r.mark THEN Junk ELSE r.ptr
Unwrap(r) == r.ptr

Init ==
  /\ impl \in Impl
  /\ n \in {Buckets(a) : a \in Asked}
  /\ pc = "map" /\ made = FALSE
  /\ blocks = {} /\ head = [b \in Bucket |-> Junk] /\ section = {}
  /\ nodes = {} /\ next = [x \in Node |-> Plain(NULL)]
  /\ lost = {}
  /\ i = 0 /\ end = 0 /\ p = NULL /\ nx = NULL

-----------------------------------------------------------------------------
(* create_impl                                                             *)

\* calloc of the KVMap
NewMap ==
  /\ pc = "map"
  /\ \/ blocks' = {"map"} /\ pc' = "arrays"
     \/ pc' = "gone" /\ UNCHANGED blocks
  /\ UNCHANGED <<impl, n, made, head, section, nodes, next, lost, i, end, p, nx>>

\* What is given back when only some of the arrays could be had.  Variant: the
\* one that could is forgotten.
OnlyMap(got) == {"map"}
Returned(got) == {"map"} \cup got

\* The arrays: heads is cleared by calloc.  Both are asked for before either is
\* looked at.
NewArrays ==
  /\ pc = "arrays"
  /\ \E got \in SUBSET Arrays :
       IF got = Arrays
       THEN /\ blocks' = blocks \cup got
            /\ head' = [b \in Bucket |-> NULL]
            /\ pc' = "fill"
       ELSE /\ blocks' = (blocks \cup got) \ Returned(got)
            /\ pc' = "gone"
            /\ UNCHANGED head
  /\ UNCHANGED <<impl, n, made, section, nodes, next, lost, i, end, p, nx>>

\* The loop is through.  Variant: one bucket too early.
OneShort  == i + 1 >= n
AllFilled == i >= n

Created ==
  /\ pc = "fill" /\ AllFilled
  /\ made' = TRUE
  /\ pc' = "use"
  /\ UNCHANGED <<impl, n, store, lost, i, end, p, nx>>

\* One round: the critical section, then the sentinel.
Fill ==
  /\ pc = "fill" /\ ~AllFilled
  /\ section' = IF HasSections THEN section \cup {i} ELSE section
  /\ IF HasSentinels
     THEN \E x \in Node \ nodes :
            /\ nodes' = nodes \cup {x}
            /\ next' = [next EXCEPT ![x] = Plain(NULL)]
            /\ head' = [head EXCEPT ![i] = x]
     ELSE UNCHANGED <<nodes, next, head>>
  /\ i' = i + 1
  /\ UNCHANGED <<impl, n, pc, made, blocks, lost, end, p, nx>>

\* How far a rollback goes when sentinel k cannot be had.  Variant: not far enough.
OneLess(k) == k - 1
Before(k) == k

\* A round without memory: the critical section of bucket i is there, its
\* sentinel is not; the buckets before it are taken down again.
FillFails ==
  /\ pc = "fill" /\ ~AllFilled /\ HasSentinels
  /\ section' = IF HasSections THEN section \cup {i} ELSE section
  /\ end' = Before(i)
  /\ i' = 0
  /\ pc' = "bucket"
  /\ UNCHANGED <<impl, n, made, blocks, head, nodes, next, lost, p, nx>>

-----------------------------------------------------------------------------
(* The calls                                                               *)

\* The cells from x on.
From(x) == Reach(Node, [y \in Node |-> next[y].ptr], NULL, x)

\* Bucket b's cells, the sentinel included.
Cells(b) == From(head[b])

Items(b) == IF HasSentinels THEN Cells(b) \ {head[b]} ELSE Cells(b)

\* The cells a new node of b can be put behind.
Places(b) ==
  {q \in Cells(b) : ~next[q].mark /\ \A r \in Cells(b) : q \in From(r) => ~next[r].mark}

\* put of a new key: in front of a chain, anywhere in a skip list, and anywhere in
\* a lock-free list, whose tail it cuts off.
PutNew(b) ==
  /\ pc = "use"
  /\ \E x \in Node \ nodes :
       /\ nodes' = nodes \cup {x}
       /\ IF HasSentinels
          THEN \E q \in Places(b) :
                 LET after == IF impl \in LockFree THEN Plain(NULL) ELSE next[q]
                 IN  /\ next' = [next EXCEPT ![x] = after, ![q] = Plain(x)]
                     /\ lost' = IF impl \in LockFree THEN lost \cup From(next[q].ptr) ELSE lost
                     /\ UNCHANGED head
          ELSE /\ next' = [next EXCEPT ![x] = Plain(head[b])]
               /\ head' = [head EXCEPT ![b] = x]
               /\ UNCHANGED lost
  /\ UNCHANGED <<impl, n, pc, made, blocks, section, i, end, p, nx>>

\* Cell x is taken out of bucket b.
Bypass(b, x) ==
  IF head[b] = x
  THEN head' = [head EXCEPT ![b] = next[x].ptr] /\ UNCHANGED next
  ELSE /\ \E q \in Cells(b) : next[q].ptr = x /\ next' = [next EXCEPT ![q] = Plain(next[x].ptr)]
       /\ UNCHANGED head

\* del behind a lock unlinks its node and frees it.
DelLocked(b) ==
  /\ pc = "use" /\ impl \notin LockFree
  /\ \E x \in Items(b) : Bypass(b, x) /\ nodes' = nodes \ {x}
  /\ UNCHANGED <<impl, n, pc, made, blocks, section, lost, i, end, p, nx>>

\* A lock-free del marks its node, and somebody unlinks it: del itself or a later
\* harris_find, or nobody, when the compare-and-swap that should have done so was
\* wasted on clearing the mark of another node.
Mark(b) ==
  /\ pc = "use" /\ impl \in LockFree
  /\ \E x \in Items(b) : ~next[x].mark /\ next' = [next EXCEPT ![x].mark = TRUE]
  /\ UNCHANGED <<impl, n, pc, made, blocks, head, section, nodes, lost, i, end, p, nx>>

Snip(b) ==
  /\ pc = "use" /\ impl \in LockFree
  /\ \E x \in Items(b) : next[x].mark /\ Bypass(b, x) /\ lost' = lost \cup {x}
  /\ UNCHANGED <<impl, n, pc, made, blocks, section, nodes, i, end, p, nx>>

-----------------------------------------------------------------------------
(* destroy_impl, and the rollback of create_impl                           *)

Destroy ==
  /\ pc = "use"
  /\ i' = 0 /\ end' = n
  /\ pc' = "bucket"
  /\ UNCHANGED <<impl, n, made, store, lost, p, nx>>

\* The next bucket, if there is one.
Enter ==
  /\ pc = "bucket" /\ i < end
  /\ p' = head[i]
  /\ pc' = "walk"
  /\ UNCHANGED <<impl, n, made, store, lost, i, end, nx>>

\* nx = p->next
Load ==
  /\ pc = "walk" /\ p # NULL
  /\ nx' = Unwrap(next[p])
  /\ pc' = "free"
  /\ UNCHANGED <<impl, n, made, store, lost, i, end, p>>

\* What p is after free(p).  Variant: the loop does not move on.
Same == p
Onward == nx

\* free(p); p = nx.  What a freed node holds is nobody's to read: it is cleared.
FreeNode ==
  /\ pc = "free"
  /\ nodes' = nodes \ {p}
  /\ next' = [next EXCEPT ![p] = Plain(NULL)]
  /\ p' = Onward
  /\ nx' = NULL
  /\ pc' = "walk"
  /\ UNCHANGED <<impl, n, made, blocks, head, section, lost, i, end>>

\* The critical sections a bucket gives back.  Variant: none.
Forgotten == {}
Deleted == IF HasSections THEN {i} ELSE {}

\* The bucket is empty: its critical section is deleted.
LeaveBucket ==
  /\ pc = "walk" /\ p = NULL
  /\ section' = section \ Deleted
  /\ i' = i + 1
  /\ pc' = "bucket"
  /\ UNCHANGED <<impl, n, made, blocks, head, nodes, next, lost, end, p, nx>>

FreeMap ==
  /\ pc = "bucket" /\ i >= end
  /\ blocks' = blocks \ ({"map"} \cup Arrays)
  /\ pc' = "gone"
  /\ UNCHANGED <<impl, n, made, head, section, nodes, next, lost, i, end, p, nx>>

-----------------------------------------------------------------------------
Create  == NewMap \/ NewArrays \/ Fill \/ FillFails \/ Created
TearDown == Enter \/ Load \/ FreeNode \/ LeaveBucket \/ FreeMap
Use     == \E b \in Bucket : PutNew(b) \/ DelLocked(b) \/ Mark(b) \/ Snip(b)

Next == Create \/ Use \/ Destroy \/ TearDown

Spec == Init /\ [][Next]_vars

\* One thread runs create_impl and destroy_impl, and nothing stops it.
FairSpec == Spec /\ WF_vars(Create \/ TearDown)

-----------------------------------------------------------------------------
(* Properties                                                              *)

\* Every variable keeps its type.
TypeOK ==
  /\ impl \in Impl /\ n \in Nat \ {0}
  /\ pc \in {"map", "arrays", "fill", "use", "bucket", "walk", "free", "gone"}
  /\ made \in BOOLEAN
  /\ blocks \subseteq {"map", "heads", "locks"}
  /\ head \in [Bucket -> Node \cup {NULL, Junk}]
  /\ section \subseteq Bucket
  /\ nodes \subseteq Node /\ lost \subseteq Node
  /\ next \in [Node -> [ptr : Node \cup {NULL}, mark : BOOLEAN]]
  /\ i \in 0 .. n /\ end \in 0 .. n
  /\ {p, nx} \subseteq Node \cup {NULL}

\* A map that create_impl hands out is whole, and stays so whatever is called:
\* every bucket leads to its sentinel, if the map has any, or else to nothing or an
\* allocated node, and has its critical section, if the map has those.
MapIsWhole ==
  pc = "use" =>
    /\ blocks = {"map"} \cup Arrays
    /\ \A b \in Bucket :
         /\ head[b] \in IF HasSentinels THEN nodes ELSE nodes \cup {NULL}
         /\ HasSections => b \in section

\* The walk that frees a bucket reads and frees only what is allocated, and no
\* critical section is deleted that does not exist: no node is in two buckets or
\* on a chain after it has been freed, and no mark is taken for part of an address.
NoBadFree ==
  /\ pc \in {"walk", "free"} => p \in nodes \cup {NULL}
  /\ pc = "walk" /\ p = NULL /\ HasSections => i \in section

\* Whether create_impl fails, and where, or the map has been used and destroyed:
\* everything is given back, except the nodes that the lock-free maps have taken
\* out of their lists, by del or by the put that cuts a tail off.
OnlyUnlinkedLeak ==
  pc = "gone" => blocks = {} /\ nodes = lost /\ (impl \notin LockFree => lost = {})

\* Every critical section that has been initialised is deleted, but for one: when
\* the skip list cannot have the sentinel of a shard, the section of that shard has
\* been initialised and the rollback stops before it (end).
OneSectionLeaks ==
  pc = "gone" =>
    section = {b \in Bucket : impl = "skiplock" /\ ~made /\ b = end /\ head[b] = NULL}

\* Once it has begun, taking the map down ends.
DestroyEnds == pc = "bucket" ~> pc = "gone"

=============================================================================
