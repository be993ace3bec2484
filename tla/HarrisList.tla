----------------------------- MODULE HarrisList -----------------------------
(***************************************************************************)
(* The sorted linked list behind one bucket of the two lock-free maps,     *)
(* kv_lf_hash.c and kv_lf_skiplist.c.  The list code of the two files      *)
(* (harris_find, put_impl, get_impl, del_impl, node_new) is the same text; *)
(* buckets share nothing, so one list is the unit of concurrency.          *)
(*                                                                         *)
(* Every atomic load, compare-and-swap, malloc and free of the code is one *)
(* step; the decisions a thread takes on the value it just loaded belong   *)
(* to the step of the load.  memcpy is not atomic: it moves the words of a *)
(* value one at a time, in any order.                                      *)
(*                                                                         *)
(* The threads are the callers: each makes the calls of Calls[thread]      *)
(* again and again, in any order, and puts any value of ValueOf[key].      *)
(*                                                                         *)
(* A definition called a variant is a plausible mistake in the definition  *)
(* after it: the properties are tried on the code with that mistake.       *)
(***************************************************************************)
EXTENDS Naturals, Reach

CONSTANTS
  Thread,   \* the worker threads
  Node,     \* the addresses malloc can return for an LNode
  Head,     \* the sentinel create_impl allocates for the bucket
  NULL,     \* the null pointer
  Key,      \* the keys callers use; the sentinel's own key is 0
  Word,     \* the words of a value buffer
  Data,     \* what one word can hold
  Junk,     \* a word of a buffer nobody has written yet
  Calls,    \* Calls[t]: the operations thread t makes, with their keys
  ValueOf   \* ValueOf[k]: the values callers put under k

Operation == {"put", "get", "del"}

ASSUME HarrisAssumption ==
  /\ Key \subseteq Nat \ {0}
  /\ Key # {}
  /\ Word # {}
  /\ Junk \notin Data
  /\ Head \notin Node
  /\ NULL \notin Node \cup {Head}
  /\ Calls \in [Thread -> SUBSET (Operation \X Key)]
  /\ ValueOf \in [Key -> SUBSET [Word -> Data]]

VARIABLES
  allocated,  \* the nodes malloc has handed out and free has not taken back
  key,        \* LNode.key
  val,        \* LNode.val
  next,       \* LNode.next: a pointer and its mark bit
  pc,         \* what each thread does next
  kind,       \* the operation in progress; "help" is del's second harris_find
  arg,        \* its key
  buf,        \* the caller's buffer: put's val, get's out
  todo,       \* the words memcpy has still to move
  pred,       \* harris_find's pred
  curr,       \* harris_find's curr_raw, and the callers' curr
  succ,       \* harris_find's succ_raw, and del_impl's succ
  new,        \* put_impl's n
  ret         \* the value the operation returns

heap   == <<allocated, key, val, next>>
locals == <<kind, arg, buf, todo, pred, curr, succ, new, ret>>
vars   == <<allocated, key, val, next, pc, kind, arg, buf, todo, pred, curr, succ, new, ret>>

Cell == Node \cup {Head}
Ref  == [ptr : Node \cup {NULL}, mark : BOOLEAN]

\* An unmarked reference: what a pointer is when its low bit is clear.
Plain(p) == [ptr |-> p, mark |-> FALSE]
\* mark_ref
Marked(r) == [ptr |-> r.ptr, mark |-> TRUE]
NullRef == Plain(NULL)
Forgotten == Junk        \* variant: node_new leaves next as malloc returned it
FirstNext == NullRef     \* what node_new stores in next

Label == {"idle", "find", "walk", "snip", "reload", "write", "read", "alloc",
          "link", "load", "mark", "unlink", "done", "fault"}

EmptyBuf == [w \in Word |-> Junk]
AnyKey   == CHOOSE k \in Key : TRUE

-----------------------------------------------------------------------------
(* create_impl leaves each bucket with its sentinel and nothing else.      *)

Init ==
  /\ allocated = {}
  /\ key  = [n \in Cell |-> 0]
  /\ val  = [n \in Node |-> EmptyBuf]
  /\ next = [n \in Cell |-> NullRef]
  /\ pc   = [t \in Thread |-> "idle"]
  /\ kind = [t \in Thread |-> "none"]
  /\ arg  = [t \in Thread |-> AnyKey]
  /\ buf  = [t \in Thread |-> EmptyBuf]
  /\ todo = [t \in Thread |-> {}]
  /\ pred = [t \in Thread |-> Head]
  /\ curr = [t \in Thread |-> NullRef]
  /\ succ = [t \in Thread |-> NullRef]
  /\ new  = [t \in Thread |-> NULL]
  /\ ret  = [t \in Thread |-> 0]

Goto(t, l) == pc' = [pc EXCEPT ![t] = l]

\* The operation of t ends and returns r.
Finish(t, r) == Goto(t, "done") /\ ret' = [ret EXCEPT ![t] = r]

-----------------------------------------------------------------------------
(* The calls.  A put of k brings a value, the other two an empty buffer.   *)

Call(t, op, k, b) ==
  /\ pc[t] = "idle"
  /\ <<op, k>> \in Calls[t]
  /\ b \in IF op = "put" THEN ValueOf[k] ELSE {EmptyBuf}
  /\ kind' = [kind EXCEPT ![t] = op]
  /\ arg'  = [arg EXCEPT ![t] = k]
  /\ buf'  = [buf EXCEPT ![t] = b]
  /\ ret'  = [ret EXCEPT ![t] = 0]
  /\ Goto(t, "find")
  /\ UNCHANGED <<heap, todo, pred, curr, succ, new>>

\* The caller takes the result; the locals of the call die with its frame.
Return(t) ==
  /\ pc[t] = "done"
  /\ Goto(t, "idle")
  /\ kind' = [kind EXCEPT ![t] = "none"]
  /\ arg'  = [arg EXCEPT ![t] = AnyKey]
  /\ buf'  = [buf EXCEPT ![t] = EmptyBuf]
  /\ pred' = [pred EXCEPT ![t] = Head]
  /\ curr' = [curr EXCEPT ![t] = NullRef]
  /\ succ' = [succ EXCEPT ![t] = NullRef]
  /\ ret'  = [ret EXCEPT ![t] = 0]
  /\ UNCHANGED <<heap, todo, new>>

-----------------------------------------------------------------------------
(* harris_find                                                             *)

\* Where the caller goes on when harris_find returns; hit: curr holds the key.
OnHit  == [put |-> "write", get |-> "read", del |-> "load", help |-> "find"]
OnMiss == [put |-> "alloc", get |-> "done", del |-> "done", help |-> "find"]

\* The words memcpy moves, KV_VALUE_BYTES in all.  Variant: the size of a pointer.
OneWord == {CHOOSE w \in Word : TRUE}
Span == Word

FindReturns(t, hit) ==
  /\ Goto(t, IF hit THEN OnHit[kind[t]] ELSE OnMiss[kind[t]])
  /\ kind' = [kind EXCEPT ![t] = IF @ = "help" THEN "del" ELSE @]
  /\ todo' = [todo EXCEPT ![t] = IF hit /\ kind[t] \in {"put", "get"} THEN Span ELSE {}]

\* The node is before the place of the key of t.  Variant: an equal key is, too.
NotAfter(n, t) == key[n] <= arg[t]
Before(n, t) == key[n] < arg[t]

\* The node that stopped the walk has the key.  Variant: the test is forgotten.
AnyNode(n, t) == TRUE
Found(n, t) == key[n] = arg[t]

\* Where a failed snip goes on.  Variant: to the same compare-and-swap.
SnipAgain == "snip"
TryAgain == "find"

\* try_again: start over from the sentinel.
FindStart(t) ==
  /\ pc[t] = "find"
  /\ pred' = [pred EXCEPT ![t] = Head]
  /\ curr' = [curr EXCEPT ![t] = next[Head]]
  /\ Goto(t, "walk")
  /\ UNCHANGED <<heap, kind, arg, buf, todo, succ, new, ret>>

\* curr_raw == 0: the walk ran off the end.
WalkOff(t) ==
  /\ pc[t] = "walk"
  /\ curr[t] = NullRef
  /\ FindReturns(t, FALSE)
  /\ UNCHANGED <<heap, arg, buf, pred, curr, succ, new, ret>>

\* curr_raw is the null pointer with the mark bit set: it is not 0, so the
\* code loads curr->next through a null curr and the process dies.
WalkFault(t) ==
  /\ pc[t] = "walk"
  /\ curr[t] = Marked(NullRef)
  /\ Goto(t, "fault")
  /\ UNCHANGED <<heap, locals>>

\* curr is marked: go and unlink it.
WalkMarked(t) ==
  /\ pc[t] = "walk"
  /\ curr[t].ptr # NULL
  /\ next[curr[t].ptr].mark
  /\ succ' = [succ EXCEPT ![t] = next[curr[t].ptr]]
  /\ Goto(t, "snip")
  /\ UNCHANGED <<heap, kind, arg, buf, todo, pred, curr, new, ret>>

\* curr is unmarked and its key is not below the one looked for: found a place.
WalkStop(t) ==
  /\ pc[t] = "walk"
  /\ curr[t].ptr # NULL
  /\ ~next[curr[t].ptr].mark
  /\ ~Before(curr[t].ptr, t)
  /\ FindReturns(t, Found(curr[t].ptr, t))
  /\ UNCHANGED <<heap, arg, buf, pred, curr, succ, new, ret>>

\* One node further.
WalkPast(t) ==
  /\ pc[t] = "walk"
  /\ curr[t].ptr # NULL
  /\ ~next[curr[t].ptr].mark
  /\ Before(curr[t].ptr, t)
  /\ pred' = [pred EXCEPT ![t] = curr[t].ptr]
  /\ curr' = [curr EXCEPT ![t] = next[curr[t].ptr]]
  /\ UNCHANGED <<heap, pc, kind, arg, buf, todo, succ, new, ret>>

\* Unlink the marked curr from pred, or start over.  The expected value is
\* curr_raw as it was loaded, mark bit included.
Snip(t) ==
  /\ pc[t] = "snip"
  /\ IF next[pred[t]] = curr[t]
     THEN /\ next' = [next EXCEPT ![pred[t]] = Plain(succ[t].ptr)]
          /\ Goto(t, "reload")
     ELSE /\ Goto(t, TryAgain)
          /\ UNCHANGED next
  /\ UNCHANGED <<allocated, key, val, locals>>

\* Load pred->next again after a snip.
Reload(t) ==
  /\ pc[t] = "reload"
  /\ curr' = [curr EXCEPT ![t] = next[pred[t]]]
  /\ Goto(t, "walk")
  /\ UNCHANGED <<heap, kind, arg, buf, todo, pred, succ, new, ret>>

-----------------------------------------------------------------------------
(* put_impl after harris_find                                              *)

\* The key is there: memcpy(curr->val, val), one word.
Write(t) ==
  /\ pc[t] = "write"
  /\ \E w \in todo[t] :
       /\ val'  = [val EXCEPT ![curr[t].ptr][w] = buf[t][w]]
       /\ todo' = [todo EXCEPT ![t] = @ \ {w}]
       /\ IF todo[t] = {w} THEN Finish(t, 1) ELSE UNCHANGED <<pc, ret>>
  /\ UNCHANGED <<allocated, key, next, kind, arg, buf, pred, curr, succ, new>>

\* node_new: the new node has the key, the value and a null next.
Alloc(t) ==
  /\ pc[t] = "alloc"
  /\ \E n \in Node \ allocated :
       /\ allocated' = allocated \cup {n}
       /\ key'  = [key EXCEPT ![n] = arg[t]]
       /\ val'  = [val EXCEPT ![n] = buf[t]]
       /\ next' = [next EXCEPT ![n] = FirstNext]
       /\ new'  = [new EXCEPT ![t] = n]
  /\ Goto(t, "link")
  /\ UNCHANGED <<kind, arg, buf, todo, pred, curr, succ, ret>>

\* malloc returned NULL.
AllocFails(t) ==
  /\ pc[t] = "alloc"
  /\ Finish(t, 0)
  /\ UNCHANGED <<heap, kind, arg, buf, todo, pred, curr, succ, new>>

\* What the free after the compare-and-swap takes: the node that was not linked.
\* Variant: the node in any case.
AlwaysFreed(t, linked) == {new[t]}
Freed(t, linked) == IF linked THEN {} ELSE {new[t]}

\* The compare-and-swap that publishes the new node after pred, or the free of
\* the node and another round.
Link(t) ==
  /\ pc[t] = "link"
  /\ IF next[pred[t]] = Plain(curr[t].ptr)
     THEN /\ next' = [next EXCEPT ![pred[t]] = Plain(new[t])]
          /\ allocated' = allocated \ Freed(t, TRUE)
          /\ Finish(t, 1)
     ELSE /\ allocated' = allocated \ Freed(t, FALSE)
          /\ Goto(t, "find")
          /\ UNCHANGED <<next, ret>>
  /\ new' = [new EXCEPT ![t] = NULL]
  /\ UNCHANGED <<key, val, kind, arg, buf, todo, pred, curr, succ>>

-----------------------------------------------------------------------------
(* get_impl after harris_find: memcpy(out, curr->val), one word.           *)

Read(t) ==
  /\ pc[t] = "read"
  /\ \E w \in todo[t] :
       /\ buf'  = [buf EXCEPT ![t][w] = val[curr[t].ptr][w]]
       /\ todo' = [todo EXCEPT ![t] = @ \ {w}]
       /\ IF todo[t] = {w} THEN Finish(t, 1) ELSE UNCHANGED <<pc, ret>>
  /\ UNCHANGED <<heap, kind, arg, pred, curr, succ, new>>

-----------------------------------------------------------------------------
(* del_impl after harris_find                                              *)

\* Load curr->next; somebody else has marked curr: return 0.
Load(t) ==
  /\ pc[t] = "load"
  /\ succ' = [succ EXCEPT ![t] = next[curr[t].ptr]]
  /\ IF next[curr[t].ptr].mark
     THEN Finish(t, 0)
     ELSE Goto(t, "mark") /\ UNCHANGED ret
  /\ UNCHANGED <<heap, kind, arg, buf, todo, pred, curr, new>>

\* The compare-and-swap that marks curr, or another round.
Mark(t) ==
  /\ pc[t] = "mark"
  /\ IF next[curr[t].ptr] = succ[t]
     THEN /\ next' = [next EXCEPT ![curr[t].ptr] = Marked(succ[t])]
          /\ Goto(t, "unlink")
     ELSE /\ Goto(t, "find")
          /\ UNCHANGED next
  /\ UNCHANGED <<allocated, key, val, locals>>

\* Variant: the thread that unlinks a node frees it.
UnlinkAndFree(t) ==
  /\ pc[t] = "unlink"
  /\ next[pred[t]] = Plain(curr[t].ptr)
  /\ next' = [next EXCEPT ![pred[t]] = succ[t]]
  /\ allocated' = allocated \ {curr[t].ptr}
  /\ Finish(t, 1)
  /\ UNCHANGED <<key, val, kind, arg, buf, todo, pred, curr, succ, new>>

\* The compare-and-swap that unlinks curr: return 1 if it succeeds.  If not,
\* harris_find runs for its side effect and del_impl starts all over.
Unlink(t) ==
  /\ pc[t] = "unlink"
  /\ IF next[pred[t]] = Plain(curr[t].ptr)
     THEN /\ next' = [next EXCEPT ![pred[t]] = succ[t]]
          /\ Finish(t, 1)
          /\ UNCHANGED kind
     ELSE /\ kind' = [kind EXCEPT ![t] = "help"]
          /\ Goto(t, "find")
          /\ UNCHANGED <<next, ret>>
  /\ UNCHANGED <<allocated, key, val, arg, buf, todo, pred, curr, succ, new>>

-----------------------------------------------------------------------------
Find(t) ==
  \/ FindStart(t) \/ WalkOff(t) \/ WalkFault(t) \/ WalkMarked(t)
  \/ WalkStop(t) \/ WalkPast(t) \/ Snip(t) \/ Reload(t)

\* Everything a thread does once it is inside an operation.
Work(t) ==
  \/ Find(t)
  \/ Write(t) \/ Alloc(t) \/ AllocFails(t) \/ Link(t)
  \/ Read(t)
  \/ Load(t) \/ Mark(t) \/ Unlink(t)
  \/ Return(t)

Begin(t) ==
  \E op \in Operation, k \in Key :
    \E b \in ValueOf[k] \cup {EmptyBuf} : Call(t, op, k, b)

\* A null dereference in one thread ends the whole process.
Faulted == \E t \in Thread : pc[t] = "fault"

Next == ~Faulted /\ \E t \in Thread : Begin(t) \/ Work(t)

Spec == Init /\ [][Next]_vars

\* The operating system runs every thread that can run; nothing makes a thread
\* call again once it has returned.
FairSpec == Spec /\ \A t \in Thread : WF_vars(~Faulted /\ Work(t))

-----------------------------------------------------------------------------
(* Properties                                                              *)

\* Every variable keeps its type.  In particular next never holds anything but a
\* reference, with or without its mark: node_new sets it before the node is seen.
TypeOK ==
  /\ allocated \in SUBSET Node
  /\ key  \in [Cell -> Nat]
  /\ val  \in [Node -> [Word -> Data \cup {Junk}]]
  /\ next \in [Cell -> Ref]
  /\ pc   \in [Thread -> Label]
  /\ kind \in [Thread -> {"none", "put", "get", "del", "help"}]
  /\ arg  \in [Thread -> Key]
  /\ buf  \in [Thread -> [Word -> Data \cup {Junk}]]
  /\ todo \in [Thread -> SUBSET Word]
  /\ pred \in [Thread -> Cell]
  /\ curr \in [Thread -> Ref]
  /\ succ \in [Thread -> Ref]
  /\ new  \in [Thread -> Node \cup {NULL}]
  /\ ret  \in [Thread -> {0, 1}]

\* The nodes other threads can have got hold of: all but those put_impl has
\* just allocated and not yet linked.
Public == allocated \ {new[t] : t \in Thread}

\* Every next pointer leads to a node with a strictly larger key, in the list
\* and in whatever has been cut off it: no cycle, no duplicate key, and
\* harris_find always gets to an end.
Sorted ==
  \A n \in Public \cup {Head} :
    next[n].ptr # NULL => key[n] < key[next[n].ptr]

\* Where harris_find's pointers may lead.
HoldsPublic(t) ==
  /\ pred[t] \in Public \cup {Head}
  /\ curr[t].ptr \in Public \cup {NULL}
  /\ succ[t].ptr \in Public \cup {NULL}

\* No thread ever holds, and no node ever stores, a pointer to a node that has
\* been freed or that another thread has not published yet.
NoDangling ==
  /\ \A n \in Public \cup {Head} : next[n].ptr \in Public \cup {NULL}
  /\ \A t \in Thread : HoldsPublic(t)

\* What one word of a value under k can be.
WordOf(k, w) == {v[w] : v \in ValueOf[k]}

\* A get that returns 1 has filled the whole buffer with words some put wrote
\* under that very key, whatever was being overwritten, unlinked or freed.
ReadsOwnKey ==
  \A t \in Thread :
    pc[t] = "done" /\ kind[t] = "get" /\ ret[t] = 1
      => \A w \in Word : buf[t][w] \in WordOf(arg[t], w)

\* A node once linked is never freed and never changes its key, so a pointer
\* comparison in a compare-and-swap cannot be fooled by a recycled address.
NeverRecycled ==
  [][\A n \in Public : n \in Public' /\ key'[n] = key[n]]_vars

\* harris_find never follows a null pointer.  The code breaks this: the reload after
\* a snip can return a null pointer with the mark bit set, which is not 0.
NoNullDereference == ~Faulted

\* The nodes a walk from the sentinel meets.
Reachable == Reach(Cell, [n \in Cell |-> next[n].ptr], NULL, Head)

\* The nodes whose keys the list holds.
Live == {n \in Reachable \ {Head} : ~next[n].mark}

\* A key leaves the map only by a delete: a live node stays in the list until
\* it is marked.  The code breaks this: put_impl links a node without its successor.
OnlyDeleteRemoves ==
  [][\A n \in Live : n \in Live' \/ next'[n].mark]_vars

\* A key enters the map only by a put: no node comes to life except the one a
\* put_impl has just linked; in particular a deleted node stays deleted.  The code
\* breaks this: the compare-and-swap of a snip can clear the mark of pred.
OnlyPutAdds ==
  [][\A n \in Live' \ Live : \E t \in Thread : new[t] = n]_vars

Busy(t) == pc[t] \notin {"idle", "done", "fault"}

\* Lock freedom: as long as some operation is in progress, some operation
\* returns.  (One thread can be overtaken for ever; all of them cannot.)
LockFree ==
  (\E t \in Thread : Busy(t)) ~> (Faulted \/ \E t \in Thread : pc[t] = "done")

=============================================================================
