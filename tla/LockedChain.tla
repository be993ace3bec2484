---------------------------- MODULE LockedChain ----------------------------
(***************************************************************************)
(* One bucket of the maps that chain their nodes behind a lock:            *)
(*   kv_mutex.c     a CRITICAL_SECTION for every operation,                *)
(*   kv_rwlock.c    an SRWLOCK that get takes shared,                      *)
(*   kv_wrongget.c  kv_mutex.c with a get that zeroes the caller's buffer  *)
(*                  instead of filling it.                                 *)
(* Otherwise the three files are the same text.  Buckets share nothing.    *)
(*                                                                         *)
(* A step is one round of a walk, one word of a memcpy, one call of the    *)
(* heap or of the lock.  A definition called a variant is a plausible      *)
(* mistake in the definition after it: the properties are tried on it.     *)
(***************************************************************************)
EXTENDS Naturals, Reach

CONSTANTS
  Thread,
  Node,       \* the addresses malloc can return
  Head,       \* the cell m->heads[b]
  NULL,
  Key,
  Word,       \* the words of a value buffer
  Data,       \* what one word can hold
  Junk,       \* a word of a buffer nobody has written yet
  Zero,       \* a word of zeros
  ValueOf,    \* ValueOf[k]: the values callers put under k
  Impl        \* the maps to look at: some of "mutex", "rwlock", "wrongget"

ASSUME LockedChainAssumption ==
  /\ Key # {}
  /\ Word # {}
  /\ Junk \notin Data
  /\ Zero \in Data
  /\ Head \notin Node
  /\ NULL \notin Node \cup {Head}
  /\ ValueOf \in [Key -> SUBSET [Word -> Data]]
  /\ Impl \subseteq {"mutex", "rwlock", "wrongget"}

VARIABLES
  impl,       \* the map this is a bucket of; it never changes
  writer,     \* the threads that have the lock for themselves
  readers,    \* the threads that have it shared
  allocated,  \* the nodes malloc has handed out and free has not taken back
  key, val,   \* Node.key, Node.val
  next,       \* Node.next, and m->heads[b]
  pc, kind, arg,
  buf,        \* the caller's buffer
  todo,       \* the words memcpy has still to move
  prev,       \* del's pp: the cell that leads to curr
  curr,       \* p
  new,        \* put's n
  ret

lock   == <<impl, writer, readers>>
heap   == <<allocated, key, val, next>>
locals == <<kind, arg, buf, todo, prev, curr, new, ret>>
vars   == <<lock, heap, pc, locals>>

Cell     == Node \cup {Head}
EmptyBuf == [w \in Word |-> Junk]
AnyKey   == CHOOSE k \in Key : TRUE

\* What create_impl leaves in m->heads[b].  Variant: malloc instead of calloc.
Uncleared == Junk
FirstHead == NULL

Init ==
  /\ impl \in Impl
  /\ writer = {} /\ readers = {}
  /\ allocated = {}
  /\ key  = [n \in Node |-> AnyKey]
  /\ val  = [n \in Node |-> EmptyBuf]
  /\ next = [n \in Cell |-> IF n = Head THEN FirstHead ELSE NULL]
  /\ pc   = [t \in Thread |-> "idle"]
  /\ kind = [t \in Thread |-> "none"]
  /\ arg  = [t \in Thread |-> AnyKey]
  /\ buf  = [t \in Thread |-> EmptyBuf]
  /\ todo = [t \in Thread |-> {}]
  /\ prev = [t \in Thread |-> Head]
  /\ curr = [t \in Thread |-> NULL]
  /\ new  = [t \in Thread |-> NULL]
  /\ ret  = [t \in Thread |-> 0]

Goto(t, l) == pc' = [pc EXCEPT ![t] = l]

\* The operation is over but for the release of the lock; it will return r.
Decide(t, r) == Goto(t, "release") /\ ret' = [ret EXCEPT ![t] = r]

-----------------------------------------------------------------------------
(* The calls and the lock                                                  *)

Call(t, op, k, b) ==
  /\ pc[t] = "idle"
  /\ b \in IF op = "put" THEN ValueOf[k] ELSE {EmptyBuf}
  /\ kind' = [kind EXCEPT ![t] = op]
  /\ arg'  = [arg EXCEPT ![t] = k]
  /\ buf'  = [buf EXCEPT ![t] = b]
  /\ Goto(t, "acquire")
  /\ UNCHANGED <<lock, heap, todo, prev, curr, new, ret>>

Begin(t) ==
  \E op \in {"put", "get", "del"}, k \in Key :
    \E b \in ValueOf[k] \cup {EmptyBuf} : Call(t, op, k, b)

\* t takes the lock shared.  Variant: put does, too.
SharedPut(t) == impl = "rwlock" /\ kind[t] # "del"
Shared(t) == impl = "rwlock" /\ kind[t] = "get"

\* The lock lets t in.  Variant: a writer does not wait for the readers.
IgnoresReaders(t) == writer = {}
CanEnter(t) == writer = {} /\ (Shared(t) \/ readers = {})

\* EnterCriticalSection or AcquireSRWLock..., and the load of the chain's head.
Acquire(t) ==
  /\ pc[t] = "acquire"
  /\ CanEnter(t)
  /\ IF Shared(t)
     THEN readers' = readers \cup {t} /\ UNCHANGED writer
     ELSE writer' = writer \cup {t} /\ UNCHANGED readers
  /\ prev' = [prev EXCEPT ![t] = Head]
  /\ curr' = [curr EXCEPT ![t] = next[Head]]
  /\ Goto(t, "walk")
  /\ UNCHANGED <<impl, heap, kind, arg, buf, todo, new, ret>>

\* LeaveCriticalSection or ReleaseSRWLock...
Release(t) ==
  /\ pc[t] = "release"
  /\ writer' = writer \ {t}
  /\ readers' = readers \ {t}
  /\ Goto(t, "done")
  /\ UNCHANGED <<impl, heap, locals>>

\* The caller takes the result; the locals of the call die with its frame.
Return(t) ==
  /\ pc[t] = "done"
  /\ Goto(t, "idle")
  /\ kind' = [kind EXCEPT ![t] = "none"]
  /\ arg'  = [arg EXCEPT ![t] = AnyKey]
  /\ buf'  = [buf EXCEPT ![t] = EmptyBuf]
  /\ prev' = [prev EXCEPT ![t] = Head]
  /\ curr' = [curr EXCEPT ![t] = NULL]
  /\ ret'  = [ret EXCEPT ![t] = 0]
  /\ UNCHANGED <<lock, heap, todo, new>>

-----------------------------------------------------------------------------
(* The walk                                                                *)

\* The node the walk goes on to.  Variant: the loop forgets to go on.
Stay(t) == curr[t]
After(t) == next[curr[t]]

Step(t) ==
  /\ pc[t] = "walk"
  /\ curr[t] # NULL
  /\ key[curr[t]] # arg[t]
  /\ prev' = IF kind[t] = "del" THEN [prev EXCEPT ![t] = curr[t]] ELSE prev
  /\ curr' = [curr EXCEPT ![t] = After(t)]
  /\ UNCHANGED <<lock, heap, pc, kind, arg, buf, todo, new, ret>>

OnHit == [put |-> "write", get |-> "read", del |-> "unlink"]

Hit(t) ==
  /\ pc[t] = "walk"
  /\ curr[t] # NULL
  /\ key[curr[t]] = arg[t]
  /\ Goto(t, OnHit[kind[t]])
  /\ todo' = [todo EXCEPT ![t] = IF kind[t] = "del" THEN {} ELSE Word]
  /\ UNCHANGED <<lock, heap, kind, arg, buf, prev, curr, new, ret>>

Miss(t) ==
  /\ pc[t] = "walk"
  /\ curr[t] = NULL
  /\ IF kind[t] = "put" THEN Goto(t, "alloc") /\ UNCHANGED ret ELSE Decide(t, 0)
  /\ UNCHANGED <<lock, heap, kind, arg, buf, todo, prev, curr, new>>

-----------------------------------------------------------------------------
(* put                                                                     *)

\* memcpy(p->val, val), one word.
Write(t) ==
  /\ pc[t] = "write"
  /\ \E w \in todo[t] :
       /\ val'  = [val EXCEPT ![curr[t]][w] = buf[t][w]]
       /\ todo' = [todo EXCEPT ![t] = @ \ {w}]
       /\ IF todo[t] = {w} THEN Decide(t, 1) ELSE UNCHANGED <<pc, ret>>
  /\ UNCHANGED <<lock, allocated, key, next, kind, arg, buf, prev, curr, new>>

\* node_new
Alloc(t) ==
  /\ pc[t] = "alloc"
  /\ \E n \in Node \ allocated :
       /\ allocated' = allocated \cup {n}
       /\ key'  = [key EXCEPT ![n] = arg[t]]
       /\ val'  = [val EXCEPT ![n] = buf[t]]
       /\ next' = [next EXCEPT ![n] = NULL]
       /\ new'  = [new EXCEPT ![t] = n]
  /\ Goto(t, "push")
  /\ UNCHANGED <<lock, kind, arg, buf, todo, prev, curr, ret>>

\* malloc returned NULL.
AllocFails(t) ==
  /\ pc[t] = "alloc"
  /\ Decide(t, 0)
  /\ UNCHANGED <<lock, heap, kind, arg, buf, todo, prev, curr, new>>

\* Variant: n->next is never set.
PushedAlone(t) == [next EXCEPT ![Head] = new[t]]
Pushed(t) == [next EXCEPT ![new[t]] = next[Head], ![Head] = new[t]]

\* The new node becomes the first of the chain.
Push(t) ==
  /\ pc[t] = "push"
  /\ next' = Pushed(t)
  /\ new'  = [new EXCEPT ![t] = NULL]
  /\ Decide(t, 1)
  /\ UNCHANGED <<lock, allocated, key, val, kind, arg, buf, todo, prev, curr>>

-----------------------------------------------------------------------------
(* get: memcpy(out, p->val), or memset(out, 0), one word.                  *)

\* What lands in the caller's buffer.
Delivered(t, w) == IF impl = "wrongget" THEN Zero ELSE val[curr[t]][w]

Read(t) ==
  /\ pc[t] = "read"
  /\ \E w \in todo[t] :
       /\ buf'  = [buf EXCEPT ![t][w] = Delivered(t, w)]
       /\ todo' = [todo EXCEPT ![t] = @ \ {w}]
       /\ IF todo[t] = {w} THEN Decide(t, 1) ELSE UNCHANGED <<pc, ret>>
  /\ UNCHANGED <<lock, heap, kind, arg, prev, curr, new>>

-----------------------------------------------------------------------------
(* del                                                                     *)

\* *pp = z->next
Unlink(t) ==
  /\ pc[t] = "unlink"
  /\ next' = [next EXCEPT ![prev[t]] = next[curr[t]]]
  /\ Goto(t, "free")
  /\ UNCHANGED <<lock, allocated, key, val, locals>>

\* free(z).  What the node holds after that is nobody's to read: it is cleared here.
Free(t) ==
  /\ pc[t] = "free"
  /\ allocated' = allocated \ {curr[t]}
  /\ key'  = [key EXCEPT ![curr[t]] = AnyKey]
  /\ val'  = [val EXCEPT ![curr[t]] = EmptyBuf]
  /\ next' = [next EXCEPT ![curr[t]] = NULL]
  /\ Decide(t, 1)
  /\ UNCHANGED <<lock, kind, arg, buf, todo, prev, curr, new>>

-----------------------------------------------------------------------------
\* What a thread does once it has the lock.
Inside(t) ==
  \/ Step(t) \/ Hit(t) \/ Miss(t)
  \/ Write(t) \/ Alloc(t) \/ AllocFails(t) \/ Push(t)
  \/ Read(t)
  \/ Unlink(t) \/ Free(t)
  \/ Release(t)

Next == \E t \in Thread : Begin(t) \/ Acquire(t) \/ Inside(t) \/ Return(t)

Spec == Init /\ [][Next]_vars

\* A thread that can run does.  Neither lock is fair: a thread that asks for it
\* may be overtaken for ever, so Acquire is only promised if it stays possible.
FairSpec ==
  /\ Spec
  /\ \A t \in Thread : WF_vars(Acquire(t)) /\ WF_vars(Inside(t)) /\ WF_vars(Return(t))

-----------------------------------------------------------------------------
(* Properties                                                              *)

\* Every variable keeps its type.  In particular a chain never leads to anything
\* but nodes: create_impl clears the heads, and node_new the next of a node.
TypeOK ==
  /\ impl \in Impl /\ writer \in SUBSET Thread /\ readers \in SUBSET Thread
  /\ allocated \in SUBSET Node
  /\ key  \in [Node -> Key]
  /\ val  \in [Node -> [Word -> Data \cup {Junk}]]
  /\ next \in [Cell -> Node \cup {NULL}]
  /\ pc   \in [Thread -> {"idle", "acquire", "walk", "write", "alloc", "push", "read",
                          "unlink", "free", "release", "done"}]
  /\ kind \in [Thread -> {"none", "put", "get", "del"}]
  /\ arg  \in [Thread -> Key]
  /\ buf  \in [Thread -> [Word -> Data \cup {Junk}]]
  /\ todo \in [Thread -> SUBSET Word]
  /\ prev \in [Thread -> Cell]
  /\ curr \in [Thread -> Node \cup {NULL}]
  /\ new  \in [Thread -> Node \cup {NULL}]
  /\ ret  \in [Thread -> {0, 1}]

\* The nodes on the chain.
Chain == Reach(Cell, next, NULL, Head) \ {Head}

\* The program points at which a thread has the lock and looks at curr.
Looking(t) == pc[t] \in {"walk", "write", "read", "unlink", "free"}

\* A thread inside never touches a node that has been freed, although del frees
\* nodes that others were walking over until they let go of the lock.
NoUseAfterFree ==
  \A t \in Thread : Looking(t) => curr[t] \in allocated \cup {NULL}

\* Malloc and free balance: whenever nobody has the lock, the nodes allocated
\* are those on the chain, each key on one of them.
NoLeak ==
  writer = {} =>
    /\ allocated = Chain
    /\ \A m, n \in Chain : key[m] = key[n] => m = n

\* Whoever gets the lock gives it back and returns: every path through an
\* operation releases it, and the chain the thread walks has an end.
HolderReturns ==
  \A t \in Thread : t \in writer \cup readers ~> pc[t] = "done"

=============================================================================
