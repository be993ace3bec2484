------------------------- MODULE LockedChainProofs -------------------------
(***************************************************************************)
(* LockedChain for any number of threads, nodes, keys and words: the lock  *)
(* keeps writers apart from everybody else, and no thread touches a node   *)
(* that has been freed.                                                    *)
(*                                                                         *)
(* The invariant is built in layers, each inductive relative to those      *)
(* before it:                                                              *)
(*   TypeOK, Control   what each program point says about the locals       *)
(*   Locks, Exclusive  who is inside, and with whom                        *)
(*   Shape             the nodes of the chain lead to nodes of the chain,  *)
(*                     and no two of them to the same                      *)
(*   Walks             where the threads inside are on the chain           *)
(***************************************************************************)
EXTENDS LockedChainMap, SharedLemmas

\* Abbreviations every proof may expand.
USE DEF FirstHead, After, Pushed, Delivered

-----------------------------------------------------------------------------
(* The layers of the invariant                                             *)

\* The program points between taking the lock and giving it back.
InLock == {"walk", "write", "alloc", "push", "read", "unlink", "free", "release"}

\* What the program point of t says about its locals.
ControlAt(t) ==
  /\ kind[t] = "none" <=> pc[t] = "idle"
  /\ pc[t] \in {"write", "alloc", "push"} => kind[t] = "put"
  /\ pc[t] = "read" => kind[t] = "get"
  /\ pc[t] \in {"unlink", "free"} => kind[t] = "del"
  /\ pc[t] \in {"write", "read", "unlink", "free"} => curr[t] # NULL
  /\ pc[t] = "push" <=> new[t] # NULL

Control == \A t \in Thread : ControlAt(t)

\* A thread has the lock exactly while it is inside, shared if it is a get of the
\* reader/writer map.
LockAt(t) ==
  /\ t \in writer  <=> pc[t] \in InLock /\ ~Shared(t)
  /\ t \in readers <=> pc[t] \in InLock /\ Shared(t)

Locks == \A t \in Thread : LockAt(t)

\* Who has it for himself is alone.
Exclusive == \A t \in writer : writer = {t} /\ readers = {}

\* The nodes put has allocated and not pushed yet, and those del has cut off and
\* not freed yet.
Detached == {new[t] : t \in Thread} \cup {curr[t] : t \in {u \in Thread : pc[u] = "free"}}

\* The cells of the chain.
Linked == (allocated \ Detached) \cup {Head}

\* The chain leads to nodes of the chain, and to each in one way only.
Shape ==
  /\ \A c \in Linked : next[c] # NULL => next[c] \in Linked
  /\ \A c, d \in Linked : next[c] = next[d] /\ next[c] # NULL => c = d

\* Where t is.
Walk(t) ==
  /\ pc[t] \in {"walk", "write", "read", "unlink"} => curr[t] \in Linked \cup {NULL}
  /\ pc[t] \in {"walk", "unlink"} /\ kind[t] = "del" =>
       prev[t] \in Linked /\ next[prev[t]] = curr[t] /\ prev[t] # curr[t]
  /\ pc[t] = "free" => curr[t] \in allocated
  /\ pc[t] = "push" => new[t] \in allocated

Walks == \A t \in Thread : Walk(t)

\* A walk from the head meets every node of the chain: none is ever cut off.
Whole == Reach(Cell, next, NULL, Head) = Linked

\* No key is on two nodes of the chain.
OneEach == \A m, n \in Linked \ {Head} : key[m] = key[n] => m = n

\* What the walk of t has found: the node with its key, if there is one, is still
\* ahead of it; then it is curr, or there is none.
FoundBy(t) ==
  /\ pc[t] = "walk" =>
       \A n \in Linked \ {Head} : key[n] = arg[t] => n \in Reach(Cell, next, NULL, curr[t])
  /\ pc[t] \in {"alloc", "push"} => \A n \in Linked \ {Head} : key[n] # arg[t]
  /\ pc[t] \in {"write", "read", "unlink"} => key[curr[t]] = arg[t]
  /\ pc[t] = "push" => key[new[t]] = arg[t]

Found == \A t \in Thread : FoundBy(t)

\* What t has copied so far, and what it copies.
CopyBy(t) ==
  /\ kind[t] = "put" => buf[t] \in ValueOf[arg[t]]
  /\ pc[t] \in {"write", "read"} => todo[t] # {}
  /\ pc[t] = "write" => \A w \in Word \ todo[t] : val[curr[t]][w] = buf[t][w]
  /\ pc[t] = "read" => \A w \in Word \ todo[t] : buf[t][w] = Delivered(t, w)
  /\ pc[t] = "push" => val[new[t]] = buf[t]

Copies == \A t \in Thread : CopyBy(t)

\* A node that nobody is writing holds a value somebody has put under its key.
Values ==
  \A n \in Linked \ {Head} :
    (\A t \in Thread : ~(pc[t] = "write" /\ curr[t] = n)) => val[n] \in ValueOf[key[n]]

\* The inductive invariant.
IInv ==
  /\ TypeOK /\ Control /\ Locks /\ Exclusive
  /\ Shape /\ Walks /\ Whole /\ OneEach /\ Found
  /\ Copies /\ Values

-----------------------------------------------------------------------------
\* What thread t can do.
Move(t) == Begin(t) \/ Acquire(t) \/ Inside(t) \/ Return(t)

\* The key of a thread that makes no call is a key.
LEMMA AnyKeyIsKey == AnyKey \in Key
  BY LockedChainAssumption DEF AnyKey

\* Every assignment of every action is of the variable's type: a pointer that is
\* dereferenced or stored is a node where the program point says so.
LEMMA TypeStep ==
  ASSUME TypeOK, Control, NEW t \in Thread, Move(t)
  PROVE  TypeOK'
<1> USE DEF Goto, Decide, lock, heap, locals, TypeOK, Cell, EmptyBuf
<1>c. ControlAt(t)
  BY DEF Control
<1>1. CASE Begin(t)
  BY <1>1, <1>c, LockedChainAssumption DEF Begin, Call, ControlAt
<1>2. CASE Acquire(t)
  BY <1>2, <1>c DEF Acquire, ControlAt
<1>3. CASE Step(t)
  BY <1>3, <1>c DEF Step, ControlAt
<1>4. CASE Hit(t)
  BY <1>4, <1>c DEF Hit, OnHit, ControlAt
<1>5. CASE Miss(t)
  BY <1>5, <1>c DEF Miss, ControlAt
<1>6. CASE Write(t)
  <2> PICK w \in todo[t] :
         /\ val'  = [val EXCEPT ![curr[t]][w] = buf[t][w]]
         /\ todo' = [todo EXCEPT ![t] = @ \ {w}]
         /\ IF todo[t] = {w} THEN Decide(t, 1) ELSE UNCHANGED <<pc, ret>>
    BY <1>6 DEF Write
  <2>1. curr[t] \in Node /\ w \in Word /\ buf[t][w] \in Data \cup {Junk}
    BY <1>6, <1>c DEF Write, ControlAt
  <2>2. [val[curr[t]] EXCEPT ![w] = buf[t][w]] \in [Word -> Data \cup {Junk}]
    BY <2>1
  <2>3. val' \in [Node -> [Word -> Data \cup {Junk}]]
    BY <2>1, <2>2
  <2>4. /\ pc' \in [Thread -> {"idle", "acquire", "walk", "write", "alloc", "push", "read",
                              "unlink", "free", "release", "done"}]
        /\ todo' \in [Thread -> SUBSET Word] /\ ret' \in [Thread -> {0, 1}]
    OBVIOUS
  <2>5. UNCHANGED <<impl, writer, readers, allocated, key, next, kind, arg, buf, prev, curr, new>>
    BY <1>6 DEF Write
  <2> QED  BY <2>3, <2>4, <2>5
<1>7. CASE Alloc(t)
  BY <1>7, <1>c DEF Alloc, ControlAt
<1>8. CASE AllocFails(t)
  BY <1>8, <1>c DEF AllocFails, ControlAt
<1>9. CASE Push(t)
  BY <1>9, <1>c DEF Push, ControlAt
<1>10. CASE Read(t)
  <2> PICK w \in todo[t] :
         /\ buf'  = [buf EXCEPT ![t][w] = Delivered(t, w)]
         /\ todo' = [todo EXCEPT ![t] = @ \ {w}]
         /\ IF todo[t] = {w} THEN Decide(t, 1) ELSE UNCHANGED <<pc, ret>>
    BY <1>10 DEF Read
  <2>1. w \in Word /\ Delivered(t, w) \in Data \cup {Junk}
    BY <1>10, <1>c, LockedChainAssumption DEF Read, ControlAt
  <2>2. [buf[t] EXCEPT ![w] = Delivered(t, w)] \in [Word -> Data \cup {Junk}]
    BY <2>1
  <2>3. buf' \in [Thread -> [Word -> Data \cup {Junk}]]
    BY <2>1, <2>2
  <2>4. /\ pc' \in [Thread -> {"idle", "acquire", "walk", "write", "alloc", "push", "read",
                              "unlink", "free", "release", "done"}]
        /\ todo' \in [Thread -> SUBSET Word] /\ ret' \in [Thread -> {0, 1}]
    OBVIOUS
  <2>5. UNCHANGED <<impl, writer, readers, allocated, key, val, next, kind, arg, prev, curr, new>>
    BY <1>10 DEF Read
  <2> QED  BY <2>3, <2>4, <2>5
<1>11. CASE Unlink(t)
  BY <1>11, <1>c DEF Unlink, ControlAt
<1>12. CASE Free(t)
  BY <1>12, <1>c, AnyKeyIsKey DEF Free, ControlAt
<1>13. CASE Release(t)
  BY <1>13, <1>c DEF Release, ControlAt
<1>14. CASE Return(t)
  BY <1>14, <1>c, AnyKeyIsKey DEF Return, ControlAt
<1> QED  BY <1>1, <1>2, <1>3, <1>4, <1>5, <1>6, <1>7, <1>8, <1>9, <1>10, <1>11, <1>12, <1>13, <1>14 DEF Move, Inside

\* A thread is at a program point only in the operations that have it, and has a
\* node wherever it needs one.
LEMMA ControlStep ==
  ASSUME TypeOK, Control, NEW t \in Thread, Move(t)
  PROVE  Control'
<1> USE DEF Goto, Decide, lock, heap, locals, ControlAt
<1> SUFFICES ASSUME NEW u \in Thread PROVE ControlAt(u)'
  BY DEF Control
<1>c. ControlAt(u) /\ ControlAt(t)
  BY DEF Control
<1>t. /\ pc   \in [Thread -> {"idle", "acquire", "walk", "write", "alloc", "push", "read",
                               "unlink", "free", "release", "done"}]
      /\ kind \in [Thread -> {"none", "put", "get", "del"}]
      /\ curr \in [Thread -> Node \cup {NULL}]
      /\ new  \in [Thread -> Node \cup {NULL}]
  BY DEF TypeOK
<1>1. CASE Begin(t)
  BY <1>1, <1>c, <1>t DEF Begin, Call
<1>2. CASE Acquire(t)
  BY <1>2, <1>c, <1>t DEF Acquire
<1>3. CASE Step(t)
  BY <1>3, <1>c, <1>t DEF Step
<1>4. CASE Hit(t)
  BY <1>4, <1>c, <1>t DEF Hit, OnHit
<1>5. CASE Miss(t)
  BY <1>5, <1>c, <1>t DEF Miss
<1>6. CASE Write(t)
  BY <1>6, <1>c, <1>t DEF Write
<1>7. CASE Alloc(t)
  BY <1>7, <1>c, <1>t, LockedChainAssumption DEF Alloc
<1>8. CASE AllocFails(t)
  BY <1>8, <1>c, <1>t DEF AllocFails
<1>9. CASE Push(t)
  BY <1>9, <1>c, <1>t DEF Push
<1>10. CASE Read(t)
  BY <1>10, <1>c, <1>t DEF Read
<1>11. CASE Unlink(t)
  BY <1>11, <1>c, <1>t DEF Unlink
<1>12. CASE Free(t)
  BY <1>12, <1>c, <1>t DEF Free
<1>13. CASE Release(t)
  BY <1>13, <1>c, <1>t DEF Release
<1>14. CASE Return(t)
  BY <1>14, <1>c, <1>t DEF Return
<1> QED  BY <1>1, <1>2, <1>3, <1>4, <1>5, <1>6, <1>7, <1>8, <1>9, <1>10, <1>11, <1>12, <1>13, <1>14 DEF Move, Inside

\* Whoever is inside has the lock as CanEnter has given it, and nobody else has.
LEMMA LocksStep ==
  ASSUME TypeOK, Control, Locks, NEW t \in Thread, Move(t)
  PROVE  Locks'
<1> USE DEF Goto, Decide, lock, heap, locals, Shared, InLock, LockAt
<1> SUFFICES ASSUME NEW u \in Thread PROVE LockAt(u)'
  BY DEF Locks
<1>c. ControlAt(u) /\ ControlAt(t)
  BY DEF Control
<1>l. LockAt(u) /\ LockAt(t)
  BY DEF Locks
<1>t. /\ pc   \in [Thread -> {"idle", "acquire", "walk", "write", "alloc", "push", "read",
                               "unlink", "free", "release", "done"}]
      /\ kind \in [Thread -> {"none", "put", "get", "del"}]
      /\ writer \in SUBSET Thread /\ readers \in SUBSET Thread
  BY DEF TypeOK
<1>1. CASE Begin(t)
  BY <1>1, <1>l, <1>t, <1>c DEF Begin, Call, ControlAt
<1>2. CASE Acquire(t)
  BY <1>2, <1>l, <1>t, <1>c DEF Acquire
<1>3. CASE Step(t)
  BY <1>3, <1>l, <1>t, <1>c DEF Step
<1>4. CASE Hit(t)
  BY <1>4, <1>l, <1>t, <1>c DEF Hit, OnHit, ControlAt
<1>5. CASE Miss(t)
  BY <1>5, <1>l, <1>t, <1>c DEF Miss, ControlAt
<1>6. CASE Write(t)
  BY <1>6, <1>l, <1>t, <1>c DEF Write
<1>7. CASE Alloc(t)
  BY <1>7, <1>l, <1>t, <1>c DEF Alloc
<1>8. CASE AllocFails(t)
  BY <1>8, <1>l, <1>t, <1>c DEF AllocFails
<1>9. CASE Push(t)
  BY <1>9, <1>l, <1>t, <1>c DEF Push
<1>10. CASE Read(t)
  BY <1>10, <1>l, <1>t, <1>c DEF Read
<1>11. CASE Unlink(t)
  BY <1>11, <1>l, <1>t, <1>c DEF Unlink
<1>12. CASE Free(t)
  BY <1>12, <1>l, <1>t, <1>c DEF Free
<1>13. CASE Release(t)
  BY <1>13, <1>l, <1>t, <1>c DEF Release
<1>14. CASE Return(t)
  BY <1>14, <1>l, <1>t, <1>c DEF Return, ControlAt
<1> QED  BY <1>1, <1>2, <1>3, <1>4, <1>5, <1>6, <1>7, <1>8, <1>9, <1>10, <1>11, <1>12, <1>13, <1>14 DEF Move, Inside

\* CanEnter lets a thread in only if nobody else is, or all are readers.
LEMMA ExclusiveStep ==
  ASSUME TypeOK, Control, Locks, Exclusive, NEW t \in Thread, Move(t)
  PROVE  Exclusive'
<1> USE DEF lock, Exclusive, TypeOK
<1>1. CASE Acquire(t)
  <2>1. CASE Shared(t)
    BY <1>1, <2>1 DEF Acquire, CanEnter
  <2>2. CASE ~Shared(t)
    BY <1>1, <2>2 DEF Acquire, CanEnter
  <2> QED  BY <2>1, <2>2
<1>2. CASE Release(t)
  BY <1>2 DEF Release
<1>3. CASE ~Acquire(t) /\ ~Release(t)
  <2>1. writer' = writer /\ readers' = readers
    BY <1>3 DEF Move, Inside, Begin, Call, Step, Hit, Miss, Write, Alloc, AllocFails, Push,
                Read, Unlink, Free, Return
  <2> QED  BY <2>1
<1> QED  BY <1>1, <1>2, <1>3

\* A thread that is about to change the chain or a value is alone inside.
LEMMA Alone ==
  ASSUME TypeOK, Control, Locks, Exclusive,
         NEW t \in Thread, pc[t] \in {"write", "alloc", "push", "unlink", "free"},
         NEW u \in Thread, u # t
  PROVE  pc[u] \notin InLock
<1>1. kind[t] \in {"put", "del"}
  BY DEF Control, ControlAt
<1>2. t \in writer
  BY <1>1 DEF Locks, LockAt, Shared, InLock
<1>3. u \notin writer /\ u \notin readers
  BY <1>2 DEF Exclusive
<1> QED  BY <1>3 DEF Locks, LockAt

-----------------------------------------------------------------------------
(* The chain                                                               *)

\* What a step that leaves the heap alone keeps.
LEMMA SameChain ==
  ASSUME TypeOK, Control, Shape, NEW t \in Thread,
         UNCHANGED <<allocated, next, new>>, pc[t] # "free", pc'[t] # "free",
         \A u \in Thread : u # t => pc'[u] = pc[u] /\ curr'[u] = curr[u]
  PROVE  Linked' = Linked /\ Shape'
<1>1. {u \in Thread : pc'[u] = "free"} = {u \in Thread : pc[u] = "free"}
  OBVIOUS
<1>2. Detached' = Detached
  BY <1>1 DEF Detached
<1>3. Linked' = Linked
  BY <1>2 DEF Linked
<1> QED  BY <1>3 DEF Shape

\* Nobody but t is detaching a node when t is about to change the chain.
LEMMA OnlyMine ==
  ASSUME TypeOK, Control, Locks, Exclusive,
         NEW t \in Thread, pc[t] \in {"write", "alloc", "push", "unlink", "free"}
  PROVE  Detached \ {NULL} = IF pc[t] = "push" THEN {new[t]} ELSE IF pc[t] = "free" THEN {curr[t]} ELSE {}
<1>1. \A u \in Thread : u # t => new[u] = NULL /\ pc[u] # "free"
  BY Alone DEF InLock, Control, ControlAt
<1>2. /\ pc[t] = "push" <=> new[t] # NULL
      /\ pc[t] = "free" => curr[t] # NULL
  BY DEF Control, ControlAt
<1> QED  BY <1>1, <1>2 DEF Detached

\* A step that neither allocates, links, unlinks nor frees.
Quiet(t) == Move(t) /\ ~Alloc(t) /\ ~Push(t) /\ ~Unlink(t) /\ ~Free(t)

LEMMA QuietStep ==
  ASSUME TypeOK, Control, Shape, NEW t \in Thread, Quiet(t)
  PROVE  /\ UNCHANGED <<allocated, key, next, new>> /\ Linked' = Linked /\ Shape'
         /\ \A u \in Thread : u # t => pc'[u] = pc[u] /\ curr'[u] = curr[u] /\ arg'[u] = arg[u]
                                       /\ prev'[u] = prev[u] /\ kind'[u] = kind[u]
<1> USE DEF Goto, Decide, lock, heap, locals, TypeOK
<1>1. UNCHANGED <<allocated, key, next, new>> /\ pc[t] # "free" /\ pc'[t] # "free"
  BY DEF Quiet, Move, Inside, Begin, Call, Acquire, Step, Hit, OnHit, Miss, Write, AllocFails, Read,
         Release, Return, Control, ControlAt
<1>2. \A u \in Thread : u # t => pc'[u] = pc[u] /\ curr'[u] = curr[u] /\ arg'[u] = arg[u]
                                 /\ prev'[u] = prev[u] /\ kind'[u] = kind[u]
  BY DEF Quiet, Move, Inside, Begin, Call, Acquire, Step, Hit, Miss, Write, AllocFails, Read,
         Release, Return
<1> QED  BY <1>1, <1>2, SameChain

\* Nobody but t changes the chain or frees a node while t does.
Loud(t) == Alloc(t) \/ Push(t) \/ Unlink(t) \/ Free(t)

LEMMA LoudStep ==
  ASSUME TypeOK, Control, Locks, Exclusive, NEW t \in Thread, Loud(t)
  PROVE  /\ pc[t] \in {"alloc", "push", "unlink", "free"}
         /\ \A u \in Thread : u # t => /\ pc[u] \notin InLock /\ pc'[u] = pc[u]
                                       /\ new[u] = NULL /\ new'[u] = NULL
<1> USE DEF Goto, Decide, TypeOK
<1>1. pc[t] \in {"alloc", "push", "unlink", "free"}
  BY DEF Loud, Alloc, Push, Unlink, Free
<1>2. \A u \in Thread : u # t => pc[u] \notin InLock /\ new[u] = NULL
  BY <1>1, Alone DEF InLock, Control, ControlAt
<1>3. \A u \in Thread : u # t => pc'[u] = pc[u] /\ new'[u] = new[u]
  BY DEF Loud, Alloc, Push, Unlink, Free, locals
<1> QED  BY <1>1, <1>2, <1>3

\* What put allocates joins the chain when it is pushed, in front of it; what del
\* cuts off leaves the chain, and the cell before it takes its successor over.
LEMMA LoudLinked ==
  ASSUME TypeOK, Control, Locks, Exclusive, Shape, Walks, NEW t \in Thread, Loud(t)
  PROVE  /\ Alloc(t) \/ Free(t) => Linked' = Linked /\ \A c \in Linked : next'[c] = next[c]
         /\ Push(t) =>
              /\ new[t] \in Node \ Linked /\ Linked' = Linked \cup {new[t]}
              /\ next'[Head] = new[t] /\ next'[new[t]] = next[Head]
              /\ \A c \in Linked \ {Head} : next'[c] = next[c]
         /\ Unlink(t) =>
              /\ curr[t] \in Linked /\ curr[t] \in Node /\ Linked' = Linked \ {curr[t]}
              /\ prev[t] \in Linked /\ prev[t] # curr[t] /\ next[prev[t]] = curr[t]
              /\ next'[prev[t]] = next[curr[t]]
              /\ \A c \in Linked \ {prev[t]} : next'[c] = next[c]
<1> USE DEF Goto, Decide, Cell
<1>a. pc[t] \in {"alloc", "push", "unlink", "free"}
      /\ \A u \in Thread : u # t => /\ pc[u] \notin InLock /\ pc'[u] = pc[u]
                                    /\ new[u] = NULL /\ new'[u] = NULL
  BY LoudStep
<1>b. Detached \ {NULL} = IF pc[t] = "push" THEN {new[t]} ELSE IF pc[t] = "free" THEN {curr[t]} ELSE {}
  BY <1>a, OnlyMine
<1>c. NULL \notin Node /\ Head \notin Node /\ allocated \subseteq Node /\ Head # NULL
  BY LockedChainAssumption DEF TypeOK
<1>t. /\ pc \in [Thread -> {"idle", "acquire", "walk", "write", "alloc", "push", "read",
                            "unlink", "free", "release", "done"}]
      /\ next \in [Node \cup {Head} -> Node \cup {NULL}]
      /\ curr \in [Thread -> Node \cup {NULL}] /\ new \in [Thread -> Node \cup {NULL}]
      /\ prev \in [Thread -> Node \cup {Head}]
  BY DEF TypeOK
<1>f. /\ Linked \subseteq Node \cup {Head} /\ Head \in Linked
      /\ \A u \in Thread : u # t => pc[u] # "free" /\ pc'[u] # "free"
  BY <1>a, <1>c DEF Linked, InLock
<1>1. ASSUME Alloc(t)
      PROVE  Linked' = Linked /\ \A c \in Linked : next'[c] = next[c]
  <2> PICK n \in Node \ allocated : /\ allocated' = allocated \cup {n}
                                    /\ next' = [next EXCEPT ![n] = NULL]
                                    /\ new' = [new EXCEPT ![t] = n]
    BY <1>1 DEF Alloc
  <2>1. Linked = allocated \cup {Head}
    BY <1>1, <1>b, <1>c DEF Linked, Alloc
  <2>2. Detached' \ {NULL} = {n}
    BY <1>1, <1>a, <1>c, <1>t, <1>f DEF Detached, Alloc
  <2>3. Linked' = allocated \cup {Head}
    BY <2>2, <1>c DEF Linked
  <2> QED  BY <2>1, <2>3, <1>c, <1>t
<1>2. ASSUME Push(t)
      PROVE  /\ new[t] \in Node \ Linked /\ Linked' = Linked \cup {new[t]}
             /\ next'[Head] = new[t] /\ next'[new[t]] = next[Head]
             /\ \A c \in Linked \ {Head} : next'[c] = next[c]
  <2>1. new[t] \in allocated /\ pc[t] = "push"
    BY <1>2 DEF Push, Walks, Walk
  <2>2. Linked = (allocated \ {new[t]}) \cup {Head}
    BY <2>1, <1>b, <1>c DEF Linked
  <2>3. Detached' \ {NULL} = {}
    BY <1>2, <1>a, <1>c, <1>t, <1>f DEF Detached, Push
  <2>4. Linked' = Linked \cup {new[t]}
    BY <2>1, <2>2, <2>3, <1>2, <1>c DEF Linked, Push
  <2> QED  BY <2>1, <2>2, <2>4, <1>2, <1>c, <1>t DEF Push
<1>3. ASSUME Unlink(t)
      PROVE  /\ curr[t] \in Linked /\ curr[t] \in Node /\ Linked' = Linked \ {curr[t]}
             /\ prev[t] \in Linked /\ prev[t] # curr[t] /\ next[prev[t]] = curr[t]
             /\ next'[prev[t]] = next[curr[t]]
             /\ \A c \in Linked \ {prev[t]} : next'[c] = next[c]
  <2>1. /\ pc[t] = "unlink" /\ kind[t] = "del" /\ curr[t] # NULL
        /\ curr[t] \in Linked /\ prev[t] \in Linked /\ next[prev[t]] = curr[t] /\ prev[t] # curr[t]
    BY <1>3 DEF Unlink, Walks, Walk, Control, ControlAt
  <2>2. Linked = allocated \cup {Head}
    BY <2>1, <1>b, <1>c DEF Linked
  <2>3. curr[t] \in Node /\ curr[t] \in allocated
    BY <2>1, <2>2, <1>c, <1>t
  <2>4. Detached' \ {NULL} = {curr[t]}
    <3>1. pc'[t] = "free" /\ curr' = curr /\ new' = new
      BY <1>3, <1>t DEF Unlink, locals
    <3>2. new[t] = NULL
      BY <2>1 DEF Control, ControlAt
    <3> QED  BY <3>1, <3>2, <2>3, <1>a, <1>c, <1>f DEF Detached
  <2>5. Linked' = Linked \ {curr[t]}
    BY <2>2, <2>3, <2>4, <1>3, <1>c DEF Linked, Unlink
  <2> QED  BY <2>1, <2>3, <2>5, <1>3, <1>t, <1>f DEF Unlink
<1>4. ASSUME Free(t)
      PROVE  Linked' = Linked /\ \A c \in Linked : next'[c] = next[c]
  <2>1. pc[t] = "free" /\ curr[t] \in allocated
    BY <1>4 DEF Free, Walks, Walk
  <2>2. Linked = (allocated \ {curr[t]}) \cup {Head}
    BY <2>1, <1>b, <1>c DEF Linked
  <2>3. Detached' \ {NULL} = {}
    <3>1. pc'[t] = "release" /\ new' = new
      BY <1>4, <1>t DEF Free
    <3>2. new[t] = NULL
      BY <2>1 DEF Control, ControlAt
    <3> QED  BY <3>1, <3>2, <1>a, <1>f DEF Detached
  <2>4. Linked' = Linked
    BY <2>2, <2>3, <1>4, <1>c DEF Linked, Free
  <2> QED  BY <2>1, <2>2, <2>4, <1>4, <1>c, <1>t DEF Free
<1> QED  BY <1>1, <1>2, <1>3, <1>4

LEMMA LoudShape ==
  ASSUME TypeOK, Control, Locks, Exclusive, Shape, Walks, NEW t \in Thread, Loud(t)
  PROVE  Shape'
<1>c. /\ NULL \notin Node /\ Head \notin Node /\ Head # NULL
      /\ next \in [Cell -> Node \cup {NULL}]
      /\ Linked \subseteq Cell /\ Head \in Linked
  BY LockedChainAssumption DEF TypeOK, Cell, Linked
<1>1. CASE Alloc(t) \/ Free(t)
  BY <1>1, LoudLinked DEF Shape
<1>2. CASE Push(t)
  <2>1. /\ new[t] \in Node \ Linked /\ Linked' = Linked \cup {new[t]}
        /\ next'[Head] = new[t] /\ next'[new[t]] = next[Head]
        /\ \A c \in Linked \ {Head} : next'[c] = next[c]
    BY <1>2, LoudLinked
  <2>2. \A c \in Linked : next[c] # new[t]
    BY <2>1, <1>c DEF Shape
  <2> QED  BY <2>1, <2>2, <1>c DEF Shape
<1>3. CASE Unlink(t)
  <2>1. /\ curr[t] \in Linked /\ curr[t] \in Node /\ Linked' = Linked \ {curr[t]}
        /\ prev[t] \in Linked /\ prev[t] # curr[t] /\ next[prev[t]] = curr[t]
        /\ next'[prev[t]] = next[curr[t]]
        /\ \A c \in Linked \ {prev[t]} : next'[c] = next[c]
    BY <1>3, LoudLinked
  <2>2. next[curr[t]] # curr[t] /\ curr[t] # NULL
    BY <2>1, <1>c DEF Shape
  <2>3. \A c \in Linked \ {prev[t]} : next[c] # curr[t]
    BY <2>1, <2>2 DEF Shape
  <2>4. \A c \in Linked' : next'[c] # NULL => next'[c] \in Linked'
    BY <2>1, <2>2, <2>3 DEF Shape
  <2>5. \A c, d \in Linked' : next'[c] = next'[d] /\ next'[c] # NULL => c = d
    BY <2>1, <2>2, <2>3 DEF Shape
  <2> QED  BY <2>4, <2>5 DEF Shape
<1> QED  BY <1>1, <1>2, <1>3 DEF Loud

\* The nodes of the chain keep their keys and values meanwhile.
LEMMA LoudKeeps ==
  ASSUME TypeOK, Control, Locks, Exclusive, Shape, Walks, NEW t \in Thread, Loud(t)
  PROVE  \A n \in Linked' \ {Head} : key'[n] = key[n] /\ val'[n] = val[n]
<1>1. CASE Alloc(t)
  <2>1. Linked' = Linked
    BY <1>1, LoudLinked
  <2> QED  BY <1>1, <2>1 DEF Alloc, Linked, TypeOK
<1>2. CASE Push(t) \/ Unlink(t)
  BY <1>2 DEF Push, Unlink
<1>3. CASE Free(t)
  <2>1. Linked' = Linked
    BY <1>3, LoudLinked
  <2>2. curr[t] \notin Linked \ {Head} /\ Linked \ {Head} \subseteq Node
    BY <1>3 DEF Free, Linked, Detached, TypeOK
  <2> QED  BY <1>3, <2>1, <2>2 DEF Free, TypeOK
<1> QED  BY <1>1, <1>2, <1>3 DEF Loud

LEMMA ShapeStep ==
  ASSUME TypeOK, Control, Locks, Exclusive, Shape, Walks, NEW t \in Thread, Move(t)
  PROVE  Shape'
<1>1. CASE Loud(t)
  BY <1>1, LoudShape
<1>2. CASE ~Loud(t)
  BY <1>2, QuietStep DEF Quiet, Loud
<1> QED  BY <1>1, <1>2

\* While nobody changes the chain a walk goes from node to node along it; while
\* somebody does, nobody else walks.
LEMMA WalkStep ==
  ASSUME TypeOK, Control, Locks, Exclusive, Shape, Walks, NEW t \in Thread, Move(t)
  PROVE  Walks'
<1> USE DEF Goto, Decide, lock, heap, locals
<1> SUFFICES ASSUME NEW u \in Thread PROVE Walk(u)'
  BY DEF Walks
<1>t. /\ pc   \in [Thread -> {"idle", "acquire", "walk", "write", "alloc", "push", "read",
                               "unlink", "free", "release", "done"}]
      /\ kind \in [Thread -> {"none", "put", "get", "del"}]
      /\ prev \in [Thread -> Cell]
      /\ curr \in [Thread -> Node \cup {NULL}]
      /\ new  \in [Thread -> Node \cup {NULL}]
      /\ next \in [Cell -> Node \cup {NULL}]
      /\ allocated \subseteq Node
  BY DEF TypeOK
<1>k. NULL \notin Node /\ Head \notin Node /\ Head # NULL /\ Head \in Linked
  BY LockedChainAssumption DEF Linked
<1>w. Walk(u) /\ Walk(t)
  BY DEF Walks
<1>1. CASE Loud(t)
  <2>a. pc[t] \in {"alloc", "push", "unlink", "free"}
        /\ \A v \in Thread : v # t => /\ pc[v] \notin InLock /\ pc'[v] = pc[v]
                                      /\ new[v] = NULL /\ new'[v] = NULL
    BY <1>1, LoudStep
  <2>1. CASE u # t
    BY <2>1, <2>a DEF Walk, InLock
  <2>2. CASE u = t
    <3>1. CASE Alloc(t)
      BY <3>1, <2>2, <1>t DEF Alloc, Walk
    <3>2. CASE Push(t)
      BY <3>2, <2>2, <1>t DEF Push, Walk
    <3>3. CASE Unlink(t)
      <4>1. pc'[t] = "free" /\ curr'[t] = curr[t] /\ allocated' = allocated
        BY <3>3, <1>t DEF Unlink
      <4>2. curr[t] \in allocated
        BY <3>3, <1>w, <1>t, <1>k DEF Unlink, Walk, Linked, Control, ControlAt
      <4> QED  BY <4>1, <4>2, <2>2 DEF Walk
    <3>4. CASE Free(t)
      BY <3>4, <2>2, <1>t DEF Free, Walk
    <3> QED  BY <1>1, <3>1, <3>2, <3>3, <3>4 DEF Loud
  <2> QED  BY <2>1, <2>2
<1>2. CASE ~Loud(t)
  <2>q. /\ UNCHANGED <<allocated, next, new>> /\ Linked' = Linked
        /\ \A v \in Thread : v # t => pc'[v] = pc[v] /\ curr'[v] = curr[v]
                                      /\ prev'[v] = prev[v] /\ kind'[v] = kind[v]
    BY <1>2, QuietStep DEF Quiet, Loud
  <2>1. CASE u # t
    BY <2>1, <2>q, <1>w DEF Walk
  <2>2. CASE u = t
    <3> USE <2>q, <2>2, <1>w, <1>t
    <3>1. CASE Begin(t)
      BY <3>1 DEF Begin, Call, Walk
    <3>2. CASE Acquire(t)
      <4>1. /\ pc'[t] = "walk" /\ prev'[t] = Head /\ curr'[t] = next[Head]
            /\ next[Head] \in Linked \cup {NULL} /\ next[Head] # Head
        BY <3>2, <1>k DEF Acquire, Shape, Cell
      <4> QED  BY <4>1, <1>k DEF Walk
    <3>3. CASE Step(t)
      <4>1. pc[t] = "walk" /\ pc'[t] = "walk" /\ kind' = kind
            /\ curr[t] \in Linked /\ curr'[t] = next[curr[t]]
        BY <3>3 DEF Step, Walk
      <4>2. curr'[t] \in Linked \cup {NULL}
        BY <4>1 DEF Shape
      <4>3. CASE kind[t] = "del"
        <5>1. /\ prev[t] \in Linked /\ next[prev[t]] = curr[t] /\ prev[t] # curr[t]
              /\ prev'[t] = curr[t] /\ curr[t] # NULL
          BY <4>1, <4>3, <3>3, <1>k DEF Step, Walk
        <5>2. next[curr[t]] # curr[t]
          BY <4>1, <5>1 DEF Shape
        <5> QED  BY <4>1, <4>2, <5>1, <5>2 DEF Walk
      <4> QED  BY <4>1, <4>2, <4>3 DEF Walk
    <3>4. CASE Hit(t)
      <4>1. pc[t] = "walk" /\ curr' = curr /\ prev' = prev /\ kind' = kind
            /\ pc'[t] \in {"write", "read", "unlink", "none"}
        BY <3>4 DEF Hit, OnHit, Control, ControlAt
      <4> QED  BY <4>1 DEF Walk
    <3>5. CASE Miss(t)
      BY <3>5 DEF Miss, Walk
    <3>6. CASE Write(t)
      BY <3>6 DEF Write, Walk
    <3>7. CASE AllocFails(t)
      BY <3>7 DEF AllocFails, Walk
    <3>8. CASE Read(t)
      BY <3>8 DEF Read, Walk
    <3>9. CASE Release(t)
      BY <3>9 DEF Release, Walk
    <3>10. CASE Return(t)
      BY <3>10 DEF Return, Walk
    <3> QED  BY <1>2, <3>1, <3>2, <3>3, <3>4, <3>5, <3>6, <3>7, <3>8, <3>9, <3>10 DEF Move, Inside, Loud
  <2> QED  BY <2>1, <2>2
<1> QED  BY <1>1, <1>2

-----------------------------------------------------------------------------
(* What is on the chain                                                    *)

\* The chain is a list in the sense of SharedLemmas.
LEMMA ChainIsList ==
  ASSUME NEW f \in [Cell -> Node \cup {NULL}], NEW c \in Cell \cup {NULL}
  PROVE  IsList(Cell, f, NULL, c)
<1>1. NULL \notin Cell
  BY LockedChainAssumption DEF Cell
<1> QED  BY <1>1 DEF IsList, Cell

\* put and del change the chain so that no other node is lost.
LEMMA WholeStep ==
  ASSUME TypeOK, Control, Locks, Exclusive, Shape, Walks, Whole, NEW t \in Thread, Move(t), TypeOK'
  PROVE  Whole'
<1>1. CASE ~Loud(t)
  BY <1>1, QuietStep DEF Whole, Quiet, Loud
<1>2. CASE Loud(t)
  <2>c. /\ Head \in Cell /\ Head \notin Node /\ Node \subseteq Cell
        /\ IsList(Cell, next, NULL, Head) /\ IsList(Cell, next', NULL, Head)
    <3>1. next \in [Cell -> Node \cup {NULL}] /\ next' \in [Cell -> Node \cup {NULL}]
      BY DEF TypeOK
    <3> QED  BY <3>1, ChainIsList, LockedChainAssumption DEF Cell
  <2>w. Reach(Cell, next, NULL, Head) = Linked
    BY DEF Whole
  <2>h. Head \in Linked
    BY DEF Linked
  <2>1. CASE Alloc(t) \/ Free(t)
    BY <1>2, <2>1, <2>c, <2>w, LoudLinked, ReachSame DEF Whole
  <2>2. CASE Push(t)
    <3>1. /\ new[t] \in Node \ Linked /\ Linked' = Linked \cup {new[t]}
          /\ next'[Head] = new[t] /\ next'[new[t]] = next[Head]
          /\ \A c \in Linked \ {Head} : next'[c] = next[c]
      BY <1>2, <2>2, LoudLinked
    <3>2. Reach(Cell, next', NULL, Head) = Linked \cup {new[t]}
      BY <3>1, <2>c, <2>w, <2>h, ReachInsert
    <3> QED  BY <3>1, <3>2 DEF Whole
  <2>3. CASE Unlink(t)
    <3>1. /\ curr[t] \in Linked /\ curr[t] \in Node /\ Linked' = Linked \ {curr[t]}
          /\ prev[t] \in Linked /\ prev[t] # curr[t] /\ next[prev[t]] = curr[t]
          /\ next'[prev[t]] = next[curr[t]]
          /\ \A c \in Linked \ {prev[t]} : next'[c] = next[c]
      BY <1>2, <2>3, LoudLinked
    <3>2. \A c \in Linked : next[c] = curr[t] => c = prev[t]
      BY <3>1, LockedChainAssumption DEF Shape
    <3>3. Reach(Cell, next', NULL, Head) = Linked \ {curr[t]}
      BY <3>1, <3>2, <2>c, <2>w, ReachRemove
    <3> QED  BY <3>1, <3>3 DEF Whole
  <2> QED  BY <1>2, <2>1, <2>2, <2>3 DEF Loud
<1> QED  BY <1>1, <1>2

\* put adds a node only under a key that the chain does not have.
LEMMA OneEachStep ==
  ASSUME TypeOK, Control, Locks, Exclusive, Shape, Walks, OneEach, Found, NEW t \in Thread, Move(t)
  PROVE  OneEach'
<1>1. CASE ~Loud(t)
  BY <1>1, QuietStep DEF OneEach, Quiet, Loud
<1>2. CASE Loud(t) /\ ~Push(t)
  <2>1. Linked' \subseteq Linked
    BY <1>2, LoudLinked DEF Loud
  <2> QED  BY <1>2, <2>1, LoudKeeps DEF OneEach
<1>3. CASE Push(t)
  <2>1. Loud(t) /\ pc[t] = "push"
    BY <1>3 DEF Loud, Push
  <2>2. Linked' = Linked \cup {new[t]}
    BY <1>3, <2>1, LoudLinked
  <2>3. key[new[t]] = arg[t] /\ \A n \in Linked \ {Head} : key[n] # arg[t]
    BY <2>1 DEF Found, FoundBy
  <2>4. key' = key
    BY <1>3 DEF Push
  <2> QED  BY <2>2, <2>3, <2>4 DEF OneEach
<1> QED  BY <1>1, <1>2, <1>3

\* The node a walk leaves behind does not have the key; at the end of the chain
\* there is nothing ahead.
LEMMA FoundStep ==
  ASSUME TypeOK, Control, Locks, Exclusive, Shape, Walks, Whole, OneEach, Found,
         NEW t \in Thread, Move(t)
  PROVE  Found'
<1> USE DEF Goto, Decide, lock, heap, locals
<1> SUFFICES ASSUME NEW u \in Thread PROVE FoundBy(u)'
  BY DEF Found
<1>t. /\ pc   \in [Thread -> {"idle", "acquire", "walk", "write", "alloc", "push", "read",
                               "unlink", "free", "release", "done"}]
      /\ kind \in [Thread -> {"none", "put", "get", "del"}]
      /\ arg  \in [Thread -> Key]
      /\ curr \in [Thread -> Node \cup {NULL}]
      /\ new  \in [Thread -> Node \cup {NULL}]
      /\ key  \in [Node -> Key]
  BY DEF TypeOK
<1>n. next \in [Cell -> Node \cup {NULL}]
  BY DEF TypeOK
<1>f. FoundBy(u) /\ FoundBy(t)
  BY DEF Found
<1>1. CASE Loud(t)
  <2>a. pc[t] \in {"alloc", "push", "unlink", "free"}
        /\ \A v \in Thread : v # t => pc[v] \notin InLock /\ pc'[v] = pc[v]
    BY <1>1, LoudStep
  <2>1. CASE u # t
    BY <2>1, <2>a DEF FoundBy, InLock
  <2>2. CASE u = t
    <3>1. CASE Alloc(t)
      <4>1. pc[t] = "alloc" /\ pc'[t] = "push" /\ arg' = arg /\ key'[new'[t]] = arg[t]
        BY <3>1, <1>t DEF Alloc
      <4>2. Linked' = Linked
        BY <1>1, <3>1, LoudLinked
      <4>3. \A n \in Linked \ {Head} : key'[n] = key[n]
        BY <1>1, <4>2, LoudKeeps
      <4> QED  BY <4>1, <4>2, <4>3, <1>f, <2>2 DEF FoundBy
    <3>2. CASE Push(t) \/ Unlink(t) \/ Free(t)
      <4>1. pc'[t] \in {"release", "free"}
        BY <3>2, <1>t DEF Push, Unlink, Free
      <4> QED  BY <4>1, <2>2 DEF FoundBy
    <3> QED  BY <1>1, <3>1, <3>2 DEF Loud
  <2> QED  BY <2>1, <2>2
<1>2. CASE ~Loud(t)
  <2>q. /\ UNCHANGED <<allocated, key, next, new>> /\ Linked' = Linked
        /\ \A v \in Thread : v # t => pc'[v] = pc[v] /\ curr'[v] = curr[v] /\ arg'[v] = arg[v]
    BY <1>2, QuietStep DEF Quiet, Loud
  <2>1. CASE u # t
    BY <2>1, <2>q, <1>f DEF FoundBy
  <2>2. CASE u = t
    <3> USE <2>q, <2>2, <1>f, <1>t
    <3>1. CASE Begin(t)
      BY <3>1 DEF Begin, Call, FoundBy
    <3>2. CASE Acquire(t)
      <4>1. pc'[t] = "walk" /\ curr'[t] = next[Head]
        BY <3>2 DEF Acquire
      <4>2. Linked \subseteq {Head} \cup Reach(Cell, next, NULL, next[Head])
        BY <1>n, ReachOneMore, ChainIsList DEF Whole, Cell
      <4> QED  BY <4>1, <4>2 DEF FoundBy
    <3>3. CASE Step(t)
      <4>1. /\ pc[t] = "walk" /\ pc'[t] = "walk" /\ arg' = arg /\ curr[t] \in Node
            /\ key[curr[t]] # arg[t] /\ curr'[t] = next[curr[t]]
        BY <3>3 DEF Step
      <4>2. Reach(Cell, next, NULL, curr[t]) = {curr[t]} \cup Reach(Cell, next, NULL, next[curr[t]])
        BY <4>1, <1>n, ReachOneMore, ChainIsList DEF Cell
      <4> QED  BY <4>1, <4>2 DEF FoundBy
    <3>4. CASE Hit(t)
      <4>1. /\ key[curr[t]] = arg[t] /\ curr' = curr /\ arg' = arg
            /\ pc'[t] \in {"write", "read", "unlink"}
        BY <3>4 DEF Hit, OnHit, Control, ControlAt
      <4> QED  BY <4>1 DEF FoundBy
    <3>5. CASE Miss(t)
      <4>1. pc[t] = "walk" /\ curr[t] = NULL /\ arg' = arg /\ pc'[t] \in {"alloc", "release"}
        BY <3>5 DEF Miss
      <4>2. Reach(Cell, next, NULL, curr[t]) = {}
        BY <4>1, ReachNothing, LockedChainAssumption DEF Cell
      <4> QED  BY <4>1, <4>2 DEF FoundBy
    <3>6. CASE Write(t)
      BY <3>6 DEF Write, FoundBy
    <3>7. CASE AllocFails(t)
      BY <3>7 DEF AllocFails, FoundBy
    <3>8. CASE Read(t)
      BY <3>8 DEF Read, FoundBy
    <3>9. CASE Release(t)
      BY <3>9 DEF Release, FoundBy
    <3>10. CASE Return(t)
      BY <3>10 DEF Return, FoundBy
    <3> QED  BY <1>2, <3>1, <3>2, <3>3, <3>4, <3>5, <3>6, <3>7, <3>8, <3>9, <3>10 DEF Move, Inside, Loud
  <2> QED  BY <2>1, <2>2
<1> QED  BY <1>1, <1>2

-----------------------------------------------------------------------------
(* The values                                                              *)

\* A step of t is no step of u.
LEMMA Others ==
  ASSUME TypeOK, NEW t \in Thread, Move(t), NEW u \in Thread, u # t
  PROVE  /\ pc'[u] = pc[u] /\ kind'[u] = kind[u] /\ arg'[u] = arg[u] /\ buf'[u] = buf[u]
         /\ todo'[u] = todo[u] /\ curr'[u] = curr[u] /\ new'[u] = new[u] /\ ret'[u] = ret[u]
<1> USE DEF Goto, Decide, lock, heap, locals, TypeOK
<1>1. CASE Begin(t) \/ Acquire(t) \/ Return(t) \/ Release(t)
  BY <1>1 DEF Begin, Call, Acquire, Return, Release
<1>2. CASE Step(t) \/ Hit(t) \/ Miss(t)
  BY <1>2 DEF Step, Hit, Miss
<1>3. CASE Write(t) \/ Alloc(t) \/ AllocFails(t) \/ Push(t)
  BY <1>3 DEF Write, Alloc, AllocFails, Push
<1>4. CASE Read(t) \/ Unlink(t) \/ Free(t)
  BY <1>4 DEF Read, Unlink, Free
<1> QED  BY <1>1, <1>2, <1>3, <1>4 DEF Move, Inside

\* Only put and del change what the nodes hold, and they are alone.
LEMMA ValuesKept ==
  ASSUME TypeOK, NEW t \in Thread, Move(t), pc[t] \notin {"write", "alloc", "free"}
  PROVE  val' = val /\ key' = key /\ impl' = impl
  BY DEF Move, Inside, Begin, Call, Acquire, Step, Hit, Miss, Write, Alloc, AllocFails, Push,
         Read, Unlink, Free, Release, Return, lock, heap

\* Nobody else copies while a node is written.
LEMMA CopiesStep ==
  ASSUME TypeOK, Control, Locks, Exclusive, Walks, Copies, NEW t \in Thread, Move(t)
  PROVE  Copies'
<1> SUFFICES ASSUME NEW u \in Thread PROVE CopyBy(u)'
  BY DEF Copies
<1>c. CopyBy(u) /\ CopyBy(t) /\ ControlAt(t)
  BY DEF Copies, Control
<1>t. /\ pc   \in [Thread -> {"idle", "acquire", "walk", "write", "alloc", "push", "read",
                               "unlink", "free", "release", "done"}]
      /\ kind \in [Thread -> {"none", "put", "get", "del"}]
      /\ arg  \in [Thread -> Key]
      /\ buf  \in [Thread -> [Word -> Data \cup {Junk}]]
      /\ todo \in [Thread -> SUBSET Word]
      /\ curr \in [Thread -> Node \cup {NULL}]
      /\ new  \in [Thread -> Node \cup {NULL}]
      /\ val  \in [Node -> [Word -> Data \cup {Junk}]]
  BY DEF TypeOK
<1>1. CASE u # t
  <2>1. /\ pc'[u] = pc[u] /\ kind'[u] = kind[u] /\ arg'[u] = arg[u] /\ buf'[u] = buf[u]
        /\ todo'[u] = todo[u] /\ curr'[u] = curr[u] /\ new'[u] = new[u]
    BY <1>1, Others
  <2>2. CASE pc[t] \in {"write", "alloc", "free"}
    <3>1. pc[u] \notin InLock
      BY <1>1, <2>2, Alone
    <3> QED  BY <2>1, <3>1, <1>c DEF CopyBy, InLock
  <2>3. CASE pc[t] \notin {"write", "alloc", "free"}
    BY <2>1, <2>3, <1>c, ValuesKept DEF CopyBy
  <2> QED  BY <2>2, <2>3
<1>2. CASE u = t
  <2> USE <1>2, <1>c, <1>t DEF Goto, Decide, lock, heap, locals
  <2>1. CASE Begin(t)
    <3> PICK op \in {"put", "get", "del"}, k \in Key : \E b \in ValueOf[k] \cup {EmptyBuf} : Call(t, op, k, b)
      BY <2>1 DEF Begin
    <3> PICK b \in ValueOf[k] \cup {EmptyBuf} : Call(t, op, k, b)
      OBVIOUS
    <3>1. /\ kind'[t] = op /\ arg'[t] = k /\ buf'[t] = b /\ pc'[t] = "acquire"
          /\ b \in IF op = "put" THEN ValueOf[k] ELSE {EmptyBuf}
      BY DEF Call
    <3> QED  BY <3>1 DEF CopyBy
  <2>2. CASE Acquire(t) \/ Step(t)
    BY <2>2 DEF Acquire, Step, CopyBy
  <2>3. CASE Hit(t)
    <3>1. /\ pc'[t] \in {"write", "read", "unlink"} /\ UNCHANGED <<kind, arg, buf>>
          /\ pc'[t] \in {"write", "read"} => todo'[t] = Word
      BY <2>3 DEF Hit, OnHit, ControlAt
    <3>2. Word # {}
      BY LockedChainAssumption
    <3> QED  BY <3>1, <3>2 DEF CopyBy
  <2>4. CASE Miss(t) \/ AllocFails(t) \/ Unlink(t) \/ Free(t) \/ Release(t)
    <3>1. pc'[t] \in {"alloc", "release", "free", "done"} /\ UNCHANGED <<kind, arg, buf>>
      BY <2>4 DEF Miss, AllocFails, Unlink, Free, Release
    <3> QED  BY <3>1 DEF CopyBy
  <2>5. CASE Write(t)
    <3> PICK w \in todo[t] :
           /\ val'  = [val EXCEPT ![curr[t]][w] = buf[t][w]]
           /\ todo' = [todo EXCEPT ![t] = @ \ {w}]
           /\ IF todo[t] = {w} THEN Decide(t, 1) ELSE UNCHANGED <<pc, ret>>
      BY <2>5 DEF Write
    <3>1. /\ pc[t] = "write" /\ UNCHANGED <<kind, arg, buf, curr>>
          /\ curr[t] \in Node /\ w \in Word
      BY <2>5 DEF Write, ControlAt
    <3>2. val'[curr[t]] = [val[curr[t]] EXCEPT ![w] = buf[t][w]] /\ todo'[t] = todo[t] \ {w}
      BY <3>1
    <3>3. \A v \in Word \ todo'[t] : val'[curr[t]][v] = buf[t][v]
      BY <3>1, <3>2 DEF CopyBy
    <3>4. (pc'[t] = "write" /\ todo'[t] # {}) \/ pc'[t] = "release"
      BY <3>1, <3>2
    <3> QED  BY <3>1, <3>3, <3>4 DEF CopyBy
  <2>6. CASE Alloc(t)
    <3>1. /\ pc'[t] = "push" /\ UNCHANGED <<kind, arg, buf>> /\ val'[new'[t]] = buf[t]
      BY <2>6 DEF Alloc
    <3> QED  BY <3>1 DEF CopyBy
  <2>7. CASE Push(t)
    BY <2>7 DEF Push, CopyBy
  <2>8. CASE Read(t)
    <3> PICK w \in todo[t] :
           /\ buf'  = [buf EXCEPT ![t][w] = Delivered(t, w)]
           /\ todo' = [todo EXCEPT ![t] = @ \ {w}]
           /\ IF todo[t] = {w} THEN Decide(t, 1) ELSE UNCHANGED <<pc, ret>>
      BY <2>8 DEF Read
    <3>1. pc[t] = "read" /\ kind[t] = "get" /\ UNCHANGED <<impl, val, kind, arg, curr>> /\ w \in Word
      BY <2>8 DEF Read, ControlAt
    <3>2. buf'[t] = [buf[t] EXCEPT ![w] = Delivered(t, w)] /\ todo'[t] = todo[t] \ {w}
      OBVIOUS
    <3>3. \A v \in Word \ todo'[t] : buf'[t][v] = Delivered(t, v)
      BY <3>1, <3>2 DEF CopyBy
    <3>4. (pc'[t] = "read" /\ todo'[t] # {}) \/ pc'[t] = "release"
      BY <3>1, <3>2
    <3> QED  BY <3>1, <3>3, <3>4 DEF CopyBy
  <2>9. CASE Return(t)
    BY <2>9 DEF Return, CopyBy
  <2> QED  BY <2>1, <2>2, <2>3, <2>4, <2>5, <2>6, <2>7, <2>8, <2>9 DEF Move, Inside
<1> QED  BY <1>1, <1>2

\* A put that has copied its last word has copied them all.
LEMMA LastWord ==
  ASSUME TypeOK, Control, Copies, NEW t \in Thread, Write(t), pc'[t] # "write"
  PROVE  val'[curr[t]] = buf[t]
<1> PICK w \in todo[t] :
       /\ val'  = [val EXCEPT ![curr[t]][w] = buf[t][w]]
       /\ IF todo[t] = {w} THEN Decide(t, 1) ELSE UNCHANGED <<pc, ret>>
  BY DEF Write
<1>1. /\ pc[t] = "write" /\ curr[t] \in Node /\ w \in Word /\ todo[t] = {w}
      /\ val[curr[t]] \in [Word -> Data \cup {Junk}] /\ buf[t] \in [Word -> Data \cup {Junk}]
      /\ val \in [Node -> [Word -> Data \cup {Junk}]]
  BY DEF Write, Control, ControlAt, TypeOK
<1>2. \A v \in Word \ {w} : val[curr[t]][v] = buf[t][v]
  BY <1>1 DEF Copies, CopyBy
<1>3. val'[curr[t]] = [val[curr[t]] EXCEPT ![w] = buf[t][w]]
  BY <1>1
<1>4. [val[curr[t]] EXCEPT ![w] = buf[t][w]] = buf[t]
  BY <1>1, <1>2
<1> QED  BY <1>3, <1>4

\* A node gets its values from calls of put, and whole before the lock is free.
LEMMA ValuesStep ==
  ASSUME TypeOK, Control, Locks, Exclusive, Shape, Walks, Found, Copies, Values,
         NEW t \in Thread, Move(t)
  PROVE  Values'
<1> SUFFICES ASSUME NEW n \in (Linked \ {Head})',
                    \A u \in Thread : ~(pc'[u] = "write" /\ curr'[u] = n)
             PROVE  val'[n] \in ValueOf[key'[n]]
  BY DEF Values
<1>1. CASE Write(t)
  <2>1. /\ Linked' = Linked /\ key' = key /\ curr' = curr /\ arg' = arg /\ pc[t] = "write" /\ kind[t] = "put"
    BY <1>1, QuietStep DEF Quiet, Loud, Write, Alloc, Push, Unlink, Free, Control, ControlAt
  <2>2. CASE n = curr[t]
    <3>1. val'[n] = buf[t]
      BY <1>1, <2>1, <2>2, LastWord
    <3>2. key[n] = arg[t] /\ buf[t] \in ValueOf[arg[t]]
      BY <2>1, <2>2 DEF Found, FoundBy, Copies, CopyBy
    <3> QED  BY <2>1, <3>1, <3>2
  <2>3. CASE n # curr[t]
    <3>1. val'[n] = val[n]
      BY <1>1, <2>3 DEF Write, TypeOK
    <3>2. \A u \in Thread : ~(pc[u] = "write" /\ curr[u] = n)
      BY <2>1, <2>3, Alone DEF InLock
    <3> QED  BY <2>1, <3>1, <3>2 DEF Values
  <2> QED  BY <2>2, <2>3
<1>2. CASE Push(t)
  <2>1. /\ pc[t] = "push" /\ key' = key /\ val' = val /\ Linked' = Linked \cup {new[t]} /\ kind[t] = "put"
    BY <1>2, LoudLinked DEF Push, Loud, Control, ControlAt
  <2>2. CASE n = new[t]
    BY <2>1, <2>2 DEF Found, FoundBy, Copies, CopyBy
  <2>3. CASE n # new[t]
    <3>1. \A u \in Thread : pc[u] # "write"
      BY <2>1, Alone DEF InLock
    <3> QED  BY <2>1, <2>3, <3>1 DEF Values
  <2> QED  BY <2>2, <2>3
<1>3. CASE Loud(t) /\ ~Push(t)
  <2>1. Linked' \subseteq Linked /\ val'[n] = val[n] /\ key'[n] = key[n]
    BY <1>3, LoudLinked, LoudKeeps DEF Loud
  <2>2. \A u \in Thread : pc[u] # "write"
    BY <1>3, LoudStep DEF InLock
  <2> QED  BY <2>1, <2>2 DEF Values
<1>4. CASE ~Loud(t) /\ ~Write(t)
  <2>1. /\ UNCHANGED <<allocated, key, next, new>> /\ Linked' = Linked
        /\ \A u \in Thread : u # t => pc'[u] = pc[u] /\ curr'[u] = curr[u]
    BY <1>4, QuietStep DEF Quiet, Loud
  <2>2. val' = val /\ pc[t] # "write"
    BY <1>4 DEF Loud, Move, Inside, Begin, Call, Acquire, Step, Hit, Miss, AllocFails, Read,
                Release, Return, heap
  <2>3. \A u \in Thread : ~(pc[u] = "write" /\ curr[u] = n)
    BY <2>1, <2>2
  <2> QED  BY <2>1, <2>2, <2>3 DEF Values
<1> QED  BY <1>1, <1>2, <1>3, <1>4

-----------------------------------------------------------------------------
(* The map that callers see                                                *)

LEMMA StoredIs ==
  ASSUME Whole, OneEach, NEW n \in Linked \ {Head}
  PROVE  StoredUnder(key[n]) = ValueAt(n)
<1>1. {m \in Chain : key[m] = key[n]} = {n}
  BY DEF Chain, Whole, OneEach
<1>2. (CHOOSE m \in {n} : TRUE) = n
  OBVIOUS
<1> QED  BY <1>1, <1>2 DEF StoredUnder

LEMMA StoredNothing ==
  ASSUME Whole, NEW k, \A n \in Linked \ {Head} : key[n] # k
  PROVE  StoredUnder(k) = NoValue
<1>1. {m \in Chain : key[m] = k} = {}
  BY DEF Chain, Whole
<1> QED  BY <1>1 DEF StoredUnder

\* The nodes that have key k.
With(k) == {n \in Linked \ {Head} : key[n] = k}

LEMMA SameStored ==
  ASSUME Whole, Whole', OneEach, OneEach', NEW k,
         With(k)' = With(k), \A n \in With(k) : ValueAt(n)' = ValueAt(n)
  PROVE  StoredUnder(k)' = StoredUnder(k)
<1>1. CASE With(k) = {}
  <2>1. StoredUnder(k) = NoValue
    BY <1>1, StoredNothing DEF With
  <2>2. \A n \in Linked' \ {Head} : key'[n] # k
    BY <1>1 DEF With
  <2>3. {m \in Chain' : key'[m] = k} = {}
    BY <2>2 DEF Chain, Whole
  <2>4. StoredUnder(k)' = NoValue
    BY <2>3 DEF StoredUnder
  <2> QED  BY <2>1, <2>4
<1>2. CASE With(k) # {}
  <2> PICK n \in With(k) : TRUE
    BY <1>2
  <2>1. n \in Linked \ {Head} /\ key[n] = k /\ n \in Linked' \ {Head} /\ key'[n] = k
    BY DEF With
  <2>2. StoredUnder(k) = ValueAt(n)
    BY <2>1, StoredIs
  <2>3. {m \in Chain' : key'[m] = key'[n]} = {n}
    BY <2>1 DEF Chain, Whole, OneEach
  <2>4. (CHOOSE m \in {n} : TRUE) = n
    OBVIOUS
  <2>5. StoredUnder(k)' = ValueAt(n)'
    BY <2>1, <2>3, <2>4 DEF StoredUnder
  <2> QED  BY <2>2, <2>5
<1> QED  BY <1>1, <1>2

\* How the other variables of the map read for t.
Status(t) == IF pc[t] = "idle" THEN "idle" ELSE IF Effected(t) THEN "done" ELSE "called"
CallBy(t) ==
  IF kind[t] = "none" THEN [op |-> "none"]
  ELSE [op |-> kind[t], key |-> arg[t], val |-> IF kind[t] = "put" THEN buf[t] ELSE NoValue]
AnswerTo(t) == IF Effected(t) THEN AnswerOf(t) ELSE [ret |-> 0, val |-> NoValue]

SameStore == \A k \in Key : StoredUnder(k)' = StoredUnder(k)
SameView(t) == Status(t)' = Status(t) /\ CallBy(t)' = CallBy(t) /\ AnswerTo(t)' = AnswerTo(t)
OnlyBy(t) == \A u \in Thread : u # t => SameView(u)

\* A step callers cannot see.
LEMMA Silent ==
  ASSUME SameStore, \A t \in Thread : SameView(t), NEW g
  PROVE  UNCHANGED Map(g)!vars
  BY DEF SameStore, SameView, Status, CallBy, AnswerTo, Map!vars

\* The step that gives t its answer a.
LEMMA Answering ==
  ASSUME NEW t \in Thread, OnlyBy(t), Status(t) = "called", Status(t)' = "done",
         CallBy(t)' = CallBy(t), NEW a, AnswerTo(t)' = a, NEW g
  PROVE  Map(g)!Answered(t, a)
  BY DEF OnlyBy, SameView, Status, CallBy, AnswerTo, Map!Answered

LEMMA Calling ==
  ASSUME NEW t \in Thread, OnlyBy(t), Status(t) = "idle", Status(t)' = "called",
         NEW c, CallBy(t)' = c, AnswerTo(t)' = AnswerTo(t), SameStore, NEW g
  PROVE  Map(g)!Call(t, c)
  BY DEF OnlyBy, SameView, Status, CallBy, AnswerTo, SameStore, Map!Call

LEMMA Returning ==
  ASSUME NEW t \in Thread, OnlyBy(t), Status(t) = "done", Status(t)' = "idle",
         CallBy(t)' = [op |-> "none"], AnswerTo(t)' = [ret |-> 0, val |-> NoValue], SameStore, NEW g
  PROVE  Map(g)!Return(t)
  BY DEF OnlyBy, SameView, Status, CallBy, AnswerTo, SameStore, Map!Return, Map!NoCall,
         Map!NoAnswer, Map!Answers

\* The two operations that look at the map.
LEMMA Getting ==
  ASSUME NEW t \in Thread, kind[t] = "get", arg[t] \in Key, SameStore, NEW g, NEW a,
         a = IF StoredUnder(arg[t]) # NoValue THEN [ret |-> 1, val |-> g[StoredUnder(arg[t])]]
             ELSE [ret |-> 0, val |-> NoValue],
         Map(g)!Answered(t, a)
  PROVE  Map(g)!Get(t)
<1> DEFINE c == [u \in Thread |->
                   IF kind[u] = "none" THEN [op |-> "none"]
                   ELSE [op |-> kind[u], key |-> arg[u],
                         val |-> IF kind[u] = "put" THEN buf[u] ELSE NoValue]]
           m == [k \in Key |-> StoredUnder(k)]
           s == [u \in Thread |-> Status(u)]
           r == [u \in Thread |-> AnswerTo(u)]
<1>1. c[t] = [op |-> "get", key |-> arg[t], val |-> NoValue]
  OBVIOUS
<1>2. c[t] \in Map(g)!GetCall
  BY <1>1 DEF Map!GetCall
<1>3. c[t].key = arg[t]
  BY <1>1
<1>4. m[c[t].key] = StoredUnder(arg[t])
  BY <1>3
<1>8. s[t] = "called" /\ s' = [s EXCEPT ![t] = "done"] /\ r' = [r EXCEPT ![t] = a] /\ c' = c
  BY DEF Map!Answered, Status, AnswerTo
<1> HIDE DEF c, m, s, r
<1>5. a = IF m[c[t].key] # NoValue THEN [ret |-> 1, val |-> g[m[c[t].key]]]
          ELSE [ret |-> 0, val |-> NoValue]
  BY <1>4
<1>6. r' = [r EXCEPT ![t] = IF m[c[t].key] # NoValue THEN [ret |-> 1, val |-> g[m[c[t].key]]]
                            ELSE [ret |-> 0, val |-> NoValue]]
  BY <1>5, <1>8
<1>7. m' = m
  BY DEF m, SameStore
<1> QED
  BY <1>2, <1>6, <1>7, <1>8
  DEF Map!Get, Map!Answered, Map!Present, Map!Answers, Map!NoAnswer, c, m, s, r, Status, AnswerTo

LEMMA Deleting ==
  ASSUME NEW t \in Thread, kind[t] = "del", arg[t] \in Key, arg' = arg,
         StoredUnder(arg[t])' = NoValue,
         \A k \in Key \ {arg[t]} : StoredUnder(k)' = StoredUnder(k), NEW g, NEW a,
         a = IF StoredUnder(arg[t]) # NoValue THEN [ret |-> 1, val |-> NoValue]
             ELSE [ret |-> 0, val |-> NoValue],
         Map(g)!Answered(t, a)
  PROVE  Map(g)!Del(t)
<1> DEFINE c == [u \in Thread |->
                   IF kind[u] = "none" THEN [op |-> "none"]
                   ELSE [op |-> kind[u], key |-> arg[u],
                         val |-> IF kind[u] = "put" THEN buf[u] ELSE NoValue]]
           m == [k \in Key |-> StoredUnder(k)]
           s == [u \in Thread |-> Status(u)]
           r == [u \in Thread |-> AnswerTo(u)]
<1>1. c[t] = [op |-> "del", key |-> arg[t], val |-> NoValue]
  OBVIOUS
<1>2. c[t] \in Map(g)!DelCall
  BY <1>1 DEF Map!DelCall
<1>3. c[t].key = arg[t]
  BY <1>1
<1>4. m[c[t].key] = StoredUnder(arg[t])
  BY <1>3
<1>5. m' = [m EXCEPT ![arg[t]] = NoValue]
  OBVIOUS
<1>8. s[t] = "called" /\ s' = [s EXCEPT ![t] = "done"] /\ r' = [r EXCEPT ![t] = a] /\ c' = c
  BY DEF Map!Answered, Status, AnswerTo
<1> HIDE DEF c, m, s, r
<1>6. m' = [m EXCEPT ![c[t].key] = NoValue]
  BY <1>3, <1>5
<1>7. a = IF m[c[t].key] # NoValue THEN [ret |-> 1, val |-> NoValue] ELSE [ret |-> 0, val |-> NoValue]
  BY <1>4
<1>9. r' = [r EXCEPT ![t] = IF m[c[t].key] # NoValue THEN [ret |-> 1, val |-> NoValue]
                            ELSE [ret |-> 0, val |-> NoValue]]
  BY <1>7, <1>8
<1> QED
  BY <1>2, <1>6, <1>8, <1>9
  DEF Map!Del, Map!Answered, Map!Present, Map!Answers, Map!NoAnswer, c, m, s, r, Status, AnswerTo

\* What a thread shows of itself depends on nobody else's steps.
LEMMA OthersView ==
  ASSUME TypeOK, NEW t \in Thread, Move(t)
  PROVE  OnlyBy(t)
<1> SUFFICES ASSUME NEW u \in Thread, u # t PROVE SameView(u)
  BY DEF OnlyBy
<1>1. /\ pc'[u] = pc[u] /\ kind'[u] = kind[u] /\ arg'[u] = arg[u] /\ buf'[u] = buf[u]
      /\ todo'[u] = todo[u] /\ curr'[u] = curr[u] /\ new'[u] = new[u] /\ ret'[u] = ret[u]
  BY Others
<1> QED  BY <1>1 DEF SameView, Status, CallBy, AnswerTo, Effected, AnswerOf

\* Nothing but a put or the unlinking of a del changes the map.
LEMMA StoreKept ==
  ASSUME IInv, IInv', NEW t \in Thread, Move(t), ~Write(t), ~Push(t), ~Unlink(t)
  PROVE  SameStore
<1> USE DEF IInv
<1>1. /\ Linked' = Linked
      /\ \A n \in Linked \ {Head} : key'[n] = key[n] /\ val'[n] = val[n]
  <2>1. CASE Loud(t)
    BY <2>1, LoudLinked, LoudKeeps DEF Loud
  <2>2. CASE ~Loud(t)
    <3>1. val' = val
      BY <2>2 DEF Loud, Move, Inside, Begin, Call, Acquire, Step, Hit, Miss, AllocFails, Read,
                  Release, Return, heap
    <3> QED  BY <2>2, <3>1, QuietStep DEF Quiet, Loud
  <2> QED  BY <2>1, <2>2
<1>2. \A n \in Linked \ {Head} : Writers(n)' = Writers(n)
  <2>1. \A u \in Thread : u # t => pc'[u] = pc[u] /\ curr'[u] = curr[u] /\ todo'[u] = todo[u]
    BY Others
  <2>2. (pc'[t] = "write" => todo'[t] = Word) /\ pc[t] # "write"
    BY DEF Move, Inside, Begin, Call, Acquire, Step, Hit, OnHit, Miss, Alloc, AllocFails, Read, Free,
           Release, Return, TypeOK, Control, ControlAt, Goto, Decide
  <2> QED  BY <2>1, <2>2 DEF Writers
<1>3. \A n \in Linked \ {Head} : \A u \in Writers(n) : buf'[u] = buf[u]
  <2>1. pc[t] # "write"
    BY DEF Move, Inside, Begin, Call, Acquire, Step, Hit, Miss, Alloc, AllocFails, Read, Free, Release, Return
  <2> QED  BY <2>1, Others DEF Writers
<1>4. \A n \in Linked \ {Head} : ValueAt(n)' = ValueAt(n)
  BY <1>1, <1>2, <1>3 DEF ValueAt
<1> SUFFICES ASSUME NEW k \in Key PROVE StoredUnder(k)' = StoredUnder(k)
  BY DEF SameStore
<1>5. With(k)' = With(k) /\ \A n \in With(k) : ValueAt(n)' = ValueAt(n)
  BY <1>1, <1>4 DEF With
<1> QED  BY <1>5, SameStored

\* From its first word on, a put is seen to have put its value.
LEMMA WriteStores ==
  ASSUME IInv, IInv', NEW t \in Thread, Write(t)
  PROVE  /\ StoredUnder(arg[t])' = buf[t]
         /\ todo[t] # Word => StoredUnder(arg[t]) = buf[t]
         /\ \A k \in Key \ {arg[t]} : StoredUnder(k)' = StoredUnder(k)
<1> USE DEF IInv
<1> DEFINE n == curr[t]
<1>1. /\ Linked' = Linked /\ key' = key /\ curr' = curr /\ arg' = arg /\ buf' = buf
      /\ pc[t] = "write" /\ Move(t)
  BY QuietStep DEF Quiet, Loud, Write, Alloc, Push, Unlink, Free, Move, Inside
<1>2. n \in Linked \ {Head} /\ n \in Node /\ key[n] = arg[t]
  BY <1>1, LockedChainAssumption DEF Walks, Walk, Found, FoundBy, Control, ControlAt, TypeOK
<1>3. \A u \in Thread : u # t => pc[u] # "write" /\ pc'[u] # "write"
  BY <1>1, Alone, Others DEF InLock
<1>4. Writers(n) = IF todo[t] # Word THEN {t} ELSE {}
  BY <1>1, <1>3 DEF Writers
<1>5. Writers(n)' = IF pc'[t] = "write" THEN {t} ELSE {}
  <2>1. todo'[t] # Word
    BY DEF Write, TypeOK
  <2> QED  BY <1>1, <1>3, <2>1 DEF Writers
<1>6. (CHOOSE u \in {t} : TRUE) = t
  OBVIOUS
<1>7. ValueAt(n)' = buf[t]
  <2>1. CASE pc'[t] = "write"
    BY <1>1, <1>5, <1>6, <2>1 DEF ValueAt
  <2>2. CASE pc'[t] # "write"
    <3>1. val'[n] = buf[t]
      BY <2>2, LastWord
    <3> QED  BY <1>1, <1>5, <2>2, <3>1 DEF ValueAt
  <2> QED  BY <2>1, <2>2
<1>8. todo[t] # Word => ValueAt(n) = buf[t]
  BY <1>4, <1>6 DEF ValueAt
<1>9. \A m \in Linked \ {Head, n} : ValueAt(m)' = ValueAt(m)
  <2> SUFFICES ASSUME NEW m \in Linked \ {Head, n} PROVE ValueAt(m)' = ValueAt(m)
    OBVIOUS
  <2>1. val'[m] = val[m]
    BY <1>1, <1>2 DEF Write, TypeOK, Linked
  <2>2. Writers(m) = {} /\ Writers(m)' = {}
    BY <1>1, <1>3 DEF Writers
  <2> QED  BY <2>1, <2>2 DEF ValueAt
<1>10. StoredUnder(arg[t])' = buf[t]
  <2>1. {m \in Chain' : key'[m] = arg[t]} = {n}
    BY <1>1, <1>2 DEF Chain, Whole, OneEach
  <2>2. (CHOOSE m \in {n} : TRUE) = n
    OBVIOUS
  <2> QED  BY <1>1, <1>7, <2>1, <2>2 DEF StoredUnder
<1>11. \A k \in Key \ {arg[t]} : StoredUnder(k)' = StoredUnder(k)
  <2> SUFFICES ASSUME NEW k \in Key \ {arg[t]} PROVE StoredUnder(k)' = StoredUnder(k)
    OBVIOUS
  <2>1. With(k)' = With(k) /\ \A m \in With(k) : ValueAt(m)' = ValueAt(m)
    BY <1>1, <1>2, <1>9 DEF With
  <2> QED  BY <2>1, SameStored
<1> QED  BY <1>2, <1>8, <1>10, <1>11, StoredIs

\* A new node adds its key to the map.
LEMMA PushStores ==
  ASSUME IInv, IInv', NEW t \in Thread, Push(t)
  PROVE  /\ StoredUnder(arg[t])' = buf[t]
         /\ \A k \in Key \ {arg[t]} : StoredUnder(k)' = StoredUnder(k)
<1> USE DEF IInv
<1> PICK n : n = new[t]
  OBVIOUS
<1>1. /\ key' = key /\ val' = val /\ curr' = curr /\ arg' = arg /\ buf' = buf /\ todo' = todo
      /\ pc[t] = "push" /\ pc'[t] = "release" /\ Move(t) /\ Loud(t)
  BY DEF Push, Move, Inside, Loud, Decide, Goto, TypeOK
<1>2. /\ n \in Node \ Linked /\ Linked' = Linked \cup {n} /\ Head \notin Node
      /\ key[n] = arg[t] /\ val[n] = buf[t]
  BY <1>1, LoudLinked, LockedChainAssumption DEF Found, FoundBy, Copies, CopyBy
<1>3. \A u \in Thread : pc[u] # "write" /\ pc'[u] # "write"
  BY <1>1, Alone, Others DEF InLock
<1>4. \A m : Writers(m) = {} /\ Writers(m)' = {}
  BY <1>3 DEF Writers
<1>5. ValueAt(n)' = buf[t] /\ \A m \in Linked : ValueAt(m)' = ValueAt(m)
  BY <1>1, <1>2, <1>4 DEF ValueAt
<1>6. StoredUnder(arg[t])' = buf[t]
  <2>1. {m \in Chain' : key'[m] = arg[t]} = {n}
    BY <1>1, <1>2 DEF Chain, Whole, OneEach
  <2>2. (CHOOSE m \in {n} : TRUE) = n
    OBVIOUS
  <2> QED  BY <1>1, <1>5, <2>1, <2>2 DEF StoredUnder
<1>7. \A k \in Key \ {arg[t]} : StoredUnder(k)' = StoredUnder(k)
  <2> SUFFICES ASSUME NEW k \in Key \ {arg[t]} PROVE StoredUnder(k)' = StoredUnder(k)
    OBVIOUS
  <2>1. With(k)' = With(k) /\ \A m \in With(k) : ValueAt(m)' = ValueAt(m)
    BY <1>1, <1>2, <1>5 DEF With
  <2> QED  BY <2>1, SameStored
<1> QED  BY <1>6, <1>7

\* A node cut off takes its key out of the map.
LEMMA UnlinkStores ==
  ASSUME IInv, IInv', NEW t \in Thread, Unlink(t)
  PROVE  /\ StoredUnder(arg[t]) # NoValue
         /\ StoredUnder(arg[t])' = NoValue
         /\ \A k \in Key \ {arg[t]} : StoredUnder(k)' = StoredUnder(k)
<1> USE DEF IInv
<1> DEFINE n == curr[t]
<1>1. /\ key' = key /\ val' = val /\ arg' = arg /\ pc[t] = "unlink" /\ pc'[t] = "free"
      /\ Move(t) /\ Loud(t)
  BY DEF Unlink, Move, Inside, Loud, Goto, TypeOK, locals
<1>2. /\ n \in Linked \ {Head} /\ Linked' = Linked \ {n} /\ key[n] = arg[t] /\ arg[t] \in Key
  BY <1>1, LoudLinked, LockedChainAssumption DEF Found, FoundBy, TypeOK
<1>3. \A u \in Thread : pc[u] # "write" /\ pc'[u] # "write"
  BY <1>1, Alone, Others DEF InLock
<1>4. \A m : Writers(m) = {} /\ Writers(m)' = {}
  BY <1>3 DEF Writers
<1>5. \A m : ValueAt(m) = val[m] /\ ValueAt(m)' = val[m]
  BY <1>1, <1>4 DEF ValueAt
<1>6. StoredUnder(arg[t]) # NoValue
  <2>1. StoredUnder(arg[t]) = val[n] /\ val[n] \in ValueOf[arg[t]]
    BY <1>2, <1>3, <1>5, StoredIs DEF Values
  <2> QED  BY <1>2, <2>1, LockedChainMapAssumption
<1>7. StoredUnder(arg[t])' = NoValue
  <2>1. {m \in Chain' : key'[m] = arg[t]} = {}
    BY <1>1, <1>2 DEF Chain, Whole, OneEach
  <2> QED  BY <1>1, <2>1 DEF StoredUnder
<1>8. \A k \in Key \ {arg[t]} : StoredUnder(k)' = StoredUnder(k)
  <2> SUFFICES ASSUME NEW k \in Key \ {arg[t]} PROVE StoredUnder(k)' = StoredUnder(k)
    OBVIOUS
  <2>1. With(k)' = With(k) /\ \A m \in With(k) : ValueAt(m)' = ValueAt(m)
    BY <1>1, <1>2, <1>5 DEF With
  <2> QED  BY <2>1, SameStored
<1> QED  BY <1>6, <1>7, <1>8

\* What the threads that have called put, get or del show, and what map they see:
\* that of KVMap, but for the zeros of the wrongget map.
AsGiven(g) == g = IF impl = "wrongget" THEN Zeroed ELSE AsPut

\* Every step of a thread is one of KVMap, or callers cannot see it.
LEMMA MapStep ==
  ASSUME IInv, IInv', NEW t \in Thread, Move(t), NEW g, AsGiven(g)
  PROVE  Map(g)!Next \/ UNCHANGED Map(g)!vars
<1> USE DEF Goto, Decide, lock, heap, locals
<1>o. OnlyBy(t)
  BY OthersView DEF IInv
<1>c. ControlAt(t) /\ CopyBy(t) /\ FoundBy(t)
  BY DEF IInv, Control, Copies, Found
<1>t. /\ pc   \in [Thread -> {"idle", "acquire", "walk", "write", "alloc", "push", "read",
                               "unlink", "free", "release", "done"}]
      /\ kind \in [Thread -> {"none", "put", "get", "del"}]
      /\ arg  \in [Thread -> Key]
      /\ buf  \in [Thread -> [Word -> Data \cup {Junk}]]
      /\ todo \in [Thread -> SUBSET Word]
      /\ ret  \in [Thread -> {0, 1}]
  BY DEF IInv, TypeOK
<1>s. ASSUME SameStore, SameView(t)
      PROVE  UNCHANGED Map(g)!vars
  BY <1>s, <1>o, Silent DEF OnlyBy
<1>1. CASE Begin(t)
  <2> PICK op \in {"put", "get", "del"}, k \in Key :
        \E b \in ValueOf[k] \cup {EmptyBuf} : Call(t, op, k, b)
    BY <1>1 DEF Begin
  <2> PICK b \in ValueOf[k] \cup {EmptyBuf} : Call(t, op, k, b)
    OBVIOUS
  <2> DEFINE c == [op |-> op, key |-> k, val |-> IF op = "put" THEN b ELSE NoValue]
  <2>1. /\ pc[t] = "idle" /\ pc'[t] = "acquire" /\ kind'[t] = op /\ arg'[t] = k /\ buf'[t] = b
        /\ op = "put" => b \in ValueOf[k]
    BY <1>t DEF Call
  <2>2. SameStore
    BY <1>1, StoreKept DEF Begin, Call, Write, Push, Unlink
  <2>3. /\ Status(t) = "idle" /\ Status(t)' = "called" /\ CallBy(t)' = c
        /\ AnswerTo(t)' = AnswerTo(t)
    BY <2>1 DEF Status, CallBy, AnswerTo, Effected
  <2>4. Map(g)!Call(t, c)
    BY <2>2, <2>3, <1>o, Calling
  <2>5. op = "put" => b \in AnyValue
    BY <2>1 DEF AnyValue
  <2>6. c \in Map(g)!Request
    BY <2>5 DEF Map!Request, Map!PutCall, Map!GetCall, Map!DelCall
  <2> QED  BY <2>4, <2>6 DEF Map!Next
<1>2. CASE Acquire(t) \/ Step(t) \/ Free(t) \/ Release(t) \/ Alloc(t)
  <2>1. SameStore
    BY <1>2, StoreKept DEF Acquire, Step, Free, Release, Alloc, Write, Push, Unlink
  <2>2. SameView(t)
    <3>1. CASE Acquire(t) \/ Step(t) \/ Alloc(t)
      <4>1. /\ UNCHANGED <<kind, arg, buf, ret>> /\ pc[t] \in {"acquire", "walk", "alloc"}
            /\ pc'[t] \in {"walk", "push"}
        BY <3>1, <1>t DEF Acquire, Step, Alloc
      <4> QED  BY <4>1 DEF SameView, Status, CallBy, AnswerTo, Effected
    <3>2. CASE Free(t)
      <4>1. /\ UNCHANGED <<kind, arg, buf>> /\ pc[t] = "free" /\ pc'[t] = "release"
            /\ ret'[t] = 1 /\ kind[t] = "del"
        BY <3>2, <1>t, <1>c DEF Free, ControlAt
      <4> QED  BY <4>1 DEF SameView, Status, CallBy, AnswerTo, Effected, AnswerOf
    <3>3. CASE Release(t)
      <4>1. UNCHANGED <<kind, arg, buf, ret>> /\ pc[t] = "release" /\ pc'[t] = "done"
        BY <3>3, <1>t DEF Release
      <4> QED  BY <4>1 DEF SameView, Status, CallBy, AnswerTo, Effected, AnswerOf
    <3> QED  BY <1>2, <3>1, <3>2, <3>3
  <2> QED  BY <2>1, <2>2, <1>s
<1>3. CASE Hit(t)
  <2>1. SameStore
    BY <1>3, StoreKept DEF Hit, Write, Push, Unlink
  <2>2. /\ UNCHANGED <<kind, arg, buf, ret>> /\ pc[t] = "walk" /\ pc'[t] \in {"write", "read", "unlink"}
        /\ pc'[t] = "write" => todo'[t] = Word
    BY <1>3, <1>t, <1>c DEF Hit, OnHit, ControlAt
  <2>3. SameView(t)
    BY <2>2 DEF SameView, Status, CallBy, AnswerTo, Effected
  <2> QED  BY <2>1, <2>3, <1>s
<1>4. CASE Miss(t)
  <2>1. SameStore
    BY <1>4, StoreKept DEF Miss, Write, Push, Unlink
  <2>2. /\ UNCHANGED <<kind, arg, buf>> /\ pc[t] = "walk" /\ kind[t] # "none"
        /\ IF kind[t] = "put" THEN pc'[t] = "alloc" ELSE pc'[t] = "release" /\ ret'[t] = 0
    BY <1>4, <1>t, <1>c DEF Miss, ControlAt
  <2>3. CASE kind[t] = "put"
    <3>1. SameView(t)
      BY <2>2, <2>3 DEF SameView, Status, CallBy, AnswerTo, Effected
    <3> QED  BY <2>1, <3>1, <1>s
  <2>4. CASE kind[t] # "put"
    <3>1. Status(t) = "called" /\ Status(t)' = "done" /\ CallBy(t)' = CallBy(t)
      BY <2>2, <2>4 DEF Status, CallBy, Effected
    <3>2. AnswerTo(t)' = [ret |-> 0, val |-> NoValue]
      BY <2>2, <2>4 DEF AnswerTo, AnswerOf, Effected
    <3>3. Map(g)!Answered(t, [ret |-> 0, val |-> NoValue])
      BY <3>1, <3>2, <1>o, Answering
    <3>4. StoredUnder(arg[t]) = NoValue
      <4>1. Reach(Cell, next, NULL, curr[t]) = {}
        BY <1>4, ReachNothing, LockedChainAssumption DEF Miss, Cell
      <4> QED  BY <4>1, <2>2, <1>c, StoredNothing DEF FoundBy, IInv
    <3>5. CallBy(t) = [op |-> kind[t], key |-> arg[t], val |-> NoValue] /\ arg[t] \in Key
      BY <2>2, <2>4, <1>t DEF CallBy
    <3>6. CASE kind[t] = "get"
      <4>1. Map(g)!Get(t)
        BY <3>3, <3>4, <3>5, <3>6, <2>1, Getting
      <4> QED  BY <4>1 DEF Map!Next
    <3>7. CASE kind[t] = "del"
      <4>1. Map(g)!Del(t)
        BY <3>3, <3>4, <3>5, <3>7, <2>1, <2>2, Deleting DEF SameStore
      <4> QED  BY <4>1 DEF Map!Next
    <3> QED  BY <2>2, <2>4, <3>6, <3>7, <1>t
  <2> QED  BY <2>3, <2>4
<1>5. CASE AllocFails(t)
  <2>1. SameStore
    BY <1>5, StoreKept DEF AllocFails, Write, Push, Unlink
  <2>2. /\ UNCHANGED <<kind, arg, buf>> /\ pc[t] = "alloc" /\ kind[t] = "put"
        /\ pc'[t] = "release" /\ ret'[t] = 0
    BY <1>5, <1>t, <1>c DEF AllocFails, ControlAt
  <2>3. Status(t) = "called" /\ Status(t)' = "done" /\ CallBy(t)' = CallBy(t)
    BY <2>2 DEF Status, CallBy, Effected
  <2>4. AnswerTo(t)' = [ret |-> 0, val |-> NoValue]
    BY <2>2 DEF AnswerTo, AnswerOf, Effected
  <2>5. Map(g)!Answered(t, [ret |-> 0, val |-> NoValue])
    BY <2>3, <2>4, <1>o, Answering
  <2>6. StoredUnder(arg[t]) = NoValue
    BY <2>2, <1>c, StoredNothing DEF FoundBy, IInv
  <2>7. /\ CallBy(t) = [op |-> "put", key |-> arg[t], val |-> buf[t]]
        /\ arg[t] \in Key /\ buf[t] \in AnyValue
    BY <2>2, <1>t, <1>c DEF CallBy, CopyBy, AnyValue
  <2>8. Map(g)!PutFails(t)
    BY <2>5, <2>6, <2>7, <2>1
       DEF Map!PutFails, Map!PutCall, Map!Present, Map!NoAnswer, Map!Answers, CallBy, SameStore
  <2> QED  BY <2>8 DEF Map!Next
<1>6. ASSUME StoredUnder(arg[t])' = buf[t],
             \A k \in Key \ {arg[t]} : StoredUnder(k)' = StoredUnder(k),
             kind[t] = "put", UNCHANGED <<kind, arg, buf>>, ~Effected(t), pc[t] # "idle",
             Effected(t)', pc'[t] # "idle", AnswerTo(t)' = [ret |-> 1, val |-> NoValue]
      PROVE  Map(g)!Put(t)
  <2>1. Status(t) = "called" /\ Status(t)' = "done" /\ CallBy(t)' = CallBy(t)
    BY <1>6 DEF Status, CallBy
  <2>2. Map(g)!Answered(t, [ret |-> 1, val |-> NoValue])
    BY <1>6, <2>1, <1>o, Answering
  <2>3. /\ CallBy(t) = [op |-> "put", key |-> arg[t], val |-> buf[t]]
        /\ arg[t] \in Key /\ buf[t] \in AnyValue
    BY <1>6, <1>t, <1>c DEF CallBy, CopyBy, AnyValue
  <2> QED  BY <1>6, <2>2, <2>3 DEF Map!Put, Map!PutCall, Map!Answers, Map!Present, CallBy
<1>7. CASE Write(t)
  <2>1. /\ UNCHANGED <<kind, arg, buf>> /\ pc[t] = "write" /\ kind[t] = "put"
        /\ \/ pc'[t] = "write" /\ todo'[t] # Word
           \/ pc'[t] = "release" /\ ret'[t] = 1
    <3> PICK w \in todo[t] : /\ todo' = [todo EXCEPT ![t] = @ \ {w}]
                             /\ IF todo[t] = {w} THEN Decide(t, 1) ELSE UNCHANGED <<pc, ret>>
      BY <1>7 DEF Write
    <3>1. w \in Word /\ todo'[t] = todo[t] \ {w}
      BY <1>t
    <3> QED  BY <3>1, <1>7, <1>t, <1>c DEF Write, ControlAt
  <2>2. Effected(t)' /\ pc'[t] # "idle" /\ AnswerTo(t)' = [ret |-> 1, val |-> NoValue]
    BY <2>1 DEF Effected, AnswerTo, AnswerOf
  <2>3. /\ StoredUnder(arg[t])' = buf[t]
        /\ todo[t] # Word => StoredUnder(arg[t]) = buf[t]
        /\ \A k \in Key \ {arg[t]} : StoredUnder(k)' = StoredUnder(k)
    BY <1>7, WriteStores
  <2>4. CASE todo[t] = Word
    <3>1. ~Effected(t) /\ pc[t] # "idle"
      BY <2>1, <2>4 DEF Effected
    <3> QED  BY <1>6, <2>1, <2>2, <2>3, <3>1 DEF Map!Next
  <2>5. CASE todo[t] # Word
    <3>1. SameStore
      BY <2>1, <2>3, <2>5 DEF SameStore
    <3>2. AnswerTo(t) = [ret |-> 1, val |-> NoValue] /\ Effected(t)
      BY <2>1, <2>5 DEF Effected, AnswerTo, AnswerOf
    <3>3. SameView(t)
      BY <2>1, <2>2, <3>2 DEF SameView, Status, CallBy
    <3> QED  BY <3>1, <3>3, <1>s
  <2> QED  BY <2>4, <2>5
<1>8. CASE Push(t)
  <2>1. /\ UNCHANGED <<kind, arg, buf>> /\ pc[t] = "push" /\ kind[t] = "put"
        /\ pc'[t] = "release" /\ ret'[t] = 1
    BY <1>8, <1>t, <1>c DEF Push, ControlAt
  <2>2. /\ ~Effected(t) /\ pc[t] # "idle" /\ Effected(t)' /\ pc'[t] # "idle"
        /\ AnswerTo(t)' = [ret |-> 1, val |-> NoValue]
    BY <2>1 DEF Effected, AnswerTo, AnswerOf
  <2>3. /\ StoredUnder(arg[t])' = buf[t]
        /\ \A k \in Key \ {arg[t]} : StoredUnder(k)' = StoredUnder(k)
    BY <1>8, PushStores
  <2> QED  BY <1>6, <2>1, <2>2, <2>3 DEF Map!Next
<1>9. CASE Read(t)
  <2>0. SameStore
    BY <1>9, StoreKept DEF Read, Write, Push, Unlink
  <2> PICK w \in todo[t] : /\ buf' = [buf EXCEPT ![t][w] = Delivered(t, w)]
                           /\ todo' = [todo EXCEPT ![t] = @ \ {w}]
                           /\ IF todo[t] = {w} THEN Decide(t, 1) ELSE UNCHANGED <<pc, ret>>
    BY <1>9 DEF Read
  <2>1. UNCHANGED <<kind, arg>> /\ pc[t] = "read" /\ kind[t] = "get" /\ w \in Word
    BY <1>9, <1>t, <1>c DEF Read, ControlAt
  <2>2. CASE todo[t] # {w}
    <3>1. SameView(t)
      BY <2>1, <2>2 DEF SameView, Status, CallBy, AnswerTo, Effected
    <3> QED  BY <2>0, <3>1, <1>s
  <2>3. CASE todo[t] = {w}
    <3> DEFINE n == curr[t]
    <3>1. pc'[t] = "release" /\ ret'[t] = 1
      BY <2>3, <1>t
    <3>2. /\ n \in Linked \ {Head} /\ key[n] = arg[t] /\ n \in Node
      BY <2>1, <1>c, LockedChainAssumption DEF IInv, TypeOK, Walks, Walk, ControlAt, FoundBy
    <3>3. \A u \in Thread : pc[u] # "write"
      BY <2>1, Alone DEF InLock, IInv
    <3>4. StoredUnder(arg[t]) = val[n] /\ val[n] \in ValueOf[arg[t]]
      <4>1. ValueAt(n) = val[n]
        BY <3>3 DEF ValueAt, Writers
      <4> QED  BY <3>2, <3>3, <4>1, StoredIs DEF IInv, Values
    <3>5. arg[t] \in Key /\ val[n] \in AnyValue /\ val[n] # NoValue
      BY <3>4, <1>t, LockedChainMapAssumption DEF AnyValue
    <3>6. buf'[t] = g[val[n]]
      <4>1. buf'[t] = [v \in Word |-> Delivered(t, v)]
        <5>1. buf'[t] = [buf[t] EXCEPT ![w] = Delivered(t, w)] /\ buf[t] \in [Word -> Data \cup {Junk}]
          BY <1>t
        <5>2. \A v \in Word \ {w} : buf[t][v] = Delivered(t, v)
          BY <2>1, <2>3, <1>c DEF CopyBy
        <5> QED  BY <5>1, <5>2
      <4>2. val[n] \in [Word -> Data \cup {Junk}]
        BY <3>2 DEF IInv, TypeOK
      <4>3. CASE impl = "wrongget"
        BY <3>5, <4>1, <4>3 DEF AsGiven, Zeroed
      <4>4. CASE impl # "wrongget"
        BY <3>5, <4>1, <4>2, <4>4 DEF AsGiven, AsPut
      <4> QED  BY <4>3, <4>4
    <3>7. Status(t) = "called" /\ Status(t)' = "done" /\ CallBy(t)' = CallBy(t)
      BY <2>1, <3>1 DEF Status, CallBy, Effected
    <3>8. AnswerTo(t)' = [ret |-> 1, val |-> g[val[n]]]
      BY <2>1, <3>1, <3>6 DEF AnswerTo, AnswerOf, Effected
    <3>9. PICK a : a = [ret |-> 1, val |-> g[val[n]]]
      OBVIOUS
    <3>10. Map(g)!Answered(t, a)
      BY <3>7, <3>8, <3>9, <1>o, Answering
    <3>11. Map(g)!Get(t)
      BY <2>0, <2>1, <3>4, <3>5, <3>9, <3>10, Getting
    <3> QED  BY <3>11 DEF Map!Next
  <2> QED  BY <2>2, <2>3
<1>10. CASE Unlink(t)
  <2>1. /\ UNCHANGED <<kind, arg, buf>> /\ pc[t] = "unlink" /\ kind[t] = "del" /\ pc'[t] = "free"
    BY <1>10, <1>t, <1>c DEF Unlink, ControlAt
  <2>2. Status(t) = "called" /\ Status(t)' = "done" /\ CallBy(t)' = CallBy(t)
    BY <2>1 DEF Status, CallBy, Effected
  <2>3. AnswerTo(t)' = [ret |-> 1, val |-> NoValue]
    BY <2>1 DEF AnswerTo, AnswerOf, Effected
  <2>4. Map(g)!Answered(t, [ret |-> 1, val |-> NoValue])
    BY <2>2, <2>3, <1>o, Answering
  <2>5. /\ StoredUnder(arg[t]) # NoValue
        /\ StoredUnder(arg[t])' = NoValue
        /\ \A k \in Key \ {arg[t]} : StoredUnder(k)' = StoredUnder(k)
    BY <1>10, UnlinkStores
  <2>6. CallBy(t) = [op |-> "del", key |-> arg[t], val |-> NoValue] /\ arg[t] \in Key
    BY <2>1, <1>t DEF CallBy
  <2>7. Map(g)!Del(t)
    BY <2>1, <2>4, <2>5, <2>6, Deleting
  <2> QED  BY <2>7 DEF Map!Next
<1>11. CASE Return(t)
  <2>1. SameStore
    BY <1>11, StoreKept DEF Return, Write, Push, Unlink
  <2>2. pc[t] = "done" /\ pc'[t] = "idle" /\ kind'[t] = "none"
    BY <1>11, <1>t DEF Return
  <2>3. /\ Status(t) = "done" /\ Status(t)' = "idle" /\ CallBy(t)' = [op |-> "none"]
        /\ AnswerTo(t)' = [ret |-> 0, val |-> NoValue]
    BY <2>2 DEF Status, CallBy, AnswerTo, Effected
  <2> QED  BY <2>1, <2>3, <1>o, Returning DEF Map!Next
<1> QED  BY <1>1, <1>2, <1>3, <1>4, <1>5, <1>7, <1>8, <1>9, <1>10, <1>11 DEF Move, Inside

-----------------------------------------------------------------------------
(* The theorems                                                            *)

\* An empty bucket nobody has called yet.
LEMMA InvInit == Init => IInv
<1> SUFFICES ASSUME Init PROVE IInv
  OBVIOUS
<1> USE LockedChainAssumption, AnyKeyIsKey DEF Init
<1>1. TypeOK
  BY DEF TypeOK, Cell, EmptyBuf
<1>2. Control /\ Locks /\ Exclusive
  BY DEF Control, ControlAt, Locks, LockAt, InLock, Exclusive
<1>3. Linked = {Head} /\ next[Head] = NULL
  BY DEF Linked, Cell
<1>4. Shape /\ Walks
  BY <1>3 DEF Shape, Walks, Walk
<1>5. Reach(Cell, next, NULL, Head) = {Head} \cup Reach(Cell, next, NULL, NULL)
  <2>1. next \in [Cell -> Node \cup {NULL}] /\ Head \in Cell
    BY <1>1 DEF TypeOK, Cell
  <2>2. IsList(Cell, next, NULL, Head)
    BY <2>1, ChainIsList
  <2> QED  BY <2>1, <2>2, <1>3, ReachOneMore
<1>6. Whole
  BY <1>3, <1>5, ReachNothing DEF Whole, Cell
<1>7. OneEach /\ Found
  BY <1>3 DEF OneEach, Found, FoundBy
<1>8. Copies /\ Values
  BY <1>3 DEF Copies, CopyBy, Values
<1> QED  BY <1>1, <1>2, <1>4, <1>6, <1>7, <1>8 DEF IInv

LEMMA InvNext == IInv /\ [Next]_vars => IInv'
<1> SUFFICES ASSUME IInv, [Next]_vars PROVE IInv'
  OBVIOUS
<1> USE DEF IInv
<1>1. CASE Next
  <2> PICK t \in Thread : Move(t)
    BY <1>1 DEF Next, Move
  <2>1. TypeOK' /\ Control' /\ Locks' /\ Exclusive'
    BY TypeStep, ControlStep, LocksStep, ExclusiveStep
  <2>2. Shape' /\ Walks'
    BY ShapeStep, WalkStep
  <2>3. Whole' /\ OneEach' /\ Found'
    BY <2>1, WholeStep, OneEachStep, FoundStep
  <2>4. Copies' /\ Values'
    BY CopiesStep, ValuesStep
  <2> QED  BY <2>1, <2>2, <2>3, <2>4
<1>2. CASE UNCHANGED vars
  <2> USE <1>2 DEF vars, lock, heap, locals
  <2>1. TypeOK' /\ Control' /\ Locks' /\ Exclusive'
    BY DEF TypeOK, Cell, Control, ControlAt, Locks, LockAt, Shared, Exclusive
  <2>2. Linked' = Linked
    BY DEF Linked, Detached
  <2>3. Shape' /\ Walks'
    BY <2>2 DEF Shape, Walks, Walk
  <2>4. Whole' /\ OneEach' /\ Found'
    BY <2>2 DEF Whole, OneEach, Found, FoundBy
  <2>5. Copies' /\ Values'
    BY <2>2 DEF Copies, CopyBy, Values
  <2> QED  BY <2>1, <2>3, <2>4, <2>5
<1> QED  BY <1>1, <1>2

LEMMA Invariance == Spec => []IInv
  BY InvInit, InvNext, PTL DEF Spec

\* Every variable of a bucket keeps its type in every run of its threads.
THEOREM LockedChainTypeCorrect == Spec => []TypeOK
<1>1. IInv => TypeOK
  BY DEF IInv
<1> QED  BY <1>1, Invariance, PTL

\* The lock of a bucket does what it is for: no thread that changes the chain or
\* a value shares the bucket with anybody else.
THEOREM WritersAreAlone == Spec => []Exclusive
<1>1. IInv => Exclusive
  BY DEF IInv
<1> QED  BY <1>1, Invariance, PTL

\* No thread inside a bucket ever looks at a node that del has freed, although
\* the readers of kv_rwlock.c walk side by side and del frees at once.
THEOREM LockedChainIsSafe == Spec => []NoUseAfterFree
<1>1. IInv => NoUseAfterFree
  <2> SUFFICES ASSUME IInv, NEW t \in Thread, Looking(t)
               PROVE  curr[t] \in allocated \cup {NULL}
    BY DEF NoUseAfterFree
  <2>1. curr[t] # Head
    BY LockedChainAssumption DEF IInv, TypeOK
  <2> QED  BY <2>1 DEF IInv, Walks, Walk, Looking, Linked
<1> QED  BY <1>1, Invariance, PTL

\* malloc and free balance: whenever nobody has the bucket for himself, what is
\* allocated is what a walk meets, each key once.  No interleaving, and no path
\* through put or del, loses a node or stores a key twice.
THEOREM NothingIsLost == Spec => []NoLeak
<1>1. IInv => NoLeak
  <2> SUFFICES ASSUME IInv, writer = {} PROVE allocated = Chain /\ OneEach /\ Chain = Linked \ {Head}
    BY DEF NoLeak, OneEach
  <2> USE DEF IInv
  <2>1. \A t \in Thread : pc[t] \notin {"push", "free"}
    BY DEF Locks, LockAt, InLock, Control, ControlAt, Shared
  <2>2. Detached \ {NULL} = {}
    BY <2>1 DEF Detached, Control, ControlAt
  <2>3. Head \notin allocated /\ NULL \notin allocated
    BY LockedChainAssumption DEF TypeOK
  <2> QED  BY <2>2, <2>3 DEF Chain, Whole, Linked
<1> QED  BY <1>1, Invariance, PTL

\* kv_mutex.c and kv_rwlock.c implement the map of KVMap, whatever the
\* interleaving of their threads: put, get and del each take effect at one instant
\* between call and return.  So does kv_wrongget.c, with the zeros it hands out.
THEOREM LockedChainIsMap == Spec => IsMap
<1>1. Init => Map(AsPut)!Init
  <2> SUFFICES ASSUME Init PROVE Map(AsPut)!Init
    OBVIOUS
  <2>1. IInv
    BY InvInit
  <2>2. Linked \ {Head} = {}
    BY DEF Init, Linked
  <2>3. \A k \in Key : StoredUnder(k) = NoValue
    BY <2>1, <2>2, StoredNothing DEF IInv
  <2> QED  BY <2>3 DEF Init, Effected, Map!Init, Map!NoCall, Map!NoAnswer, Map!Answers
<1>2. IInv /\ IInv' /\ [Next]_vars =>
        [IF impl = "wrongget" THEN Map(Zeroed)!Next ELSE Map(AsPut)!Next]_(Map(AsPut)!vars)
  <2> SUFFICES ASSUME IInv, IInv', [Next]_vars
               PROVE  \/ IF impl = "wrongget" THEN Map(Zeroed)!Next ELSE Map(AsPut)!Next
                      \/ UNCHANGED Map(AsPut)!vars
    OBVIOUS
  <2>1. CASE Next
    <3> PICK t \in Thread : Move(t)
      BY <2>1 DEF Next, Move
    <3>1. CASE impl = "wrongget"
      <4>1. Map(Zeroed)!Next \/ UNCHANGED Map(Zeroed)!vars
        BY <3>1, MapStep DEF AsGiven
      <4>2. UNCHANGED Map(Zeroed)!vars => UNCHANGED Map(AsPut)!vars
        BY DEF Map!vars
      <4> QED  BY <3>1, <4>1, <4>2
    <3>2. CASE impl # "wrongget"
      BY <3>2, MapStep DEF AsGiven
    <3> QED  BY <3>1, <3>2
  <2>2. CASE UNCHANGED vars
    <3>1. SameStore
      BY <2>2 DEF vars, lock, heap, locals, SameStore, StoredUnder, ValueAt, Writers, Chain
    <3>2. \A t \in Thread : SameView(t)
      BY <2>2 DEF vars, lock, heap, locals, SameView, Status, CallBy, AnswerTo, AnswerOf, Effected
    <3> QED  BY <3>1, <3>2, Silent
  <2> QED  BY <2>1, <2>2
<1> QED  BY <1>1, <1>2, Invariance, PTL DEF Spec, IsMap
=============================================================================
