-------------------------- MODULE HarrisListProofs --------------------------
(***************************************************************************)
(* The safety properties of HarrisList for any number of threads, nodes,   *)
(* keys and words, and the map of HarrisMap that a single caller sees.     *)
(*                                                                         *)
(* The invariant is built in layers, each inductive relative to those      *)
(* before it:                                                              *)
(*   TypeOK, Control   what each program point says about the locals       *)
(*   Fresh, NoDangling a node is private until it is linked, and nothing   *)
(*                     leads to a node that is private or free             *)
(*   Sorted, Order     keys grow along next, and along pred, curr, succ    *)
(*   Stored, Holding   every word stored under a key was put under it      *)
(*   Alone             what a single caller knows: none of its compare-    *)
(*                     and-swaps fails, no node it walks over is marked    *)
(***************************************************************************)
EXTENDS HarrisMap, SharedLemmas, TLAPS

\* Abbreviations every proof may expand.
USE DEF FirstNext, Before, Found, Span, TryAgain, Freed

-----------------------------------------------------------------------------
(* The layers of the invariant                                             *)

\* The program points inside harris_find.
InFind == {"find", "walk", "snip", "reload"}

\* What the program point of t says about its locals.
ControlAt(t) ==
  /\ kind[t] = "none" <=> pc[t] = "idle"
  /\ kind[t] = "help" => pc[t] \in InFind \cup {"fault"}
  /\ pc[t] \in {"write", "alloc", "link"} => kind[t] = "put"
  /\ pc[t] = "read" => kind[t] = "get"
  /\ pc[t] \in {"load", "mark", "unlink"} => kind[t] = "del"
  /\ pc[t] \in {"snip", "write", "read", "load", "mark", "unlink"} => curr[t].ptr # NULL
  /\ new[t] = NULL <=> pc[t] # "link"
  /\ ret[t] = 1 => pc[t] = "done"

Control == \A t \in Thread : ControlAt(t)

\* A node put_impl has allocated: nobody else has it, and it is as node_new left it.
Fresh ==
  \A t \in Thread :
    new[t] # NULL =>
      /\ new[t] \in allocated
      /\ key[new[t]] = arg[t]
      /\ next[new[t]] = NullRef
      /\ \A u \in Thread : new[u] = new[t] => u = t

\* The sentinel's key is below every caller's key.
HeadKey == key[Head] = 0

\* The keys along pred, curr and succ, once harris_find has loaded them.
Order(t) ==
  /\ pc[t] \notin {"idle", "find", "done", "fault"} =>
       /\ key[pred[t]] < arg[t]
       /\ curr[t].ptr # NULL => key[pred[t]] < key[curr[t].ptr]
  /\ pc[t] \in {"snip", "mark", "unlink"} =>
       (succ[t].ptr # NULL => key[curr[t].ptr] < key[succ[t].ptr])
  /\ pc[t] \in {"write", "read", "load", "mark", "unlink"} => key[curr[t].ptr] = arg[t]

Ordered == \A t \in Thread : Order(t)

\* Every word of a node was put under the node's key.
Stored == \A n \in allocated : \A w \in Word : val[n][w] \in WordOf(key[n], w)

\* What a thread has in its buffer.
Holding(t) ==
  /\ kind[t] = "put" => buf[t] \in ValueOf[arg[t]]
  /\ pc[t] = "read" => \A w \in Word \ todo[t] : buf[t][w] \in WordOf(arg[t], w)
  /\ pc[t] = "done" /\ kind[t] = "get" /\ ret[t] = 1
       => \A w \in Word : buf[t][w] \in WordOf(arg[t], w)

Held == \A t \in Thread : Holding(t)

\* The inductive invariant.
IInv ==
  /\ TypeOK /\ Control
  /\ Fresh /\ NoDangling
  /\ HeadKey /\ Sorted /\ Ordered
  /\ Stored /\ Held

-----------------------------------------------------------------------------
\* The key of a thread that makes no call is a key.
LEMMA AnyKeyIsKey == AnyKey \in Key
  BY HarrisAssumption DEF AnyKey

\* The null reference is a reference, to nothing.
LEMMA NullIsRef == NullRef \in Ref /\ NullRef.ptr = NULL
  BY DEF NullRef, Plain, Ref

\* Storing one value in a function.
LEMMA Store ==
  ASSUME NEW S, NEW R, NEW f \in [S -> R], NEW c \in S, NEW r \in R
  PROVE  [f EXCEPT ![c] = r] \in [S -> R]
  OBVIOUS

\* A thread is at a program point only in the operations that have it, holds a
\* node wherever it dereferences one, and has a private node exactly at the
\* compare-and-swap that links it.
LEMMA ControlStep ==
  ASSUME TypeOK, Control, NEW t \in Thread, Begin(t) \/ Work(t)
  PROVE  Control'
<1> USE DEF Goto, Finish, locals, heap, ControlAt, InFind
<1> SUFFICES ASSUME NEW u \in Thread PROVE ControlAt(u)'
  BY DEF Control
<1>c. ControlAt(u) /\ ControlAt(t)
  BY DEF Control
<1>t. /\ pc \in [Thread -> Label]
      /\ kind \in [Thread -> {"none", "put", "get", "del", "help"}]
      /\ curr \in [Thread -> Ref]
      /\ new \in [Thread -> Node \cup {NULL}]
      /\ ret \in [Thread -> {0, 1}]
  BY DEF TypeOK
<1>1. CASE Begin(t)
  BY <1>1, <1>c, <1>t DEF Begin, Call, Operation
<1>2. CASE FindStart(t)
  BY <1>2, <1>c, <1>t DEF FindStart
<1>3. CASE WalkOff(t)
  BY <1>3, <1>c, <1>t DEF WalkOff, FindReturns, OnMiss
<1>4. CASE WalkFault(t)
  BY <1>4, <1>c, <1>t DEF WalkFault
<1>5. CASE WalkMarked(t)
  BY <1>5, <1>c, <1>t DEF WalkMarked
<1>6. CASE WalkStop(t)
  BY <1>6, <1>c, <1>t DEF WalkStop, FindReturns, OnMiss, OnHit
<1>7. CASE WalkPast(t)
  BY <1>7, <1>c, <1>t DEF WalkPast
<1>8. CASE Snip(t)
  BY <1>8, <1>c, <1>t DEF Snip
<1>9. CASE Reload(t)
  BY <1>9, <1>c, <1>t DEF Reload
<1>10. CASE Write(t)
  BY <1>10, <1>c, <1>t DEF Write
<1>11. CASE Alloc(t)
  BY <1>11, <1>c, <1>t, HarrisAssumption DEF Alloc
<1>12. CASE AllocFails(t)
  BY <1>12, <1>c, <1>t DEF AllocFails
<1>13. CASE Link(t)
  BY <1>13, <1>c, <1>t DEF Link
<1>14. CASE Read(t)
  BY <1>14, <1>c, <1>t DEF Read
<1>15. CASE Load(t)
  BY <1>15, <1>c, <1>t DEF Load
<1>16. CASE Mark(t)
  BY <1>16, <1>c, <1>t DEF Mark
<1>17. CASE Unlink(t)
  BY <1>17, <1>c, <1>t DEF Unlink
<1>18. CASE Return(t)
  BY <1>18, <1>c, <1>t DEF Return
<1> QED
  BY <1>1, <1>2, <1>3, <1>4, <1>5, <1>6, <1>7, <1>8, <1>9, <1>10, <1>11, <1>12, <1>13,
     <1>14, <1>15, <1>16, <1>17, <1>18 DEF Work, Find

\* Every action keeps every variable in its type.
LEMMA TypeStep ==
  ASSUME TypeOK, Control, NEW t \in Thread, Begin(t) \/ Work(t)
  PROVE  TypeOK'
<1> USE HarrisAssumption, AnyKeyIsKey
    DEF TypeOK, Cell, Ref, Label, NullRef, Plain, Marked, EmptyBuf, heap, locals, Goto, Finish
<1>c. ControlAt(t)
  BY DEF Control
<1> USE DEF ControlAt, InFind
<1>1. CASE Begin(t)
  BY <1>1 DEF Begin, Call, Operation
<1>2. CASE FindStart(t)
  BY <1>2, <1>c DEF FindStart
<1>3. CASE WalkOff(t)
  BY <1>3, <1>c DEF WalkOff, FindReturns, OnMiss
<1>4. CASE WalkFault(t)
  BY <1>4, <1>c DEF WalkFault
<1>5. CASE WalkMarked(t)
  BY <1>5, <1>c DEF WalkMarked
<1>6. CASE WalkStop(t)
  BY <1>6, <1>c DEF WalkStop, FindReturns, OnMiss, OnHit
<1>7. CASE WalkPast(t)
  BY <1>7, <1>c DEF WalkPast
<1>8. CASE Snip(t)
  <2>1. pred[t] \in Cell /\ Plain(succ[t].ptr) \in Ref /\ next \in [Cell -> Ref]
    BY <1>c
  <2>2. next' = next \/ next' = [next EXCEPT ![pred[t]] = Plain(succ[t].ptr)]
    BY <1>8 DEF Snip
  <2>3. next' \in [Cell -> Ref]
    <3> HIDE DEF TypeOK, Cell, Ref, Plain, Marked
    <3> QED  BY <2>1, <2>2, Store
  <2> QED  BY <2>3, <1>8 DEF Snip
<1>9. CASE Reload(t)
  BY <1>9, <1>c DEF Reload
<1>10. CASE Write(t)
  <2> PICK w \in todo[t] :
         /\ val'  = [val EXCEPT ![curr[t].ptr][w] = buf[t][w]]
         /\ todo' = [todo EXCEPT ![t] = @ \ {w}]
         /\ IF todo[t] = {w} THEN Finish(t, 1) ELSE UNCHANGED <<pc, ret>>
    BY <1>10 DEF Write
  <2>1. curr[t].ptr \in Node /\ w \in Word /\ buf[t][w] \in Data \cup {Junk}
    BY <1>10, <1>c DEF Write
  <2>2. [val[curr[t].ptr] EXCEPT ![w] = buf[t][w]] \in [Word -> Data \cup {Junk}]
    BY <2>1
  <2>3. val' = [val EXCEPT ![curr[t].ptr] = [val[curr[t].ptr] EXCEPT ![w] = buf[t][w]]]
    BY <2>1
  <2>4. val' \in [Node -> [Word -> Data \cup {Junk}]]
    BY <2>1, <2>2, <2>3
  <2>5. pc' \in [Thread -> Label] /\ todo' \in [Thread -> SUBSET Word] /\ ret' \in [Thread -> {0, 1}]
    OBVIOUS
  <2>6. UNCHANGED <<allocated, key, next, kind, arg, buf, pred, curr, succ, new>>
    BY <1>10 DEF Write
  <2> QED  BY <2>4, <2>5, <2>6
<1>11. CASE Alloc(t)
  <2> PICK n \in Node \ allocated :
         /\ allocated' = allocated \cup {n}
         /\ key'  = [key EXCEPT ![n] = arg[t]]
         /\ val'  = [val EXCEPT ![n] = buf[t]]
         /\ next' = [next EXCEPT ![n] = NullRef]
         /\ new'  = [new EXCEPT ![t] = n]
    BY <1>11 DEF Alloc
  <2>1. key' \in [Cell -> Nat] /\ val' \in [Node -> [Word -> Data \cup {Junk}]]
    OBVIOUS
  <2>2. next' \in [Cell -> Ref]
    <3>1. n \in Cell /\ next \in [Cell -> Ref]
      OBVIOUS
    <3> HIDE DEF TypeOK, Cell, Ref, NullRef
    <3> QED  BY <3>1, NullIsRef, Store
  <2> QED  BY <2>1, <2>2, <1>11 DEF Alloc
<1>12. CASE AllocFails(t)
  BY <1>12, <1>c DEF AllocFails
<1>13. CASE Link(t)
  <2>0. new[t] # NULL
    BY <1>13, <1>c DEF Link
  <2>1. pred[t] \in Cell /\ Plain(new[t]) \in Ref /\ next \in [Cell -> Ref]
    BY <2>0
  <2>2. next' = next \/ next' = [next EXCEPT ![pred[t]] = Plain(new[t])]
    BY <1>13 DEF Link
  <2>3. next' \in [Cell -> Ref]
    <3> HIDE DEF TypeOK, Cell, Ref, Plain, Marked
    <3> QED  BY <2>1, <2>2, Store
  <2>4. allocated' \in SUBSET Node /\ new' \in [Thread -> Node \cup {NULL}]
    BY <1>13 DEF Link
  <2>5. pc' \in [Thread -> Label] /\ ret' \in [Thread -> {0, 1}]
    <3>1. pc' \in {[pc EXCEPT ![t] = "done"], [pc EXCEPT ![t] = "find"]} /\ ret' \in {ret, [ret EXCEPT ![t] = 1]}
      BY <1>13 DEF Link
    <3>2. pc \in [Thread -> Label] /\ ret \in [Thread -> {0, 1}] /\ {"done", "find"} \subseteq Label
      OBVIOUS
    <3> HIDE DEF TypeOK, Label
    <3> QED  BY <3>1, <3>2
  <2>6. UNCHANGED <<key, val, kind, arg, buf, todo, pred, curr, succ>>
    BY <1>13 DEF Link
  <2> QED  BY <2>3, <2>4, <2>5, <2>6
<1>14. CASE Read(t)
  <2> PICK w \in todo[t] :
         /\ buf'  = [buf EXCEPT ![t][w] = val[curr[t].ptr][w]]
         /\ todo' = [todo EXCEPT ![t] = @ \ {w}]
         /\ IF todo[t] = {w} THEN Finish(t, 1) ELSE UNCHANGED <<pc, ret>>
    BY <1>14 DEF Read
  <2>1. t \in Thread /\ w \in Word /\ val[curr[t].ptr][w] \in Data \cup {Junk}
    BY <1>14, <1>c DEF Read
  <2>2. [buf[t] EXCEPT ![w] = val[curr[t].ptr][w]] \in [Word -> Data \cup {Junk}]
    BY <2>1
  <2>3. buf' = [buf EXCEPT ![t] = [buf[t] EXCEPT ![w] = val[curr[t].ptr][w]]]
    BY <2>1
  <2>4. buf' \in [Thread -> [Word -> Data \cup {Junk}]]
    BY <2>1, <2>2, <2>3
  <2>5. pc' \in [Thread -> Label] /\ todo' \in [Thread -> SUBSET Word] /\ ret' \in [Thread -> {0, 1}]
    OBVIOUS
  <2>6. UNCHANGED <<allocated, key, val, next, kind, arg, pred, curr, succ, new>>
    BY <1>14 DEF Read
  <2> QED  BY <2>4, <2>5, <2>6
<1>15. CASE Load(t)
  <2>1. pc' \in [Thread -> Label] /\ ret' \in [Thread -> {0, 1}]
    <3>1. pc' \in {[pc EXCEPT ![t] = "done"], [pc EXCEPT ![t] = "mark"]} /\ ret' \in {ret, [ret EXCEPT ![t] = 0]}
      BY <1>15 DEF Load
    <3>2. pc \in [Thread -> Label] /\ ret \in [Thread -> {0, 1}] /\ {"done", "mark"} \subseteq Label
      OBVIOUS
    <3> HIDE DEF TypeOK, Label
    <3> QED  BY <3>1, <3>2
  <2>2. curr[t].ptr \in Cell /\ next[curr[t].ptr] \in Ref
    BY <1>15, <1>c DEF Load
  <2>3. succ' \in [Thread -> Ref]
    BY <1>15, <2>2 DEF Load
  <2>4. UNCHANGED <<allocated, key, val, next, kind, arg, buf, todo, pred, curr, new>>
    BY <1>15 DEF Load
  <2> QED  BY <2>1, <2>3, <2>4
<1>16. CASE Mark(t)
  <2>1. curr[t].ptr \in Cell /\ Marked(succ[t]) \in Ref /\ next \in [Cell -> Ref]
    BY <1>16, <1>c DEF Mark
  <2>2. next' = next \/ next' = [next EXCEPT ![curr[t].ptr] = Marked(succ[t])]
    BY <1>16 DEF Mark
  <2>3. next' \in [Cell -> Ref]
    <3> HIDE DEF TypeOK, Cell, Ref, Plain, Marked
    <3> QED  BY <2>1, <2>2, Store
  <2> QED  BY <2>3, <1>16 DEF Mark
<1>17. CASE Unlink(t)
  <2>1. pred[t] \in Cell /\ succ[t] \in Ref /\ next \in [Cell -> Ref]
    BY <1>c
  <2>2. next' = next \/ next' = [next EXCEPT ![pred[t]] = succ[t]]
    BY <1>17 DEF Unlink
  <2>3. next' \in [Cell -> Ref]
    <3> HIDE DEF TypeOK, Cell, Ref, Plain, Marked
    <3> QED  BY <2>1, <2>2, Store
  <2>4. kind' \in [Thread -> {"none", "put", "get", "del", "help"}]
    BY <1>17 DEF Unlink
  <2>5. pc' \in [Thread -> Label] /\ ret' \in [Thread -> {0, 1}]
    <3>1. pc' \in {[pc EXCEPT ![t] = "done"], [pc EXCEPT ![t] = "find"]} /\ ret' \in {ret, [ret EXCEPT ![t] = 1]}
      BY <1>17 DEF Unlink
    <3>2. pc \in [Thread -> Label] /\ ret \in [Thread -> {0, 1}] /\ {"done", "find"} \subseteq Label
      OBVIOUS
    <3> HIDE DEF TypeOK, Label
    <3> QED  BY <3>1, <3>2
  <2>6. UNCHANGED <<allocated, key, val, arg, buf, todo, pred, curr, succ, new>>
    BY <1>17 DEF Unlink
  <2> QED  BY <2>3, <2>4, <2>5, <2>6
<1>18. CASE Return(t)
  BY <1>18, <1>c DEF Return
<1> HIDE DEF TypeOK
<1> QED
  BY <1>1, <1>2, <1>3, <1>4, <1>5, <1>6, <1>7, <1>8, <1>9, <1>10, <1>11, <1>12, <1>13,
     <1>14, <1>15, <1>16, <1>17, <1>18 DEF Work, Find

-----------------------------------------------------------------------------
(* A step of one thread and the others                                     *)

\* The locals of a thread change only in its own steps.
LEMMA Local ==
  ASSUME TypeOK, NEW t \in Thread, Begin(t) \/ Work(t), NEW u \in Thread, u # t
  PROVE  /\ pc'[u] = pc[u] /\ kind'[u] = kind[u] /\ arg'[u] = arg[u] /\ buf'[u] = buf[u]
         /\ todo'[u] = todo[u] /\ pred'[u] = pred[u] /\ curr'[u] = curr[u]
         /\ succ'[u] = succ[u] /\ new'[u] = new[u] /\ ret'[u] = ret[u]
<1> USE DEF TypeOK, Goto, Finish, locals, heap
<1>1. CASE Begin(t)
  BY <1>1 DEF Begin, Call
<1>2. CASE FindStart(t)
  BY <1>2 DEF FindStart
<1>3. CASE WalkOff(t)
  BY <1>3 DEF WalkOff, FindReturns
<1>4. CASE WalkFault(t)
  BY <1>4 DEF WalkFault
<1>5. CASE WalkMarked(t)
  BY <1>5 DEF WalkMarked
<1>6. CASE WalkStop(t)
  BY <1>6 DEF WalkStop, FindReturns
<1>7. CASE WalkPast(t)
  BY <1>7 DEF WalkPast
<1>8. CASE Snip(t)
  BY <1>8 DEF Snip
<1>9. CASE Reload(t)
  BY <1>9 DEF Reload
<1>10. CASE Write(t)
  BY <1>10 DEF Write
<1>11. CASE Alloc(t)
  BY <1>11 DEF Alloc
<1>12. CASE AllocFails(t)
  BY <1>12 DEF AllocFails
<1>13. CASE Link(t)
  BY <1>13 DEF Link
<1>14. CASE Read(t)
  BY <1>14 DEF Read
<1>15. CASE Load(t)
  BY <1>15 DEF Load
<1>16. CASE Mark(t)
  BY <1>16 DEF Mark
<1>17. CASE Unlink(t)
  BY <1>17 DEF Unlink
<1>18. CASE Return(t)
  BY <1>18 DEF Return
<1> QED
  BY <1>1, <1>2, <1>3, <1>4, <1>5, <1>6, <1>7, <1>8, <1>9, <1>10, <1>11, <1>12, <1>13,
     <1>14, <1>15, <1>16, <1>17, <1>18 DEF Work, Find

-----------------------------------------------------------------------------
(* Private and public nodes                                                *)

\* No two threads have the same private node.
LEMMA NewDiffer ==
  ASSUME TypeOK, Fresh, NEW t \in Thread, NEW u \in Thread, new[t] # NULL, new[u] = new[t]
  PROVE  u = t
  BY DEF Fresh

\* A step leaves the public nodes as they are, or publishes the node it links.
LEMMA PublicStep ==
  ASSUME TypeOK, Control, Fresh, NEW t \in Thread, Begin(t) \/ Work(t)
  PROVE  /\ Public' = Public \/ (Link(t) /\ new[t] # NULL /\ Public' = Public \cup {new[t]})
         /\ key' = key \/ \E n \in Node \ allocated : key' = [key EXCEPT ![n] = arg[t]]
<1>t. /\ new \in [Thread -> Node \cup {NULL}] /\ NULL \notin Node /\ allocated \subseteq Node
  BY HarrisAssumption DEF TypeOK
<1>c. new[t] = NULL <=> pc[t] # "link"
  BY DEF Control, ControlAt
<1>o. CASE UNCHANGED <<allocated, new, key>>
  BY <1>o DEF Public
<1> USE DEF heap, locals, Goto, Finish
<1>1. CASE Begin(t)
  BY <1>1, <1>o DEF Begin, Call
<1>2. CASE FindStart(t)
  BY <1>2, <1>o DEF FindStart
<1>3. CASE WalkOff(t)
  BY <1>3, <1>o DEF WalkOff, FindReturns, OnMiss
<1>4. CASE WalkFault(t)
  BY <1>4, <1>o DEF WalkFault
<1>5. CASE WalkMarked(t)
  BY <1>5, <1>o DEF WalkMarked
<1>6. CASE WalkStop(t)
  BY <1>6, <1>o DEF WalkStop, FindReturns, OnMiss, OnHit
<1>7. CASE WalkPast(t)
  BY <1>7, <1>o DEF WalkPast
<1>8. CASE Snip(t)
  BY <1>8, <1>o DEF Snip
<1>9. CASE Reload(t)
  BY <1>9, <1>o DEF Reload
<1>10. CASE Write(t)
  BY <1>10, <1>o DEF Write
<1>11. CASE Alloc(t)
  <2> PICK n \in Node \ allocated :
         /\ allocated' = allocated \cup {n}
         /\ key' = [key EXCEPT ![n] = arg[t]]
         /\ new' = [new EXCEPT ![t] = n]
    BY <1>11 DEF Alloc
  <2>1. new[t] = NULL
    BY <1>11, <1>c DEF Alloc
  <2>2. \A u \in Thread : new'[u] = IF u = t THEN n ELSE new[u]
    BY <1>t
  <2>3. \A m \in allocated' : (\E u \in Thread : m = new'[u]) <=> m = n \/ (\E u \in Thread : m = new[u])
    BY <2>1, <2>2, <1>t
  <2>4. Public' = Public
    BY <2>3, <1>t, <2>2 DEF Public
  <2> QED  BY <2>4
<1>12. CASE AllocFails(t)
  BY <1>12, <1>o DEF AllocFails
<1>13. CASE Link(t)
  <2>1. new[t] # NULL /\ new[t] \in allocated /\ key' = key
    BY <1>13, <1>c DEF Link, Fresh
  <2>2. \A u \in Thread : u # t => new[u] # new[t]
    BY <2>1 DEF Fresh
  <2>3. \A u \in Thread : new'[u] = IF u = t THEN NULL ELSE new[u]
    BY <1>13, <1>t DEF Link
  <2>4. \A m \in Node : (\E u \in Thread : m = new'[u]) <=> m # new[t] /\ (\E u \in Thread : m = new[u])
    BY <2>2, <2>3, <1>t
  <2>5. CASE allocated' = allocated
    BY <2>1, <2>4, <2>5, <1>t, <1>13 DEF Public
  <2>6. CASE allocated' = allocated \ {new[t]}
    BY <2>1, <2>4, <2>6, <1>t DEF Public
  <2> QED  BY <2>5, <2>6, <1>13 DEF Link
<1>14. CASE Read(t)
  BY <1>14, <1>o DEF Read
<1>15. CASE Load(t)
  BY <1>15, <1>o DEF Load
<1>16. CASE Mark(t)
  BY <1>16, <1>o DEF Mark
<1>17. CASE Unlink(t)
  BY <1>17, <1>o DEF Unlink
<1>18. CASE Return(t)
  BY <1>18, <1>o DEF Return
<1> QED
  BY <1>1, <1>2, <1>3, <1>4, <1>5, <1>6, <1>7, <1>8, <1>9, <1>10, <1>11, <1>12, <1>13,
     <1>14, <1>15, <1>16, <1>17, <1>18 DEF Work, Find

\* Public nodes stay public and keep their keys.
LEMMA KeyStable ==
  ASSUME TypeOK, Control, Fresh, NEW t \in Thread, Begin(t) \/ Work(t),
         NEW n \in Public \cup {Head}
  PROVE  n \in Public' \cup {Head} /\ key'[n] = key[n]
<1>1. n \in allocated \cup {Head} /\ Head \notin Node /\ key \in [Cell -> Nat] /\ n \in Cell
  BY HarrisAssumption DEF Public, TypeOK, Cell
<1> QED  BY <1>1, PublicStep

\* What a private node is not: a public node, the sentinel, a node a thread holds.
LEMMA PrivateApart ==
  ASSUME TypeOK, NoDangling, NEW u \in Thread, new[u] # NULL, NEW t \in Thread
  PROVE  /\ new[u] \in Node /\ new[u] \notin Public \cup {Head}
         /\ new[u] # pred[t] /\ new[u] # curr[t].ptr
  BY HarrisAssumption DEF TypeOK, NoDangling, HoldsPublic, Public

\* Every pointer a step stores or loads leads to a public node: what it loads it
\* loads from a public cell, and what it stores it had loaded or links itself.
LEMMA NoDanglingStep ==
  ASSUME TypeOK, Control, Fresh, NoDangling, NEW t \in Thread, Begin(t) \/ Work(t)
  PROVE  NoDangling'
<1>p. Public \subseteq Public'
  BY PublicStep
<1>n. Public \subseteq allocated /\ Public \subseteq Node /\ Head \notin Node /\ NULL \notin Node
  BY HarrisAssumption DEF Public, TypeOK
<1>h. /\ \A n \in Public \cup {Head} : next[n].ptr \in Public \cup {NULL}
      /\ \A u \in Thread : HoldsPublic(u)
  BY DEF NoDangling
<1>t. /\ next \in [Cell -> Ref] /\ pred \in [Thread -> Cell] /\ curr \in [Thread -> Ref]
      /\ succ \in [Thread -> Ref] /\ new \in [Thread -> Node \cup {NULL}] /\ allocated \subseteq Node
  BY DEF TypeOK
<1>c. pc[t] \in {"snip", "write", "read", "load", "mark", "unlink"} => curr[t].ptr # NULL
  BY DEF Control, ControlAt
<1> USE DEF Goto, Finish, locals, heap
<1>a. \A n \in Public' \cup {Head} : next'[n].ptr \in Public' \cup {NULL}
  <2>1. CASE next' = next /\ Public' = Public
    BY <2>1, <1>h
  <2>2. CASE Link(t) /\ new[t] # NULL /\ Public' = Public \cup {new[t]}
    <3>1. next[new[t]].ptr = NULL
      BY <2>2, NullIsRef DEF Fresh
    <3>2. next' = next \/ next' = [next EXCEPT ![pred[t]] = Plain(new[t])]
      BY <2>2 DEF Link
    <3> QED  BY <3>1, <3>2, <2>2, <1>h, <1>t, <1>n DEF Plain, Cell
  <2>3. CASE ~Link(t) /\ Public' = Public /\ next' # next
    <3>1. CASE Snip(t)
      BY <3>1, <2>3, <1>h, <1>t, <1>n DEF Snip, Plain, Cell, HoldsPublic
    <3>2. CASE Mark(t)
      BY <3>2, <2>3, <1>h, <1>t, <1>n DEF Mark, Marked, Cell, HoldsPublic
    <3>3. CASE Unlink(t)
      BY <3>3, <2>3, <1>h, <1>t, <1>n DEF Unlink, Cell, HoldsPublic
    <3>4. CASE Alloc(t)
      <4> PICK n \in Node \ allocated : next' = [next EXCEPT ![n] = NullRef]
        BY <3>4 DEF Alloc
      <4> QED  BY <2>3, <1>h, <1>t, <1>n DEF Cell
    <3> QED
      BY <3>1, <3>2, <3>3, <3>4, <2>3 DEF Work, Find, Begin, Call, FindStart, WalkOff, WalkFault, WalkMarked,
         WalkStop, WalkPast, Reload, Write, AllocFails, Read, Load, Return
  <2>4. CASE Link(t) /\ Public' = Public
    <3>1. CASE next' = next
      BY <3>1, <2>4, <1>h
    <3>2. CASE next' # next
      <4>1. allocated' = allocated /\ new' = [new EXCEPT ![t] = NULL] /\ new[t] # NULL
        BY <3>2, <2>4 DEF Link, Control, ControlAt
      <4>2. new[t] \in allocated /\ \A u \in Thread : u # t => new[u] # new[t]
        BY <4>1 DEF Fresh
      <4>3. new[t] \in Public' /\ new[t] \notin Public
        BY <4>1, <4>2, <1>t, <1>n DEF Public
      <4> QED  BY <4>3, <2>4
    <3> QED  BY <3>1, <3>2
  <2> QED  BY <2>1, <2>2, <2>3, <2>4, PublicStep
<1>b. ASSUME NEW u \in Thread PROVE HoldsPublic(u)'
  <2>0. CASE u # t
    BY <2>0, <1>p, <1>h, Local DEF HoldsPublic
  <2>1. CASE u = t /\ UNCHANGED <<pred, curr, succ>>
    BY <2>1, <1>p, <1>h DEF HoldsPublic
  <2>2. CASE u = t /\ FindStart(t)
    BY <2>2, <1>p, <1>h, <1>t DEF HoldsPublic, FindStart
  <2>3. CASE u = t /\ WalkMarked(t)
    BY <2>3, <1>p, <1>h, <1>t DEF HoldsPublic, WalkMarked
  <2>4. CASE u = t /\ WalkPast(t)
    BY <2>4, <1>p, <1>h, <1>t DEF HoldsPublic, WalkPast
  <2>5. CASE u = t /\ Reload(t)
    BY <2>5, <1>p, <1>h, <1>t DEF HoldsPublic, Reload
  <2>6. CASE u = t /\ Load(t)
    BY <2>6, <1>c, <1>p, <1>h, <1>t DEF HoldsPublic, Load
  <2>7. CASE u = t /\ Return(t)
    BY <2>7, <1>t, NullIsRef DEF HoldsPublic, Return
  <2> QED
    BY <2>0, <2>1, <2>2, <2>3, <2>4, <2>5, <2>6, <2>7 DEF Work, Find, Begin, Call, WalkOff, WalkFault,
       WalkStop, Snip, Write, Alloc, AllocFails, Link, Read, Mark, Unlink
<1> QED  BY <1>a, <1>b DEF NoDangling

\* A private node stays as node_new left it: no other thread can reach it.
LEMMA FreshStep ==
  ASSUME TypeOK, Control, Fresh, NoDangling, NEW t \in Thread, Begin(t) \/ Work(t), Control'
  PROVE  Fresh'
<1>t. /\ next \in [Cell -> Ref] /\ key \in [Cell -> Nat] /\ new \in [Thread -> Node \cup {NULL}]
      /\ pc \in [Thread -> Label] /\ allocated \subseteq Node
  BY DEF TypeOK
<1>n. NULL \notin Node /\ Head \notin Node
  BY HarrisAssumption
<1> USE DEF Goto, Finish, locals, heap
<1>1. CASE Alloc(t)
  <2> PICK n \in Node \ allocated :
         /\ allocated' = allocated \cup {n}
         /\ key'  = [key EXCEPT ![n] = arg[t]]
         /\ next' = [next EXCEPT ![n] = NullRef]
         /\ new'  = [new EXCEPT ![t] = n]
    BY <1>1 DEF Alloc
  <2>1. arg' = arg /\ n \in Cell
    BY <1>1 DEF Alloc, Cell
  <2>2. \A u \in Thread : u # t /\ new[u] # NULL => new[u] \in allocated /\ new[u] # n /\ new[u] \in Cell
    BY <1>t DEF Fresh, Cell
  <2>3. \A u \in Thread : new'[u] = IF u = t THEN n ELSE new[u]
    BY <1>t
  <2> QED  BY <2>1, <2>2, <2>3, <1>t, <1>n DEF Fresh
<1>2. CASE ~Alloc(t)
  <2>1. new'[t] = NULL
    <3>1. pc'[t] # "link"
      BY <1>2, <1>t DEF Work, Find, Begin, Call, FindStart, WalkOff, WalkFault, WalkMarked, WalkStop,
         FindReturns, OnHit, OnMiss, WalkPast, Snip, Reload, Write, AllocFails, Link, Read, Load, Mark,
         Unlink, Return, Control, ControlAt
    <3> QED  BY <3>1 DEF Control, ControlAt
  <2>2. ASSUME NEW u \in Thread, u # t, new[u] # NULL
        PROVE  /\ new[u] \in allocated'
               /\ key'[new[u]] = arg'[u]
               /\ next'[new[u]] = NullRef
    <3>1. /\ new[u] \in allocated /\ key[new[u]] = arg[u] /\ next[new[u]] = NullRef
          /\ new[u] # new[t] /\ new[u] \in Cell
      BY <2>2, <1>t DEF Fresh, Cell
    <3>2. new[u] # pred[t] /\ new[u] # curr[t].ptr
      BY <2>2, PrivateApart
    <3>3. arg'[u] = arg[u]
      BY <2>2, Local
    <3>4. key' = key
      BY <1>2 DEF Work, Find, Begin, Call, FindStart, WalkOff, WalkFault, WalkMarked, WalkStop,
         WalkPast, Snip, Reload, Write, AllocFails, Link, Read, Load, Mark, Unlink, Return
    <3>5. new[u] \in allocated'
      BY <1>2, <3>1 DEF Work, Find, Begin, Call, FindStart, WalkOff, WalkFault, WalkMarked, WalkStop,
         WalkPast, Snip, Reload, Write, AllocFails, Link, Read, Load, Mark, Unlink, Return
    <3>6. \/ next' = next
          \/ \E r : next' = [next EXCEPT ![pred[t]] = r]
          \/ \E r : next' = [next EXCEPT ![curr[t].ptr] = r]
      BY <1>2 DEF Work, Find, Begin, Call, FindStart, WalkOff, WalkFault, WalkMarked, WalkStop,
         WalkPast, Snip, Reload, Write, AllocFails, Link, Read, Load, Mark, Unlink, Return
    <3>7. next'[new[u]] = next[new[u]]
      BY <3>1, <3>2, <3>6, <1>t
    <3> QED  BY <3>1, <3>3, <3>4, <3>5, <3>7
  <2>3. \A u \in Thread : u # t => new'[u] = new[u]
    BY Local
  <2> QED  BY <2>1, <2>2, <2>3 DEF Fresh
<1> QED  BY <1>1, <1>2

-----------------------------------------------------------------------------
(* The order of the keys                                                   *)

\* Every compare-and-swap that changes a next pointer keeps the keys growing,
\* marked or not: the new target is beyond the old one, or it is the node
\* put_impl links, whose own next is null.
LEMMA SortedStep ==
  ASSUME TypeOK, Control, Fresh, NoDangling, HeadKey, Sorted, Ordered,
         NEW t \in Thread, Begin(t) \/ Work(t)
  PROVE  HeadKey' /\ Sorted'
<1>n. Public \subseteq Node /\ Head \notin Node /\ NULL \notin Node
  BY HarrisAssumption DEF Public, TypeOK
<1>t. /\ next \in [Cell -> Ref] /\ key \in [Cell -> Nat] /\ arg[t] \in Nat
      /\ pred[t] \in Cell /\ curr[t] \in Ref /\ succ[t] \in Ref
  BY HarrisAssumption DEF TypeOK
<1>h. /\ \A n \in Public \cup {Head} : next[n].ptr \in Public \cup {NULL}
      /\ HoldsPublic(t)
  BY DEF NoDangling
<1>o. Order(t)
  BY DEF Ordered
<1>c. ControlAt(t)
  BY DEF Control
<1>k. \A n \in Public \cup {Head} : key'[n] = key[n]
  BY KeyStable
<1>1. HeadKey'
  BY <1>k DEF HeadKey
<1> USE DEF Goto, Finish, locals, heap
<1>2. CASE Public' = Public /\ next' = next
  <2>1. Sorted'
    BY <1>2, <1>k, <1>h DEF Sorted
  <2> QED  BY <1>1, <2>1
<1>3. CASE Link(t)
  <2>1. CASE next' = next
    <3>1. Public' = Public
      <4>1. CASE new[t] # NULL /\ Public' = Public \cup {new[t]} /\ Public' # Public
        <5>1. allocated' = allocated \/ allocated' = allocated \ {new[t]}
          BY <1>3 DEF Link
        <5>2. next[pred[t]] # Plain(new[t])
          <6>1. next[pred[t]].ptr \in Public \cup {NULL}
            BY <1>h DEF HoldsPublic
          <6> QED  BY <6>1, <4>1 DEF Plain
        <5>3. allocated' = allocated \ {new[t]}
          BY <5>2, <2>1, <1>3, <1>t DEF Link
        <5> QED  BY <5>3, <4>1 DEF Public
      <4> QED  BY <4>1, PublicStep
    <3> QED  BY <3>1, <2>1, <1>2
  <2>2. CASE next' # next
    <3>1. next' = [next EXCEPT ![pred[t]] = Plain(new[t])] /\ new[t] # NULL /\ new[t] \in Node
      BY <2>2, <1>3, <1>c DEF Link, ControlAt, TypeOK
    <3>2. next[new[t]].ptr = NULL /\ key[new[t]] = arg[t] /\ key' = key /\ new[t] # pred[t]
      BY <3>1, <1>3, NullIsRef, PrivateApart DEF Fresh, Link
    <3>3. key[pred[t]] < arg[t]
      BY <1>o, <1>3 DEF Order, Link
    <3>4. \A n \in Public' \cup {Head} : n \in Public \cup {Head, new[t]}
      BY PublicStep
    <3>5. Sorted'
      <4> SUFFICES ASSUME NEW n \in Public \cup {Head, new[t]}, next'[n].ptr # NULL
                   PROVE  key[n] < key[next'[n].ptr]
        BY <3>2, <3>4 DEF Sorted
      <4>1. CASE n = pred[t]
        BY <4>1, <3>1, <3>2, <3>3, <1>t DEF Plain
      <4>2. CASE n # pred[t]
        <5>1. next'[n] = next[n]
          BY <4>2, <3>1, <1>t, <1>n DEF Cell
        <5> QED  BY <5>1, <3>2 DEF Sorted
      <4> QED  BY <4>1, <4>2
    <3> QED  BY <3>5, <1>1
  <2> QED  BY <2>1, <2>2
<1>4. CASE Alloc(t)
  <2> PICK n \in Node \ allocated : next' = [next EXCEPT ![n] = NullRef]
    BY <1>4 DEF Alloc
  <2>1. Public' = Public
    BY <1>4, PublicStep DEF Alloc, Link
  <2>2. \A m \in Public \cup {Head} : next'[m] = next[m]
    BY <1>n, <1>t DEF Public, Cell
  <2>3. Sorted'
    BY <2>1, <2>2, <1>k, <1>h DEF Sorted
  <2> QED  BY <2>3, <1>1
<1>5. CASE (Snip(t) \/ Mark(t) \/ Unlink(t)) /\ next' # next
  <2>1. key' = key /\ Public' = Public
    BY <1>5 DEF Snip, Mark, Unlink, Public
  <2>2. PICK m \in {pred[t], curr[t].ptr}, r \in Ref :
           /\ next' = [next EXCEPT ![m] = r]
           /\ m \in Public \cup {Head}
           /\ r.ptr = succ[t].ptr
           /\ succ[t].ptr # NULL => key[m] < key[succ[t].ptr]
    <3>1. key[pred[t]] < key[curr[t].ptr] /\ curr[t].ptr \in Public
          /\ (succ[t].ptr # NULL => key[curr[t].ptr] < key[succ[t].ptr])
      BY <1>5, <1>o, <1>c, <1>h DEF Order, ControlAt, Snip, Mark, Unlink, HoldsPublic
    <3>2. succ[t].ptr # NULL => key[pred[t]] < key[succ[t].ptr]
      <4>1. key[pred[t]] \in Nat /\ key[curr[t].ptr] \in Nat /\ (succ[t].ptr # NULL => key[succ[t].ptr] \in Nat)
        BY <3>1, <1>t, <1>n, <1>h DEF Cell, HoldsPublic
      <4> QED  BY <3>1, <4>1
    <3>3. pred[t] \in Public \cup {Head}
      BY <1>h DEF HoldsPublic
    <3>4. CASE Snip(t) \/ Unlink(t)
      <4>1. next' = [next EXCEPT ![pred[t]] = Plain(succ[t].ptr)] \/ next' = [next EXCEPT ![pred[t]] = succ[t]]
        BY <3>4, <1>5 DEF Snip, Unlink
      <4>2. Plain(succ[t].ptr) \in Ref /\ Plain(succ[t].ptr).ptr = succ[t].ptr
        BY <1>t DEF Plain, Ref
      <4> QED  BY <4>1, <4>2, <3>2, <3>3, <1>t
    <3>5. CASE Mark(t)
      <4>1. next' = [next EXCEPT ![curr[t].ptr] = Marked(succ[t])]
        BY <3>5, <1>5 DEF Mark
      <4>2. Marked(succ[t]) \in Ref /\ Marked(succ[t]).ptr = succ[t].ptr
        BY <1>t DEF Marked, Ref
      <4> QED  BY <4>1, <4>2, <3>1, <1>t
    <3> QED  BY <3>4, <3>5, <1>5
  <2>3. Sorted'
    <3> SUFFICES ASSUME NEW n \in Public \cup {Head}, next'[n].ptr # NULL
                 PROVE  key[n] < key[next'[n].ptr]
      BY <2>1 DEF Sorted
    <3>1. CASE n = m
      BY <3>1, <2>2, <1>t, <1>n DEF Cell
    <3>2. CASE n # m
      BY <3>2, <2>2, <1>t, <1>n DEF Cell, Sorted
    <3> QED  BY <3>1, <3>2
  <2> QED  BY <2>3, <1>1
<1>6. CASE (Snip(t) \/ Mark(t) \/ Unlink(t)) /\ next' = next
  <2>1. Public' = Public
    BY <1>6 DEF Snip, Mark, Unlink, Public
  <2> QED  BY <2>1, <1>6, <1>2
<1>7. CASE ~(Link(t) \/ Alloc(t) \/ Snip(t) \/ Mark(t) \/ Unlink(t))
  <2>1. UNCHANGED <<next, allocated, new>>
    BY <1>7 DEF Work, Find, Begin, Call, FindStart, WalkOff, WalkFault, WalkMarked, WalkStop,
         WalkPast, Reload, Write, AllocFails, Read, Load, Return
  <2> QED  BY <2>1, <1>2 DEF Public
<1> QED  BY <1>3, <1>4, <1>5, <1>6, <1>7

\* Whatever pred, curr and succ are after a step, their keys grow.
LEMMA OrderedStep ==
  ASSUME TypeOK, Control, Fresh, NoDangling, HeadKey, Sorted, Ordered,
         NEW t \in Thread, Begin(t) \/ Work(t)
  PROVE  Ordered'
<1>t. /\ next \in [Cell -> Ref] /\ key \in [Cell -> Nat] /\ arg \in [Thread -> Key]
      /\ kind \in [Thread -> {"none", "put", "get", "del", "help"}]
      /\ pc \in [Thread -> Label] /\ pred \in [Thread -> Cell] /\ curr \in [Thread -> Ref]
      /\ succ \in [Thread -> Ref] /\ Key \subseteq Nat \ {0}
  BY HarrisAssumption DEF TypeOK
<1>n. Public \subseteq Node /\ Head \notin Node /\ NULL \notin Node
  BY HarrisAssumption DEF Public, TypeOK
<1>h. /\ \A n \in Public \cup {Head} : next[n].ptr \in Public \cup {NULL}
      /\ \A u \in Thread : HoldsPublic(u)
  BY DEF NoDangling
<1>c. \A u \in Thread : pc[u] \in {"snip", "write", "read", "load", "mark", "unlink"} => curr[u].ptr # NULL
  BY DEF Control, ControlAt
<1>i. ControlAt(t)
  BY DEF Control
<1>k. \A n \in Public \cup {Head} : key'[n] = key[n]
  BY KeyStable
<1>o. \A u \in Thread : Order(u)
  BY DEF Ordered
<1>s. \A n \in Public \cup {Head} : next[n].ptr # NULL => key[n] < key[next[n].ptr]
  BY DEF Sorted
<1> SUFFICES ASSUME NEW u \in Thread PROVE Order(u)'
  BY DEF Ordered
<1>d. key'[pred[u]] = key[pred[u]]
      /\ (curr[u].ptr # NULL => key'[curr[u].ptr] = key[curr[u].ptr])
      /\ (succ[u].ptr # NULL => key'[succ[u].ptr] = key[succ[u].ptr])
  BY <1>k, <1>h DEF HoldsPublic
<1>1. CASE u # t
  <2>1. /\ pc'[u] = pc[u] /\ arg'[u] = arg[u] /\ pred'[u] = pred[u] /\ curr'[u] = curr[u]
        /\ succ'[u] = succ[u]
    BY <1>1, Local
  <2> QED  BY <2>1, <1>c, <1>d, <1>o DEF Order
<1>2. CASE u = t
  <2>o. Order(t) /\ key'[pred[t]] = key[pred[t]]
        /\ (curr[t].ptr # NULL => key'[curr[t].ptr] = key[curr[t].ptr])
        /\ (succ[t].ptr # NULL => key'[succ[t].ptr] = key[succ[t].ptr])
    BY <1>2, <1>d, <1>o
  <2> SUFFICES Order(t)'
    BY <1>2
  <2> USE DEF Goto, Finish, locals, heap, Order
  <2>1. CASE pc'[t] \in {"idle", "find", "done", "fault"}
    BY <2>1
  <2>2. CASE FindStart(t)
    <3>1. pred'[t] = Head /\ curr'[t] = next[Head] /\ pc'[t] = "walk" /\ arg'[t] = arg[t] /\ key' = key
      BY <2>2, <1>t DEF FindStart
    <3>2. arg[t] \in Nat \ {0}
      BY <1>t
    <3>3. key[Head] = 0
      BY DEF HeadKey
    <3> HIDE DEF Order
    <3>4. key'[pred'[t]] = 0 /\ 0 < arg'[t]
      BY <3>1, <3>2, <3>3
    <3> QED  BY <3>1, <3>3, <3>4, <1>s DEF Order
  <2>3. CASE WalkMarked(t)
    <3>1. /\ pred'[t] = pred[t] /\ curr'[t] = curr[t] /\ succ'[t] = next[curr[t].ptr] /\ pc'[t] = "snip"
          /\ arg'[t] = arg[t] /\ key' = key /\ curr[t].ptr \in Public
      BY <2>3, <1>t, <1>h DEF WalkMarked, HoldsPublic
    <3> QED  BY <3>1, <2>3, <2>o, <1>s DEF WalkMarked
  <2>4. CASE WalkOff(t) \/ WalkStop(t)
    <3>1. /\ pc[t] = "walk" /\ UNCHANGED <<key, arg, pred, curr, succ>>
          /\ pc'[t] \in {"write", "read", "load"} => key[curr[t].ptr] = arg[t]
          /\ pc'[t] \notin {"snip", "mark", "unlink"}
      BY <2>4, <1>t, <1>i DEF WalkOff, WalkStop, FindReturns, OnHit, OnMiss, ControlAt, InFind
    <3> QED  BY <3>1, <2>o
  <2>5. CASE WalkPast(t)
    <3>1. /\ pred'[t] = curr[t].ptr /\ curr'[t] = next[curr[t].ptr] /\ pc'[t] = "walk"
          /\ arg'[t] = arg[t] /\ key' = key /\ curr[t].ptr \in Public /\ key[curr[t].ptr] < arg[t]
      BY <2>5, <1>t, <1>h DEF WalkPast, HoldsPublic
    <3> QED  BY <3>1, <1>s
  <2>6. CASE Snip(t)
    <3>1. pc[t] = "snip" /\ UNCHANGED <<key, arg, pred, curr, succ>> /\ pc'[t] \in {"reload", "find"}
      BY <2>6, <1>t DEF Snip
    <3> QED  BY <3>1, <2>o
  <2>7. CASE Reload(t)
    <3>1. /\ pred'[t] = pred[t] /\ curr'[t] = next[pred[t]] /\ pc'[t] = "walk" /\ pc[t] = "reload"
          /\ arg'[t] = arg[t] /\ key' = key /\ pred[t] \in Public \cup {Head}
      BY <2>7, <1>t, <1>h DEF Reload, HoldsPublic
    <3> QED  BY <3>1, <2>o, <1>s
  <2>8. CASE Write(t) \/ Read(t)
    <3>1. /\ pc[t] \in {"write", "read"} /\ UNCHANGED <<key, arg, pred, curr, succ>>
          /\ pc'[t] \in {pc[t], "done"}
      BY <2>8, <1>t DEF Write, Read
    <3> QED  BY <3>1, <2>o
  <2>9. CASE Alloc(t)
    <3>1. pc[t] = "alloc" /\ pc'[t] = "link" /\ UNCHANGED <<arg, pred, curr, succ>>
      BY <2>9, <1>t DEF Alloc
    <3> QED  BY <3>1, <2>o
  <2>10. CASE Load(t)
    <3>1. /\ pc[t] = "load" /\ UNCHANGED <<key, arg, pred, curr>> /\ succ'[t] = next[curr[t].ptr]
          /\ pc'[t] \in {"mark", "done"} /\ curr[t].ptr \in Public
      BY <2>10, <1>t, <1>c, <1>h DEF Load, HoldsPublic
    <3> QED  BY <3>1, <2>o, <1>s
  <2>11. CASE Mark(t)
    <3>1. pc[t] = "mark" /\ pc'[t] \in {"unlink", "find"} /\ UNCHANGED <<key, arg, pred, curr, succ>>
      BY <2>11, <1>t DEF Mark
    <3> QED  BY <3>1, <2>o
  <2>12. CASE Begin(t) \/ WalkFault(t) \/ AllocFails(t) \/ Link(t) \/ Unlink(t) \/ Return(t)
    BY <2>12, <2>1, <1>t DEF Begin, Call, WalkFault, AllocFails, Link, Unlink, Return
  <2> QED
    BY <2>2, <2>3, <2>4, <2>5, <2>6, <2>7, <2>8, <2>9, <2>10, <2>11, <2>12 DEF Work, Find
<1> QED  BY <1>1, <1>2

-----------------------------------------------------------------------------
(* The words of the values                                                 *)

\* A word stored under a key was put under that key: memcpy in put_impl goes to a
\* node whose key was compared with the argument, and keys of nodes never change.
LEMMA StoredStep ==
  ASSUME TypeOK, Control, NoDangling, Ordered, Stored, Held,
         NEW t \in Thread, Begin(t) \/ Work(t)
  PROVE  Stored'
<1>t. /\ key \in [Cell -> Nat] /\ val \in [Node -> [Word -> Data \cup {Junk}]]
      /\ allocated \subseteq Node /\ todo[t] \subseteq Word /\ curr[t] \in Ref
  BY DEF TypeOK
<1>c. ControlAt(t) /\ Order(t) /\ Holding(t)
  BY DEF Control, Ordered, Held
<1> USE DEF Goto, Finish, locals, heap
<1>1. CASE Write(t)
  <2> PICK w \in todo[t] : val' = [val EXCEPT ![curr[t].ptr][w] = buf[t][w]]
    BY <1>1 DEF Write
  <2>1. /\ key' = key /\ allocated' = allocated /\ key[curr[t].ptr] = arg[t]
        /\ buf[t] \in ValueOf[arg[t]] /\ w \in Word
    BY <1>1, <1>t, <1>c DEF Write, ControlAt, Order, Holding
  <2>2. buf[t][w] \in WordOf(arg[t], w)
    BY <2>1 DEF WordOf
  <2>3. \A n \in Node, x \in Word :
           val'[n][x] = IF n = curr[t].ptr /\ x = w THEN buf[t][w] ELSE val[n][x]
    BY <1>t
  <2> QED  BY <2>1, <2>2, <2>3, <1>t DEF Stored
<1>2. CASE Alloc(t)
  <2> PICK n \in Node \ allocated :
         /\ allocated' = allocated \cup {n}
         /\ key'  = [key EXCEPT ![n] = arg[t]]
         /\ val'  = [val EXCEPT ![n] = buf[t]]
    BY <1>2 DEF Alloc
  <2>1. key'[n] = arg[t] /\ val'[n] = buf[t] /\ buf[t] \in ValueOf[arg[t]]
    BY <1>2, <1>t, <1>c DEF Alloc, ControlAt, Holding, Cell
  <2>2. \A m \in allocated : key'[m] = key[m] /\ val'[m] = val[m]
    BY <1>t DEF Cell
  <2>3. \A w \in Word : buf[t][w] \in WordOf(arg[t], w)
    BY <2>1 DEF WordOf
  <2> QED  BY <2>1, <2>2, <2>3 DEF Stored
<1>3. CASE ~Write(t) /\ ~Alloc(t)
  <2>1. key' = key /\ val' = val /\ allocated' \subseteq allocated
    BY <1>3 DEF Work, Find, Begin, Call, FindStart, WalkOff, WalkFault, WalkMarked, WalkStop,
       WalkPast, Snip, Reload, AllocFails, Link, Read, Load, Mark, Unlink, Return
  <2> QED  BY <2>1 DEF Stored
<1> QED  BY <1>1, <1>2, <1>3

\* A word read for a key was put under that key.
LEMMA HeldStep ==
  ASSUME TypeOK, Control, NoDangling, Ordered, Stored, Held,
         NEW t \in Thread, Begin(t) \/ Work(t)
  PROVE  Held'
<1>t. /\ pc \in [Thread -> Label] /\ kind \in [Thread -> {"none", "put", "get", "del", "help"}]
      /\ arg \in [Thread -> Key] /\ buf \in [Thread -> [Word -> Data \cup {Junk}]]
      /\ todo \in [Thread -> SUBSET Word] /\ ret \in [Thread -> {0, 1}]
  BY DEF TypeOK
<1>c. ControlAt(t) /\ Holding(t) /\ Order(t)
  BY DEF Control, Held, Ordered
<1> SUFFICES ASSUME NEW u \in Thread PROVE Holding(u)'
  BY DEF Held
<1>1. CASE u # t
  <2>1. /\ pc'[u] = pc[u] /\ kind'[u] = kind[u] /\ arg'[u] = arg[u] /\ buf'[u] = buf[u]
        /\ todo'[u] = todo[u] /\ ret'[u] = ret[u]
    BY <1>1, Local
  <2> QED  BY <2>1 DEF Held, Holding
<1>2. CASE u = t
  <2> SUFFICES Holding(t)'
    BY <1>2
  <2> USE DEF Goto, Finish, locals, heap, Holding
  <2>1. CASE Begin(t)
    BY <2>1, <1>t DEF Begin, Call
  <2>2. CASE WalkOff(t) \/ WalkStop(t)
    <3>1. /\ pc[t] = "walk" /\ UNCHANGED <<arg, buf, ret>> /\ ret[t] = 0
          /\ (kind'[t] = "put" => kind[t] = "put") /\ (pc'[t] = "read" => todo'[t] = Word)
      BY <2>2, <1>t, <1>c DEF WalkOff, WalkStop, FindReturns, OnHit, OnMiss, ControlAt, InFind
    <3> QED  BY <3>1, <1>c
  <2>3. CASE Write(t)
    <3>1. pc[t] = "write" /\ kind[t] = "put" /\ UNCHANGED <<kind, arg, buf>> /\ pc'[t] \in {"write", "done"}
      BY <2>3, <1>t, <1>c DEF Write, ControlAt
    <3> QED  BY <3>1, <1>c
  <2>4. CASE Read(t)
    <3> PICK w \in todo[t] :
           /\ buf'  = [buf EXCEPT ![t][w] = val[curr[t].ptr][w]]
           /\ todo' = [todo EXCEPT ![t] = @ \ {w}]
           /\ IF todo[t] = {w} THEN Finish(t, 1) ELSE UNCHANGED <<pc, ret>>
      BY <2>4 DEF Read
    <3>1. /\ kind[t] = "get" /\ pc[t] = "read" /\ UNCHANGED <<kind, arg>> /\ w \in Word
          /\ curr[t].ptr \in Public /\ key[curr[t].ptr] = arg[t]
      BY <2>4, <1>t, <1>c DEF Read, ControlAt, Order, NoDangling, HoldsPublic
    <3>2. val[curr[t].ptr][w] \in WordOf(arg[t], w)
      BY <3>1 DEF Stored, Public
    <3>3. \A x \in Word : buf'[t][x] = IF x = w THEN val[curr[t].ptr][w] ELSE buf[t][x]
      BY <3>1, <1>t
    <3>4. todo'[t] = todo[t] \ {w}
      BY <1>t
    <3>5. \A x \in Word \ todo'[t] : buf'[t][x] \in WordOf(arg[t], x)
      BY <3>1, <3>2, <3>3, <3>4, <1>c
    <3>6. pc'[t] = "read" \/ todo'[t] = {}
      BY <3>1, <3>4, <1>t
    <3>7. \A x \in Word : todo'[t] = {} => x \in Word \ todo'[t]
      OBVIOUS
    <3>8. kind'[t] = "get" /\ arg'[t] = arg[t]
      BY <3>1
    <3>9. pc'[t] = "done" => todo'[t] = {}
      BY <3>6
    <3> HIDE DEF Finish
    <3> QED  BY <3>5, <3>7, <3>8, <3>9
  <2>5. CASE ~(Begin(t) \/ WalkOff(t) \/ WalkStop(t) \/ Write(t) \/ Read(t))
    <3>1. /\ (UNCHANGED <<arg, buf>> /\ (kind'[t] = "put" => kind[t] = "put")) \/ Return(t)
          /\ pc'[t] # "read"
          /\ kind'[t] = "get" /\ pc'[t] = "done" => ret'[t] = 0
      BY <2>5, <1>t, <1>c DEF Work, Find, FindStart, WalkFault, WalkMarked, WalkPast, Snip, Reload,
         Alloc, AllocFails, Link, Load, Mark, Unlink, Return, ControlAt
    <3> QED  BY <3>1, <2>5, <1>t, <1>c DEF Return
  <2> QED  BY <2>1, <2>2, <2>3, <2>4, <2>5
<1> QED  BY <1>1, <1>2

-----------------------------------------------------------------------------
(* The invariant and the theorems                                          *)

\* The invariant holds of the bucket create_impl leaves.
LEMMA InvInit == Init => IInv
<1> SUFFICES ASSUME Init PROVE IInv
  OBVIOUS
<1> USE HarrisAssumption, AnyKeyIsKey DEF Init
<1>1. TypeOK
  BY DEF TypeOK, Cell, Ref, NullRef, Plain, Label, EmptyBuf
<1>2. Control
  BY DEF Control, ControlAt
<1>3. Public = {}
  BY DEF Public
<1>4. Fresh /\ NoDangling /\ HeadKey /\ Sorted
  BY <1>3, NullIsRef DEF Fresh, NoDangling, HoldsPublic, HeadKey, Sorted, Cell
<1>5. Ordered /\ Stored /\ Held
  BY DEF Ordered, Order, Stored, Held, Holding
<1> QED  BY <1>1, <1>2, <1>4, <1>5 DEF IInv

\* Every step keeps the invariant.
LEMMA InvNext == IInv /\ [Next]_vars => IInv'
<1> SUFFICES ASSUME IInv, [Next]_vars PROVE IInv'
  OBVIOUS
<1>1. CASE UNCHANGED vars
  BY <1>1 DEF vars, IInv, TypeOK, Control, ControlAt, Fresh, NoDangling, HoldsPublic, Public, HeadKey,
     Sorted, Ordered, Order, Stored, Held, Holding
<1>2. ASSUME NEW t \in Thread, Begin(t) \/ Work(t) PROVE IInv'
  <2>1. Control'
    BY <1>2, ControlStep DEF IInv
  <2>2. TypeOK'
    BY <1>2, TypeStep DEF IInv
  <2>3. NoDangling'
    BY <1>2, NoDanglingStep DEF IInv
  <2>4. Fresh'
    BY <1>2, <2>1, FreshStep DEF IInv
  <2>5. HeadKey' /\ Sorted'
    BY <1>2, SortedStep DEF IInv
  <2>6. Ordered'
    BY <1>2, OrderedStep DEF IInv
  <2>7. Stored' /\ Held'
    BY <1>2, StoredStep, HeldStep DEF IInv
  <2> QED  BY <2>1, <2>2, <2>3, <2>4, <2>5, <2>6, <2>7 DEF IInv
<1> QED  BY <1>1, <1>2 DEF Next

\* The invariant holds in every state of every run.
LEMMA Invariance == Spec => []IInv
  BY InvInit, InvNext, PTL DEF Spec

\* Every variable keeps its type: pointers are null or cells, counters are 0 or 1.
THEOREM TypeCorrect == Spec => []TypeOK
<1>1. IInv => TypeOK
  BY DEF IInv
<1> QED  BY <1>1, Invariance, PTL

\* A walk never meets a private or a freed node, in any of the four operations
\* of kv_lf_hash.c and kv_lf_skiplist.c that dereference one.
THEOREM NothingDangles == Spec => []NoDangling
<1>1. IInv => NoDangling
  BY DEF IInv
<1> QED  BY <1>1, Invariance, PTL

\* The list stays strictly sorted, so a walk that is left alone ends.
THEOREM ListIsSorted == Spec => []Sorted
<1>1. IInv => Sorted
  BY DEF IInv
<1> QED  BY <1>1, Invariance, PTL

\* A get that returns 1 has read nothing but words put under its key.
THEOREM GetReadsItsKey == Spec => []ReadsOwnKey
<1>1. IInv => ReadsOwnKey
  BY DEF IInv, Held, Holding, ReadsOwnKey
<1> QED  BY <1>1, Invariance, PTL

\* A linked node is never freed and keeps its key, so no compare-and-swap of
\* harris_find, put_impl or del_impl can be fooled by a recycled address.
THEOREM LinkedForGood == Spec => NeverRecycled
<1>1. IInv /\ [Next]_vars => [\A n \in Public : n \in Public' /\ key'[n] = key[n]]_vars
  <2> SUFFICES ASSUME IInv, NEW t \in Thread, Begin(t) \/ Work(t), NEW n \in Public
               PROVE  n \in Public' /\ key'[n] = key[n]
    BY DEF Next
  <2>1. n \in Public' \cup {Head} /\ key'[n] = key[n]
    BY KeyStable DEF IInv
  <2>2. n # Head
    BY HarrisAssumption DEF IInv, TypeOK, Public
  <2> QED  BY <2>1, <2>2
<1> QED  BY <1>1, Invariance, PTL DEF Spec, NeverRecycled

-----------------------------------------------------------------------------
(* One caller                                                              *)

\* The assumption of what follows: nobody else calls.
OneCaller == \A t, u \in Thread : t = u

\* LNode.next without the marks.
Links == [n \in Cell |-> next[n].ptr]

\* The list from the sentinel on is a list of public nodes, in which no key is
\* twice and none is skipped.
WellLinked ==
  /\ IsList(Cell, Links, NULL, Head) /\ Grows(Links, NULL, key, Reachable)
  /\ Head \in Reachable /\ Reachable \subseteq Public \cup {Head}
  /\ \A n \in Reachable :
       /\ n \in Cell /\ Links[n] = next[n].ptr /\ key[n] \in Nat
       /\ next[n].ptr # NULL => next[n].ptr \in Reachable /\ key[n] < key[next[n].ptr]
  /\ \A m, n \in Reachable :
       /\ key[m] = key[n] => m = n
       /\ key[m] < key[n] => next[m].ptr # NULL /\ key[next[m].ptr] <= key[n]

LEMMA ListIsWellLinked == IInv => WellLinked
<1> SUFFICES ASSUME IInv PROVE WellLinked
  OBVIOUS
<1> DEFINE S == Public \cup {Head}
<1>1. /\ next \in [Cell -> Ref] /\ key \in [Cell -> Nat] /\ S \subseteq Cell /\ Head \in S
      /\ NULL \notin Cell
  BY HarrisAssumption DEF IInv, TypeOK, Cell, Public
<1>2. \A n \in Cell : Links[n] = next[n].ptr /\ Links[n] \in Node \cup {NULL}
  BY <1>1 DEF Links, Ref
<1>3. IsList(Cell, Links, NULL, Head)
  BY <1>1, <1>2 DEF IsList, Cell
<1>4. Reachable = Reach(Cell, Links, NULL, Head)
  BY DEF Reachable, Links
<1>5. \A n \in S : Links[n] # NULL => Links[n] \in S /\ key[n] < key[Links[n]]
  BY <1>1, <1>2 DEF IInv, NoDangling, Sorted
<1> HIDE DEF S
<1>6. Closed(Links, NULL, S)
  BY <1>5 DEF Closed
<1>7. Reachable \subseteq S
  BY <1>1, <1>4, <1>6, ReachIsLeast
<1>8. Head \in Reachable /\ Closed(Links, NULL, Reachable)
  BY <1>1, <1>3, <1>4, ReachIsClosed
<1>9. \A n \in Reachable :
        /\ n \in Cell /\ Links[n] = next[n].ptr /\ key[n] \in Nat
        /\ next[n].ptr # NULL => next[n].ptr \in Reachable /\ key[n] < key[next[n].ptr]
  BY <1>1, <1>2, <1>5, <1>7, <1>8 DEF Closed
<1>10. Grows(Links, NULL, key, Reachable)
  BY <1>9 DEF Grows
<1>11. \A m, n \in Reachable :
         /\ key[m] = key[n] => m = n
         /\ key[m] < key[n] => Links[m] # NULL /\ key[Links[m]] <= key[n]
  BY <1>3, <1>4, <1>10, ReachInOrder
<1> QED  BY <1>3, <1>7, <1>8, <1>9, <1>10, <1>11 DEF WellLinked, S

LEMMA StaysWellLinked == IInv' => WellLinked'
  BY ListIsWellLinked, PTL

\* No step of a caller that is alone fails: there is no second walk and nothing to
\* unlink for others.
Steady(t) == pc[t] \notin {"snip", "reload", "fault"} /\ kind[t] # "help"

\* pred and curr are neighbours in the list, and what they were when they were loaded.
InPlace(t) ==
  /\ pc[t] \in {"walk", "write", "alloc", "link", "read", "load", "mark", "unlink"} =>
       pred[t] \in Reachable /\ next[pred[t]] = curr[t] /\ ~curr[t].mark
  /\ pc[t] \in {"alloc", "link"} => (curr[t].ptr # NULL => arg[t] < key[curr[t].ptr])
  /\ pc[t] = "mark" => next[curr[t].ptr] = succ[t]
  /\ pc[t] = "unlink" => next[curr[t].ptr] = Marked(succ[t]) /\ ~succ[t].mark

\* The only marked node is the one that del_impl is about to unlink.
OneMark(t) == \A n \in Reachable : next[n].mark => pc[t] = "unlink" /\ n = curr[t].ptr

\* What memcpy and node_new have copied so far.
CopiedSoFar(t) ==
  /\ pc[t] \in {"write", "read"} =>
       todo[t] # {} /\ \A w \in Word \ todo[t] : buf[t][w] = val[curr[t].ptr][w]
  /\ pc[t] = "link" => val[new[t]] = buf[t]

\* Every node of the list has a value that was put under its key, but for the node
\* whose value is being overwritten.
Copying(t, n) == pc[t] = "write" /\ curr[t].ptr = n /\ todo[t] # Word
WholeValues(t) ==
  \A n \in Reachable \ {Head} : Copying(t, n) \/ val[n] \in ValueOf[key[n]]

AloneAt(t) == Steady(t) /\ InPlace(t) /\ OneMark(t) /\ CopiedSoFar(t) /\ WholeValues(t)
Alone == \A t \in Thread : AloneAt(t)

\* curr is a node of the list.
LEMMA CurrInList ==
  ASSUME IInv, NEW t \in Thread, InPlace(t), curr[t].ptr # NULL,
         pc[t] \in {"walk", "write", "alloc", "link", "read", "load", "mark", "unlink"}
  PROVE  /\ curr[t].ptr \in Reachable \ {Head} /\ pred[t] \in Reachable
         /\ key[pred[t]] < key[curr[t].ptr] /\ pred[t] # curr[t].ptr
         /\ curr[t] = Plain(curr[t].ptr) /\ curr[t].ptr \in Node
<1>1. /\ pred[t] \in Reachable /\ next[pred[t]].ptr = curr[t].ptr /\ ~curr[t].mark
      /\ curr[t] \in Ref /\ Head \notin Node
  BY HarrisAssumption DEF InPlace, IInv, TypeOK
<1>2. /\ curr[t].ptr \in Reachable /\ key[pred[t]] < key[curr[t].ptr]
      /\ key[pred[t]] \in Nat
  BY <1>1, ListIsWellLinked DEF WellLinked
<1>3. curr[t] = Plain(curr[t].ptr) /\ curr[t].ptr \in Node
  BY <1>1 DEF Plain, Ref
<1> QED  BY <1>1, <1>2, <1>3

\* Where a step does not touch the pointers, the list is what it was.
LEMMA SameList ==
  ASSUME IInv, IInv', \A n \in Reachable : next'[n].ptr = next[n].ptr
  PROVE  Reachable' = Reachable
<1>1. WellLinked /\ WellLinked'
  BY ListIsWellLinked, StaysWellLinked
<1>2. Reachable = Reach(Cell, Links, NULL, Head) /\ Reachable' = Reach(Cell, Links', NULL, Head)
  BY DEF Reachable, Links, Cell
<1>3. \A n \in Reachable : Links'[n] = Links[n]
  BY <1>1 DEF WellLinked, Links, Cell
<1>4. IsList(Cell, Links, NULL, Head) /\ IsList(Cell, Links', NULL, Head)
  BY <1>1 DEF WellLinked, Cell
<1> QED  BY <1>2, <1>3, <1>4, ReachSame

\* A step that stores nothing in the heap leaves the list whole.
LEMMA HeapKept ==
  ASSUME IInv, IInv', NEW t \in Thread, OneMark(t), WholeValues(t), UNCHANGED heap,
         pc[t] # "unlink", pc[t] # "write"
  PROVE  Reachable' = Reachable /\ OneMark(t)' /\ WholeValues(t)'
<1>1. Reachable' = Reachable
  BY SameList DEF heap
<1>2. OneMark(t)'
  BY <1>1 DEF OneMark, heap
<1>3. WholeValues(t)'
  BY <1>1 DEF WholeValues, Copying, heap
<1> QED  BY <1>1, <1>2, <1>3

\* What the new node of put_impl does to the list: it cuts it.
LEMMA LinkCuts ==
  ASSUME IInv, IInv', NEW t \in Thread, InPlace(t), Link(t)
  PROVE  /\ new[t] \in Node /\ new[t] \notin Reachable /\ pred[t] \in Reachable
         /\ key[new[t]] = arg[t] /\ arg[t] \in Nat /\ key[pred[t]] < arg[t]
         /\ pc'[t] = "done" /\ ret'[t] = 1 /\ UNCHANGED <<key, val, kind, arg, buf>>
         /\ next'[new[t]] = NullRef /\ next'[pred[t]] = Plain(new[t])
         /\ \A n \in Reachable \ {pred[t]} : next'[n] = next[n]
         /\ Reachable' = {n \in Reachable : key[n] <= key[pred[t]]} \cup {new[t]}
<1> DEFINE n == new[t]
           q == pred[t]
<1>0. WellLinked /\ WellLinked'
  BY ListIsWellLinked, StaysWellLinked
<1>t. /\ next \in [Cell -> Ref] /\ pc \in [Thread -> Label] /\ ret \in [Thread -> {0, 1}]
      /\ new \in [Thread -> Node \cup {NULL}] /\ curr \in [Thread -> Ref] /\ arg[t] \in Nat
  BY HarrisAssumption DEF IInv, TypeOK
<1>1. pc[t] = "link" /\ n # NULL /\ key[q] < arg[t]
  BY DEF Link, IInv, Control, ControlAt, Ordered, Order
<1>2. /\ n \in Node /\ n \in allocated /\ key[n] = arg[t] /\ next[n] = NullRef
      /\ n \notin Public \cup {Head}
  BY <1>1, <1>t, PrivateApart DEF IInv, Fresh
<1>3. q \in Reachable /\ n \notin Reachable /\ q # n
  BY <1>0, <1>1, <1>2 DEF InPlace, WellLinked
<1>4. next[q] = Plain(curr[t].ptr)
  BY <1>1, <1>t DEF InPlace, Ref, Plain
<1>5. /\ next' = [next EXCEPT ![q] = Plain(n)] /\ pc'[t] = "done" /\ ret'[t] = 1
      /\ UNCHANGED <<key, val, kind, arg, buf>>
  BY <1>4, <1>t DEF Link, Finish, Goto
<1>6. q \in Cell /\ n \in Cell /\ Reachable \subseteq Cell
  BY <1>0, <1>2, <1>3 DEF WellLinked, Cell
<1> HIDE DEF n, q
<1>7. /\ next'[n] = NullRef /\ next'[q] = Plain(n)
      /\ \A m \in Reachable \ {q} : next'[m] = next[m]
  BY <1>2, <1>3, <1>5, <1>6, <1>t
<1>8. Reachable = Reach(Cell, Links, NULL, Head) /\ Reachable' = Reach(Cell, Links', NULL, Head)
  BY DEF Reachable, Links, Cell
<1>9. /\ IsList(Cell, Links, NULL, Head) /\ IsList(Cell, Links', NULL, Head)
      /\ Grows(Links, NULL, key, Reach(Cell, Links, NULL, Head))
  BY <1>0, <1>8 DEF WellLinked, Cell
<1>10. /\ Links'[q] = n /\ Links'[n] = NULL
       /\ \A m \in Reachable : m # q => Links'[m] = Links[m]
  BY <1>6, <1>7 DEF Links, Cell, Plain, NullRef
<1>11. Reachable' = {m \in Reachable : key[m] <= key[q]} \cup {n}
  BY <1>3, <1>6, <1>8, <1>9, <1>10, ReachCut
<1> QED  BY <1>1, <1>2, <1>3, <1>5, <1>7, <1>11, <1>t DEF n, q

\* What the second compare-and-swap of del_impl does to it: the node is out.
LEMMA UnlinkRemoves ==
  ASSUME IInv, IInv', NEW t \in Thread, InPlace(t), Unlink(t)
  PROVE  /\ pc[t] = "unlink" /\ pc'[t] = "done" /\ ret'[t] = 1
         /\ UNCHANGED <<key, val, kind, arg, buf>>
         /\ next'[pred[t]] = succ[t] /\ ~succ[t].mark
         /\ \A n \in Reachable \ {pred[t]} : next'[n] = next[n]
         /\ Reachable' = Reachable \ {curr[t].ptr}
<1> DEFINE c == curr[t].ptr
           q == pred[t]
<1>0. WellLinked /\ WellLinked'
  BY ListIsWellLinked, StaysWellLinked
<1>t. /\ next \in [Cell -> Ref] /\ pc \in [Thread -> Label] /\ ret \in [Thread -> {0, 1}]
  BY DEF IInv, TypeOK
<1>1. pc[t] = "unlink" /\ c # NULL
  BY DEF Unlink, IInv, Control, ControlAt
<1>2. /\ c \in Reachable \ {Head} /\ q \in Reachable /\ key[q] < key[c] /\ q # c
      /\ next[q] = Plain(c)
  <2>1. /\ curr[t].ptr \in Reachable \ {Head} /\ pred[t] \in Reachable
        /\ key[pred[t]] < key[curr[t].ptr] /\ pred[t] # curr[t].ptr
        /\ curr[t] = Plain(curr[t].ptr)
    BY <1>1, CurrInList
  <2>2. next[pred[t]] = curr[t]
    BY <1>1 DEF InPlace
  <2> QED  BY <2>1, <2>2
<1>3. next[c] = Marked(succ[t]) /\ ~succ[t].mark
  BY <1>1 DEF InPlace
<1>4. /\ next' = [next EXCEPT ![q] = succ[t]] /\ pc'[t] = "done" /\ ret'[t] = 1
      /\ UNCHANGED <<key, val, kind, arg, buf>>
  BY <1>2, <1>t DEF Unlink, Finish, Goto
<1>5. Reachable \subseteq Cell
  BY <1>0 DEF WellLinked
<1> HIDE DEF c, q
<1>6. next'[q] = succ[t] /\ \A m \in Reachable \ {q} : next'[m] = next[m]
  BY <1>2, <1>4, <1>5, <1>t
<1>7. Reachable = Reach(Cell, Links, NULL, Head) /\ Reachable' = Reach(Cell, Links', NULL, Head)
  BY DEF Reachable, Links, Cell
<1>8. IsList(Cell, Links, NULL, Head) /\ IsList(Cell, Links', NULL, Head)
  BY <1>0 DEF WellLinked, Cell
<1>9. /\ Links[q] = c /\ Links'[q] = Links[c]
      /\ \A m \in Reachable : m # q => Links'[m] = Links[m]
  BY <1>2, <1>3, <1>5, <1>6 DEF Links, Cell, Plain, Marked
<1>10. ASSUME NEW m \in Reachable, Links[m] = c PROVE m = q
  <2>1. next[m].ptr = c /\ next[q].ptr = c /\ c # NULL
    BY <1>1, <1>2, <1>5, <1>10 DEF Links, Plain, c
  <2>2. key[m] < key[c] /\ key[m] \in Nat /\ key[q] \in Nat /\ key[c] \in Nat
    BY <1>0, <1>2, <2>1 DEF WellLinked
  <2>3. ~(key[m] < key[q]) /\ ~(key[q] < key[m])
    BY <1>0, <1>2, <2>1, <2>2 DEF WellLinked
  <2>4. key[m] = key[q]
    BY <2>2, <2>3
  <2> QED  BY <1>0, <1>2, <2>4 DEF WellLinked
<1>11. Reachable' = Reachable \ {c}
  BY <1>2, <1>5, <1>7, <1>8, <1>9, <1>10, ReachRemove
<1> QED  BY <1>1, <1>3, <1>4, <1>6, <1>11 DEF c, q

\* The other steps that store something.
LEMMA WriteCopies ==
  ASSUME IInv, IInv', NEW t \in Thread, AloneAt(t), Write(t)
  PROVE  /\ pc[t] = "write" /\ UNCHANGED <<key, next, kind, arg, buf, pred, curr>>
         /\ curr[t].ptr \in Reachable \ {Head} /\ Reachable' = Reachable
         /\ \A n \in Node \ {curr[t].ptr} : val'[n] = val[n]
         /\ \A w \in Word \ todo'[t] : val'[curr[t].ptr][w] = buf[t][w]
         /\ \/ pc'[t] = "write" /\ todo'[t] # {} /\ todo'[t] # Word /\ ret'[t] = ret[t]
            \/ pc'[t] = "done" /\ ret'[t] = 1 /\ val'[curr[t].ptr] = buf[t]
<1> DEFINE c == curr[t].ptr
<1>t. /\ pc \in [Thread -> Label] /\ ret \in [Thread -> {0, 1}] /\ todo \in [Thread -> SUBSET Word]
      /\ val \in [Node -> [Word -> Data \cup {Junk}]] /\ buf \in [Thread -> [Word -> Data \cup {Junk}]]
      /\ val' \in [Node -> [Word -> Data \cup {Junk}]]
  BY DEF IInv, TypeOK
<1>1. pc[t] = "write" /\ c # NULL /\ UNCHANGED <<key, next, kind, arg, buf, pred, curr>>
  BY DEF Write, IInv, Control, ControlAt
<1>2. c \in Reachable \ {Head} /\ c \in Node
  BY <1>1, CurrInList DEF AloneAt
<1>3. Reachable' = Reachable
  BY <1>1, SameList
<1> HIDE DEF c
<1> PICK w \in todo[t] :
       /\ val'  = [val EXCEPT ![c][w] = buf[t][w]]
       /\ todo' = [todo EXCEPT ![t] = @ \ {w}]
       /\ IF todo[t] = {w} THEN Finish(t, 1) ELSE UNCHANGED <<pc, ret>>
  BY DEF Write, c
<1>4. w \in Word /\ todo'[t] = todo[t] \ {w}
  BY <1>t
<1>5. /\ \A n \in Node \ {c} : val'[n] = val[n]
      /\ \A v \in Word : val'[c][v] = IF v = w THEN buf[t][w] ELSE val[c][v]
  BY <1>2, <1>4, <1>t
<1>6. \A v \in Word \ todo'[t] : val'[c][v] = buf[t][v]
  BY <1>1, <1>4, <1>5 DEF AloneAt, CopiedSoFar, c
<1>7. CASE todo[t] = {w}
  <2>1. pc'[t] = "done" /\ ret'[t] = 1
    BY <1>7, <1>t DEF Finish, Goto
  <2>2. \A v \in Word : val'[c][v] = buf[t][v]
    BY <1>4, <1>6, <1>7
  <2>3. val'[c] \in [Word -> Data \cup {Junk}] /\ buf[t] \in [Word -> Data \cup {Junk}]
    BY <1>2, <1>t
  <2>4. val'[c] = buf[t]
    BY <2>2, <2>3
  <2> QED  BY <1>1, <1>2, <1>3, <1>5, <1>6, <2>1, <2>4 DEF c
<1>8. CASE todo[t] # {w}
  <2>1. pc'[t] = "write" /\ ret'[t] = ret[t]
    BY <1>1, <1>8
  <2>2. todo'[t] # {} /\ todo'[t] # Word
    BY <1>4, <1>8
  <2> QED  BY <1>1, <1>2, <1>3, <1>5, <1>6, <2>1, <2>2 DEF c
<1> QED  BY <1>7, <1>8

LEMMA AllocHides ==
  ASSUME IInv, IInv', NEW t \in Thread, Alloc(t)
  PROVE  /\ pc[t] = "alloc" /\ pc'[t] = "link" /\ UNCHANGED <<kind, arg, buf, pred, curr, ret>>
         /\ new'[t] \in Node /\ val'[new'[t]] = buf[t] /\ Reachable' = Reachable
         /\ \A n \in Reachable : next'[n] = next[n] /\ key'[n] = key[n]
         /\ \A n \in Reachable \ {Head} : val'[n] = val[n]
<1> PICK n \in Node \ allocated :
       /\ key'  = [key EXCEPT ![n] = arg[t]]
       /\ val'  = [val EXCEPT ![n] = buf[t]]
       /\ next' = [next EXCEPT ![n] = NullRef]
       /\ new'  = [new EXCEPT ![t] = n]
  BY DEF Alloc
<1>t. /\ pc \in [Thread -> Label] /\ new \in [Thread -> Node \cup {NULL}]
      /\ val \in [Node -> [Word -> Data \cup {Junk}]] /\ key \in [Cell -> Nat]
      /\ next \in [Cell -> Ref] /\ allocated \subseteq Node /\ Head \notin Node
  BY HarrisAssumption DEF IInv, TypeOK
<1>1. pc[t] = "alloc" /\ pc'[t] = "link" /\ UNCHANGED <<kind, arg, buf, pred, curr, ret>>
  BY <1>t DEF Alloc, Goto
<1>2. Reachable \subseteq allocated \cup {Head} /\ Reachable \subseteq Cell
  BY ListIsWellLinked, <1>t DEF WellLinked, Public, Cell
<1>3. /\ \A m \in Reachable : next'[m] = next[m] /\ key'[m] = key[m]
      /\ \A m \in Reachable \ {Head} : val'[m] = val[m]
  BY <1>2, <1>t
<1>4. Reachable' = Reachable
  BY <1>3, SameList
<1>5. new'[t] = n /\ val'[n] = buf[t]
  BY <1>t
<1> QED  BY <1>1, <1>3, <1>4, <1>5

LEMMA MarkMarks ==
  ASSUME IInv, IInv', NEW t \in Thread, AloneAt(t), Mark(t)
  PROVE  /\ pc[t] = "mark" /\ pc'[t] = "unlink"
         /\ UNCHANGED <<key, val, kind, arg, buf, ret, pred, curr, succ>>
         /\ curr[t].ptr \in Reachable \ {Head} /\ Reachable' = Reachable
         /\ next'[curr[t].ptr] = Marked(succ[t]) /\ ~succ[t].mark
         /\ \A n \in Reachable \ {curr[t].ptr} : next'[n] = next[n]
<1> DEFINE c == curr[t].ptr
<1>t. next \in [Cell -> Ref] /\ pc \in [Thread -> Label]
  BY DEF IInv, TypeOK
<1>1. pc[t] = "mark" /\ c # NULL /\ UNCHANGED <<key, val, kind, arg, buf, ret, pred, curr, succ>>
  BY DEF Mark, IInv, Control, ControlAt, locals
<1>2. c \in Reachable \ {Head}
  BY <1>1, CurrInList DEF AloneAt
<1>3. next[c] = succ[t] /\ ~next[c].mark
  BY <1>1, <1>2 DEF AloneAt, InPlace, OneMark
<1>4. next' = [next EXCEPT ![c] = Marked(succ[t])] /\ pc'[t] = "unlink"
  BY <1>3, <1>t DEF Mark, Goto
<1>5. Reachable \subseteq Cell
  BY ListIsWellLinked DEF WellLinked
<1> HIDE DEF c
<1>6. next'[c] = Marked(succ[t]) /\ \A n \in Reachable \ {c} : next'[n] = next[n]
  BY <1>2, <1>4, <1>5, <1>t
<1>7. \A n \in Reachable : next'[n].ptr = next[n].ptr
  BY <1>3, <1>6 DEF Marked
<1>8. Reachable' = Reachable
  BY <1>7, SameList
<1> QED  BY <1>1, <1>2, <1>3, <1>4, <1>6, <1>8 DEF c

\* Every step of the only caller keeps what it knows.
LEMMA AloneStep ==
  ASSUME OneCaller, IInv, IInv', Alone, NEW t \in Thread, Begin(t) \/ Work(t)
  PROVE  Alone'
<1> USE DEF Goto, Finish, locals
<1> SUFFICES AloneAt(t)'
  BY DEF OneCaller, Alone
<1>a. AloneAt(t) /\ Steady(t) /\ InPlace(t) /\ OneMark(t) /\ CopiedSoFar(t) /\ WholeValues(t)
  BY DEF Alone, AloneAt
<1>c. ControlAt(t) /\ ControlAt(t)'
  BY DEF IInv, Control
<1>w. WellLinked
  BY ListIsWellLinked
<1>t. /\ pc \in [Thread -> Label] /\ kind \in [Thread -> {"none", "put", "get", "del", "help"}]
      /\ arg \in [Thread -> Key] /\ todo \in [Thread -> SUBSET Word] /\ ret \in [Thread -> {0, 1}]
      /\ buf \in [Thread -> [Word -> Data \cup {Junk}]]
      /\ pred \in [Thread -> Cell] /\ curr \in [Thread -> Ref] /\ succ \in [Thread -> Ref]
      /\ new \in [Thread -> Node \cup {NULL}] /\ next \in [Cell -> Ref] /\ key \in [Cell -> Nat]
      /\ val \in [Node -> [Word -> Data \cup {Junk}]] /\ arg[t] \in Nat
  BY HarrisAssumption DEF IInv, TypeOK
<1>h. ASSUME UNCHANGED heap, pc[t] # "unlink", pc[t] # "write",
             Steady(t)', InPlace(t)', CopiedSoFar(t)'
      PROVE  AloneAt(t)'
  BY <1>h, <1>a, HeapKept DEF AloneAt
<1>1. CASE Begin(t)
  <2>1. pc[t] = "idle" /\ pc'[t] = "find" /\ kind'[t] # "help" /\ UNCHANGED heap
    BY <1>1, <1>t DEF Begin, Call, Operation
  <2> QED  BY <2>1, <1>h DEF Steady, InPlace, CopiedSoFar
<1>2. CASE FindStart(t)
  <2>1. /\ pc[t] = "find" /\ pc'[t] = "walk" /\ kind' = kind /\ UNCHANGED heap
        /\ pred'[t] = Head /\ curr'[t] = next[Head]
    BY <1>2, <1>t DEF FindStart
  <2>2. Head \in Reachable /\ ~next[Head].mark
    BY <2>1, <1>a, <1>w DEF WellLinked, OneMark
  <2>3. Reachable' = Reachable
    BY <2>1, <1>a, HeapKept
  <2>4. InPlace(t)'
    BY <2>1, <2>2, <2>3 DEF InPlace, heap
  <2> QED  BY <2>1, <2>4, <1>a, <1>h DEF Steady, CopiedSoFar
<1>3. CASE WalkOff(t)
  <2>1. /\ pc[t] = "walk" /\ pc'[t] \in {"alloc", "done"} /\ kind'[t] # "help" /\ UNCHANGED heap
        /\ pred' = pred /\ curr' = curr /\ curr[t].ptr = NULL
    BY <1>3, <1>t, <1>c, <1>a, NullIsRef DEF WalkOff, FindReturns, OnMiss, ControlAt, Steady
  <2>2. Reachable' = Reachable
    BY <2>1, <1>a, HeapKept
  <2>3. InPlace(t)'
    BY <2>1, <2>2, <1>a DEF InPlace, heap
  <2> QED  BY <2>1, <2>3, <1>h DEF Steady, CopiedSoFar
<1>4. CASE WalkFault(t)
  BY <1>4, <1>a DEF WalkFault, InPlace, Marked
<1>5. CASE WalkMarked(t)
  <2>1. pc[t] = "walk" /\ curr[t].ptr # NULL /\ next[curr[t].ptr].mark
    BY <1>5 DEF WalkMarked
  <2> QED  BY <2>1, <1>a, CurrInList DEF OneMark
<1>6. CASE WalkStop(t)
  <2>1. /\ pc[t] = "walk" /\ kind[t] \in {"put", "get", "del"} /\ kind' = kind /\ UNCHANGED heap
        /\ pred' = pred /\ curr' = curr /\ ~(key[curr[t].ptr] < arg[t]) /\ arg' = arg /\ new' = new
        /\ buf' = buf /\ curr[t].ptr # NULL
    <3>1. pc[t] = "walk" /\ kind[t] \in {"put", "get", "del"}
      BY <1>6, <1>t, <1>c, <1>a DEF WalkStop, ControlAt, Steady
    <3> QED  BY <3>1, <1>6, <1>t DEF WalkStop, FindReturns
  <2>2. CASE key[curr[t].ptr] = arg[t]
    <3>1. /\ pc'[t] \in {"write", "read", "load"}
          /\ pc'[t] \in {"write", "read"} => todo'[t] = Word
      BY <1>6, <1>t, <2>1, <2>2 DEF WalkStop, FindReturns, OnHit
    <3>2. Reachable' = Reachable
      BY <2>1, <1>a, HeapKept
    <3>3. InPlace(t)'
      BY <2>1, <3>1, <3>2, <1>a DEF InPlace, heap
    <3>4. CopiedSoFar(t)'
      BY <3>1, HarrisAssumption DEF CopiedSoFar
    <3> QED  BY <2>1, <3>1, <3>3, <3>4, <1>h DEF Steady
  <2>3. CASE key[curr[t].ptr] # arg[t]
    <3>1. pc'[t] \in {"alloc", "done"}
      BY <1>6, <1>t, <2>1, <2>3 DEF WalkStop, FindReturns, OnMiss
    <3>2. Reachable' = Reachable
      BY <2>1, <1>a, HeapKept
    <3>3. arg[t] < key[curr[t].ptr]
      <4>1. curr[t].ptr \in Reachable
        BY <2>1, <1>a, CurrInList
      <4>2. key[curr[t].ptr] \in Nat /\ arg[t] \in Nat
        BY <4>1, <1>t, <1>w DEF WellLinked
      <4> QED  BY <4>2, <2>1, <2>3
    <3>4. InPlace(t)'
      BY <2>1, <3>1, <3>2, <3>3, <1>a DEF InPlace, heap
    <3> QED  BY <2>1, <3>1, <3>4, <1>h DEF Steady, CopiedSoFar
  <2> QED  BY <2>2, <2>3
<1>7. CASE WalkPast(t)
  <2>1. /\ pc[t] = "walk" /\ pc' = pc /\ kind' = kind /\ UNCHANGED heap
        /\ pred'[t] = curr[t].ptr /\ curr'[t] = next[curr[t].ptr] /\ curr[t].ptr # NULL
        /\ ~next[curr[t].ptr].mark
    BY <1>7, <1>t DEF WalkPast
  <2>2. curr[t].ptr \in Reachable
    BY <2>1, <1>a, CurrInList
  <2>3. Reachable' = Reachable
    BY <2>1, <1>a, HeapKept
  <2>4. InPlace(t)'
    BY <2>1, <2>2, <2>3 DEF InPlace, heap
  <2> QED  BY <2>1, <2>4, <1>a, <1>h DEF Steady, CopiedSoFar
<1>8. CASE Snip(t) \/ Reload(t)
  BY <1>8, <1>a DEF Snip, Reload, Steady
<1>9. CASE Write(t)
  <2>1. /\ pc[t] = "write" /\ UNCHANGED <<key, next, kind, arg, buf, pred, curr>>
        /\ curr[t].ptr \in Reachable \ {Head} /\ Reachable' = Reachable
        /\ \A n \in Node \ {curr[t].ptr} : val'[n] = val[n]
        /\ \A w \in Word \ todo'[t] : val'[curr[t].ptr][w] = buf[t][w]
        /\ \/ pc'[t] = "write" /\ todo'[t] # {} /\ todo'[t] # Word
           \/ pc'[t] = "done" /\ val'[curr[t].ptr] = buf[t]
    BY <1>9, <1>a, WriteCopies
  <2>2. Steady(t)' /\ InPlace(t)' /\ OneMark(t)' /\ CopiedSoFar(t)'
    BY <2>1, <1>a DEF Steady, InPlace, OneMark, CopiedSoFar
  <2>3. Reachable \ {Head} \subseteq Node
    BY <1>w DEF WellLinked, Cell
  <2>4. buf[t] \in ValueOf[arg[t]] /\ key[curr[t].ptr] = arg[t]
    BY <2>1, <1>c DEF IInv, Held, Holding, ControlAt, Ordered, Order
  <2>5. WholeValues(t)'
    <3> SUFFICES ASSUME NEW n \in Reachable \ {Head}
                 PROVE  Copying(t, n)' \/ val'[n] \in ValueOf[key[n]]
      BY <2>1 DEF WholeValues
    <3>1. CASE n = curr[t].ptr
      BY <3>1, <2>1, <2>4 DEF Copying
    <3>2. CASE n # curr[t].ptr
      <4>1. val'[n] = val[n] /\ ~Copying(t, n)
        BY <3>2, <2>1, <2>3 DEF Copying
      <4> QED  BY <4>1, <1>a DEF WholeValues
    <3> QED  BY <3>1, <3>2
  <2> QED  BY <2>2, <2>5 DEF AloneAt
<1>10. CASE Alloc(t)
  <2>1. /\ pc[t] = "alloc" /\ pc'[t] = "link" /\ UNCHANGED <<kind, arg, buf, pred, curr, ret>>
        /\ new'[t] \in Node /\ val'[new'[t]] = buf[t] /\ Reachable' = Reachable
        /\ \A n \in Reachable : next'[n] = next[n] /\ key'[n] = key[n]
        /\ \A n \in Reachable \ {Head} : val'[n] = val[n]
    BY <1>10, AllocHides
  <2>2. curr[t].ptr # NULL => curr[t].ptr \in Reachable
    BY <2>1, <1>a, CurrInList
  <2>3. Steady(t)' /\ InPlace(t)' /\ CopiedSoFar(t)'
    BY <2>1, <2>2, <1>a DEF Steady, InPlace, CopiedSoFar
  <2>4. OneMark(t)' /\ WholeValues(t)'
    BY <2>1, <1>a DEF OneMark, WholeValues, Copying
  <2> QED  BY <2>3, <2>4 DEF AloneAt
<1>11. CASE AllocFails(t)
  <2>1. pc[t] = "alloc" /\ pc'[t] = "done" /\ kind' = kind /\ UNCHANGED heap
    BY <1>11, <1>t DEF AllocFails
  <2> QED  BY <2>1, <1>a, <1>h DEF Steady, InPlace, CopiedSoFar
<1>12. CASE Link(t)
  <2>1. /\ new[t] \in Node /\ new[t] \notin Reachable /\ pred[t] \in Reachable
        /\ key[new[t]] = arg[t] /\ pc'[t] = "done" /\ UNCHANGED <<key, val, kind, arg, buf>>
        /\ next'[new[t]] = NullRef /\ next'[pred[t]] = Plain(new[t])
        /\ \A n \in Reachable \ {pred[t]} : next'[n] = next[n]
        /\ Reachable' = {n \in Reachable : key[n] <= key[pred[t]]} \cup {new[t]}
    BY <1>12, <1>a, LinkCuts
  <2>2. pc[t] = "link" /\ kind[t] = "put"
    BY <1>12, <1>c DEF Link, ControlAt
  <2>3. Steady(t)' /\ InPlace(t)' /\ CopiedSoFar(t)'
    BY <2>1, <1>a DEF Steady, InPlace, CopiedSoFar
  <2>4. \A n \in Reachable' : ~next'[n].mark
    BY <2>1, <2>2, <1>a DEF OneMark, NullRef, Plain
  <2>5. val[new[t]] \in ValueOf[key[new[t]]]
    BY <2>1, <2>2, <1>a DEF CopiedSoFar, IInv, Held, Holding
  <2>6. \A n \in Reachable \ {Head} : val[n] \in ValueOf[key[n]]
    BY <2>2, <1>a DEF WholeValues, Copying
  <2>7. OneMark(t)' /\ WholeValues(t)'
    BY <2>1, <2>4, <2>5, <2>6 DEF OneMark, WholeValues
  <2> QED  BY <2>3, <2>7 DEF AloneAt
<1>13. CASE Read(t)
  <2> PICK w \in todo[t] :
         /\ buf'  = [buf EXCEPT ![t][w] = val[curr[t].ptr][w]]
         /\ todo' = [todo EXCEPT ![t] = @ \ {w}]
         /\ IF todo[t] = {w} THEN Finish(t, 1) ELSE UNCHANGED <<pc, ret>>
    BY <1>13 DEF Read
  <2>1. pc[t] = "read" /\ UNCHANGED <<allocated, key, val, next, kind, arg, pred, curr, succ, new>>
    BY <1>13 DEF Read, heap
  <2>2. pc'[t] = "done" \/ (pc'[t] = "read" /\ todo[t] # {w})
    BY <2>1, <1>t
  <2>3. todo'[t] = todo[t] \ {w} /\ w \in Word
    BY <1>t
  <2>4. \A v \in Word : buf'[t][v] = IF v = w THEN val[curr[t].ptr][w] ELSE buf[t][v]
    BY <2>3, <1>t
  <2>5. Reachable' = Reachable
    BY <2>1, <1>a, HeapKept DEF heap
  <2>6. Steady(t)' /\ InPlace(t)'
    BY <2>1, <2>2, <2>5, <1>a DEF Steady, InPlace
  <2>7. CopiedSoFar(t)'
    BY <2>1, <2>2, <2>3, <2>4, <1>a DEF CopiedSoFar
  <2> QED  BY <2>1, <2>6, <2>7, <1>h DEF heap
<1>14. CASE Load(t)
  <2>1. /\ pc[t] = "load" /\ pc'[t] \in {"mark", "done"} /\ UNCHANGED heap
        /\ UNCHANGED <<kind, pred, curr>> /\ succ'[t] = next[curr[t].ptr]
    BY <1>14, <1>t DEF Load
  <2>2. Reachable' = Reachable
    BY <2>1, <1>a, HeapKept
  <2>3. InPlace(t)'
    BY <2>1, <2>2, <1>a DEF InPlace, heap
  <2> QED  BY <2>1, <2>3, <1>a, <1>h DEF Steady, CopiedSoFar
<1>15. CASE Mark(t)
  <2>1. /\ pc[t] = "mark" /\ pc'[t] = "unlink"
        /\ UNCHANGED <<key, val, kind, arg, buf, ret, pred, curr, succ>>
        /\ curr[t].ptr \in Reachable \ {Head} /\ Reachable' = Reachable
        /\ next'[curr[t].ptr] = Marked(succ[t]) /\ ~succ[t].mark
        /\ \A n \in Reachable \ {curr[t].ptr} : next'[n] = next[n]
    BY <1>15, <1>a, MarkMarks
  <2>2. pred[t] \in Reachable \ {curr[t].ptr}
    BY <2>1, <1>a, <1>c, CurrInList DEF ControlAt
  <2>3. Steady(t)' /\ InPlace(t)' /\ CopiedSoFar(t)'
    BY <2>1, <2>2, <1>a DEF Steady, InPlace, CopiedSoFar
  <2>4. OneMark(t)' /\ WholeValues(t)'
    BY <2>1, <1>a DEF OneMark, WholeValues, Copying
  <2> QED  BY <2>3, <2>4 DEF AloneAt
<1>16. CASE Unlink(t)
  <2>1. /\ pc[t] = "unlink" /\ pc'[t] = "done" /\ UNCHANGED <<key, val, kind, arg, buf>>
        /\ next'[pred[t]] = succ[t] /\ ~succ[t].mark
        /\ \A n \in Reachable \ {pred[t]} : next'[n] = next[n]
        /\ Reachable' = Reachable \ {curr[t].ptr}
    BY <1>16, <1>a, UnlinkRemoves
  <2>2. Steady(t)' /\ InPlace(t)' /\ CopiedSoFar(t)'
    BY <2>1, <1>a DEF Steady, InPlace, CopiedSoFar
  <2>3. OneMark(t)' /\ WholeValues(t)'
    BY <2>1, <1>a DEF OneMark, WholeValues, Copying
  <2> QED  BY <2>2, <2>3 DEF AloneAt
<1>17. CASE Return(t)
  <2>1. pc[t] = "done" /\ pc'[t] = "idle" /\ kind'[t] = "none" /\ UNCHANGED heap
    BY <1>17, <1>t DEF Return
  <2> QED  BY <2>1, <1>h DEF Steady, InPlace, CopiedSoFar
<1> QED
  BY <1>1, <1>2, <1>3, <1>4, <1>5, <1>6, <1>7, <1>8, <1>9, <1>10, <1>11, <1>12, <1>13,
     <1>14, <1>15, <1>16, <1>17 DEF Work, Find

LEMMA AloneInit ==
  ASSUME Init, NEW t \in Thread
  PROVE  AloneAt(t)
<1> USE DEF Init
<1>1. IInv
  BY InvInit
<1>2. Public = {} /\ Reachable = {Head}
  <2>1. Public = {}
    BY DEF Public
  <2> QED  BY <1>1, <2>1, ListIsWellLinked DEF WellLinked
<1>3. next[Head] = NullRef
  BY DEF Cell
<1>4. OneMark(t)
  BY <1>2, <1>3 DEF OneMark, NullRef, Plain
<1> QED  BY <1>2, <1>4 DEF AloneAt, Steady, InPlace, CopiedSoFar, WholeValues

\* What a single caller knows holds in every state of every run.
LEMMA AloneInvariance ==
  ASSUME OneCaller
  PROVE  Spec => []Alone
<1>1. Init => Alone
  BY AloneInit DEF Alone
<1>2. IInv /\ IInv' /\ Alone /\ [Next]_vars => Alone'
  <2> SUFFICES ASSUME IInv, IInv', Alone, [Next]_vars PROVE Alone'
    OBVIOUS
  <2>1. CASE UNCHANGED vars
    BY <2>1 DEF vars, Alone, AloneAt, Steady, InPlace, OneMark, CopiedSoFar, WholeValues, Copying, Reachable
  <2>2. CASE Next
    BY <2>2, AloneStep DEF Next
  <2> QED  BY <2>1, <2>2
<1> QED  BY <1>1, <1>2, Invariance, PTL DEF Spec

-----------------------------------------------------------------------------
(* The map that a single caller sees                                       *)

\* What the caller will find in a node of the list.
Shown(t, n) == IF Copying(t, n) THEN buf[t] ELSE val[n]

\* The nodes that have key k.
With(k) == {n \in Live : key[n] = k}

LEMMA StoredIs ==
  OneCaller /\ IInv =>
    \A u \in Thread : \A j : \A m \in Live : key[m] = j => StoredUnder(j) = Shown(u, m)
<1> SUFFICES ASSUME OneCaller, IInv, NEW t \in Thread, NEW k, NEW n \in Live, key[n] = k
             PROVE  StoredUnder(k) = Shown(t, n)
  OBVIOUS
<1> DEFINE At == CHOOSE m \in Live : key[m] = k
           W(m) == {u \in Thread : pc[u] = "write" /\ curr[u].ptr = m /\ todo[u] # Word}
<1>1. \A m \in Live : key[m] = k => m = n
  BY ListIsWellLinked DEF WellLinked, Live
<1>2. At = n
  BY <1>1
<1>3. StoredUnder(k) = IF W(At) = {} THEN val[At] ELSE buf[CHOOSE u \in W(At) : TRUE]
  <2>1. \E m \in Live : key[m] = k
    OBVIOUS
  <2> QED  BY <2>1, Zenon DEF StoredUnder
<1> HIDE DEF At
<1>4. StoredUnder(k) = IF W(n) = {} THEN val[n] ELSE buf[CHOOSE u \in W(n) : TRUE]
  BY <1>2, <1>3, Zenon
<1>5. CASE Copying(t, n)
  <2>1. W(n) = {t}
    BY <1>5 DEF OneCaller, Copying
  <2>2. (CHOOSE u \in {t} : TRUE) = t
    OBVIOUS
  <2> HIDE DEF W
  <2> QED  BY <1>4, <1>5, <2>1, <2>2 DEF Shown
<1>6. CASE ~Copying(t, n)
  <2>1. W(n) = {}
    BY <1>6 DEF OneCaller, Copying
  <2> HIDE DEF W
  <2> QED  BY <1>4, <1>6, <2>1 DEF Shown
<1> QED  BY <1>5, <1>6

LEMMA StoredThen ==
  ASSUME OneCaller, IInv', NEW t \in Thread, NEW k, NEW n \in Live', key'[n] = k
  PROVE  StoredUnder(k)' = Shown(t, n)'
<1>1. OneCaller /\ IInv' =>
        (\A u \in Thread : \A j : \A m \in Live : key[m] = j => StoredUnder(j) = Shown(u, m))'
  BY StoredIs, PTL
<1>2. (\A u \in Thread : \A j : \A m \in Live : key[m] = j => StoredUnder(j) = Shown(u, m))'
  BY <1>1
<1> QED  BY <1>2

LEMMA StoredNothing ==
  ASSUME NEW k, \A n \in Live : key[n] # k
  PROVE  StoredUnder(k) = NoValue
  BY DEF StoredUnder

LEMMA NothingThen ==
  ASSUME NEW k, \A n \in Live' : key'[n] # k
  PROVE  StoredUnder(k)' = NoValue
  BY DEF StoredUnder

LEMMA SameStored ==
  ASSUME OneCaller, IInv, IInv', NEW t \in Thread, NEW k,
         With(k)' = With(k), \A n \in With(k) : Shown(t, n)' = Shown(t, n)
  PROVE  StoredUnder(k)' = StoredUnder(k)
<1>1. CASE With(k) = {}
  <2>1. (\A n \in Live : key[n] # k) /\ (\A n \in Live' : key'[n] # k)
    BY <1>1 DEF With
  <2> QED  BY <2>1, StoredNothing, NothingThen
<1>2. CASE With(k) # {}
  <2> PICK n \in With(k) : TRUE
    BY <1>2
  <2>1. n \in Live /\ key[n] = k /\ n \in Live' /\ key'[n] = k
    BY DEF With
  <2>2. StoredUnder(k) = Shown(t, n)
    BY <2>1, StoredIs
  <2>3. StoredUnder(k)' = Shown(t, n)'
    BY <2>1, StoredThen
  <2> QED  BY <2>2, <2>3
<1> QED  BY <1>1, <1>2

\* Between its neighbours in the list there is no place for a key.
LEMMA KeyIsMissing ==
  ASSUME IInv, NEW t \in Thread, InPlace(t), pc[t] \in {"walk", "alloc", "link"},
         curr[t].ptr # NULL => arg[t] < key[curr[t].ptr]
  PROVE  /\ \A n \in Reachable : key[n] # arg[t] /\ (key[n] < arg[t] => key[n] <= key[pred[t]])
         /\ StoredUnder(arg[t]) = NoValue
<1>1. /\ pred[t] \in Reachable /\ next[pred[t]].ptr = curr[t].ptr /\ key[pred[t]] < arg[t]
      /\ arg[t] \in Nat
  BY HarrisAssumption DEF InPlace, IInv, TypeOK, Ordered, Order
<1>2. ASSUME NEW n \in Reachable, key[pred[t]] < key[n] PROVE arg[t] < key[n]
  <2>1. curr[t].ptr # NULL /\ key[curr[t].ptr] <= key[n] /\ curr[t].ptr \in Reachable
    BY <1>1, <1>2, ListIsWellLinked DEF WellLinked
  <2>2. key[curr[t].ptr] \in Nat /\ key[n] \in Nat
    BY <2>1, ListIsWellLinked DEF WellLinked
  <2> QED  BY <1>1, <2>1, <2>2
<1>3. \A n \in Reachable : key[n] \in Nat
  BY ListIsWellLinked DEF WellLinked
<1>4. \A n \in Reachable : key[n] # arg[t] /\ (key[n] < arg[t] => key[n] <= key[pred[t]])
  BY <1>1, <1>2, <1>3
<1>5. StoredUnder(arg[t]) = NoValue
  BY <1>4, StoredNothing DEF Live
<1> QED  BY <1>4, <1>5

\* How the other variables of the map read for t.
Status(t) == IF pc[t] = "idle" THEN "idle" ELSE IF Effected(t) THEN "done" ELSE "called"
CallBy(t) ==
  IF kind[t] = "none" THEN [op |-> "none"]
  ELSE [op |-> kind[t], key |-> arg[t], val |-> IF kind[t] = "put" THEN buf[t] ELSE NoValue]
AnswerTo(t) == IF Effected(t) THEN AnswerOf(t) ELSE [ret |-> 0, val |-> NoValue]

SameStore == \A k \in Key : StoredUnder(k)' = StoredUnder(k)
SameView(t) == Status(t)' = Status(t) /\ CallBy(t)' = CallBy(t) /\ AnswerTo(t)' = AnswerTo(t)

\* A step the caller cannot see.
LEMMA Silent ==
  ASSUME OneCaller, NEW t \in Thread, SameStore, SameView(t)
  PROVE  UNCHANGED Map!vars
<1>1. \A u \in Thread : SameView(u)
  BY DEF OneCaller
<1> QED  BY <1>1 DEF SameStore, SameView, Status, CallBy, AnswerTo, Map!vars

\* The step that gives t its answer a.
LEMMA Answering ==
  ASSUME OneCaller, NEW t \in Thread, Status(t) = "called", Status(t)' = "done",
         CallBy(t)' = CallBy(t), NEW a, AnswerTo(t)' = a
  PROVE  Map!Answered(t, a)
<1>1. \A u \in Thread : u = t
  BY DEF OneCaller
<1> QED  BY <1>1 DEF Status, CallBy, AnswerTo, Map!Answered

LEMMA Calling ==
  ASSUME OneCaller, NEW t \in Thread, Status(t) = "idle", Status(t)' = "called",
         NEW c, CallBy(t)' = c, AnswerTo(t)' = AnswerTo(t), SameStore
  PROVE  Map!Call(t, c)
<1>1. \A u \in Thread : u = t
  BY DEF OneCaller
<1> DEFINE s == [u \in Thread |-> Status(u)]
           o == [u \in Thread |-> CallBy(u)]
           r == [u \in Thread |-> AnswerTo(u)]
           m == [k \in Key |-> StoredUnder(k)]
<1>2. s[t] = "idle" /\ s' = [s EXCEPT ![t] = "called"]
  BY <1>1
<1>3. o' = [o EXCEPT ![t] = c]
  BY <1>1
<1>4. r' = r /\ m' = m
  BY <1>1 DEF SameStore
<1> HIDE DEF s, o, r, m
<1> QED  BY <1>2, <1>3, <1>4 DEF s, o, r, m, Status, CallBy, AnswerTo, Map!Call

LEMMA Returning ==
  ASSUME OneCaller, NEW t \in Thread, Status(t) = "done", Status(t)' = "idle",
         CallBy(t)' = [op |-> "none"], AnswerTo(t)' = [ret |-> 0, val |-> NoValue], SameStore
  PROVE  Map!Return(t)
<1>1. \A u \in Thread : u = t
  BY DEF OneCaller
<1> QED
  BY <1>1 DEF Status, CallBy, AnswerTo, SameStore, Map!Return, Map!NoCall, Map!NoAnswer, Map!Answers

\* The operations of the map, as steps of the list.
LEMMA Putting ==
  ASSUME OneCaller, NEW t \in Thread, kind[t] = "put", arg[t] \in Key,
         UNCHANGED <<kind, arg, buf>>, buf[t] \in ValueOf[arg[t]],
         StoredUnder(arg[t])' = buf[t],
         \A k \in Key \ {arg[t]} :
           StoredUnder(k)' = IF StoredUnder(arg[t]) = NoValue /\ k > arg[t] THEN NoValue
                             ELSE StoredUnder(k),
         Map!Answered(t, [ret |-> 1, val |-> NoValue])
  PROVE  Map!Put(t)
<1> DEFINE c == [u \in Thread |->
                   IF kind[u] = "none" THEN [op |-> "none"]
                   ELSE [op |-> kind[u], key |-> arg[u],
                         val |-> IF kind[u] = "put" THEN buf[u] ELSE NoValue]]
           m == [k \in Key |-> StoredUnder(k)]
<1>1. c[t] = [op |-> "put", key |-> arg[t], val |-> buf[t]]
  OBVIOUS
<1>2. buf[t] \in UNION {ValueOf[k] : k \in Key}
  OBVIOUS
<1>3. c[t] \in Map!PutCall
  BY <1>1, <1>2 DEF Map!PutCall
<1>4. c[t].key = arg[t] /\ c[t].val = buf[t] /\ m[arg[t]] = StoredUnder(arg[t])
  BY <1>1
<1>5. \A j \in Key : j \in Larger[arg[t]] <=> j > arg[t]
  BY DEF Larger
<1>6. m' = [j \in Key |-> IF j = arg[t] THEN buf[t]
                          ELSE IF ~(m[arg[t]] # NoValue) /\ j \in Larger[arg[t]] THEN NoValue
                          ELSE m[j]]
  BY <1>5
<1> HIDE DEF c, m
<1>7. m' = [j \in Key |-> IF j = c[t].key THEN c[t].val
                          ELSE IF ~(m[c[t].key] # NoValue) /\ j \in Larger[c[t].key] THEN NoValue
                          ELSE m[j]]
  BY <1>4, <1>6
<1> QED  BY <1>3, <1>7 DEF Map!Put, Map!Answers, Map!Present, c, m

LEMMA Getting ==
  ASSUME NEW t \in Thread, kind[t] = "get", arg[t] \in Key, SameStore, NEW a,
         StoredUnder(arg[t]) \in ValueOf[arg[t]] \cup {NoValue},
         a = IF StoredUnder(arg[t]) # NoValue THEN [ret |-> 1, val |-> StoredUnder(arg[t])]
             ELSE [ret |-> 0, val |-> NoValue],
         Map!Answered(t, a)
  PROVE  Map!Get(t)
<1> DEFINE c == [u \in Thread |->
                   IF kind[u] = "none" THEN [op |-> "none"]
                   ELSE [op |-> kind[u], key |-> arg[u],
                         val |-> IF kind[u] = "put" THEN buf[u] ELSE NoValue]]
           m == [k \in Key |-> StoredUnder(k)]
           s == [u \in Thread |-> Status(u)]
           r == [u \in Thread |-> AnswerTo(u)]
           g == [v \in UNION {ValueOf[k] : k \in Key} |-> v]
<1>1. c[t] = [op |-> "get", key |-> arg[t], val |-> NoValue]
  OBVIOUS
<1>2. c[t] \in Map!GetCall
  BY <1>1 DEF Map!GetCall
<1>3. c[t].key = arg[t]
  BY <1>1
<1>4. m[c[t].key] = StoredUnder(arg[t])
  BY <1>3
<1>5. s[t] = "called" /\ s' = [s EXCEPT ![t] = "done"] /\ r' = [r EXCEPT ![t] = a] /\ c' = c
  BY DEF Map!Answered, Status, AnswerTo
<1>6. m' = m
  BY DEF SameStore
<1>7. StoredUnder(arg[t]) # NoValue => g[StoredUnder(arg[t])] = StoredUnder(arg[t])
  OBVIOUS
<1> HIDE DEF c, m, s, r, g
<1>8. a = IF m[c[t].key] # NoValue THEN [ret |-> 1, val |-> g[m[c[t].key]]]
          ELSE [ret |-> 0, val |-> NoValue]
  BY <1>4, <1>7
<1>9. r' = [r EXCEPT ![t] = IF m[c[t].key] # NoValue THEN [ret |-> 1, val |-> g[m[c[t].key]]]
                            ELSE [ret |-> 0, val |-> NoValue]]
  BY <1>5, <1>8
<1> QED
  BY <1>2, <1>5, <1>6, <1>9
  DEF Map!Get, Map!Answered, Map!Present, Map!Answers, Map!NoAnswer, c, m, s, r, g, Status, AnswerTo

LEMMA Deleting ==
  ASSUME NEW t \in Thread, kind[t] = "del", arg[t] \in Key, arg' = arg,
         StoredUnder(arg[t])' = NoValue,
         \A k \in Key \ {arg[t]} : StoredUnder(k)' = StoredUnder(k), NEW a,
         a = IF StoredUnder(arg[t]) # NoValue THEN [ret |-> 1, val |-> NoValue]
             ELSE [ret |-> 0, val |-> NoValue],
         Map!Answered(t, a)
  PROVE  Map!Del(t)
<1> DEFINE c == [u \in Thread |->
                   IF kind[u] = "none" THEN [op |-> "none"]
                   ELSE [op |-> kind[u], key |-> arg[u],
                         val |-> IF kind[u] = "put" THEN buf[u] ELSE NoValue]]
           m == [k \in Key |-> StoredUnder(k)]
           s == [u \in Thread |-> Status(u)]
           r == [u \in Thread |-> AnswerTo(u)]
<1>1. c[t] = [op |-> "del", key |-> arg[t], val |-> NoValue]
  OBVIOUS
<1>2. c[t] \in Map!DelCall
  BY <1>1 DEF Map!DelCall
<1>3. c[t].key = arg[t]
  BY <1>1
<1>4. m[c[t].key] = StoredUnder(arg[t])
  BY <1>3
<1>5. m' = [m EXCEPT ![arg[t]] = NoValue]
  OBVIOUS
<1>6. s[t] = "called" /\ s' = [s EXCEPT ![t] = "done"] /\ r' = [r EXCEPT ![t] = a] /\ c' = c
  BY DEF Map!Answered, Status, AnswerTo
<1> HIDE DEF c, m, s, r
<1>7. m' = [m EXCEPT ![c[t].key] = NoValue]
  BY <1>3, <1>5
<1>8. a = IF m[c[t].key] # NoValue THEN [ret |-> 1, val |-> NoValue] ELSE [ret |-> 0, val |-> NoValue]
  BY <1>4
<1>9. r' = [r EXCEPT ![t] = IF m[c[t].key] # NoValue THEN [ret |-> 1, val |-> NoValue]
                            ELSE [ret |-> 0, val |-> NoValue]]
  BY <1>6, <1>8
<1> QED
  BY <1>2, <1>6, <1>7, <1>9
  DEF Map!Del, Map!Answered, Map!Present, Map!Answers, Map!NoAnswer, c, m, s, r, Status, AnswerTo

\* Every step but four leaves the map alone: the list changes behind it, if at all.
LEMMA StoreKept ==
  ASSUME OneCaller, IInv, IInv', NEW t \in Thread, AloneAt(t), Begin(t) \/ Work(t),
         ~Write(t), ~Link(t), ~Mark(t)
  PROVE  SameStore
<1> USE DEF Goto, Finish, locals
<1>a. Steady(t) /\ InPlace(t) /\ OneMark(t)
  BY DEF AloneAt
<1>t. /\ pc \in [Thread -> Label] /\ todo \in [Thread -> SUBSET Word]
      /\ kind \in [Thread -> {"none", "put", "get", "del", "help"}]
  BY DEF IInv, TypeOK
<1>1. /\ Live' = Live
      /\ \A n \in Live : key'[n] = key[n] /\ val'[n] = val[n]
  <2>1. CASE Unlink(t)
    <3>1. /\ pc[t] = "unlink" /\ key' = key /\ val' = val
          /\ next'[pred[t]] = succ[t] /\ ~succ[t].mark
          /\ \A n \in Reachable \ {pred[t]} : next'[n] = next[n]
          /\ Reachable' = Reachable \ {curr[t].ptr}
      BY <2>1, <1>a, UnlinkRemoves
    <3>2. next[curr[t].ptr].mark /\ ~next[pred[t]].mark
      BY <3>1, <1>a DEF InPlace, Marked
    <3> QED  BY <3>1, <3>2 DEF Live
  <2>2. CASE Alloc(t)
    <3>1. /\ Reachable' = Reachable
          /\ \A n \in Reachable : next'[n] = next[n] /\ key'[n] = key[n]
          /\ \A n \in Reachable \ {Head} : val'[n] = val[n]
      BY <2>2, AllocHides
    <3> QED  BY <3>1 DEF Live
  <2>3. CASE ~Unlink(t) /\ ~Alloc(t)
    <3>1. UNCHANGED heap
      BY <2>3, <1>a DEF Work, Find, Begin, Call, FindStart, WalkOff, WalkFault, WalkMarked, WalkStop,
         WalkPast, Snip, Reload, AllocFails, Read, Load, Return, Steady, heap
    <3>2. Reachable' = Reachable
      BY <3>1, SameList DEF heap
    <3> QED  BY <3>1, <3>2 DEF Live, heap
  <2> QED  BY <2>1, <2>2, <2>3
<1>2. pc[t] # "write"
  BY DEF Work, Find, Begin, Call, FindStart, WalkOff, WalkFault, WalkMarked, WalkStop, WalkPast,
     Snip, Reload, Alloc, AllocFails, Read, Load, Unlink, Return
<1>3. pc'[t] = "write" => todo'[t] = Word
  <2>1. CASE WalkOff(t) \/ WalkStop(t)
    <3>1. kind[t] \in {"put", "get", "del"}
      BY <2>1, <1>t, <1>a DEF WalkOff, WalkStop, Steady, IInv, Control, ControlAt
    <3> QED  BY <2>1, <3>1, <1>t DEF WalkOff, WalkStop, FindReturns, OnHit, OnMiss
  <2>2. CASE ~WalkOff(t) /\ ~WalkStop(t)
    BY <2>2, <1>2, <1>t, <1>a DEF Work, Find, Begin, Call, FindStart, WalkFault, WalkMarked,
       WalkPast, Snip, Reload, Alloc, AllocFails, Read, Load, Unlink, Return, Steady
  <2> QED  BY <2>1, <2>2
<1>4. \A n \in Live : Shown(t, n)' = Shown(t, n)
  BY <1>1, <1>2, <1>3 DEF Shown, Copying
<1> SUFFICES ASSUME NEW k \in Key PROVE StoredUnder(k)' = StoredUnder(k)
  BY DEF SameStore
<1>5. With(k)' = With(k) /\ \A n \in With(k) : Shown(t, n)' = Shown(t, n)
  BY <1>1, <1>4 DEF With
<1> QED  BY <1>5, SameStored

\* The first word of memcpy overwrites the value, as far as the caller can tell.
LEMMA WriteStores ==
  ASSUME OneCaller, IInv, IInv', NEW t \in Thread, AloneAt(t), Write(t)
  PROVE  /\ StoredUnder(arg[t])' = buf[t] /\ StoredUnder(arg[t]) # NoValue
         /\ todo[t] # Word => StoredUnder(arg[t]) = buf[t]
         /\ \A k \in Key \ {arg[t]} : StoredUnder(k)' = StoredUnder(k)
<1> PICK c : c = curr[t].ptr
  OBVIOUS
<1>1. /\ pc[t] = "write" /\ UNCHANGED <<key, next, kind, arg, buf, pred, curr>>
      /\ c \in Reachable \ {Head} /\ Reachable' = Reachable
      /\ \A n \in Node \ {c} : val'[n] = val[n]
      /\ \/ pc'[t] = "write" /\ todo'[t] # Word
         \/ pc'[t] = "done" /\ val'[c] = buf[t]
  BY WriteCopies
<1>2. Live' = Live /\ c \in Live
  BY <1>1 DEF Live, AloneAt, OneMark
<1>3. key[c] = arg[t] /\ kind[t] = "put" /\ arg[t] \in Key /\ buf[t] \in ValueOf[arg[t]]
  BY <1>1 DEF IInv, TypeOK, Ordered, Order, Control, ControlAt, Held, Holding
<1>4. Shown(t, c)' = buf[t] /\ (todo[t] # Word => Shown(t, c) = buf[t])
  BY <1>1 DEF Shown, Copying
<1>5. Shown(t, c) \in ValueOf[arg[t]]
  BY <1>1, <1>3 DEF Shown, AloneAt, WholeValues
<1>6. StoredUnder(arg[t]) = Shown(t, c)
  BY <1>2, <1>3, StoredIs
<1>7. StoredUnder(arg[t])' = buf[t]
  BY <1>1, <1>2, <1>3, <1>4, StoredThen
<1>8. ASSUME NEW k \in Key \ {arg[t]} PROVE StoredUnder(k)' = StoredUnder(k)
  <2>1. With(k)' = With(k) /\ \A n \in With(k) : n \in Node /\ n # c
    BY <1>1, <1>2, <1>3, ListIsWellLinked DEF With, Live, WellLinked, Cell
  <2>2. \A n \in With(k) : Shown(t, n)' = Shown(t, n)
    BY <1>1, <2>1 DEF Shown, Copying
  <2> QED  BY <2>1, <2>2, SameStored
<1> QED  BY <1>3, <1>4, <1>5, <1>6, <1>7, <1>8, HarrisMapAssumption

\* The compare-and-swap that links a node brings its key and loses the larger ones.
LEMMA LinkStores ==
  ASSUME OneCaller, IInv, IInv', NEW t \in Thread, AloneAt(t), Link(t)
  PROVE  /\ StoredUnder(arg[t]) = NoValue /\ StoredUnder(arg[t])' = buf[t]
         /\ \A k \in Key \ {arg[t]} :
              StoredUnder(k)' = IF k > arg[t] THEN NoValue ELSE StoredUnder(k)
<1> PICK c : c = new[t]
  OBVIOUS
<1>a. InPlace(t) /\ OneMark(t) /\ CopiedSoFar(t)
  BY DEF AloneAt
<1>0. pc[t] = "link" /\ arg[t] \in Key
  BY DEF Link, IInv, TypeOK
<1>1. /\ c \in Node /\ c \notin Reachable /\ pred[t] \in Reachable
      /\ key[c] = arg[t] /\ arg[t] \in Nat /\ key[pred[t]] < arg[t]
      /\ pc'[t] = "done" /\ UNCHANGED <<key, val, kind, arg, buf>>
      /\ next'[c] = NullRef /\ next'[pred[t]] = Plain(c)
      /\ \A n \in Reachable \ {pred[t]} : next'[n] = next[n]
      /\ Reachable' = {n \in Reachable : key[n] <= key[pred[t]]} \cup {c}
  BY <1>a, LinkCuts
<1>2. /\ \A n \in Reachable : key[n] # arg[t] /\ (key[n] < arg[t] => key[n] <= key[pred[t]])
      /\ StoredUnder(arg[t]) = NoValue
  BY <1>0, <1>a, KeyIsMissing DEF InPlace
<1>3. Head \notin Node /\ Live = Reachable \ {Head}
  BY <1>0, <1>a, HarrisAssumption DEF Live, OneMark
<1>4. Live' = {n \in Live : key[n] <= key[pred[t]]} \cup {c}
  <2>1. \A n \in Reachable' : ~next'[n].mark
    BY <1>0, <1>1, <1>a DEF OneMark, NullRef, Plain
  <2> QED  BY <1>1, <1>3, <2>1 DEF Live
<1>5. \A n \in Cell : Shown(t, n) = val[n] /\ Shown(t, n)' = val[n]
  BY <1>0, <1>1 DEF Shown, Copying
<1>6. StoredUnder(arg[t])' = buf[t]
  <2>1. Shown(t, c)' = buf[t]
    BY <1>0, <1>1, <1>5, <1>a DEF CopiedSoFar, Cell
  <2> QED  BY <1>1, <1>4, <2>1, StoredThen
<1>7. ASSUME NEW k \in Key \ {arg[t]}, k > arg[t] PROVE StoredUnder(k)' = NoValue
  <2>1. \A n \in Reachable : key[n] \in Nat
    BY ListIsWellLinked DEF WellLinked
  <2>2. k \in Nat /\ key[pred[t]] \in Nat
    BY <1>1, <2>1, HarrisAssumption
  <2>3. \A n \in Live' : key'[n] # k
    BY <1>1, <1>3, <1>4, <1>7, <2>1, <2>2
  <2> QED  BY <2>3, NothingThen
<1>8. ASSUME NEW k \in Key \ {arg[t]}, ~(k > arg[t]) PROVE StoredUnder(k)' = StoredUnder(k)
  <2>1. k \in Nat /\ k < arg[t]
    BY <1>1, <1>8, HarrisAssumption
  <2>2. \A n \in Live : key[n] = k => key[n] <= key[pred[t]]
    BY <1>2, <1>3, <2>1
  <2>3. With(k)' = With(k)
    BY <1>1, <1>4, <2>2 DEF With
  <2>4. \A n \in With(k) : n \in Cell
    BY ListIsWellLinked DEF With, Live, WellLinked
  <2> QED  BY <1>5, <2>3, <2>4, SameStored
<1> QED  BY <1>2, <1>6, <1>7, <1>8

\* The compare-and-swap that marks a node takes its key out of the map.
LEMMA MarkStores ==
  ASSUME OneCaller, IInv, IInv', NEW t \in Thread, AloneAt(t), Mark(t)
  PROVE  /\ StoredUnder(arg[t]) # NoValue /\ StoredUnder(arg[t])' = NoValue
         /\ \A k \in Key \ {arg[t]} : StoredUnder(k)' = StoredUnder(k)
<1> PICK c : c = curr[t].ptr
  OBVIOUS
<1>1. /\ pc[t] = "mark" /\ pc'[t] = "unlink"
      /\ UNCHANGED <<key, val, kind, arg, buf, ret, pred, curr, succ>>
      /\ c \in Reachable \ {Head} /\ Reachable' = Reachable
      /\ next'[c] = Marked(succ[t]) /\ \A n \in Reachable \ {c} : next'[n] = next[n]
  BY MarkMarks
<1>2. c \in Live /\ Live' = Live \ {c}
  BY <1>1 DEF Live, AloneAt, OneMark, Marked
<1>3. key[c] = arg[t] /\ arg[t] \in Key
  BY <1>1 DEF IInv, TypeOK, Ordered, Order
<1>4. StoredUnder(arg[t]) \in ValueOf[arg[t]]
  <2>1. Shown(t, c) \in ValueOf[arg[t]]
    BY <1>1, <1>3 DEF Shown, Copying, AloneAt, WholeValues
  <2>2. StoredUnder(arg[t]) = Shown(t, c)
    BY <1>2, <1>3, StoredIs
  <2> QED  BY <2>1, <2>2
<1>5. StoredUnder(arg[t])' = NoValue
  <2>1. \A n \in Live : key[n] = key[c] => n = c
    BY <1>1, ListIsWellLinked DEF Live, WellLinked
  <2>2. \A n \in Live' : key'[n] # arg[t]
    BY <1>1, <1>2, <1>3, <2>1
  <2> QED  BY <1>1, <2>2, NothingThen
<1>6. ASSUME NEW k \in Key \ {arg[t]} PROVE StoredUnder(k)' = StoredUnder(k)
  <2>1. With(k)' = With(k)
    BY <1>1, <1>2, <1>3 DEF With
  <2>2. \A n \in With(k) : Shown(t, n)' = Shown(t, n)
    BY <1>1 DEF Shown, Copying
  <2> QED  BY <2>1, <2>2, SameStored
<1> QED  BY <1>3, <1>4, <1>5, <1>6, HarrisMapAssumption

\* Every step of a single caller is one of the cutting map, or it cannot see it.
LEMMA MapStep ==
  ASSUME OneCaller, IInv, IInv', NEW t \in Thread, AloneAt(t), AloneAt(t)', Begin(t) \/ Work(t)
  PROVE  Map!Next \/ UNCHANGED Map!vars
<1> USE DEF Goto, Finish, heap, locals
<1>a. Steady(t) /\ InPlace(t) /\ OneMark(t) /\ CopiedSoFar(t) /\ WholeValues(t)
  BY DEF AloneAt
<1>c. ControlAt(t) /\ Holding(t) /\ Order(t)
  BY DEF IInv, Control, Held, Ordered
<1>t. /\ pc \in [Thread -> Label] /\ kind \in [Thread -> {"none", "put", "get", "del", "help"}]
      /\ arg \in [Thread -> Key] /\ todo \in [Thread -> SUBSET Word] /\ ret \in [Thread -> {0, 1}]
      /\ buf \in [Thread -> [Word -> Data \cup {Junk}]]
  BY DEF IInv, TypeOK
<1>k. ASSUME ~Write(t), ~Link(t), ~Mark(t) PROVE SameStore
  BY <1>k, StoreKept
<1>s. ASSUME SameStore, SameView(t)
      PROVE  UNCHANGED Map!vars
  BY <1>s, Silent
<1>1. CASE Begin(t)
  <2> PICK op \in Operation, k \in Key :
         \E b \in ValueOf[k] \cup {EmptyBuf} : Call(t, op, k, b)
    BY <1>1 DEF Begin
  <2> PICK b \in ValueOf[k] \cup {EmptyBuf} : Call(t, op, k, b)
    OBVIOUS
  <2> DEFINE c == [op |-> op, key |-> k, val |-> IF op = "put" THEN b ELSE NoValue]
  <2>1. /\ pc[t] = "idle" /\ pc'[t] = "find" /\ kind'[t] = op /\ arg'[t] = k /\ buf'[t] = b
        /\ op \in {"put", "get", "del"} /\ (op = "put" => b \in ValueOf[k])
    BY <1>t DEF Call, Operation
  <2>2. SameStore
    BY <2>1, <1>k DEF Write, Link, Mark
  <2>3. kind[t] = "none"
    BY <2>1, <1>c DEF ControlAt
  <2>4. /\ Status(t) = "idle" /\ Status(t)' = "called" /\ CallBy(t)' = c
        /\ AnswerTo(t)' = AnswerTo(t)
    BY <2>1, <2>3 DEF Status, CallBy, AnswerTo, Effected
  <2>5. Map!Call(t, c)
    BY <2>2, <2>4, Calling
  <2>6. c \in Map!Request
    <3>1. op = "put" => b \in UNION {ValueOf[j] : j \in Key}
      BY <2>1
    <3> QED  BY <2>1, <3>1 DEF Map!Request, Map!PutCall, Map!GetCall, Map!DelCall
  <2> QED  BY <2>5, <2>6 DEF Map!Next
<1>2. CASE FindStart(t) \/ WalkPast(t) \/ Alloc(t)
  <2>1. /\ UNCHANGED <<kind, arg, buf, ret>> /\ pc[t] \in {"find", "walk", "alloc"}
        /\ pc'[t] \in {"walk", "link"}
    BY <1>2, <1>t DEF FindStart, WalkPast, Alloc
  <2>2. SameStore
    BY <2>1, <1>k DEF Write, Link, Mark
  <2>3. SameView(t)
    BY <2>1 DEF SameView, Status, CallBy, AnswerTo, Effected
  <2> QED  BY <2>2, <2>3, <1>s
<1>3. CASE WalkFault(t) \/ WalkMarked(t) \/ Snip(t) \/ Reload(t)
  <2>1. CASE WalkFault(t)
    BY <2>1, <1>a DEF WalkFault, InPlace, Marked
  <2>2. CASE WalkMarked(t)
    <3>1. pc[t] = "walk" /\ curr[t].ptr # NULL /\ next[curr[t].ptr].mark
      BY <2>2 DEF WalkMarked
    <3> QED  BY <3>1, <1>a, CurrInList DEF OneMark
  <2> QED  BY <2>1, <2>2, <1>3, <1>a DEF Snip, Reload, Steady
<1>4. ASSUME UNCHANGED <<kind, arg>>, kind[t] \in {"get", "del"}, SameStore,
             pc[t] \notin {"idle", "unlink", "done", "write"}, pc'[t] = "done", ret'[t] = 0,
             StoredUnder(arg[t]) = NoValue
      PROVE  Map!Next
  <2>1. Status(t) = "called" /\ Status(t)' = "done" /\ CallBy(t)' = CallBy(t)
    BY <1>4 DEF Status, CallBy, Effected
  <2>2. AnswerTo(t)' = [ret |-> 0, val |-> NoValue]
    BY <1>4 DEF AnswerTo, AnswerOf, Effected
  <2>3. Map!Answered(t, [ret |-> 0, val |-> NoValue])
    BY <2>1, <2>2, Answering
  <2>4. arg[t] \in Key
    BY <1>t
  <2>5. CASE kind[t] = "get"
    <3>1. Map!Get(t)
      BY <1>4, <2>3, <2>4, <2>5, Getting
    <3> QED  BY <3>1 DEF Map!Next
  <2>6. CASE kind[t] = "del"
    <3>1. Map!Del(t)
      BY <1>4, <2>3, <2>4, <2>6, Deleting DEF SameStore
    <3> QED  BY <3>1 DEF Map!Next
  <2> QED  BY <1>4, <2>5, <2>6
<1>5. CASE WalkOff(t) \/ WalkStop(t)
  <2>1. /\ pc[t] = "walk" /\ kind[t] \in {"put", "get", "del"} /\ ret[t] = 0
        /\ UNCHANGED <<arg, buf, ret>>
    BY <1>5, <1>t, <1>c, <1>a DEF WalkOff, WalkStop, ControlAt, Steady
  <2>2. kind' = kind
    BY <1>5, <2>1, <1>t DEF WalkOff, WalkStop, FindReturns
  <2>3. SameStore
    BY <2>1, <1>k DEF Write, Link, Mark
  <2>4. CASE pc'[t] # "done"
    <3>1. /\ pc'[t] \in {"write", "read", "load", "alloc"}
          /\ pc'[t] = "write" => todo'[t] = Word
      BY <1>5, <2>1, <2>4, <1>t DEF WalkOff, WalkStop, FindReturns, OnHit, OnMiss
    <3>2. SameView(t)
      BY <2>1, <2>2, <3>1 DEF SameView, Status, CallBy, AnswerTo, Effected
    <3> QED  BY <2>3, <3>2, <1>s
  <2>5. CASE pc'[t] = "done"
    <3>1. /\ kind[t] \in {"get", "del"}
          /\ curr[t].ptr # NULL => ~(key[curr[t].ptr] < arg[t]) /\ key[curr[t].ptr] # arg[t]
      <4>1. CASE WalkOff(t)
        BY <4>1, <2>1, <2>5, <1>t, NullIsRef DEF WalkOff, FindReturns, OnMiss
      <4>2. CASE WalkStop(t)
        BY <4>2, <2>1, <2>5, <1>t DEF WalkStop, FindReturns, OnHit, OnMiss
      <4> QED  BY <1>5, <4>1, <4>2
    <3>2. curr[t].ptr # NULL => arg[t] < key[curr[t].ptr]
      <4>1. curr[t].ptr # NULL => key[curr[t].ptr] \in Nat
        BY <2>1, <1>a, CurrInList, ListIsWellLinked DEF WellLinked
      <4>2. arg[t] \in Nat
        BY <1>t, HarrisAssumption
      <4> QED  BY <3>1, <4>1, <4>2
    <3>3. StoredUnder(arg[t]) = NoValue
      BY <2>1, <3>2, <1>a, KeyIsMissing
    <3>4. ret'[t] = 0
      BY <2>1
    <3> QED  BY <1>4, <2>1, <2>2, <2>3, <2>5, <3>1, <3>3, <3>4
  <2> QED  BY <2>4, <2>5
<1>6. ASSUME UNCHANGED <<kind, arg, buf>>, kind[t] = "put", ~Effected(t), pc[t] # "idle",
             pc'[t] # "idle", Effected(t)', AnswerTo(t)' = [ret |-> 1, val |-> NoValue],
             StoredUnder(arg[t])' = buf[t],
             \A k \in Key \ {arg[t]} :
               StoredUnder(k)' = IF StoredUnder(arg[t]) = NoValue /\ k > arg[t] THEN NoValue
                                 ELSE StoredUnder(k)
      PROVE  Map!Next
  <2>1. Status(t) = "called" /\ Status(t)' = "done" /\ CallBy(t)' = CallBy(t)
    BY <1>6 DEF Status, CallBy
  <2>2. Map!Answered(t, [ret |-> 1, val |-> NoValue])
    BY <1>6, <2>1, Answering
  <2>3. arg[t] \in Key /\ buf[t] \in ValueOf[arg[t]]
    BY <1>6, <1>t, <1>c DEF Holding
  <2>4. Map!Put(t)
    BY <1>6, <2>2, <2>3, Putting
  <2> QED  BY <2>4 DEF Map!Next
<1>7. CASE Write(t)
  <2>1. /\ pc[t] = "write" /\ UNCHANGED <<kind, arg, buf>>
        /\ \/ pc'[t] = "write" /\ todo'[t] # Word
           \/ pc'[t] = "done" /\ ret'[t] = 1
    BY <1>7, WriteCopies
  <2>2. kind[t] = "put"
    BY <2>1, <1>c DEF ControlAt
  <2>3. Effected(t)' /\ pc'[t] # "idle" /\ AnswerTo(t)' = [ret |-> 1, val |-> NoValue]
    BY <2>1, <2>2 DEF Effected, AnswerTo, AnswerOf
  <2>4. /\ StoredUnder(arg[t])' = buf[t] /\ StoredUnder(arg[t]) # NoValue
        /\ todo[t] # Word => StoredUnder(arg[t]) = buf[t]
        /\ \A k \in Key \ {arg[t]} : StoredUnder(k)' = StoredUnder(k)
    BY <1>7, WriteStores
  <2>5. CASE todo[t] = Word
    <3>1. ~Effected(t) /\ pc[t] # "idle"
      BY <2>1, <2>5 DEF Effected
    <3> QED  BY <1>6, <2>1, <2>2, <2>3, <2>4, <3>1
  <2>6. CASE todo[t] # Word
    <3>1. Effected(t) /\ AnswerTo(t) = [ret |-> 1, val |-> NoValue]
      BY <2>1, <2>2, <2>6 DEF Effected, AnswerTo, AnswerOf
    <3>2. SameView(t)
      BY <2>1, <2>3, <3>1 DEF SameView, Status, CallBy
    <3>3. SameStore
      BY <2>1, <2>4, <2>6 DEF SameStore
    <3> QED  BY <3>2, <3>3, <1>s
  <2> QED  BY <2>5, <2>6
<1>8. CASE AllocFails(t)
  <2>1. /\ UNCHANGED <<kind, arg, buf>> /\ pc[t] = "alloc" /\ pc'[t] = "done" /\ ret'[t] = 0
        /\ kind[t] = "put"
    BY <1>8, <1>t, <1>c DEF AllocFails, ControlAt
  <2>2. SameStore
    BY <2>1, <1>k DEF Write, Link, Mark
  <2>3. Status(t) = "called" /\ Status(t)' = "done" /\ CallBy(t)' = CallBy(t)
    BY <2>1 DEF Status, CallBy, Effected
  <2>4. AnswerTo(t)' = [ret |-> 0, val |-> NoValue]
    BY <2>1 DEF AnswerTo, AnswerOf, Effected
  <2>5. Map!Answered(t, [ret |-> 0, val |-> NoValue])
    BY <2>3, <2>4, Answering
  <2>6. StoredUnder(arg[t]) = NoValue
    BY <2>1, <1>a, KeyIsMissing DEF InPlace
  <2>7. /\ CallBy(t) = [op |-> "put", key |-> arg[t], val |-> buf[t]]
        /\ arg[t] \in Key /\ buf[t] \in UNION {ValueOf[k] : k \in Key}
    BY <2>1, <1>t, <1>c DEF CallBy, Holding
  <2>8. Map!PutFails(t)
    BY <2>2, <2>5, <2>6, <2>7
       DEF Map!PutFails, Map!PutCall, Map!Present, Map!NoAnswer, Map!Answers, CallBy, SameStore
  <2> QED  BY <2>8 DEF Map!Next
<1>9. CASE Link(t)
  <2>1. pc[t] = "link" /\ pc'[t] = "done" /\ ret'[t] = 1 /\ UNCHANGED <<kind, arg, buf>>
    BY <1>9, <1>a, LinkCuts DEF Link
  <2>2. kind[t] = "put"
    BY <2>1, <1>c DEF ControlAt
  <2>3. /\ Effected(t)' /\ pc'[t] # "idle" /\ AnswerTo(t)' = [ret |-> 1, val |-> NoValue]
        /\ ~Effected(t) /\ pc[t] # "idle"
    BY <2>1, <2>2 DEF Effected, AnswerTo, AnswerOf
  <2>4. /\ StoredUnder(arg[t]) = NoValue /\ StoredUnder(arg[t])' = buf[t]
        /\ \A k \in Key \ {arg[t]} :
             StoredUnder(k)' = IF k > arg[t] THEN NoValue ELSE StoredUnder(k)
    BY <1>9, LinkStores
  <2> QED  BY <1>6, <2>1, <2>2, <2>3, <2>4
<1>10. CASE Read(t)
  <2>0. pc[t] = "read" /\ UNCHANGED <<kind, arg, val>> /\ kind[t] = "get" /\ curr[t].ptr # NULL
    BY <1>10, <1>c DEF Read, ControlAt
  <2>1. SameStore
    BY <2>0, <1>k DEF Write, Link, Mark
  <2> PICK w \in todo[t] :
         /\ buf'  = [buf EXCEPT ![t][w] = val[curr[t].ptr][w]]
         /\ todo' = [todo EXCEPT ![t] = @ \ {w}]
         /\ IF todo[t] = {w} THEN Finish(t, 1) ELSE UNCHANGED <<pc, ret>>
    BY <1>10 DEF Read
  <2>2. CASE todo[t] # {w}
    <3>1. pc'[t] = "read"
      BY <2>0, <2>2
    <3>2. SameView(t)
      BY <2>0, <3>1 DEF SameView, Status, CallBy, AnswerTo, Effected
    <3> QED  BY <2>1, <3>2, <1>s
  <2>3. CASE todo[t] = {w}
    <3> PICK c : c = curr[t].ptr
      OBVIOUS
    <3>1. pc'[t] = "done" /\ ret'[t] = 1 /\ w \in Word
      BY <2>3, <1>t
    <3>2. c \in Reachable \ {Head} /\ c \in Node /\ key[c] = arg[t]
      BY <2>0, <1>a, <1>c, CurrInList DEF Order
    <3>3. c \in Live
      BY <2>0, <3>2, <1>a DEF Live, OneMark
    <3>4. buf'[t] = val[c]
      <4>1. \A v \in Word : buf'[t][v] = IF v = w THEN val[c][w] ELSE buf[t][v]
        BY <3>1, <1>t
      <4>2. \A v \in Word : buf'[t][v] = val[c][v]
        BY <4>1, <2>0, <2>3, <1>a DEF CopiedSoFar
      <4>3. buf'[t] \in [Word -> Data \cup {Junk}] /\ val[c] \in [Word -> Data \cup {Junk}]
        BY <3>2 DEF IInv, TypeOK
      <4> QED  BY <4>2, <4>3
    <3>5. StoredUnder(arg[t]) = val[c] /\ val[c] \in ValueOf[arg[t]] /\ arg[t] \in Key
      <4>1. ~Copying(t, c) /\ Shown(t, c) = val[c]
        BY <2>0 DEF Shown, Copying
      <4>2. StoredUnder(arg[t]) = Shown(t, c)
        BY <3>2, <3>3, StoredIs
      <4> QED  BY <3>2, <4>1, <4>2, <1>a, <1>t DEF WholeValues
    <3>6. Status(t) = "called" /\ Status(t)' = "done" /\ CallBy(t)' = CallBy(t)
      BY <2>0, <3>1 DEF Status, CallBy, Effected
    <3>7. AnswerTo(t)' = [ret |-> 1, val |-> val[c]]
      BY <2>0, <3>1, <3>4 DEF AnswerTo, AnswerOf, Effected
    <3>8. PICK a : a = [ret |-> 1, val |-> val[c]]
      OBVIOUS
    <3>9. Map!Answered(t, a)
      BY <3>6, <3>7, <3>8, Answering
    <3>10. val[c] # NoValue
      BY <3>5, HarrisMapAssumption
    <3>11. Map!Get(t)
      BY <2>0, <2>1, <3>5, <3>8, <3>9, <3>10, Getting
    <3> QED  BY <3>11 DEF Map!Next
  <2> QED  BY <2>2, <2>3
<1>11. CASE Load(t)
  <2>1. /\ UNCHANGED <<kind, arg, buf>> /\ pc[t] = "load" /\ curr[t].ptr # NULL
    BY <1>11, <1>c DEF Load, ControlAt
  <2>2. ~next[curr[t].ptr].mark
    BY <2>1, <1>a, CurrInList DEF OneMark
  <2>3. pc'[t] = "mark" /\ ret' = ret
    BY <1>11, <2>2, <1>t DEF Load
  <2>4. SameStore
    BY <2>1, <1>k DEF Write, Link, Mark
  <2>5. SameView(t)
    BY <2>1, <2>3 DEF SameView, Status, CallBy, AnswerTo, Effected
  <2> QED  BY <2>4, <2>5, <1>s
<1>12. CASE Mark(t)
  <2>1. pc[t] = "mark" /\ pc'[t] = "unlink" /\ UNCHANGED <<kind, arg, buf, ret>>
    BY <1>12, MarkMarks
  <2>2. kind[t] = "del" /\ arg[t] \in Key
    BY <2>1, <1>c, <1>t DEF ControlAt
  <2>3. Status(t) = "called" /\ Status(t)' = "done" /\ CallBy(t)' = CallBy(t)
    BY <2>1 DEF Status, CallBy, Effected
  <2>4. AnswerTo(t)' = [ret |-> 1, val |-> NoValue]
    BY <2>1, <2>2 DEF AnswerTo, AnswerOf, Effected
  <2>5. Map!Answered(t, [ret |-> 1, val |-> NoValue])
    BY <2>3, <2>4, Answering
  <2>6. /\ StoredUnder(arg[t]) # NoValue /\ StoredUnder(arg[t])' = NoValue
        /\ \A k \in Key \ {arg[t]} : StoredUnder(k)' = StoredUnder(k)
    BY <1>12, MarkStores
  <2>7. Map!Del(t)
    BY <2>1, <2>2, <2>5, <2>6, Deleting
  <2> QED  BY <2>7 DEF Map!Next
<1>13. CASE Unlink(t)
  <2>1. /\ pc[t] = "unlink" /\ pc'[t] = "done" /\ ret'[t] = 1 /\ UNCHANGED <<kind, arg, buf>>
    BY <1>13, <1>a, UnlinkRemoves
  <2>2. kind[t] = "del"
    BY <2>1, <1>c DEF ControlAt
  <2>3. SameStore
    BY <2>1, <1>k DEF Write, Link, Mark
  <2>4. SameView(t)
    BY <2>1, <2>2 DEF SameView, Status, CallBy, AnswerTo, Effected, AnswerOf
  <2> QED  BY <2>3, <2>4, <1>s
<1>14. CASE Return(t)
  <2>1. pc[t] = "done" /\ pc'[t] = "idle" /\ kind'[t] = "none"
    BY <1>14, <1>t DEF Return
  <2>2. SameStore
    BY <2>1, <1>k DEF Write, Link, Mark
  <2>3. /\ Status(t) = "done" /\ Status(t)' = "idle" /\ CallBy(t)' = [op |-> "none"]
        /\ AnswerTo(t)' = [ret |-> 0, val |-> NoValue]
    BY <2>1 DEF Status, CallBy, AnswerTo, Effected
  <2> QED  BY <2>2, <2>3, Returning DEF Map!Next
<1> QED
  BY <1>1, <1>2, <1>3, <1>5, <1>7, <1>8, <1>9, <1>10, <1>11, <1>12, <1>13, <1>14 DEF Work, Find

\* Called by one thread at a time, a bucket of the lock-free maps is the map of KVMap
\* except for the keys that an insertion cuts off: overwriting, get and del are as
\* kv_common.h promises.
THEOREM OneCallerSeesCuttingMap ==
  ASSUME OneCaller
  PROVE  Spec => IsCuttingMap
<1>1. Init => Map!Init
  <2> SUFFICES ASSUME Init PROVE Map!Init
    OBVIOUS
  <2>1. Live = {}
    <3>1. Public = {}
      BY DEF Init, Public
    <3> QED  BY <3>1, InvInit, ListIsWellLinked DEF WellLinked, Live
  <2>2. \A k \in Key : StoredUnder(k) = NoValue
    BY <2>1, StoredNothing
  <2> QED  BY <2>2 DEF Init, Effected, Map!Init, Map!NoCall, Map!NoAnswer, Map!Answers
<1>2. IInv /\ IInv' /\ Alone /\ Alone' /\ [Next]_vars => [Map!Next]_(Map!vars)
  <2> SUFFICES ASSUME IInv, IInv', Alone, Alone', [Next]_vars
               PROVE  Map!Next \/ UNCHANGED Map!vars
    OBVIOUS
  <2>1. CASE Next
    <3> PICK t \in Thread : Begin(t) \/ Work(t)
      BY <2>1 DEF Next
    <3>1. AloneAt(t) /\ AloneAt(t)'
      BY DEF Alone
    <3> QED  BY <3>1, MapStep
  <2>2. CASE UNCHANGED vars
    BY <2>2 DEF vars, Map!vars, StoredUnder, Live, Reachable, Effected, AnswerOf
  <2> QED  BY <2>1, <2>2
<1>3. Spec => Map!Init /\ [][Map!Next]_(Map!vars)
  BY <1>1, <1>2, Invariance, AloneInvariance, PTL DEF Spec
<1> QED  BY <1>3 DEF IsCuttingMap, Map!Spec

=============================================================================
