------------------------- MODULE MapLifecycleProofs -------------------------
(***************************************************************************)
(* MapLifecycle for any implementations, any number of buckets and any     *)
(* memory: what create_impl hands out is whole, destroy_impl and the       *)
(* rollback of create_impl free only what is allocated, and what is left   *)
(* over in the end is what the code is known to leave.                     *)
(*                                                                         *)
(* Where the map is says what there is of it (Stages, Blocks, Sections).   *)
(* That every node is found when the map is taken down, and found once,    *)
(* holds because the nodes that are neither free nor lost are at all times *)
(* the cells of separate threads, one for each bucket (Forest): lists      *)
(* without a cell that two others lead to.  Every call changes one thread. *)
(***************************************************************************)
EXTENDS MapLifecycle, SharedLemmas

-----------------------------------------------------------------------------
(* Threads                                                                 *)

\* A list whose first cell nothing leads to, and no later one is led to twice.
IsThread(N, f, nil, x) ==
  /\ IsList(N, f, nil, x)
  /\ \A q \in Reach(N, f, nil, x) : f[q] # x
  /\ \A q, r \in Reach(N, f, nil, x) : f[q] = f[r] /\ f[q] # nil => q = r

\* No cell of a thread leads to itself.
LEMMA NoLoop ==
  ASSUME NEW N, NEW f, NEW nil, NEW x, IsThread(N, f, nil, x),
         NEW c \in Reach(N, f, nil, x)
  PROVE  f[c] # c
<1> DEFINE R == Reach(N, f, nil, x)
<1>1. R \subseteq N /\ x \in R \cup {nil} /\ Closed(f, nil, R) /\ nil \notin N
  BY ReachIsClosed DEF IsThread, IsList
<1> SUFFICES ASSUME f[c] = c PROVE FALSE
  OBVIOUS
<1>2. x # c /\ x \in (R \ {c}) \cup {nil} /\ R \ {c} \in SUBSET N
  BY <1>1 DEF IsThread
<1>3. Closed(f, nil, R \ {c})
  BY <1>1 DEF Closed, IsThread
<1>4. R \subseteq R \ {c}
  BY <1>2, <1>3, ReachIsLeast
<1> QED  BY <1>4

\* A later cell of a list is led to from within the list.
LEMMA HasPred ==
  ASSUME NEW N, NEW f, NEW nil, NEW x, IsList(N, f, nil, x),
         NEW c \in Reach(N, f, nil, x), c # x
  PROVE  \E q \in Reach(N, f, nil, x) : f[q] = c
<1> DEFINE R == Reach(N, f, nil, x)
<1>1. R \subseteq N /\ x \in R \cup {nil} /\ Closed(f, nil, R)
  BY ReachIsClosed
<1> SUFFICES ASSUME \A q \in R : f[q] # c PROVE FALSE
  OBVIOUS
<1>2. x \in (R \ {c}) \cup {nil} /\ R \ {c} \in SUBSET N /\ Closed(f, nil, R \ {c})
  BY <1>1 DEF Closed
<1>3. R \subseteq R \ {c}
  BY <1>2, ReachIsLeast
<1> QED  BY <1>3

\* A new first cell.
LEMMA ThreadFront ==
  ASSUME NEW N, NEW f, NEW g, NEW nil, NEW x, IsThread(N, f, nil, x),
         \A m \in N : g[m] \in N \cup {nil},
         NEW c \in N, c \notin Reach(N, f, nil, x), g[c] = x,
         \A m \in Reach(N, f, nil, x) : g[m] = f[m]
  PROVE  IsThread(N, g, nil, c) /\ Reach(N, g, nil, c) = Reach(N, f, nil, x) \cup {c}
<1> DEFINE R == Reach(N, f, nil, x)
<1>1. R \subseteq N /\ x \in R \cup {nil} /\ Closed(f, nil, R) /\ nil \notin N
  BY ReachIsClosed DEF IsThread, IsList
<1>2. IsList(N, f, nil, x) /\ IsList(N, g, nil, x) /\ IsList(N, g, nil, c)
  BY DEF IsThread, IsList
<1>3. Reach(N, g, nil, x) = R
  BY <1>2, ReachSame
<1>4. Reach(N, g, nil, c) = R \cup {c}
  BY <1>2, <1>3, ReachOneMore
<1> QED  BY <1>1, <1>2, <1>4 DEF IsThread, Closed

\* From f to g a thread changes at cell q only.
ChangesAt(N, f, g, nil, x, q) ==
  /\ IsThread(N, f, nil, x)
  /\ \A m \in N : g[m] \in N \cup {nil}
  /\ q \in Reach(N, f, nil, x)
  /\ \A m \in Reach(N, f, nil, x) : m # q => g[m] = f[m]

\* A new cell behind another.
LEMMA ThreadBehind ==
  ASSUME NEW N, NEW f, NEW g, NEW nil, NEW x, NEW q, ChangesAt(N, f, g, nil, x, q),
         NEW c \in N, c \notin Reach(N, f, nil, x), g[q] = c, g[c] = f[q]
  PROVE  IsThread(N, g, nil, x) /\ Reach(N, g, nil, x) = Reach(N, f, nil, x) \cup {c}
<1> USE DEF ChangesAt
<1> DEFINE R == Reach(N, f, nil, x)
<1>1. R \subseteq N /\ x \in R \cup {nil} /\ Closed(f, nil, R) /\ nil \notin N
  BY ReachIsClosed DEF IsThread, IsList
<1>2. IsList(N, f, nil, x) /\ IsList(N, g, nil, x)
  BY DEF IsThread, IsList
<1>3. Reach(N, g, nil, x) = R \cup {c}
  BY <1>2, ReachInsert
<1> QED  BY <1>1, <1>2, <1>3 DEF IsThread, Closed

\* A cell is passed over.
LEMMA ThreadSkip ==
  ASSUME NEW N, NEW f, NEW g, NEW nil, NEW x, NEW q, ChangesAt(N, f, g, nil, x, q),
         NEW c \in N, f[q] = c, g[q] = f[c]
  PROVE  IsThread(N, g, nil, x) /\ Reach(N, g, nil, x) = Reach(N, f, nil, x) \ {c}
<1> USE DEF ChangesAt
<1> DEFINE R == Reach(N, f, nil, x)
<1>1. R \subseteq N /\ x \in R \cup {nil} /\ Closed(f, nil, R) /\ nil \notin N
  BY ReachIsClosed DEF IsThread, IsList
<1>2. IsList(N, f, nil, x) /\ IsList(N, g, nil, x)
  BY DEF IsThread, IsList
<1>3. c \in R /\ q # c /\ x # c /\ f[c] # c /\ \A m \in R : f[m] = c => m = q
  BY <1>1, NoLoop DEF IsThread, Closed
<1>4. Reach(N, g, nil, x) = R \ {c}
  BY <1>2, <1>3, ReachRemove
<1> HIDE DEF R
<1>5. \A m \in R \ {c} : g[m] # x
  BY <1>1, <1>3 DEF IsThread, R
<1>6. \A m, r \in R \ {c} : g[m] = g[r] /\ g[m] # nil => m = r
  BY <1>1, <1>3 DEF IsThread, R
<1> QED  BY <1>2, <1>4, <1>5, <1>6 DEF IsThread, R

\* The first cell is passed over; what it holds then does not matter.
LEMMA ThreadBehead ==
  ASSUME NEW N, NEW f, NEW g, NEW nil, NEW x \in N, IsThread(N, f, nil, x),
         \A m \in N : g[m] \in N \cup {nil},
         \A m \in Reach(N, f, nil, x) : m # x => g[m] = f[m]
  PROVE  /\ x \in Reach(N, f, nil, x)
         /\ IsThread(N, g, nil, f[x]) /\ Reach(N, g, nil, f[x]) = Reach(N, f, nil, x) \ {x}
<1> DEFINE R == Reach(N, f, nil, x)
<1>1. R \subseteq N /\ x \in R /\ Closed(f, nil, R) /\ nil \notin N
  BY ReachIsClosed DEF IsThread, IsList
<1>2. IsList(N, f, nil, x) /\ IsList(N, f, nil, f[x]) /\ IsList(N, g, nil, f[x])
  BY DEF IsThread, IsList
<1>3. Reach(N, f, nil, f[x]) = R \ {x}
  BY <1>2, ReachTail DEF IsThread
<1>4. Reach(N, g, nil, f[x]) = R \ {x}
  BY <1>2, <1>3, ReachSame
<1> HIDE DEF R
<1>5. \A m \in R \ {x} : g[m] # f[x]
  <2>1. CASE f[x] = nil
    <3>1. R \ {x} = {}
      BY <1>1, <1>3, <2>1, ReachNothing
    <3> QED  BY <3>1
  <2>2. CASE f[x] # nil
    BY <1>1, <2>2 DEF IsThread, R
  <2> QED  BY <2>1, <2>2
<1>6. \A m, r \in R \ {x} : g[m] = g[r] /\ g[m] # nil => m = r
  BY DEF IsThread, R
<1> QED  BY <1>1, <1>2, <1>4, <1>5, <1>6 DEF IsThread, R

\* From f to g what follows q is no longer reached, and all else is.
TailIsCut(N, f, g, nil, x, q) ==
  /\ IsThread(N, g, nil, x) /\ q \in Reach(N, g, nil, x)
  /\ Reach(N, f, nil, f[q]) \subseteq Reach(N, f, nil, x)
  /\ Reach(N, g, nil, x) = Reach(N, f, nil, x) \ Reach(N, f, nil, f[q])

\* A thread is cut off behind a cell.
LEMMA ThreadCut ==
  ASSUME NEW N, NEW f, NEW g, NEW nil, NEW x, NEW q, ChangesAt(N, f, g, nil, x, q), g[q] = nil
  PROVE  TailIsCut(N, f, g, nil, x, q)
<1> PICK t : t = f[q]
  OBVIOUS
<1> USE DEF ChangesAt
<1> DEFINE R == Reach(N, f, nil, x)
           T == Reach(N, f, nil, t)
           Q == Reach(N, g, nil, x)
<1>1. R \subseteq N /\ x \in R /\ Closed(f, nil, R) /\ nil \notin N
  <2>1. R \subseteq N /\ x \in R \cup {nil} /\ Closed(f, nil, R) /\ nil \notin N
    BY ReachIsClosed DEF IsThread, IsList
  <2>2. x # nil
    BY <2>1, ReachNothing
  <2> QED  BY <2>1, <2>2
<1>2. IsList(N, f, nil, x) /\ IsList(N, g, nil, x) /\ IsList(N, f, nil, t)
  BY <1>1 DEF IsThread, IsList
<1>3. T \subseteq N /\ t \in T \cup {nil} /\ Closed(f, nil, T)
  BY <1>2, ReachIsClosed
<1>4. T \subseteq R
  <2>1. t \in R \cup {nil}
    BY <1>1 DEF Closed
  <2> QED  BY <1>1, <2>1, ReachIsLeast
<1>5. Q \subseteq N /\ x \in Q \cup {nil} /\ Closed(g, nil, Q)
  BY <1>2, ReachIsClosed
<1>6. \A c \in T : c # t => \E m \in T : f[m] = c
  BY <1>2, HasPred
<1> HIDE DEF T, Q
<1>7. x \notin T
  <2>1. x # t
    BY DEF IsThread
  <2> QED  BY <1>4, <1>6, <2>1 DEF IsThread
<1> HIDE DEF R
<1>8. \A m \in R \ T : f[m] \in T => m = q
  <2> SUFFICES ASSUME NEW m \in R \ T, f[m] \in T PROVE m = q
    OBVIOUS
  <2>1. CASE f[m] = t
    BY <1>1, <1>3, <2>1 DEF IsThread, R
  <2>2. CASE f[m] # t
    <3> PICK r \in T : f[r] = f[m]
      BY <1>6, <2>2
    <3> QED  BY <1>1, <1>3, <1>4 DEF IsThread, R
  <2> QED  BY <2>1, <2>2
<1>9. q \notin T
  <2> SUFFICES ASSUME q \in T PROVE FALSE
    OBVIOUS
  <2>1. Closed(f, nil, R \ T)
    BY <1>1, <1>8 DEF Closed
  <2>2. R \subseteq R \ T
    BY <1>1, <1>7, <2>1, ReachIsLeast DEF R
  <2> QED  BY <2>2 DEF R
<1>10. Q \subseteq R \ T
  <2>1. Closed(g, nil, R \ T)
    BY <1>1, <1>8 DEF Closed, R
  <2> QED  BY <1>1, <1>7, <2>1, ReachIsLeast DEF Q
<1>11. R \subseteq Q \cup T
  <2>1. Closed(f, nil, Q \cup T)
    BY <1>3, <1>5, <1>10 DEF Closed, R
  <2> QED  BY <1>1, <1>3, <1>5, <2>1, ReachIsLeast DEF R
<1>12. Q = R \ T
  BY <1>10, <1>11
<1>13. IsThread(N, g, nil, x)
  <2>1. \A m \in Q : g[m] # x
    BY <1>1, <1>12 DEF IsThread, R
  <2>2. \A m, r \in Q : g[m] = g[r] /\ g[m] # nil => m = r
    BY <1>12 DEF IsThread, R
  <2> QED  BY <1>2, <2>1, <2>2 DEF IsThread, Q
<1> QED  BY <1>4, <1>9, <1>12, <1>13 DEF Q, R, T, TailIsCut

-----------------------------------------------------------------------------
(* Forests                                                                 *)

\* The cells of live are those of separate threads, the one of b from root[b] on.
Forest(N, f, nil, B, root, live) ==
  /\ \A b \in B : IsThread(N, f, nil, root[b])
  /\ \A b \in B : Reach(N, f, nil, root[b]) \subseteq live
  /\ \A b, c \in B : b # c => Reach(N, f, nil, root[b]) \cap Reach(N, f, nil, root[c]) = {}
  /\ \A m \in live : \E b \in B : m \in Reach(N, f, nil, root[b])

\* A forest of which one thread changes.
LEMMA ForestChange ==
  ASSUME NEW N, NEW f, NEW g, NEW nil, NEW B, NEW root, NEW first, NEW live, NEW more,
         Forest(N, f, nil, B, root, live),
         \A m \in N : g[m] \in N \cup {nil},
         NEW b \in B, IsThread(N, g, nil, first[b]),
         \A c \in B \ {b} : first[c] = root[c],
         \A m \in live \ Reach(N, f, nil, root[b]) : g[m] = f[m],
         more = (live \ Reach(N, f, nil, root[b])) \cup Reach(N, g, nil, first[b]),
         Reach(N, g, nil, first[b]) \cap (live \ Reach(N, f, nil, root[b])) = {}
  PROVE  Forest(N, g, nil, B, first, more)
<1>1. ASSUME NEW c \in B \ {b}
      PROVE  Reach(N, g, nil, first[c]) = Reach(N, f, nil, root[c]) /\ IsThread(N, g, nil, first[c])
  <2> DEFINE C == Reach(N, f, nil, root[c])
  <2>1. first[c] = root[c] /\ IsThread(N, f, nil, root[c])
    BY DEF Forest
  <2>2. C \subseteq live \ Reach(N, f, nil, root[b])
    BY DEF Forest
  <2>3. IsList(N, f, nil, root[c]) /\ IsList(N, g, nil, root[c])
    BY <2>1 DEF IsThread, IsList
  <2>4. \A m \in C : g[m] = f[m]
    BY <2>2
  <2>5. Reach(N, g, nil, root[c]) = C
    BY <2>3, <2>4, ReachSame
  <2> HIDE DEF C
  <2>6. IsThread(N, g, nil, root[c])
    BY <2>1, <2>3, <2>4, <2>5 DEF IsThread, C
  <2> QED  BY <2>1, <2>5, <2>6 DEF C
<1> DEFINE C == [c \in B |-> Reach(N, f, nil, root[c])]
           D == [c \in B |-> Reach(N, g, nil, first[c])]
<1>2. \A c \in B \ {b} : D[c] = C[c]
  BY <1>1
<1>3. /\ \A c \in B : C[c] \subseteq live
      /\ \A c, d \in B : c # d => C[c] \cap C[d] = {}
      /\ \A m \in live : \E c \in B : m \in C[c]
  BY DEF Forest
<1>4. more = (live \ C[b]) \cup D[b] /\ D[b] \cap (live \ C[b]) = {}
  OBVIOUS
<1> HIDE DEF C, D
<1>5. \A c \in B : D[c] \subseteq more
  BY <1>2, <1>3, <1>4
<1>6. \A c, d \in B : c # d => D[c] \cap D[d] = {}
  BY <1>2, <1>3, <1>4
<1>7. \A m \in more : \E c \in B : m \in D[c]
  BY <1>2, <1>3, <1>4
<1>8. \A c \in B : IsThread(N, g, nil, first[c])
  BY <1>1
<1> QED  BY <1>5, <1>6, <1>7, <1>8 DEF Forest, D

\* A forest without a cell.
LEMMA ForestOfNothing ==
  ASSUME NEW N, NEW f, NEW nil, NEW B, NEW root,
         nil \notin N, \A m \in N : f[m] \in N \cup {nil}, \A b \in B : root[b] = nil
  PROVE  Forest(N, f, nil, B, root, {})
<1>1. \A b \in B : Reach(N, f, nil, root[b]) = {} /\ IsList(N, f, nil, root[b])
  BY ReachNothing DEF IsList
<1> QED  BY <1>1 DEF Forest, IsThread

-----------------------------------------------------------------------------
(* Where the map is                                                        *)

\* The places of destroy_impl and the rollback.
TakingDown == {"bucket", "walk", "free"}

\* How far the loops are, and which heads there are.  A rollback stops before the
\* bucket whose sentinel could not be had.
Stages ==
  /\ pc \in {"map", "arrays"} => i = 0 /\ ~made /\ \A b \in Bucket : head[b] = Junk
  /\ pc \notin {"map", "arrays", "gone"} => \A b \in Bucket : head[b] # Junk
  /\ pc = "fill" => ~made /\ \A b \in Bucket : head[b] = NULL <=> (b >= i \/ ~HasSentinels)
  /\ pc = "use" => made /\ \A b \in Bucket : HasSentinels => head[b] # NULL
  /\ pc \in TakingDown =>
       i <= end /\ IF made THEN end = n ELSE HasSentinels /\ end < n /\ head[end] = NULL
  /\ pc \in {"walk", "free"} => i < end
  /\ pc = "free" => p # NULL /\ nx = next[p].ptr

Blocks ==
  blocks = IF pc \in {"map", "gone"} THEN {} ELSE IF pc = "arrays" THEN {"map"} ELSE {"map"} \cup Arrays

\* Only the lock-free maps lose nodes, and only while they are used.
Losses == lost # {} => impl \in LockFree /\ made

\* The critical sections that are there.
Sections ==
  /\ ~HasSections \/ pc \in {"map", "arrays"} => section = {}
  /\ HasSections =>
       /\ pc = "fill" => section = {b \in Bucket : b < i}
       /\ pc = "use" => section = Bucket
       /\ pc \in TakingDown => section = {b \in Bucket : i <= b /\ b <= end}
       /\ pc = "gone" => section = {b \in Bucket : impl = "skiplock" /\ ~made /\ b = end /\ head[b] = NULL}

AInv == TypeOK /\ Stages /\ Blocks /\ Losses /\ Sections

LEMMA CellsAreNodes ==
  ASSUME NEW b
  PROVE  Cells(b) \subseteq Node /\ Items(b) \subseteq Cells(b)
  BY DEF Cells, From, Reach, Items

LEMMA StagesInit == Init => AInv
<1> SUFFICES ASSUME Init PROVE AInv
  OBVIOUS
<1>1. n \in Nat \ {0}
  BY LifecycleAssumption DEF Init, Buckets
<1>2. TypeOK
  <2>1. head \in [Bucket -> Node \cup {NULL, Junk}]
    BY DEF Init
  <2>2. next \in [Node -> [ptr : Node \cup {NULL}, mark : BOOLEAN]]
    BY DEF Init, Plain
  <2>3. impl \in Impl /\ i \in 0 .. n /\ end \in 0 .. n /\ {p, nx} \subseteq Node \cup {NULL}
    BY <1>1 DEF Init
  <2>4. blocks = {} /\ section = {} /\ nodes = {} /\ lost = {} /\ made = FALSE /\ pc = "map"
    BY DEF Init
  <2> QED  BY <1>1, <2>1, <2>2, <2>3, <2>4 DEF TypeOK
<1> QED  BY <1>2, LifecycleAssumption DEF Init, AInv, Stages, Blocks, Losses, Sections, TakingDown

LEMMA StagesCreate ==
  ASSUME AInv, Create
  PROVE  AInv'
<1> USE LifecycleAssumption DEF AInv, TypeOK, Bucket
<1>1. CASE NewMap
  BY <1>1 DEF NewMap, Stages, Blocks, Losses, Sections, TakingDown, Arrays, HasSentinels, HasSections
<1>2. CASE NewArrays
  <2> PICK got \in SUBSET Arrays :
         IF got = Arrays
         THEN /\ blocks' = blocks \cup got
              /\ head' = [b \in Bucket |-> NULL]
              /\ pc' = "fill"
         ELSE /\ blocks' = (blocks \cup got) \ Returned(got)
              /\ pc' = "gone"
              /\ UNCHANGED head
    BY <1>2 DEF NewArrays
  <2>1. pc = "arrays" /\ UNCHANGED <<impl, n, made, section, nodes, next, lost, i, end, p, nx>>
    BY <1>2 DEF NewArrays
  <2>2. section = {} /\ i = 0 /\ ~made /\ blocks = {"map"} /\ \A b \in Bucket : head[b] # NULL
    BY <2>1 DEF Stages, Sections, Blocks
  <2>3. CASE got = Arrays
    BY <2>1, <2>2, <2>3 DEF Stages, Blocks, Losses, Sections, TakingDown, Arrays, HasSentinels, HasSections
  <2>4. CASE got # Arrays
    <3>1. blocks' = {} /\ pc' = "gone" /\ head' = head
      BY <2>2, <2>4 DEF Returned
    <3>2. {b \in Bucket : impl = "skiplock" /\ ~made /\ b = end /\ head[b] = NULL} = {}
      BY <2>2
    <3>3. Stages' /\ Blocks' /\ Losses' /\ TypeOK'
      BY <2>1, <3>1 DEF Stages, Blocks, Losses, TakingDown
    <3>4. Sections'
      BY <2>1, <2>2, <3>1, <3>2 DEF Sections, HasSections, TakingDown
    <3> QED  BY <3>3, <3>4
  <2> QED  BY <2>3, <2>4
<1>3. CASE Created
  <2>1. TypeOK'
    BY <1>3 DEF Created, store
  <2>2. Stages'
    BY <1>3 DEF Created, AllFilled, store, Stages, HasSentinels, TakingDown
  <2>3. Blocks' /\ Losses'
    BY <1>3 DEF Created, store, Blocks, Arrays, Losses
  <2>4. Sections'
    <3>1. {b \in Bucket : b < i} = Bucket
      BY <1>3 DEF Created, AllFilled
    <3> QED  BY <1>3, <3>1 DEF Created, store, Sections, HasSections, TakingDown
  <2> QED  BY <2>1, <2>2, <2>3, <2>4
<1>4. CASE Fill
  <2>0. i < n /\ pc = "fill" /\ pc' = "fill" /\ i' = i + 1 /\ UNCHANGED <<impl, n, made, blocks, lost, end, p, nx>>
    BY <1>4 DEF Fill, AllFilled
  <2>1. section' = IF HasSections THEN section \cup {i} ELSE section
    BY <1>4 DEF Fill
  <2>2. /\ nodes' \subseteq Node /\ head' \in [Bucket -> Node \cup {NULL, Junk}]
        /\ next' \in [Node -> [ptr : Node \cup {NULL}, mark : BOOLEAN]]
        /\ \A b \in Bucket : head'[b] = NULL <=> (b >= i + 1 \/ ~HasSentinels)
        /\ \A b \in Bucket : head'[b] # Junk
    <3>1. CASE HasSentinels
      <4> PICK x \in Node \ nodes : /\ nodes' = nodes \cup {x}
                                   /\ next' = [next EXCEPT ![x] = Plain(NULL)]
                                   /\ head' = [head EXCEPT ![i] = x]
        BY <1>4, <3>1 DEF Fill
      <4>1. next' \in [Node -> [ptr : Node \cup {NULL}, mark : BOOLEAN]]
        BY DEF Plain
      <4>2. \A b \in Bucket : head'[b] = IF b = i THEN x ELSE head[b]
        OBVIOUS
      <4>3. \A b \in Bucket : (b >= i + 1) <=> (b >= i /\ b # i)
        BY <2>0
      <4> QED  BY <2>0, <3>1, <4>1, <4>2, <4>3 DEF Stages
    <3>2. CASE ~HasSentinels
      BY <1>4, <2>0, <3>2 DEF Fill, Stages
    <3> QED  BY <3>1, <3>2
  <2>3. TypeOK'
    BY <2>0, <2>1, <2>2
  <2>4. Stages'
    BY <2>0, <2>2 DEF Stages, HasSentinels, TakingDown
  <2>5. Blocks' /\ Losses'
    BY <2>0 DEF Blocks, Arrays, Losses
  <2>6. Sections'
    BY <2>0, <2>1 DEF Sections, HasSections, TakingDown
  <2> QED  BY <2>3, <2>4, <2>5, <2>6
<1>5. CASE FillFails
  <2>0. /\ i < n /\ pc = "fill" /\ pc' = "bucket" /\ i' = 0 /\ end' = i /\ HasSentinels
        /\ section' = IF HasSections THEN section \cup {i} ELSE section
        /\ UNCHANGED <<impl, n, made, blocks, head, nodes, next, lost, p, nx>>
    BY <1>5 DEF FillFails, AllFilled, Before
  <2>1. TypeOK'
    BY <2>0
  <2>2. Stages'
    BY <2>0 DEF Stages, HasSentinels, TakingDown
  <2>3. Blocks' /\ Losses'
    BY <2>0 DEF Blocks, Arrays, Losses
  <2>4. Sections'
    BY <2>0 DEF Sections, HasSections, TakingDown
  <2> QED  BY <2>1, <2>2, <2>3, <2>4
<1> QED  BY <1>1, <1>2, <1>3, <1>4, <1>5 DEF Create

\* A call changes neither the map's blocks nor its critical sections.
LEMMA StagesUse ==
  ASSUME AInv, NEW b \in Bucket, PutNew(b) \/ DelLocked(b) \/ Mark(b) \/ Snip(b)
  PROVE  AInv'
<1> USE LifecycleAssumption DEF AInv
<1>1. /\ pc = "use" /\ UNCHANGED <<impl, n, pc, made, blocks, section, i, end, p, nx>>
      /\ nodes' \subseteq Node /\ lost' \subseteq Node
      /\ impl \notin LockFree => lost' = lost
      /\ next' \in [Node -> [ptr : Node \cup {NULL}, mark : BOOLEAN]]
      /\ head' \in [Bucket -> Node \cup {NULL, Junk}]
      /\ \A c \in Bucket : head'[c] # Junk /\ (HasSentinels => head'[c] # NULL)
  <2> USE DEF TypeOK, Stages, Plain
  <2>1. Cells(b) \subseteq Node /\ Items(b) \subseteq Cells(b) /\ (HasSentinels => head[b] \notin Items(b))
    BY CellsAreNodes DEF Items
  <2>2. CASE PutNew(b)
    <3>1. Places(b) \subseteq Node /\ \A x : From(x) \subseteq Node
      BY <2>1 DEF Places, From, Reach
    <3> PICK x \in Node \ nodes : 
         /\ nodes' = nodes \cup {x}
         /\ IF HasSentinels
            THEN \E q \in Places(b) :
                   LET after == IF impl \in LockFree THEN Plain(NULL) ELSE next[q]
                   IN  /\ next' = [next EXCEPT ![x] = after, ![q] = Plain(x)]
                       /\ lost' = IF impl \in LockFree THEN lost \cup From(next[q].ptr) ELSE lost
                       /\ UNCHANGED head
            ELSE /\ next' = [next EXCEPT ![x] = Plain(head[b])]
                 /\ head' = [head EXCEPT ![b] = x]
                 /\ UNCHANGED lost
      BY <2>2 DEF PutNew
    <3>2. pc = "use" /\ UNCHANGED <<impl, n, pc, made, blocks, section, i, end, p, nx>>
      BY <2>2 DEF PutNew
    <3>3. CASE HasSentinels
      <4> PICK q \in Places(b) :
             LET after == IF impl \in LockFree THEN Plain(NULL) ELSE next[q]
             IN  /\ next' = [next EXCEPT ![x] = after, ![q] = Plain(x)]
                 /\ lost' = IF impl \in LockFree THEN lost \cup From(next[q].ptr) ELSE lost
                 /\ UNCHANGED head
        BY <3>3
      <4>1. q \in Node /\ From(next[q].ptr) \subseteq Node
        BY <3>1
      <4>2. (IF impl \in LockFree THEN Plain(NULL) ELSE next[q]) \in [ptr : Node \cup {NULL}, mark : BOOLEAN]
        BY <4>1
      <4>3. next' \in [Node -> [ptr : Node \cup {NULL}, mark : BOOLEAN]]
        BY <4>1, <4>2
      <4> HIDE DEF From
      <4>4. lost' \subseteq Node /\ (impl \notin LockFree => lost' = lost)
        BY <4>1
      <4>5. nodes' \subseteq Node /\ head' = head
        OBVIOUS
      <4>6. \A c \in Bucket : head'[c] # Junk /\ (HasSentinels => head'[c] # NULL)
        BY <3>2, <4>5
      <4> QED  BY <3>2, <4>3, <4>4, <4>5, <4>6
    <3>4. CASE ~HasSentinels
      <4>1. impl \notin LockFree
        BY <3>4 DEF HasSentinels, Chained, LockFree
      <4>2. next' \in [Node -> [ptr : Node \cup {NULL}, mark : BOOLEAN]]
        <5>1. head[b] \in Node \cup {NULL}
          BY <3>2
        <5>2. Plain(head[b]) \in [ptr : Node \cup {NULL}, mark : BOOLEAN]
          BY <5>1
        <5>3. next' = [next EXCEPT ![x] = Plain(head[b])]
          BY <3>4
        <5> HIDE DEF Plain
        <5> QED  BY <5>2, <5>3
      <4> QED  BY <3>2, <3>4, <4>1, <4>2
    <3> QED  BY <3>3, <3>4
  <2>6. ASSUME NEW x \in Items(b), Bypass(b, x)
        PROVE  /\ next' \in [Node -> [ptr : Node \cup {NULL}, mark : BOOLEAN]]
               /\ head' \in [Bucket -> Node \cup {NULL, Junk}]
               /\ pc = "use" => \A c \in Bucket : head'[c] # Junk /\ (HasSentinels => head'[c] # NULL)
    <3>1. x \in Node /\ next[x].ptr \in Node \cup {NULL} /\ next[x].ptr # Junk
      BY <2>1
    <3>2. CASE head[b] = x
      <4>1. ~HasSentinels /\ head' = [head EXCEPT ![b] = next[x].ptr] /\ next' = next
        BY <2>1, <2>6, <3>2 DEF Bypass
      <4> QED  BY <3>1, <4>1
    <3>3. CASE head[b] # x
      <4> PICK q \in Cells(b) : next' = [next EXCEPT ![q] = Plain(next[x].ptr)]
        BY <2>6, <3>3 DEF Bypass
      <4>1. head' = head /\ q \in Node
        BY <2>1, <2>6, <3>3 DEF Bypass
      <4> QED  BY <3>1, <4>1
    <3> QED  BY <3>2, <3>3
  <2>3. CASE DelLocked(b)
    BY <2>1, <2>3, <2>6 DEF DelLocked
  <2>4. CASE Mark(b)
    <3> PICK x \in Items(b) : next' = [next EXCEPT ![x].mark = TRUE]
      BY <2>4 DEF Mark
    <3>1. next' \in [Node -> [ptr : Node \cup {NULL}, mark : BOOLEAN]]
      <4>1. x \in Node /\ next[x] \in [ptr : Node \cup {NULL}, mark : BOOLEAN]
        BY <2>1
      <4>2. [next[x] EXCEPT !.mark = TRUE] \in [ptr : Node \cup {NULL}, mark : BOOLEAN]
        BY <4>1
      <4> PICK v : v = [next[x] EXCEPT !.mark = TRUE]
        OBVIOUS
      <4>3. next' = [next EXCEPT ![x] = v]
        OBVIOUS
      <4> DEFINE RS == [ptr : Node \cup {NULL}, mark : BOOLEAN]
      <4>4. v \in RS /\ next \in [Node -> RS]
        BY <4>2
      <4> HIDE DEF RS
      <4>5. next' \in [Node -> RS]
        BY <4>1, <4>3, <4>4
      <4> QED  BY <4>5 DEF RS
    <3> QED  BY <2>4, <3>1 DEF Mark
  <2>5. CASE Snip(b)
    BY <2>1, <2>5, <2>6 DEF Snip
  <2> QED  BY <2>2, <2>3, <2>4, <2>5
<1>2. UNCHANGED <<Bucket, HasSentinels, HasSections, Arrays>>
  BY <1>1 DEF Bucket, HasSentinels, HasSections, Arrays
<1>3. TypeOK'
  BY <1>1, <1>2 DEF TypeOK
<1>4. Stages'
  BY <1>1, <1>2 DEF Stages, TakingDown
<1>5. Blocks' /\ Losses'
  BY <1>1, <1>2 DEF Blocks, Losses, Stages
<1>6. Sections'
  BY <1>1, <1>2 DEF Sections
<1> QED  BY <1>3, <1>4, <1>5, <1>6

LEMMA StagesDown ==
  ASSUME AInv, Destroy \/ TearDown
  PROVE  AInv'
<1> USE LifecycleAssumption DEF AInv, TypeOK, Bucket
<1>1. CASE Destroy
  <2>1. TypeOK' /\ Stages'
    BY <1>1 DEF Destroy, store, Stages, TakingDown
  <2>2. Blocks' /\ Losses' /\ Sections'
    BY <1>1 DEF Destroy, store, Blocks, Losses, Sections, Arrays, HasSections, TakingDown
  <2> QED  BY <2>1, <2>2
<1>2. CASE Enter
  BY <1>2 DEF Enter, store, Stages, Blocks, Losses, Sections, TakingDown, Arrays, HasSentinels, HasSections
<1>3. CASE Load
  BY <1>3 DEF Load, Unwrap, store, Stages, Blocks, Losses, Sections, TakingDown, Arrays, HasSentinels,
              HasSections
<1>4. CASE FreeNode
  BY <1>4 DEF FreeNode, Onward, Plain, Stages, Blocks, Losses, Sections, TakingDown, Arrays, HasSentinels,
              HasSections
<1>5. CASE LeaveBucket
  BY <1>5 DEF LeaveBucket, Deleted, Stages, Blocks, Losses, Sections, TakingDown, Arrays, HasSentinels,
              HasSections
<1>6. CASE FreeMap
  <2>1. TypeOK' /\ Stages'
    BY <1>6 DEF FreeMap, Stages, TakingDown, Arrays
  <2>2. Blocks' /\ Losses'
    BY <1>6 DEF FreeMap, Blocks, Losses, Arrays
  <2>3. i = end /\ pc' = "gone" /\ UNCHANGED <<impl, n, made, head, section, end>>
    BY <1>6 DEF FreeMap, Stages, TakingDown
  <2>4. ASSUME made PROVE Sections'
    BY <1>6, <2>3, <2>4 DEF FreeMap, Stages, Sections, HasSections, TakingDown
  <2>5. ASSUME ~made PROVE Sections'
    <3>1. end \in Bucket /\ head[end] = NULL /\ HasSentinels
      BY <1>6, <2>5 DEF FreeMap, Stages, TakingDown
    <3>2. HasSections => impl = "skiplock"
      BY <3>1 DEF HasSections, HasSentinels, Chained
    <3> QED  BY <1>6, <2>1, <2>2, <2>3, <2>5, <3>1, <3>2 DEF FreeMap, Sections, HasSections, TakingDown
  <2>6. Sections'
    BY <2>4, <2>5
  <2> QED  BY <2>1, <2>2, <2>6
<1> QED  BY <1>1, <1>2, <1>3, <1>4, <1>5, <1>6 DEF TearDown

LEMMA StagesNext == AInv /\ [Next]_vars => AInv'
<1> SUFFICES ASSUME AInv, [Next]_vars PROVE AInv'
  OBVIOUS
<1>1. CASE Next
  BY <1>1, StagesCreate, StagesUse, StagesDown DEF Next, Use
<1>2. CASE UNCHANGED vars
  BY <1>2 DEF vars, store, AInv, TypeOK, Stages, Blocks, Losses, Sections, TakingDown, Bucket, Arrays,
              HasSentinels, HasSections
<1> QED  BY <1>1, <1>2

LEMMA StagesInvariance == Spec => []AInv
  BY StagesInit, StagesNext, PTL DEF Spec

-----------------------------------------------------------------------------
(* The nodes                                                               *)

\* Where the next pointers lead.
ptrs == [y \in Node |-> next[y].ptr]

\* The first cell of each bucket that has not been freed.
Roots ==
  [b \in Bucket |->
    IF pc \in {"map", "arrays", "gone"} THEN NULL
    ELSE IF pc \in {"walk", "free"} /\ b = i THEN p
    ELSE IF pc \in TakingDown /\ (b < i \/ b >= end) THEN NULL
    ELSE head[b]]

\* What is allocated and not lost is what the buckets lead to.
FInv == lost \subseteq nodes /\ Forest(Node, ptrs, NULL, Bucket, Roots, nodes \ lost)

LEMMA FromIs ==
  ASSUME NEW x
  PROVE  From(x) = Reach(Node, ptrs, NULL, x)
  BY DEF From, ptrs

LEMMA ForestInit == Init => FInv
<1> SUFFICES ASSUME Init PROVE FInv
  OBVIOUS
<1>1. lost = {} /\ nodes \ lost = {} /\ \A b \in Bucket : Roots[b] = NULL
  BY DEF Init, Roots
<1>2. NULL \notin Node /\ \A m \in Node : ptrs[m] \in Node \cup {NULL}
  BY LifecycleAssumption DEF Init, ptrs, Plain
<1>3. Forest(Node, ptrs, NULL, Bucket, Roots, {})
  BY <1>1, <1>2, ForestOfNothing
<1> QED  BY <1>1, <1>3 DEF FInv

\* The steps that touch no node.
LEMMA ForestStays ==
  ASSUME AInv, AInv', FInv,
         NewMap \/ NewArrays \/ Created \/ FillFails \/ Destroy \/ Enter \/ Load \/ LeaveBucket \/ FreeMap
  PROVE  FInv'
<1>1. UNCHANGED <<n, Bucket, nodes, lost, next, ptrs>>
  BY DEF NewMap, NewArrays, Created, FillFails, Destroy, Enter, Load, LeaveBucket, FreeMap, store, Bucket,
         ptrs
<1>2. \A b \in Bucket : Roots'[b] = Roots[b]
  <2> USE <1>1 DEF Roots, TakingDown, Bucket, AInv, TypeOK
  <2>1. CASE NewMap \/ NewArrays
    <3>1. \A b \in Bucket : NewArrays /\ pc' = "fill" => head'[b] = NULL
      BY DEF NewArrays
    <3> QED  BY <2>1, <3>1 DEF NewMap, NewArrays
  <2>2. CASE Created \/ Destroy \/ Enter \/ Load \/ LeaveBucket \/ FreeMap
    BY <2>2 DEF Created, Destroy, Enter, Load, LeaveBucket, FreeMap, store
  <2>3. CASE FillFails
    BY <2>3 DEF FillFails, Before, Stages
  <2> QED  BY <2>1, <2>2, <2>3
<1>3. Roots' = Roots
  <2>1. Roots = [b \in Bucket |-> Roots[b]] /\ Roots' = [b \in Bucket |-> Roots'[b]]
    BY <1>1 DEF Roots
  <2> QED  BY <1>2, <2>1
<1> QED  BY <1>1, <1>3 DEF FInv

\* A new node is put in front of a bucket.
LEMMA ForestFront ==
  ASSUME AInv, AInv', FInv, NEW b \in Bucket, NEW x \in Node \ nodes,
         nodes' = nodes \cup {x}, lost' = lost, n' = n,
         next' = [next EXCEPT ![x] = Plain(Roots[b])],
         Roots'[b] = x, \A c \in Bucket \ {b} : Roots'[c] = Roots[c]
  PROVE  FInv'
<1> DEFINE R == Reach(Node, ptrs, NULL, Roots[b])
<1>1. IsThread(Node, ptrs, NULL, Roots[b]) /\ R \subseteq nodes \ lost
  BY DEF FInv, Forest
<1>2. /\ \A m \in Node : ptrs'[m] \in Node \cup {NULL}
      /\ ptrs'[x] = Roots[b]
      /\ \A m \in Node \ {x} : ptrs'[m] = ptrs[m]
  <2>1. \A m \in Node : ptrs'[m] \in Node \cup {NULL}
    BY DEF AInv, TypeOK, ptrs
  <2> QED  BY <2>1 DEF AInv, TypeOK, ptrs, Plain
<1>3. IsThread(Node, ptrs', NULL, x) /\ Reach(Node, ptrs', NULL, x) = R \cup {x}
  <2>1. x \notin R /\ \A m \in R : ptrs'[m] = ptrs[m]
    BY <1>1, <1>2 DEF AInv, TypeOK
  <2> QED  BY <1>1, <1>2, <2>1, ThreadFront
<1>4. nodes' \ lost' = ((nodes \ lost) \ R) \cup (R \cup {x}) /\ (R \cup {x}) \cap ((nodes \ lost) \ R) = {}
  BY <1>1 DEF FInv
<1>5. \A m \in (nodes \ lost) \ R : ptrs'[m] = ptrs[m]
  BY <1>2 DEF AInv, TypeOK
<1> HIDE DEF R
<1>6. Forest(Node, ptrs, NULL, Bucket, Roots, nodes \ lost)
  BY DEF FInv
<1>7. Forest(Node, ptrs', NULL, Bucket, Roots', nodes' \ lost')
  BY <1>2, <1>3, <1>4, <1>5, <1>6, ForestChange DEF R
<1>8. lost' \subseteq nodes' /\ Bucket' = Bucket
  BY DEF FInv, Bucket
<1> QED  BY <1>7, <1>8 DEF FInv

\* While the map is used the roots are its heads.
LEMMA RootsInUse ==
  ASSUME pc = "use"
  PROVE  \A b \in Bucket : Roots[b] = head[b] /\ Cells(b) = Reach(Node, ptrs, NULL, Roots[b])
  BY FromIs DEF Roots, Cells, TakingDown

\* Of a bucket in use one thread changes, and what leaves it is freed or lost.
LEMMA ForestInUse ==
  ASSUME AInv, AInv', FInv, pc = "use", pc' = "use", n' = n, NEW b \in Bucket,
         \A c \in Bucket \ {b} : head'[c] = head[c],
         IsThread(Node, ptrs', NULL, head'[b]),
         \A m \in (nodes \ lost) \ Cells(b) : ptrs'[m] = ptrs[m],
         nodes' \ lost' = ((nodes \ lost) \ Cells(b)) \cup Reach(Node, ptrs', NULL, head'[b]),
         Reach(Node, ptrs', NULL, head'[b]) \cap ((nodes \ lost) \ Cells(b)) = {},
         lost' \subseteq nodes'
  PROVE  FInv'
<1>1. Forest(Node, ptrs, NULL, Bucket, Roots, nodes \ lost)
  BY DEF FInv
<1>2. Bucket' = Bucket
  BY DEF Bucket
<1>3. Roots[b] = head[b] /\ Roots'[b] = head'[b] /\ \A c \in Bucket \ {b} : Roots'[c] = Roots[c]
  BY <1>2 DEF Roots, TakingDown
<1>4. Cells(b) = Reach(Node, ptrs, NULL, Roots[b])
  BY RootsInUse
<1>5. \A m \in Node : ptrs'[m] \in Node \cup {NULL}
  BY DEF AInv, TypeOK, ptrs
<1>6. Forest(Node, ptrs', NULL, Bucket, Roots', nodes' \ lost')
  BY <1>1, <1>3, <1>4, <1>5, ForestChange
<1> QED  BY <1>2, <1>6 DEF FInv

\* What is known of a bucket in use.
LEMMA BucketInUse ==
  ASSUME AInv, FInv, pc = "use", NEW b \in Bucket
  PROVE  /\ IsThread(Node, ptrs, NULL, head[b])
         /\ Cells(b) = Reach(Node, ptrs, NULL, head[b])
         /\ Cells(b) \subseteq nodes \ lost
         /\ head[b] # NULL => head[b] \in Cells(b)
<1>1. Roots[b] = head[b] /\ Cells(b) = Reach(Node, ptrs, NULL, head[b])
  BY RootsInUse
<1>2. IsThread(Node, ptrs, NULL, head[b]) /\ Cells(b) \subseteq nodes \ lost
  BY <1>1 DEF FInv, Forest
<1>3. head[b] # NULL => head[b] \in Cells(b)
  BY <1>1, <1>2, ReachIsClosed DEF IsThread
<1> QED  BY <1>1, <1>2, <1>3

LEMMA ForestPut ==
  ASSUME AInv, AInv', FInv, NEW b \in Bucket, PutNew(b)
  PROVE  FInv'
<1>0. pc = "use" /\ pc' = "use" /\ UNCHANGED <<n, Bucket>>
  BY DEF PutNew, Bucket
<1> PICK x \in Node \ nodes :
      /\ nodes' = nodes \cup {x}
      /\ IF HasSentinels
         THEN \E q \in Places(b) :
                LET after == IF impl \in LockFree THEN Plain(NULL) ELSE next[q]
                IN  /\ next' = [next EXCEPT ![x] = after, ![q] = Plain(x)]
                    /\ lost' = IF impl \in LockFree THEN lost \cup From(next[q].ptr) ELSE lost
                    /\ UNCHANGED head
         ELSE /\ next' = [next EXCEPT ![x] = Plain(head[b])]
              /\ head' = [head EXCEPT ![b] = x]
              /\ UNCHANGED lost
  BY DEF PutNew
<1>1. CASE ~HasSentinels
  <2>1. Roots[b] = head[b]
    BY <1>0, RootsInUse
  <2>2. Roots'[b] = x /\ \A c \in Bucket \ {b} : Roots'[c] = Roots[c]
    BY <1>0, <1>1 DEF Roots, TakingDown, AInv, TypeOK
  <2> QED  BY <1>0, <1>1, <2>1, <2>2, ForestFront
<1>2. CASE HasSentinels
  <2> PICK q \in Places(b) :
        LET after == IF impl \in LockFree THEN Plain(NULL) ELSE next[q]
        IN  /\ next' = [next EXCEPT ![x] = after, ![q] = Plain(x)]
            /\ lost' = IF impl \in LockFree THEN lost \cup From(next[q].ptr) ELSE lost
            /\ UNCHANGED head
    BY <1>2
  <2> DEFINE R == Reach(Node, ptrs, NULL, head[b])
  <2>1. IsThread(Node, ptrs, NULL, head[b]) /\ Cells(b) = R /\ R \subseteq nodes \ lost /\ R \subseteq Node
    BY <1>0, BucketInUse, CellsAreNodes
  <2>2. q \in R /\ x \in Node /\ x \notin R /\ x # q
    BY <2>1 DEF Places
  <2>3. /\ \A m \in Node : ptrs'[m] \in Node \cup {NULL}
        /\ ptrs'[q] = x
        /\ ptrs'[x] = IF impl \in LockFree THEN NULL ELSE ptrs[q]
        /\ \A m \in Node \ {x, q} : ptrs'[m] = ptrs[m]
    <3>1. \A m \in Node : ptrs'[m] \in Node \cup {NULL}
      BY DEF AInv, TypeOK, ptrs
    <3> QED  BY <2>1, <2>2, <3>1 DEF AInv, TypeOK, ptrs, Plain
  <2>4. CASE impl \notin LockFree
    <3>1. IsThread(Node, ptrs', NULL, head[b]) /\ Reach(Node, ptrs', NULL, head[b]) = R \cup {x}
      <4>1. ptrs'[x] = ptrs[q] /\ \A m \in R : m # q => ptrs'[m] = ptrs[m]
        BY <2>1, <2>2, <2>3, <2>4
      <4>2. ChangesAt(Node, ptrs, ptrs', NULL, head[b], q)
        BY <2>1, <2>2, <2>3, <4>1 DEF ChangesAt
      <4> QED  BY <2>2, <2>3, <4>1, <4>2, ThreadBehind
    <3>2. lost' = lost /\ head' = head
      BY <2>4
    <3>3. lost' \subseteq nodes' /\ x \notin lost
      BY <3>2 DEF FInv
    <3>4. \A m \in (nodes \ lost) \ R : ptrs'[m] = ptrs[m]
      BY <2>2, <2>3 DEF AInv, TypeOK
    <3> HIDE DEF R
    <3>5. /\ nodes' \ lost' = ((nodes \ lost) \ R) \cup (R \cup {x})
          /\ (R \cup {x}) \cap ((nodes \ lost) \ R) = {}
      BY <2>1, <3>2, <3>3
    <3> QED  BY <1>0, <2>1, <3>1, <3>2, <3>3, <3>4, <3>5, ForestInUse
  <2>5. CASE impl \in LockFree
    <3> DEFINE g == [ptrs EXCEPT ![q] = NULL]
               T == Reach(Node, ptrs, NULL, ptrs[q])
    <3>1. /\ \A m \in Node : g[m] \in Node \cup {NULL}
          /\ g[q] = NULL /\ \A m \in R : m # q => g[m] = ptrs[m]
          /\ \A m \in R : m # q => ptrs'[m] = g[m]
      BY <2>1, <2>2, <2>3 DEF AInv, TypeOK, ptrs
    <3> HIDE DEF g
    <3>2. /\ IsThread(Node, g, NULL, head[b]) /\ q \in Reach(Node, g, NULL, head[b])
          /\ T \subseteq R /\ Reach(Node, g, NULL, head[b]) = R \ T
      <4>1. ChangesAt(Node, ptrs, g, NULL, head[b], q)
        BY <2>1, <2>2, <3>1 DEF ChangesAt
      <4>2. g[q] = NULL
        BY <3>1
      <4>3. TailIsCut(Node, ptrs, g, NULL, head[b], q)
        BY <4>1, <4>2, ThreadCut
      <4> QED  BY <4>3 DEF TailIsCut
    <3>7. \A m \in (nodes \ lost) \ R : ptrs'[m] = ptrs[m]
      BY <2>2, <2>3 DEF AInv, TypeOK
    <3>3. /\ IsThread(Node, ptrs', NULL, head[b])
          /\ Reach(Node, ptrs', NULL, head[b]) = (R \ T) \cup {x}
      <4>1. x \notin R \ T /\ ptrs'[x] = g[q] /\ \A m \in R \ T : m # q => ptrs'[m] = g[m]
        BY <2>2, <2>3, <2>5, <3>1
      <4>2. Reach(Node, g, NULL, head[b]) = R \ T
        BY <3>2
      <4> HIDE DEF R, T
      <4>3. ChangesAt(Node, g, ptrs', NULL, head[b], q)
        BY <2>3, <3>2, <4>1, <4>2 DEF ChangesAt
      <4> QED  BY <2>2, <2>3, <3>2, <4>1, <4>2, <4>3, ThreadBehind
    <3>4. lost' = lost \cup T /\ head' = head
      <4>1. ptrs[q] = next[q].ptr
        BY <2>1, <2>2 DEF ptrs
      <4> QED  BY <2>5, <4>1, FromIs
    <3> HIDE DEF R, T
    <3>5. lost' \subseteq nodes' /\ x \notin lost
      BY <2>1, <3>2, <3>4 DEF FInv
    <3>6. nodes' \ lost' = ((nodes \ lost) \ R) \cup ((R \ T) \cup {x})
      BY <2>1, <2>2, <3>2, <3>4, <3>5
    <3>8. ((R \ T) \cup {x}) \cap ((nodes \ lost) \ R) = {}
      BY <2>1
    <3> QED  BY <1>0, <2>1, <3>3, <3>4, <3>5, <3>6, <3>7, <3>8, ForestInUse
  <2> QED  BY <2>4, <2>5
<1> QED  BY <1>1, <1>2

\* A cell that is bypassed leaves its bucket, and no other does.
LEMMA ForestBypass ==
  ASSUME AInv, AInv', FInv, pc = "use", pc' = "use", n' = n, NEW b \in Bucket, NEW x \in Items(b),
         Bypass(b, x), nodes' \ lost' = (nodes \ lost) \ {x}, lost' \subseteq nodes'
  PROVE  FInv'
<1> DEFINE R == Reach(Node, ptrs, NULL, head[b])
<1>1. IsThread(Node, ptrs, NULL, head[b]) /\ Cells(b) = R /\ R \subseteq nodes \ lost /\ R \subseteq Node
  BY BucketInUse, CellsAreNodes
<1>2. x \in R /\ x \in Node
  BY <1>1, CellsAreNodes
<1>3. \A m \in Node : ptrs'[m] \in Node \cup {NULL}
  BY DEF AInv, TypeOK, ptrs
<1>4. /\ IsThread(Node, ptrs', NULL, head'[b]) /\ Reach(Node, ptrs', NULL, head'[b]) = R \ {x}
      /\ \A c \in Bucket \ {b} : head'[c] = head[c]
      /\ \A m \in Node \ R : ptrs'[m] = ptrs[m]
  <2>1. CASE head[b] = x
    <3>1. head'[b] = ptrs[x] /\ ptrs' = ptrs /\ \A c \in Bucket \ {b} : head'[c] = head[c]
      BY <1>2, <2>1 DEF Bypass, AInv, TypeOK, ptrs
    <3>2. IsThread(Node, ptrs, NULL, ptrs[x]) /\ Reach(Node, ptrs, NULL, ptrs[x]) = R \ {x}
      BY <1>1, <1>2, <1>3, <2>1, <3>1, ThreadBehead
    <3> QED  BY <3>1, <3>2
  <2>2. CASE head[b] # x
    <3> PICK q \in Cells(b) : next[q].ptr = x /\ next' = [next EXCEPT ![q] = Plain(next[x].ptr)]
      BY <2>2 DEF Bypass
    <3>1. q \in R /\ q \in Node /\ head' = head
      BY <1>1, <2>2 DEF Bypass
    <3>2. ptrs[q] = x /\ ptrs'[q] = ptrs[x] /\ \A m \in Node \ {q} : ptrs'[m] = ptrs[m]
      BY <1>2, <3>1 DEF AInv, TypeOK, ptrs, Plain
    <3>3. IsThread(Node, ptrs', NULL, head[b]) /\ Reach(Node, ptrs', NULL, head[b]) = R \ {x}
      <4>1. \A m \in R : m # q => ptrs'[m] = ptrs[m]
        BY <1>1, <3>2
      <4>2. ChangesAt(Node, ptrs, ptrs', NULL, head[b], q)
        BY <1>1, <1>3, <3>1, <4>1 DEF ChangesAt
      <4> QED  BY <1>2, <3>2, <4>2, ThreadSkip
    <3> QED  BY <3>1, <3>2, <3>3
  <2> QED  BY <2>1, <2>2
<1>5. \A m \in (nodes \ lost) \ R : ptrs'[m] = ptrs[m]
  BY <1>4 DEF AInv, TypeOK
<1> HIDE DEF R
<1>6. nodes' \ lost' = ((nodes \ lost) \ R) \cup (R \ {x}) /\ (R \ {x}) \cap ((nodes \ lost) \ R) = {}
  BY <1>1, <1>2
<1> QED  BY <1>1, <1>4, <1>5, <1>6, ForestInUse

LEMMA ForestUse ==
  ASSUME AInv, AInv', FInv, NEW b \in Bucket, PutNew(b) \/ DelLocked(b) \/ Mark(b) \/ Snip(b)
  PROVE  FInv'
<1>1. CASE PutNew(b)
  BY <1>1, ForestPut
<1>2. CASE DelLocked(b)
  <2> PICK x \in Items(b) : Bypass(b, x) /\ nodes' = nodes \ {x}
    BY <1>2 DEF DelLocked
  <2>1. pc = "use" /\ pc' = "use" /\ n' = n /\ lost' = lost /\ lost = {}
    BY <1>2 DEF DelLocked, AInv, Losses
  <2>2. nodes' \ lost' = (nodes \ lost) \ {x} /\ lost' \subseteq nodes'
    BY <2>1
  <2> QED  BY <2>1, <2>2, ForestBypass
<1>3. CASE Mark(b)
  <2> PICK x \in Items(b) : next' = [next EXCEPT ![x].mark = TRUE]
    BY <1>3 DEF Mark
  <2>1. UNCHANGED <<n, pc, head, nodes, lost, i, end, p, Bucket>>
    BY <1>3 DEF Mark, Bucket
  <2>2. ptrs' = ptrs
    BY CellsAreNodes DEF ptrs, AInv, TypeOK
  <2>3. Roots' = Roots
    BY <2>1 DEF Roots, TakingDown
  <2> QED  BY <2>1, <2>2, <2>3 DEF FInv
<1>4. CASE Snip(b)
  <2> PICK x \in Items(b) : Bypass(b, x) /\ lost' = lost \cup {x}
    BY <1>4 DEF Snip
  <2>1. pc = "use" /\ pc' = "use" /\ n' = n /\ nodes' = nodes
    BY <1>4 DEF Snip
  <2>2. x \in nodes
    BY <2>1, BucketInUse, CellsAreNodes
  <2>3. nodes' \ lost' = (nodes \ lost) \ {x} /\ lost' \subseteq nodes'
    BY <2>1, <2>2 DEF FInv
  <2> QED  BY <2>1, <2>3, ForestBypass
<1> QED  BY <1>1, <1>2, <1>3, <1>4

\* A round of create_impl's loop gives its bucket a sentinel, or nothing.
LEMMA ForestFill ==
  ASSUME AInv, AInv', FInv, Fill
  PROVE  FInv'
<1>0. /\ i \in Bucket /\ pc = "fill" /\ pc' = "fill" /\ i' = i + 1 /\ lost' = lost /\ n' = n
      /\ Roots[i] = NULL
  <2>1. i \in Bucket
    BY DEF Fill, AllFilled, AInv, TypeOK, Bucket
  <2>2. head[i] = NULL
    BY <2>1 DEF Fill, AInv, TypeOK, Stages, Bucket
  <2> QED  BY <2>1, <2>2 DEF Fill, Roots, TakingDown
<1>1. CASE HasSentinels
  <2> PICK x \in Node \ nodes : /\ nodes' = nodes \cup {x}
                                /\ next' = [next EXCEPT ![x] = Plain(NULL)]
                                /\ head' = [head EXCEPT ![i] = x]
    BY <1>1 DEF Fill
  <2>1. Roots'[i] = x /\ \A c \in Bucket \ {i} : Roots'[c] = Roots[c]
    BY <1>0 DEF Roots, TakingDown, AInv, TypeOK, Bucket
  <2>2. next' = [next EXCEPT ![x] = Plain(Roots[i])]
    BY <1>0
  <2> QED  BY <1>0, <2>1, <2>2, ForestFront
<1>2. CASE ~HasSentinels
  <2>1. UNCHANGED <<nodes, next, head, lost, Bucket, ptrs>>
    BY <1>0, <1>2 DEF Fill, Bucket, ptrs
  <2>2. Roots' = Roots
    BY <1>0, <2>1 DEF Roots, TakingDown
  <2> QED  BY <2>1, <2>2 DEF FInv
<1> QED  BY <1>1, <1>2

\* The first cell of the bucket at hand is freed, and the rest is still found.
LEMMA ForestFree ==
  ASSUME AInv, AInv', FInv, FreeNode
  PROVE  FInv'
<1> DEFINE R == Reach(Node, ptrs, NULL, p)
<1>0. /\ i \in Bucket /\ pc = "free" /\ pc' = "walk" /\ p \in Node /\ p' = ptrs[p]
      /\ nodes' = nodes \ {p} /\ next' = [next EXCEPT ![p] = Plain(NULL)]
      /\ UNCHANGED <<n, i, end, head, lost, Bucket>>
  BY DEF FreeNode, Onward, AInv, TypeOK, Stages, TakingDown, Bucket, ptrs
<1>1. Roots[i] = p /\ Roots'[i] = ptrs[p] /\ \A c \in Bucket \ {i} : Roots'[c] = Roots[c]
  BY <1>0 DEF Roots, TakingDown
<1>2. Forest(Node, ptrs, NULL, Bucket, Roots, nodes \ lost)
  BY DEF FInv
<1>3. IsThread(Node, ptrs, NULL, p) /\ R \subseteq nodes \ lost
  BY <1>0, <1>1, <1>2 DEF Forest
<1>4. (\A m \in Node : ptrs'[m] \in Node \cup {NULL}) /\ \A m \in Node \ {p} : ptrs'[m] = ptrs[m]
  <2>1. \A m \in Node : ptrs'[m] \in Node \cup {NULL}
    BY DEF AInv, TypeOK, ptrs
  <2> QED  BY <1>0, <2>1 DEF AInv, TypeOK, ptrs
<1>5. \A m \in R : m # p => ptrs'[m] = ptrs[m]
  BY <1>3, <1>4 DEF AInv, TypeOK
<1>6. /\ p \in R /\ IsThread(Node, ptrs', NULL, ptrs[p]) /\ Reach(Node, ptrs', NULL, ptrs[p]) = R \ {p}
  BY <1>0, <1>3, <1>4, <1>5, ThreadBehead
<1>7. \A m \in (nodes \ lost) \ R : ptrs'[m] = ptrs[m]
  BY <1>4, <1>6 DEF AInv, TypeOK
<1> HIDE DEF R
<1>8. nodes' \ lost' = ((nodes \ lost) \ R) \cup (R \ {p}) /\ (R \ {p}) \cap ((nodes \ lost) \ R) = {}
  BY <1>0, <1>3, <1>6
<1>9. Forest(Node, ptrs', NULL, Bucket, Roots', nodes' \ lost')
  BY <1>0, <1>1, <1>2, <1>4, <1>6, <1>7, <1>8, ForestChange DEF R
<1>10. lost' \subseteq nodes'
  BY <1>0, <1>3, <1>6 DEF FInv
<1> QED  BY <1>0, <1>9, <1>10 DEF FInv

LEMMA ForestNext == AInv /\ AInv' /\ FInv /\ [Next]_vars => FInv'
<1> SUFFICES ASSUME AInv, AInv', FInv, [Next]_vars PROVE FInv'
  OBVIOUS
<1>1. CASE Next
  BY <1>1, ForestStays, ForestUse, ForestFill, ForestFree DEF Next, Create, Use, TearDown
<1>2. CASE UNCHANGED vars
  BY <1>2 DEF vars, store, FInv, ptrs, Roots, Bucket, TakingDown
<1> QED  BY <1>1, <1>2

LEMMA ForestInvariance == Spec => []FInv
  BY ForestInit, ForestNext, StagesInvariance, PTL DEF Spec

-----------------------------------------------------------------------------
(* The theorems                                                            *)

\* Every variable keeps its type.
THEOREM TypesAreKept == Spec => []TypeOK
<1>1. AInv => TypeOK
  BY DEF AInv
<1> QED  BY <1>1, StagesInvariance, PTL

\* A map that create_impl hands out has all its arrays, sentinels and critical
\* sections, and keeps them whatever is called.
THEOREM MapStaysWhole == Spec => []MapIsWhole
<1>1. AInv /\ FInv => MapIsWhole
  <2> SUFFICES ASSUME AInv, FInv, pc = "use" PROVE MapIsWhole
    BY DEF MapIsWhole
  <2>1. blocks = {"map"} \cup Arrays /\ \A b \in Bucket : HasSections => b \in section
    BY DEF AInv, Blocks, Sections
  <2>2. \A b \in Bucket : head[b] # NULL => head[b] \in nodes
    BY BucketInUse
  <2>3. \A b \in Bucket : HasSentinels => head[b] # NULL
    BY DEF AInv, Stages
  <2> QED  BY <2>1, <2>2, <2>3 DEF MapIsWhole
<1> QED  BY <1>1, StagesInvariance, ForestInvariance, PTL

\* The walk that takes a map down reads and frees nothing that is not allocated,
\* nor deletes a critical section that is not there.
THEOREM FreesAreGood == Spec => []NoBadFree
<1>1. AInv /\ FInv => NoBadFree
  <2> SUFFICES ASSUME AInv, FInv, pc \in {"walk", "free"}
               PROVE  p \in nodes \cup {NULL} /\ (HasSections => i \in section)
    BY DEF NoBadFree
  <2>1. i \in Bucket /\ i < end /\ i <= i
    BY DEF AInv, TypeOK, Stages, TakingDown, Bucket
  <2>2. HasSections => i \in section
    BY <2>1 DEF AInv, Sections, TakingDown, TypeOK
  <2>3. IsThread(Node, ptrs, NULL, p) /\ Reach(Node, ptrs, NULL, p) \subseteq nodes
    BY <2>1 DEF FInv, Forest, Roots
  <2>4. p \in nodes \cup {NULL}
    BY <2>3, ReachIsClosed DEF IsThread
  <2> QED  BY <2>2, <2>4
<1> QED  BY <1>1, StagesInvariance, ForestInvariance, PTL

\* What is left over are the nodes the lock-free maps have unlinked, and nothing
\* else, wherever create_impl may have failed.
THEOREM OnlyTheUnlinkedLeak == Spec => []OnlyUnlinkedLeak
<1>1. AInv /\ FInv => OnlyUnlinkedLeak
  <2> SUFFICES ASSUME AInv, FInv, pc = "gone" PROVE OnlyUnlinkedLeak
    BY DEF OnlyUnlinkedLeak
  <2>1. blocks = {} /\ (impl \notin LockFree => lost = {})
    BY DEF AInv, Blocks, Losses
  <2>2. \A b \in Bucket : Roots[b] = NULL
    BY DEF Roots
  <2>3. \A b \in Bucket : Reach(Node, ptrs, NULL, Roots[b]) = {}
    BY <2>2, ReachNothing, LifecycleAssumption
  <2>4. nodes \ lost = {}
    BY <2>3 DEF FInv, Forest
  <2> QED  BY <2>1, <2>4 DEF FInv, OnlyUnlinkedLeak
<1> QED  BY <1>1, StagesInvariance, ForestInvariance, PTL

\* No critical section is left behind but that of the shard whose sentinel could
\* not be had.
THEOREM OneSectionIsLeft == Spec => []OneSectionLeaks
<1>1. AInv => OneSectionLeaks
  <2> SUFFICES ASSUME AInv, pc = "gone" PROVE OneSectionLeaks
    BY DEF OneSectionLeaks
  <2>1. CASE HasSections
    BY <2>1 DEF AInv, Sections, OneSectionLeaks
  <2>2. CASE ~HasSections
    BY <2>2 DEF AInv, Sections, OneSectionLeaks, HasSections
  <2> QED  BY <2>1, <2>2
<1> QED  BY <1>1, StagesInvariance, PTL
=============================================================================
