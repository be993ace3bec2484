---------------------------- MODULE SharedLemmas ----------------------------
(***************************************************************************)
(* Facts that the proofs of more than one module cite, or that are about   *)
(* the operators alone: what a list leads to when a cell is put in or      *)
(* taken out (Reach), counting modulo a number, and the sums a loop adds   *)
(* up.  What is proved by induction here is proved for the least number    *)
(* that it does not hold of.                                               *)
(***************************************************************************)
EXTENDS Reach, Integers, WellFoundedInduction, TLAPS

-----------------------------------------------------------------------------
(* Lists                                                                   *)

\* f leads from cells to cells or to nil, and x is one of these.
IsList(N, f, nil, x) ==
  /\ nil \notin N
  /\ \A n \in N : f[n] \in N \cup {nil}
  /\ x \in N \cup {nil}

\* What can be reached is closed, and within every other closed set.
LEMMA ReachIsClosed ==
  ASSUME NEW N, NEW f, NEW nil, NEW x, IsList(N, f, nil, x)
  PROVE  /\ Reach(N, f, nil, x) \subseteq N
         /\ x \in Reach(N, f, nil, x) \cup {nil}
         /\ Closed(f, nil, Reach(N, f, nil, x))
  BY DEF Reach, Closed, IsList

LEMMA ReachIsLeast ==
  ASSUME NEW N, NEW f, NEW nil, NEW x, NEW S \in SUBSET N,
         x \in S \cup {nil}, Closed(f, nil, S)
  PROVE  Reach(N, f, nil, x) \subseteq S
  BY DEF Reach

\* Nothing can be reached from nil; from a cell, itself and what its successor
\* reaches.
LEMMA ReachNothing ==
  ASSUME NEW N, NEW f, NEW nil, nil \notin N
  PROVE  Reach(N, f, nil, nil) = {}
<1>1. nil \in {} \cup {nil} /\ Closed(f, nil, {}) /\ {} \in SUBSET N
  BY DEF Closed
<1> QED  BY <1>1, ReachIsLeast, Zenon

LEMMA ReachOneMore ==
  ASSUME NEW N, NEW f, NEW nil, NEW x \in N, IsList(N, f, nil, x)
  PROVE  Reach(N, f, nil, x) = {x} \cup Reach(N, f, nil, f[x])
<1> DEFINE R == Reach(N, f, nil, x)
           Q == Reach(N, f, nil, f[x])
<1>1. f[x] \in N \cup {nil} /\ IsList(N, f, nil, f[x]) /\ x # nil
  BY DEF IsList
<1>2. R \subseteq N /\ x \in R /\ Closed(f, nil, R)
  BY <1>1, ReachIsClosed
<1>3. Q \subseteq N /\ f[x] \in Q \cup {nil} /\ Closed(f, nil, Q)
  BY <1>1, ReachIsClosed
<1>4. Closed(f, nil, {x} \cup Q) /\ {x} \cup Q \in SUBSET N
  BY <1>3 DEF Closed
<1>5. R \subseteq {x} \cup Q
  BY <1>4, ReachIsLeast
<1>6. Q \subseteq R
  BY <1>2, ReachIsLeast DEF Closed
<1> QED  BY <1>2, <1>5, <1>6

\* Only the successors of cells that can be reached matter.
LEMMA ReachSame ==
  ASSUME NEW N, NEW f, NEW g, NEW nil, NEW x,
         IsList(N, f, nil, x), IsList(N, g, nil, x),
         \A n \in Reach(N, f, nil, x) : g[n] = f[n]
  PROVE  Reach(N, g, nil, x) = Reach(N, f, nil, x)
<1> DEFINE R == Reach(N, f, nil, x)
           Q == Reach(N, g, nil, x)
<1>1. R \subseteq N /\ x \in R \cup {nil} /\ Closed(f, nil, R)
  BY ReachIsClosed
<1>2. Q \subseteq N /\ x \in Q \cup {nil} /\ Closed(g, nil, Q)
  BY ReachIsClosed
<1>3. Closed(g, nil, R)
  BY <1>1 DEF Closed
<1>4. Q \subseteq R
  BY <1>1, <1>3, ReachIsLeast
<1>5. Closed(f, nil, Q)
  BY <1>2, <1>4 DEF Closed
<1>6. R \subseteq Q
  BY <1>2, <1>5, ReachIsLeast
<1> QED  BY <1>4, <1>6

\* A new cell behind q joins the list, and nothing leaves it.
LEMMA ReachInsert ==
  ASSUME NEW N, NEW f, NEW g, NEW nil, NEW x,
         IsList(N, f, nil, x), IsList(N, g, nil, x),
         NEW q \in Reach(N, f, nil, x), NEW c \in N, c \notin Reach(N, f, nil, x),
         g[q] = c, g[c] = f[q],
         \A n \in Reach(N, f, nil, x) : n # q => g[n] = f[n]
  PROVE  Reach(N, g, nil, x) = Reach(N, f, nil, x) \cup {c}
<1> DEFINE R == Reach(N, f, nil, x)
           Q == Reach(N, g, nil, x)
<1>1. R \subseteq N /\ x \in R \cup {nil} /\ Closed(f, nil, R) /\ nil \notin N
  BY ReachIsClosed DEF IsList
<1>2. Q \subseteq N /\ x \in Q \cup {nil} /\ Closed(g, nil, Q)
  BY ReachIsClosed
<1> HIDE DEF R, Q
<1>3. Closed(g, nil, R \cup {c})
  BY <1>1 DEF Closed, R
<1>4. Q \subseteq R \cup {c}
  BY <1>1, <1>3, ReachIsLeast DEF Q
<1>5. x \in (Q \cap R) \cup {nil} /\ Q \cap R \in SUBSET N
  BY <1>1, <1>2
<1>6. q \in Q
  <2> SUFFICES ASSUME q \notin Q PROVE FALSE
    OBVIOUS
  <2>1. Closed(f, nil, Q \cap R)
    BY <1>1, <1>2 DEF Closed, R
  <2>2. R \subseteq Q \cap R
    BY <1>5, <2>1, ReachIsLeast DEF R
  <2> QED  BY <2>2 DEF R
<1>7. c \in Q
  BY <1>1, <1>2, <1>6 DEF Closed
<1>8. Closed(f, nil, Q \cap R)
  BY <1>1, <1>2, <1>6, <1>7 DEF Closed, R
<1>9. R \subseteq Q \cap R
  BY <1>5, <1>8, ReachIsLeast DEF R
<1> QED  BY <1>4, <1>7, <1>9 DEF Q, R

\* A cell that q alone leads to leaves the list when q takes its successor over,
\* and nothing else does.
LEMMA ReachRemove ==
  ASSUME NEW N, NEW f, NEW g, NEW nil, NEW x,
         IsList(N, f, nil, x), IsList(N, g, nil, x),
         NEW q \in Reach(N, f, nil, x), NEW c \in N, f[q] = c, q # c, x # c,
         \A n \in Reach(N, f, nil, x) : f[n] = c => n = q,
         g[q] = f[c],
         \A n \in Reach(N, f, nil, x) : n # q => g[n] = f[n]
  PROVE  Reach(N, g, nil, x) = Reach(N, f, nil, x) \ {c}
<1> DEFINE R == Reach(N, f, nil, x)
           Q == Reach(N, g, nil, x)
<1>1. R \subseteq N /\ x \in R \cup {nil} /\ Closed(f, nil, R) /\ nil \notin N
  BY ReachIsClosed DEF IsList
<1>2. Q \subseteq N /\ x \in Q \cup {nil} /\ Closed(g, nil, Q)
  BY ReachIsClosed
<1> HIDE DEF R, Q
<1>3. c \in R /\ f[c] # c
  BY <1>1 DEF Closed, R
<1>4. Closed(g, nil, R \ {c})
  BY <1>1, <1>3 DEF Closed, R
<1>5. Q \subseteq R \ {c}
  BY <1>1, <1>4, ReachIsLeast DEF Q
<1>6. q \in Q
  <2> SUFFICES ASSUME q \notin Q PROVE FALSE
    OBVIOUS
  <2>1. Closed(f, nil, Q)
    BY <1>2, <1>5 DEF Closed, R
  <2>2. R \subseteq Q
    BY <1>2, <2>1, ReachIsLeast DEF R
  <2> QED  BY <2>2 DEF R
<1>7. Closed(f, nil, Q \cup {c})
  BY <1>2, <1>5, <1>6 DEF Closed, R
<1>8. R \subseteq Q \cup {c}
  BY <1>1, <1>2, <1>7, ReachIsLeast DEF R
<1> QED  BY <1>5, <1>8 DEF Q, R

\* The first cell of a list that nothing leads back to is no later cell.
LEMMA ReachTail ==
  ASSUME NEW N, NEW f, NEW nil, NEW x \in N, IsList(N, f, nil, x),
         \A n \in Reach(N, f, nil, x) : f[n] # x
  PROVE  Reach(N, f, nil, f[x]) = Reach(N, f, nil, x) \ {x}
<1> DEFINE R == Reach(N, f, nil, x)
<1>1. R \subseteq N /\ x \in R /\ Closed(f, nil, R)
  BY ReachIsClosed DEF IsList
<1> HIDE DEF R
<1>2. Closed(f, nil, R \ {x}) /\ f[x] \in (R \ {x}) \cup {nil} /\ R \ {x} \in SUBSET N
  BY <1>1 DEF Closed, R
<1>3. Reach(N, f, nil, f[x]) \subseteq R \ {x}
  BY <1>2, ReachIsLeast
<1> QED  BY <1>3, ReachOneMore DEF R

\* Of two cells of a list one leads to the other.
LEMMA ReachTotal ==
  ASSUME NEW N, NEW f, NEW nil, NEW x, IsList(N, f, nil, x),
         NEW m \in Reach(N, f, nil, x), NEW n \in Reach(N, f, nil, x)
  PROVE  n \in Reach(N, f, nil, m) \/ m \in Reach(N, f, nil, n)
<1> DEFINE R == Reach(N, f, nil, x)
           S == {c \in R : c \in Reach(N, f, nil, m) \/ m \in Reach(N, f, nil, c)}
<1>1. R \subseteq N /\ x \in R \cup {nil} /\ Closed(f, nil, R)
  BY ReachIsClosed
<1>2. \A c \in R : IsList(N, f, nil, c)
  BY <1>1 DEF IsList
<1>3. S \in SUBSET N /\ x \in S \cup {nil}
  BY <1>1
<1> HIDE DEF R
<1>4. ASSUME NEW c \in S, f[c] # nil PROVE f[c] \in S
  <2>1. c \in R /\ c \in N /\ f[c] \in R
    BY <1>1, <1>4 DEF Closed
  <2>2. CASE c \in Reach(N, f, nil, m)
    <3>1. Closed(f, nil, Reach(N, f, nil, m))
      BY <1>2, ReachIsClosed DEF R
    <3> QED  BY <1>4, <2>1, <2>2, <3>1 DEF Closed
  <2>3. CASE m \in Reach(N, f, nil, c)
    <3>1. m = c \/ m \in Reach(N, f, nil, f[c])
      BY <1>2, <2>1, <2>3, ReachOneMore
    <3>2. IsList(N, f, nil, f[c])
      BY <1>2, <2>1
    <3>3. f[c] \in Reach(N, f, nil, f[c]) \cup {nil}
      BY <3>2, ReachIsClosed
    <3>4. m = c => f[c] \in Reach(N, f, nil, m)
      BY <1>2, <1>4, <2>1, <3>3, ReachOneMore
    <3> QED  BY <2>1, <3>1, <3>4
  <2> QED  BY <2>2, <2>3
<1>5. Closed(f, nil, S)
  BY <1>4 DEF Closed
<1> HIDE DEF S
<1>6. R \subseteq S
  BY <1>3, <1>5, ReachIsLeast DEF R
<1> QED  BY <1>6 DEF R, S

\* k is the key of each cell, and the keys grow along f.
Grows(f, nil, k, S) ==
  /\ \A n \in S : k[n] \in Nat
  /\ \A n \in S : f[n] # nil => k[n] < k[f[n]]

\* No key is twice in a list whose keys grow, and no key is skipped.
LEMMA ReachInOrder ==
  ASSUME NEW N, NEW f, NEW nil, NEW x, IsList(N, f, nil, x),
         NEW k, Grows(f, nil, k, Reach(N, f, nil, x)),
         NEW m \in Reach(N, f, nil, x), NEW n \in Reach(N, f, nil, x)
  PROVE  /\ k[m] = k[n] => m = n
         /\ k[m] < k[n] => f[m] # nil /\ k[f[m]] <= k[n]
<1> DEFINE R == Reach(N, f, nil, x)
           Above(c) == {d \in R : k[c] <= k[d]}
<1>1. R \subseteq N /\ x \in R \cup {nil} /\ Closed(f, nil, R)
  BY ReachIsClosed
<1>2. \A c \in R : k[c] \in Nat /\ (f[c] # nil => f[c] \in R /\ k[f[c]] \in Nat /\ k[c] < k[f[c]])
  BY <1>1 DEF Closed, Grows
<1>3. ASSUME NEW c \in R
      PROVE  Reach(N, f, nil, c) \subseteq {c} \cup {d \in R : f[c] # nil /\ k[f[c]] <= k[d]}
  <2> DEFINE S == {c} \cup {d \in R : f[c] # nil /\ k[f[c]] <= k[d]}
  <2>1. c \in S \cup {nil} /\ S \in SUBSET N
    BY <1>1
  <2>2. Closed(f, nil, S)
    <3> SUFFICES ASSUME NEW d \in S, f[d] # nil PROVE f[d] \in S
      BY DEF Closed
    <3> HIDE DEF R
    <3>1. CASE d = c
      BY <1>2, <3>1
    <3>2. CASE d # c
      <4>1. d \in R /\ f[c] # nil /\ k[f[c]] <= k[d]
        BY <3>2
      <4>2. f[d] \in R /\ k[f[d]] \in Nat /\ k[d] < k[f[d]] /\ k[d] \in Nat /\ k[f[c]] \in Nat
        BY <1>2, <4>1
      <4> QED  BY <4>1, <4>2
    <3> QED  BY <3>1, <3>2
  <2> HIDE DEF S, R
  <2>3. Reach(N, f, nil, c) \subseteq S
    BY <2>1, <2>2, ReachIsLeast
  <2> QED  BY <2>3 DEF S
<1>4. n \in Reach(N, f, nil, m) \/ m \in Reach(N, f, nil, n)
  BY ReachTotal
<1>5. m \in R /\ n \in R
  OBVIOUS
<1> HIDE DEF R
<1>6. \/ n = m \/ (f[m] # nil /\ k[f[m]] <= k[n])
      \/ (f[n] # nil /\ k[f[n]] <= k[m])
  BY <1>3, <1>4, <1>5
<1> QED  BY <1>2, <1>5, <1>6

\* When q takes c for its successor and c has none, the list is cut behind c.
LEMMA ReachCut ==
  ASSUME NEW N, NEW f, NEW g, NEW nil, NEW x,
         IsList(N, f, nil, x), IsList(N, g, nil, x),
         NEW k, Grows(f, nil, k, Reach(N, f, nil, x)),
         NEW q \in Reach(N, f, nil, x), NEW c \in N, c \notin Reach(N, f, nil, x),
         g[q] = c, g[c] = nil,
         \A n \in Reach(N, f, nil, x) : n # q => g[n] = f[n]
  PROVE  Reach(N, g, nil, x) = {n \in Reach(N, f, nil, x) : k[n] <= k[q]} \cup {c}
<1> DEFINE R == Reach(N, f, nil, x)
           Q == Reach(N, g, nil, x)
           Kept == {n \in R : k[n] <= k[q]}
           Lost == {n \in R : k[q] < k[n]}
<1>1. R \subseteq N /\ x \in R \cup {nil} /\ Closed(f, nil, R) /\ nil \notin N
  BY ReachIsClosed DEF IsList
<1>2. Q \subseteq N /\ x \in Q \cup {nil} /\ Closed(g, nil, Q)
  BY ReachIsClosed
<1>3. \A n \in R : k[n] \in Nat /\ (f[n] # nil => f[n] \in R /\ k[f[n]] \in Nat /\ k[n] < k[f[n]])
  BY <1>1 DEF Closed, Grows
<1>4. \A n \in R : /\ k[n] = k[q] => n = q
                   /\ k[n] < k[q] => f[n] # nil /\ k[f[n]] <= k[q]
  BY ReachInOrder
<1>5. q \in R /\ c \notin R /\ (\A n \in R : n # q => g[n] = f[n])
  OBVIOUS
<1> HIDE DEF R, Q
<1>6. x # nil /\ x \in Kept
  <2>1. x # nil
    <3>1. x = nil => R = {}
      BY ReachNothing DEF R, IsList
    <3> QED  BY <1>5, <3>1
  <2>2. x \in R
    BY <1>1, <2>1
  <2>3. Closed(f, nil, Lost)
    <3> SUFFICES ASSUME NEW n \in Lost, f[n] # nil PROVE f[n] \in Lost
      BY DEF Closed
    <3> QED  BY <1>3, <1>5
  <2>4. x \in Lost => R \subseteq Lost
    BY <1>1, <2>3, ReachIsLeast DEF R
  <2>5. q \notin Lost
    BY <1>3, <1>5
  <2> QED  BY <1>3, <1>5, <2>1, <2>2, <2>4, <2>5
<1>7. Closed(g, nil, Kept \cup {c})
  <2> SUFFICES ASSUME NEW n \in Kept \cup {c}, g[n] # nil PROVE g[n] \in Kept \cup {c}
    BY DEF Closed
  <2>1. CASE n \in {q, c}
    BY <2>1
  <2>2. CASE n \notin {q, c}
    BY <1>3, <1>4, <1>5, <2>2
  <2> QED  BY <2>1, <2>2
<1>8. Q \subseteq Kept \cup {c}
  BY <1>1, <1>6, <1>7, ReachIsLeast DEF Q
<1>9. Closed(f, nil, (Q \cap R) \cup Lost)
  <2> SUFFICES ASSUME NEW n \in (Q \cap R) \cup Lost, f[n] # nil PROVE f[n] \in (Q \cap R) \cup Lost
    BY DEF Closed
  <2>1. n \in R /\ f[n] \in R /\ k[n] < k[f[n]] /\ k[n] \in Nat /\ k[f[n]] \in Nat /\ k[q] \in Nat
    BY <1>3, <1>5
  <2>2. CASE n \in Lost \cup {q}
    BY <2>1, <2>2
  <2>3. CASE n \notin Lost \cup {q}
    BY <1>2, <1>5, <2>1, <2>3 DEF Closed
  <2> QED  BY <2>2, <2>3
<1>10. R \subseteq (Q \cap R) \cup Lost
  <2>1. x \in (Q \cap R) \cup Lost \cup {nil} /\ (Q \cap R) \cup Lost \in SUBSET N
    BY <1>1, <1>2
  <2> QED  BY <1>9, <2>1, ReachIsLeast DEF R
<1>11. Kept \subseteq Q
  <2> SUFFICES ASSUME NEW n \in Kept PROVE n \in Q
    OBVIOUS
  <2>1. n \notin Lost
    BY <1>3, <1>5
  <2> QED  BY <1>10, <2>1
<1>12. c \in Q
  <2>1. q \in Q
    BY <1>3, <1>5, <1>11
  <2> QED  BY <1>1, <1>2, <2>1 DEF Closed
<1> QED  BY <1>8, <1>11, <1>12 DEF Q, R

-----------------------------------------------------------------------------
(* Numbers                                                                 *)

\* The only set of numbers that has 0 and the successors of its members.
LEMMA Induction ==
  ASSUME NEW T \in SUBSET Nat, 0 \in T, \A n \in T : n + 1 \in T
  PROVE  T = Nat
<1> SUFFICES ASSUME Nat \ T # {} PROVE FALSE
  OBVIOUS
<1> DEFINE Less == OpToRel(<, Nat)
<1>1. IsWellFoundedOn(Less, Nat)
  BY NatLessThanWellFounded
<1>2. \A m, n \in Nat : n < m => <<n, m>> \in Less
  BY DEF OpToRel
<1> HIDE DEF Less
<1>3. PICK m \in Nat \ T : \A n \in Nat \ T : <<n, m>> \notin Less
  BY <1>1, WFMin
<1>4. m # 0 /\ m - 1 \in Nat /\ m - 1 < m
  OBVIOUS
<1>5. m - 1 \in T
  BY <1>2, <1>3, <1>4
<1> QED  BY <1>5

\* A set of numbers has a least one; below a bound it has a greatest.
LEMMA Least ==
  ASSUME NEW T \in SUBSET Nat, T # {}
  PROVE  \E m \in T : \A n \in T : m <= n
<1> DEFINE Less == OpToRel(<, Nat)
<1>1. IsWellFoundedOn(Less, Nat)
  BY NatLessThanWellFounded
<1>2. \A m, n \in Nat : n < m => <<n, m>> \in Less
  BY DEF OpToRel
<1> HIDE DEF Less
<1>3. PICK m \in T : \A n \in T : <<n, m>> \notin Less
  BY <1>1, WFMin
<1>4. \A n \in T : ~(n < m) /\ n \in Nat /\ m \in Nat
  BY <1>2, <1>3
<1> QED  BY <1>4

LEMMA Greatest ==
  ASSUME NEW b \in Nat, NEW T \in SUBSET (0 .. b), T # {}
  PROVE  \E m \in T : \A n \in T : n <= m
<1> DEFINE U == {u \in Nat : u <= b /\ b - u \in T}
<1>1. PICK t \in T : TRUE
  OBVIOUS
<1>2. b - t \in U /\ U \in SUBSET Nat
  OBVIOUS
<1>3. PICK m \in U : \A n \in U : m <= n
  BY <1>2, Least
<1>4. ASSUME NEW n \in T PROVE n <= b - m
  <2>1. b - n \in U
    OBVIOUS
  <2> QED  BY <1>3, <2>1
<1> QED  BY <1>3, <1>4

\* Products of larger numbers are larger.
LEMMA ProductGrows ==
  ASSUME NEW a1 \in Nat, NEW a2 \in Nat, NEW b1 \in Nat, NEW b2 \in Nat, a1 <= b1, a2 <= b2
  PROVE  a1 * a2 \in Nat /\ b1 * b2 \in Nat /\ a1 * a2 <= b1 * b2
<1>1. a1 * a2 \in Nat /\ b1 * a2 \in Nat /\ b1 * b2 \in Nat
  OBVIOUS
<1>2. a1 * a2 <= b1 * a2
  OBVIOUS
<1>3. b1 * a2 <= b1 * b2
  OBVIOUS
<1> QED  BY <1>1, <1>2, <1>3

\* Quotient and remainder.
LEMMA DivModIs ==
  ASSUME NEW M \in Nat \ {0}, NEW a \in Nat, NEW q \in Nat, NEW r \in 0 .. M - 1, a = M * q + r
  PROVE  a \div M = q /\ a % M = r
<1>1. a \div M = q
  OBVIOUS
<1>2. a % M = r
  OBVIOUS
<1> QED  BY <1>1, <1>2

LEMMA DivMod ==
  ASSUME NEW M \in Nat \ {0}, NEW a \in Nat
  PROVE  \E q \in Nat, r \in 0 .. M - 1 : a = M * q + r
<1> DEFINE T == {n \in Nat : \E q \in Nat, r \in 0 .. M - 1 : n = M * q + r}
<1>1. 0 \in T /\ T \in SUBSET Nat
  <2>1. 0 = M * 0 + 0 /\ 0 \in Nat /\ 0 \in 0 .. M - 1
    OBVIOUS
  <2> QED  BY <2>1
<1>2. ASSUME NEW n \in T PROVE n + 1 \in T
  <2> PICK q \in Nat, r \in 0 .. M - 1 : n = M * q + r
    OBVIOUS
  <2>1. CASE r + 1 = M
    <3>1. n + 1 = M * (q + 1) + 0 /\ q + 1 \in Nat /\ 0 \in 0 .. M - 1
      BY <2>1
    <3>2. \E p \in Nat, z \in 0 .. M - 1 : n + 1 = M * p + z
      BY <3>1, Zenon
    <3> QED  BY <3>2
  <2>2. CASE r + 1 # M
    <3>1. n + 1 = M * q + (r + 1) /\ r + 1 \in 0 .. M - 1
      BY <2>2
    <3> QED  BY <3>1
  <2> QED  BY <2>1, <2>2
<1> HIDE DEF T
<1>3. a \in T
  BY <1>1, <1>2, Induction
<1> QED  BY <1>3 DEF T

\* Counting up modulo M.
LEMMA DivModNext ==
  ASSUME NEW M \in Nat \ {0}, NEW a \in Nat
  PROVE  /\ a % M \in 0 .. M - 1 /\ ((a % M) + 1) % M = (a + 1) % M
         /\ a \div M \in Nat
         /\ (a + 1) \div M = IF (a + 1) % M = 0 THEN (a \div M) + 1 ELSE a \div M
<1> PICK q \in Nat, r \in 0 .. M - 1 : a = M * q + r
  BY DivMod
<1>0. a \div M = q /\ a % M = r
  BY DivModIs
<1>1. CASE r + 1 = M
  <2>1. a + 1 = M * (q + 1) + 0 /\ r + 1 = M * 1 + 0 /\ 0 \in 0 .. M - 1 /\ q + 1 \in Nat
    BY <1>1
  <2>2. (a + 1) \div M = q + 1 /\ (a + 1) % M = 0
    BY <2>1, DivModIs
  <2>3. (r + 1) % M = 0
    BY <2>1, DivModIs
  <2> QED  BY <1>0, <2>2, <2>3
<1>2. CASE r + 1 # M
  <2>1. a + 1 = M * q + (r + 1) /\ r + 1 \in 0 .. M - 1 /\ r + 1 = M * 0 + (r + 1)
    BY <1>2
  <2>2. (a + 1) \div M = q /\ (a + 1) % M = r + 1
    BY <2>1, DivModIs
  <2>3. (r + 1) % M = r + 1
    BY <2>1, DivModIs
  <2> QED  BY <1>0, <2>2, <2>3
<1> QED  BY <1>1, <1>2

-----------------------------------------------------------------------------
(* Sums                                                                    *)

\* The sums of the first n values of f.
SumTo(f) == CHOOSE s : s = [n \in Nat |-> IF n = 0 THEN 0 ELSE s[n - 1] + f[n - 1]]

IsSum(s, f, m) == s[0] = 0 /\ \A n \in 1 .. m : s[n] = s[n - 1] + f[n - 1]

LEMMA SumsExist ==
  ASSUME NEW f, NEW m \in Nat
  PROVE  \E s : IsSum(s, f, m)
<1> DEFINE T == {n \in Nat : \E s : IsSum(s, f, n)}
<1>1. IsSum([n \in {0} |-> 0], f, 0)
  BY DEF IsSum
<1>2. ASSUME NEW n \in T PROVE n + 1 \in T
  <2> PICK s : IsSum(s, f, n)
    OBVIOUS
  <2> DEFINE t == [i \in 0 .. n + 1 |-> IF i = n + 1 THEN s[n] + f[n] ELSE s[i]]
  <2>1. t[0] = 0 /\ t[n + 1] = s[n] + f[n] /\ t[n] = s[n] /\ \A i \in 1 .. n : t[i] = s[i] /\ t[i - 1] = s[i - 1]
    BY DEF IsSum
  <2> HIDE DEF t
  <2>2. IsSum(t, f, n + 1)
    BY <2>1 DEF IsSum
  <2> QED  BY <2>2
<1> HIDE DEF T
<1>3. 0 \in T /\ T \in SUBSET Nat
  BY <1>1 DEF T
<1>4. m \in T
  BY <1>2, <1>3, Induction
<1> QED  BY <1>4 DEF T

LEMMA SumsAgree ==
  ASSUME NEW f, NEW m \in Nat, NEW s, NEW t, IsSum(s, f, m), IsSum(t, f, m), NEW k \in 0 .. m
  PROVE  s[k] = t[k]
<1> DEFINE T == {n \in Nat : n <= m => s[n] = t[n]}
<1>1. 0 \in T /\ T \in SUBSET Nat
  BY DEF IsSum
<1>2. ASSUME NEW n \in T PROVE n + 1 \in T
  BY DEF IsSum
<1> HIDE DEF T
<1>3. T = Nat
  BY <1>1, <1>2, Induction
<1> QED  BY <1>3 DEF T

\* The next one is the last one and one value more.
LEMMA SumNext ==
  ASSUME NEW f
  PROVE  SumTo(f)[0] = 0 /\ \A n \in Nat : SumTo(f)[n + 1] = SumTo(f)[n] + f[n]
<1> DEFINE g == [n \in Nat |-> (CHOOSE s : IsSum(s, f, n))[n]]
<1>1. \A n \in Nat : IsSum(CHOOSE s : IsSum(s, f, n), f, n)
  BY SumsExist
<1>2. g[0] = 0
  BY <1>1 DEF IsSum
<1>3. ASSUME NEW n \in Nat \ {0} PROVE g[n] = g[n - 1] + f[n - 1]
  <2> PICK s : s = CHOOSE r : IsSum(r, f, n)
    OBVIOUS
  <2> PICK t : t = CHOOSE r : IsSum(r, f, n - 1)
    OBVIOUS
  <2>1. IsSum(s, f, n) /\ IsSum(t, f, n - 1) /\ g[n] = s[n] /\ g[n - 1] = t[n - 1]
    BY <1>1
  <2> HIDE DEF g
  <2>2. IsSum(s, f, n - 1) /\ s[n] = s[n - 1] + f[n - 1]
    BY <2>1 DEF IsSum
  <2>3. s[n - 1] = t[n - 1]
    BY <2>1, <2>2, SumsAgree
  <2> QED  BY <2>1, <2>2, <2>3
<1> DEFINE h == [n \in Nat |-> IF n = 0 THEN 0 ELSE g[n - 1] + f[n - 1]]
<1>4. g = h
  <2>1. \A n \in Nat : g[n] = h[n]
    BY <1>2, <1>3
  <2>2. g = [n \in Nat |-> g[n]] /\ h = [n \in Nat |-> h[n]]
    OBVIOUS
  <2> HIDE DEF g, h
  <2> QED  BY <2>1, <2>2
<1> HIDE DEF g
<1>5. SumTo(f) = [n \in Nat |-> IF n = 0 THEN 0 ELSE SumTo(f)[n - 1] + f[n - 1]]
  BY <1>4 DEF SumTo
<1> QED  BY <1>5

\* A sum depends on the values it is of.
LEMMA SumSame ==
  ASSUME NEW f, NEW g, NEW m \in Nat, \A n \in 0 .. m - 1 : f[n] = g[n]
  PROVE  SumTo(f)[m] = SumTo(g)[m]
<1> DEFINE T == {n \in Nat : n <= m => SumTo(f)[n] = SumTo(g)[n]}
<1>1. 0 \in T /\ T \in SUBSET Nat
  BY SumNext
<1>2. ASSUME NEW n \in T PROVE n + 1 \in T
  BY SumNext
<1> HIDE DEF T
<1>3. T = Nat
  BY <1>1, <1>2, Induction
<1> QED  BY <1>3 DEF T

LEMMA SumIsNat ==
  ASSUME NEW f, NEW m \in Nat, \A n \in 0 .. m - 1 : f[n] \in Nat
  PROVE  SumTo(f)[m] \in Nat
<1> DEFINE T == {n \in Nat : n <= m => SumTo(f)[n] \in Nat}
<1>1. 0 \in T /\ T \in SUBSET Nat
  BY SumNext
<1>2. ASSUME NEW n \in T PROVE n + 1 \in T
  BY SumNext
<1> HIDE DEF T
<1>3. T = Nat
  BY <1>1, <1>2, Induction
<1> QED  BY <1>3 DEF T

LEMMA SumZero ==
  ASSUME NEW f, NEW m \in Nat, \A n \in 0 .. m - 1 : f[n] = 0
  PROVE  SumTo(f)[m] = 0
<1> DEFINE T == {n \in Nat : n <= m => SumTo(f)[n] = 0}
<1>1. 0 \in T /\ T \in SUBSET Nat
  BY SumNext
<1>2. ASSUME NEW n \in T PROVE n + 1 \in T
  BY SumNext
<1> HIDE DEF T
<1>3. T = Nat
  BY <1>1, <1>2, Induction
<1> QED  BY <1>3 DEF T

\* One value that grows by one makes the sum grow by one.
LEMMA SumGrows ==
  ASSUME NEW f, NEW g, NEW m \in Nat, NEW w \in 0 .. m - 1,
         \A n \in 0 .. m - 1 : f[n] \in Nat,
         \A n \in 0 .. m - 1 : g[n] = IF n = w THEN f[n] + 1 ELSE f[n]
  PROVE  SumTo(g)[m] = SumTo(f)[m] + 1
<1> DEFINE T == {n \in Nat : n <= m => /\ SumTo(f)[n] \in Nat
                                       /\ SumTo(g)[n] = IF w < n THEN SumTo(f)[n] + 1 ELSE SumTo(f)[n]}
<1>1. 0 \in T /\ T \in SUBSET Nat
  BY SumNext
<1>2. ASSUME NEW n \in T PROVE n + 1 \in T
  BY SumNext
<1> HIDE DEF T
<1>3. T = Nat
  BY <1>1, <1>2, Induction
<1> QED  BY <1>3 DEF T

=============================================================================
