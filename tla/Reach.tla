------------------------------- MODULE Reach -------------------------------
(***************************************************************************)
(* What a linked structure leads to.  N are its cells, f[n] is the cell    *)
(* after n, nil is no cell.                                                *)
(*                                                                         *)
(* What can be reached is defined as the least set that has the first cell *)
(* and is closed under f, not by following f step by step: nothing has to  *)
(* be known of N, and the facts in SharedLemmas need no induction.        *)
(***************************************************************************)

Closed(f, nil, S) == \A n \in S : f[n] = nil \/ f[n] \in S

\* The cells from x on.
Reach(N, f, nil, x) ==
  LET All == {S \in SUBSET N : (x = nil \/ x \in S) /\ Closed(f, nil, S)}
  IN  {n \in N : \A S \in All : n \in S}

=============================================================================
