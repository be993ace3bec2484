--------------------------- MODULE HarrisHistory ---------------------------
(***************************************************************************)
(* HarrisList with a history: how many nodes each call in progress has     *)
(* marked, that is, deleted.                                               *)
(***************************************************************************)
EXTENDS HarrisList

VARIABLE deleted

hvars == <<vars, deleted>>

HInit == Init /\ deleted = [t \in Thread |-> 0]

\* t marks a node in this step.
Deletes(t) == pc[t] = "mark" /\ pc'[t] = "unlink"

HNext ==
  /\ Next
  /\ deleted' = [t \in Thread |->
                   CASE pc'[t] = "idle" -> 0
                     [] Deletes(t) -> deleted[t] + 1
                     [] OTHER -> deleted[t]]

HSpec == HInit /\ [][HNext]_hvars

\* A del returns 1 when it has deleted its key, and 0 when it has not; it deletes
\* no more than one node.  The code breaks this when the compare-and-swap that
\* unlinks the marked node fails: del_impl starts over, and returns 0 for the key
\* it has just deleted, or deletes the node another put has inserted since.
DelTellsTheTruth ==
  \A t \in Thread : pc[t] = "done" /\ kind[t] = "del" => deleted[t] = ret[t]

=============================================================================
