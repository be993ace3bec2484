------------------------------- MODULE KVMap -------------------------------
(***************************************************************************)
(* What the function table KVMapVTable of kv_common.h promises its callers *)
(* (bench.c calls the maps through nothing else): put, get and del of a    *)
(* map from keys to values, each taking effect at one instant between its  *)
(* call and its return.                                                    *)
(*                                                                         *)
(* Cut[k] is what else a put loses when it inserts the new key k: nothing  *)
(* in a map that keeps the promise.  The lock-free list is also held       *)
(* against this specification, with the Cut that it has.  Given[v] is what *)
(* a get hands out of a value v: v itself, except in the wrongget map.     *)
(***************************************************************************)
CONSTANTS
  Thread,   \* the threads that call
  Key,
  Value,    \* what a value buffer can hold after a put
  NoValue,  \* no value (none of Value): the key is not in the map, the call has none
  Cut,      \* Cut[k]: the other keys that go when k comes
  Given     \* Given[v]: what a get makes of v

VARIABLES
  store,    \* the map
  status,   \* where each thread is: "idle", "called" or "done"
  call,     \* its last call
  answer    \* the answer to it

vars == <<store, status, call, answer>>

PutCall == [op : {"put"}, key : Key, val : Value]
GetCall == [op : {"get"}, key : Key, val : {NoValue}]
DelCall == [op : {"del"}, key : Key, val : {NoValue}]
Request == PutCall \cup GetCall \cup DelCall

NoCall == [op |-> "none"]
Answers(r, v) == [ret |-> r, val |-> v]
NoAnswer == Answers(0, NoValue)

Init ==
  /\ store  = [k \in Key |-> NoValue]
  /\ status = [t \in Thread |-> "idle"]
  /\ call   = [t \in Thread |-> NoCall]
  /\ answer = [t \in Thread |-> NoAnswer]

Present(k) == store[k] # NoValue

Call(t, c) ==
  /\ status[t] = "idle"
  /\ status' = [status EXCEPT ![t] = "called"]
  /\ call'   = [call EXCEPT ![t] = c]
  /\ UNCHANGED <<store, answer>>

\* The call of t takes effect, and this is its answer.
Answered(t, a) ==
  /\ status[t] = "called"
  /\ status' = [status EXCEPT ![t] = "done"]
  /\ answer' = [answer EXCEPT ![t] = a]
  /\ UNCHANGED call

\* put returns 1 and the value is there, under a key that was there or is new.
Put(t) ==
  /\ call[t] \in PutCall
  /\ Answered(t, Answers(1, NoValue))
  /\ LET k == call[t].key
     IN  store' = [j \in Key |-> IF j = k THEN call[t].val
                                 ELSE IF ~Present(k) /\ j \in Cut[k] THEN NoValue
                                 ELSE store[j]]

\* put returns 0 for want of memory; only a new key needs any.
PutFails(t) ==
  /\ call[t] \in PutCall
  /\ Answered(t, NoAnswer)
  /\ ~Present(call[t].key)
  /\ UNCHANGED store

\* get returns 1 and the value, or 0.
Get(t) ==
  /\ call[t] \in GetCall
  /\ Answered(t, IF Present(call[t].key) THEN Answers(1, Given[store[call[t].key]]) ELSE NoAnswer)
  /\ UNCHANGED store

\* del returns 1 and the key is gone, or 0: it was not there.
Del(t) ==
  /\ call[t] \in DelCall
  /\ Answered(t, IF Present(call[t].key) THEN Answers(1, NoValue) ELSE NoAnswer)
  /\ store' = [store EXCEPT ![call[t].key] = NoValue]

Return(t) ==
  /\ status[t] = "done"
  /\ status' = [status EXCEPT ![t] = "idle"]
  /\ call'   = [call EXCEPT ![t] = NoCall]
  /\ answer' = [answer EXCEPT ![t] = NoAnswer]
  /\ UNCHANGED store

Next ==
  \E t \in Thread :
    \/ \E c \in Request : Call(t, c)
    \/ Put(t) \/ PutFails(t) \/ Get(t) \/ Del(t)
    \/ Return(t)

Spec == Init /\ [][Next]_vars

=============================================================================
