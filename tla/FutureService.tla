---------------------------- MODULE FutureService ----------------------------
(***************************************************************************)
(* What the futures module promises a Janet program, without processes,    *)
(* pages or a linked list: the i-th call of (future f) returns the handle  *)
(* i, a handle is a write-once box that is still empty (:PENDING) when it  *)
(* is handed out, and (realize i) reads it.                                *)
(***************************************************************************)
EXTENDS Naturals, Sequences

CONSTANTS Results,  \* what the body of a future may return
          PENDING   \* the keyword :PENDING

VARIABLE promise    \* promise[i] is what (realize i) answers

Init == promise = <<>>

\* (future f) returns: a new handle.
Spawn == promise' = Append(promise, PENDING)

\* The body of a pending future has finished.
Resolve == \E i \in DOMAIN promise, v \in Results :
              /\ promise[i] = PENDING
              /\ promise' = [promise EXCEPT ![i] = v]

Next == Spawn \/ Resolve

Spec == Init /\ [][Next]_promise
=============================================================================
