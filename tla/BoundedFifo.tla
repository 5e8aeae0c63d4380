----------------------------- MODULE BoundedFifo -----------------------------
(***************************************************************************)
(* What the mailbox of a Janet thread promises, without a ring, locks or   *)
(* waiting: at most Cap messages, delivered in the order they were put.    *)
(***************************************************************************)
EXTENDS Naturals, Sequences

CONSTANTS Msgs,   \* the messages
          Cap     \* messageCapacity

VARIABLE queue

Init == queue = <<>>

Put == Len(queue) < Cap /\ \E m \in Msgs : queue' = Append(queue, m)

Take == queue # <<>> /\ queue' = Tail(queue)

Next == Put \/ Take

Spec == Init /\ [][Next]_queue
=============================================================================
