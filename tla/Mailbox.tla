------------------------------- MODULE Mailbox -------------------------------
(***************************************************************************)
(* The mailbox of one Janet thread (amalg/janet.c, section thread.c): a    *)
(* ring of message buffers, one lock, ONE condition variable for senders   *)
(* and receiver alike, a reference count.  The receiver is the thread that *)
(* owns the mailbox; a sender is any other thread that holds a handle.     *)
(*                                                                         *)
(* What happens between lock and unlock, or between two waits, is one      *)
(* step.  The signal comes after the unlock, so it is a step of its own.   *)
(* The POSIX build is modelled.                                            *)
(***************************************************************************)
EXTENDS Integers, FiniteSets

CONSTANTS
  Senders,       \* threads holding a handle
  Receiver,      \* the owner
  Cap,           \* messageCapacity (10 for the main thread, 16 for others)
  MaxSends,      \* bound on the calls of janet_thread_send, per sender
  SendWaits,     \* timeouts given to send: "nowait", "timed", "inf"
  ReceiveWaits,  \* timeouts given to receive
  Faults,        \* "marshal", "unmarshal": which of them may panic
  Closes,        \* TRUE if handles are closed and the owner may exit
  Partial        \* what a buffer holds initially and after a failed marshal

ASSUME CapPositive == Cap \in Nat \ {0}
ASSUME ThreadsDiffer == IsFiniteSet(Senders) /\ Receiver \notin Senders
ASSUME WaitsKnown == SendWaits \cup ReceiveWaits \subseteq {"nowait", "timed", "inf"}
ASSUME BoundIsNat == MaxSends \in Nat

Threads == Senders \cup {Receiver}
Msgs == [from : Senders, n : 1..MaxSends, bad : BOOLEAN]
ASSUME PartialIsNoMessage == Partial \notin Msgs

VARIABLES
  messages,               \* the buffers of the ring
  messageCount, messageFirst, messageNext,
  refCount, closed,
  freed,                  \* janet_mailbox_destroy has run
  waiters,                \* threads blocked on the condition variable
  handle,                 \* thread->mailbox of a sender's handle is not NULL
  pc, wait,               \* where each thread is; its JanetWaiter
  status,                 \* what its last call returned (0, 1, 2)
  sends                   \* calls of send made by each sender

ring == <<messages, messageCount, messageFirst, messageNext>>
life == <<refCount, closed, freed, handle>>
vars == <<ring, life, waiters, pc, wait, status, sends>>

-----------------------------------------------------------------------------
Slots == 0..(Cap - 1)
succ(i) == (i + 1) % Cap
\* Mutant: one message too many.
above_capacity == messageCount > Cap

mailbox_at_capacity == messageCount >= Cap

Init == /\ messages = [i \in Slots |-> Partial]
        /\ messageCount = 0 /\ messageFirst = 0 /\ messageNext = 0
        /\ refCount = Cardinality(Senders) + 1
        /\ closed = FALSE /\ freed = FALSE
        /\ handle = [s \in Senders |-> TRUE]
        /\ waiters = {}
        /\ pc = [t \in Threads |-> "idle"]
        /\ wait = [t \in Threads |-> "nowait"]
        /\ status = [t \in Threads |-> 0]
        /\ sends = [s \in Senders |-> 0]

\* janet_mailbox_ref_with_lock(mailbox, -1)
Unref == /\ refCount' = refCount - 1
         /\ freed' = (freed \/ refCount' =< 0)

\* The end of a call, with or without a signal after the unlock; its
\* JanetWaiter is gone.
Finish(t, to, st) == /\ pc' = [pc EXCEPT ![t] = to]
                     /\ status' = [status EXCEPT ![t] = st]
                     /\ wait' = [wait EXCEPT ![t] = "nowait"]
Return(t, st) == Finish(t, "idle", st)
SignalAndReturn(t, st) == Finish(t, "signal", st)

\* pthread_cond_wait or pthread_cond_timedwait: unlocks and blocks.
Block(t, w) == /\ pc' = [pc EXCEPT ![t] = "wait"]
               /\ wait' = [wait EXCEPT ![t] = w]
               /\ waiters' = waiters \cup {t}
               /\ UNCHANGED status

-----------------------------------------------------------------------------
(* janet_thread_send *)

\* Mutant: messageNext has already been advanced when marshalling panics.
EnqueueSkipsSlot(s, n) ==
  \/ /\ messages' = [messages EXCEPT ![messageNext] = [from |-> s, n |-> n, bad |-> FALSE]]
     /\ messageNext' = succ(messageNext)
     /\ messageCount' = messageCount + 1
     /\ SignalAndReturn(s, 0)
     /\ UNCHANGED <<messageFirst, waiters>>
  \/ /\ "marshal" \in Faults
     /\ messages' = [messages EXCEPT ![messageNext] = Partial]
     /\ messageNext' = succ(messageNext)
     /\ SignalAndReturn(s, 1)
     /\ UNCHANGED <<messageCount, messageFirst, waiters>>

\* Mutant: ret starts as 1 and is not cleared on success.
EnqueueRetUnset(s, n) ==
  /\ messages' = [messages EXCEPT ![messageNext] = [from |-> s, n |-> n, bad |-> FALSE]]
  /\ messageNext' = succ(messageNext)
  /\ messageCount' = messageCount + 1
  /\ SignalAndReturn(s, 1)
  /\ UNCHANGED <<messageFirst, waiters>>

\* The part after the back pressure: marshal into the next buffer.
Enqueue(s, n) ==
  \/ \E b \in IF "unmarshal" \in Faults THEN BOOLEAN ELSE {FALSE} :
       /\ messages' = [messages EXCEPT ![messageNext] = [from |-> s, n |-> n, bad |-> b]]
       /\ messageNext' = succ(messageNext)
       /\ messageCount' = messageCount + 1
       /\ SignalAndReturn(s, 0)
       /\ UNCHANGED <<messageFirst, waiters>>
  \/ /\ "marshal" \in Faults
     /\ messages' = [messages EXCEPT ![messageNext] = Partial]
     /\ SignalAndReturn(s, 1)
     /\ UNCHANGED <<messageCount, messageFirst, messageNext, waiters>>

BeginSend(s) == /\ pc[s] = "idle" /\ sends[s] < MaxSends
                /\ sends' = [sends EXCEPT ![s] = @ + 1]

SendNoHandle(s) == /\ BeginSend(s) /\ ~handle[s]
                   /\ Return(s, 2)
                   /\ UNCHANGED <<ring, life, waiters>>

SendClosed(s) == /\ BeginSend(s) /\ handle[s] /\ closed
                 /\ Unref /\ handle' = [handle EXCEPT ![s] = FALSE]
                 /\ Return(s, 2)
                 /\ UNCHANGED <<ring, closed, waiters>>

SendFull(s) == /\ BeginSend(s) /\ handle[s] /\ ~closed
               /\ mailbox_at_capacity
               /\ \E w \in SendWaits : IF w = "nowait"
                                       THEN Return(s, 1) /\ UNCHANGED waiters
                                       ELSE Block(s, w)
               /\ UNCHANGED <<ring, life>>

SendNow(s) == /\ BeginSend(s) /\ handle[s] /\ ~closed
              /\ ~mailbox_at_capacity
              /\ Enqueue(s, sends[s] + 1)
              /\ UNCHANGED life

\* Mutant: every turn of the retry loop computes a new deadline.
SendRetryRearmed(s) == /\ pc[s] = "woken"
                       /\ \/ /\ mailbox_at_capacity
                             /\ Block(s, IF wait[s] = "inf" THEN "inf" ELSE "timed")
                             /\ UNCHANGED ring
                          \/ ~mailbox_at_capacity /\ Enqueue(s, sends[s])
                       /\ UNCHANGED <<life, sends>>

\* The retry loop, after janet_waiter_wait: closed is not looked at again, and
\* a wait whose deadline has passed does not block.
SendRetry(s) == /\ pc[s] = "woken"
                /\ \/ /\ mailbox_at_capacity /\ wait[s] = "expired"
                      /\ SignalAndReturn(s, 1) /\ UNCHANGED <<ring, waiters>>
                   \/ /\ mailbox_at_capacity /\ wait[s] # "expired"
                      /\ Block(s, wait[s]) /\ UNCHANGED ring
                   \/ /\ ~mailbox_at_capacity
                      /\ Enqueue(s, sends[s])
                /\ UNCHANGED <<life, sends>>

\* pthread_cond_timedwait of a sender times out; it returns ETIMEDOUT when it
\* has the lock again, and the ring is not looked at any more.
SendTimeout(s) == /\ s \in waiters /\ wait[s] = "expired"
                  /\ waiters' = waiters \ {s}
                  /\ pc' = [pc EXCEPT ![s] = "timedout"]
                  /\ UNCHANGED <<ring, life, wait, status, sends>>

\* Mutant: a sender that gives up keeps the signal it was woken by.
SendGiveUpSilently(s) == /\ pc[s] = "timedout"
                         /\ Return(s, 1)
                         /\ UNCHANGED <<ring, life, waiters, sends>>

SendGiveUp(s) == /\ pc[s] = "timedout"
                 /\ SignalAndReturn(s, 1)
                 /\ UNCHANGED <<ring, life, waiters, sends>>

-----------------------------------------------------------------------------
(* janet_thread_receive *)

\* One turn of for (;;).  A message that janet_unmarshal rejects is lost, and
\* the turn goes on to wait although more messages may be there.
ReceiveTurn(w) ==
  \/ /\ messageCount > 0 /\ ~messages[messageFirst].bad
     /\ messageCount' = messageCount - 1
     /\ messageFirst' = succ(messageFirst)
     /\ SignalAndReturn(Receiver, 0) /\ UNCHANGED waiters
  \/ /\ \/ messageCount = 0 /\ UNCHANGED <<messageCount, messageFirst>>
        \/ /\ messageCount > 0 /\ messages[messageFirst].bad
           /\ messageCount' = messageCount - 1
           /\ messageFirst' = succ(messageFirst)
     /\ IF w \in {"nowait", "expired"}
        THEN Return(Receiver, 1) /\ UNCHANGED waiters
        ELSE Block(Receiver, w)

ReceiveBegin == /\ pc[Receiver] = "idle"
                /\ \E w \in ReceiveWaits : ReceiveTurn(w)
                /\ UNCHANGED <<messages, messageNext, life, sends>>

ReceiveRetry == /\ pc[Receiver] = "woken"
                /\ ReceiveTurn(wait[Receiver])
                /\ UNCHANGED <<messages, messageNext, life, sends>>

\* ETIMEDOUT: no second look at messageCount, and no wakeup.
ReceiveTimeout == /\ Receiver \in waiters /\ wait[Receiver] = "expired"
                  /\ waiters' = waiters \ {Receiver}
                  /\ Return(Receiver, 1)
                  /\ UNCHANGED <<ring, life, sends>>

-----------------------------------------------------------------------------
(* The condition variable and the clock *)

Leave(t) == /\ waiters' = waiters \ {t}
            /\ pc' = [pc EXCEPT ![t] = "woken"]

\* janet_mailbox_wakeup: pthread_cond_signal wakes one waiter, if any.
Signal(t) == /\ pc[t] = "signal"
             /\ \/ /\ waiters = {} /\ UNCHANGED waiters
                   /\ pc' = [pc EXCEPT ![t] = "idle"]
                \/ \E u \in waiters :
                     /\ waiters' = waiters \ {u}
                     /\ pc' = [pc EXCEPT ![t] = "idle", ![u] = "woken"]
             /\ UNCHANGED <<ring, life, wait, status, sends>>

Spurious(t) == /\ t \in waiters /\ Leave(t)
               /\ UNCHANGED <<ring, life, wait, status, sends>>

\* The absolute deadline of a timed call passes.
Deadline(t) == /\ wait[t] = "timed"
               /\ wait' = [wait EXCEPT ![t] = "expired"]
               /\ UNCHANGED <<ring, life, waiters, pc, status, sends>>

-----------------------------------------------------------------------------
(* Closing *)

\* Mutant: thread->mailbox is not set to NULL.
CloseKeepsPointer(s) == /\ Closes /\ pc[s] = "idle" /\ handle[s]
                        /\ Unref
                        /\ UNCHANGED <<ring, handle, closed, waiters, pc, wait, status, sends>>

\* janet_close_thread: thread/close, the handle's finalizer, or the sender's
\* own exit (janet_deinit finalizes every handle).
CloseHandle(s) == /\ Closes /\ pc[s] = "idle" /\ handle[s]
                  /\ Unref /\ handle' = [handle EXCEPT ![s] = FALSE]
                  /\ UNCHANGED <<ring, closed, waiters, pc, wait, status, sends>>

\* janet_threads_deinit of the owner.
Deinit == /\ Closes /\ pc[Receiver] = "idle"
          /\ closed' = TRUE /\ Unref
          /\ pc' = [pc EXCEPT ![Receiver] = "gone"]
          /\ UNCHANGED <<ring, handle, waiters, wait, status, sends>>

-----------------------------------------------------------------------------
SenderCall(s) == SendRetry(s) \/ SendTimeout(s) \/ SendGiveUp(s) \/ Signal(s)
SenderBegin(s) == SendNoHandle(s) \/ SendClosed(s) \/ SendFull(s) \/ SendNow(s)
ReceiverCall == ReceiveRetry \/ ReceiveTimeout \/ Signal(Receiver)

Next == \/ \E s \in Senders : SenderBegin(s) \/ SenderCall(s) \/ CloseHandle(s)
        \/ ReceiveBegin \/ ReceiverCall \/ Deinit
        \/ \E t \in Threads : Spurious(t) \/ Deadline(t)

Spec == Init /\ [][Next]_vars

\* A thread in a call is scheduled and gets the lock; deadlines pass.  Nothing obliges a thread to send, to receive or to
\* close, or a signal to be fair about the waiter it wakes.
FairSpec == /\ Spec
            /\ \A s \in Senders : WF_vars(SenderCall(s))
            /\ WF_vars(ReceiverCall)
            /\ \A t \in Threads : WF_vars(Deadline(t))

-----------------------------------------------------------------------------
(* Properties *)

PCs == {"idle", "wait", "woken", "timedout", "signal", "gone"}

TypeOK == /\ messages \in [Slots -> Msgs \cup {Partial}]
          /\ messageCount \in 0..Cap /\ messageFirst \in Slots /\ messageNext \in Slots
          /\ refCount \in Int /\ closed \in BOOLEAN /\ freed \in BOOLEAN
          /\ waiters \subseteq Threads
          /\ handle \in [Senders -> BOOLEAN]
          /\ pc \in [Threads -> PCs]
          /\ wait \in [Threads -> {"nowait", "timed", "expired", "inf"}]
          /\ status \in [Threads -> {0, 1, 2}]
          /\ sends \in [Senders -> 0..MaxSends]

queue == [i \in 1..messageCount |-> messages[(messageFirst + i - 1) % Cap]]

\* The cursors and the count of the ring agree: no send overwrites a message
\* that has not been received, and a receive never reads a buffer that no send
\* completed, whatever calls fail, time out or retry in between.
RingIntact == /\ messageNext = (messageFirst + messageCount) % Cap
              /\ \A i \in 1..messageCount : queue[i] # Partial

\* The mailbox is a bounded FIFO: BoundedFifo under `queue'.
Fifo == INSTANCE BoundedFifo
FifoSpec == Fifo!Spec

\* What send reports is what happened: a send that panicked in the caller
\* (status 1 or 2) left no message behind, and one that is still blocked has
\* not put its message yet.
SendReportsTruth ==
  \A s \in Senders : \A i \in 1..messageCount :
     (pc[s] \in {"wait", "woken", "timedout"} \/ status[s] # 0)
        => ~(queue[i].from = s /\ queue[i].n = sends[s])

\* The reference count is the number of threads that can still reach the
\* mailbox; it is destroyed exactly when there is none, and never under a
\* thread that is waiting on its condition variable or about to signal it.
Holders == {s \in Senders : handle[s]} \cup (IF pc[Receiver] = "gone" THEN {} ELSE {Receiver})
NoUseAfterFree ==
  /\ refCount = Cardinality(Holders)
  /\ freed <=> Holders = {}
  /\ \A t \in Threads : pc[t] \notin {"idle", "gone"} => t \in Holders

\* A receiver blocked in thread/receive gets a message that is in its mailbox.
\* (It holds when no sender blocks for ever, since a sender that gives up passes
\* the signal on, and when every message can be unmarshalled.)
ReceiverWakes == (pc[Receiver] = "wait" /\ messageCount > 0) ~> (pc[Receiver] # "wait")

\* A call with a timeout ends, even if every signal went to somebody else.
TimedCallsEnd == \A t \in Threads :
  (pc[t] = "wait" /\ wait[t] \in {"timed", "expired"}) ~> (pc[t] = "idle")

=============================================================================
