---------------------------- MODULE MailboxProofs ----------------------------
(***************************************************************************)
(* Theorems about Mailbox, for every capacity, set of senders, timeout and *)
(* failure of marshalling.                                                 *)
(***************************************************************************)
EXTENDS Mailbox, SequenceTheorems, FiniteSetTheorems, TLAPS

\* A sender is in a call only after it has begun one, and the condition variable
\* knows only threads that block.
Calls == /\ \A s \in Senders : /\ pc[s] # "gone"
                               /\ pc[s] # "idle" => sends[s] \in 1..MaxSends
         /\ pc[Receiver] # "timedout"
         /\ \A t \in waiters : pc[t] = "wait"

Inv == TypeOK /\ RingIntact /\ Calls /\ NoUseAfterFree

\* The four things a step may do to the ring.
RingPush(m) == /\ messageCount < Cap
               /\ messages' = [messages EXCEPT ![messageNext] = m]
               /\ messageNext' = succ(messageNext)
               /\ messageCount' = messageCount + 1
               /\ messageFirst' = messageFirst
RingGarble == /\ messageCount < Cap
              /\ messages' = [messages EXCEPT ![messageNext] = Partial]
              /\ UNCHANGED <<messageCount, messageFirst, messageNext>>
RingPop == /\ messageCount > 0
           /\ messageCount' = messageCount - 1
           /\ messageFirst' = succ(messageFirst)
           /\ UNCHANGED <<messages, messageNext>>

-----------------------------------------------------------------------------
(* The ring *)

\* Two turns of the ring are all the arithmetic there is.
LEMMA ModTwoTurns ==
  ASSUME NEW x \in 0..(2 * Cap - 1)
  PROVE  x % Cap = IF x < Cap THEN x ELSE x - Cap
BY CapPositive

LEMMA SuccIsASlot ==
  ASSUME NEW i \in Slots
  PROVE  succ(i) \in Slots /\ succ(i) = IF i + 1 < Cap THEN i + 1 ELSE i + 1 - Cap
<1>1. i + 1 \in 0..(2 * Cap - 1)
  BY CapPositive DEF Slots
<1>2. (i + 1) % Cap = IF i + 1 < Cap THEN i + 1 ELSE i + 1 - Cap
  <2> DEFINE y == i + 1
  <2> HIDE DEF y
  <2>1. y \in 0..(2 * Cap - 1)
    BY <1>1 DEF y
  <2>2. y % Cap = IF y < Cap THEN y ELSE y - Cap
    BY <2>1, ModTwoTurns
  <2> QED BY <1>1, <2>2, CapPositive DEF y, Slots
<1> QED BY <1>2, CapPositive DEF Slots, succ

\* The buffer of the k-th queued message.
At(k) == (messageFirst + k - 1) % Cap

LEMMA AtIsASlot ==
  ASSUME TypeOK, NEW k \in 1..Cap
  PROVE  /\ At(k) \in Slots
         /\ At(k) = IF messageFirst + k - 1 < Cap THEN messageFirst + k - 1
                                                  ELSE messageFirst + k - 1 - Cap
<1>1. messageFirst \in 0..(Cap - 1) /\ Cap \in Nat /\ Cap > 0
  BY CapPositive DEF TypeOK, Slots
<1>2. messageFirst + k - 1 \in 0..(2 * Cap - 1)
  BY <1>1
<1>3. At(k) = IF messageFirst + k - 1 < Cap THEN messageFirst + k - 1
                                            ELSE messageFirst + k - 1 - Cap
  <2> DEFINE y == messageFirst + k - 1
  <2> HIDE DEF y
  <2>1. y \in 0..(2 * Cap - 1)
    BY <1>2 DEF y
  <2>2. y % Cap = IF y < Cap THEN y ELSE y - Cap
    BY <2>1, ModTwoTurns
  <2> QED BY <1>1, <2>2 DEF y, At
<1> QED BY <1>1, <1>3 DEF Slots

\* As long as there is room, the buffer a send writes holds no queued message.
LEMMA NextIsFree ==
  ASSUME TypeOK, RingIntact, messageCount < Cap
  PROVE  /\ messageNext = At(messageCount + 1)
         /\ \A k \in 1..messageCount : At(k) # messageNext
<1>1. messageFirst \in 0..(Cap - 1) /\ Cap \in Nat /\ Cap > 0 /\ messageCount \in 0..Cap
  BY CapPositive DEF TypeOK, Slots
<1>2. messageNext = At(messageCount + 1)
  BY <1>1 DEF RingIntact, At
<1>3. ASSUME NEW k \in 1..messageCount
      PROVE  At(k) # messageNext
  <2>1. k \in 1..Cap /\ messageCount + 1 \in 1..Cap /\ k < messageCount + 1
    BY <1>1
  <2> QED BY <1>1, <1>2, <2>1, AtIsASlot
<1> QED BY <1>2, <1>3

LEMMA PushStep ==
  ASSUME TypeOK, TypeOK', RingIntact, NEW m \in Msgs, RingPush(m)
  PROVE  RingIntact' /\ queue' = Append(queue, m)
<1>1. /\ messageFirst \in 0..(Cap - 1) /\ Cap \in Nat /\ Cap > 0 /\ messageCount \in 0..(Cap - 1)
      /\ messageNext \in Slots
      /\ messages \in [Slots -> Msgs \cup {Partial}]
  BY CapPositive DEF TypeOK, Slots, RingPush
<1>2. \A k \in 1..Cap : At(k)' = At(k)
  BY DEF RingPush, At
<1>3. messageNext' = (messageFirst' + messageCount') % Cap
  <2>1. messageCount + 1 \in 1..Cap
    BY <1>1
  <2>2. messageNext = IF messageFirst + messageCount < Cap THEN messageFirst + messageCount
                      ELSE messageFirst + messageCount - Cap
    BY <1>1, <2>1, NextIsFree, AtIsASlot DEF RingPush
  <2>3. messageFirst + messageCount + 1 \in 0..(2 * Cap - 1)
    BY <1>1
  <2>4. (messageFirst + messageCount + 1) % Cap =
           IF messageFirst + messageCount + 1 < Cap THEN messageFirst + messageCount + 1
           ELSE messageFirst + messageCount + 1 - Cap
    <3> DEFINE y == messageFirst + messageCount + 1
    <3> HIDE DEF y
    <3>1. y \in 0..(2 * Cap - 1)
      BY <2>3 DEF y
    <3>2. y % Cap = IF y < Cap THEN y ELSE y - Cap
      BY <3>1, ModTwoTurns
    <3> QED BY <1>1, <3>2 DEF y
  <2>5. succ(messageNext) = (messageFirst + messageCount + 1) % Cap
    BY <1>1, <2>2, <2>4, SuccIsASlot
  <2>6. messageFirst' + messageCount' = messageFirst + messageCount + 1
    BY <1>1 DEF RingPush
  <2> QED BY <2>5, <2>6 DEF RingPush
<1>4. \A k \in 1..messageCount : messages'[At(k)] = messages[At(k)]
  <2> TAKE k \in 1..messageCount
  <2>1. k \in 1..Cap
    BY <1>1
  <2> QED BY <1>1, <2>1, NextIsFree, AtIsASlot DEF RingPush
<1>5. messages'[At(messageCount + 1)] = m
  BY <1>1, NextIsFree DEF RingPush
<1>6. queue' = Append(queue, m)
  <2>1. queue \in Seq(Msgs \cup {Partial}) /\ Len(queue) = messageCount
    <3>1. \A k \in 1..messageCount : messages[At(k)] \in Msgs \cup {Partial}
      <4> TAKE k \in 1..messageCount
      <4>1. k \in 1..Cap
        BY <1>1
      <4> QED BY <1>1, <4>1, AtIsASlot
    <3>2. queue \in [1..messageCount -> Msgs \cup {Partial}]
      BY <3>1 DEF queue, At
    <3> QED BY <1>1, <3>2
  <2>2. queue' = [k \in 1..(messageCount + 1) |-> messages'[At(k)]]
    BY <1>1, <1>2 DEF queue, At, RingPush
  <2>3. \A k \in 1..(messageCount + 1) : messages'[At(k)] = Append(queue, m)[k]
    <3> TAKE k \in 1..(messageCount + 1)
    <3>1. CASE k \in 1..messageCount
      <4>1. messages'[At(k)] = queue[k]
        BY <1>4, <3>1 DEF queue, At
      <4> QED BY <2>1, <3>1, <4>1
    <3>2. CASE k = messageCount + 1
      <4>1. Append(queue, m)[Len(queue) + 1] = m
        BY <2>1
      <4> QED BY <1>5, <2>1, <3>2, <4>1
    <3>3. k \in 1..messageCount \/ k = messageCount + 1
      BY <1>1
    <3> QED BY <3>1, <3>2, <3>3
  <2>4. Append(queue, m) \in Seq(Msgs \cup {Partial}) /\ Len(Append(queue, m)) = messageCount + 1
    BY <2>1
  <2>5. DOMAIN Append(queue, m) = 1..(messageCount + 1)
    BY <2>4, LenProperties
  <2>6. Append(queue, m) = [k \in 1..(messageCount + 1) |-> Append(queue, m)[k]]
    BY <2>4, <2>5, LenProperties
  <2> QED BY <2>2, <2>3, <2>6
<1>7. \A k \in 1..messageCount' : queue'[k] # Partial
  <2>1. messageCount' = messageCount + 1
    BY DEF RingPush
  <2>2. ASSUME NEW k \in 1..(messageCount + 1)
        PROVE  messages'[At(k)] # Partial
    <3>1. CASE k \in 1..messageCount
      <4>1. queue[k] = messages[At(k)]
        BY <3>1 DEF queue, At
      <4> QED BY <1>4, <3>1, <4>1 DEF RingIntact
    <3>2. CASE k = messageCount + 1
      BY <1>5, <3>2, PartialIsNoMessage
    <3> QED BY <1>1, <3>1, <3>2
  <2>3. queue' = [k \in 1..(messageCount + 1) |-> messages'[At(k)]]
    BY <1>1, <1>2 DEF queue, At, RingPush
  <2> QED BY <1>1, <2>1, <2>2, <2>3
<1> QED BY <1>3, <1>6, <1>7 DEF RingIntact

LEMMA QueueIsSeq ==
  ASSUME TypeOK
  PROVE  /\ queue \in Seq(Msgs \cup {Partial}) /\ Len(queue) = messageCount
         /\ \A k \in 1..messageCount : queue[k] = messages[At(k)]
<1>1. messageCount \in 0..Cap /\ Cap \in Nat /\ messages \in [Slots -> Msgs \cup {Partial}]
  BY CapPositive DEF TypeOK
<1>2. \A k \in 1..messageCount : messages[At(k)] \in Msgs \cup {Partial}
  <2> TAKE k \in 1..messageCount
  <2>1. k \in 1..Cap
    BY <1>1
  <2> QED BY <1>1, <2>1, AtIsASlot
<1>3. queue = [k \in 1..messageCount |-> messages[At(k)]]
  BY DEF queue, At
<1> QED BY <1>1, <1>2, <1>3

\* A failed marshal scribbles on a free buffer only.
LEMMA GarbleStep ==
  ASSUME TypeOK, TypeOK', RingIntact, RingGarble
  PROVE  RingIntact' /\ queue' = queue
<1>1. \A k \in 1..messageCount : messages'[At(k)] = messages[At(k)]
  <2> TAKE k \in 1..messageCount
  <2>1. k \in 1..Cap /\ messages \in [Slots -> Msgs \cup {Partial}]
    BY CapPositive DEF TypeOK
  <2> QED BY <2>1, NextIsFree, AtIsASlot DEF RingGarble
<1>2. queue' = queue
  BY <1>1 DEF queue, At, RingGarble
<1> QED BY <1>2 DEF RingIntact, RingGarble

\* Taking the first message leaves the others in their order.
LEMMA PopStep ==
  ASSUME TypeOK, TypeOK', RingIntact, RingPop
  PROVE  RingIntact' /\ queue # <<>> /\ queue' = Tail(queue)
<1>1. /\ messageFirst \in 0..(Cap - 1) /\ Cap \in Nat /\ Cap > 0 /\ messageCount \in 1..Cap
      /\ messageFirst \in Slots
  BY CapPositive DEF TypeOK, Slots, RingPop
<1>2. messageFirst' = IF messageFirst + 1 < Cap THEN messageFirst + 1 ELSE messageFirst + 1 - Cap
  BY <1>1, SuccIsASlot DEF RingPop
<1>3. ASSUME NEW k \in 1..(Cap - 1)
      PROVE  (messageFirst' + k - 1) % Cap = At(k + 1)
  <2>1. k + 1 \in 1..Cap /\ k \in 1..Cap
    BY <1>1
  <2> DEFINE y == messageFirst' + k - 1
  <2>2. y \in 0..(2 * Cap - 1)
    BY <1>1, <1>2
  <2>3. y % Cap = IF y < Cap THEN y ELSE y - Cap
    <3> HIDE DEF y
    <3> QED BY <2>2, ModTwoTurns
  <2>4. At(k + 1) = IF messageFirst + k < Cap THEN messageFirst + k ELSE messageFirst + k - Cap
    <3>1. At(k + 1) = IF messageFirst + (k + 1) - 1 < Cap THEN messageFirst + (k + 1) - 1
                      ELSE messageFirst + (k + 1) - 1 - Cap
      BY <2>1, AtIsASlot
    <3> QED BY <1>1, <3>1
  <2> QED BY <1>1, <1>2, <2>3, <2>4
<1>4. messageNext' = (messageFirst' + messageCount') % Cap
  <2>1. CASE messageCount < Cap
    <3>1. messageNext = At(messageCount + 1)
      BY <2>1, NextIsFree
    <3>2. messageCount \in 1..(Cap - 1)
      BY <1>1, <2>1
    <3>3. (messageFirst' + messageCount - 1) % Cap = At(messageCount + 1)
      BY <1>3, <3>2
    <3>4. messageFirst' + messageCount' = messageFirst' + messageCount - 1
      BY <1>1, <1>2 DEF RingPop
    <3> QED BY <3>1, <3>3, <3>4 DEF RingPop
  <2>2. CASE messageCount = Cap
    <3> DEFINE y == messageFirst + Cap
               z == messageFirst' + (Cap - 1)
    <3>1. y \in 0..(2 * Cap - 1) /\ z \in 0..(2 * Cap - 1)
      BY <1>1, <1>2
    <3>2. y % Cap = (IF y < Cap THEN y ELSE y - Cap) /\ z % Cap = (IF z < Cap THEN z ELSE z - Cap)
      <4> HIDE DEF y, z
      <4> QED BY <3>1, ModTwoTurns
    <3>3. y % Cap = z % Cap
      BY <1>1, <1>2, <3>2
    <3>4. messageNext = y % Cap
      BY <2>2 DEF RingIntact
    <3>5. messageFirst' + messageCount' = z
      BY <1>1, <2>2 DEF RingPop
    <3> HIDE DEF y, z
    <3> QED BY <3>3, <3>4, <3>5 DEF RingPop
  <2> QED BY <1>1, <2>1, <2>2
<1>5. queue # <<>> /\ queue \in Seq(Msgs \cup {Partial}) /\ Len(queue) = messageCount
  BY <1>1, QueueIsSeq
<1>6. /\ Tail(queue) \in Seq(Msgs \cup {Partial}) /\ Len(Tail(queue)) = messageCount - 1
      /\ \A k \in 1..(messageCount - 1) : Tail(queue)[k] = queue[k + 1]
  BY <1>5, HeadTailProperties
<1>7. \A k \in 1..(messageCount - 1) : queue'[k] = queue[k + 1]
  <2> TAKE k \in 1..(messageCount - 1)
  <2>1. k \in 1..(Cap - 1) /\ k + 1 \in 1..messageCount
    BY <1>1
  <2>2. queue' = [i \in 1..(messageCount - 1) |-> messages[(messageFirst' + i - 1) % Cap]]
    BY DEF queue, RingPop
  <2>3. queue'[k] = messages[(messageFirst' + k - 1) % Cap]
    BY <2>2
  <2>4. queue[k + 1] = messages[At(k + 1)]
    BY <2>1, QueueIsSeq
  <2> QED BY <1>3, <2>1, <2>3, <2>4
<1>8. queue' \in Seq(Msgs \cup {Partial})' /\ Len(queue)' = messageCount - 1
  <2>1. (queue \in Seq(Msgs \cup {Partial}) /\ Len(queue) = messageCount)'
    BY QueueIsSeq, PTL
  <2> QED BY <2>1 DEF RingPop
<1>9. queue' = Tail(queue)
  BY <1>6, <1>7, <1>8, SeqEqual
<1>10. \A k \in 1..messageCount' : queue'[k] # Partial
  <2>1. \A k \in 1..(messageCount - 1) : queue[k + 1] # Partial
    BY <1>1 DEF RingIntact
  <2> QED BY <1>7, <2>1 DEF RingPop
<1> QED BY <1>4, <1>5, <1>9, <1>10 DEF RingIntact

-----------------------------------------------------------------------------
(* What each step does to the ring and to the types. *)

RingStep == \/ \E m \in Msgs : RingPush(m)
            \/ RingGarble
            \/ RingPop
            \/ UNCHANGED ring

\* The types of the ring, kept by each of its four steps.
RingTypes == /\ messages \in [Slots -> Msgs \cup {Partial}]
             /\ messageCount \in 0..Cap /\ messageFirst \in Slots /\ messageNext \in Slots

LEMMA RingStepTypes ==
  ASSUME RingTypes, RingStep
  PROVE  RingTypes'
<1>1. Cap \in Nat /\ Cap > 0
  BY CapPositive
<1>2. CASE \E m \in Msgs : RingPush(m)
  BY <1>1, <1>2, SuccIsASlot DEF RingTypes, RingPush
<1>3. CASE RingGarble
  BY <1>3 DEF RingTypes, RingGarble
<1>4. CASE RingPop
  BY <1>1, <1>4, SuccIsASlot DEF RingTypes, RingPop
<1>5. CASE UNCHANGED ring
  BY <1>5 DEF RingTypes, ring
<1> QED BY <1>2, <1>3, <1>4, <1>5 DEF RingStep

\* The types of the rest of the state.
OtherTypes == /\ refCount \in Int /\ closed \in BOOLEAN /\ freed \in BOOLEAN
              /\ waiters \subseteq Threads
              /\ handle \in [Senders -> BOOLEAN]
              /\ pc \in [Threads -> PCs]
              /\ wait \in [Threads -> {"nowait", "timed", "expired", "inf"}]
              /\ status \in [Threads -> {0, 1, 2}]
              /\ sends \in [Senders -> 0..MaxSends]

LEMMA EnqueueStep ==
  ASSUME TypeOK, NEW s \in Senders, NEW n \in 1..MaxSends, ~mailbox_at_capacity, Enqueue(s, n)
  PROVE  /\ RingStep
         /\ waiters' = waiters
         /\ \E st \in {0, 1} : SignalAndReturn(s, st)
<1>1. messageCount < Cap
  BY CapPositive DEF mailbox_at_capacity, TypeOK
<1>2. CASE /\ "marshal" \in Faults
           /\ messages' = [messages EXCEPT ![messageNext] = Partial]
           /\ SignalAndReturn(s, 1)
           /\ UNCHANGED <<messageCount, messageFirst, messageNext, waiters>>
  BY <1>1, <1>2 DEF RingStep, RingGarble
<1>3. ASSUME NEW b \in BOOLEAN,
             /\ messages' = [messages EXCEPT ![messageNext] = [from |-> s, n |-> n, bad |-> b]]
             /\ messageNext' = succ(messageNext)
             /\ messageCount' = messageCount + 1
             /\ SignalAndReturn(s, 0)
             /\ UNCHANGED <<messageFirst, waiters>>
      PROVE  /\ RingStep /\ waiters' = waiters
             /\ \E st \in {0, 1} : SignalAndReturn(s, st)
  <2>1. [from |-> s, n |-> n, bad |-> b] \in Msgs
    BY DEF Msgs
  <2>2. RingPush([from |-> s, n |-> n, bad |-> b])
    BY <1>1, <1>3 DEF RingPush
  <2> QED BY <1>3, <2>1, <2>2 DEF RingStep
<1> QED BY <1>2, <1>3 DEF Enqueue

LEMMA SendNowStep ==
  ASSUME TypeOK, NEW s \in Senders, SendNow(s)
  PROVE  RingStep /\ waiters' = waiters /\ \E st \in {0, 1} : SignalAndReturn(s, st)
<1>1. sends[s] + 1 \in 1..MaxSends
  BY BoundIsNat DEF SendNow, BeginSend, TypeOK
<1> QED BY <1>1, EnqueueStep DEF SendNow

LEMMA SendRetryStep ==
  ASSUME Inv, NEW s \in Senders, SendRetry(s)
  PROVE  /\ RingStep
         /\ \/ waiters' = waiters /\ \E st \in {0, 1} : SignalAndReturn(s, st)
            \/ Block(s, wait[s]) /\ UNCHANGED ring
<1>1. sends[s] \in 1..MaxSends
  BY DEF SendRetry, Inv, Calls
<1>2. CASE ~mailbox_at_capacity /\ Enqueue(s, sends[s])
  BY <1>1, <1>2, EnqueueStep DEF Inv
<1>3. CASE ~(~mailbox_at_capacity /\ Enqueue(s, sends[s]))
  BY <1>3 DEF SendRetry, RingStep, ring
<1> QED BY <1>2, <1>3

\* A turn of the receiver's loop takes one message or none, and then returns or
\* blocks.
LEMMA ReceiveTurnStep ==
  ASSUME NEW w, ReceiveTurn(w), UNCHANGED <<messages, messageNext>>, TypeOK
  PROVE  /\ RingStep
         /\ \/ waiters' = waiters /\ \E st \in {0, 1} : SignalAndReturn(Receiver, st)
            \/ waiters' = waiters /\ Return(Receiver, 1)
            \/ w \notin {"nowait", "expired"} /\ Block(Receiver, w)
<1>1. CASE messageCount' = messageCount - 1 /\ messageCount > 0 /\ messageFirst' = succ(messageFirst)
  <2>1. RingPop
    BY <1>1 DEF RingPop
  <2> QED BY <2>1 DEF ReceiveTurn, RingStep
<1>2. CASE UNCHANGED <<messageCount, messageFirst>>
  <2>1. UNCHANGED ring
    BY <1>2 DEF ring
  <2> QED BY <2>1 DEF ReceiveTurn, RingStep
<1> QED BY <1>1, <1>2 DEF ReceiveTurn

LEMMA TypeStep ==
  ASSUME Inv, [Next]_vars
  PROVE  TypeOK' /\ RingStep
<1> USE DEF PCs
<1>1. RingTypes /\ OtherTypes
  BY DEF Inv, TypeOK, RingTypes, OtherTypes
<1>2. Receiver \in Threads /\ Senders \subseteq Threads
  BY DEF Threads
<1> SUFFICES RingStep /\ OtherTypes'
  BY <1>1, RingStepTypes DEF TypeOK, RingTypes, OtherTypes
<1>3. ASSUME NEW s \in Senders, SendNoHandle(s)
      PROVE  RingStep /\ OtherTypes'
  BY <1>1, <1>2, <1>3, BoundIsNat DEF SendNoHandle, BeginSend, Return, Finish, life, RingStep, OtherTypes
<1>4. ASSUME NEW s \in Senders, SendClosed(s)
      PROVE  RingStep /\ OtherTypes'
  BY <1>1, <1>2, <1>4, BoundIsNat DEF SendClosed, BeginSend, Unref, Return, Finish, RingStep, OtherTypes
<1>5. ASSUME NEW s \in Senders, SendFull(s)
      PROVE  RingStep /\ OtherTypes'
  <2>1. PICK w \in SendWaits : IF w = "nowait" THEN Return(s, 1) /\ UNCHANGED waiters
                               ELSE Block(s, w)
    BY <1>5 DEF SendFull
  <2>2. w \in {"nowait", "timed", "inf"}
    BY WaitsKnown
  <2>3. /\ UNCHANGED <<ring, life>> /\ sends[s] < MaxSends
        /\ sends' = [sends EXCEPT ![s] = @ + 1]
    BY <1>5 DEF SendFull, BeginSend
  <2> QED BY <1>1, <1>2, <2>1, <2>2, <2>3, BoundIsNat
          DEF Return, Finish, Block, life, RingStep, OtherTypes
<1>6. ASSUME NEW s \in Senders, SendNow(s)
      PROVE  RingStep /\ OtherTypes'
  <2>1. RingStep /\ waiters' = waiters /\ \E st \in {0, 1} : SignalAndReturn(s, st)
    BY <1>6, SendNowStep DEF Inv
  <2>2. UNCHANGED life /\ sends[s] < MaxSends /\ sends' = [sends EXCEPT ![s] = @ + 1]
    BY <1>6 DEF SendNow, BeginSend
  <2> QED BY <1>1, <1>2, <2>1, <2>2, BoundIsNat DEF SignalAndReturn, Finish, life, OtherTypes
<1>7. ASSUME NEW s \in Senders, SendRetry(s)
      PROVE  RingStep /\ OtherTypes'
  <2>1. /\ RingStep
        /\ \/ waiters' = waiters /\ \E st \in {0, 1} : SignalAndReturn(s, st)
           \/ Block(s, wait[s]) /\ UNCHANGED ring
    BY <1>7, SendRetryStep
  <2>2. UNCHANGED <<life, sends>>
    BY <1>7 DEF SendRetry
  <2> QED BY <1>1, <1>2, <2>1, <2>2 DEF SignalAndReturn, Finish, Block, life, OtherTypes
<1>8. ASSUME NEW s \in Senders, SendTimeout(s) \/ SendGiveUp(s)
      PROVE  RingStep /\ OtherTypes'
  BY <1>1, <1>2, <1>8 DEF SendTimeout, SendGiveUp, SignalAndReturn, Finish, life, RingStep, OtherTypes
<1>9. ASSUME NEW s \in Senders, CloseHandle(s)
      PROVE  RingStep /\ OtherTypes'
  BY <1>1, <1>2, <1>9 DEF CloseHandle, Unref, RingStep, OtherTypes
<1>10. ASSUME NEW w \in {"nowait", "timed", "expired", "inf"}, ReceiveTurn(w),
              UNCHANGED <<messages, messageNext, life, sends>>
       PROVE  RingStep /\ OtherTypes'
  <2>1. /\ RingStep
        /\ \/ waiters' = waiters /\ \E st \in {0, 1} : SignalAndReturn(Receiver, st)
           \/ waiters' = waiters /\ Return(Receiver, 1)
           \/ w \notin {"nowait", "expired"} /\ Block(Receiver, w)
    BY <1>10, ReceiveTurnStep DEF Inv
  <2> QED BY <1>1, <1>2, <1>10, <2>1 DEF SignalAndReturn, Return, Finish, Block, life, OtherTypes
<1>11. CASE ReceiveBegin
  <2>1. PICK w \in ReceiveWaits : ReceiveTurn(w)
    BY <1>11 DEF ReceiveBegin
  <2>2. w \in {"nowait", "timed", "inf"}
    BY WaitsKnown
  <2> QED BY <1>10, <1>11, <2>1, <2>2 DEF ReceiveBegin
<1>12. CASE ReceiveRetry
  <2>1. wait[Receiver] \in {"nowait", "timed", "expired", "inf"}
    BY <1>1, <1>2 DEF OtherTypes
  <2> QED BY <1>10, <1>12, <2>1 DEF ReceiveRetry
<1>14. CASE ReceiveTimeout
  BY <1>1, <1>2, <1>14 DEF ReceiveTimeout, Return, Finish, life, RingStep, OtherTypes
<1>15. ASSUME NEW t \in Threads, Signal(t)
       PROVE  RingStep /\ OtherTypes'
  BY <1>1, <1>15 DEF Signal, life, RingStep, OtherTypes
<1>16. ASSUME NEW t \in Threads, Spurious(t) \/ Deadline(t)
       PROVE  RingStep /\ OtherTypes'
  BY <1>1, <1>16 DEF Spurious, Leave, Deadline, life, RingStep, OtherTypes
<1>17. CASE Deinit
  BY <1>1, <1>2, <1>17 DEF Deinit, Unref, RingStep, OtherTypes
<1>18. CASE UNCHANGED vars
  BY <1>1, <1>18 DEF vars, life, RingStep, OtherTypes
<1> QED BY <1>2, <1>3, <1>4, <1>5, <1>6, <1>7, <1>8, <1>9, <1>11, <1>12, <1>14,
           <1>15, <1>16, <1>17, <1>18 DEF Next, SenderBegin, SenderCall, ReceiverCall

-----------------------------------------------------------------------------
(* Who is in a call, and who can reach the mailbox. *)

LEMMA CallsStep ==
  ASSUME Inv, [Next]_vars
  PROVE  Calls'
<1>1. Calls /\ OtherTypes /\ TypeOK'
  BY TypeStep DEF Inv, TypeOK, OtherTypes
<1>2. Receiver \in Threads /\ Senders \subseteq Threads /\ Receiver \notin Senders
  BY ThreadsDiffer DEF Threads
<1> USE <1>1, <1>2 DEF Calls, OtherTypes
<1>3. ASSUME NEW s \in Senders, SendNoHandle(s) \/ SendClosed(s)
      PROVE  Calls'
  BY <1>3, BoundIsNat DEF SendNoHandle, SendClosed, BeginSend, Return, Finish
<1>4. ASSUME NEW s \in Senders, SendFull(s)
      PROVE  Calls'
  <2>1. PICK w \in SendWaits : IF w = "nowait" THEN Return(s, 1) /\ UNCHANGED waiters
                               ELSE Block(s, w)
    BY <1>4 DEF SendFull
  <2>2. pc[s] = "idle" /\ sends[s] < MaxSends /\ sends' = [sends EXCEPT ![s] = @ + 1]
    BY <1>4 DEF SendFull, BeginSend
  <2>3. sends'[s] \in 1..MaxSends /\ \A u \in Senders \ {s} : sends'[u] = sends[u]
    BY <2>2, BoundIsNat
  <2>4. CASE Return(s, 1) /\ UNCHANGED waiters
    BY <2>2, <2>3, <2>4 DEF Return, Finish
  <2>5. CASE Block(s, w)
    BY <2>2, <2>3, <2>5 DEF Block
  <2> QED BY <2>1, <2>4, <2>5
<1>5. ASSUME NEW s \in Senders, SendNow(s)
      PROVE  Calls'
  <2>1. pc[s] = "idle" /\ waiters' = waiters /\ \E st \in {0, 1} : SignalAndReturn(s, st)
    BY <1>5, SendNowStep DEF Inv, SendNow, BeginSend
  <2>2. sends[s] < MaxSends /\ sends' = [sends EXCEPT ![s] = @ + 1]
    BY <1>5 DEF SendNow, BeginSend
  <2>3. sends'[s] \in 1..MaxSends /\ \A u \in Senders \ {s} : sends'[u] = sends[u]
    BY <2>2, BoundIsNat
  <2> QED BY <2>1, <2>3 DEF SignalAndReturn, Finish
<1>6. ASSUME NEW s \in Senders, SendRetry(s)
      PROVE  Calls'
  <2>1. \/ waiters' = waiters /\ \E st \in {0, 1} : SignalAndReturn(s, st)
        \/ Block(s, wait[s])
    BY <1>6, SendRetryStep
  <2>2. pc[s] = "woken" /\ UNCHANGED sends
    BY <1>6 DEF SendRetry
  <2> QED BY <2>1, <2>2 DEF SignalAndReturn, Finish, Block
<1>7. ASSUME NEW s \in Senders, SendTimeout(s) \/ SendGiveUp(s)
      PROVE  Calls'
  BY <1>7 DEF SendTimeout, SendGiveUp, SignalAndReturn, Finish
<1>8. ASSUME NEW s \in Senders, CloseHandle(s)
      PROVE  Calls'
  BY <1>8 DEF CloseHandle
<1>9. CASE ReceiveBegin \/ ReceiveRetry
  <2>1. PICK w : ReceiveTurn(w)
    BY <1>9 DEF ReceiveBegin, ReceiveRetry
  <2>2. UNCHANGED <<messages, messageNext, sends>>
    BY <1>9 DEF ReceiveBegin, ReceiveRetry
  <2>3. \/ waiters' = waiters /\ \E st \in {0, 1} : SignalAndReturn(Receiver, st)
        \/ waiters' = waiters /\ Return(Receiver, 1)
        \/ Block(Receiver, w)
    BY <2>1, <2>2, ReceiveTurnStep DEF Inv
  <2>4. pc[Receiver] # "wait"
    BY <1>9 DEF ReceiveBegin, ReceiveRetry
  <2> QED BY <2>2, <2>3, <2>4 DEF SignalAndReturn, Return, Finish, Block
<1>10. CASE ReceiveTimeout
  BY <1>10 DEF ReceiveTimeout, Return, Finish
<1>11. CASE Deinit
  BY <1>11 DEF Deinit
<1>12. ASSUME NEW t \in Threads, Signal(t)
       PROVE  Calls'
  BY <1>12 DEF Signal
<1>13. ASSUME NEW t \in Threads, Spurious(t) \/ Deadline(t)
       PROVE  Calls'
  BY <1>13 DEF Spurious, Leave, Deadline
<1>14. CASE UNCHANGED vars
  BY <1>14 DEF vars
<1> QED BY <1>3, <1>4, <1>5, <1>6, <1>7, <1>8, <1>9, <1>10, <1>11, <1>12, <1>13, <1>14
        DEF Next, SenderBegin, SenderCall, ReceiverCall

LEMMA HoldersFinite == IsFiniteSet(Holders) /\ Holders \subseteq Threads
<1>1. IsFiniteSet(Threads)
  BY ThreadsDiffer, FS_AddElement DEF Threads
<1>2. Holders \subseteq Threads
  BY DEF Holders, Threads
<1> QED BY <1>1, <1>2, FS_Subset

\* Dropping the reference of one holder keeps the count exact, and destroys
\* the mailbox exactly when it was the last.
LEMMA DropReference ==
  ASSUME NoUseAfterFree, OtherTypes, NEW h \in Holders, Unref,
         Holders' = Holders \ {h},
         \A t \in Threads : pc'[t] \notin {"idle", "gone"} => pc[t] = pc'[t] /\ t # h
  PROVE  NoUseAfterFree'
<1>1. IsFiniteSet(Holders) /\ Cardinality(Holders) \in Nat
  BY HoldersFinite, FS_CardinalityType
<1>2. Cardinality(Holders \ {h}) = Cardinality(Holders) - 1 /\ IsFiniteSet(Holders \ {h})
  BY <1>1, FS_RemoveElement
<1>3. Cardinality(Holders \ {h}) \in Nat /\ (Cardinality(Holders \ {h}) = 0 <=> Holders \ {h} = {})
  BY <1>2, FS_CardinalityType, FS_EmptySet
<1>4. refCount' = Cardinality(Holders')
  BY <1>1, <1>2 DEF NoUseAfterFree, Unref
<1>5. ~freed
  BY DEF NoUseAfterFree
<1>6. freed' <=> refCount' =< 0
  BY <1>5 DEF Unref
<1>7. refCount' =< 0 <=> Holders' = {}
  BY <1>3, <1>4
<1> QED BY <1>4, <1>6, <1>7 DEF NoUseAfterFree

\* Any other step leaves the holders alone, and only a holder begins a call.
LEMMA KeepReferences ==
  ASSUME NoUseAfterFree, UNCHANGED life, Holders' = Holders,
         \A t \in Threads : pc'[t] \notin {"idle", "gone"} =>
                               pc[t] \notin {"idle", "gone"} \/ t \in Holders
  PROVE  NoUseAfterFree'
BY DEF NoUseAfterFree, life

LEMMA ReferencesStep ==
  ASSUME Inv, [Next]_vars
  PROVE  NoUseAfterFree'
<1>1. NoUseAfterFree /\ Calls /\ OtherTypes /\ TypeOK'
  BY TypeStep DEF Inv, TypeOK, OtherTypes
<1>2. Receiver \in Threads /\ Senders \subseteq Threads /\ Receiver \notin Senders
      /\ Threads = Senders \cup {Receiver}
  BY ThreadsDiffer DEF Threads
<1>3. ASSUME NEW s \in Senders, handle[s], handle' = [handle EXCEPT ![s] = FALSE], Unref,
             (pc'[Receiver] = "gone") <=> (pc[Receiver] = "gone"),
             pc' = pc \/ pc' = [pc EXCEPT ![s] = "idle"], pc[s] = "idle"
      PROVE  NoUseAfterFree'
  <2>1. s \in Holders /\ Holders' = Holders \ {s}
    BY <1>1, <1>2, <1>3 DEF Holders, OtherTypes
  <2>2. \A t \in Threads : pc'[t] \notin {"idle", "gone"} => pc[t] = pc'[t] /\ t # s
    BY <1>1, <1>2, <1>3 DEF OtherTypes
  <2> QED BY <1>1, <1>3, <2>1, <2>2, DropReference
<1>4. ASSUME NEW s \in Senders, SendClosed(s) \/ CloseHandle(s)
      PROVE  NoUseAfterFree'
  <2>1. pc'[Receiver] = pc[Receiver] /\ pc[s] = "idle"
    BY <1>1, <1>2, <1>4 DEF SendClosed, CloseHandle, BeginSend, Return, Finish, OtherTypes
  <2>2. pc' = pc \/ pc' = [pc EXCEPT ![s] = "idle"]
    BY <1>4 DEF SendClosed, CloseHandle, Return, Finish
  <2>3. handle[s] /\ handle' = [handle EXCEPT ![s] = FALSE] /\ Unref
    BY <1>4 DEF SendClosed, CloseHandle
  <2> QED BY <1>3, <2>1, <2>2, <2>3
<1>5. CASE Deinit
  <2>1. pc[Receiver] = "idle" /\ pc' = [pc EXCEPT ![Receiver] = "gone"] /\ Unref
        /\ UNCHANGED <<handle, waiters, sends>>
    BY <1>5 DEF Deinit
  <2>2. Receiver \in Holders /\ Holders' = Holders \ {Receiver}
    BY <1>1, <1>2, <2>1 DEF Holders, OtherTypes
  <2>3. \A t \in Threads : pc'[t] \notin {"idle", "gone"} => pc[t] = pc'[t] /\ t # Receiver
    BY <1>1, <1>2, <2>1 DEF OtherTypes
  <2> QED BY <1>1, <2>1, <2>2, <2>3, DropReference
<1>6. ASSUME UNCHANGED life, (pc'[Receiver] = "gone") <=> (pc[Receiver] = "gone")
      PROVE  Holders' = Holders
  BY <1>6 DEF Holders, life
<1>7. ASSUME NEW t \in Threads, UNCHANGED life, t \in Holders,
             pc[t] # "gone", pc'[t] # "gone",
             \A u \in Threads \ {t} : pc'[u] = pc[u]
      PROVE  NoUseAfterFree'
  <2>1. (pc'[Receiver] = "gone") <=> (pc[Receiver] = "gone")
    BY <1>2, <1>7
  <2> QED BY <1>1, <1>6, <1>7, <2>1, KeepReferences
<1>8. ASSUME NEW s \in Senders, SendNoHandle(s)
      PROVE  NoUseAfterFree'
  <2>1. UNCHANGED life /\ pc[s] = "idle" /\ pc' = [pc EXCEPT ![s] = "idle"]
    BY <1>8 DEF SendNoHandle, BeginSend, Return, Finish
  <2>2. pc' = pc
    BY <1>1, <1>2, <2>1 DEF OtherTypes
  <2> QED BY <1>1, <1>6, <2>1, <2>2, KeepReferences
<1>9. ASSUME NEW s \in Senders, SendFull(s) \/ SendNow(s)
      PROVE  NoUseAfterFree'
  <2>1. UNCHANGED life /\ pc[s] = "idle" /\ handle[s]
    BY <1>9 DEF SendFull, SendNow, BeginSend
  <2>2. \E to \in {"idle", "wait", "signal"} : pc' = [pc EXCEPT ![s] = to]
    <3>1. CASE SendFull(s)
      BY <3>1 DEF SendFull, Return, Finish, Block
    <3>2. CASE SendNow(s)
      <4>1. \E st \in {0, 1} : SignalAndReturn(s, st)
        BY <3>2, SendNowStep DEF Inv
      <4> QED BY <4>1 DEF SignalAndReturn, Finish
    <3> QED BY <1>9, <3>1, <3>2
  <2>3. s \in Holders
    BY <2>1 DEF Holders
  <2> QED BY <1>1, <1>2, <1>7, <2>1, <2>2, <2>3 DEF OtherTypes
<1>10. ASSUME NEW s \in Senders, SendRetry(s) \/ SendTimeout(s) \/ SendGiveUp(s)
       PROVE  NoUseAfterFree'
  <2>1. UNCHANGED life /\ pc[s] \in {"woken", "wait", "timedout"}
    BY <1>1, <1>10 DEF SendRetry, SendTimeout, SendGiveUp, Calls
  <2>2. \E to \in {"wait", "signal", "timedout"} : pc' = [pc EXCEPT ![s] = to]
    <3>1. CASE SendRetry(s)
      BY <3>1, SendRetryStep DEF SignalAndReturn, Finish, Block
    <3>2. CASE SendTimeout(s) \/ SendGiveUp(s)
      BY <3>2 DEF SendTimeout, SendGiveUp, SignalAndReturn, Finish
    <3> QED BY <1>10, <3>1, <3>2
  <2>3. s \in Holders
    BY <1>1, <1>2, <2>1 DEF NoUseAfterFree
  <2> QED BY <1>1, <1>2, <1>7, <2>1, <2>2, <2>3 DEF OtherTypes
<1>11. CASE ReceiveBegin \/ ReceiveRetry \/ ReceiveTimeout
  <2>1. UNCHANGED life /\ pc[Receiver] # "gone"
    BY <1>1, <1>11 DEF ReceiveBegin, ReceiveRetry, ReceiveTimeout, Calls
  <2>2. \E to \in {"idle", "wait", "signal"} : pc' = [pc EXCEPT ![Receiver] = to]
    <3>1. CASE ReceiveBegin \/ ReceiveRetry
      <4>1. PICK w : ReceiveTurn(w) /\ UNCHANGED <<messages, messageNext>>
        BY <3>1 DEF ReceiveBegin, ReceiveRetry
      <4> QED BY <4>1, ReceiveTurnStep DEF Inv, SignalAndReturn, Return, Finish, Block
    <3>2. CASE ReceiveTimeout
      BY <3>2 DEF ReceiveTimeout, Return, Finish
    <3> QED BY <1>11, <3>1, <3>2
  <2>3. Receiver \in Holders
    BY <2>1 DEF Holders
  <2> QED BY <1>1, <1>2, <1>7, <2>1, <2>2, <2>3 DEF OtherTypes
<1>12. ASSUME NEW t \in Threads, Signal(t)
       PROVE  NoUseAfterFree'
  <2>1. UNCHANGED life /\ pc[t] = "signal"
    BY <1>12 DEF Signal
  <2>2. CASE pc' = [pc EXCEPT ![t] = "idle"]
    <3>1. t \in Holders /\ pc'[t] = "idle" /\ \A u \in Threads \ {t} : pc'[u] = pc[u]
      BY <1>1, <2>1, <2>2 DEF NoUseAfterFree, OtherTypes
    <3> QED BY <1>7, <2>1, <3>1
  <2>3. ASSUME NEW u \in waiters, pc' = [pc EXCEPT ![t] = "idle", ![u] = "woken"]
        PROVE  NoUseAfterFree'
    <3>1. pc[u] = "wait" /\ u \in Threads
      BY <1>1 DEF Calls, OtherTypes
    <3>2. /\ pc'[t] \in {"idle", "woken"} /\ pc'[u] = "woken"
          /\ \A v \in Threads \ {t, u} : pc'[v] = pc[v]
      BY <1>1, <2>3, <3>1 DEF OtherTypes
    <3>3. (pc'[Receiver] = "gone") <=> (pc[Receiver] = "gone")
      BY <1>2, <2>1, <3>1, <3>2
    <3>4. \A v \in Threads : pc'[v] \notin {"idle", "gone"} => pc[v] \notin {"idle", "gone"}
      BY <2>1, <3>1, <3>2
    <3> QED BY <1>1, <1>6, <2>1, <3>3, <3>4, KeepReferences
  <2> QED BY <1>12, <2>2, <2>3 DEF Signal
<1>13. ASSUME NEW t \in Threads, Spurious(t)
       PROVE  NoUseAfterFree'
  <2>1. UNCHANGED life /\ pc[t] = "wait" /\ pc' = [pc EXCEPT ![t] = "woken"]
    BY <1>1, <1>13 DEF Spurious, Leave, Calls
  <2>2. t \in Holders
    BY <1>1, <2>1 DEF NoUseAfterFree
  <2> QED BY <1>1, <1>7, <2>1, <2>2 DEF OtherTypes
<1>14. ASSUME NEW t \in Threads, Deadline(t)
       PROVE  NoUseAfterFree'
  <2>1. UNCHANGED life /\ pc' = pc
    BY <1>14 DEF Deadline
  <2> QED BY <1>1, <1>6, <2>1, KeepReferences
<1>15. CASE UNCHANGED vars
  <2>1. UNCHANGED life /\ pc' = pc
    BY <1>15 DEF vars
  <2> QED BY <1>1, <1>6, <2>1, KeepReferences
<1> QED BY <1>2, <1>4, <1>5, <1>8, <1>9, <1>10, <1>11, <1>12, <1>13, <1>14, <1>15
        DEF Next, SenderBegin, SenderCall, ReceiverCall

-----------------------------------------------------------------------------
LEMMA InitInv == Init => Inv
<1> SUFFICES ASSUME Init PROVE Inv
  OBVIOUS
<1>1. Cap \in Nat /\ Cap > 0 /\ 0 \in Slots /\ IsFiniteSet(Senders) /\ Receiver \notin Senders
  BY CapPositive, ThreadsDiffer DEF Slots
<1>2. Cardinality(Senders) \in Nat
  BY <1>1, FS_CardinalityType
<1>3. TypeOK
  <2>1. messages \in [Slots -> Msgs \cup {Partial}]
    BY DEF Init
  <2>2. /\ messageCount \in 0..Cap /\ messageFirst \in Slots /\ messageNext \in Slots
        /\ refCount \in Int
    BY <1>1, <1>2 DEF Init
  <2>3. handle \in [Senders -> BOOLEAN] /\ sends \in [Senders -> 0..MaxSends]
    BY BoundIsNat DEF Init
  <2>4. /\ pc \in [Threads -> PCs] /\ status \in [Threads -> {0, 1, 2}]
        /\ wait \in [Threads -> {"nowait", "timed", "expired", "inf"}]
    BY DEF Init, PCs
  <2>5. closed \in BOOLEAN /\ freed \in BOOLEAN /\ waiters \subseteq Threads
    BY DEF Init
  <2> QED BY <2>1, <2>2, <2>3, <2>4, <2>5 DEF TypeOK
<1>4. RingIntact
  <2>1. 0 \in 0..(2 * Cap - 1)
    BY <1>1
  <2>2. 0 % Cap = 0
    BY <1>1, <2>1, ModTwoTurns
  <2> QED BY <2>2 DEF Init, RingIntact
<1>5. Calls
  BY DEF Init, Calls, Threads
<1>6. NoUseAfterFree
  <2>1. Holders = Senders \cup {Receiver}
    BY <1>1 DEF Init, Holders, Threads
  <2>2. Cardinality(Senders \cup {Receiver}) = Cardinality(Senders) + 1
    BY <1>1, FS_AddElement
  <2> QED BY <2>1, <2>2 DEF Init, NoUseAfterFree
<1> QED BY <1>3, <1>4, <1>5, <1>6 DEF Inv

LEMMA RingStepIntact ==
  ASSUME Inv, [Next]_vars
  PROVE  /\ RingIntact'
         /\ \/ \E m \in Msgs : messageCount < Cap /\ queue' = Append(queue, m)
            \/ queue # <<>> /\ queue' = Tail(queue)
            \/ queue' = queue
<1>1. TypeOK /\ TypeOK' /\ RingIntact /\ RingStep
  BY TypeStep DEF Inv
<1>2. CASE \E m \in Msgs : RingPush(m)
  <2>1. PICK m \in Msgs : RingPush(m)
    BY <1>2
  <2> QED BY <1>1, <2>1, PushStep DEF RingPush
<1>3. CASE RingGarble
  BY <1>1, <1>3, GarbleStep
<1>4. CASE RingPop
  BY <1>1, <1>4, PopStep
<1>5. CASE UNCHANGED ring
  <2>1. queue' = queue
    BY <1>5 DEF ring, queue
  <2> QED BY <1>1, <1>5, <2>1 DEF ring, RingIntact
<1> QED BY <1>1, <1>2, <1>3, <1>4, <1>5 DEF RingStep

LEMMA InvStep == Inv /\ [Next]_vars => Inv'
BY TypeStep, RingStepIntact, CallsStep, ReferencesStep DEF Inv

LEMMA Invariance == Spec => []Inv
BY InitInv, InvStep, PTL DEF Spec

\* Every field of the mailbox and every local of its calls keeps its type; in
\* particular the count stays within the capacity and the cursors in the ring.
THEOREM TypeCorrect == Spec => []TypeOK
BY Invariance, PTL DEF Inv

\* For every capacity and number of senders the cursors agree with the count,
\* and every queued buffer holds a message that was marshalled to the end.
THEOREM RingCorrect == Spec => []RingIntact
BY Invariance, PTL DEF Inv

\* No thread waits on, signals or locks a mailbox that has been destroyed, and
\* it is destroyed when its last holder lets go.
THEOREM MemorySafe == Spec => []NoUseAfterFree
BY Invariance, PTL DEF Inv

\* The ring, its cursors and its failed calls implement a bounded FIFO.
THEOREM Refinement == Spec => FifoSpec
<1>1. Init => Fifo!Init
  <2> SUFFICES ASSUME Init PROVE queue = <<>>
    BY DEF Fifo!Init
  <2> QED BY DEF Init, queue
<1>2. Inv /\ [Next]_vars => [Fifo!Next]_queue
  <2> SUFFICES ASSUME Inv, [Next]_vars PROVE Fifo!Next \/ queue' = queue
    OBVIOUS
  <2>1. Len(queue) = messageCount
    BY QueueIsSeq DEF Inv
  <2> QED BY <2>1, RingStepIntact DEF Fifo!Next, Fifo!Put, Fifo!Take
<1> QED BY <1>1, <1>2, Invariance, PTL DEF Spec, FifoSpec, Fifo!Spec

-----------------------------------------------------------------------------
(* What send reports *)

Contents == {queue[i] : i \in 1..messageCount}

\* The call that s has begun last has not put its message.
Unsent(s) == pc[s] \in {"wait", "woken", "timedout"} \/ status[s] # 0

\* A message in the ring is from a call that has begun, and not from an unsent one.
Told == \A m \in Contents : /\ m.n =< sends[m.from]
                            /\ Unsent(m.from) => m.n # sends[m.from]

LEMMA ContentsTyped ==
  ASSUME TypeOK, RingIntact
  PROVE  Contents \subseteq Msgs
<1>1. /\ queue \in Seq(Msgs \cup {Partial}) /\ Len(queue) = messageCount
      /\ \A i \in 1..messageCount : queue[i] # Partial
  BY QueueIsSeq DEF RingIntact
<1>2. \A i \in 1..messageCount : queue[i] \in Msgs \cup {Partial}
  BY <1>1
<1> QED BY <1>1, <1>2 DEF Contents

\* A push adds its message; nothing else adds any.
LEMMA ContentsStep ==
  ASSUME Inv, [Next]_vars
  PROVE  /\ \A m \in Msgs : RingPush(m) => Contents' \subseteq Contents \cup {m}
         /\ RingGarble \/ RingPop \/ UNCHANGED ring => Contents' \subseteq Contents
<1>1. TypeOK /\ TypeOK' /\ RingIntact
  BY TypeStep DEF Inv
<1>2. /\ queue \in Seq(Msgs \cup {Partial}) /\ Len(queue) = messageCount
      /\ Len(queue') = messageCount' /\ messageCount \in Nat
  <2>1. Len(queue') = messageCount'
    BY <1>1 DEF queue, TypeOK
  <2> QED BY <1>1, <2>1, QueueIsSeq, CapPositive DEF TypeOK
<1>3. ASSUME NEW m \in Msgs, RingPush(m) PROVE Contents' \subseteq Contents \cup {m}
  <2>1. queue' = Append(queue, m) /\ messageCount' = messageCount + 1
    BY <1>1, <1>3, PushStep DEF RingPush
  <2> SUFFICES ASSUME NEW i \in 1..messageCount'
               PROVE  queue'[i] \in Contents \cup {m}
    BY DEF Contents
  <2>2. CASE i = messageCount + 1
    BY <1>2, <2>1, <2>2
  <2>3. CASE i # messageCount + 1
    <3>1. i \in 1..messageCount
      BY <1>2, <2>1, <2>3
    <3>2. queue'[i] = queue[i]
      BY <1>2, <2>1, <3>1
    <3> QED BY <3>1, <3>2 DEF Contents
  <2> QED BY <2>2, <2>3
<1>4. CASE RingPop
  <2>1. queue # <<>> /\ queue' = Tail(queue) /\ messageCount' = messageCount - 1
    BY <1>1, <1>4, PopStep DEF RingPop
  <2> SUFFICES ASSUME NEW i \in 1..messageCount'
               PROVE  queue'[i] \in Contents
    BY <1>4, <1>3 DEF Contents
  <2>2. i + 1 \in 1..messageCount
    BY <1>2, <2>1
  <2>3. queue'[i] = queue[i + 1]
    BY <1>2, <2>1, <2>2
  <2> QED BY <2>2, <2>3 DEF Contents
<1>5. CASE RingGarble \/ UNCHANGED ring
  <2>1. queue' = queue /\ messageCount' = messageCount
    <3>1. CASE RingGarble
      BY <1>1, <3>1, GarbleStep DEF RingGarble
    <3>2. CASE UNCHANGED ring
      BY <3>2 DEF ring, queue
    <3> QED BY <1>5, <3>1, <3>2
  <2> QED BY <2>1, <1>3 DEF Contents
<1> QED BY <1>3, <1>4, <1>5

\* A step that puts no message: every sender either is where it was or has begun
\* another call.
LEMMA ToldKept ==
  ASSUME TypeOK, RingIntact, Told, Contents' \subseteq Contents,
         \A s \in Senders : \/ sends'[s] = sends[s] /\ (Unsent(s)' => Unsent(s))
                            \/ sends'[s] = sends[s] + 1
  PROVE  Told'
<1> SUFFICES ASSUME NEW m \in Contents'
             PROVE  m.n =< sends'[m.from] /\ (Unsent(m.from)' => m.n # sends'[m.from])
  BY DEF Told
<1>1. m \in Contents /\ m.from \in Senders /\ m.n \in Nat /\ sends[m.from] \in Nat
  BY ContentsTyped, BoundIsNat DEF Msgs, TypeOK
<1>2. m.n =< sends[m.from] /\ (Unsent(m.from) => m.n # sends[m.from])
  BY <1>1 DEF Told
<1> QED BY <1>1, <1>2

\* A call that puts its message, or fails to.
LEMMA ToldEnqueue ==
  ASSUME Inv, [Next]_vars, Told, NEW s \in Senders, NEW n \in 1..MaxSends,
         ~mailbox_at_capacity, Enqueue(s, n), sends'[s] = n,
         sends[s] = n => Unsent(s), sends[s] = n \/ sends[s] + 1 = n,
         \A u \in Senders \ {s} : sends'[u] = sends[u]
  PROVE  Told'
<1>1. messageCount < Cap /\ TypeOK /\ RingIntact /\ s \in Threads
  BY CapPositive DEF mailbox_at_capacity, Inv, TypeOK, Threads
<1>2. ASSUME NEW st \in {0, 1}, SignalAndReturn(s, st)
      PROVE  /\ status'[s] = st /\ pc'[s] = "signal"
             /\ \A u \in Senders \ {s} : Unsent(u)' <=> Unsent(u)
  <2>1. \A u \in Senders : u \in Threads
    BY DEF Threads
  <2> QED BY <1>1, <1>2, <2>1 DEF SignalAndReturn, Finish, TypeOK, Unsent
<1>3. CASE /\ "marshal" \in Faults
           /\ messages' = [messages EXCEPT ![messageNext] = Partial]
           /\ SignalAndReturn(s, 1)
           /\ UNCHANGED <<messageCount, messageFirst, messageNext, waiters>>
  <2>1. Contents' \subseteq Contents
    BY <1>1, <1>3, ContentsStep DEF RingGarble
  <2> QED BY <1>1, <1>2, <1>3, <2>1, ToldKept
<1>4. ASSUME NEW b \in BOOLEAN,
             /\ messages' = [messages EXCEPT ![messageNext] = [from |-> s, n |-> n, bad |-> b]]
             /\ messageNext' = succ(messageNext)
             /\ messageCount' = messageCount + 1
             /\ SignalAndReturn(s, 0)
             /\ UNCHANGED <<messageFirst, waiters>>
      PROVE  Told'
  <2> DEFINE new == [from |-> s, n |-> n, bad |-> b]
  <2>1. new \in Msgs /\ Contents' \subseteq Contents \cup {new}
    <3>1. new \in Msgs
      BY DEF Msgs
    <3>2. RingPush(new)
      BY <1>1, <1>4 DEF RingPush
    <3> QED BY <3>1, <3>2, ContentsStep
  <2>2. ~Unsent(s)'
    BY <1>2, <1>4 DEF Unsent
  <2> SUFFICES ASSUME NEW m \in Contents'
               PROVE  m.n =< sends'[m.from] /\ (Unsent(m.from)' => m.n # sends'[m.from])
    BY DEF Told
  <2>3. CASE m = new
    <3>1. m.n = n /\ m.from = s /\ n \in Nat
      BY <2>3, BoundIsNat
    <3> QED BY <2>2, <3>1
  <2>4. CASE m \in Contents
    <3>1. m.from \in Senders /\ m.n \in Nat /\ sends[m.from] \in Nat /\ n \in Nat
      BY <1>1, <2>4, ContentsTyped, BoundIsNat DEF Msgs, TypeOK
    <3>2. m.n =< sends[m.from] /\ (Unsent(m.from) => m.n # sends[m.from])
      BY <2>4 DEF Told
    <3>3. CASE m.from = s
      BY <2>2, <3>1, <3>2, <3>3
    <3>4. CASE m.from # s
      BY <1>2, <1>4, <3>1, <3>2, <3>4
    <3> QED BY <3>3, <3>4
  <2> QED BY <2>1, <2>3, <2>4
<1> QED BY <1>3, <1>4 DEF Enqueue

LEMMA ToldStep ==
  ASSUME Inv, [Next]_vars, Told
  PROVE  Told'
<1>1. /\ TypeOK /\ RingIntact /\ Calls /\ Senders \subseteq Threads /\ Receiver \notin Senders
      /\ pc \in [Threads -> PCs] /\ status \in [Threads -> {0, 1, 2}]
      /\ sends \in [Senders -> 0..MaxSends]
  BY ThreadsDiffer DEF Inv, TypeOK, Threads
<1>2. UNCHANGED ring => Contents' \subseteq Contents
  BY ContentsStep
<1>3. ASSUME NEW s \in Senders, SendNoHandle(s) \/ SendClosed(s) \/ SendFull(s)
      PROVE  Told'
  <2>1. UNCHANGED ring /\ sends' = [sends EXCEPT ![s] = @ + 1]
    BY <1>3 DEF SendNoHandle, SendClosed, SendFull, BeginSend
  <2>2. \A u \in Threads \ {s} : pc'[u] = pc[u] /\ status'[u] = status[u]
    BY <1>1, <1>3 DEF SendNoHandle, SendClosed, SendFull, Return, Finish, Block
  <2> QED BY <1>1, <1>2, <2>1, <2>2, ToldKept DEF Unsent
<1>4. ASSUME NEW s \in Senders, SendNow(s)
      PROVE  Told'
  <2>1. /\ sends' = [sends EXCEPT ![s] = @ + 1] /\ ~mailbox_at_capacity
        /\ Enqueue(s, sends[s] + 1) /\ sends[s] + 1 \in 1..MaxSends
    BY <1>1, <1>4, BoundIsNat DEF SendNow, BeginSend
  <2>2. /\ sends'[s] = sends[s] + 1 /\ sends[s] # sends[s] + 1
        /\ \A u \in Senders \ {s} : sends'[u] = sends[u]
    BY <1>1, <2>1
  <2> QED BY <2>1, <2>2, ToldEnqueue
<1>5. ASSUME NEW s \in Senders, SendRetry(s)
      PROVE  Told'
  <2>1. UNCHANGED sends /\ Unsent(s) /\ sends[s] \in 1..MaxSends
    BY <1>1, <1>5 DEF SendRetry, Unsent, Calls
  <2>2. CASE ~mailbox_at_capacity /\ Enqueue(s, sends[s])
    BY <2>1, <2>2, ToldEnqueue
  <2>3. CASE UNCHANGED ring /\ (SignalAndReturn(s, 1) \/ Block(s, wait[s]))
    <3>1. \A u \in Threads \ {s} : pc'[u] = pc[u] /\ status'[u] = status[u]
      BY <1>1, <2>3 DEF SignalAndReturn, Finish, Block
    <3> QED BY <1>1, <1>2, <2>1, <2>3, <3>1, ToldKept DEF Unsent
  <2> QED BY <1>5, <2>2, <2>3 DEF SendRetry
<1>6. ASSUME NEW s \in Senders, SendTimeout(s) \/ SendGiveUp(s)
      PROVE  Told'
  <2>1. UNCHANGED <<ring, sends>> /\ Unsent(s)
    BY <1>1, <1>6 DEF SendTimeout, SendGiveUp, Unsent, Calls
  <2>2. \A u \in Threads \ {s} : pc'[u] = pc[u] /\ status'[u] = status[u]
    BY <1>1, <1>6 DEF SendTimeout, SendGiveUp, SignalAndReturn, Finish
  <2> QED BY <1>1, <1>2, <2>1, <2>2, ToldKept DEF Unsent
<1>7. ASSUME Contents' \subseteq Contents, UNCHANGED sends,
             \A s \in Senders : pc'[s] = pc[s] /\ status'[s] = status[s]
      PROVE  Told'
  BY <1>1, <1>7, ToldKept DEF Unsent
<1>8. CASE ReceiveBegin \/ ReceiveRetry
  <2>1. PICK w : ReceiveTurn(w)
    BY <1>8 DEF ReceiveBegin, ReceiveRetry
  <2>2. UNCHANGED <<messages, messageNext, sends>>
    BY <1>8 DEF ReceiveBegin, ReceiveRetry
  <2>3. RingPop \/ UNCHANGED ring
    BY <2>1, <2>2 DEF ReceiveTurn, RingPop, ring
  <2>4. \A s \in Senders : pc'[s] = pc[s] /\ status'[s] = status[s]
    BY <1>1, <2>1 DEF ReceiveTurn, SignalAndReturn, Return, Finish, Block
  <2> QED BY <1>7, <2>2, <2>3, <2>4, ContentsStep
<1>9. CASE ReceiveTimeout \/ Deinit \/ \E s \in Senders : CloseHandle(s)
  <2>1. UNCHANGED <<ring, sends>>
    BY <1>9 DEF ReceiveTimeout, Deinit, CloseHandle
  <2>2. \A s \in Senders : pc'[s] = pc[s] /\ status'[s] = status[s]
    BY <1>1, <1>9 DEF ReceiveTimeout, Deinit, CloseHandle, Return, Finish
  <2> QED BY <1>2, <1>7, <2>1, <2>2
<1>10. ASSUME NEW t \in Threads, Signal(t) \/ Spurious(t) \/ Deadline(t)
       PROVE  Told'
  <2>1. UNCHANGED <<ring, sends, status>>
    BY <1>10 DEF Signal, Spurious, Deadline
  <2>2. \A s \in Senders : pc'[s] \in {"wait", "woken", "timedout"} =>
                             pc[s] \in {"wait", "woken", "timedout"}
    BY <1>1, <1>10 DEF Signal, Spurious, Leave, Deadline, Calls
  <2> QED BY <1>1, <1>2, <2>1, <2>2, ToldKept DEF Unsent
<1>11. CASE UNCHANGED vars
  <2>1. UNCHANGED <<ring, sends, pc, status>>
    BY <1>11 DEF vars
  <2> QED BY <1>2, <1>7, <2>1
<1> QED BY <1>1, <1>3, <1>4, <1>5, <1>6, <1>8, <1>9, <1>10, <1>11
        DEF Next, SenderBegin, SenderCall, ReceiverCall, Threads

\* A send that failed, timed out or is still blocked has left nothing in the ring,
\* for every capacity and however many senders retry at once: the caller may repeat
\* it without the message arriving twice.
THEOREM ReportsTrue == Spec => []SendReportsTruth
<1>1. Inv /\ Told => SendReportsTruth
  <2> SUFFICES ASSUME Inv, Told, NEW s \in Senders, NEW i \in 1..messageCount, Unsent(s)
               PROVE  ~(queue[i].from = s /\ queue[i].n = sends[s])
    BY DEF SendReportsTruth, Unsent
  <2> QED BY DEF Told, Contents
<1>2. Init => Told
  BY DEF Init, Told, Contents
<1>3. Inv /\ Told /\ [Next]_vars => Told'
  BY ToldStep
<1> QED BY <1>1, <1>2, <1>3, Invariance, PTL DEF Spec
=============================================================================
