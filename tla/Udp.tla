-------------------------------- MODULE Udp --------------------------------
(***************************************************************************)
(* udp/listen (udp.c): every call binds a socket of its own, takes the     *)
(* first datagram and closes it.  Datagrams are numbered as they reach the *)
(* port; the network may have lost or reordered them before.               *)
(***************************************************************************)
EXTENDS Integers, Sequences

CONSTANT Datagrams      \* bound on the number of datagrams

VARIABLES
  ld,           \* "closed", "bound"
  queue,        \* of the socket: what the kernel keeps for it
  came,         \* number of datagrams that have reached the port
  world,        \* udp_listen_received: survives the call; 0 before the first
  opened,       \* the value of came when the socket was bound
  got           \* what each call has returned, see Answer

udpvars == <<ld, queue, came, world, opened, got>>

Answer(d, failed) == [datagram |-> d, since |-> opened, failed |-> failed]

UdpInit == /\ ld = "closed" /\ queue = <<>> /\ came = 0 /\ world = 0
           /\ opened = 0 /\ got = <<>>

\* Mutant: the socket is kept from one call to the next.
udp_listen_kept == /\ ld = "closed" /\ Len(got) < Datagrams
                   /\ ld' = "bound" /\ queue' = queue /\ opened' = came
                   /\ UNCHANGED <<came, world, got>>

\* The bound on the calls is that on the datagrams.
udp_listen == /\ ld = "closed" /\ Len(got) < Datagrams
              /\ ld' = "bound" /\ queue' = <<>> /\ opened' = came
              /\ UNCHANGED <<came, world, got>>

\* A datagram for a port that nobody has bound is dropped.
Arrives == /\ came < Datagrams
           /\ came' = came + 1
           /\ queue' = IF ld = "bound" THEN Append(queue, came + 1) ELSE queue
           /\ UNCHANGED <<ld, world, opened, got>>

\* receive_udp, close, and the string made of world; the rest of the queue goes
\* with the socket.
receive_udp == /\ ld = "bound" /\ queue # <<>>
               /\ world' = Head(queue) /\ queue' = Tail(queue)
               /\ got' = Append(got, Answer(world', FALSE))
               /\ ld' = "closed"
               /\ UNCHANGED <<came, opened>>

\* recvfrom fails: the call returns what the one before has returned, or "".
ReceiveFails == /\ ld = "bound"
                /\ got' = Append(got, Answer(world, TRUE))
                /\ ld' = "closed"
                /\ UNCHANGED <<queue, came, world, opened>>

UdpNext == udp_listen \/ Arrives \/ receive_udp \/ ReceiveFails

-----------------------------------------------------------------------------
(* Properties *)

\* A call answers with the first datagram that has come since it began to listen,
\* never with one that came between two calls or that another call has had, except
\* when the system reports an error: then it repeats the answer before.
FreshOrRepeated ==
  \A i \in DOMAIN got :
    got[i].datagram = IF ~got[i].failed THEN got[i].since + 1
                      ELSE IF i = 1 THEN 0 ELSE got[i - 1].datagram
=============================================================================
