------------------------------ MODULE TcpRead ------------------------------
(***************************************************************************)
(* The tcp client (tcp.c): make-sock, one after another read-sock, and the *)
(* peer.  Bytes are named by their place in what the peer sends.  Where    *)
(* make-sock has given 0, the peer is who writes to the standard input.    *)
(***************************************************************************)
EXTENDS Integers, Sequences, FiniteSets, SequencesExt

CONSTANTS
  Sent,         \* number of bytes that the peer may send
  ReadBytes,    \* sizeof (buf) - 1: 7 where a pointer has eight bytes
  BufSize,      \* of buf in read_sock (1024)
  MaxCalls      \* bound on the calls of read-sock

ASSUME TcpNumbers == Sent \in Nat /\ ReadBytes \in Nat \ {0} /\ BufSize \in Nat

VARIABLES
  nuls,         \* which of the bytes are 0
  sock,         \* "none", what make-sock gave: "connected", "closed" (the number
                \* of a closed socket), "stdin" (0); or "crashed"
  arrived,      \* bytes that have reached this side
  peerClosed,
  timed,        \* SO_RCVTIMEO is set
  reading,      \* in read_tcp
  taken,        \* bytes that read has returned
  buf,          \* of this call; its length is offset
  answers,      \* of the calls of read-sock
  overrun       \* wrote beyond buf

tcpvars == <<nuls, sock, arrived, peerClosed, timed, reading, taken, buf, answers, overrun>>

Hole == 0       \* a place of buf that was skipped: what lay on the stack before
Junk == -1      \* such a place with something else than 0 in it

TcpInit == /\ nuls \in SUBSET (1..Sent)
           /\ sock = "none" /\ arrived = 0 /\ peerClosed = FALSE /\ timed = FALSE
           /\ reading = FALSE /\ taken = 0 /\ buf = <<>> /\ answers = <<>> /\ overrun = FALSE

\* 0 for a host that is not found, without an address, or if socket fails for the
\* last one; the number of a socket that could not be connected, and is closed.
\* If getaddrinfo fails, the list of addresses is whatever lies on the stack.
make_sock == /\ sock = "none" /\ sock' \in {"connected", "closed", "stdin", "crashed"}
             /\ UNCHANGED <<nuls, arrived, peerClosed, timed, reading, taken, buf, answers, overrun>>

Open == sock \in {"connected", "stdin"}

PeerSends == /\ Open /\ ~peerClosed /\ arrived < Sent
             /\ arrived' \in (arrived + 1)..Sent
             /\ UNCHANGED <<nuls, sock, peerClosed, timed, reading, taken, buf, answers, overrun>>

PeerCloses == /\ Open /\ ~peerClosed /\ peerClosed' = TRUE
              /\ UNCHANGED <<nuls, sock, arrived, timed, reading, taken, buf, answers, overrun>>

-----------------------------------------------------------------------------
(* read-sock and unmake-sock *)

Idle == sock \notin {"none", "crashed"} /\ ~reading /\ ~overrun

\* Also of the standard input.
unmake_sock == /\ Idle /\ sock' = "closed"
               /\ UNCHANGED <<nuls, arrived, peerClosed, timed, reading, taken, buf, answers, overrun>>

read_sock == /\ Idle /\ Len(answers) < MaxCalls
             /\ reading' = TRUE /\ buf' = <<>>
             /\ UNCHANGED <<nuls, sock, arrived, peerClosed, timed, taken, answers, overrun>>

There == IF Open THEN arrived - taken ELSE 0

\* What a read of n bytes puts behind offset: memcpy stops at the first 0.
Copied(n) == [k \in 1..n |-> IF \E j \in 1..k : taken + j \in nuls THEN Hole ELSE taken + k]

\* Mutant: each read goes to the beginning of buf.
Take_restarts(n) ==
  /\ buf' = Copied(n) /\ overrun' = (n > BufSize)
  /\ taken' = taken + n /\ timed' = (sock = "connected")

\* The timeout is set after the first read, and stays with the socket; the standard
\* input, which is none, has no timeout.
Take(n) == /\ buf' = buf \o Copied(n)
           /\ overrun' = (\E k \in DOMAIN buf' : k > BufSize /\ buf'[k] # Hole)
           /\ taken' = taken + n /\ timed' = (sock = "connected")

Read == /\ reading /\ ~overrun /\ There > 0
        /\ Take(IF There < ReadBytes THEN There ELSE ReadBytes)
        /\ UNCHANGED <<nuls, sock, arrived, peerClosed, reading, answers>>

\* janet_string up to the first 0, where places that were skipped may hold one.
Text(zeros) ==
  LET ends == {k \in zeros : \A j \in zeros : k =< j}
      len == IF zeros = {} THEN Len(buf) ELSE (CHOOSE k \in ends : TRUE) - 1
  IN [k \in 1..len |-> IF buf[k] = Hole THEN Junk ELSE buf[k]]

\* Mutant: read is tried again after a timeout.
Ends_retried == sock = "closed" \/ peerClosed

\* read gives 0 at the end, -1 after the timeout or for a closed number.
Ends == sock = "closed" \/ peerClosed \/ timed

Return == /\ reading /\ ~overrun /\ There = 0 /\ Ends
          /\ reading' = FALSE
          /\ IF Len(buf) >= BufSize
             THEN overrun' = TRUE /\ UNCHANGED answers
             ELSE /\ \E zeros \in SUBSET {k \in DOMAIN buf : buf[k] = Hole} :
                       answers' = Append(answers, Text(zeros))
                  /\ UNCHANGED overrun
          /\ UNCHANGED <<nuls, sock, arrived, peerClosed, timed, taken, buf>>

TcpNext == make_sock \/ PeerSends \/ PeerCloses \/ read_sock \/ unmake_sock \/ Read \/ Return

-----------------------------------------------------------------------------
(* Properties *)

Joined(texts) == FoldLeft(LAMBDA s, t : s \o t, <<>>, texts)

\* As long as no 0 has come, the answers and what is being read are exactly what
\* the peer has sent, in order, however it was cut into packets and calls; and buf
\* is left only by a call that finds, on its own, as many bytes as buf has: several
\* short answers never add up to that.
InOrderOnce ==
  LET before == Joined(answers) IN
  nuls \cap (1..taken) = {} =>
    IF overrun THEN taken - Len(before) >= BufSize
    ELSE before \o (IF reading THEN buf ELSE <<>>) = [k \in 1..taken |-> k]

\* Once a connection has delivered something, a call comes back (unless it overruns
\* buf), whether or not the peer says more; so does a call on a number that is
\* closed, and one whose peer has closed.  A call on the 0 of a make-sock that failed
\* promises nothing but the last: it waits for the standard input to end.
CallsReturn ==
  reading /\ (sock = "closed" \/ peerClosed \/ (sock = "connected" /\ taken > 0))
    ~> ~reading \/ overrun
=============================================================================
