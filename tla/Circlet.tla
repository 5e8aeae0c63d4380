------------------------------ MODULE Circlet ------------------------------
(***************************************************************************)
(* The HTTP server of target/super/circlet: circlet.c, circlet_lib.janet   *)
(* and the part of mongoose.c that drives them.                            *)
(*                                                                         *)
(* One thread polls.  Each listener has one fiber, which all connections   *)
(* accepted by it share: an event for a complete request continues the     *)
(* fiber with the request and takes what it yields for the answer.  Clients*)
(* send, pipeline, stop in the middle of a request, send one that does not *)
(* parse and hang up at any time.                                          *)
(* Request k of connection c is <<c, k>>; what it says is a URI.           *)
(***************************************************************************)
EXTENDS Integers, Sequences

CONSTANTS
  Listeners, Conns,
  Home,         \* the listener that accepts each connection
  MaxRequests,  \* bound on the requests of each connection
  Uri,          \* what each request asks for
  Routes,       \* what the handler of each known URI may do, see Outcomes
  Unreliable,   \* connections whose client may cut off a request, send one
                \* that does not parse, and hang up
  Faults,       \* of "taken" (the port)
  None          \* no connection, no request

\* What a handler does with a request: return a proper dictionary, a dictionary
\* with an ill-typed entry, something else; yield an answer itself; signal in a
\* way that can be resumed; raise (or signal in a way that cannot).
Outcomes == {"answers", "ill_typed", "no_dictionary", "yields", "signals", "raises"}

Requests == UNION {{c} \X (1..MaxRequests[c]) : c \in Conns}

ASSUME ConfigurationSound ==
  /\ MaxRequests \in [Conns -> Nat]
  /\ None \notin Conns /\ None \notin Requests /\ "crashed" \notin Conns
  /\ Home \in [Conns -> Listeners]
  /\ \A uri \in DOMAIN Routes : Routes[uri] \subseteq Outcomes

VARIABLES
  fiber,      \* status of the fiber of each listener
  held,       \* the request whose handler is suspended inside it, or None
  flags,      \* of each connection
  sent,       \* number of requests each client has sent
  last,       \* the last of them: whole, cut off after its headers, or bad,
              \* which is that its headers are invalid or do not end in time
  eof,        \* the client has closed its side
  taken,      \* number of requests read into recv_mbuf
  fate,       \* what became of each request handed to http_handler
  replies,    \* all that was ever put into send_mbuf: the requests answered
  flushed,    \* number of them the client has been sent
  turn        \* the connection whose recv_mbuf is being worked off

fibers == <<fiber, held>>
client == <<sent, last, eof>>
buffers == <<flags, taken, fate, replies, flushed>>
vars == <<fibers, client, buffers, turn>>

-----------------------------------------------------------------------------
Init == /\ fiber = [l \in Listeners |-> "unbound"]
        /\ held = [l \in Listeners |-> None]
        /\ flags = [c \in Conns |-> "none"]
        /\ sent = [c \in Conns |-> 0] /\ last = [c \in Conns |-> "whole"]
        /\ eof = [c \in Conns |-> FALSE]
        /\ taken = [c \in Conns |-> 0] /\ fate = [c \in Conns |-> <<>>]
        /\ replies = [c \in Conns |-> <<>>] /\ flushed = [c \in Conns |-> 0]
        /\ turn = None

Polling == turn = None
Alive(c) == flags[c] \in {"open", "send_and_close"}

\* do_bind: the fiber runs evloop up to its first (yield nil).
Bind(l) == /\ Polling /\ fiber[l] = "unbound"
           /\ fiber' = [fiber EXCEPT ![l] = "pending"]
           /\ UNCHANGED <<held, client, buffers, turn>>

\* mg_bind returns NULL, and conn->user_data is written through it.
BindTaken(l) == /\ Polling /\ fiber[l] = "unbound" /\ "taken" \in Faults
                /\ turn' = "crashed"
                /\ UNCHANGED <<fibers, client, buffers>>

\* The accepted connection gets the user_data of its listener.
Accept(c) == /\ Polling /\ flags[c] = "none" /\ fiber[Home[c]] # "unbound"
             /\ flags' = [flags EXCEPT ![c] = "open"]
             /\ UNCHANGED <<fibers, client, taken, fate, replies, flushed, turn>>

-----------------------------------------------------------------------------
(* Clients.  A request that arrives in parts and is completed counts as    *)
(* sent when its last part is.  What follows one that is not whole belongs *)
(* to it.                                                                  *)

Send(c) == /\ flags[c] # "none" /\ ~eof[c] /\ last[c] = "whole" /\ sent[c] < MaxRequests[c]
           /\ sent' = [sent EXCEPT ![c] = @ + 1]
           /\ \/ last' = last
              \/ /\ c \in Unreliable
                 /\ \E how \in {"cut", "bad"} : last' = [last EXCEPT ![c] = how]
           /\ UNCHANGED <<fibers, eof, buffers, turn>>

HangUp(c) == /\ c \in Unreliable /\ flags[c] # "none" /\ ~eof[c]
             /\ eof' = [eof EXCEPT ![c] = TRUE]
             /\ UNCHANGED <<fibers, sent, last, buffers, turn>>

-----------------------------------------------------------------------------
(* http_handler with the next request r of connection c. *)

Handled(c) == Len(fate[c])

\* What (mw r) may do, mw being (router Routes): a URI that is not there and no
\* default give the number 404.
router(r) == IF Uri[r] \in DOMAIN Routes THEN Routes[Uri[r]]
             ELSE IF "default" \in DOMAIN Routes THEN Routes["default"]
             ELSE {"no_dictionary"}

\* The request whose handler runs when the fiber is continued with r: evloop
\* calls (mw r), unless an earlier handler waits for the value of its yield.
Running(l, r) == IF held[l] = None THEN r ELSE held[l]

\* Mutant: forgets the state of the fiber.
resumable_any(l) == TRUE

\* janet_continue refuses a fiber that has failed.
resumable(l) == fiber[l] # "error"

\* janet_continue with the value r; o is how the handler goes on.
Continue(l, r, o) ==
  LET who == Running(l, r) IN
  /\ o \in router(who)
  /\ fiber' = [fiber EXCEPT ![l] = CASE o = "raises"  -> "error"
                                     [] o = "signals" -> "debug"
                                     [] OTHER         -> "pending"]
  /\ held' = [held EXCEPT ![l] = IF o \in {"yields", "signals"} THEN who ELSE None]

\* Mutant: leaves the function where an entry is ill-typed.
send_http_returns(c, r, o) ==
  /\ replies' = IF o = "ill_typed" THEN replies
                ELSE [replies EXCEPT ![c] = Append(@, Running(Home[c], r))]
  /\ flags' = IF o = "ill_typed" THEN flags ELSE [flags EXCEPT ![c] = "send_and_close"]

\* send_http: a dictionary, or a 500 for anything that is none, or nothing at
\* all if an entry is ill-typed.  In any case the connection is to be closed.
send_http(c, r, o) ==
  /\ replies' = IF o = "ill_typed" THEN replies
                ELSE [replies EXCEPT ![c] = Append(@, Running(Home[c], r))]
  /\ flags' = [flags EXCEPT ![c] = "send_and_close"]

\* Mutant: the message stays in recv_mbuf.
http_handler_keeps(c, r) ==
  LET l == Home[c] IN
  \/ /\ ~resumable(l)
     /\ UNCHANGED <<fibers, fate, replies, flags>>
  \/ /\ resumable(l)
     /\ \E o \in Outcomes :
          /\ Continue(l, r, o)
          /\ IF o \in {"signals", "raises"} THEN UNCHANGED <<fate, replies, flags>>
                                            ELSE send_http(c, r, o) /\ fate' = fate

\* Without an answer there is a stack trace on stderr, no reply, and the
\* connection stays as it is.
http_handler(c, r) ==
  LET l == Home[c] IN
  \/ /\ ~resumable(l)
     /\ fate' = [fate EXCEPT ![c] = Append(@, "refused")]
     /\ UNCHANGED <<fibers, replies, flags>>
  \/ /\ resumable(l)
     /\ \E o \in Outcomes :
          /\ Continue(l, r, o)
          /\ fate' = [fate EXCEPT ![c] = Append(@, o)]
          /\ IF o \in {"signals", "raises"} THEN UNCHANGED <<replies, flags>>
                                            ELSE send_http(c, r, o)

-----------------------------------------------------------------------------
(* mg_mgr_poll goes through the connections; what it does for one. *)

\* Mutant: does not wait for the body.
ReadyHeaders(c, n, h) == h < n

\* Of n requests in recv_mbuf, h of them worked off, mg_http_handler does not
\* wait for more of the next one.
Ready(c, n, h) == h < n /\ (h + 1 < sent[c] \/ last[c] # "cut")

\* The next one does not parse.
Invalid(c) == Handled(c) + 1 = sent[c] /\ last[c] = "bad"

\* mg_do_recv: what the socket holds, or the first part of it.
Recv(c) == /\ Polling /\ Alive(c)
           /\ \E n \in (taken[c] + 1)..sent[c] :
                /\ taken' = [taken EXCEPT ![c] = n]
                /\ turn' = IF Ready(c, n, Handled(c)) THEN c ELSE None
           /\ UNCHANGED <<fibers, client, flags, fate, replies, flushed>>

\* One turn of the loop `again' of mg_http_handler.
Work(c) == /\ turn = c /\ ~Invalid(c)
           /\ http_handler(c, <<c, Handled(c) + 1>>)
           /\ UNCHANGED taken
           /\ turn' = IF Ready(c, taken[c], Handled(c) + 1) THEN c ELSE None
           /\ UNCHANGED <<client, flushed>>

\* It meets an invalid request, which stays in recv_mbuf.
Reject(c) == /\ turn = c /\ Invalid(c)
             /\ flags' = [flags EXCEPT ![c] = "close_immediately"]
             /\ turn' = None
             /\ UNCHANGED <<fibers, client, taken, fate, replies, flushed>>

\* recv returns 0: the output is still flushed.
RecvEof(c) == /\ Polling /\ flags[c] = "open" /\ eof[c] /\ taken[c] = sent[c]
              /\ flags' = [flags EXCEPT ![c] = "send_and_close"]
              /\ UNCHANGED <<fibers, client, taken, fate, replies, flushed, turn>>

Flush(c) == /\ Polling /\ Alive(c) /\ flushed[c] < Len(replies[c])
            /\ flushed' = [flushed EXCEPT ![c] = @ + 1]
            /\ UNCHANGED <<fibers, client, flags, taken, fate, replies, turn>>

\* mg_close_conn: what is left in recv_mbuf is handed to http_handler if its
\* headers parse, although it is not whole; an answer ends in a buffer that is
\* thrown away.
CloseConn(c) ==
  /\ flags' = [flags EXCEPT ![c] = "closed"]
  /\ IF Handled(c) < taken[c] /\ ~Invalid(c)
     THEN LET l == Home[c] IN
          \/ /\ ~resumable(l)
             /\ fate' = [fate EXCEPT ![c] = Append(@, "refused")]
             /\ UNCHANGED fibers
          \/ /\ resumable(l)
             /\ \E o \in Outcomes : /\ Continue(l, <<c, Handled(c) + 1>>, o)
                                    /\ fate' = [fate EXCEPT ![c] = Append(@, o)]
     ELSE UNCHANGED <<fibers, fate>>
  /\ UNCHANGED <<client, taken, replies, flushed, turn>>

\* Mutant: closes although send_mbuf is not empty.
CloseAtOnce(c) == /\ Polling /\ flags[c] \in {"send_and_close", "close_immediately"}
                  /\ CloseConn(c)

\* mg_if_poll: nothing is flushed any more when the connection is to be closed
\* immediately.
Close(c) == /\ Polling
            /\ \/ flags[c] = "send_and_close" /\ flushed[c] = Len(replies[c])
               \/ flags[c] = "close_immediately"
            /\ CloseConn(c)

\* The peer resets the connection: recv or send fails.
Reset(c) == /\ Polling /\ Alive(c) /\ eof[c]
            /\ CloseConn(c)

Poll(c) == \/ Accept(c) \/ Recv(c) \/ Work(c) \/ Reject(c)
           \/ RecvEof(c) \/ Flush(c) \/ Close(c)

Next == \/ \E l \in Listeners : Bind(l) \/ BindTaken(l)
        \/ \E c \in Conns : Poll(c) \/ Reset(c) \/ Send(c) \/ HangUp(c)

Spec == Init /\ [][Next]_vars

\* The loop of `server' polls for ever, each poll goes through all connections,
\* and handlers end or yield.
FairSpec == Spec /\ \A c \in Conns : SF_vars(Poll(c))

-----------------------------------------------------------------------------
(* Properties *)

TypeOK == /\ fiber \in [Listeners -> {"unbound", "pending", "debug", "error"}]
          /\ held \in [Listeners -> Requests \cup {None}]
          /\ flags \in [Conns -> {"none", "open", "send_and_close",
                                 "close_immediately", "closed"}]
          /\ sent \in [Conns -> Nat] /\ taken \in [Conns -> Nat]
          /\ \A c \in Conns : taken[c] =< sent[c] /\ sent[c] =< MaxRequests[c]
          /\ last \in [Conns -> {"whole", "cut", "bad"}] /\ eof \in [Conns -> BOOLEAN]
          /\ fate \in [Conns -> Seq(Outcomes \cup {"refused"})]
          /\ replies \in [Conns -> Seq(Requests)] /\ flushed \in [Conns -> Nat]
          /\ turn \in Conns \cup {None, "crashed"}

\* Some handler of l has ended this way.
Seen(l, os) == \E c \in Conns : Home[c] = l /\ \E k \in DOMAIN fate[c] : fate[c][k] \in os

\* As long as no handler of the listener suspends, a connection gets the answers
\* to its own requests only, in their order and each once, although all the
\* connections share one fiber and are pipelined.
AnswersOwnRequest ==
  \A c \in Conns : ~Seen(Home[c], {"yields", "signals"}) =>
    /\ \A i \in DOMAIN replies[c] : replies[c][i][1] = c /\ replies[c][i][2] =< Handled(c)
    /\ \A i, j \in DOMAIN replies[c] : i < j => replies[c][i][2] < replies[c][j][2]

\* A listener fails its clients only for its own reasons: a request is refused
\* only after one of the same listener has raised, and from then on all are.
RefusedAfterRaise ==
  \A l \in Listeners : /\ Seen(l, {"refused"}) => Seen(l, {"raises"})
                       /\ Seen(l, {"raises"}) <=> fiber[l] = "error"

\* A connection that the client has not given up is closed only when the client
\* has been sent everything that was written for it, except behind an invalid
\* request of its own: once the server has read one, answers that it has not
\* sent yet are dropped.
DrainedBeforeClose ==
  \A c \in Conns :
    flags[c] = "closed" /\ ~eof[c] /\ ~(last[c] = "bad" /\ taken[c] = sent[c])
      => flushed[c] = Len(replies[c])

\* A request that was cut off is handled, if at all, when nobody waits for it,
\* and one that does not parse never.
CutOffUnanswered ==
  \A c \in Conns : last[c] # "whole" /\ Handled(c) = sent[c]
                    => last[c] = "cut" /\ flags[c] = "closed"

\* Every request is settled: its connection is closed (DrainedBeforeClose says
\* what its client has got by then), or it was handled without an answer by a
\* handler that signalled or failed, or was refused for such a one.  No other
\* client and no other listener can keep it waiting.
Settled(r) == \/ flags[r[1]] = "closed"
              \/ /\ r[2] =< Handled(r[1])
                 /\ fate[r[1]][r[2]] \in {"signals", "raises", "refused"}
Arrived(r) == r[2] =< sent[r[1]] /\ (r[2] < sent[r[1]] \/ last[r[1]] # "cut")
EveryRequestSettled ==
  \A r \in Requests : Arrived(r) ~> Settled(r) \/ turn = "crashed"
=============================================================================
