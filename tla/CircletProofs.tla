--------------------------- MODULE CircletProofs ---------------------------
(***************************************************************************)
(* The safety properties of Circlet, for any number of listeners,          *)
(* connections and requests, any routes and any handlers.                  *)
(***************************************************************************)
EXTENDS Circlet, TLAPS

Fates == Outcomes \cup {"refused"}

\* recv_mbuf is worked off in order, a connection only while it is alive.
Progress ==
  \A c \in Conns :
    /\ Handled(c) =< taken[c]
    /\ turn = c => /\ Alive(c)
                   /\ Ready(c, taken[c], Handled(c))

\* A handler that waits inside the fiber has yielded or signalled.
HeldSeen == \A l \in Listeners : held[l] # None => Seen(l, {"yields", "signals"})

\* A connection to be closed immediately has read an invalid request.
Rejected == \A c \in Conns : flags[c] = "close_immediately"
                               => last[c] = "bad" /\ taken[c] = sent[c]

Inv == TypeOK /\ Progress /\ Rejected /\ HeldSeen /\ AnswersOwnRequest
       /\ RefusedAfterRaise /\ DrainedBeforeClose /\ CutOffUnanswered

FlagSet == {"none", "open", "send_and_close", "close_immediately", "closed"}

LEMMA RequestIsNumbered ==
  ASSUME NEW r \in Requests
  PROVE  r[1] \in Conns /\ r[2] \in Int
<1>1. PICK c \in Conns : r \in {c} \X (1..MaxRequests[c])
  BY DEF Requests
<1> QED BY <1>1, ConfigurationSound

-----------------------------------------------------------------------------
(* The steps of the server that reach a handler. *)

\* Appends the fate o of the next request of c.
Settles(c, o) == fate' = [fate EXCEPT ![c] = Append(@, o)]

\* What http_handler does to the fiber of c's listener, o being the fate.
Goes(c, o) ==
  \/ o = "refused" /\ fiber[Home[c]] = "error" /\ UNCHANGED fibers
  \/ /\ o \in Outcomes /\ fiber[Home[c]] # "error"
     /\ Continue(Home[c], <<c, Handled(c) + 1>>, o)

\* What has been seen is never forgotten, and one fate more is.
LEMMA SeenAfter ==
  ASSUME TypeOK, NEW c \in Conns, NEW o \in Fates, Settles(c, o),
         NEW l \in Listeners, NEW os
  PROVE  Seen(l, os)' <=> Seen(l, os) \/ (Home[c] = l /\ o \in os)
<1>1. fate[c] \in Seq(Fates) /\ fate \in [Conns -> Seq(Fates)]
  BY DEF TypeOK, Fates
<1>2. /\ fate'[c] = Append(fate[c], o)
      /\ \A d \in Conns : d # c => fate'[d] = fate[d]
  BY <1>1 DEF Settles
<1>3. /\ DOMAIN fate'[c] = DOMAIN fate[c] \cup {Len(fate[c]) + 1}
      /\ \A k \in DOMAIN fate[c] : fate'[c][k] = fate[c][k]
      /\ fate'[c][Len(fate[c]) + 1] = o
  BY <1>1, <1>2
<1>4. ASSUME Seen(l, os) PROVE Seen(l, os)'
  <2>1. PICK d \in Conns : Home[d] = l /\ \E k \in DOMAIN fate[d] : fate[d][k] \in os
    BY <1>4 DEF Seen
  <2>2. \E k \in DOMAIN fate'[d] : fate'[d][k] \in os
    BY <2>1, <1>2, <1>3
  <2> QED BY <2>1, <2>2 DEF Seen
<1>5. ASSUME Home[c] = l, o \in os PROVE Seen(l, os)'
  BY <1>5, <1>3 DEF Seen
<1>6. ASSUME Seen(l, os)', ~Seen(l, os) PROVE Home[c] = l /\ o \in os
  <2>1. PICK d \in Conns : Home[d] = l /\ \E k \in DOMAIN fate'[d] : fate'[d][k] \in os
    BY <1>6 DEF Seen
  <2>2. d = c
    BY <2>1, <1>2, <1>6 DEF Seen
  <2>3. PICK k \in DOMAIN fate'[c] : fate'[c][k] \in os
    BY <2>1, <2>2
  <2>4. k \notin DOMAIN fate[c]
    BY <2>1, <2>2, <2>3, <1>3, <1>6 DEF Seen
  <2> QED BY <2>1, <2>2, <2>3, <2>4, <1>3
<1> QED BY <1>4, <1>5, <1>6

\* Nothing is seen that fate does not record.
LEMMA SeenSame ==
  ASSUME fate' = fate, NEW l \in Listeners, NEW os
  PROVE  Seen(l, os)' <=> Seen(l, os)
BY DEF Seen

\* Which handler runs, and what typing the step keeps.
LEMMA HandlerTypes ==
  ASSUME TypeOK, Progress, NEW c \in Conns, NEW o \in Fates,
         Settles(c, o), Goes(c, o), Handled(c) < taken[c]
  PROVE  /\ <<c, Handled(c) + 1>> \in Requests
         /\ Running(Home[c], <<c, Handled(c) + 1>>) \in Requests
         /\ fiber' \in [Listeners -> {"unbound", "pending", "debug", "error"}]
         /\ held' \in [Listeners -> Requests \cup {None}]
         /\ fate' \in [Conns -> Seq(Fates)]
         /\ Handled(c)' = Handled(c) + 1
         /\ \A d \in Conns : d # c => Handled(d)' = Handled(d)
<1>1. Home[c] \in Listeners /\ fate \in [Conns -> Seq(Fates)] /\ fate[c] \in Seq(Fates)
  BY ConfigurationSound DEF TypeOK, Fates
<1>2. Handled(c) \in Nat
  BY <1>1 DEF Handled
<1>3. Handled(c) + 1 \in 1..MaxRequests[c]
  BY <1>2, ConfigurationSound DEF TypeOK
<1>4. <<c, Handled(c) + 1>> \in {c} \X (1..MaxRequests[c])
  BY <1>3
<1>5. <<c, Handled(c) + 1>> \in Requests
  BY <1>4 DEF Requests
<1>6. Running(Home[c], <<c, Handled(c) + 1>>) \in Requests
  BY <1>1, <1>5 DEF Running, TypeOK
<1>7. /\ fiber' \in [Listeners -> {"unbound", "pending", "debug", "error"}]
      /\ held' \in [Listeners -> Requests \cup {None}]
  <2>1. CASE UNCHANGED fibers
    BY <2>1 DEF TypeOK, fibers
  <2>2. CASE Continue(Home[c], <<c, Handled(c) + 1>>, o)
    BY <2>2, <1>6 DEF Continue, TypeOK
  <2> QED BY <2>1, <2>2 DEF Goes
<1>8. fate' \in [Conns -> Seq(Fates)] /\ Handled(c)' = Handled(c) + 1
      /\ \A d \in Conns : d # c => Handled(d)' = Handled(d)
  BY <1>1 DEF Settles, Handled
<1> QED BY <1>5, <1>6, <1>7, <1>8

\* A fiber is dead exactly from the first handler that raised.
LEMMA HandlerRaises ==
  ASSUME Inv, NEW c \in Conns, NEW o \in Fates, Settles(c, o), Goes(c, o)
  PROVE  RefusedAfterRaise'
<1>1. SUFFICES ASSUME NEW l \in Listeners
               PROVE  /\ Seen(l, {"refused"})' => Seen(l, {"raises"})'
                      /\ Seen(l, {"raises"})' <=> fiber'[l] = "error"
  BY DEF RefusedAfterRaise, Seen
<1>2. /\ Seen(l, {"refused"})' <=> Seen(l, {"refused"}) \/ (Home[c] = l /\ o \in {"refused"})
      /\ Seen(l, {"raises"})' <=> Seen(l, {"raises"}) \/ (Home[c] = l /\ o \in {"raises"})
  BY SeenAfter DEF Inv
<1>3. /\ Seen(l, {"refused"}) => Seen(l, {"raises"})
      /\ Seen(l, {"raises"}) <=> fiber[l] = "error"
  BY DEF Inv, RefusedAfterRaise
<1>4. CASE o = "refused" /\ fiber[Home[c]] = "error" /\ UNCHANGED fibers
  BY <1>2, <1>3, <1>4 DEF fibers
<1>5. CASE /\ o \in Outcomes /\ fiber[Home[c]] # "error"
           /\ Continue(Home[c], <<c, Handled(c) + 1>>, o)
  <2>1. o # "refused" /\ fiber \in [Listeners -> {"unbound", "pending", "debug", "error"}]
    BY <1>5 DEF Outcomes, Inv, TypeOK
  <2>2. /\ l # Home[c] => fiber'[l] = fiber[l]
        /\ l = Home[c] => (fiber'[l] = "error" <=> o = "raises")
    BY <1>5, <2>1 DEF Continue
  <2> QED BY <1>2, <1>3, <1>5, <2>1, <2>2
<1> QED BY <1>4, <1>5 DEF Goes

LEMMA HandlerHeld ==
  ASSUME Inv, NEW c \in Conns, NEW o \in Fates, Settles(c, o), Goes(c, o)
  PROVE  HeldSeen'
<1>1. SUFFICES ASSUME NEW l \in Listeners, held'[l] # None
               PROVE  Seen(l, {"yields", "signals"})'
  BY DEF HeldSeen, Seen
<1>2. Seen(l, {"yields", "signals"})'
        <=> Seen(l, {"yields", "signals"}) \/ (Home[c] = l /\ o \in {"yields", "signals"})
  BY SeenAfter DEF Inv
<1>3. held[l] # None => Seen(l, {"yields", "signals"})
  BY DEF Inv, HeldSeen
<1>4. CASE UNCHANGED fibers
  BY <1>1, <1>2, <1>3, <1>4 DEF fibers
<1>5. CASE Continue(Home[c], <<c, Handled(c) + 1>>, o)
  <2>1. held \in [Listeners -> Requests \cup {None}]
    BY DEF Inv, TypeOK
  <2>2. l # Home[c] => held'[l] = held[l]
    BY <1>5, <2>1 DEF Continue
  <2>3. l = Home[c] => o \in {"yields", "signals"}
    BY <1>5, <1>1, <2>1 DEF Continue
  <2> QED BY <1>1, <1>2, <1>3, <2>2, <2>3
<1> QED BY <1>4, <1>5 DEF Goes

-----------------------------------------------------------------------------
(* One lemma for each step that reaches a handler. *)

LEMMA WorkKeeps ==
  ASSUME Inv, NEW c \in Conns, Work(c)
  PROVE  Inv'
<1>1. /\ Alive(c) /\ Ready(c, taken[c], Handled(c))
      /\ Handled(c) < taken[c]
  BY DEF Inv, Progress, Work, Ready
<1>2. PICK o \in Fates : /\ Settles(c, o) /\ Goes(c, o)
                         /\ \/ UNCHANGED <<replies, flags>>
                            \/ send_http(c, <<c, Handled(c) + 1>>, o)
  <2>1. http_handler(c, <<c, Handled(c) + 1>>)
    BY DEF Work
  <2> QED BY <2>1 DEF http_handler, Fates, Settles, Goes, resumable
<1> DEFINE r == <<c, Handled(c) + 1>>
           who == Running(Home[c], r)
<1>3. /\ r \in Requests /\ who \in Requests
      /\ fiber' \in [Listeners -> {"unbound", "pending", "debug", "error"}]
      /\ held' \in [Listeners -> Requests \cup {None}]
      /\ fate' \in [Conns -> Seq(Fates)]
      /\ Handled(c)' = Handled(c) + 1
      /\ \A d \in Conns : d # c => Handled(d)' = Handled(d)
  BY <1>1, <1>2, HandlerTypes DEF Inv
<1>4. /\ flags \in [Conns -> FlagSet]
      /\ replies \in [Conns -> Seq(Requests)]
      /\ fate \in [Conns -> Seq(Fates)]
      /\ taken \in [Conns -> Nat] /\ sent \in [Conns -> Nat]
  BY DEF Inv, TypeOK, Fates, FlagSet
<1>5. /\ replies' \in [Conns -> Seq(Requests)]
      /\ \/ replies' = replies
         \/ replies' = [replies EXCEPT ![c] = Append(@, who)]
  <2>1. CASE UNCHANGED <<replies, flags>>
    BY <2>1, <1>4
  <2>2. CASE send_http(c, <<c, Handled(c) + 1>>, o)
    <3>1. replies' = replies \/ replies' = [replies EXCEPT ![c] = Append(@, who)]
      BY <2>2 DEF send_http
    <3>2. replies[c] \in Seq(Requests)
      BY <1>4
    <3> HIDE DEF who, r
    <3>3. Append(replies[c], who) \in Seq(Requests)
      BY <3>2, <1>3
    <3> QED BY <3>1, <3>3, <1>4
  <2> QED BY <1>2, <2>1, <2>2
<1>6. /\ flags' \in [Conns -> FlagSet]
      /\ flags' = flags \/ flags' = [flags EXCEPT ![c] = "send_and_close"]
  BY <1>2, <1>4 DEF send_http, FlagSet
<1>7. /\ UNCHANGED <<sent, last, eof, taken, flushed>>
      /\ turn = c
      /\ turn' = IF Ready(c, taken[c], Handled(c) + 1) THEN c ELSE None
      /\ ~Invalid(c)
  BY DEF Work, client
<1>8. TypeOK'
  BY <1>3, <1>5, <1>6, <1>7 DEF TypeOK, Inv, Fates, FlagSet
<1>9. Handled(c) \in Nat /\ \A d \in Conns : Handled(d) \in Nat
  BY <1>4 DEF Handled
<1>10. Progress'
  <2>1. SUFFICES ASSUME NEW d \in Conns
                 PROVE  /\ Handled(d)' =< taken'[d]
                        /\ turn' = d => Alive(d)' /\ Ready(d, taken[d], Handled(d))'
    BY DEF Progress, Ready, Alive, Handled
  <2>2. Handled(d)' =< taken'[d]
    <3>1. Handled(d) =< taken[d] /\ taken[d] \in Nat /\ taken' = taken
      BY <1>4, <1>7 DEF Inv, Progress
    <3>2. d = c \/ Handled(d)' = Handled(d)
      BY <1>3
    <3> QED BY <3>1, <3>2, <1>1, <1>3, <1>9
  <2>3. ASSUME turn' = d PROVE Alive(d)' /\ Ready(d, taken[d], Handled(d))'
    <3>1. d = c /\ Ready(c, taken[c], Handled(c) + 1)
      BY <1>7, <2>3, ConfigurationSound
    <3>2. Ready(c, taken[c], Handled(c))'
      BY <3>1, <1>3, <1>7 DEF Ready
    <3>3. Alive(c)'
      BY <1>1, <1>4, <1>6 DEF Alive
    <3> QED BY <3>1, <3>2, <3>3
  <2> QED BY <2>2, <2>3
<1>11. AnswersOwnRequest'
  <2>1. SUFFICES ASSUME NEW d \in Conns, ~Seen(Home[d], {"yields", "signals"})'
                 PROVE  /\ \A i \in DOMAIN replies'[d] : /\ replies'[d][i][1] = d
                                                         /\ replies'[d][i][2] =< Handled(d)'
                        /\ \A i, j \in DOMAIN replies'[d] :
                             i < j => replies'[d][i][2] < replies'[d][j][2]
    BY DEF AnswersOwnRequest, Seen, Handled
  <2>2. Home[d] \in Listeners
    BY ConfigurationSound
  <2>3. ~Seen(Home[d], {"yields", "signals"})
    BY <2>1, <2>2, <1>2, SeenAfter DEF Inv
  <2>4. /\ \A i \in DOMAIN replies[d] : replies[d][i][1] = d /\ replies[d][i][2] =< Handled(d)
        /\ \A i, j \in DOMAIN replies[d] : i < j => replies[d][i][2] < replies[d][j][2]
    BY <2>3 DEF Inv, AnswersOwnRequest
  <2>5. \A i \in DOMAIN replies[d] : replies[d][i][2] \in Int
    BY <1>4, RequestIsNumbered
  <2>6. CASE replies'[d] = replies[d]
    <3>1. Handled(d)' \in Nat /\ Handled(d) =< Handled(d)'
      BY <1>3, <1>9
    <3> QED BY <2>4, <2>5, <2>6, <3>1, <1>9
  <2>7. CASE d = c /\ replies'[d] = Append(replies[d], who)
    <3>1. who = r
      BY <2>2, <2>3, <2>7 DEF Inv, HeldSeen, Running
    <3>2. who[1] = c /\ who[2] = Handled(c) + 1
      BY <3>1
    <3>3. /\ DOMAIN replies'[d] = DOMAIN replies[d] \cup {Len(replies[d]) + 1}
          /\ \A i \in DOMAIN replies[d] : replies'[d][i] = replies[d][i] /\ i =< Len(replies[d])
          /\ replies'[d][Len(replies[d]) + 1] = who
          /\ DOMAIN replies[d] \subseteq Int /\ Len(replies[d]) \in Nat
      BY <2>7, <1>3, <1>4
    <3> HIDE DEF who, r
    <3> QED BY <2>4, <2>5, <2>7, <3>2, <3>3, <1>3, <1>9
  <2> QED BY <2>6, <2>7, <1>4, <1>5
<1>12. DrainedBeforeClose'
  <2>1. SUFFICES ASSUME NEW d \in Conns, flags'[d] = "closed", ~eof'[d],
                        ~(last'[d] = "bad" /\ taken'[d] = sent'[d])
                 PROVE  flushed'[d] = Len(replies'[d])
    BY DEF DrainedBeforeClose
  <2>2. d # c /\ flags[d] = "closed"
    BY <2>1, <1>1, <1>4, <1>6 DEF Alive
  <2> QED BY <2>1, <2>2, <1>4, <1>5, <1>7 DEF Inv, DrainedBeforeClose
<1>13. CutOffUnanswered'
  <2>1. SUFFICES ASSUME NEW d \in Conns, last'[d] # "whole", Handled(d)' = sent'[d]
                 PROVE  last'[d] = "cut" /\ flags'[d] = "closed"
    BY DEF CutOffUnanswered, Handled
  <2>2. d # c
    <3>1. last \in [Conns -> {"whole", "cut", "bad"}]
      BY DEF Inv, TypeOK
    <3>2. last[c] # "whole" => last[c] = "cut" \/ last[c] = "bad"
      BY <3>1
    <3> QED BY <2>1, <3>2, <1>1, <1>3, <1>4, <1>7, <1>9 DEF Ready, Invalid
  <2> QED BY <2>1, <2>2, <1>3, <1>4, <1>6, <1>7 DEF Inv, CutOffUnanswered
<1>14. RefusedAfterRaise' /\ HeldSeen'
  BY <1>2, HandlerRaises, HandlerHeld
<1>15. Rejected'
  BY <1>4, <1>6, <1>7 DEF Inv, Rejected
<1> QED BY <1>15, <1>8, <1>10, <1>11, <1>12, <1>13, <1>14 DEF Inv

\* Closing: what is left is handled, nothing is written any more.
LEMMA CloseKeeps ==
  ASSUME Inv, NEW c \in Conns, Polling, CloseConn(c),
         \/ eof[c]
         \/ flushed[c] = Len(replies[c])
         \/ last[c] = "bad" /\ taken[c] = sent[c]
  PROVE  Inv'
<1>1. /\ flags \in [Conns -> FlagSet]
      /\ fate \in [Conns -> Seq(Fates)]
      /\ taken \in [Conns -> Nat] /\ sent \in [Conns -> Nat]
      /\ \A d \in Conns : taken[d] =< sent[d] /\ Handled(d) =< taken[d] /\ Handled(d) \in Nat
  BY DEF Inv, TypeOK, Fates, Progress, Handled, FlagSet
<1>2. /\ UNCHANGED <<sent, last, eof, taken, replies, flushed, turn>>
      /\ flags' = [flags EXCEPT ![c] = "closed"]
      /\ \A d \in Conns : turn' # d
  BY ConfigurationSound DEF CloseConn, client, Polling
<1>3. \/ UNCHANGED <<fibers, fate>>
      \/ Handled(c) < taken[c] /\ \E o \in Fates : Settles(c, o) /\ Goes(c, o)
  BY DEF CloseConn, Goes, Settles, Fates, resumable
<1>10. UNCHANGED <<fibers, fate>> \/ ~Invalid(c)
  BY DEF CloseConn
<1>4. /\ fiber' \in [Listeners -> {"unbound", "pending", "debug", "error"}]
      /\ held' \in [Listeners -> Requests \cup {None}]
      /\ fate' \in [Conns -> Seq(Fates)]
      /\ RefusedAfterRaise' /\ HeldSeen'
      /\ \A d \in Conns : /\ Handled(d) =< Handled(d)' /\ Handled(d)' \in Nat
                          /\ Handled(d)' =< taken[d]
                          /\ d # c => Handled(d)' = Handled(d)
      /\ \A l \in Listeners, os \in SUBSET Outcomes : Seen(l, os) => Seen(l, os)'
  <2>1. CASE UNCHANGED <<fibers, fate>>
    BY <2>1, <1>1, SeenSame DEF fibers, Inv, TypeOK, Handled, RefusedAfterRaise, HeldSeen, Seen
  <2>2. CASE Handled(c) < taken[c] /\ \E o \in Fates : Settles(c, o) /\ Goes(c, o)
    <3>1. PICK o \in Fates : Settles(c, o) /\ Goes(c, o)
      BY <2>2
    <3>2. /\ fiber' \in [Listeners -> {"unbound", "pending", "debug", "error"}]
          /\ held' \in [Listeners -> Requests \cup {None}]
          /\ fate' \in [Conns -> Seq(Fates)]
          /\ Handled(c)' = Handled(c) + 1
          /\ \A d \in Conns : d # c => Handled(d)' = Handled(d)
      BY <2>2, <3>1, HandlerTypes DEF Inv
    <3>3. RefusedAfterRaise' /\ HeldSeen'
      BY <3>1, HandlerRaises, HandlerHeld
    <3>4. ASSUME NEW l \in Listeners, NEW os \in SUBSET Outcomes, Seen(l, os)
          PROVE  Seen(l, os)'
      BY <3>1, <3>4, SeenAfter DEF Inv
    <3>5. ASSUME NEW d \in Conns
          PROVE  /\ Handled(d) =< Handled(d)' /\ Handled(d)' \in Nat
                 /\ Handled(d)' =< taken[d]
      <4>1. Handled(d) =< taken[d] /\ Handled(d) \in Nat /\ taken[d] \in Nat
        BY <1>1
      <4>2. d = c \/ Handled(d)' = Handled(d)
        BY <3>2
      <4> QED BY <4>1, <4>2, <3>2, <2>2
    <3> QED BY <3>2, <3>3, <3>4, <3>5
  <2> QED BY <1>3, <2>1, <2>2
<1>5. TypeOK'
  BY <1>1, <1>2, <1>4 DEF TypeOK, Inv, Fates, FlagSet
<1>6. Progress'
  BY <1>1, <1>2, <1>4 DEF Progress, Handled
<1>7. AnswersOwnRequest'
  <2>1. SUFFICES ASSUME NEW d \in Conns, ~Seen(Home[d], {"yields", "signals"})'
                 PROVE  /\ \A i \in DOMAIN replies[d] : /\ replies[d][i][1] = d
                                                        /\ replies[d][i][2] =< Handled(d)'
                        /\ \A i, j \in DOMAIN replies[d] :
                             i < j => replies[d][i][2] < replies[d][j][2]
    BY <1>2 DEF AnswersOwnRequest, Seen, Handled
  <2>2. Home[d] \in Listeners /\ {"yields", "signals"} \in SUBSET Outcomes
    BY ConfigurationSound DEF Outcomes
  <2>3. ~Seen(Home[d], {"yields", "signals"})
    BY <2>1, <2>2, <1>4
  <2>4. \A i \in DOMAIN replies[d] : replies[d][i][2] \in Int
    BY RequestIsNumbered DEF Inv, TypeOK
  <2>5. Handled(d) =< Handled(d)' /\ Handled(d)' \in Nat /\ Handled(d) \in Nat
    BY <1>1, <1>4
  <2> QED BY <2>3, <2>4, <2>5 DEF Inv, AnswersOwnRequest
<1>8. DrainedBeforeClose'
  BY <1>1, <1>2 DEF Inv, DrainedBeforeClose
<1>9. CutOffUnanswered'
  <2>1. SUFFICES ASSUME NEW d \in Conns, last[d] # "whole", Handled(d)' = sent[d]
                 PROVE  last[d] = "cut" /\ flags'[d] = "closed"
    BY <1>2 DEF CutOffUnanswered, Handled
  <2>2. CASE d # c
    BY <2>1, <2>2, <1>1, <1>2, <1>4 DEF Inv, CutOffUnanswered
  <2>3. CASE d = c
    <3>1. flags'[d] = "closed"
      BY <2>3, <1>1, <1>2
    <3>2. CASE Handled(c)' = Handled(c)
      BY <3>1, <3>2, <2>1, <2>3 DEF Inv, CutOffUnanswered
    <3>3. CASE Handled(c)' = Handled(c) + 1
      <4>1. ~Invalid(c)
        BY <3>3, <1>1, <1>10 DEF Handled
      <4>2. last[c] \in {"whole", "cut", "bad"}
        BY DEF Inv, TypeOK
      <4> QED BY <3>1, <3>3, <4>1, <4>2, <2>1, <2>3 DEF Invalid
    <3>4. Handled(c)' = Handled(c) \/ Handled(c)' = Handled(c) + 1
      <4>1. CASE UNCHANGED <<fibers, fate>>
        BY <4>1 DEF Handled
      <4>2. CASE Handled(c) < taken[c] /\ \E o \in Fates : Settles(c, o) /\ Goes(c, o)
        BY <4>2, HandlerTypes DEF Inv
      <4> QED BY <1>3, <4>1, <4>2
    <3> QED BY <3>2, <3>3, <3>4
  <2> QED BY <2>2, <2>3
<1>11. Rejected'
  BY <1>1, <1>2 DEF Inv, Rejected
<1> QED BY <1>11, <1>4, <1>5, <1>6, <1>7, <1>8, <1>9 DEF Inv

-----------------------------------------------------------------------------
(* Steps that reach no handler. *)

\* Handlers and their answers as they were, or a fiber fresh from bind.
LEMMA AnswersFrame ==
  ASSUME Inv, UNCHANGED <<fate, replies>>
  PROVE  AnswersOwnRequest' /\ \A d \in Conns : Handled(d)' = Handled(d)
<1>1. \A d \in Conns : Handled(d)' = Handled(d)
  BY DEF Handled
<1>2. \A l \in Listeners, os \in SUBSET Outcomes : Seen(l, os)' <=> Seen(l, os)
  BY SeenSame
<1>3. \A d \in Conns : Home[d] \in Listeners /\ {"yields", "signals"} \in SUBSET Outcomes
  BY ConfigurationSound DEF Outcomes
<1> QED BY <1>1, <1>2, <1>3 DEF Inv, AnswersOwnRequest

LEMMA FibersFrame ==
  ASSUME Inv, fate' = fate, held' = held,
         \A l \in Listeners : fiber'[l] = "error" <=> fiber[l] = "error"
  PROVE  RefusedAfterRaise' /\ HeldSeen'
<1>1. \A l \in Listeners : /\ Seen(l, {"refused"})' <=> Seen(l, {"refused"})
                           /\ Seen(l, {"raises"})' <=> Seen(l, {"raises"})
                           /\ Seen(l, {"yields", "signals"})' <=> Seen(l, {"yields", "signals"})
  BY SeenSame
<1> QED BY <1>1 DEF Inv, RefusedAfterRaise, HeldSeen

LEMMA ListenerKeeps ==
  ASSUME Inv, NEW l \in Listeners, Bind(l) \/ BindTaken(l)
  PROVE  Inv'
<1>1. /\ UNCHANGED <<held, sent, last, eof, flags, taken, fate, replies, flushed>>
      /\ turn' = turn \/ turn' = "crashed"
      /\ fiber' = fiber \/ (fiber[l] = "unbound" /\ fiber' = [fiber EXCEPT ![l] = "pending"])
  BY DEF Bind, BindTaken, client, buffers, fibers
<1>2. \A d \in Conns : turn' = d => turn = d
  BY <1>1, ConfigurationSound
<1>3. fiber \in [Listeners -> {"unbound", "pending", "debug", "error"}]
  BY DEF Inv, TypeOK
<1>4. \A m \in Listeners : fiber'[m] = "error" <=> fiber[m] = "error"
  BY <1>1, <1>3
<1>5. TypeOK'
  BY <1>1, <1>3 DEF Inv, TypeOK
<1>6. RefusedAfterRaise' /\ HeldSeen' /\ AnswersOwnRequest'
      /\ \A d \in Conns : Handled(d)' = Handled(d)
  BY <1>1, <1>4, FibersFrame, AnswersFrame
<1>7. Progress' /\ Rejected' /\ DrainedBeforeClose' /\ CutOffUnanswered'
  BY <1>1, <1>2, <1>6
  DEF Inv, Progress, Rejected, Ready, Alive, Handled, DrainedBeforeClose, CutOffUnanswered
<1> QED BY <1>5, <1>6, <1>7 DEF Inv

LEMMA ClientKeeps ==
  ASSUME Inv, NEW c \in Conns, Send(c) \/ HangUp(c)
  PROVE  Inv'
<1>1. /\ UNCHANGED <<fiber, held, flags, taken, fate, replies, flushed, turn>>
      /\ sent \in [Conns -> Nat] /\ taken \in [Conns -> Nat]
      /\ last \in [Conns -> {"whole", "cut", "bad"}] /\ eof \in [Conns -> BOOLEAN]
  BY DEF Send, HangUp, fibers, buffers, Inv, TypeOK
<1>2. RefusedAfterRaise' /\ HeldSeen' /\ AnswersOwnRequest'
      /\ \A d \in Conns : Handled(d)' = Handled(d)
  BY <1>1, FibersFrame, AnswersFrame
<1>3. \A d \in Conns : Handled(d) \in Nat /\ Handled(d) =< taken[d] /\ taken[d] =< sent[d]
  BY DEF Inv, TypeOK, Handled, Progress
<1>4. CASE Send(c)
  <2>1. /\ sent' = [sent EXCEPT ![c] = @ + 1] /\ sent[c] < MaxRequests[c]
        /\ \/ last' = last
           \/ \E how \in {"cut", "bad"} : last' = [last EXCEPT ![c] = how]
        /\ eof' = eof /\ last[c] = "whole"
    BY <1>4 DEF Send
  <2>2. \A d \in Conns : sent[d] =< sent'[d] /\ sent'[d] \in Nat /\ sent'[d] =< MaxRequests[d]
    <3>1. \A d \in Conns : sent[d] =< MaxRequests[d] /\ MaxRequests[d] \in Nat
      BY ConfigurationSound DEF Inv, TypeOK
    <3>2. \A d \in Conns : sent'[d] = IF d = c THEN sent[d] + 1 ELSE sent[d]
      BY <2>1, <1>1
    <3> QED BY <3>1, <3>2, <2>1, <1>1
  <2>3. TypeOK'
    <3>1. sent' \in [Conns -> Nat] /\ last' \in [Conns -> {"whole", "cut", "bad"}]
      <4>1. sent[c] + 1 \in Nat
        BY <1>1
      <4>2. sent' \in [Conns -> Nat]
        BY <2>1, <4>1, <1>1
      <4>3. last' \in [Conns -> {"whole", "cut", "bad"}]
        BY <2>1, <1>1
      <4> QED BY <4>2, <4>3
    <3>2. \A d \in Conns : taken[d] =< sent'[d]
      BY <2>2, <1>1, <1>3
    <3> QED BY <1>1, <2>1, <2>2, <3>1, <3>2 DEF Inv, TypeOK
  <2>4. Progress'
    BY <1>1, <1>2, <1>3, <2>1, <2>2 DEF Inv, Progress, Ready, Alive, Handled
  <2>5. DrainedBeforeClose' /\ CutOffUnanswered' /\ Rejected'
    <3>1. \A d \in Conns : d # c => last'[d] = last[d] /\ sent'[d] = sent[d]
      BY <1>1, <2>1
    <3>2. sent'[c] = sent[c] + 1
      BY <1>1, <2>1
    <3>3. Handled(c)' # sent'[c]
      BY <3>2, <1>1, <1>2, <1>3
    <3>4. DrainedBeforeClose'
      BY <3>1, <1>1, <2>1 DEF Inv, DrainedBeforeClose
    <3>5. CutOffUnanswered'
      BY <3>1, <3>3, <1>1, <1>2 DEF Inv, CutOffUnanswered, Handled
    <3>6. Rejected'
      BY <3>1, <1>1, <2>1 DEF Inv, Rejected
    <3> QED BY <3>4, <3>5, <3>6
  <2> QED BY <1>2, <2>3, <2>4, <2>5 DEF Inv
<1>5. CASE HangUp(c)
  <2>1. eof' = [eof EXCEPT ![c] = TRUE] /\ UNCHANGED <<sent, last>>
    BY <1>5 DEF HangUp
  <2>2. TypeOK'
    BY <1>1, <2>1 DEF Inv, TypeOK
  <2>3. Progress' /\ Rejected' /\ DrainedBeforeClose' /\ CutOffUnanswered'
    BY <1>1, <1>2, <2>1
    DEF Inv, Progress, Rejected, Ready, Alive, Handled, DrainedBeforeClose, CutOffUnanswered
  <2> QED BY <1>2, <2>2, <2>3 DEF Inv
<1> QED BY <1>4, <1>5

LEMMA TransportKeeps ==
  ASSUME Inv, NEW c \in Conns, Accept(c) \/ Recv(c) \/ RecvEof(c) \/ Flush(c)
  PROVE  Inv'
<1>1. /\ UNCHANGED <<fiber, held, sent, last, eof, fate, replies>>
      /\ flags \in [Conns -> FlagSet]
      /\ sent \in [Conns -> Nat] /\ taken \in [Conns -> Nat] /\ flushed \in [Conns -> Nat]
      /\ \A d \in Conns : turn # d
  BY ConfigurationSound
  DEF Accept, Recv, RecvEof, Flush, fibers, client, Inv, TypeOK, Polling, FlagSet
<1>2. RefusedAfterRaise' /\ HeldSeen' /\ AnswersOwnRequest'
      /\ \A d \in Conns : Handled(d)' = Handled(d)
  BY <1>1, FibersFrame, AnswersFrame
<1>3. \A d \in Conns : Handled(d) \in Nat /\ Handled(d) =< taken[d] /\ taken[d] =< sent[d]
  BY DEF Inv, TypeOK, Handled, Progress
<1>4. CASE Accept(c) \/ RecvEof(c)
  <2>1. /\ flags' \in [Conns -> FlagSet]
        /\ \A d \in Conns : /\ flags[d] = "closed" <=> flags'[d] = "closed"
                            /\ flags'[d] = "close_immediately" => flags[d] = flags'[d]
        /\ UNCHANGED <<taken, flushed, turn>>
    BY <1>4, <1>1 DEF Accept, RecvEof, FlagSet
  <2>2. TypeOK'
    BY <1>1, <2>1 DEF Inv, TypeOK, FlagSet
  <2> QED BY <1>1, <1>2, <1>3, <2>1, <2>2
          DEF Inv, Progress, Rejected, Handled, DrainedBeforeClose, CutOffUnanswered
<1>5. CASE Recv(c)
  <2>1. PICK n \in (taken[c] + 1)..sent[c] :
               /\ taken' = [taken EXCEPT ![c] = n]
               /\ turn' = IF Ready(c, n, Handled(c)) THEN c ELSE None
    BY <1>5 DEF Recv
  <2>2. n \in Nat /\ taken[c] < n /\ n =< sent[c]
    BY <2>1, <1>1
  <2>3. UNCHANGED <<flags, flushed>> /\ Alive(c)
    BY <1>5 DEF Recv
  <2>4. TypeOK'
    BY <1>1, <2>1, <2>2, <2>3 DEF Inv, TypeOK
  <2>5. Progress'
    BY <1>1, <1>2, <1>3, <2>1, <2>2, <2>3, ConfigurationSound DEF Progress, Ready, Alive, Handled
  <2>6. Rejected' /\ DrainedBeforeClose'
    <3>1. \A d \in Conns : d # c => taken'[d] = taken[d]
      BY <2>1, <1>1
    <3>2. flags[c] # "close_immediately" /\ flags[c] # "closed"
      BY <2>3 DEF Alive
    <3> QED BY <3>1, <3>2, <1>1, <2>3 DEF Inv, Rejected, DrainedBeforeClose
  <2> QED BY <1>1, <1>2, <2>3, <2>4, <2>5, <2>6 DEF Inv, CutOffUnanswered, Handled
<1>6. CASE Flush(c)
  <2>1. /\ flushed' = [flushed EXCEPT ![c] = @ + 1]
        /\ UNCHANGED <<flags, taken, turn>> /\ flags[c] # "closed"
    BY <1>6 DEF Flush, Alive
  <2>2. TypeOK'
    BY <1>1, <2>1 DEF Inv, TypeOK
  <2> QED BY <1>1, <1>2, <1>3, <2>1, <2>2
          DEF Inv, Progress, Rejected, Handled, DrainedBeforeClose, CutOffUnanswered
<1> QED BY <1>4, <1>5, <1>6

\* An invalid request ends the work on what was read.
LEMMA RejectKeeps ==
  ASSUME Inv, NEW c \in Conns, Reject(c)
  PROVE  Inv'
<1>1. /\ UNCHANGED <<fiber, held, sent, last, eof, taken, fate, replies, flushed>>
      /\ flags \in [Conns -> FlagSet]
      /\ flags' = [flags EXCEPT ![c] = "close_immediately"]
      /\ turn = c /\ turn' = None /\ \A d \in Conns : turn' # d
  BY ConfigurationSound DEF Reject, fibers, client, Inv, TypeOK, FlagSet
<1>2. RefusedAfterRaise' /\ HeldSeen' /\ AnswersOwnRequest'
      /\ \A d \in Conns : Handled(d)' = Handled(d)
  BY <1>1, FibersFrame, AnswersFrame
<1>3. /\ Handled(c) \in Nat /\ Handled(c) < taken[c] /\ taken[c] =< sent[c]
      /\ taken[c] \in Nat /\ sent[c] \in Nat /\ Alive(c)
      /\ Handled(c) + 1 = sent[c] /\ last[c] = "bad"
  BY <1>1 DEF Reject, Invalid, Inv, TypeOK, Handled, Progress, Ready
<1>4. TypeOK'
  BY <1>1 DEF Inv, TypeOK, FlagSet
<1>5. Progress'
  BY <1>1, <1>2 DEF Inv, Progress, Handled
<1>6. Rejected'
  <2>1. taken[c] = sent[c]
    BY <1>3
  <2> QED BY <2>1, <1>1, <1>3 DEF Inv, Rejected
<1>7. DrainedBeforeClose'
  BY <1>1 DEF Inv, DrainedBeforeClose
<1>8. CutOffUnanswered'
  <2>1. SUFFICES ASSUME NEW d \in Conns, last[d] # "whole", Handled(d) = sent[d]
                 PROVE  last[d] = "cut" /\ flags'[d] = "closed"
    BY <1>1, <1>2 DEF CutOffUnanswered, Handled
  <2>2. d # c
    BY <2>1, <1>3
  <2> QED BY <2>1, <2>2, <1>1 DEF Inv, CutOffUnanswered
<1> QED BY <1>2, <1>4, <1>5, <1>6, <1>7, <1>8 DEF Inv

-----------------------------------------------------------------------------
(* The invariant, and what follows from it. *)

LEMMA InitInv == Init => Inv
<1> SUFFICES ASSUME Init PROVE Inv
  OBVIOUS
<1>1. TypeOK
  BY ConfigurationSound DEF Init, TypeOK
<1>2. \A c \in Conns : Handled(c) = 0 /\ turn # c
  BY ConfigurationSound DEF Init, Handled
<1>3. \A l \in Listeners : \A os : ~Seen(l, os)
  BY DEF Init, Seen
<1>4. Progress /\ Rejected /\ DrainedBeforeClose /\ CutOffUnanswered /\ HeldSeen
  BY <1>2 DEF Init, Progress, Rejected, DrainedBeforeClose, CutOffUnanswered, HeldSeen
<1>5. AnswersOwnRequest /\ RefusedAfterRaise
  BY <1>3 DEF Init, AnswersOwnRequest, RefusedAfterRaise
<1> QED BY <1>1, <1>4, <1>5 DEF Inv

LEMMA NextInv == Inv /\ [Next]_vars => Inv'
<1> SUFFICES ASSUME Inv, [Next]_vars PROVE Inv'
  OBVIOUS
<1>1. CASE UNCHANGED vars
  <2>1. /\ UNCHANGED <<fiber, held, flags, sent, last, eof, taken, fate, replies, flushed, turn>>
    BY <1>1 DEF vars, fibers, client, buffers
  <2>2. RefusedAfterRaise' /\ HeldSeen' /\ AnswersOwnRequest'
    BY <2>1, FibersFrame, AnswersFrame
  <2> QED BY <2>1, <2>2 DEF Inv, TypeOK, Progress, Rejected, Ready, Alive, Handled,
                            DrainedBeforeClose, CutOffUnanswered
<1>2. ASSUME NEW l \in Listeners, Bind(l) \/ BindTaken(l) PROVE Inv'
  BY <1>2, ListenerKeeps
<1>3. ASSUME NEW c \in Conns, Poll(c) PROVE Inv'
  <2>1. CASE Work(c)
    BY <2>1, WorkKeeps
  <2>2. CASE Close(c)
    <3>1. flags[c] = "close_immediately" => last[c] = "bad" /\ taken[c] = sent[c]
      BY DEF Inv, Rejected
    <3> QED BY <2>2, <3>1, CloseKeeps DEF Close
  <2>3. CASE Reject(c)
    BY <2>3, RejectKeeps
  <2> QED BY <1>3, <2>1, <2>2, <2>3, TransportKeeps DEF Poll
<1>4. ASSUME NEW c \in Conns, Reset(c) PROVE Inv'
  BY <1>4, CloseKeeps DEF Reset
<1>5. ASSUME NEW c \in Conns, Send(c) \/ HangUp(c) PROVE Inv'
  BY <1>5, ClientKeeps
<1> QED BY <1>1, <1>2, <1>3, <1>4, <1>5 DEF Next

\* The state has the types that the comments of the variables give.
THEOREM TypeCorrect == Spec => []TypeOK
BY InitInv, NextInv, PTL DEF Spec, Inv

\* However many clients share a listener, each gets the answers to its own
\* requests, in order and once, as long as no handler suspends.
THEOREM AnswersCorrect == Spec => []AnswersOwnRequest
BY InitInv, NextInv, PTL DEF Spec, Inv

\* A listener refuses requests exactly from the first handler that raised.
THEOREM RefusalCorrect == Spec => []RefusedAfterRaise
BY InitInv, NextInv, PTL DEF Spec, Inv

\* The server closes no connection with an answer still in its buffer, unless
\* the client has given it up or has sent something that does not parse.
THEOREM DrainCorrect == Spec => []DrainedBeforeClose
BY InitInv, NextInv, PTL DEF Spec, Inv

\* A request that was cut off is handled only at the close of its connection,
\* and one that does not parse never.
THEOREM CutOffCorrect == Spec => []CutOffUnanswered
BY InitInv, NextInv, PTL DEF Spec, Inv
=============================================================================
