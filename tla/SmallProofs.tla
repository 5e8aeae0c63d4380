---------------------------- MODULE SmallProofs ----------------------------
(***************************************************************************)
(* The small modules: udp/listen, the callbacks of iup, read-sock of the   *)
(* tcp client, the sums of mymod, and the strings of json, each for any    *)
(* values of its constants.                                                *)
(***************************************************************************)
EXTENDS MySum, TcpRead, Udp, IupCallbacks, JsonStrings, Recursion

-----------------------------------------------------------------------------
(* Udp. *)

UdpSpec == UdpInit /\ [][UdpNext]_udpvars

Got == [datagram : Nat, since : Nat, failed : BOOLEAN]

\* A socket that is bound holds what has come since, in the order of arrival;
\* world is the last answer.
UdpInv ==
  /\ ld \in {"closed", "bound"} /\ came \in Nat /\ opened \in Nat /\ got \in Seq(Got)
  /\ world = IF got = <<>> THEN 0 ELSE got[Len(got)].datagram
  /\ world \in Nat
  /\ ld = "bound" => opened =< came /\ queue = [i \in 1..(came - opened) |-> opened + i]

LEMMA UdpInvInit == UdpInit => UdpInv /\ FreshOrRepeated
BY DEF UdpInit, UdpInv, FreshOrRepeated

\* An answer is added that is what the property asks for.
LEMMA UdpAnswered ==
  ASSUME UdpInv, FreshOrRepeated, NEW d \in Nat, NEW failed \in BOOLEAN,
         got' = Append(got, Answer(d, failed)), world' = d,
         d = IF ~failed THEN opened + 1 ELSE world
  PROVE  /\ got' \in Seq(Got) /\ FreshOrRepeated'
         /\ world' = got'[Len(got')].datagram /\ got' # <<>>
<1> DEFINE e == Answer(d, failed)
           n == Len(got)
<1>1. e \in Got /\ e.datagram = d /\ e.since = opened /\ e.failed = failed
  BY DEF Answer, UdpInv, Got
<1>2. got \in Seq(Got) /\ n \in Nat
  BY DEF UdpInv
<1>3. /\ got' \in Seq(Got) /\ got' # <<>> /\ Len(got') = n + 1
      /\ DOMAIN got = 1..n /\ DOMAIN got' = 1..(n + 1)
      /\ got'[n + 1] = e
      /\ \A i \in 1..n : got'[i] = got[i]
  BY <1>1, <1>2
<1>4. ASSUME NEW i \in DOMAIN got'
      PROVE  got'[i].datagram = IF ~got'[i].failed THEN got'[i].since + 1
                                ELSE IF i = 1 THEN 0 ELSE got'[i - 1].datagram
  <2>1. CASE i = n + 1
    <3>1. CASE n = 0
      BY <3>1, <2>1, <1>1, <1>2, <1>3 DEF UdpInv
    <3>2. CASE n # 0
      <4>1. got # <<>> /\ n \in 1..n /\ i - 1 = n /\ i # 1
        BY <3>2, <2>1, <1>2
      <4>2. world = got'[i - 1].datagram
        BY <4>1, <1>3 DEF UdpInv
      <4>. QED
        BY <4>1, <4>2, <2>1, <1>1, <1>3
    <3>. QED
      BY <3>1, <3>2
  <2>2. CASE i # n + 1
    <3>1. i \in 1..n /\ (i # 1 => i - 1 \in 1..n)
      BY <2>2, <1>2, <1>3
    <3>. QED
      BY <3>1, <1>3 DEF FreshOrRepeated
  <2>. QED
    BY <2>1, <2>2
<1>5. FreshOrRepeated'
  BY <1>4 DEF FreshOrRepeated
<1>. QED
  BY <1>1, <1>3, <1>5

LEMMA UdpInvStep ==
  UdpInv /\ FreshOrRepeated /\ [UdpNext]_udpvars => UdpInv' /\ FreshOrRepeated'
<1>. SUFFICES ASSUME UdpInv, FreshOrRepeated, [UdpNext]_udpvars
              PROVE  UdpInv' /\ FreshOrRepeated'
  OBVIOUS
<1>1. CASE udp_listen
  BY <1>1 DEF udp_listen, UdpInv, FreshOrRepeated
<1>2. CASE Arrives
  <2>1. came' = came + 1 /\ UNCHANGED <<ld, world, opened, got>>
    BY <1>2 DEF Arrives
  <2>2. ASSUME ld = "bound"
        PROVE  opened =< came' /\ queue' = [i \in 1..(came' - opened) |-> opened + i]
    <3>1. /\ came \in Nat /\ opened \in Nat /\ opened =< came
          /\ queue = [i \in 1..(came - opened) |-> opened + i]
          /\ queue' = Append(queue, came + 1)
      BY <1>2, <2>2 DEF Arrives, UdpInv
    <3>. QED
      BY <2>1, <3>1
  <2>. QED
    BY <2>1, <2>2 DEF UdpInv, FreshOrRepeated
<1>3. CASE receive_udp
  <2>1. /\ ld = "bound" /\ queue # <<>> /\ world' = Head(queue) /\ ld' = "closed"
        /\ got' = Append(got, Answer(world', FALSE)) /\ UNCHANGED <<came, opened>>
    BY <1>3 DEF receive_udp
  <2>2. /\ came \in Nat /\ opened \in Nat /\ opened =< came
        /\ queue = [i \in 1..(came - opened) |-> opened + i]
    BY <2>1 DEF UdpInv
  <2>3. came - opened # 0
    BY <2>1, <2>2
  <2>4. Head(queue) = opened + 1
    BY <2>2, <2>3
  <2>5. world' \in Nat
    BY <2>1, <2>2, <2>4
  <2>6. /\ got' \in Seq(Got) /\ FreshOrRepeated'
        /\ world' = got'[Len(got')].datagram /\ got' # <<>>
    BY <2>1, <2>4, <2>5, UdpAnswered
  <2>. QED
    BY <2>1, <2>2, <2>5, <2>6 DEF UdpInv
<1>4. CASE ReceiveFails
  <2>1. /\ ld' = "closed" /\ got' = Append(got, Answer(world, TRUE))
        /\ UNCHANGED <<came, opened, world>>
    BY <1>4 DEF ReceiveFails
  <2>2. /\ got' \in Seq(Got) /\ FreshOrRepeated'
        /\ world' = got'[Len(got')].datagram /\ got' # <<>>
    BY <2>1, UdpAnswered DEF UdpInv
  <2>. QED
    BY <2>1, <2>2 DEF UdpInv
<1>5. CASE UNCHANGED udpvars
  BY <1>5 DEF udpvars, UdpInv, FreshOrRepeated
<1>. QED
  BY <1>1, <1>2, <1>3, <1>4, <1>5 DEF UdpNext

\* Whatever comes, and whichever calls fail, a call of udp/listen answers with the
\* first datagram since it was made, or repeats the answer before when the system
\* reports an error.
THEOREM DatagramsFresh == UdpSpec => []FreshOrRepeated
<1>. QED
  BY UdpInvInit, UdpInvStep, PTL DEF UdpSpec

-----------------------------------------------------------------------------
(* IupCallbacks. *)

IupSpec == IupInit /\ [][IupNext]_iupvars

\* No other event of the widget has a callback.
Alone(p) == \A q \in Pairs \ {p} : q[1] = p[1] => wanted[q] = NoFunction

IupInv ==
  /\ entry \in [Widgets -> Functions \cup {NoFunction}]
  /\ wanted \in [Pairs -> Functions \cup {NoFunction}]
  /\ calls \in [Pairs -> Functions \cup {NoFunction}]
  /\ hooked \subseteq Pairs
  /\ \A p \in Pairs : Alone(p) => entry[p[1]] = wanted[p] /\ calls[p] \in {NoFunction, wanted[p]}

LEMMA IupInvInit == IupInit => IupInv
<1>. SUFFICES ASSUME IupInit PROVE IupInv
  OBVIOUS
<1>1. \A p \in Pairs : p[1] \in Widgets
  BY DEF Pairs
<1>. QED
  BY <1>1 DEF IupInit, IupInv

LEMMA IupInvStep == IupInv /\ [IupNext]_iupvars => IupInv'
<1>. SUFFICES ASSUME IupInv, [IupNext]_iupvars PROVE IupInv'
  OBVIOUS
<1>1. ASSUME NEW w \in Widgets, NEW e \in Events, NEW f \in Functions, SetThunkCallback(w, e, f)
      PROVE  IupInv'
  <2> DEFINE s == <<w, e>>
  <2>1. /\ s \in Pairs /\ s[1] = w /\ f # NoFunction
        /\ entry' = [entry EXCEPT ![w] = f]
        /\ wanted' = [wanted EXCEPT ![s] = f]
        /\ calls' = [calls EXCEPT ![s] = NoFunction]
        /\ hooked' = hooked \cup {s}
    BY <1>1, NoFunctionIsNone DEF SetThunkCallback, Pairs
  <2>2. /\ entry' \in [Widgets -> Functions \cup {NoFunction}]
        /\ wanted' \in [Pairs -> Functions \cup {NoFunction}]
        /\ calls' \in [Pairs -> Functions \cup {NoFunction}]
        /\ hooked' \subseteq Pairs
    BY <2>1 DEF IupInv
  <2>3. ASSUME NEW p \in Pairs, Alone(p)'
        PROVE  entry'[p[1]] = wanted'[p] /\ calls'[p] \in {NoFunction, wanted'[p]}
    <3>0. p[1] \in Widgets
      BY DEF Pairs
    <3>1. CASE p = s
      BY <3>1, <2>1 DEF IupInv
    <3>2. CASE p # s /\ p[1] = w
      <4>1. wanted'[s] = NoFunction
        BY <2>1, <2>3, <3>2 DEF Alone
      <4>. QED
        BY <4>1, <2>1 DEF IupInv
    <3>3. CASE p # s /\ p[1] # w
      <4>1. \A q \in Pairs : q[1] = p[1] => wanted'[q] = wanted[q]
        BY <2>1, <3>3 DEF IupInv
      <4>2. Alone(p)
        BY <4>1, <2>3 DEF Alone
      <4>. QED
        BY <4>2, <2>1, <3>0, <3>3 DEF IupInv
    <3>. QED
      BY <3>1, <3>2, <3>3
  <2>. QED
    BY <2>2, <2>3 DEF IupInv
<1>2. ASSUME NEW w \in Widgets, NEW e \in Events, UniversalCb(w, e)
      PROVE  IupInv'
  <2> DEFINE s == <<w, e>>
  <2>1. /\ s \in Pairs /\ s[1] = w
        /\ \/ calls' = calls
           \/ calls' = [calls EXCEPT ![s] = entry[w]]
        /\ UNCHANGED <<entry, hooked, wanted>>
    BY <1>2 DEF UniversalCb, Pairs
  <2>2. calls' \in [Pairs -> Functions \cup {NoFunction}]
    BY <2>1 DEF IupInv
  <2>3. ASSUME NEW p \in Pairs, Alone(p)'
        PROVE  entry'[p[1]] = wanted'[p] /\ calls'[p] \in {NoFunction, wanted'[p]}
    <3>1. Alone(p)
      BY <2>1, <2>3 DEF Alone
    <3>. QED
      BY <3>1, <2>1 DEF IupInv
  <2>. QED
    BY <2>1, <2>2, <2>3 DEF IupInv
<1>3. CASE Collect
  BY <1>3 DEF Collect, IupInv, Alone
<1>4. CASE UNCHANGED iupvars
  BY <1>4 DEF iupvars, IupInv, Alone
<1>. QED
  BY <1>1, <1>2, <1>3, <1>4 DEF IupNext

\* A widget that has a callback for one event only gets the function the program
\* asked for, for any widgets, events and functions, changed in any order.
THEOREM CallbackWanted == IupSpec => []OneEventEach
<1>1. IupInv => OneEventEach
  BY DEF IupInv, OneEventEach, Alone
<1>. QED
  BY <1>1, IupInvInit, IupInvStep, PTL DEF IupSpec

-----------------------------------------------------------------------------
(* TcpRead. *)

TcpSpec == TcpInit /\ [][TcpNext]_tcpvars

ByteTexts == Seq(Int)

\* The fold joins one text after the other.
LEMMA JoinedWalk ==
  ASSUME NEW a \in Seq(ByteTexts), NEW n, n = Len(a)
  PROVE  \E g \in [0..n -> ByteTexts] :
           /\ g[0] = <<>> /\ \A k \in 1..n : g[k] = g[k - 1] \o a[k]
           /\ Joined(a) = g[n]
<1> DEFINE F == [k \in 1..n |-> [s \in ByteTexts |-> s \o a[k]]]
           Fits(h) == h = [s \in SUBSET (1..n) |->
                             IF s = {} THEN <<>> ELSE h[s \ {Max(s)}] \o a[Max(s)]]
           h == CHOOSE h : Fits(h)
           empty == <<>>
<1>1. n \in Nat
  OBVIOUS
<1>2. DOMAIN a = 1..n /\ \A k \in 1..n : a[k] \in ByteTexts
  OBVIOUS
<1>3. F \in Steps(ByteTexts, n)
  <2>1. \A s, t \in ByteTexts : s \o t \in ByteTexts
    BY DEF ByteTexts
  <2>. QED
    BY <1>2, <2>1 DEF Steps
<1>4. \A s \in ByteTexts, k \in 1..n : F[k][s] = s \o a[k]
  OBVIOUS
<1>5. Joined(a) = h[1..n]
  BY <1>2 DEF Joined, FoldLeft, MapThenFoldSet
<1>6. empty \in ByteTexts
  BY DEF ByteTexts
<1>. HIDE DEF F, empty
<1>7. Fits(h)
  <2>0. PICK t : FoldValues(t, ByteTexts, empty, n, F)
    BY <1>1, <1>3, <1>6, FoldTable
  <2>1. /\ t \in [SUBSET (1..n) -> ByteTexts]
        /\ \A s \in SUBSET (1..n) :
             t[s] = IF s = {} THEN empty ELSE F[Max(s)][t[s \ {Max(s)}]]
    BY <2>0 DEF FoldValues
  <2>2. ASSUME NEW s \in SUBSET (1..n)
        PROVE  t[s] = IF s = {} THEN empty ELSE t[s \ {Max(s)}] \o a[Max(s)]
    <3>1. CASE s = {}
      BY <2>1, <3>1
    <3>2. CASE s # {}
      <4>1. Max(s) \in 1..n
        BY <1>1, <3>2, MaxIsGreatest
      <4>2. s \ {Max(s)} \in SUBSET (1..n)
        OBVIOUS
      <4>3. t[s \ {Max(s)}] \in ByteTexts
        BY <2>1, <4>2
      <4>4. F[Max(s)][t[s \ {Max(s)}]] = t[s \ {Max(s)}] \o a[Max(s)]
        BY <4>1, <4>3, <1>4
      <4>. QED
        BY <2>1, <3>2, <4>4
    <3>. QED
      BY <3>1, <3>2
  <2>3. Fits(t)
    BY <2>1, <2>2 DEF empty
  <2>. HIDE DEF Fits
  <2>. QED
    BY <2>3
<1>8. PICK g \in [0..n -> ByteTexts] : /\ g[0] = empty
                                   /\ \A k \in 1..n : g[k] = F[k][g[k - 1]]
  <2>1. PICK g : Walk(g, ByteTexts, empty, n, F)
    BY <1>1, <1>3, <1>6, RecursionTable
  <2>. QED
    BY <2>1 DEF Walk
<1>9. ASSUME NEW k \in 1..n PROVE g[k] = g[k - 1] \o a[k]
  <2>1. g[k - 1] \in ByteTexts
    BY <1>1, <1>8
  <2>. QED
    BY <1>4, <1>8, <2>1
<1>10. ASSUME NEW s \in SUBSET (1..n)
       PROVE  h[s] = IF s = {} THEN empty ELSE h[s \ {Max(s)}] \o a[Max(s)]
  <2>. HIDE DEF h
  <2>. QED
    BY <1>7 DEF empty
<1>. HIDE DEF h, Fits
<1>11. h[1..n] = g[n]
  <2> DEFINE S == {k \in 0..n : h[1..k] = g[k]}
  <2>2. 0 \in S
    <3>1. 0 \in 0..n /\ 1..0 = {}
      BY <1>1
    <3>2. h[1..0] = empty
      BY <1>10, <3>1
    <3>. QED
      BY <1>8, <3>1, <3>2
  <2>3. ASSUME NEW k \in 0..(n - 1), k \in S PROVE k + 1 \in S
    <3>1. Max(1..(k + 1)) = k + 1
      BY MaxOfRange
    <3>2. /\ (1..(k + 1)) \ {k + 1} = 1..k /\ 1..(k + 1) # {}
          /\ k + 1 \in 1..n /\ k + 1 \in 0..n /\ (k + 1) - 1 = k
          /\ 1..(k + 1) \in SUBSET (1..n)
      BY <1>1
    <3>3. h[1..(k + 1)] = h[1..k] \o a[k + 1]
      BY <1>10, <3>1, <3>2
    <3>4. g[k + 1] = g[k] \o a[k + 1]
      BY <1>9, <3>2
    <3>. QED
      BY <2>3, <3>2, <3>3, <3>4
  <2>4. n \in S
    <3>1. n \in Nat /\ n \in 0..n
      BY <1>1
    <3>. HIDE DEF S
    <3>. QED
      BY <3>1, <2>2, <2>3, Induction
  <2>. QED
    BY <2>4
<1>. QED
  BY <1>5, <1>8, <1>9, <1>11 DEF empty

LEMMA JoinedEmpty == Joined(<<>>) = <<>>
<1>1. <<>> \in Seq(ByteTexts) /\ 0 = Len(<<>>)
  OBVIOUS
<1>. QED
  BY <1>1, JoinedWalk

LEMMA JoinedAppend ==
  ASSUME NEW a \in Seq(ByteTexts), NEW t \in ByteTexts
  PROVE  Joined(a) \in ByteTexts /\ Joined(Append(a, t)) = Joined(a) \o t
<1> DEFINE b == Append(a, t)
           n == Len(a)
<1>1. n \in Nat /\ b \in Seq(ByteTexts) /\ Len(b) = n + 1 /\ b[n + 1] = t
      /\ \A k \in 1..n : b[k] = a[k]
  OBVIOUS
<1>2. PICK f \in [0..n -> ByteTexts] : /\ f[0] = <<>> /\ \A k \in 1..n : f[k] = f[k - 1] \o a[k]
                                   /\ Joined(a) = f[n]
  <2>. HIDE DEF b
  <2>. QED
    BY JoinedWalk
<1>3. PICK g \in [0..(n + 1) -> ByteTexts] :
        /\ g[0] = <<>> /\ \A k \in 1..(n + 1) : g[k] = g[k - 1] \o b[k]
        /\ Joined(b) = g[n + 1]
  <2>. HIDE DEF b
  <2>. QED
    BY <1>1, JoinedWalk
<1>. HIDE DEF n, b
<1>4. f[n] = g[n]
  <2> DEFINE S == {k \in 0..n : f[k] = g[k]}
  <2>1. 0 \in S
    BY <1>1, <1>2, <1>3
  <2>2. ASSUME NEW k \in 0..(n - 1), k \in S PROVE k + 1 \in S
    <3>1. k + 1 \in 1..n /\ k + 1 \in 1..(n + 1) /\ (k + 1) - 1 = k
      BY <1>1
    <3>2. f[k + 1] = f[k] \o a[k + 1] /\ g[k + 1] = g[k] \o b[k + 1]
      BY <1>2, <1>3, <3>1
    <3>3. f[k] = g[k]
      BY <2>2
    <3>4. b[k + 1] = a[k + 1]
      BY <1>1, <3>1
    <3>5. f[k + 1] = g[k + 1] /\ k + 1 \in 0..n
      BY <1>1, <3>1, <3>2, <3>3, <3>4
    <3>. QED
      BY <3>5
  <2>3. n \in S
    <3>1. n \in Nat /\ n \in 0..n
      BY <1>1
    <3>. HIDE DEF S
    <3>. QED
      BY <3>1, <2>1, <2>2, Induction
  <2>. QED
    BY <2>3
<1>5. n + 1 \in 1..(n + 1) /\ (n + 1) - 1 = n /\ n \in 0..n
  BY <1>1
<1>6. g[n + 1] = g[n] \o t
  BY <1>1, <1>3, <1>5
<1>7. f[n] \in ByteTexts
  BY <1>2, <1>5
<1>. QED
  BY <1>2, <1>3, <1>4, <1>6, <1>7 DEF b

\* The answers and what is being read are what has been taken, as long as no 0 was
\* in it; overrun is the end.
Clean == nuls \cap (1..taken) = {}
TcpInv ==
  /\ taken \in Nat /\ arrived \in Nat
  /\ Clean =>
       /\ answers \in Seq(ByteTexts) /\ buf \in ByteTexts
       /\ \A k \in DOMAIN buf : buf[k] # Hole
       /\ overrun => taken - Len(Joined(answers)) >= BufSize
       /\ ~overrun => Joined(answers) \o (IF reading THEN buf ELSE <<>>) = [k \in 1..taken |-> k]

LEMMA TcpInvInit == TcpInit => TcpInv
<1>1. [k \in 1..0 |-> k] = <<>>
  OBVIOUS
<1>. QED
  BY <1>1, JoinedEmpty DEF TcpInit, TcpInv, ByteTexts

LEMMA ReadStep == ASSUME TcpInv, Read PROVE TcpInv'
<1>1. PICK n \in Nat \ {0} :
        /\ buf' = buf \o Copied(n) /\ taken' = taken + n
        /\ overrun' = (\E k \in DOMAIN buf' : k > BufSize /\ buf'[k] # Hole)
        /\ reading /\ ~overrun /\ UNCHANGED <<nuls, arrived, reading, answers>>
  <2> DEFINE n == IF There < ReadBytes THEN There ELSE ReadBytes
  <2>1. There \in Int /\ There > 0
    BY DEF Read, There, TcpInv
  <2>2. n \in Nat \ {0}
    BY <2>1, TcpNumbers
  <2>3. Take(n) /\ reading /\ ~overrun /\ UNCHANGED <<nuls, arrived, reading, answers>>
    BY DEF Read
  <2>. HIDE DEF n
  <2>. QED
    BY <2>2, <2>3 DEF Take
<1>2. taken \in Nat /\ taken' \in Nat /\ arrived' \in Nat
  BY <1>1 DEF TcpInv
<1>3. ASSUME Clean'
      PROVE  /\ answers' \in Seq(ByteTexts) /\ buf' \in ByteTexts
             /\ \A k \in DOMAIN buf' : buf'[k] # Hole
             /\ Joined(answers') \o buf' = [k \in 1..taken' |-> k]
             /\ Len(Joined(answers')) + Len(buf') = taken'
  <2>1. Clean /\ \A k \in 1..n : taken + k \notin nuls
    BY <1>1, <1>2, <1>3 DEF Clean
  <2>2. Copied(n) = [k \in 1..n |-> taken + k]
    <3>1. \A k \in 1..n : ~\E j \in 1..k : taken + j \in nuls
      BY <2>1
    <3>. QED
      BY <3>1 DEF Copied
  <2>3. /\ answers \in Seq(ByteTexts) /\ buf \in ByteTexts
        /\ \A k \in DOMAIN buf : buf[k] # Hole
        /\ Joined(answers) \o buf = [k \in 1..taken |-> k]
    BY <1>1, <2>1 DEF TcpInv
  <2>4. Joined(answers) \in ByteTexts /\ Copied(n) \in ByteTexts /\ Len(Copied(n)) = n
    BY <1>2, <2>2, <2>3, JoinedAppend DEF ByteTexts
  <2>5. buf' \in ByteTexts /\ \A k \in DOMAIN buf' : buf'[k] # Hole
    <3> DEFINE m == Len(buf)
               cs == Copied(n)
    <3>1. m \in Nat /\ buf \in Seq(Int) /\ cs \in Seq(Int) /\ Len(cs) = n
      BY <2>3, <2>4 DEF ByteTexts
    <3>2. \A k \in 1..n : cs[k] = taken + k /\ cs[k] # Hole
      BY <1>2, <2>2 DEF Hole
    <3>3. \A k \in 1..m : buf[k] # Hole
      BY <2>3, <3>1
    <3>. HIDE DEF cs
    <3>4. /\ buf \o cs \in Seq(Int) /\ DOMAIN (buf \o cs) = 1..(m + n)
          /\ \A k \in 1..(m + n) : (buf \o cs)[k] = IF k =< m THEN buf[k] ELSE cs[k - m]
      BY <3>1
    <3>5. ASSUME NEW k \in 1..(m + n) PROVE (buf \o cs)[k] # Hole
      <4>. HIDE DEF m
      <4>1. CASE k =< m
        BY <4>1, <3>1, <3>3, <3>4
      <4>2. CASE ~(k =< m)
        <5>1. k - m \in 1..n
          BY <4>2, <3>1
        <5>. QED
          BY <4>2, <5>1, <3>2, <3>4
      <4>. QED
        BY <4>1, <4>2
    <3>. QED
      BY <1>1, <3>4, <3>5 DEF cs, ByteTexts
  <2>6. Joined(answers) \o buf' = (Joined(answers) \o buf) \o Copied(n)
    <3> DEFINE j == Joined(answers)
               cs == Copied(n)
    <3>1. j \in Seq(Int) /\ buf \in Seq(Int) /\ cs \in Seq(Int)
      BY <2>3, <2>4 DEF ByteTexts
    <3>. HIDE DEF j, cs
    <3>2. j \o (buf \o cs) = (j \o buf) \o cs
      BY <3>1
    <3>. QED
      BY <1>1, <3>2 DEF j, cs
  <2>7. [k \in 1..taken |-> k] \o [k \in 1..n |-> taken + k] = [k \in 1..(taken + n) |-> k]
    BY <1>2
  <2>8. Joined(answers') \o buf' = [k \in 1..taken' |-> k]
    BY <1>1, <2>2, <2>3, <2>6, <2>7
  <2>9. Len(Joined(answers')) + Len(buf') = taken'
    <3>1. Len([k \in 1..taken' |-> k]) = taken'
      BY <1>2
    <3>2. Len(Joined(answers') \o buf') = Len(Joined(answers')) + Len(buf')
      <4> DEFINE j == Joined(answers)
      <4>1. j \in Seq(Int) /\ buf' \in Seq(Int) /\ Joined(answers') = j
        BY <1>1, <2>4, <2>5 DEF ByteTexts
      <4>. HIDE DEF j
      <4>2. Len(j \o buf') = Len(j) + Len(buf')
        BY <4>1
      <4>. QED
        BY <4>1, <4>2
    <3>. QED
      BY <2>8, <3>1, <3>2
  <2>. QED
    BY <1>1, <2>3, <2>5, <2>8, <2>9
<1>4. ASSUME Clean', overrun' PROVE taken' - Len(Joined(answers')) >= BufSize
  <2>1. PICK k \in DOMAIN buf' : k > BufSize
    BY <1>1, <1>4
  <2>2. buf' \in ByteTexts /\ Len(Joined(answers')) + Len(buf') = taken'
        /\ Joined(answers') \in ByteTexts
    BY <1>3, <1>4, JoinedAppend
  <2>. QED
    BY <2>1, <2>2, TcpNumbers DEF ByteTexts
<1>. QED
  BY <1>1, <1>2, <1>3, <1>4 DEF TcpInv

LEMMA ReturnStep == ASSUME TcpInv, Return PROVE TcpInv'
<1>1. /\ reading /\ ~overrun /\ reading' = FALSE
      /\ UNCHANGED <<nuls, arrived, taken, buf>> /\ taken \in Nat /\ arrived \in Nat
  BY DEF Return, TcpInv
<1>2. SUFFICES ASSUME Clean'
               PROVE  /\ answers' \in Seq(ByteTexts) /\ buf' \in ByteTexts
                      /\ \A k \in DOMAIN buf' : buf'[k] # Hole
                      /\ overrun' => taken' - Len(Joined(answers')) >= BufSize
                      /\ ~overrun' => Joined(answers') = [k \in 1..taken' |-> k]
  <2>1. Joined(answers') = [k \in 1..taken' |-> k] => Joined(answers') \o <<>> = [k \in 1..taken' |-> k]
    BY <1>1
  <2>. QED
    BY <1>1, <2>1 DEF TcpInv
<1>3. /\ answers \in Seq(ByteTexts) /\ buf \in ByteTexts
      /\ \A k \in DOMAIN buf : buf[k] # Hole
      /\ Joined(answers) \o buf = [k \in 1..taken |-> k]
  BY <1>1, <1>2 DEF TcpInv, Clean
<1>4. Joined(answers) \in ByteTexts
  BY <1>3, JoinedAppend
<1>5. CASE Len(buf) >= BufSize
  <2>1. overrun' = TRUE /\ UNCHANGED answers
    BY <1>5 DEF Return
  <2>2. Len(Joined(answers)) + Len(buf) = taken
    <3>1. Len([k \in 1..taken |-> k]) = taken
      BY <1>1
    <3>2. Len(Joined(answers) \o buf) = Len(Joined(answers)) + Len(buf)
      <4>1. buf \in Seq(Int) /\ Joined(answers) \in Seq(Int)
        BY <1>3, <1>4 DEF ByteTexts
      <4>. QED
        BY <4>1
    <3>. QED
      BY <1>3, <3>1, <3>2
  <2>3. Len(buf) \in Nat /\ Len(Joined(answers)) \in Nat
    BY <1>3, <1>4 DEF ByteTexts
  <2>. QED
    BY <1>1, <1>3, <1>5, <2>1, <2>2, <2>3, TcpNumbers
<1>6. CASE ~(Len(buf) >= BufSize)
  <2>1. answers' = Append(answers, buf)
    <3>1. {k \in DOMAIN buf : buf[k] = Hole} = {}
      BY <1>3
    <3>2. answers' = Append(answers, Text({}))
      BY <1>6, <3>1 DEF Return
    <3>3. Text({}) = buf
      BY <1>3 DEF Text, ByteTexts
    <3>. QED
      BY <3>2, <3>3
  <2>2. Joined(answers') = Joined(answers) \o buf
    BY <1>3, <2>1, JoinedAppend
  <2>3. overrun' = FALSE
    BY <1>1, <1>6 DEF Return
  <2>. QED
    BY <1>1, <1>3, <2>1, <2>2, <2>3
<1>. QED
  BY <1>5, <1>6

LEMMA TcpInvStep == TcpInv /\ [TcpNext]_tcpvars => TcpInv'
<1>. SUFFICES ASSUME TcpInv, [TcpNext]_tcpvars PROVE TcpInv'
  OBVIOUS
<1>1. CASE make_sock \/ unmake_sock \/ PeerCloses \/ UNCHANGED tcpvars
  <2>1. UNCHANGED <<nuls, arrived, reading, taken, buf, answers, overrun>>
    BY <1>1 DEF make_sock, unmake_sock, PeerCloses, tcpvars
  <2>2. Clean' = Clean
    BY <2>1 DEF Clean
  <2>. QED
    BY <2>1, <2>2 DEF TcpInv
<1>2. CASE PeerSends
  <2>1. /\ arrived \in Nat /\ arrived' \in (arrived + 1)..Sent
        /\ UNCHANGED <<nuls, reading, taken, buf, answers, overrun>>
    BY <1>2 DEF PeerSends, TcpInv
  <2>2. arrived' \in Nat /\ Clean' = Clean
    BY <2>1, TcpNumbers DEF Clean
  <2>. QED
    BY <2>1, <2>2 DEF TcpInv
<1>3. CASE read_sock
  <2>1. /\ ~reading /\ ~overrun /\ reading' /\ buf' = <<>>
        /\ UNCHANGED <<nuls, arrived, taken, answers, overrun>>
    BY <1>3 DEF read_sock, Idle
  <2>2. <<>> \in ByteTexts /\ DOMAIN <<>> = {} /\ Clean' = Clean
    BY <2>1 DEF ByteTexts, Clean
  <2>. QED
    BY <2>1, <2>2 DEF TcpInv
<1>4. CASE Read
  BY <1>4, ReadStep
<1>5. CASE Return
  BY <1>5, ReturnStep
<1>. QED
  BY <1>1, <1>2, <1>3, <1>4, <1>5 DEF TcpNext

\* Without a 0 among them, the bytes that the peer has sent come out of read-sock
\* in their order and once, however they were cut, and its buffer is left only by a
\* call that gets as many bytes as it has: for any sizes, and any number of calls.
THEOREM ReadInOrder == TcpSpec => []InOrderOnce
<1>1. TcpInv => InOrderOnce
  BY DEF TcpInv, InOrderOnce, Clean
<1>. QED
  BY <1>1, TcpInvInit, TcpInvStep, PTL DEF TcpSpec

-----------------------------------------------------------------------------
(* MySum. *)

SumSpec == SumInit /\ [][SumNext]_sumvars

SumTypeOK == /\ x \in Int /\ y \in Int /\ z \in Int
          /\ args \in [1..Calls -> Int \X Int]
          /\ called \in 0..Calls /\ half \in BOOLEAN
          /\ worker \in [1..Calls -> {"none", "asleep", "x", "y", "xy", "done", "failed"}]
          /\ ax \in [1..Calls -> Int] /\ ay \in [1..Calls -> Int]
          /\ overlapped \in BOOLEAN

\* The calls that have asked for their thread.
Spawned == 1..(IF half THEN called - 1 ELSE called)

\* The globals hold the operands of the last call, or, for y, of the one before.
Globals ==
  /\ half => called > 0
  /\ \A call \in 1..Calls : worker[call] # "none" <=> call \in Spawned
  /\ called > 0 => x = args[called][1]
  /\ Spawned # {} => y = args[IF half THEN called - 1 ELSE called][2]

\* What a worker has loaded belongs to its own call or a later one.
Loaded ==
  \A call \in 1..Calls :
    /\ worker[call] \in {"x", "xy"} => \E i \in call..called : ax[call] = args[i][1]
    /\ worker[call] \in {"y", "xy"} => \E j \in call..called : ay[call] = args[j][2]

\* Calls that do not overlap.
OneByOne ==
  ~overlapped => /\ \A call \in 1..(called - 1) : worker[call] \in {"done", "failed"}
                 /\ called > 0 /\ ~half /\ worker[called] = "done" => z = SumOf(called)

SumInv == SumTypeOK /\ Globals /\ Loaded /\ OneByOne

LEMMA SumInvInit == SumInit => SumInv
<1> SUFFICES ASSUME SumInit PROVE SumInv
  OBVIOUS
<1>1. SumTypeOK
  <2>1. <<0, 0>> \in Int \X Int
    OBVIOUS
  <2>2. args \in [1..Calls -> Int \X Int]
    BY <2>1 DEF SumInit
  <2>3. /\ worker \in [1..Calls -> {"none", "asleep", "x", "y", "xy", "done", "failed"}]
        /\ ax \in [1..Calls -> Int] /\ ay \in [1..Calls -> Int]
    BY DEF SumInit
  <2>4. called \in 0..Calls /\ x \in Int /\ y \in Int /\ z \in Int
    BY CallsBounded DEF SumInit
  <2>5. half \in BOOLEAN /\ overlapped \in BOOLEAN
    BY DEF SumInit
  <2> QED BY <2>2, <2>3, <2>4, <2>5 DEF SumTypeOK
<1>2. called = 0 /\ half = FALSE /\ \A call \in 1..Calls : worker[call] = "none"
  BY DEF SumInit
<1>3. Spawned = {} /\ 1..(called - 1) = {}
  BY <1>2 DEF Spawned
<1>4. Globals /\ Loaded /\ OneByOne
  BY <1>2, <1>3 DEF Globals, Loaded, OneByOne
<1> QED BY <1>1, <1>4 DEF SumInv

LEMMA SetXStep ==
  ASSUME SumInv, SetX
  PROVE  SumInv'
<1>1. /\ called \in 0..Calls /\ called + 1 \in 1..Calls /\ Calls \in Nat
      /\ ~half /\ called' = called + 1 /\ half' = TRUE
      /\ overlapped' = (overlapped \/ Working # {})
      /\ UNCHANGED <<y, z, worker, ax, ay>>
  BY CallsBounded DEF SetX, SumInv, SumTypeOK
<1>2. PICK a \in Operands, b \in Operands : args' = [args EXCEPT ![called + 1] = <<a, b>>]
  BY <1>1 DEF SetX
<1>3. a \in Int /\ b \in Int /\ args'[called + 1] = <<a, b>>
      /\ \A call \in 1..Calls : call # called + 1 => args'[call] = args[call]
  BY <1>1, <1>2, OperandsAreInts DEF SumInv, SumTypeOK
<1>4. x' = a
  BY <1>1, <1>3 DEF SetX
<1>5. SumTypeOK'
  BY <1>1, <1>2, <1>3, <1>4 DEF SumInv, SumTypeOK
<1>6. Spawned' = Spawned /\ Spawned = 1..called
  BY <1>1 DEF Spawned
<1>7. Globals'
  BY <1>1, <1>3, <1>4, <1>6 DEF SumInv, Globals
<1>8. Loaded'
  <2> SUFFICES ASSUME NEW call \in 1..Calls
               PROVE  /\ worker[call] \in {"x", "xy"} => \E i \in call..(called + 1) : ax[call] = args'[i][1]
                      /\ worker[call] \in {"y", "xy"} => \E j \in call..(called + 1) : ay[call] = args'[j][2]
    BY <1>1 DEF Loaded
  <2>1. \A i \in call..called : i \in call..(called + 1) /\ args'[i] = args[i]
    BY <1>1, <1>3
  <2> QED BY <2>1 DEF SumInv, Loaded
<1>9. OneByOne'
  <2>1. Working = {} => \A call \in 1..called : worker[call] \in {"done", "failed"}
    <3> SUFFICES ASSUME Working = {}, NEW call \in 1..called
                 PROVE  worker[call] \in {"done", "failed"}
      OBVIOUS
    <3>1. call \in 1..Calls
      BY <1>1
    <3>2. worker[call] # "none"
      BY <1>6, <3>1 DEF SumInv, Globals
    <3> QED BY <3>1, <3>2 DEF Working
  <2>2. called' - 1 = called
    BY <1>1
  <2>3. ~overlapped' => Working = {}
    BY <1>1
  <2> QED BY <1>1, <2>1, <2>2, <2>3 DEF OneByOne
<1> QED BY <1>5, <1>7, <1>8, <1>9 DEF SumInv

LEMMA SpawnStep ==
  ASSUME SumInv, Spawn
  PROVE  SumInv'
<1>1. /\ called \in 1..Calls /\ Calls \in Nat /\ half /\ half' = FALSE
      /\ y' = args[called][2]
      /\ UNCHANGED <<x, z, args, called, ax, ay, overlapped>>
  BY CallsBounded DEF Spawn, SumInv, SumTypeOK, Globals
<1>7. PICK how \in {"asleep", "failed"} : worker' = [worker EXCEPT ![called] = how]
  BY DEF Spawn
<1>2. SumTypeOK'
  BY <1>1, <1>7 DEF SumInv, SumTypeOK
<1>3. Spawned = 1..(called - 1) /\ Spawned' = 1..called
  BY <1>1 DEF Spawned
<1>4. Globals'
  BY <1>1, <1>3, <1>7 DEF SumInv, SumTypeOK, Globals
<1>5. Loaded'
  BY <1>1, <1>7 DEF SumInv, SumTypeOK, Loaded
<1>6. OneByOne'
  BY <1>1, <1>7 DEF SumInv, SumTypeOK, OneByOne
<1> QED BY <1>2, <1>4, <1>5, <1>6 DEF SumInv

LEMMA LoadStep ==
  ASSUME SumInv, NEW call \in 1..Calls, LoadX(call) \/ LoadY(call)
  PROVE  SumInv'
<1>1. /\ Calls \in Nat /\ called \in 0..Calls /\ worker[call] \in {"asleep", "x", "y"}
      /\ UNCHANGED <<x, y, z, args, called, half, overlapped>>
  BY CallsBounded DEF LoadX, LoadY, SumInv, SumTypeOK
<1>2. call \in Spawned /\ call \in 1..called
  BY <1>1 DEF SumInv, Globals, Spawned
<1>3. \/ /\ worker[call] \in {"asleep", "y"} /\ ax' = [ax EXCEPT ![call] = x] /\ ay' = ay
         /\ worker' = [worker EXCEPT ![call] = IF @ = "asleep" THEN "x" ELSE "xy"]
      \/ /\ worker[call] \in {"asleep", "x"} /\ ay' = [ay EXCEPT ![call] = y] /\ ax' = ax
         /\ worker' = [worker EXCEPT ![call] = IF @ = "asleep" THEN "y" ELSE "xy"]
  BY DEF LoadX, LoadY
<1>4. SumTypeOK'
  <2>1. worker' \in [1..Calls -> {"none", "asleep", "x", "y", "xy", "done", "failed"}]
    BY <1>3 DEF SumInv, SumTypeOK
  <2>2. ax' \in [1..Calls -> Int] /\ ay' \in [1..Calls -> Int]
    BY <1>3 DEF SumInv, SumTypeOK
  <2> QED BY <1>1, <2>1, <2>2 DEF SumInv, SumTypeOK
<1>5. Globals'
  BY <1>1, <1>2, <1>3 DEF SumInv, SumTypeOK, Globals, Spawned
<1>6. /\ \E i \in call..called : x = args[i][1]
      /\ \E j \in call..called : y = args[j][2]
  <2>1. x = args[called][1] /\ called \in call..called
    BY <1>1, <1>2 DEF SumInv, Globals
  <2>2. CASE half
    <3>1. y = args[called - 1][2] /\ called - 1 \in call..called
      BY <1>1, <1>2, <2>2 DEF SumInv, Globals, Spawned
    <3> QED BY <2>1, <3>1
  <2>3. CASE ~half
    BY <1>1, <1>2, <2>1, <2>3 DEF SumInv, Globals, Spawned
  <2> QED BY <2>1, <2>2, <2>3
<1>7. Loaded'
  <2> SUFFICES ASSUME NEW d \in 1..Calls
               PROVE  /\ worker'[d] \in {"x", "xy"} => \E i \in d..called : ax'[d] = args[i][1]
                      /\ worker'[d] \in {"y", "xy"} => \E j \in d..called : ay'[d] = args[j][2]
    BY <1>1 DEF Loaded
  <2>1. /\ worker[d] \in {"x", "xy"} => \E i \in d..called : ax[d] = args[i][1]
        /\ worker[d] \in {"y", "xy"} => \E j \in d..called : ay[d] = args[j][2]
    BY DEF SumInv, Loaded
  <2>2. CASE d # call
    BY <1>3, <2>1, <2>2 DEF SumInv, SumTypeOK
  <2>3. CASE d = call /\ ax' = [ax EXCEPT ![call] = x] /\ ay' = ay
    <3>1. ax'[call] = x /\ ay'[call] = ay[call]
      BY <2>3 DEF SumInv, SumTypeOK
    <3>2. worker'[call] = "xy" => worker[call] = "y" \/ worker[call] = "x"
      BY <1>3 DEF SumInv, SumTypeOK
    <3>3. worker'[call] = "y" => worker[call] = "asleep" /\ ay' = [ay EXCEPT ![call] = y]
      BY <1>3 DEF SumInv, SumTypeOK
    <3> QED BY <1>3, <1>6, <2>1, <2>3, <3>1, <3>2, <3>3 DEF SumInv, SumTypeOK
  <2>4. CASE d = call /\ ay' = [ay EXCEPT ![call] = y] /\ ax' = ax
    <3>1. ay'[call] = y /\ ax'[call] = ax[call]
      BY <2>4 DEF SumInv, SumTypeOK
    <3> QED BY <1>3, <1>6, <2>1, <2>4, <3>1 DEF SumInv, SumTypeOK
  <2> QED BY <1>3, <2>2, <2>3, <2>4
<1>8. OneByOne'
  <2>1. /\ \A d \in 1..Calls : worker[d] = "done" => worker'[d] = "done"
        /\ \A d \in 1..Calls : worker'[d] = "done" => worker[d] = "done"
        /\ \A d \in 1..Calls : worker[d] = "failed" => worker'[d] = "failed"
    BY <1>3 DEF SumInv, SumTypeOK
  <2>2. \A d \in 1..(called - 1) : d \in 1..Calls
    BY <1>1
  <2>3. SumOf(called)' = SumOf(called) /\ (called > 0 => called \in 1..Calls)
    BY <1>1 DEF SumOf
  <2> QED BY <1>1, <2>1, <2>2, <2>3 DEF SumInv, OneByOne
<1> QED BY <1>4, <1>5, <1>7, <1>8 DEF SumInv

LEMMA StoreStep ==
  ASSUME SumInv, NEW call \in 1..Calls, Store(call)
  PROVE  SumInv'
<1>1. /\ Calls \in Nat /\ called \in 0..Calls /\ worker[call] = "xy"
      /\ worker' = [worker EXCEPT ![call] = "done"] /\ z' = ax[call] + ay[call]
      /\ UNCHANGED <<x, y, args, called, half, ax, ay, overlapped>>
  BY CallsBounded DEF Store, SumInv, SumTypeOK
<1>2. call \in 1..called /\ call \in Spawned
  BY <1>1 DEF SumInv, Globals, Spawned
<1>3. SumTypeOK'
  <2>1. ax[call] \in Int /\ ay[call] \in Int
    BY DEF SumInv, SumTypeOK
  <2> QED BY <1>1, <2>1 DEF SumInv, SumTypeOK
<1>4. Globals' /\ Loaded'
  BY <1>1, <1>2 DEF SumInv, SumTypeOK, Globals, Loaded, Spawned
<1>5. call = called => z' = SumOf(called)
  <2> SUFFICES ASSUME call = called PROVE ax[call] + ay[call] = SumOf(called)
    BY <1>1
  <2>1. \A i \in call..called : i = called
    BY <1>1
  <2> QED BY <1>1, <2>1 DEF SumInv, Loaded, SumOf
<1>6. ~overlapped => call = called
  BY <1>1, <1>2 DEF SumInv, OneByOne
<1>7. OneByOne'
  BY <1>1, <1>2, <1>5, <1>6 DEF SumInv, SumTypeOK, OneByOne, SumOf
<1> QED BY <1>3, <1>4, <1>7 DEF SumInv

\* my-sum and its workers keep the invariant.
THEOREM SumInvariance == SumSpec => []SumInv
<1>1. SumInv /\ [SumNext]_sumvars => SumInv'
  <2> SUFFICES ASSUME SumInv, [SumNext]_sumvars PROVE SumInv'
    OBVIOUS
  <2>1. CASE UNCHANGED sumvars
    BY <2>1 DEF sumvars, SumInv, SumTypeOK, Spawned, Globals, Loaded, OneByOne, SumOf
  <2>2. CASE SumNext
    BY <2>2, SetXStep, SpawnStep, LoadStep, StoreStep DEF SumNext
  <2> QED BY <2>1, <2>2
<1> QED BY <1>1, SumInvInit, PTL DEF SumSpec

\* However many calls of my-sum overlap, a worker (my_sum_compute) adds operands
\* of its own call or later ones, and sums taken one after the other are right.
THEOREM SumsAreRight == SumSpec => []SumsRight
<1>1. SumInv => SumsRight
  <2> SUFFICES ASSUME SumInv PROVE SumsRight
    OBVIOUS
  <2>1. ASSUME NEW call \in 1..Calls, worker[call] = "xy"
        PROVE  \E i, j \in call..called : ax[call] = args[i][1] /\ ay[call] = args[j][2]
    BY <2>1 DEF SumInv, Loaded
  <2>2. ASSUME ~overlapped, called > 0, worker[called] = "done"
        PROVE  z = SumOf(called)
    <3>1. called \in 1..Calls
      BY <2>2, CallsBounded DEF SumInv, SumTypeOK
    <3>2. ~half
      BY <2>2, <3>1 DEF SumInv, SumTypeOK, Globals, Spawned
    <3> QED BY <2>2, <3>2 DEF SumInv, OneByOne
  <2> QED BY <2>1, <2>2 DEF SumsRight
<1> QED BY <1>1, SumInvariance, PTL

-----------------------------------------------------------------------------
(* JsonStrings. *)

\* The numbers from lo to hi.
Span(lo, hi) == {k \in Int : lo =< k /\ k =< hi}

\* What a byte is.
LEMMA ByteIs == ASSUME NEW n PROVE n \in Byte <=> n \in Int /\ 0 =< n /\ n < 256
BY DEF Byte, Below

\* Boundaries of characters: behind each one in s there is a character, up to another.
Boundaries(P, s) ==
  /\ P \subseteq 1..(Len(s) + 1)
  /\ \A i \in P : i > Len(s) \/ (Width(s, i) > 0 /\ i + Width(s, i) \in P)

\* The forms of a character.
One(s, i) == s[i] \in Span(0, 127)
Two(s, i) == i + 1 =< Len(s) /\ s[i] \in Span(194, 223) /\ s[i + 1] \in Span(128, 191)
Three(s, i) == /\ i + 2 =< Len(s) /\ s[i] \in Span(224, 239)
               /\ s[i + 1] \in Span(128, 191) /\ s[i + 2] \in Span(128, 191)
               /\ s[i] = 224 => s[i + 1] >= 160
               /\ s[i] = 237 => s[i + 1] =< 159
Four(s, i) == /\ i + 3 =< Len(s) /\ s[i] \in Span(240, 244)
              /\ s[i + 1] \in Span(128, 191) /\ s[i + 2] \in Span(128, 191) /\ s[i + 3] \in Span(128, 191)
              /\ s[i] = 240 => s[i + 1] >= 144
              /\ s[i] = 244 => s[i + 1] =< 143

\* Width tells them apart.
LEMMA WidthIs ==
  ASSUME NEW s \in Seq(Byte), NEW i \in 1..Len(s)
  PROVE  /\ Width(s, i) \in 0..4
         /\ Width(s, i) = 1 <=> One(s, i)
         /\ Width(s, i) = 2 <=> Two(s, i)
         /\ Width(s, i) = 3 <=> Three(s, i)
         /\ Width(s, i) = 4 <=> Four(s, i)
<1>. USE DEF Span
<1>1. Len(s) \in Nat /\ i \in Nat /\ i =< Len(s) /\ i + 0 = i
  OBVIOUS
<1>2. i + 1 =< Len(s) => s[i + 1] \in Int
  BY <1>1, ByteIs
<1>3. i + 2 =< Len(s) => i + 1 =< Len(s) /\ s[i + 2] \in Int
  BY <1>1, ByteIs
<1>4. i + 3 =< Len(s) => i + 2 =< Len(s) /\ s[i + 3] \in Int
  BY <1>1, ByteIs
<1>5. s[i] \in Int
  BY <1>1, ByteIs
<1> DEFINE at(k, lo, hi) == i + k =< Len(s) /\ lo =< s[i + k] /\ s[i + k] =< hi
           w1 == at(0, 0, 127)
           w2 == at(0, 194, 223) /\ at(1, 128, 191)
           w3 == /\ at(0, 224, 239) /\ at(2, 128, 191)
                 /\ at(1, IF s[i] = 224 THEN 160 ELSE 128, IF s[i] = 237 THEN 159 ELSE 191)
           w4 == /\ at(0, 240, 244) /\ at(2, 128, 191) /\ at(3, 128, 191)
                 /\ at(1, IF s[i] = 240 THEN 144 ELSE 128, IF s[i] = 244 THEN 143 ELSE 191)
<1>6. Width(s, i) = CASE w1 -> 1 [] w2 -> 2 [] w3 -> 3 [] w4 -> 4 [] OTHER -> 0
  BY DEF Width
<1>7. w1 <=> One(s, i)
  BY <1>1, <1>5 DEF One
<1>8. w2 <=> Two(s, i)
  BY <1>1, <1>2, <1>5 DEF Two
<1>9. w3 <=> Three(s, i)
  BY <1>1, <1>2, <1>3, <1>5 DEF Three
<1>10. w4 <=> Four(s, i)
  BY <1>1, <1>2, <1>3, <1>4, <1>5 DEF Four
<1>. HIDE DEF w1, w2, w3, w4
<1>11. One(s, i) => ~Two(s, i) /\ ~Three(s, i) /\ ~Four(s, i)
  BY <1>5 DEF One, Two, Three, Four
<1>12. Two(s, i) => ~Three(s, i) /\ ~Four(s, i)
  BY <1>5 DEF Two, Three, Four
<1>13. Three(s, i) => ~Four(s, i)
  BY <1>5 DEF Three, Four
<1>. QED
  BY <1>6, <1>7, <1>8, <1>9, <1>10, <1>11, <1>12, <1>13

\* What a concatenation is.
LEMMA JoinIs ==
  ASSUME NEW S, NEW s \in Seq(S), NEW u \in Seq(S)
  PROVE  /\ s \o u \in Seq(S) /\ Len(s \o u) = Len(s) + Len(u)
         /\ \A i \in 1..Len(s) : (s \o u)[i] = s[i]
         /\ \A i \in (Len(s) + 1)..(Len(s) + Len(u)) : (s \o u)[i] = u[i - Len(s)]
OBVIOUS

\* A character ends inside.
LEMMA WidthFits ==
  ASSUME NEW s \in Seq(Byte), NEW i \in 1..Len(s), Width(s, i) > 0
  PROVE  i + Width(s, i) \in 1..(Len(s) + 1) /\ Width(s, i) \in 1..4
<1>. USE DEF Span
<1>1. Len(s) \in Nat /\ i =< Len(s)
  OBVIOUS
<1>2. Width(s, i) \in {1, 2, 3, 4}
  BY WidthIs
<1>3. /\ Width(s, i) = 2 => i + 1 =< Len(s)
      /\ Width(s, i) = 3 => i + 2 =< Len(s)
      /\ Width(s, i) = 4 => i + 3 =< Len(s)
  BY WidthIs DEF Two, Three, Four
<1>. QED
  BY <1>1, <1>2, <1>3

\* It is the same character in a string that has the same bytes there, and goes on.
LEMMA WidthSame ==
  ASSUME NEW s \in Seq(Byte), NEW i \in 1..Len(s), Width(s, i) > 0,
         NEW t \in Seq(Byte), NEW j \in 1..Len(t),
         \A k \in 0..(Width(s, i) - 1) : j + k =< Len(t) /\ t[j + k] = s[i + k]
  PROVE  Width(t, j) = Width(s, i)
<1>. USE DEF Span
<1>1. Width(s, i) \in 1..4
  BY WidthFits
<1>2. t[j] = s[i]
  <2>1. 0 \in 0..(Width(s, i) - 1) /\ j + 0 = j /\ i + 0 = i
    BY <1>1
  <2>. QED
    BY <2>1
<1>3. CASE Width(s, i) = 1
  <2>1. One(s, i)
    BY <1>3, WidthIs
  <2>2. One(t, j)
    BY <1>2, <2>1 DEF One
  <2>. QED
    BY <1>3, <2>2, WidthIs
<1>4. CASE Width(s, i) = 2
  <2>1. Two(s, i)
    BY <1>4, WidthIs
  <2>2. j + 1 =< Len(t) /\ t[j + 1] = s[i + 1]
    BY <1>4
  <2>3. Two(t, j)
    BY <1>2, <2>1, <2>2 DEF Two
  <2>. QED
    BY <1>4, <2>3, WidthIs
<1>5. CASE Width(s, i) = 3
  <2>1. Three(s, i)
    BY <1>5, WidthIs
  <2>2. t[j + 1] = s[i + 1] /\ j + 2 =< Len(t) /\ t[j + 2] = s[i + 2]
    BY <1>5
  <2>3. Three(t, j)
    BY <1>2, <2>1, <2>2 DEF Three
  <2>. QED
    BY <1>5, <2>3, WidthIs
<1>6. CASE Width(s, i) = 4
  <2>1. Four(s, i)
    BY <1>6, WidthIs
  <2>2. /\ t[j + 1] = s[i + 1] /\ t[j + 2] = s[i + 2]
        /\ j + 3 =< Len(t) /\ t[j + 3] = s[i + 3]
    BY <1>6
  <2>3. Four(t, j)
    BY <1>2, <2>1, <2>2 DEF Four
  <2>. QED
    BY <1>6, <2>3, WidthIs
<1>. QED
  BY <1>1, <1>3, <1>4, <1>5, <1>6

\* A string is well-formed if it has boundaries from its beginning on.
LEMMA WellFormedIs ==
  ASSUME NEW s \in Seq(Byte)
  PROVE  WellFormed(s) <=> \E P : Boundaries(P, s) /\ 1 \in P
<1>. USE DEF Span
<1> DEFINE n == Len(s)
           Fits(f) == f = [i \in 1..(n + 1) |->
                             i > n \/ LET w == Width(s, i) IN w > 0 /\ f[i + w]]
           from == CHOOSE f : Fits(f)
           t == [i \in 1..(n + 1) |-> \E P : Boundaries(P, s) /\ i \in P]
<1>1. n \in Nat /\ 1 \in 1..(n + 1)
  OBVIOUS
<1>2. WellFormed(s) = from[1]
  BY DEF WellFormed
<1>3. \A i \in 1..n : Width(s, i) > 0 => i + Width(s, i) \in 1..(n + 1) /\ Width(s, i) \in 1..4
  BY WidthFits
<1>4. Fits(t)
  <2>1. ASSUME NEW i \in 1..(n + 1)
        PROVE  (\E P : Boundaries(P, s) /\ i \in P)
                 <=> (i > n \/ LET w == Width(s, i) IN w > 0 /\ t[i + w])
    <3>1. CASE i > n
      <4>1. i = n + 1
        BY <1>1, <3>1
      <4>2. Boundaries({i}, s)
        BY <3>1 DEF Boundaries
      <4>. QED
        BY <3>1, <4>2
    <3>2. CASE ~(i > n)
      <4>1. i \in 1..n
        BY <1>1, <3>2
      <4>2. ASSUME NEW P, Boundaries(P, s), i \in P
            PROVE  Width(s, i) > 0 /\ t[i + Width(s, i)]
        <5>1. Width(s, i) > 0 /\ i + Width(s, i) \in P /\ P \subseteq 1..(n + 1)
          BY <4>2, <3>2 DEF Boundaries
        <5>. QED
          BY <5>1, <4>2
      <4>3. ASSUME Width(s, i) > 0, t[i + Width(s, i)]
            PROVE  \E P : Boundaries(P, s) /\ i \in P
        <5>1. i + Width(s, i) \in 1..(n + 1)
          BY <4>1, <4>3, <1>3
        <5>2. PICK P : Boundaries(P, s) /\ i + Width(s, i) \in P
          BY <4>3, <5>1
        <5>3. Boundaries(P \cup {i}, s)
          BY <4>3, <5>2 DEF Boundaries
        <5>. QED
          BY <5>3
      <4>. QED
        BY <3>2, <4>2, <4>3
    <3>. QED
      BY <3>1, <3>2
  <2>. QED
    BY <2>1
<1>. HIDE DEF t
<1>5. Fits(from)
  <2>. HIDE DEF Fits
  <2>. QED
    BY <1>4
<1>6. \A i \in 1..(n + 1) : from[i] <=> (i > n \/ (Width(s, i) > 0 /\ from[i + Width(s, i)]))
  <2>. HIDE DEF from
  <2>. QED
    BY <1>5
<1>. HIDE DEF from, n
<1>7. ASSUME from[1] PROVE \E P : Boundaries(P, s) /\ 1 \in P
  <2> DEFINE P == {i \in 1..(n + 1) : from[i]}
  <2>1. ASSUME NEW i \in P, ~(i > n) PROVE Width(s, i) > 0 /\ i + Width(s, i) \in P
    <3>1. i \in 1..n /\ from[i]
      BY <1>1, <2>1
    <3>2. Width(s, i) > 0 /\ from[i + Width(s, i)]
      BY <3>1, <2>1, <1>6
    <3>. QED
      BY <3>1, <3>2, <1>3
  <2>2. 1 \in P
    BY <1>1, <1>7
  <2>3. P \subseteq 1..(n + 1)
    OBVIOUS
  <2>. HIDE DEF P
  <2>4. Boundaries(P, s)
    BY <2>1, <2>3 DEF Boundaries, n
  <2>. QED
    BY <2>2, <2>4
<1>8. ASSUME NEW P, Boundaries(P, s), 1 \in P PROVE from[1]
  <2> DEFINE D == {i \in P : ~from[i]}
  <2>1. P \subseteq 1..(n + 1) /\ \A i \in P : i > n \/ (Width(s, i) > 0 /\ i + Width(s, i) \in P)
    BY <1>8 DEF Boundaries, n
  <2>2. SUFFICES ASSUME D # {} PROVE FALSE
    BY <1>8
  <2>3. D \subseteq 1..(n + 1) /\ n + 1 \in Nat
    <3>1. D \subseteq P
      OBVIOUS
    <3>. HIDE DEF D
    <3>. QED
      BY <1>1, <2>1, <3>1
  <2> DEFINE m == Max(D)
  <2>4. m \in D /\ \A p \in D : m >= p
    <3>. HIDE DEF D
    <3>. QED
      BY <2>2, <2>3, MaxIsGreatest
  <2>. HIDE DEF m
  <2>5. m \in P /\ ~from[m] /\ m \in 1..(n + 1)
    BY <2>3, <2>4
  <2>6. ~(m > n)
    BY <1>6, <2>5
  <2>7. Width(s, m) > 0 /\ m + Width(s, m) \in P
    BY <2>1, <2>5, <2>6
  <2>8. m \in 1..n /\ Width(s, m) \in 1..4
    BY <1>1, <1>3, <2>5, <2>6, <2>7
  <2>9. m + Width(s, m) \notin D
    BY <2>4, <2>8
  <2>10. from[m + Width(s, m)]
    BY <2>7, <2>9
  <2>. QED
    BY <1>6, <2>5, <2>7, <2>10
<1>. QED
  BY <1>2, <1>7, <1>8

\* s begins with a character and is nothing else.
Character(s) == s \in Seq(Byte) /\ Len(s) > 0 /\ Width(s, 1) = Len(s)

\* An empty string is well-formed.
LEMMA EmptyWellFormed == WellFormed(<<>>)
<1>. USE DEF Span
<1>1. <<>> \in Seq(Byte) /\ Len(<<>>) = 0
  OBVIOUS
<1>2. Boundaries({1}, <<>>)
  BY <1>1 DEF Boundaries
<1>. QED
  BY <1>1, <1>2, WellFormedIs

\* One more character leaves it so.
LEMMA AppendCharacter ==
  ASSUME NEW s \in Seq(Byte), WellFormed(s), NEW u, Character(u)
  PROVE  s \o u \in Seq(Byte) /\ WellFormed(s \o u)
<1>. USE DEF Span
<1> DEFINE t == s \o u
           n == Len(s)
           w == Len(u)
<1>1. u \in Seq(Byte) /\ w > 0 /\ Width(u, 1) = w /\ n \in Nat /\ w \in Nat
  BY DEF Character
<1>2. /\ t \in Seq(Byte) /\ Len(t) = n + w
      /\ \A i \in 1..n : t[i] = s[i]
      /\ \A i \in (n + 1)..(n + w) : t[i] = u[i - n]
  BY <1>1, JoinIs
<1>3. PICK P : Boundaries(P, s) /\ 1 \in P
  BY WellFormedIs
<1>4. P \subseteq 1..(n + 1) /\ \A i \in P : i > n \/ (Width(s, i) > 0 /\ i + Width(s, i) \in P)
  BY <1>3 DEF Boundaries
<1> DEFINE Q == P \cup {n + 1, n + w + 1}
<1>. HIDE DEF t, n, w
<1>5. Width(t, n + 1) = w
  <2>1. 1 \in 1..Len(u) /\ n + 1 \in 1..Len(t)
    BY <1>1, <1>2 DEF w
  <2>2. \A k \in 0..(w - 1) : (n + 1) + k =< Len(t) /\ t[(n + 1) + k] = u[1 + k]
    <3>. TAKE k \in 0..(w - 1)
    <3>1. (n + 1) + k \in (n + 1)..(n + w) /\ ((n + 1) + k) - n = 1 + k
      BY <1>1
    <3>. QED
      BY <3>1, <1>2
  <2>. QED
    BY <1>1, <1>2, <2>1, <2>2, WidthSame
<1>6. ASSUME NEW i \in P, ~(i > n)
      PROVE  Width(t, i) > 0 /\ i + Width(t, i) \in P
  <2>1. Width(s, i) > 0 /\ i + Width(s, i) \in P /\ i \in 1..n
    BY <1>1, <1>4, <1>6
  <2>2. i \in 1..Len(s) /\ i \in 1..Len(t) /\ Width(s, i) \in 1..4 /\ i + Width(s, i) \in 1..(n + 1)
    BY <1>1, <1>2, <2>1, WidthFits DEF n
  <2>3. \A k \in 0..(Width(s, i) - 1) : i + k =< Len(t) /\ t[i + k] = s[i + k]
    <3>. TAKE k \in 0..(Width(s, i) - 1)
    <3>1. i + k \in 1..n /\ i + k =< n + w
      BY <1>1, <2>1, <2>2
    <3>. QED
      BY <3>1, <1>2
  <2>4. Width(t, i) = Width(s, i)
    BY <1>2, <2>1, <2>2, <2>3, WidthSame
  <2>. QED
    BY <2>1, <2>4
<1>7. Boundaries(Q, t)
  <2>1. Q \subseteq 1..(Len(t) + 1)
    BY <1>1, <1>2, <1>4
  <2>2. ASSUME NEW i \in Q, ~(i > Len(t)) PROVE Width(t, i) > 0 /\ i + Width(t, i) \in Q
    <3>1. i # n + w + 1
      BY <1>1, <1>2, <2>2
    <3>2. CASE i = n + 1
      <4>1. Width(t, i) = w /\ i + w = n + w + 1
        BY <3>2, <1>1, <1>5
      <4>. QED
        BY <4>1, <1>1
    <3>3. CASE i # n + 1
      <4>1. i \in P /\ ~(i > n)
        BY <3>1, <3>3, <1>1, <1>4
      <4>. QED
        BY <4>1, <1>6
    <3>. QED
      BY <3>2, <3>3
  <2>. HIDE DEF Q
  <2>. QED
    BY <2>1, <2>2 DEF Boundaries
<1>8. 1 \in Q
  BY <1>3
<1>. HIDE DEF Q
<1>. QED
  BY <1>2, <1>7, <1>8, WellFormedIs DEF t

\* A byte below 128 is a character.
LEMMA AsciiIs == ASSUME NEW n \in Span(0, 127) PROVE Character(<<n>>)
<1>. USE DEF Span
<1>1. <<n>> \in Seq(Byte) /\ Len(<<n>>) = 1 /\ <<n>>[1] = n /\ 1 \in 1..1
  BY ByteIs
<1>2. One(<<n>>, 1)
  BY <1>1 DEF One
<1>3. Width(<<n>>, 1) = 1
  BY <1>1, <1>2, WidthIs
<1>. QED
  BY <1>1, <1>3 DEF Character

\* The numbers that are characters.
Scalar(n) == n \in Span(0, 1114111) /\ ~High(n) /\ ~Low(n)

\* decode_string writes each of them as one.
LEMMA Utf8BytesIs == ASSUME NEW n, Scalar(n) PROVE Character(Utf8Bytes(n))
<1>. USE DEF Span
<1>0. n \in Span(0, 1114111) /\ n \notin Span(55296, 57343) /\ n \in Nat
  BY DEF Scalar, High, Low
<1>1. CASE n < 128
  <2>1. Utf8Bytes(n) = <<n>> /\ n \in Span(0, 127)
    BY <1>0, <1>1 DEF Utf8Bytes
  <2>. QED
    BY <2>1, AsciiIs
<1>2. CASE n \in Span(128, 2047)
  <2> DEFINE a == 192 + ((n \div 64) % 32)
             b == 128 + (n % 64)
  <2>1. Utf8Bytes(n) = <<a, b>>
    BY <1>0, <1>2 DEF Utf8Bytes
  <2>2. n \div 64 \in Span(2, 31)
    BY <1>2
  <2>3. a \in Span(194, 223)
    BY <2>2
  <2>4. b \in Span(128, 191)
    BY <1>2
  <2>. HIDE DEF a, b
  <2> DEFINE u == <<a, b>>
  <2>5. u \in Seq(Byte) /\ 1 \in 1..Len(u) /\ Len(u) = 2 /\ u[1] = a /\ u[2] = b
    BY <2>3, <2>4, ByteIs DEF u
  <2>. HIDE DEF u
  <2>6. Two(u, 1)
    BY <2>3, <2>4, <2>5 DEF Two
  <2>7. Width(u, 1) = 2
    BY <2>5, <2>6, WidthIs
  <2>. QED
    BY <2>1, <2>5, <2>7 DEF Character, u
<1>3. CASE n \in Span(2048, 65535)
  <2> DEFINE a == 224 + ((n \div 4096) % 16)
             b == 128 + ((n \div 64) % 64)
             d == 128 + (n % 64)
  <2>1. Utf8Bytes(n) = <<a, b, d>>
    BY <1>0, <1>3 DEF Utf8Bytes
  <2>2. n \div 4096 \in Span(0, 15) /\ n \div 64 \in Span(0, 1023)
    BY <1>3
  <2>3. a = 224 + n \div 4096
    BY <2>2
  <2>4. a \in Span(224, 239) /\ b \in Span(128, 191) /\ d \in Span(128, 191)
    BY <1>3, <2>2, <2>3
  <2>5. a = 224 => b >= 160
    <3>1. SUFFICES ASSUME a = 224 PROVE b >= 160
      OBVIOUS
    <3>2. n < 4096
      BY <3>1, <2>3, <1>3
    <3>3. n \div 64 \in Span(32, 63)
      BY <3>2, <1>3
    <3>. QED
      BY <3>3
  <2>6. a = 237 => b =< 159
    <3>1. SUFFICES ASSUME a = 237 PROVE b =< 159
      OBVIOUS
    <3>2. n \div 4096 = 13
      BY <3>1, <2>2, <2>3
    <3>3. n \in Span(53248, 57343)
      BY <3>2, <1>3
    <3>4. n \in Span(53248, 55295)
      BY <3>3, <1>0
    <3>5. n \div 64 \in Span(832, 863)
      BY <3>4
    <3>. QED
      BY <3>5
  <2>. HIDE DEF a, b, d
  <2> DEFINE u == <<a, b, d>>
  <2>7. /\ u \in Seq(Byte) /\ 1 \in 1..Len(u) /\ Len(u) = 3
        /\ u[1] = a /\ u[2] = b /\ u[3] = d
    BY <2>4, ByteIs DEF u
  <2>. HIDE DEF u
  <2>8. Three(u, 1)
    BY <2>4, <2>5, <2>6, <2>7 DEF Three
  <2>9. Width(u, 1) = 3
    BY <2>7, <2>8, WidthIs
  <2>. QED
    BY <2>1, <2>7, <2>9 DEF Character, u
<1>4. CASE n > 65535
  <2> DEFINE a == 240 + ((n \div 262144) % 8)
             b == 128 + ((n \div 4096) % 64)
             d == 128 + ((n \div 64) % 64)
             e == 128 + (n % 64)
  <2>1. Utf8Bytes(n) = <<a, b, d, e>>
    BY <1>0, <1>4 DEF Utf8Bytes
  <2>2. n \div 262144 \in 0..4 /\ n \div 4096 \in Span(16, 271) /\ n \div 64 \in Nat
    BY <1>0, <1>4
  <2>3. a = 240 + n \div 262144
    BY <2>2
  <2>4. a \in Span(240, 244) /\ b \in Span(128, 191) /\ d \in Span(128, 191) /\ e \in Span(128, 191)
    BY <1>0, <2>2, <2>3
  <2>5. a = 240 => b >= 144
    <3>1. SUFFICES ASSUME a = 240 PROVE b >= 144
      OBVIOUS
    <3>2. n < 262144
      BY <3>1, <2>3, <1>0
    <3>3. n \div 4096 \in Span(16, 63)
      BY <3>2, <1>0, <1>4
    <3>. QED
      BY <3>3
  <2>6. a = 244 => b =< 143
    <3>1. SUFFICES ASSUME a = 244 PROVE b =< 143
      OBVIOUS
    <3>2. n \div 262144 = 4
      BY <3>1, <2>2, <2>3
    <3>3. n \in Span(1048576, 1114111)
      BY <3>2, <1>0
    <3>4. n \div 4096 \in Span(256, 271)
      BY <3>3
    <3>. QED
      BY <3>4
  <2>. HIDE DEF a, b, d, e
  <2> DEFINE u == <<a, b, d, e>>
  <2>7. /\ u \in Seq(Byte) /\ 1 \in 1..Len(u) /\ Len(u) = 4
        /\ u[1] = a /\ u[2] = b
        /\ u[3] = d /\ u[4] = e
    BY <2>4, ByteIs DEF u
  <2>. HIDE DEF u
  <2>8. Four(u, 1)
    BY <2>4, <2>5, <2>6, <2>7 DEF Four
  <2>9. Width(u, 1) = 4
    BY <2>7, <2>8, WidthIs
  <2>. QED
    BY <2>1, <2>7, <2>9 DEF Character, u
<1>. QED
  BY <1>0, <1>1, <1>2, <1>3, <1>4

JsonSpec == JsonInit /\ [][JsonNext]_jsonvars

JsonType ==
  /\ given \in Seq(Byte) /\ c \in 1..(Len(given) + 1)
  /\ text \in Seq(Element) /\ cp \in Nat \ {0} /\ bytes \in Seq(Byte)
  /\ phase \in {"encode", "decode", "done", "invalid", "rejected"}

\* The characters of t that are not escaped are ASCII.
Ascii(t) == \A k \in DOMAIN t : t[k].kind = "char" => t[k].code < 128

\* What the encoder writes for a number.
LEMMA EscapedIs ==
  ASSUME NEW n \in Nat
  PROVE  Escaped(n) \in Seq(Element) /\ Ascii(Escaped(n))
<1>. USE DEF Span
<1>1. CASE n \in {34, 92}
  <2>1. Escaped(n) = <<Short(n)>>
    BY <1>1 DEF Escaped
  <2>2. Short(n) \in Element /\ Short(n).kind = "short"
    BY <1>1, ByteIs DEF Short, Element
  <2>. QED
    BY <2>1, <2>2 DEF Ascii
<1>2. CASE n \in Span(32, 127) /\ n \notin {34, 92}
  <2>1. Escaped(n) = <<Char(n)>>
    BY <1>2 DEF Escaped
  <2>2. Char(n) \in Element /\ Char(n).code < 128
    BY <1>2, ByteIs DEF Char, Element
  <2>. QED
    BY <2>1, <2>2 DEF Ascii
<1>3. CASE n < 32 \/ (n > 127 /\ n < 65536)
  <2>1. Escaped(n) = <<Hex(n)>>
    BY <1>3 DEF Escaped
  <2>2. Hex(n) \in Element /\ Hex(n).kind = "hex"
    BY <1>3 DEF Hex, Element, Below
  <2>. QED
    BY <2>1, <2>2 DEF Ascii
<1>4. CASE n >= 65536
  <2> DEFINE a == ((n - 65536) \div 1024 + 55296) % 65536
             b == ((n - 65536) % 1024) + 56320
  <2>1. Escaped(n) = <<Hex(a), Hex(b)>>
    BY <1>4, SMT DEF Escaped
  <2>2. a \in Span(0, 65535) /\ b \in Span(0, 65535)
    BY <1>4, SMT
  <2>. HIDE DEF a, b
  <2>3. /\ Hex(a) \in Element /\ Hex(a).kind = "hex"
        /\ Hex(b) \in Element /\ Hex(b).kind = "hex"
    BY <2>2 DEF Hex, Element, Below
  <2>. QED
    BY <2>1, <2>3 DEF Ascii
<1>. QED
  BY <1>1, <1>2, <1>3, <1>4

\* The numbers that codepoint puts together from two, three and four bytes.
Two64(g, p) == (g % 32) * 64 + p
Three64(g, p, q) == (g % 16) * 4096 + p * 64 + q
Four64(g, p, q, r) == (g % 8) * 262144 + p * 4096 + q * 64 + r

\* They are numbers where the bytes are.
LEMMA SumIs ==
  ASSUME NEW g \in Nat, NEW p \in Nat
  PROVE  /\ Two64(g, p) \in Nat
         /\ \A q \in Nat : Three64(g, p, q) \in Nat
         /\ \A q, r \in Nat : Four64(g, p, q, r) \in Nat
<1>1. g % 32 \in Nat /\ g % 16 \in Nat /\ g % 8 \in Nat
  OBVIOUS
<1> DEFINE a == g % 32
           b == g % 16
           d == g % 8
<1>. HIDE DEF a, b, d
<1>2. a \in Nat /\ b \in Nat /\ d \in Nat
  BY <1>1 DEF a, b, d
<1>3. /\ a * 64 + p \in Nat
      /\ \A q \in Nat : b * 4096 + p * 64 + q \in Nat
      /\ \A q, r \in Nat : d * 262144 + p * 4096 + q * 64 + r \in Nat
  BY <1>2, SMT
<1>. QED
  BY <1>3, SMT DEF a, b, d, Two64, Three64, Four64

\* The number that the encoder reads.
LEMMA CodepointIs ==
  ASSUME JsonType, NEW n, n = Lead(given[c]), c =< Len(given), Continued(n)
  PROVE  n \in 1..4 /\ c + n \in 1..(Len(given) + 1) /\ codepoint(n) \in Nat
<1>. USE DEF Span
<1>1. given \in Seq(Byte) /\ Len(given) \in Nat /\ c \in 1..Len(given)
  BY DEF JsonType
<1>2. given[c] \in Span(0, 255)
  BY <1>1, ByteIs
<1>2a. given[c] \in Nat
  BY <1>2
<1>3. n \in 0..4 /\ n > 0 /\ c + n - 1 =< Len(given)
  BY <1>2 DEF Lead, Continued
<1>4. \A k \in 0..(n - 1) : given[c + k] \in Span(0, 255)
  <2>1. \A k \in 0..(n - 1) : c + k \in 1..Len(given)
    BY <1>1, <1>3
  <2>. QED
    BY <1>1, <2>1, ByteIs
<1>5. \A k \in 0..(n - 1) : low6(k) \in Nat
  BY <1>4 DEF low6
<1>6. ASSUME n = 1 PROVE codepoint(n) \in Nat
  <2>1. codepoint(n) = given[c]
    BY <1>6, SMT DEF codepoint
  <2>. QED
    BY <1>2, <2>1
<1>7. ASSUME n = 2 PROVE codepoint(n) \in Nat
  <2>1. low6(1) \in Nat
    BY <1>5, <1>7
  <2>2. codepoint(n) = Two64(given[c], low6(1))
    BY <1>7, SMT DEF codepoint, Two64
  <2>3. Two64(given[c], low6(1)) \in Nat
    BY <1>2a, <2>1, SumIs
  <2>. QED
    BY <2>2, <2>3, SMT
<1>8. ASSUME n = 3 PROVE codepoint(n) \in Nat
  <2>1. low6(1) \in Nat /\ low6(2) \in Nat
    BY <1>5, <1>8
  <2>2. codepoint(n) = Three64(given[c], low6(1), low6(2))
    BY <1>8, SMT DEF codepoint, Three64
  <2>3. Three64(given[c], low6(1), low6(2)) \in Nat
    BY <1>2a, <2>1, SumIs
  <2>. QED
    BY <2>2, <2>3, SMT
<1>9. ASSUME n = 4 PROVE codepoint(n) \in Nat
  <2>1. low6(1) \in Nat /\ low6(3) \in Nat
    BY <1>5, <1>9
  <2>2. codepoint(n) = Four64(given[c], low6(1), low6(3), low6(3))
    BY <1>9, SMT DEF codepoint, Four64
  <2>3. Four64(given[c], low6(1), low6(3), low6(3)) \in Nat
    BY <1>2a, <2>1, SumIs
  <2>. QED
    BY <2>2, <2>3, SMT
<1>10. codepoint(n) \in Nat
  BY <1>3, <1>6, <1>7, <1>8, <1>9
<1>. QED
  BY <1>1, <1>3, <1>10

\* The text is ASCII if it comes from the encoder, and what has been decoded of such a
\* text is well-formed.
Sound ==
  /\ JsonType
  /\ Ascii(text) => WellFormed(bytes)
  /\ given # <<>> => Ascii(text)
  /\ phase = "encode" => bytes = <<>> /\ cp = 1

LEMMA SoundInit == JsonInit => Sound
<1>. USE DEF Span
<1>. SUFFICES ASSUME JsonInit PROVE Sound
  OBVIOUS
<1>1. given \in Seq(Byte) /\ text \in Seq(Element)
  <2>1. <<>> \in Seq(Byte) /\ <<>> \in Seq(Element)
    OBVIOUS
  <2>. QED
    BY <2>1, StringsOfBytes DEF JsonInit
<1>2. given # <<>> => text = <<>>
  BY DEF JsonInit
<1>3. Ascii(<<>>)
  BY DEF Ascii
<1>4. c = 1 /\ cp = 1 /\ bytes = <<>> /\ phase \in {"encode", "decode"} /\ <<>> \in Seq(Byte)
  BY DEF JsonInit
<1>5. Len(given) \in Nat
  BY <1>1
<1>. QED
  BY <1>1, <1>2, <1>3, <1>4, <1>5, EmptyWellFormed DEF Sound, JsonType

\* A character or escape is added to the text.
LEMMA EncodeSound == ASSUME Sound, EncodeOne PROVE Sound'
<1>. USE DEF Span
<1> DEFINE n == Lead(given[c])
           e == Escaped(codepoint(n))
<1>1. /\ phase = "encode" /\ c =< Len(given) /\ given' = given /\ cp' = cp /\ bytes' = bytes
      /\ given \in Seq(Byte) /\ text \in Seq(Element)
  BY DEF EncodeOne, Sound, JsonType
<1>2. CASE Continued(n)
  <2>1. text' = text \o e /\ c' = c + n /\ phase' = phase
    BY <1>2 DEF EncodeOne
  <2>2. c + n \in 1..(Len(given) + 1) /\ codepoint(n) \in Nat
    BY <1>1, <1>2, CodepointIs DEF Sound
  <2>3. e \in Seq(Element) /\ Ascii(e)
    BY <2>2, EscapedIs
  <2>. HIDE DEF n, e
  <2>4. text' \in Seq(Element)
    BY <1>1, <2>1, <2>3, JoinIs
  <2>5. given # <<>> => Ascii(text')
    <3>1. SUFFICES ASSUME Ascii(text) PROVE Ascii(text')
      BY DEF Sound
    <3>2. /\ Len(text') = Len(text) + Len(e)
          /\ \A i \in 1..Len(text) : text'[i] = text[i]
          /\ \A i \in (Len(text) + 1)..(Len(text) + Len(e)) : text'[i] = e[i - Len(text)]
      BY <1>1, <2>1, <2>3, JoinIs
    <3>3. ASSUME NEW i \in 1..Len(text'), text'[i].kind = "char" PROVE text'[i].code < 128
      <4>1. Len(text) \in Nat /\ Len(e) \in Nat /\ DOMAIN text = 1..Len(text) /\ DOMAIN e = 1..Len(e)
        BY <1>1, <2>3
      <4>2. CASE i \in 1..Len(text)
        BY <4>1, <4>2, <3>1, <3>2, <3>3 DEF Ascii
      <4>3. CASE i \notin 1..Len(text)
        <5>1. i \in (Len(text) + 1)..(Len(text) + Len(e)) /\ i - Len(text) \in 1..Len(e)
          BY <4>1, <4>3, <3>2
        <5>. QED
          BY <4>1, <5>1, <2>3, <3>2, <3>3 DEF Ascii
      <4>. QED
        BY <4>2, <4>3
    <3>4. DOMAIN text' = 1..Len(text')
      BY <2>4
    <3>. QED
      BY <3>3, <3>4 DEF Ascii
  <2>6. bytes' = <<>> /\ WellFormed(bytes')
    BY <1>1, EmptyWellFormed DEF Sound
  <2>. QED
    BY <1>1, <2>1, <2>2, <2>4, <2>5, <2>6 DEF Sound, JsonType
<1>3. CASE ~Continued(n)
  <2>1. phase' = "invalid" /\ text' = text /\ c' = c
    BY <1>3 DEF EncodeOne
  <2>. QED
    BY <1>1, <2>1 DEF Sound, JsonType
<1>. QED
  BY <1>2, <1>3

\* A character or escape is decoded.
LEMMA DecodeSound == ASSUME Sound, DecodeOne PROVE Sound'
<1>. USE DEF Span
<1> DEFINE t == text[cp]
<1>1. /\ phase = "decode" /\ cp =< Len(text) /\ given' = given /\ c' = c /\ text' = text
      /\ text \in Seq(Element) /\ bytes \in Seq(Byte) /\ cp \in 1..Len(text) /\ cp \in Nat \ {0}
  BY DEF DecodeOne, Sound, JsonType
<1>2. t \in Element
  BY <1>1
<1>3. \/ Reject
      \/ \E bs, n : /\ bs \in Seq(Byte) /\ n \in {1, 2} /\ Push(bs, n)
                    /\ (t.kind = "char" => t.code < 128) => Character(bs)
  <2>1. CASE t.kind = "char" /\ t.code >= 32 /\ Push(<<t.code>>, 1)
    <3>1. t.code \in Span(0, 255) /\ <<t.code>> \in Seq(Byte)
      BY <1>2, <2>1, ByteIs DEF Element
    <3>2. t.code < 128 => t.code \in Span(0, 127)
      BY <3>1
    <3>. QED
      BY <2>1, <3>1, <3>2, AsciiIs
  <2>2. CASE t.kind = "short" /\ t.code \in {8, 9, 10, 12, 13, 34, 47, 92} /\ Push(<<t.code>>, 1)
    <3>1. t.code \in Span(0, 127)
      BY <2>2
    <3>2. Character(<<t.code>>)
      BY <3>1, AsciiIs
    <3>. QED
      BY <2>2, <3>2 DEF Character
  <2>3. CASE t.kind = "hex" /\ DecodeHex(t.code)
    <3>1. t.code \in Span(0, 65535)
      BY <1>2, <2>3 DEF Element, Below
    <3>2. CASE High(t.code) /\ cp < Len(text) /\ text[cp + 1].kind = "hex" /\ Low(text[cp + 1].code)
      <4> DEFINE m == (t.code - 55296) * 1024 + (text[cp + 1].code - 56320) + 65536
      <4>1. Push(Utf8Bytes(m), 2)
        BY <2>3, <3>2 DEF DecodeHex
      <4>2. t.code \in Span(55296, 56319) /\ text[cp + 1].code \in Span(56320, 57343)
        <5>1. cp + 1 \in 1..Len(text)
          BY <1>1, <3>2
        <5>2. text[cp + 1] \in Element /\ text[cp + 1].kind = "hex"
          BY <1>1, <3>2, <5>1
        <5>3. text[cp + 1].code \in Int
          BY <5>2 DEF Element, Below
        <5>. QED
          BY <3>1, <3>2, <5>3 DEF High, Low
      <4>3. m \in Span(65536, 1114111)
        BY <4>2, SMT
      <4>. HIDE DEF m
      <4>4. Character(Utf8Bytes(m))
        BY <4>3, Utf8BytesIs DEF Scalar, High, Low
      <4>. QED
        BY <4>1, <4>4 DEF Character
    <3>3. CASE ~(High(t.code) /\ cp < Len(text) /\ text[cp + 1].kind = "hex" /\ Low(text[cp + 1].code))
      <4>1. CASE High(t.code) \/ Low(t.code)
        BY <2>3, <3>3, <4>1 DEF DecodeHex
      <4>2. CASE ~(High(t.code) \/ Low(t.code))
        <5>1. Push(Utf8Bytes(t.code), 1)
          BY <2>3, <3>3, <4>2 DEF DecodeHex
        <5>2. Character(Utf8Bytes(t.code))
          BY <3>1, <4>2, Utf8BytesIs DEF Scalar
        <5>. QED
          BY <5>1, <5>2 DEF Character
      <4>. QED
        BY <4>1, <4>2
    <3>. QED
      BY <3>2, <3>3
  <2>. QED
    BY <2>1, <2>2, <2>3 DEF DecodeOne
<1>4. CASE Reject
  <2>1. phase' = "rejected" /\ bytes' = bytes /\ cp' = cp
    BY <1>4 DEF Reject
  <2>. QED
    BY <1>1, <2>1 DEF Sound, JsonType
<1>5. ASSUME NEW bs, NEW n, bs \in Seq(Byte), n \in {1, 2}, Push(bs, n),
             (t.kind = "char" => t.code < 128) => Character(bs)
      PROVE  Sound'
  <2>1. bytes' = bytes \o bs /\ cp' = cp + n /\ phase' = phase
    BY <1>5 DEF Push
  <2>2. bytes' \in Seq(Byte) /\ cp' \in Nat \ {0}
    BY <1>1, <1>5, <2>1, JoinIs
  <2>3. ASSUME Ascii(text) PROVE WellFormed(bytes')
    <3>1. DOMAIN text = 1..Len(text)
      BY <1>1
    <3>2. Character(bs)
      BY <1>1, <1>5, <2>3, <3>1 DEF Ascii
    <3>3. WellFormed(bytes)
      BY <2>3 DEF Sound
    <3>. QED
      BY <1>1, <2>1, <3>2, <3>3, AppendCharacter
  <2>. QED
    BY <1>1, <2>1, <2>2, <2>3 DEF Sound, JsonType
<1>. QED
  BY <1>3, <1>4, <1>5

LEMMA SoundStep == Sound /\ [JsonNext]_jsonvars => Sound'
<1>. SUFFICES ASSUME Sound, [JsonNext]_jsonvars PROVE Sound'
  OBVIOUS
<1>1. CASE EncodeOne
  BY <1>1, EncodeSound
<1>2. CASE Encoded
  BY <1>2 DEF Encoded, Sound, JsonType
<1>3. CASE DecodeOne
  BY <1>3, DecodeSound
<1>4. CASE Decoded
  BY <1>4 DEF Decoded, Sound, JsonType
<1>5. CASE UNCHANGED jsonvars
  BY <1>5 DEF jsonvars, Sound, JsonType
<1>. QED
  BY <1>1, <1>2, <1>3, <1>4, <1>5 DEF JsonNext

\* What decode_string returns is UTF-8 if the characters of the text that are not escaped
\* are ASCII, which those of the encoder are; so no malformed string comes back as it was.
THEOREM Utf8Delivered == JsonSpec => []DeliversUtf8
<1>1. Sound => DeliversUtf8
  <2>. SUFFICES ASSUME Sound PROVE DeliversUtf8
    OBVIOUS
  <2>1. Ascii(text) => WellFormed(bytes)
    BY DEF Sound
  <2>2. ~WellFormed(given) => bytes # given
    <3>1. SUFFICES ASSUME ~WellFormed(given) PROVE WellFormed(bytes)
      OBVIOUS
    <3>2. given # <<>>
      BY <3>1, EmptyWellFormed
    <3>. QED
      BY <2>1, <3>2 DEF Sound
  <2>. QED
    BY <2>1, <2>2 DEF DeliversUtf8, Ascii
<1>. QED
  BY <1>1, SoundInit, SoundStep, PTL DEF JsonSpec

\* What is decoded of one character or escape.
Meaning(t) == IF t.kind = "hex" THEN Utf8Bytes(t.code) ELSE <<t.code>>

\* t is decoded to the bytes of s from i up to j.
Gives(t, s, i, j) ==
  /\ t.kind = "hex" => Scalar(t.code)
  /\ t.kind = "char" => t.code >= 32
  /\ t.kind = "short" => t.code \in {34, 92}
  /\ Meaning(t) \in Seq(Byte) /\ j = i + Len(Meaning(t)) /\ j =< Len(s) + 1
  /\ \A m \in 1..Len(Meaning(t)) : Meaning(t)[m] = s[i + m - 1]

\* What is written for an ASCII number, and read from its escape.
LEMMA EscapedAs ==
  ASSUME NEW n \in Nat, n < 128
  PROVE  /\ n \in {34, 92} => Escaped(n) = <<Short(n)>>
         /\ 32 =< n /\ n \notin {34, 92} => Escaped(n) = <<Char(n)>>
         /\ n < 32 => Escaped(n) = <<Hex(n)>>
         /\ Utf8Bytes(n) = <<n>>
<1>1. CASE n \in {34, 92}
  <2>1. Escaped(n) = <<Short(n)>>
    BY <1>1, SMT DEF Escaped
  <2>2. Utf8Bytes(n) = <<n>>
    BY SMT DEF Utf8Bytes
  <2>. QED
    BY <1>1, <2>1, <2>2, SMT
<1>2. CASE 32 =< n /\ n \notin {34, 92}
  <2>1. Escaped(n) = <<Char(n)>>
    BY <1>2, SMT DEF Escaped
  <2>2. Utf8Bytes(n) = <<n>>
    BY SMT DEF Utf8Bytes
  <2>. QED
    BY <1>2, <2>1, <2>2, SMT
<1>3. CASE n < 32
  <2>1. Escaped(n) = <<Hex(n)>>
    BY <1>3, SMT DEF Escaped
  <2>2. Utf8Bytes(n) = <<n>>
    BY SMT DEF Utf8Bytes
  <2>. QED
    BY <1>3, <2>1, <2>2, SMT
<1>. QED
  BY <1>1, <1>2, <1>3, SMT

\* An ASCII byte comes back.
LEMMA OneBack ==
  ASSUME NEW s \in Seq(Byte), NEW i \in 1..Len(s), s[i] \in Span(0, 127)
  PROVE  \E t \in Element : Escaped(s[i]) = <<t>> /\ Gives(t, s, i, i + 1)
<1>. USE DEF Span
<1> DEFINE n == s[i]
<1>1. n \in Span(0, 127) /\ <<n>> \in Seq(Byte) /\ Len(<<n>>) = 1 /\ <<n>>[1] = n
  BY ByteIs
<1>2. i + 1 =< Len(s) + 1 /\ i + 1 - 1 = i /\ i \in Nat
  OBVIOUS
<1>3. ASSUME NEW t, Meaning(t) = <<n>> PROVE
        /\ Meaning(t) \in Seq(Byte) /\ i + 1 = i + Len(Meaning(t)) /\ i + 1 =< Len(s) + 1
        /\ \A m \in 1..Len(Meaning(t)) : Meaning(t)[m] = s[i + m - 1]
  <2>1. \A m \in 1..1 : m = 1
    OBVIOUS
  <2>. HIDE DEF n
  <2>2. n = s[i]
    BY DEF n
  <2>. QED
    BY <1>1, <1>2, <1>3, <2>1, <2>2
<1>. HIDE DEF n
<1>a. n \in Nat /\ n < 128
  BY <1>1
<1>4. CASE n \in {34, 92}
  <2>1. Escaped(n) = <<Short(n)>>
    BY <1>4, <1>a, EscapedAs
  <2>2. Short(n) \in Element /\ Short(n).kind = "short" /\ Short(n).code = n
    BY <1>1, ByteIs DEF Short, Element
  <2>3. Meaning(Short(n)) = <<n>>
    BY <2>2 DEF Meaning
  <2>4. Gives(Short(n), s, i, i + 1)
    BY <1>3, <1>4, <2>2, <2>3 DEF Gives
  <2>. QED
    BY <2>1, <2>2, <2>4 DEF n
<1>5. CASE n \in Span(32, 127) /\ n \notin {34, 92}
  <2>1. Escaped(n) = <<Char(n)>>
    BY <1>5, <1>a, EscapedAs
  <2>2. Char(n) \in Element /\ Char(n).kind = "char" /\ Char(n).code = n
    BY <1>1, ByteIs DEF Char, Element
  <2>3. Meaning(Char(n)) = <<n>>
    BY <2>2 DEF Meaning
  <2>4. Gives(Char(n), s, i, i + 1)
    BY <1>3, <1>5, <2>2, <2>3 DEF Gives
  <2>. QED
    BY <2>1, <2>2, <2>4 DEF n
<1>6. CASE n < 32
  <2>1. Escaped(n) = <<Hex(n)>>
    BY <1>6, <1>a, EscapedAs
  <2>2. Hex(n) \in Element /\ Hex(n).kind = "hex" /\ Hex(n).code = n
    BY <1>1 DEF Hex, Element, Below
  <2>3. Meaning(Hex(n)) = <<n>> /\ Scalar(n)
    <3>1. Utf8Bytes(n) = <<n>>
      BY <1>a, EscapedAs
    <3>2. Scalar(n)
      BY <1>1, <1>6, SMT DEF Scalar, High, Low
    <3>. QED
      BY <2>2, <3>1, <3>2 DEF Meaning
  <2>4. Gives(Hex(n), s, i, i + 1)
    BY <1>3, <2>2, <2>3 DEF Gives
  <2>. QED
    BY <2>1, <2>2, <2>4 DEF n
<1>. QED
  BY <1>1, <1>4, <1>5, <1>6

\* The numbers beyond ASCII that one escape stands for.
Basic(n) == n \in Span(128, 65535) /\ Scalar(n)

\* A number beyond ASCII comes back as its bytes.
LEMMA HexBack ==
  ASSUME NEW s \in Seq(Byte), NEW i \in 1..Len(s), NEW n, Basic(n),
         NEW l \in Nat, l = Len(Utf8Bytes(n)), i + l =< Len(s) + 1,
         \A m \in 1..l : Utf8Bytes(n)[m] = s[i + m - 1]
  PROVE  \E t \in Element : Escaped(n) = <<t>> /\ Gives(t, s, i, i + l)
<1>. USE DEF Span
<1>0. n \in Nat /\ 128 =< n /\ n < 65536 /\ n \notin {34, 92} /\ Scalar(n)
  BY SMT DEF Basic
<1>1. Escaped(n) = <<Hex(n)>>
  BY <1>0, SMT DEF Escaped
<1>2. Hex(n) \in Element /\ Hex(n).kind = "hex" /\ Hex(n).code = n
  BY <1>0, SMT DEF Hex, Element, Below
<1>3. Meaning(Hex(n)) = Utf8Bytes(n)
  BY <1>2 DEF Meaning
<1>4. Utf8Bytes(n) \in Seq(Byte)
  BY <1>0, Utf8BytesIs DEF Character
<1>5. Gives(Hex(n), s, i, i + l)
  BY <1>0, <1>2, <1>3, <1>4 DEF Gives
<1>. QED
  BY <1>1, <1>2, <1>5

\* The length by the lead byte.
LEMMA LeadIs ==
  ASSUME NEW b \in Nat
  PROVE  /\ b < 128 => Lead(b) = 1
         /\ 128 =< b /\ b < 224 => Lead(b) = 2
         /\ 224 =< b /\ b < 240 => Lead(b) = 3
<1>1. ASSUME b < 128 PROVE Lead(b) = 1
  BY <1>1, SMT DEF Lead
<1>2. ASSUME 128 =< b, b < 224 PROVE Lead(b) = 2
  BY <1>2, SMT DEF Lead
<1>3. ASSUME 224 =< b, b < 240 PROVE Lead(b) = 3
  BY <1>3, SMT DEF Lead
<1>. QED
  BY <1>1, <1>2, <1>3

\* The numbers of the characters of two bytes, and of three.
LEMMA TwoNumber ==
  ASSUME NEW a \in Span(194, 223), NEW b \in Span(128, 191), NEW m, m = (a % 32) * 64 + (b % 64)
  PROVE  /\ Lead(a) = 2 /\ b \div 64 = 2
         /\ m \in Span(128, 2047) /\ Utf8Bytes(m) = <<a, b>>
<1>. USE DEF Span
<1>1. Lead(a) = 2
  BY LeadIs, SMT
<1>2. b \div 64 = 2
  BY SMT
<1> DEFINE p == a - 192
           q == b - 128
<1>3. p \in Span(2, 31) /\ q \in Span(0, 63)
  BY SMT
<1>4. a % 32 = p /\ b % 64 = q
  BY SMT
<1>5. a = 192 + p /\ b = 128 + q
  BY SMT
<1>. HIDE DEF p, q
<1>6. m = p * 64 + q
  BY <1>4, SMT
<1>7. m \div 64 = p /\ m % 64 = q /\ m \in Span(128, 2047)
  BY <1>3, <1>6, SMT
<1>8. p % 32 = p
  BY <1>3, SMT
<1>9. ~(m < 128) /\ 128 =< m /\ m < 2048
  BY <1>7, SMT
<1>10. Utf8Bytes(m) = <<192 + ((m \div 64) % 32), 128 + (m % 64)>>
  BY <1>9, SMT DEF Utf8Bytes
<1>11. Utf8Bytes(m) = <<a, b>>
  BY <1>5, <1>7, <1>8, <1>10, SMT
<1>. QED
  BY <1>1, <1>2, <1>7, <1>11, SMT

LEMMA ThreeNumber ==
  ASSUME NEW a \in Span(224, 239), NEW b \in Span(128, 191), NEW d \in Span(128, 191),
         a = 224 => b >= 160, a = 237 => b =< 159,
         NEW m, m = (a % 16) * 4096 + (b % 64) * 64 + (d % 64)
  PROVE  /\ Lead(a) = 3 /\ b \div 64 = 2 /\ d \div 64 = 2
         /\ m \in Span(2048, 65535) /\ Scalar(m) /\ Utf8Bytes(m) = <<a, b, d>>
<1>. USE DEF Span
<1>1. Lead(a) = 3
  BY LeadIs, SMT
<1>2. b \div 64 = 2 /\ d \div 64 = 2
  BY SMT
<1> DEFINE p == a - 224
           q == b - 128
           r == d - 128
<1>3. p \in Span(0, 15) /\ q \in Span(0, 63) /\ r \in Span(0, 63)
  BY SMT
<1>4. a % 16 = p /\ b % 64 = q /\ d % 64 = r
  BY SMT
<1>5. a = 224 + p /\ b = 128 + q /\ d = 128 + r
  BY SMT
<1>6. (p = 0 => q >= 32) /\ (p = 13 => q =< 31)
  BY SMT
<1>. HIDE DEF p, q, r
<1>7. m = p * 4096 + q * 64 + r
  BY <1>4, SMT
<1>8. m \div 4096 = p
  BY <1>3, <1>7, SMT
<1>9. m \div 64 = 64 * p + q /\ m % 64 = r
  BY <1>3, <1>7, SMT
<1>10. (64 * p + q) % 64 = q /\ p % 16 = p
  BY <1>3, SMT
<1>11. m \in Span(2048, 65535)
  BY <1>3, <1>6, <1>7, SMT
<1>12. m \notin Span(55296, 57343)
  BY <1>3, <1>6, <1>7, SMT
<1>13. Scalar(m)
  BY <1>11, <1>12, SMT DEF Scalar, High, Low
<1>14. ~(m < 128) /\ ~(m < 2048) /\ 2048 =< m /\ m < 65536
  BY <1>11, SMT
<1>15. Utf8Bytes(m) = <<224 + ((m \div 4096) % 16), 128 + ((m \div 64) % 64), 128 + (m % 64)>>
  BY <1>14, SMT DEF Utf8Bytes
<1>16. Utf8Bytes(m) = <<a, b, d>>
  BY <1>5, <1>8, <1>9, <1>10, <1>15, SMT
<1>. QED
  BY <1>1, <1>2, <1>11, <1>13, <1>16, SMT

\* A well-formed character of the basic plane is read by the encoder and comes back.
LEMMA CharacterBack ==
  ASSUME JsonType, c =< Len(given), Width(given, c) > 0, given[c] < 240
  PROVE  LET n == Lead(given[c])
         IN /\ Continued(n) /\ n = Width(given, c)
            /\ \E t \in Element : Escaped(codepoint(n)) = <<t>> /\ Gives(t, given, c, c + n)
<1>. USE DEF Span
<1> DEFINE n == Lead(given[c])
           w == Width(given, c)
<1>1. given \in Seq(Byte) /\ Len(given) \in Nat /\ c \in 1..Len(given) /\ c \in Nat
  BY DEF JsonType
<1>2. given[c] \in Span(0, 255)
  BY <1>1, ByteIs
<1>3. w \in {1, 2, 3}
  <2>1. w \in 0..4 /\ ~Four(given, c) /\ (w = 4 <=> Four(given, c))
    BY <1>1, <1>2, WidthIs DEF Four
  <2>. QED
    BY <2>1
<1>4. CASE w = 1
  <2>1. given[c] \in Span(0, 127)
    BY <1>1, <1>4, WidthIs DEF One
  <2>2. n = 1
    BY <2>1, LeadIs
  <2>3. Continued(1)
    BY <1>1 DEF Continued
  <2>4. codepoint(1) = given[c]
    BY SMT DEF codepoint
  <2>. QED
    BY <1>1, <1>4, <2>1, <2>2, <2>3, <2>4, OneBack
<1>5. CASE w = 2
  <2> DEFINE a == given[c]
             b == given[c + 1]
             m == (a % 32) * 64 + (b % 64)
  <2>1. c + 1 =< Len(given) /\ a \in Span(194, 223) /\ b \in Span(128, 191)
    BY <1>1, <1>5, WidthIs DEF Two
  <2>2. codepoint(2) = m
    BY SMT DEF codepoint, low6
  <2>3. Lead(a) = 2 /\ b \div 64 = 2 /\ m \in Span(128, 2047) /\ Utf8Bytes(m) = <<a, b>>
    <3>. HIDE DEF a, b
    <3>1. m = (a % 32) * 64 + (b % 64)
      OBVIOUS
    <3>. HIDE DEF m, Span
    <3>. QED
      BY <2>1, <3>1, TwoNumber, SMT
  <2>4. Continued(2)
    <3>1. \A k \in 1..(2 - 1) : k = 1
      OBVIOUS
    <3>. QED
      BY <1>1, <2>1, <2>3, <3>1 DEF Continued
  <2>5. c + 1 - 1 = c /\ c + 2 - 1 = c + 1 /\ c + 2 =< Len(given) + 1
    BY <1>1, <2>1
  <2>6. given[c + 1 - 1] = a /\ given[c + 2 - 1] = b
    BY <2>5
  <2>7. n = 2
    BY <2>3
  <2>. HIDE DEF m, a, b, n
  <2>8. Basic(m)
    BY <2>3, SMT DEF Basic, Scalar, High, Low
  <2>9. Len(<<a, b>>) = 2 /\ \A k \in 1..2 : <<a, b>>[k] = given[c + k - 1]
    <3>1. \A k \in 1..2 : k = 1 \/ k = 2
      OBVIOUS
    <3>. QED
      BY <2>6, <3>1
  <2>10. \E t \in Element : Escaped(m) = <<t>> /\ Gives(t, given, c, c + 2)
    <3>1. PICK l \in Nat : l = 2
      OBVIOUS
    <3>2. /\ l = Len(Utf8Bytes(m)) /\ c + l =< Len(given) + 1
          /\ \A k \in 1..l : Utf8Bytes(m)[k] = given[c + k - 1]
      BY <2>3, <2>5, <2>9, <3>1
    <3>. HIDE DEF Span
    <3>3. \E t \in Element : Escaped(m) = <<t>> /\ Gives(t, given, c, c + l)
      BY <1>1, <2>8, <3>2, HexBack
    <3>. QED
      BY <3>1, <3>3
  <2>. QED
    BY <1>5, <2>2, <2>4, <2>7, <2>10 DEF n
<1>6. CASE w = 3
  <2> DEFINE a == given[c]
             b == given[c + 1]
             d == given[c + 2]
             m == (a % 16) * 4096 + (b % 64) * 64 + (d % 64)
  <2>1. /\ c + 2 =< Len(given) /\ a \in Span(224, 239)
        /\ b \in Span(128, 191) /\ d \in Span(128, 191)
        /\ a = 224 => b >= 160
        /\ a = 237 => b =< 159
    BY <1>1, <1>6, WidthIs DEF Three
  <2>2. codepoint(3) = m
    BY SMT DEF codepoint, low6
  <2>3. /\ Lead(a) = 3 /\ b \div 64 = 2 /\ d \div 64 = 2
        /\ m \in Span(2048, 65535) /\ Scalar(m) /\ Utf8Bytes(m) = <<a, b, d>>
    <3>. HIDE DEF a, b, d
    <3>1. m = (a % 16) * 4096 + (b % 64) * 64 + (d % 64)
      OBVIOUS
    <3>. HIDE DEF m, Span
    <3>. QED
      BY <2>1, <3>1, ThreeNumber, SMT
  <2>4. Continued(3)
    <3>1. \A k \in 1..(3 - 1) : k = 1 \/ k = 2
      OBVIOUS
    <3>. QED
      BY <1>1, <2>1, <2>3, <3>1 DEF Continued
  <2>5. /\ c + 1 - 1 = c /\ c + 2 - 1 = c + 1 /\ c + 3 - 1 = c + 2
        /\ c + 3 =< Len(given) + 1
    BY <1>1, <2>1
  <2>6. given[c + 1 - 1] = a /\ given[c + 2 - 1] = b /\ given[c + 3 - 1] = d
    BY <2>5
  <2>7. n = 3
    BY <2>3
  <2>. HIDE DEF m, a, b, d, n
  <2>8. Basic(m)
    BY <2>3, SMT DEF Basic
  <2>9. Len(<<a, b, d>>) = 3 /\ \A k \in 1..3 : <<a, b, d>>[k] = given[c + k - 1]
    <3>1. \A k \in 1..3 : k = 1 \/ k = 2 \/ k = 3
      OBVIOUS
    <3>. QED
      BY <2>6, <3>1
  <2>10. \E t \in Element : Escaped(m) = <<t>> /\ Gives(t, given, c, c + 3)
    <3>1. PICK l \in Nat : l = 3
      OBVIOUS
    <3>2. /\ l = Len(Utf8Bytes(m)) /\ c + l =< Len(given) + 1
          /\ \A k \in 1..l : Utf8Bytes(m)[k] = given[c + k - 1]
      BY <2>3, <2>5, <2>9, <3>1
    <3>. HIDE DEF Span
    <3>3. \E t \in Element : Escaped(m) = <<t>> /\ Gives(t, given, c, c + l)
      BY <1>1, <2>8, <3>2, HexBack
    <3>. QED
      BY <3>1, <3>3
  <2>. QED
    BY <1>6, <2>2, <2>4, <2>7, <2>10 DEF n
<1>. QED
  BY <1>3, <1>4, <1>5, <1>6

\* Where in given the characters and escapes of the text come from.
Marks(g) ==
  /\ g \in [1..(Len(text) + 1) -> 1..(Len(given) + 1)]
  /\ g[1] = 1 /\ g[Len(text) + 1] = c
  /\ \A k \in 1..Len(text) : Gives(text[k], given, g[k], g[k + 1])

\* What has been decoded is given up to the mark of the position.
Decodes(g) ==
  /\ Len(bytes) = g[cp] - 1
  /\ \A m \in 1..Len(bytes) : bytes[m] = given[m]

\* The encoder is at a boundary of given, and the decoder where the encoder was when it
\* wrote what comes next.
InStep ==
  /\ phase \in {"encode", "decode", "done"}
  /\ \E P : Boundaries(P, given) /\ c \in P
  /\ cp \in 1..(Len(text) + 1)
  /\ \E g : Marks(g) /\ Decodes(g)
  /\ phase = "encode" => cp = 1
  /\ phase # "encode" => c = Len(given) + 1
  /\ phase = "done" => cp = Len(text) + 1

Plain == WellFormed(given) /\ ~Astral(given) /\ given # <<>>

Returns == JsonType /\ (Plain => InStep)

LEMMA ReturnsInit == JsonInit => Returns
<1>. USE DEF Span
<1>. SUFFICES ASSUME JsonInit PROVE Returns
  OBVIOUS
<1>1. JsonType /\ given \in Seq(Byte)
  BY SoundInit DEF Sound, JsonType
<1>2. ASSUME Plain PROVE InStep
  <2>1. /\ text = <<>> /\ phase = "encode" /\ c = 1 /\ cp = 1 /\ bytes = <<>>
    BY <1>2 DEF JsonInit, Plain
  <2>2. PICK P : Boundaries(P, given) /\ 1 \in P
    BY <1>1, <1>2, WellFormedIs DEF Plain
  <2> DEFINE g == [k \in 1..1 |-> 1]
  <2>3. Len(text) = 0 /\ Len(bytes) = 0 /\ Len(given) \in Nat
    BY <1>1, <2>1
  <2>4. g \in [1..(Len(text) + 1) -> 1..(Len(given) + 1)] /\ g[1] = 1
    BY <2>3
  <2>. HIDE DEF g
  <2>5. Marks(g)
    BY <2>1, <2>3, <2>4 DEF Marks
  <2>6. Decodes(g)
    BY <2>1, <2>3, <2>4 DEF Decodes
  <2>. QED
    BY <2>1, <2>2, <2>3, <2>5, <2>6 DEF InStep
<1>. QED
  BY <1>1, <1>2 DEF Returns

\* The encoder writes a character or escape that gives what it has read.
LEMMA EncodeInStep ==
  ASSUME JsonType, Plain, InStep, EncodeOne, JsonType'
  PROVE  InStep'
<1>. USE DEF Span
<1>1. /\ phase = "encode" /\ c =< Len(given) /\ given' = given /\ cp' = cp /\ bytes' = bytes
      /\ cp = 1
  BY DEF EncodeOne, InStep
<1>2. given \in Seq(Byte) /\ c \in 1..Len(given) /\ text \in Seq(Element) /\ Len(given) \in Nat
  BY <1>1 DEF JsonType
<1>3. PICK P : Boundaries(P, given) /\ c \in P
  BY DEF InStep
<1>4. PICK g : Marks(g) /\ Decodes(g)
  BY DEF InStep
<1> DEFINE n == Lead(given[c])
<1>5. Width(given, c) > 0 /\ c + Width(given, c) \in P
  <2>1. ~(c > Len(given))
    BY <1>2
  <2>. QED
    BY <1>3, <2>1 DEF Boundaries
<1>6. given[c] < 240
  <2>1. ~(given[c] >= 240) /\ given[c] \in Span(0, 255)
    BY <1>2, ByteIs DEF Plain, Astral
  <2>. QED
    BY <2>1
<1>7. /\ Continued(n) /\ n = Width(given, c)
      /\ \E t \in Element : Escaped(codepoint(n)) = <<t>> /\ Gives(t, given, c, c + n)
  BY <1>1, <1>5, <1>6, CharacterBack
<1>8. PICK t \in Element : Escaped(codepoint(n)) = <<t>> /\ Gives(t, given, c, c + n)
  BY <1>7
<1>9. text' = text \o <<t>> /\ c' = c + n /\ phase' = "encode"
  BY <1>1, <1>7, <1>8 DEF EncodeOne
<1>. HIDE DEF n
<1> DEFINE l == Len(text)
           h == [k \in 1..(l + 2) |-> IF k = l + 2 THEN c + n ELSE g[k]]
<1>10. /\ l \in Nat /\ Len(text') = l + 1 /\ text'[l + 1] = t
       /\ \A k \in 1..l : text'[k] = text[k]
  BY <1>2, <1>9
<1>11. /\ g \in [1..(l + 1) -> 1..(Len(given) + 1)] /\ g[1] = 1 /\ g[l + 1] = c
       /\ \A k \in 1..l : Gives(text[k], given, g[k], g[k + 1])
  BY <1>4 DEF Marks
<1>. HIDE DEF l
<1>12. c + n \in 1..(Len(given) + 1)
  <2>1. c + n \in P /\ P \subseteq 1..(Len(given) + 1)
    BY <1>3, <1>5, <1>7 DEF Boundaries
  <2>. QED
    BY <2>1
<1>13. /\ h \in [1..((l + 1) + 1) -> 1..(Len(given) + 1)]
       /\ h[1] = 1 /\ h[(l + 1) + 1] = c + n
       /\ \A k \in 1..(l + 1) : h[k] = g[k]
  <2>1. (l + 1) + 1 = l + 2 /\ 1 # l + 2 /\ \A k \in 1..(l + 2) : k = l + 2 \/ k \in 1..(l + 1)
    BY <1>10
  <2>2. \A k \in 1..(l + 1) : k \in 1..(l + 2) /\ k # l + 2
    BY <1>10
  <2>3. l + 2 \in 1..(l + 2) /\ 1 \in 1..(l + 1)
    BY <1>10
  <2>. QED
    BY <1>11, <1>12, <2>1, <2>2, <2>3
<1>. HIDE DEF h
<1>a. PICK f :
        /\ f \in [1..((l + 1) + 1) -> 1..(Len(given) + 1)]
        /\ f[1] = 1 /\ f[(l + 1) + 1] = c + n
        /\ \A k \in 1..(l + 1) : f[k] = g[k]
  BY <1>13
<1>14. ASSUME NEW k \in 1..(l + 1) PROVE Gives(text'[k], given, f[k], f[k + 1])
  <2>1. CASE k = l + 1
    <3>1. f[k] = c /\ f[k + 1] = c + n
      BY <2>1, <1>10, <1>11, <1>a
    <3>. QED
      BY <2>1, <3>1, <1>8, <1>10
  <2>2. CASE k # l + 1
    <3>1. k \in 1..l /\ k + 1 \in 1..(l + 1) /\ k \in 1..(l + 1)
      BY <2>2, <1>10
    <3>. QED
      BY <3>1, <1>10, <1>11, <1>a
  <2>. QED
    BY <2>1, <2>2
<1>15. Marks(f)'
  <2>1. Len(text') + 1 = (l + 1) + 1 /\ given' = given /\ c' = c + n /\ Len(text') = l + 1
    BY <1>1, <1>9, <1>10
  <2>2. /\ f \in [1..(Len(text') + 1) -> 1..(Len(given') + 1)]
        /\ f[1] = 1 /\ f[Len(text') + 1] = c'
    BY <1>a, <2>1
  <2>3. \A k \in 1..Len(text') : Gives(text'[k], given', f[k], f[k + 1])
    BY <1>14, <2>1
  <2>. QED
    BY <2>2, <2>3 DEF Marks
<1>16. Decodes(f)'
  <2>1. 1 \in 1..(l + 1)
    BY <1>10
  <2>2. Len(bytes) = g[1] - 1 /\ \A m \in 1..Len(bytes) : bytes[m] = given[m]
    BY <1>1, <1>4 DEF Decodes
  <2>. QED
    BY <1>1, <1>a, <2>1, <2>2 DEF Decodes
<1>17. \E Q : Boundaries(Q, given') /\ c' \in Q
  BY <1>1, <1>3, <1>5, <1>7, <1>9
<1>18. cp' \in 1..(Len(text') + 1)
  BY <1>1, <1>10
<1>. QED
  BY <1>1, <1>9, <1>15, <1>16, <1>17, <1>18 DEF InStep

\* The decoder goes on to the next mark.
LEMMA DecodeInStep ==
  ASSUME JsonType, Plain, InStep, DecodeOne, JsonType'
  PROVE  InStep'
<1>. USE DEF Span
<1> DEFINE t == text[cp]
<1>1. /\ phase = "decode" /\ cp =< Len(text) /\ given' = given /\ c' = c /\ text' = text
      /\ text \in Seq(Element) /\ bytes \in Seq(Byte) /\ cp \in 1..Len(text)
  BY DEF DecodeOne, JsonType
<1>2. PICK g : Marks(g) /\ Decodes(g)
  BY DEF InStep
<1>3. Gives(t, given, g[cp], g[cp + 1]) /\ g[cp] \in 1..(Len(given) + 1) /\ t \in Element
  <2>1. cp \in 1..(Len(text) + 1)
    BY <1>1
  <2>2. /\ g \in [1..(Len(text) + 1) -> 1..(Len(given) + 1)]
        /\ \A k \in 1..Len(text) : Gives(text[k], given, g[k], g[k + 1])
    BY <1>2 DEF Marks
  <2>3. Gives(t, given, g[cp], g[cp + 1])
    BY <1>1, <2>2
  <2>4. g[cp] \in 1..(Len(given) + 1)
    BY <2>1, <2>2
  <2>5. t \in Element
    BY <1>1
  <2>. QED
    BY <2>3, <2>4, <2>5
<1>4. /\ t.kind = "hex" => Scalar(t.code)
      /\ t.kind = "char" => t.code >= 32
      /\ t.kind = "short" => t.code \in {34, 92}
      /\ Meaning(t) \in Seq(Byte) /\ g[cp + 1] = g[cp] + Len(Meaning(t))
      /\ \A m \in 1..Len(Meaning(t)) : Meaning(t)[m] = given[g[cp] + m - 1]
  BY <1>3 DEF Gives
<1>5. Push(Meaning(t), 1)
  <2>1. t.kind \in {"char", "short", "hex"} /\ t.code \in Int
    BY <1>3, ByteIs DEF Element, Below
  <2>2. CASE t.kind = "char"
    BY <1>4, <2>1, <2>2 DEF DecodeOne, Meaning
  <2>3. CASE t.kind = "short"
    BY <1>4, <2>1, <2>3 DEF DecodeOne, Meaning
  <2>4. CASE t.kind = "hex"
    <3>1. DecodeHex(t.code)
      BY <2>4 DEF DecodeOne
    <3>2. ~High(t.code) /\ ~Low(t.code)
      BY <1>4, <2>4, SMT DEF Scalar
    <3>. QED
      BY <2>4, <3>1, <3>2, SMT DEF DecodeHex, Meaning
  <2>. QED
    BY <2>1, <2>2, <2>3, <2>4
<1> DEFINE bs == Meaning(t)
           b == Len(bytes)
           w == Len(bs)
<1>6. bytes' = bytes \o bs /\ cp' = cp + 1 /\ phase' = phase
  BY <1>5 DEF Push
<1>7. /\ b \in Nat /\ w \in Nat /\ b = g[cp] - 1 /\ g[cp] \in Nat /\ g[cp + 1] = g[cp] + w
      /\ \A m \in 1..b : bytes[m] = given[m]
      /\ \A m \in 1..w : bs[m] = given[g[cp] + m - 1]
  BY <1>1, <1>2, <1>3, <1>4 DEF Decodes
<1>. HIDE DEF t
<1>8. /\ Len(bytes') = b + w
      /\ \A m \in 1..b : bytes'[m] = bytes[m]
      /\ \A m \in (b + 1)..(b + w) : bytes'[m] = bs[m - b]
  BY <1>1, <1>4, <1>6, JoinIs
<1>. HIDE DEF bs, b, w
<1>9. ASSUME NEW m \in 1..(b + w) PROVE bytes'[m] = given[m]
  <2>1. CASE m \in 1..b
    BY <2>1, <1>7, <1>8
  <2>2. CASE m \notin 1..b
    <3>1. m \in (b + 1)..(b + w) /\ m - b \in 1..w /\ g[cp] + (m - b) - 1 = m
      BY <2>2, <1>7
    <3>. QED
      BY <3>1, <1>7, <1>8
  <2>. QED
    BY <2>1, <2>2
<1>10. Decodes(g)'
  <2>1. b + w = g[cp + 1] - 1
    BY <1>7
  <2>. QED
    BY <1>1, <1>6, <1>8, <1>9, <2>1 DEF Decodes
<1>11. Marks(g)'
  BY <1>1, <1>2 DEF Marks
<1>12. cp' \in 1..(Len(text') + 1)
  BY <1>1, <1>6
<1>13. phase' = "decode"
  BY <1>1, <1>6
<1>14. c' = Len(given') + 1 /\ \E P : Boundaries(P, given') /\ c' \in P
  BY <1>1 DEF InStep
<1>. QED
  BY <1>10, <1>11, <1>12, <1>13, <1>14 DEF InStep

LEMMA ReturnsStep == Returns /\ Sound /\ Sound' /\ [JsonNext]_jsonvars => Returns'
<1>. SUFFICES ASSUME Returns, Sound, Sound', [JsonNext]_jsonvars PROVE Returns'
  OBVIOUS
<1>1. JsonType /\ JsonType'
  BY DEF Sound
<1>2. given' = given
  BY DEF JsonNext, EncodeOne, Encoded, DecodeOne, Decoded, jsonvars
<1>3. SUFFICES ASSUME Plain PROVE InStep'
  BY <1>1, <1>2 DEF Returns, Plain
<1>4. InStep
  BY <1>3 DEF Returns
<1>5. CASE EncodeOne
  BY <1>1, <1>3, <1>4, <1>5, EncodeInStep
<1>6. CASE Encoded
  <2>1. /\ phase = "encode" /\ c > Len(given) /\ phase' = "decode"
        /\ given' = given /\ c' = c /\ text' = text /\ cp' = cp /\ bytes' = bytes
    BY <1>6 DEF Encoded
  <2>2. c = Len(given) + 1
    BY <1>1, <2>1 DEF JsonType
  <2>. QED
    BY <1>4, <2>1, <2>2 DEF InStep, Marks, Decodes
<1>7. CASE DecodeOne
  BY <1>1, <1>3, <1>4, <1>7, DecodeInStep
<1>8. CASE Decoded
  <2>1. /\ phase = "decode" /\ cp > Len(text) /\ phase' = "done"
        /\ given' = given /\ c' = c /\ text' = text /\ cp' = cp /\ bytes' = bytes
    BY <1>8 DEF Decoded
  <2>2. cp = Len(text) + 1
    BY <1>1, <1>4, <2>1 DEF InStep, JsonType
  <2>. QED
    BY <1>4, <2>1, <2>2 DEF InStep, Marks, Decodes
<1>9. CASE UNCHANGED jsonvars
  BY <1>4, <1>9 DEF jsonvars, InStep, Marks, Decodes
<1>. QED
  BY <1>5, <1>6, <1>7, <1>8, <1>9 DEF JsonNext

\* A UTF-8 string of characters of the basic plane is accepted by the encoder, its text by
\* the decoder, and it comes back byte by byte.
THEOREM RoundTripHolds == JsonSpec => []RoundTrip
<1>. USE DEF Span
<1>1. Returns => RoundTrip
  <2>. SUFFICES ASSUME Returns, ~Astral(given), WellFormed(given)
                PROVE  /\ phase \notin {"invalid", "rejected"} \/ given = <<>>
                       /\ phase = "done" /\ given # <<>> => bytes = given
    BY DEF RoundTrip, RoundTripAll
  <2>1. SUFFICES ASSUME given # <<>>
                 PROVE  /\ phase \notin {"invalid", "rejected"}
                        /\ phase = "done" => bytes = given
    OBVIOUS
  <2>2. InStep /\ JsonType
    BY <2>1 DEF Returns, Plain
  <2>3. phase \notin {"invalid", "rejected"}
    BY <2>2 DEF InStep
  <2>4. ASSUME phase = "done" PROVE bytes = given
    <3>1. cp = Len(text) + 1 /\ c = Len(given) + 1
      BY <2>2, <2>4 DEF InStep
    <3>2. PICK g : Marks(g) /\ Decodes(g)
      BY <2>2 DEF InStep
    <3>3. bytes \in Seq(Byte) /\ given \in Seq(Byte) /\ Len(given) \in Nat
      BY <2>2 DEF JsonType
    <3>4. Len(bytes) = c - 1 /\ \A m \in 1..Len(bytes) : bytes[m] = given[m]
      BY <3>1, <3>2 DEF Marks, Decodes
    <3>5. Len(bytes) = Len(given)
      BY <3>1, <3>3, <3>4
    <3>. QED
      BY <3>3, <3>4, <3>5
  <2>. QED
    BY <2>3, <2>4
<1>. QED
  BY <1>1, ReturnsInit, ReturnsStep, SoundInit, SoundStep, PTL DEF JsonSpec
=============================================================================
