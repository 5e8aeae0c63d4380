--------------------------- MODULE ThreadsProofs ---------------------------
(***************************************************************************)
(* Theorems about Threads, for any threads, functions and messages.        *)
(***************************************************************************)
EXTENDS Threads, SequenceTheorems, FiniteSetTheorems, TLAPS

Alive == {"init", "waiting", "running", "leaving", "clearing"}
Young == {"none", "paired", "new", "init", "waiting"}

\* The count of a mailbox, and whether it exists.
Counted == \A b \in Threads : /\ IsFiniteSet(Holders(b))
                              /\ refCount[b] = Cardinality(Holders(b))
                              /\ b \in boxes <=> Holders(b) # {}

\* Which stages a pair lasts for.
Order ==
  /\ pc[Main] \in {"running", "clearing", "gone"} /\ pairs[Main] = {}
  /\ \A t \in Threads :
       /\ pc[t] # "crashed"
       /\ pc[t] = "none" => pairs[t] = {}
       /\ parent[t] # None => pc[parent[t]] \notin Young
       /\ t # Main /\ pc[t] \in {"paired", "new", "init", "waiting", "running", "leaving"}
            => parent[t] # None /\ "newbox" \in pairs[t]
       /\ t # Main /\ pc[t] \in {"new", "init", "waiting", "running"} => "original" \in pairs[t]
       /\ pc[t] \in {"clearing", "gone"} => pairs[t] = {}
       /\ pc[t] \in Young => runs[t] = None

\* While thread/new is under way.
Creating ==
  \A t \in Threads : creating[t] # None =>
    /\ parent[creating[t]] = t /\ pc[t] = "running" /\ pc[creating[t]] # "none"
    /\ <<t, creating[t], "child">> \in handles

\* Which objects there may be.
Objects ==
  \A h \in handles :
    /\ pc[h[1]] \in {"waiting", "running", "leaving", "clearing"}
    /\ pc[h[2]] # "none"
    /\ h[3] = "child" => parent[h[2]] = h[1]
    /\ h[3] = "parent" => parent[h[1]] = h[2]
    /\ h[3] \in {"current", "failed"} => h[1] = h[2] /\ pc[h[1]] \notin Young
    /\ h[3] = "current" => h[1] \in asked
    /\ h[3] = "failed" => pc[h[1]] \in {"leaving", "clearing"}

\* Nothing overtakes the function of a thread.
Inboxes ==
  \A c \in Threads : pc[c] \in Young /\ c \notin lost =>
    \/ inbox[c] = <<>> /\ (pc[c] = "none" \/ creating[parent[c]] = c)
    \/ inbox[c] # <<>> /\ Head(inbox[c])[1] = "worker"

Inv == TypeOK /\ Counted /\ Order /\ Creating /\ Objects /\ Inboxes /\ RunsItsFunction

-----------------------------------------------------------------------------
(* Counting *)

\* What it is to be a holder, before and after a step.
LEMMA HolderIs ==
  ASSUME NEW b, NEW x
  PROVE  /\ x \in Holders(b) <=>
              \/ x = <<"owner", b>> /\ pc[b] \in Alive
              \/ \E c \in Threads : x = <<"original", c>> /\ parent[c] = b /\ "original" \in pairs[c]
              \/ x = <<"newbox", b>> /\ "newbox" \in pairs[b]
              \/ \E h \in handles : x = <<"handle", h>> /\ h[2] = b
         /\ x \in Holders(b)' <=>
              \/ x = <<"owner", b>> /\ pc'[b] \in Alive
              \/ \E c \in Threads : x = <<"original", c>> /\ parent'[c] = b /\ "original" \in pairs'[c]
              \/ x = <<"newbox", b>> /\ "newbox" \in pairs'[b]
              \/ \E h \in handles' : x = <<"handle", h>> /\ h[2] = b
BY DEF Holders, Alive

\* A mailbox that somebody can reach is there.
LEMMA Reached ==
  ASSUME Counted
  PROVE  /\ \A t \in Threads : pc[t] \in Alive => t \in boxes
         /\ \A t \in Threads : "newbox" \in pairs[t] => t \in boxes
         /\ \A t \in Threads : parent[t] \in Threads /\ "original" \in pairs[t] => parent[t] \in boxes
         /\ \A h \in handles : h[2] \in Threads => h[2] \in boxes
<1>1. ASSUME NEW t \in Threads, pc[t] \in Alive PROVE t \in boxes
  <2>1. <<"owner", t>> \in Holders(t)
    BY <1>1, HolderIs
  <2> QED BY <2>1 DEF Counted
<1>2. ASSUME NEW t \in Threads, "newbox" \in pairs[t] PROVE t \in boxes
  <2>1. <<"newbox", t>> \in Holders(t)
    BY <1>2, HolderIs
  <2> QED BY <2>1 DEF Counted
<1>3. ASSUME NEW t \in Threads, parent[t] \in Threads, "original" \in pairs[t]
      PROVE  parent[t] \in boxes
  <2>1. <<"original", t>> \in Holders(parent[t])
    BY <1>3, HolderIs
  <2> QED BY <1>3, <2>1 DEF Counted
<1>4. ASSUME NEW h \in handles, h[2] \in Threads PROVE h[2] \in boxes
  <2>1. <<"handle", h>> \in Holders(h[2])
    BY <1>4, HolderIs
  <2> QED BY <1>4, <2>1 DEF Counted
<1> QED BY <1>1, <1>2, <1>3, <1>4

\* The types that counting needs.
CountType == refCount \in [Threads -> Nat] /\ boxes \subseteq Threads

\* A step that changes neither holders nor counts.
LEMMA CountSame ==
  ASSUME Counted, \A d \in Threads : Holders(d)' = Holders(d), UNCHANGED <<refCount, boxes>>
  PROVE  Counted'
BY DEF Counted

\* One more holder of a mailbox that exists.
LEMMA CountUp ==
  ASSUME Counted, CountType, NEW b \in boxes, NEW x, x \notin Holders(b),
         Holders(b)' = Holders(b) \cup {x},
         \A d \in Threads \ {b} : Holders(d)' = Holders(d), ref(b, 1)
  PROVE  Counted' /\ CountType'
<1>1. /\ b \in Threads /\ refCount[b] \in Nat
      /\ refCount[b] = Cardinality(Holders(b)) /\ IsFiniteSet(Holders(b))
  BY DEF Counted, CountType
<1>2. refCount' = [refCount EXCEPT ![b] = refCount[b] + 1]
  BY DEF ref
<1>3. boxes' = boxes
  <2>1. ~(refCount[b] + 1 =< 0)
    BY <1>1
  <2> QED BY <2>1 DEF ref
<1>4. IsFiniteSet(Holders(b)') /\ Cardinality(Holders(b)') = refCount[b] + 1
  BY <1>1, FS_AddElement
<1>5. CountType'
  <2>1. refCount[b] + 1 \in Nat
    BY <1>1
  <2> QED BY <1>2, <1>3, <2>1 DEF CountType
<1>6. ASSUME NEW d \in Threads
      PROVE  /\ IsFiniteSet(Holders(d)') /\ refCount'[d] = Cardinality(Holders(d)')
             /\ d \in boxes' <=> Holders(d)' # {}
  <2>1. CASE d = b
    BY <1>1, <1>2, <1>3, <1>4, <2>1 DEF CountType
  <2>2. CASE d # b
    BY <1>2, <1>3, <2>2 DEF Counted, CountType
  <2> QED BY <2>1, <2>2
<1> QED BY <1>5, <1>6 DEF Counted

\* One holder less; with the last one the mailbox goes.
CountDownOf(b) == /\ refCount' = [refCount EXCEPT ![b] = refCount[b] - 1]
                  /\ boxes' = IF refCount[b] =< 1 THEN boxes \ {b} ELSE boxes

LEMMA RefDown ==
  ASSUME CountType, NEW b \in Threads, ref(b, -1)
  PROVE  CountDownOf(b) /\ UNCHANGED <<closed, inbox>>
<1>1. refCount[b] \in Nat
  BY DEF CountType
<1>2. refCount[b] + (-1) = refCount[b] - 1 /\ (refCount[b] + (-1) =< 0 <=> refCount[b] =< 1)
  BY <1>1
<1> QED BY <1>2 DEF ref, CountDownOf

LEMMA CountDown ==
  ASSUME Counted, CountType, NEW b \in Threads, NEW x \in Holders(b),
         Holders(b)' = Holders(b) \ {x},
         \A d \in Threads \ {b} : Holders(d)' = Holders(d), CountDownOf(b)
  PROVE  Counted' /\ CountType'
<1>1. /\ refCount[b] \in Nat /\ b \in boxes
      /\ refCount[b] = Cardinality(Holders(b)) /\ IsFiniteSet(Holders(b))
  BY DEF Counted, CountType
<1>2. /\ refCount' = [refCount EXCEPT ![b] = refCount[b] - 1]
      /\ boxes' = IF refCount[b] =< 1 THEN boxes \ {b} ELSE boxes
  BY DEF CountDownOf
<1>3. IsFiniteSet(Holders(b)') /\ Cardinality(Holders(b)') = refCount[b] - 1
  BY <1>1, FS_RemoveElement
<1>4. refCount[b] - 1 \in Nat /\ (Holders(b)' = {} <=> refCount[b] = 1)
  <2>1. Cardinality(Holders(b)') \in Nat
    BY <1>3, FS_CardinalityType
  <2>2. Cardinality(Holders(b)') = 0 <=> Holders(b)' = {}
    BY <1>3, FS_EmptySet
  <2> QED BY <1>1, <1>3, <2>1, <2>2
<1>5. CountType'
  BY <1>2, <1>4 DEF CountType
<1>6. ASSUME NEW d \in Threads
      PROVE  /\ IsFiniteSet(Holders(d)') /\ refCount'[d] = Cardinality(Holders(d)')
             /\ d \in boxes' <=> Holders(d)' # {}
  <2>1. CASE d = b
    <3>1. refCount[b] =< 1 <=> refCount[b] = 1
      BY <1>1, <1>4
    <3> QED BY <1>1, <1>2, <1>3, <1>4, <2>1, <3>1 DEF CountType
  <2>2. CASE d # b
    BY <1>2, <2>2 DEF Counted, CountType
  <2> QED BY <2>1, <2>2
<1> QED BY <1>5, <1>6 DEF Counted

-----------------------------------------------------------------------------
(* What a step does to the holders. *)

SameOwners == \A d \in Threads : pc'[d] \in Alive <=> pc[d] \in Alive
SamePairs == UNCHANGED <<parent, pairs>>

LEMMA HoldersSame ==
  ASSUME SameOwners, SamePairs, UNCHANGED handles, NEW d \in Threads
  PROVE  Holders(d)' = Holders(d)
<1>1. \A x : x \in Holders(d)' <=> x \in Holders(d)
  BY HolderIs DEF SameOwners, SamePairs
<1> QED BY <1>1

\* An object is made, or gives up its mailbox.
LEMMA HandleUp ==
  ASSUME Counted, CountType, SameOwners, SamePairs, NEW h, h \notin handles, h[2] \in boxes,
         handles' = handles \cup {h}, ref(h[2], 1)
  PROVE  Counted' /\ CountType'
<1> DEFINE b == h[2]
           x == <<"handle", h>>
<1>1. x \notin Holders(b)
  BY HolderIs
<1>2. Holders(b)' = Holders(b) \cup {x}
  <2>1. b \in Threads
    BY DEF CountType
  <2>2. \A y : y \in Holders(b)' <=> y \in Holders(b) \/ y = x
    BY <2>1, HolderIs DEF SameOwners, SamePairs
  <2> QED BY <2>2
<1>3. ASSUME NEW d \in Threads \ {b} PROVE Holders(d)' = Holders(d)
  <2>1. \A y : y \in Holders(d)' <=> y \in Holders(d)
    BY HolderIs DEF SameOwners, SamePairs
  <2> QED BY <2>1
<1> QED BY <1>1, <1>2, <1>3, CountUp

LEMMA HandleDown ==
  ASSUME Counted, CountType, SameOwners, SamePairs, NEW h \in handles, h[2] \in Threads,
         handles' = handles \ {h}, ref(h[2], -1)
  PROVE  Counted' /\ CountType'
<1> DEFINE b == h[2]
           x == <<"handle", h>>
<1>1. x \in Holders(b)
  BY HolderIs
<1>2. Holders(b)' = Holders(b) \ {x}
  <2>1. \A y : y \in Holders(b)' <=> y \in Holders(b) /\ y # x
    BY HolderIs DEF SameOwners, SamePairs
  <2> QED BY <2>1
<1>3. ASSUME NEW d \in Threads \ {b} PROVE Holders(d)' = Holders(d)
  <2>1. \A y : y \in Holders(d)' <=> y \in Holders(d)
    BY HolderIs DEF SameOwners, SamePairs
  <2> QED BY <2>1
<1>4. CountDownOf(b)
  BY RefDown
<1> QED BY <1>1, <1>2, <1>3, <1>4, CountDown

\* A thread takes its own mailbox, or leaves it.
LEMMA OwnerUp ==
  ASSUME Counted, CountType, NEW c \in boxes, pc[c] \notin Alive, pc'[c] \in Alive,
         \A d \in Threads \ {c} : pc'[d] \in Alive <=> pc[d] \in Alive,
         SamePairs, UNCHANGED handles, ref(c, 1)
  PROVE  Counted' /\ CountType'
<1> DEFINE x == <<"owner", c>>
<1>1. x \notin Holders(c)
  BY HolderIs
<1>2. Holders(c)' = Holders(c) \cup {x}
  <2>1. \A y : y \in Holders(c)' <=> y \in Holders(c) \/ y = x
    BY HolderIs DEF SamePairs
  <2> QED BY <2>1
<1>3. ASSUME NEW d \in Threads \ {c} PROVE Holders(d)' = Holders(d)
  <2>1. \A y : y \in Holders(d)' <=> y \in Holders(d)
    BY HolderIs DEF SamePairs
  <2> QED BY <2>1
<1> QED BY <1>1, <1>2, <1>3, CountUp

LEMMA OwnerDown ==
  ASSUME Counted, CountType, NEW c \in Threads, pc[c] \in Alive, pc'[c] \notin Alive,
         \A d \in Threads \ {c} : pc'[d] \in Alive <=> pc[d] \in Alive,
         SamePairs, UNCHANGED handles, CountDownOf(c)
  PROVE  Counted' /\ CountType'
<1> DEFINE x == <<"owner", c>>
<1>1. x \in Holders(c)
  BY HolderIs
<1>2. Holders(c)' = Holders(c) \ {x}
  <2>1. \A y : y \in Holders(c)' <=> y \in Holders(c) /\ y # x
    BY HolderIs DEF SamePairs
  <2> QED BY <2>1
<1>3. ASSUME NEW d \in Threads \ {c} PROVE Holders(d)' = Holders(d)
  <2>1. \A y : y \in Holders(d)' <=> y \in Holders(d)
    BY HolderIs DEF SamePairs
  <2> QED BY <2>1
<1> QED BY <1>1, <1>2, <1>3, CountDown

\* The two halves of destroy_mailbox_pair.
LEMMA OriginalDown ==
  ASSUME Counted, CountType, TypeOK, SameOwners, NEW c \in Threads, parent[c] \in Threads,
         "original" \in pairs[c], pairs' = [pairs EXCEPT ![c] = @ \ {"original"}],
         UNCHANGED <<parent, handles>>, ref(parent[c], -1)
  PROVE  Counted' /\ CountType'
<1> DEFINE b == parent[c]
           x == <<"original", c>>
<1>1. x \in Holders(b)
  BY HolderIs
<1>2. \A e \in Threads : /\ "original" \in pairs'[e] <=> "original" \in pairs[e] /\ e # c
                         /\ "newbox" \in pairs'[e] <=> "newbox" \in pairs[e]
  BY DEF TypeOK
<1>3. Holders(b)' = Holders(b) \ {x}
  <2>1. \A y : y \in Holders(b)' <=> y \in Holders(b) /\ y # x
    BY <1>2, HolderIs DEF SameOwners
  <2> QED BY <2>1
<1>4. ASSUME NEW d \in Threads \ {b} PROVE Holders(d)' = Holders(d)
  <2>1. \A y : y \in Holders(d)' <=> y \in Holders(d)
    BY <1>2, HolderIs DEF SameOwners
  <2> QED BY <2>1
<1>5. CountDownOf(b)
  BY RefDown
<1> QED BY <1>1, <1>3, <1>4, <1>5, CountDown

LEMMA NewboxDown ==
  ASSUME Counted, CountType, TypeOK, SameOwners, NEW c \in Threads,
         "newbox" \in pairs[c], "original" \notin pairs[c], pairs' = [pairs EXCEPT ![c] = {}],
         UNCHANGED <<parent, handles>>, ref(c, -1)
  PROVE  Counted' /\ CountType'
<1> DEFINE x == <<"newbox", c>>
<1>1. x \in Holders(c)
  BY HolderIs
<1>2. \A e \in Threads : /\ "original" \in pairs'[e] <=> "original" \in pairs[e]
                         /\ "newbox" \in pairs'[e] <=> "newbox" \in pairs[e] /\ e # c
  BY DEF TypeOK
<1>3. Holders(c)' = Holders(c) \ {x}
  <2>1. \A y : y \in Holders(c)' <=> y \in Holders(c) /\ y # x
    BY <1>2, HolderIs DEF SameOwners
  <2> QED BY <2>1
<1>4. ASSUME NEW d \in Threads \ {c} PROVE Holders(d)' = Holders(d)
  <2>1. \A y : y \in Holders(d)' <=> y \in Holders(d)
    BY <1>2, HolderIs DEF SameOwners
  <2> QED BY <2>1
<1>5. CountDownOf(c)
  BY RefDown
<1> QED BY <1>1, <1>3, <1>4, <1>5, CountDown

\* A new pair: the mailbox that is made has nobody before.
LEMMA PairUp ==
  ASSUME Inv, NEW t \in Threads, NEW c \in Threads, MakePair(t, c)
  PROVE  Counted' /\ CountType'
<1>1. /\ pc[t] = "running" /\ pc[c] = "none" /\ t # c /\ t \in boxes /\ creating[t] = None
      /\ pairs[c] = {} /\ CountType
  BY Reached DEF MakePair, Runs, Inv, Order, Alive, TypeOK, CountType
<1>2. /\ pc' = [pc EXCEPT ![c] = "paired"]
      /\ parent' = [parent EXCEPT ![c] = t]
      /\ pairs' = [pairs EXCEPT ![c] = {"original", "newbox"}]
      /\ handles' = handles \cup {<<t, c, "child">>}
      /\ refCount' = [refCount EXCEPT ![t] = @ + 1, ![c] = 2]
      /\ boxes' = boxes \cup {c}
  <2>1. pc' = [pc EXCEPT ![c] = "paired", ![t] = pc[t]]
    BY <1>1 DEF MakePair, Inv, TypeOK
  <2> QED BY <1>1, <2>1 DEF MakePair, Inv, TypeOK
<1>3. /\ SameOwners
      /\ \A e \in Threads : e # c => pairs'[e] = pairs[e] /\ parent'[e] = parent[e]
      /\ pairs'[c] = {"original", "newbox"} /\ parent'[c] = t
  BY <1>1, <1>2 DEF SameOwners, Inv, TypeOK, Alive
<1>4. /\ \A e \in Threads : parent[e] # c
      /\ \A h \in handles : h[2] # c
  BY <1>1, NamesDiffer DEF Inv, Order, Objects, Young
<1>5. Holders(c) = {}
  <2>1. \A y : y \notin Holders(c)
    BY <1>1, <1>4, HolderIs DEF Alive
  <2> QED BY <2>1
<1> DEFINE p == <<"newbox", c>>
           q == <<"handle", <<t, c, "child">>>>
<1>6. Holders(c)' = {p, q}
  <2>1. \A y : y \in Holders(c)' <=> y = p \/ y = q
    <3> TAKE y
    <3>1. y \in Holders(c)' <=>
            \/ y = <<"owner", c>> /\ pc'[c] \in Alive
            \/ \E e \in Threads : y = <<"original", e>> /\ parent'[e] = c /\ "original" \in pairs'[e]
            \/ y = p /\ "newbox" \in pairs'[c]
            \/ \E h \in handles' : y = <<"handle", h>> /\ h[2] = c
      BY HolderIs
    <3>2. pc'[c] \notin Alive /\ "newbox" \in pairs'[c] /\ \A e \in Threads : parent'[e] # c
      BY <1>1, <1>3, <1>4 DEF SameOwners, Alive
    <3>3. \A h : h \in handles' /\ h[2] = c <=> h = <<t, c, "child">>
      BY <1>2, <1>4
    <3> QED BY <3>1, <3>2, <3>3
  <2> QED BY <2>1
<1>7. Holders(t)' = Holders(t) \cup {<<"original", c>>} /\ <<"original", c>> \notin Holders(t)
  <2>1. \A y : y \in Holders(t)' <=> y \in Holders(t) \/ y = <<"original", c>>
    BY <1>1, <1>2, <1>3, HolderIs DEF SameOwners
  <2>2. <<"original", c>> \notin Holders(t)
    BY <1>1, HolderIs
  <2> QED BY <2>1, <2>2
<1>8. ASSUME NEW d \in Threads, d # c, d # t PROVE Holders(d)' = Holders(d)
  <2>1. \A y : y \in Holders(d)' <=> y \in Holders(d)
    BY <1>1, <1>2, <1>3, <1>8, HolderIs DEF SameOwners
  <2> QED BY <2>1
<1>9. IsFiniteSet(Holders(c)') /\ Cardinality(Holders(c)') = 2
  <2>1. p # q
    OBVIOUS
  <2>2. IsFiniteSet({p}) /\ Cardinality({p}) = 1
    BY FS_Singleton
  <2>3. IsFiniteSet({p} \cup {q}) /\ Cardinality({p} \cup {q}) = 2
    <3>1. /\ IsFiniteSet({p} \cup {q})
          /\ q \notin {p} => Cardinality({p} \cup {q}) = Cardinality({p}) + 1
      BY <2>2, FS_AddElement
    <3> QED BY <2>1, <2>2, <3>1
  <2>4. {p} \cup {q} = {p, q}
    OBVIOUS
  <2> QED BY <1>6, <2>3, <2>4
<1>10. IsFiniteSet(Holders(t)') /\ Cardinality(Holders(t)') = refCount[t] + 1
  BY <1>7, FS_AddElement DEF Inv, Counted
<1>11. refCount[t] + 1 \in Nat /\ refCount'[t] = refCount[t] + 1 /\ refCount'[c] = 2
       /\ \A d \in Threads : d # c /\ d # t => refCount'[d] = refCount[d]
  BY <1>1, <1>2 DEF CountType
<1>12. CountType'
  BY <1>1, <1>2, <1>11 DEF CountType
<1>13. ASSUME NEW d \in Threads
       PROVE  /\ IsFiniteSet(Holders(d)') /\ refCount'[d] = Cardinality(Holders(d)')
              /\ d \in boxes' <=> Holders(d)' # {}
  <2>1. CASE d = c
    BY <1>2, <1>6, <1>9, <1>11, <2>1
  <2>2. CASE d = t
    BY <1>1, <1>2, <1>7, <1>10, <1>11, <2>2
  <2>3. CASE d # c /\ d # t
    BY <1>2, <1>8, <1>11, <2>3 DEF Inv, Counted
  <2> QED BY <2>1, <2>2, <2>3
<1> QED BY <1>12, <1>13 DEF Counted

-----------------------------------------------------------------------------
(* Each action keeps the invariant. *)

LEMMA InvInit ==
  ASSUME Init
  PROVE  Inv
<1>1. TypeOK /\ Order /\ Creating /\ Objects /\ Inboxes /\ RunsItsFunction
  BY NamesDiffer, NoneIsNoMessage
     DEF Init, TypeOK, Stages, Order, Creating, Objects, Inboxes, RunsItsFunction, Young
<1>2. ASSUME NEW b \in Threads
      PROVE  /\ IsFiniteSet(Holders(b)) /\ refCount[b] = Cardinality(Holders(b))
             /\ b \in boxes <=> Holders(b) # {}
  <2>1. CASE b = Main
    <3>1. \A x : x \in Holders(b) <=> x = <<"owner", b>>
      BY <2>1, NamesDiffer, HolderIs DEF Init, Alive
    <3>2. Holders(b) = {<<"owner", b>>}
      BY <3>1
    <3> QED BY <2>1, <3>2, FS_Singleton DEF Init
  <2>2. CASE b # Main
    <3>1. \A x : x \notin Holders(b)
      BY <2>2, NamesDiffer, HolderIs DEF Init, Alive
    <3>2. Holders(b) = {}
      BY <3>1
    <3> QED BY <2>2, <3>2, FS_EmptySet DEF Init
  <2> QED BY <2>1, <2>2
<1> QED BY <1>1, <1>2 DEF Inv, Counted

LEMMA MakePairStep ==
  ASSUME Inv, NEW t \in Threads, NEW c \in Threads, MakePair(t, c)
  PROVE  Inv'
<1>1. /\ pc[t] = "running" /\ pc[c] = "none" /\ t # c /\ creating[t] = None /\ c # Main
      /\ pc' = [pc EXCEPT ![c] = "paired"]
  <2>1. pc[t] = "running" /\ pc[c] = "none" /\ t \in boxes /\ creating[t] = None /\ c # Main
    BY Reached DEF MakePair, Runs, Inv, Order, Alive
  <2> QED BY <2>1 DEF MakePair, Inv, TypeOK
<1>2. Counted' /\ CountType'
  BY PairUp
<1>3. /\ parent' = [parent EXCEPT ![c] = t]
      /\ creating' = [creating EXCEPT ![t] = c]
      /\ pairs' = [pairs EXCEPT ![c] = {"original", "newbox"}]
      /\ handles' = handles \cup {<<t, c, "child">>}
      /\ UNCHANGED <<closed, inbox, runs, asked, lost, calls>>
  BY DEF MakePair
<1>4. TypeOK'
  BY <1>1, <1>2, <1>3 DEF Inv, TypeOK, Stages, CountType
<1>5. Order'
  BY <1>1, NamesDiffer DEF MakePair, Inv, TypeOK, Order, Objects, Young
<1>6. Creating'
  BY <1>1, NamesDiffer DEF MakePair, Inv, TypeOK, Order, Creating, Young
<1>7. Objects'
  <2>1. CASE ~ \E h \in handles : parent[h[2]] # parent'[h[2]] \/ parent[h[1]] # parent'[h[1]]
    BY <1>1, <1>3, <2>1 DEF Inv, TypeOK, Objects, Young
  <2>2. \A h \in handles : h[1] # c /\ h[2] # c
    BY <1>1 DEF Inv, Objects
  <2>3. \A h \in handles : parent[h[2]] = parent'[h[2]] /\ parent[h[1]] = parent'[h[1]]
    BY <1>3, <2>2 DEF Inv, TypeOK
  <2> QED BY <2>1, <2>3
<1>8. Inboxes'
  BY <1>1, NamesDiffer DEF MakePair, Inv, TypeOK, Order, Inboxes, Young
<1>9. RunsItsFunction'
  BY DEF MakePair, Inv, RunsItsFunction
<1> QED BY <1>2, <1>4, <1>5, <1>6, <1>7, <1>8, <1>9 DEF Inv

LEMMA StartStep ==
  ASSUME Inv, NEW t \in Threads, Start(t)
  PROVE  Inv'
<1> DEFINE c == creating[t]
<1>1. /\ c \in Threads /\ pc[c] = "paired" /\ pc[t] = "running" /\ c # t /\ c # Main
      /\ "original" \in pairs[c] /\ pc' = [pc EXCEPT ![c] = "new"]
      /\ UNCHANGED <<parent, creating, pairs, boxes, refCount, closed, inbox, handles,
                     runs, asked, lost, calls>>
  BY DEF Start, Inv, TypeOK, Order, mail
<1>2. Counted'
  <2>1. SameOwners /\ SamePairs
    BY <1>1 DEF SameOwners, SamePairs, Alive, Inv, TypeOK
  <2>2. \A d \in Threads : Holders(d)' = Holders(d)
    BY <1>1, <2>1, HoldersSame
  <2> QED BY <1>1, <2>2, CountSame DEF Inv
<1>3. TypeOK'
  BY <1>1 DEF Inv, TypeOK, Stages
<1>4. Order'
  BY <1>1, NamesDiffer DEF Inv, TypeOK, Order, Young
<1>5. Creating'
  BY <1>1 DEF Inv, TypeOK, Creating
<1>6. Objects'
  BY <1>1 DEF Inv, TypeOK, Objects, Young
<1>7. Inboxes'
  BY <1>1 DEF Inv, TypeOK, Inboxes, Young
<1>8. RunsItsFunction'
  BY <1>1 DEF Inv, RunsItsFunction
<1> QED BY <1>2, <1>3, <1>4, <1>5, <1>6, <1>7, <1>8 DEF Inv

LEMMA StartFailsStep ==
  ASSUME Inv, NEW t \in Threads, StartFails(t)
  PROVE  Inv'
<1> DEFINE c == creating[t]
<1>0. /\ c \in Threads /\ pc[c] = "paired" /\ pc[t] = "running" /\ c # t /\ c # Main
      /\ parent[c] = t /\ "newbox" \in pairs[c] /\ t \in boxes /\ c \in boxes
      /\ CountType
      /\ UNCHANGED <<parent, handles, runs, asked, lost, calls>>
  <2>1. /\ c \in Threads /\ pc[c] = "paired" /\ pc[t] = "running" /\ c # None
        /\ UNCHANGED <<parent, handles, runs, asked, lost, calls>> /\ CountType
    BY DEF StartFails, Inv, TypeOK, CountType
  <2>2. parent[c] = t /\ c # Main /\ "newbox" \in pairs[c]
    BY <2>1 DEF Inv, Creating, Order
  <2> QED BY <2>1, <2>2, Reached DEF Inv, Alive
<1>1. CASE "original" \in pairs[c]
  <2>1. /\ ref(t, -1) /\ UNCHANGED <<pc, creating, closed, inbox>>
        /\ pairs' = [pairs EXCEPT ![c] = @ \ {"original"}]
    BY <1>0, <1>1 DEF StartFails, Goto, ref, Inv, TypeOK
  <2>2. Counted' /\ CountType'
    <3>1. SameOwners
      BY <2>1 DEF SameOwners
    <3> QED BY <1>0, <1>1, <2>1, <3>1, OriginalDown DEF Inv
  <2>3. TypeOK'
    BY <1>0, <2>1, <2>2 DEF Inv, TypeOK, CountType
  <2>4. Order' /\ Creating' /\ Objects' /\ Inboxes' /\ RunsItsFunction'
    BY <1>0, <2>1 DEF Inv, TypeOK, Order, Creating, Objects, Inboxes, RunsItsFunction, Young
  <2> QED BY <2>2, <2>3, <2>4 DEF Inv
<1>2. CASE "original" \notin pairs[c]
  <2>1. /\ ref(c, -1) /\ UNCHANGED <<closed, inbox>>
        /\ pc' = [pc EXCEPT ![c] = "gone"]
        /\ pairs' = [pairs EXCEPT ![c] = {}]
        /\ creating' = [creating EXCEPT ![t] = None]
    BY <1>0, <1>2 DEF StartFails, ref
  <2>2. Counted' /\ CountType'
    <3>1. SameOwners
      BY <1>0, <2>1 DEF SameOwners, Alive, Inv, TypeOK
    <3> QED BY <1>0, <1>2, <2>1, <3>1, NewboxDown DEF Inv
  <2>3. TypeOK'
    BY <1>0, <2>1, <2>2 DEF Inv, TypeOK, CountType, Stages
  <2>4. Order'
    BY <1>0, <2>1 DEF Inv, TypeOK, Order, Young
  <2>5. Creating' /\ Objects' /\ RunsItsFunction'
    BY <1>0, <2>1 DEF Inv, TypeOK, Creating, Objects, RunsItsFunction, Young
  <2>6. Inboxes'
    BY <1>0, <2>1 DEF Inv, TypeOK, Inboxes, Young
  <2> QED BY <2>2, <2>3, <2>4, <2>5, <2>6 DEF Inv
<1> QED BY <1>1, <1>2

LEMMA SendFunctionStep ==
  ASSUME Inv, NEW t \in Threads, SendFunction(t)
  PROVE  Inv'
<1> DEFINE c == creating[t]
<1>1. /\ c \in Threads /\ pc[t] = "running" /\ c # None /\ parent[c] = t
      /\ UNCHANGED <<pc, parent, pairs, boxes, refCount, closed, handles, runs, asked, calls>>
      /\ creating' = [creating EXCEPT ![t] = None]
  <2>1. /\ c \in Threads /\ pc[t] = "running" /\ <<t, c, "child">> \in handles /\ parent[c] = t
    BY DEF SendFunction, Inv, TypeOK, Creating
  <2>2. c \in boxes
    BY <2>1, Reached DEF Inv
  <2> QED BY <2>1, <2>2 DEF SendFunction, Goto, Inv, TypeOK
<1>2. \/ lost' = lost \cup {c} /\ inbox' = inbox
      \/ \E f \in Functions :
           lost' = lost /\ inbox' = [inbox EXCEPT ![c] = Append(@, <<"worker", f>>)]
  BY DEF SendFunction
<1>3. Counted'
  <2>1. SameOwners /\ SamePairs
    BY <1>1 DEF SameOwners, SamePairs, Alive, Inv, TypeOK
  <2>2. \A d \in Threads : Holders(d)' = Holders(d)
    BY <1>1, <2>1, HoldersSame
  <2> QED BY <1>1, <2>2, CountSame DEF Inv
<1>4. TypeOK'
  <2>1. ASSUME NEW f \in Functions
        PROVE  Append(inbox[c], <<"worker", f>>) \in Seq({"worker", "user"} \X (Functions \cup Messages))
    BY <1>1, AppendProperties DEF Inv, TypeOK
  <2>2. inbox' \in [Threads -> Seq({"worker", "user"} \X (Functions \cup Messages))]
    BY <1>1, <1>2, <2>1 DEF Inv, TypeOK
  <2> QED BY <1>1, <1>2, <2>2 DEF Inv, TypeOK
<1>5. Order' /\ Creating' /\ Objects'
  BY <1>1 DEF Inv, TypeOK, Order, Creating, Objects, Young
<1>6. Inboxes'
  <2> SUFFICES ASSUME NEW d \in Threads, pc[d] \in Young, d \notin lost'
               PROVE  \/ inbox'[d] = <<>> /\ (pc[d] = "none" \/ creating'[parent[d]] = d)
                      \/ inbox'[d] # <<>> /\ Head(inbox'[d])[1] = "worker"
    BY <1>1 DEF Inboxes
  <2>1. \/ inbox[d] = <<>> /\ (pc[d] = "none" \/ creating[parent[d]] = d)
        \/ inbox[d] # <<>> /\ Head(inbox[d])[1] = "worker"
    BY <1>2 DEF Inv, Inboxes
  <2>2. CASE d = c
    <3>1. PICK f \in Functions : inbox' = [inbox EXCEPT ![c] = Append(@, <<"worker", f>>)]
      BY <1>2, <2>2
    <3>2. inbox[c] \in Seq({"worker", "user"} \X (Functions \cup Messages))
          /\ inbox'[c] = Append(inbox[c], <<"worker", f>>)
      BY <1>1, <3>1 DEF Inv, TypeOK
    <3>3. /\ inbox'[c] # <<>>
          /\ Head(inbox'[c]) = IF inbox[c] = <<>> THEN <<"worker", f>> ELSE Head(inbox[c])
      <4>1. <<"worker", f>> \in {"worker", "user"} \X (Functions \cup Messages)
        OBVIOUS
      <4> QED BY <3>2, <4>1, HeadTailAppend, AppendProperties
    <3> QED BY <2>1, <2>2, <3>3
  <2>3. CASE d # c
    BY <1>1, <1>2, <2>1, <2>3 DEF Inv, TypeOK
  <2> QED BY <2>2, <2>3
<1>7. RunsItsFunction'
  BY <1>1, <1>2 DEF Inv, RunsItsFunction
<1> QED BY <1>3, <1>4, <1>5, <1>6, <1>7 DEF Inv

LEMMA BeginStep ==
  ASSUME Inv, NEW c \in Threads, Begin(c)
  PROVE  Inv'
<1>1. /\ pc[c] = "new" /\ c # Main /\ c \in boxes /\ pc' = [pc EXCEPT ![c] = "init"]
      /\ ref(c, 1) /\ CountType
      /\ UNCHANGED <<parent, creating, pairs, closed, inbox, handles, runs, asked, lost, calls>>
  <2>1. pc[c] = "new" /\ c # Main /\ "newbox" \in pairs[c]
    BY DEF Begin, Inv, Order
  <2>2. c \in boxes
    BY <2>1, Reached DEF Inv
  <2> QED BY <2>1, <2>2 DEF Begin, Goto, ref, Inv, TypeOK, CountType
<1>2. Counted' /\ CountType'
  <2>1. /\ pc[c] \notin Alive /\ pc'[c] \in Alive /\ SamePairs
        /\ \A d \in Threads \ {c} : pc'[d] \in Alive <=> pc[d] \in Alive
    BY <1>1 DEF Alive, SamePairs, Inv, TypeOK
  <2> QED BY <1>1, <2>1, OwnerUp DEF Inv
<1>3. TypeOK'
  BY <1>1, <1>2 DEF Inv, TypeOK, Stages, CountType
<1>4. Order'
  BY <1>1, NamesDiffer DEF Inv, TypeOK, Order, Young
<1>5. Creating'
  BY <1>1 DEF Inv, TypeOK, Creating
<1>6. Objects'
  BY <1>1 DEF Inv, TypeOK, Objects, Young
<1>7. Inboxes'
  BY <1>1 DEF Inv, TypeOK, Inboxes, Young
<1>8. RunsItsFunction'
  BY <1>1 DEF Inv, TypeOK, RunsItsFunction
<1> QED BY <1>2, <1>3, <1>4, <1>5, <1>6, <1>7, <1>8 DEF Inv

LEMMA MakeParentStep ==
  ASSUME Inv, NEW c \in Threads, MakeParent(c)
  PROVE  Inv'
<1> DEFINE h == <<c, parent[c], "parent">>
<1>1. /\ pc[c] = "init" /\ c # Main /\ parent[c] \in boxes /\ parent[c] \in Threads
      /\ pc[parent[c]] # "none"
      /\ pc' = [pc EXCEPT ![c] = "waiting"] /\ handles' = handles \cup {h}
      /\ ref(parent[c], 1) /\ CountType
      /\ UNCHANGED <<parent, creating, pairs, closed, inbox, runs, asked, lost, calls>>
  <2>1. /\ pc[c] = "init" /\ c # Main /\ "original" \in pairs[c] /\ parent[c] \in Threads
        /\ pc[parent[c]] # "none"
    BY DEF MakeParent, Inv, Order, TypeOK, Young
  <2>2. parent[c] \in boxes
    BY <2>1, Reached DEF Inv
  <2> QED BY <2>1, <2>2 DEF MakeParent, Goto, ref, Inv, TypeOK, CountType
<1>2. Counted' /\ CountType'
  <2>1. SameOwners /\ SamePairs
    BY <1>1 DEF SameOwners, SamePairs, Alive, Inv, TypeOK
  <2>2. h \notin handles
    BY <1>1 DEF Inv, Objects
  <2>3. h[2] = parent[c]
    OBVIOUS
  <2> QED BY <1>1, <2>1, <2>2, <2>3, HandleUp DEF Inv
<1>3. TypeOK'
  <2>1. h \in Threads \X Threads \X {"child", "parent", "current", "failed"}
    BY <1>1
  <2> QED BY <1>1, <1>2, <2>1 DEF Inv, TypeOK, Stages, CountType
<1>4. Order'
  BY <1>1, NamesDiffer DEF Inv, TypeOK, Order, Young
<1>5. Creating'
  BY <1>1 DEF Inv, TypeOK, Creating
<1>6. Objects'
  BY <1>1 DEF Inv, TypeOK, Objects, Young
<1>7. Inboxes'
  BY <1>1 DEF Inv, TypeOK, Inboxes, Young
<1>8. RunsItsFunction'
  BY <1>1 DEF Inv, TypeOK, RunsItsFunction
<1> QED BY <1>2, <1>3, <1>4, <1>5, <1>6, <1>7, <1>8 DEF Inv

LEMMA TakeFunctionStep ==
  ASSUME Inv, NEW c \in Threads, TakeFunction(c)
  PROVE  Inv'
<1> DEFINE m == Head(inbox[c])
<1>1. /\ pc[c] = "waiting" /\ c # Main /\ inbox[c] # <<>>
      /\ inbox' = [inbox EXCEPT ![c] = Tail(@)]
      /\ \/ m[2] = "garbled" /\ pc' = pc
         \/ m[2] = "good" /\ pc' = [pc EXCEPT ![c] = "running"]
         \/ m[2] \notin {"garbled", "good"} /\ pc' = [pc EXCEPT ![c] = "leaving"]
      /\ runs' = IF m[2] = "good" THEN [runs EXCEPT ![c] = m[1]] ELSE runs
      /\ lost' = IF m = <<"worker", "garbled">> THEN lost \cup {c} ELSE lost
      /\ UNCHANGED <<parent, creating, pairs, boxes, refCount, closed, handles, asked, calls>>
  <2>1. c \in boxes /\ c # Main
    BY Reached DEF TakeFunction, Inv, Alive, Order
  <2>2. pc' = [pc EXCEPT ![c] = CASE m[2] = "garbled" -> "waiting"
                                  [] m[2] = "good"    -> "running"
                                  [] OTHER            -> "leaving"]
    BY <2>1 DEF TakeFunction, Goto
  <2> QED BY <2>1, <2>2 DEF TakeFunction, Inv, TypeOK
<1>2. Counted'
  <2>1. SameOwners /\ SamePairs
    BY <1>1 DEF SameOwners, SamePairs, Alive, Inv, TypeOK
  <2>2. \A d \in Threads : Holders(d)' = Holders(d)
    BY <1>1, <2>1, HoldersSame
  <2> QED BY <1>1, <2>2, CountSame DEF Inv
<1>3. /\ m \in {"worker", "user"} \X (Functions \cup Messages)
      /\ Tail(inbox[c]) \in Seq({"worker", "user"} \X (Functions \cup Messages))
  BY <1>1, HeadTailProperties DEF Inv, TypeOK
<1>4. TypeOK'
  <2>1. inbox' \in [Threads -> Seq({"worker", "user"} \X (Functions \cup Messages))]
    BY <1>1, <1>3 DEF Inv, TypeOK
  <2>2. runs' \in [Threads -> {"worker", "user", None}] /\ lost' \subseteq Threads
    BY <1>1, <1>3 DEF Inv, TypeOK
  <2>3. pc' \in [Threads -> Stages]
    BY <1>1 DEF Inv, TypeOK, Stages
  <2> QED BY <1>1, <2>1, <2>2, <2>3 DEF Inv, TypeOK
<1>5. Order'
  BY <1>1, NamesDiffer DEF Inv, TypeOK, Order, Young
<1>6. Creating'
  BY <1>1 DEF Inv, TypeOK, Creating
<1>7. Objects'
  BY <1>1 DEF Inv, TypeOK, Objects, Young
<1>8. c \in lost \/ m[1] = "worker"
  BY <1>1 DEF Inv, Inboxes, Young
<1>9. Inboxes'
  <2>1. pc'[c] \in Young => c \in lost'
    BY <1>1, <1>3, <1>8 DEF Inv, TypeOK, Young
  <2>2. \A d \in Threads : d # c => pc'[d] = pc[d] /\ inbox'[d] = inbox[d]
                                    /\ (d \in lost' <=> d \in lost)
    BY <1>1 DEF Inv, TypeOK
  <2> QED BY <1>1, <2>1, <2>2 DEF Inv, Inboxes
<1>10. RunsItsFunction'
  BY <1>1, <1>8 DEF Inv, TypeOK, RunsItsFunction
<1> QED BY <1>2, <1>4, <1>5, <1>6, <1>7, <1>9, <1>10 DEF Inv

LEMMA ReturnStep ==
  ASSUME Inv, NEW c \in Threads, Return(c)
  PROVE  Inv'
<1> DEFINE h == <<c, c, "failed">>
<1>1. /\ pc[c] = "running" /\ creating[c] = None /\ c # Main /\ c \in boxes
      /\ pc' = [pc EXCEPT ![c] = "leaving"] /\ CountType
      /\ UNCHANGED <<parent, creating, pairs, closed, inbox, runs, asked, lost, calls>>
  <2>1. pc[c] = "running" /\ c \in boxes
    BY Reached DEF Return, Runs, Inv, Alive
  <2> QED BY <2>1 DEF Return, Runs, Goto, ref, mail, Inv, TypeOK, CountType
<1>2. \/ UNCHANGED <<refCount, boxes, handles>>
      \/ ref(c, 1) /\ handles' = handles \cup {h}
  BY DEF Return, mail
<1>3. Counted' /\ CountType'
  <2>1. SameOwners /\ SamePairs
    BY <1>1 DEF SameOwners, SamePairs, Alive, Inv, TypeOK
  <2>2. CASE UNCHANGED <<refCount, boxes, handles>>
    <3>1. \A d \in Threads : Holders(d)' = Holders(d)
      BY <2>1, <2>2, HoldersSame
    <3> QED BY <1>1, <2>2, <3>1, CountSame DEF Inv, CountType
  <2>3. CASE ref(c, 1) /\ handles' = handles \cup {h}
    <3>1. h \notin handles /\ h[2] = c
      BY <1>1 DEF Inv, Objects
    <3> QED BY <1>1, <2>1, <2>3, <3>1, HandleUp DEF Inv
  <2> QED BY <1>2, <2>2, <2>3
<1>4. TypeOK'
  <2>1. h \in Threads \X Threads \X {"child", "parent", "current", "failed"}
    OBVIOUS
  <2>2. handles' \subseteq Threads \X Threads \X {"child", "parent", "current", "failed"}
    BY <1>2, <2>1 DEF Inv, TypeOK
  <2> QED BY <1>1, <1>3, <2>2 DEF Inv, TypeOK, Stages, CountType
<1>5. Order'
  BY <1>1, NamesDiffer DEF Inv, TypeOK, Order, Young
<1>6. Creating'
  BY <1>1, <1>2 DEF Inv, TypeOK, Creating
<1>7. Objects'
  <2> SUFFICES ASSUME NEW g \in handles'
               PROVE  /\ pc'[g[1]] \in {"waiting", "running", "leaving", "clearing"}
                      /\ pc'[g[2]] # "none"
                      /\ g[3] = "child" => parent[g[2]] = g[1]
                      /\ g[3] = "parent" => parent[g[1]] = g[2]
                      /\ g[3] \in {"current", "failed"} => g[1] = g[2] /\ pc'[g[1]] \notin Young
                      /\ g[3] = "current" => g[1] \in asked
                      /\ g[3] = "failed" => pc'[g[1]] \in {"leaving", "clearing"}
    BY <1>1 DEF Objects
  <2>1. CASE g \in handles
    BY <1>1, <2>1 DEF Inv, TypeOK, Objects, Young
  <2>2. CASE g = h
    BY <1>1, <2>2 DEF Inv, TypeOK, Young
  <2> QED BY <1>2, <2>1, <2>2
<1>8. Inboxes'
  BY <1>1 DEF Inv, TypeOK, Inboxes, Young
<1>9. RunsItsFunction'
  BY <1>1 DEF Inv, TypeOK, RunsItsFunction
<1> QED BY <1>3, <1>4, <1>5, <1>6, <1>7, <1>8, <1>9 DEF Inv

LEMMA LeavePairStep ==
  ASSUME Inv, NEW c \in Threads, LeavePair(c)
  PROVE  Inv'
<1>1. /\ pc[c] = "leaving" /\ c # Main /\ parent[c] \in Threads /\ "newbox" \in pairs[c]
      /\ creating[c] = None /\ CountType
      /\ UNCHANGED <<parent, creating, handles, runs, asked, lost, calls>>
  <2>1. /\ pc[c] = "leaving" /\ CountType
        /\ UNCHANGED <<parent, creating, handles, runs, asked, lost, calls>>
    BY DEF LeavePair, Inv, TypeOK, CountType
  <2>2. c # Main /\ parent[c] # None /\ "newbox" \in pairs[c]
    BY <2>1 DEF Inv, Order
  <2>3. creating[c] = None
    BY <2>1 DEF Inv, Creating
  <2> QED BY <2>1, <2>2, <2>3 DEF Inv, TypeOK
<1>2. CASE "original" \in pairs[c]
  <2>1. /\ ref(parent[c], -1) /\ UNCHANGED <<pc, closed, inbox>>
        /\ pairs' = [pairs EXCEPT ![c] = @ \ {"original"}]
    <3>1. parent[c] \in boxes
      BY <1>1, <1>2, Reached DEF Inv
    <3> QED BY <1>1, <1>2, <3>1 DEF LeavePair, Goto, ref, Inv, TypeOK
  <2>2. Counted' /\ CountType'
    <3>1. SameOwners
      BY <2>1 DEF SameOwners
    <3> QED BY <1>1, <1>2, <2>1, <3>1, OriginalDown DEF Inv
  <2>3. TypeOK'
    BY <1>1, <2>1, <2>2 DEF Inv, TypeOK, CountType
  <2>4. Order'
    BY <1>1, <2>1 DEF Inv, TypeOK, Order
  <2>5. Creating' /\ Objects' /\ Inboxes' /\ RunsItsFunction'
    BY <1>1, <2>1 DEF Inv, TypeOK, Creating, Objects, Inboxes, RunsItsFunction
  <2> QED BY <2>2, <2>3, <2>4, <2>5 DEF Inv
<1>3. CASE "original" \notin pairs[c]
  <2>1. /\ ref(c, -1) /\ UNCHANGED <<closed, inbox>>
        /\ pc' = [pc EXCEPT ![c] = "clearing"]
        /\ pairs' = [pairs EXCEPT ![c] = {}]
    <3>1. c \in boxes
      BY <1>1, Reached DEF Inv
    <3> QED BY <1>1, <1>3, <3>1 DEF LeavePair, Goto, ref, Inv, TypeOK
  <2>2. Counted' /\ CountType'
    <3>1. SameOwners
      BY <1>1, <2>1 DEF SameOwners, Alive, Inv, TypeOK
    <3> QED BY <1>1, <1>3, <2>1, <3>1, NewboxDown DEF Inv
  <2>3. TypeOK'
    BY <1>1, <2>1, <2>2 DEF Inv, TypeOK, CountType, Stages
  <2>4. Order'
    BY <1>1, <2>1 DEF Inv, TypeOK, Order, Young
  <2>5. Creating'
    BY <1>1, <2>1 DEF Inv, TypeOK, Creating
  <2>6. Objects'
    BY <1>1, <2>1 DEF Inv, TypeOK, Objects, Young
  <2>7. Inboxes' /\ RunsItsFunction'
    BY <1>1, <2>1 DEF Inv, TypeOK, Inboxes, RunsItsFunction, Young
  <2> QED BY <2>2, <2>3, <2>4, <2>5, <2>6, <2>7 DEF Inv
<1> QED BY <1>2, <1>3

\* An object of a thread that is not in thread/new gives up its mailbox.
LEMMA DropStep ==
  ASSUME Inv, NEW t \in Threads, NEW h \in handles, h[1] = t, creating[t] = None,
         Drop(t, h, pc[t]), calls' \in Nat,
         UNCHANGED <<parent, creating, pairs, runs, asked, lost>>
  PROVE  Inv'
<1>1. /\ h[2] \in Threads /\ pc' = pc /\ handles' = handles \ {h} /\ ref(h[2], -1)
      /\ UNCHANGED <<closed, inbox>> /\ CountType
  <2>1. h[2] \in Threads
    BY DEF Inv, TypeOK
  <2>2. h[2] \in boxes
    BY <2>1, Reached DEF Inv
  <2> QED BY <2>1, <2>2 DEF Drop, Goto, ref, Inv, TypeOK, CountType
<1>2. Counted' /\ CountType'
  <2>1. SameOwners /\ SamePairs
    BY <1>1 DEF SameOwners, SamePairs
  <2> QED BY <1>1, <2>1, HandleDown DEF Inv
<1>3. TypeOK'
  BY <1>1, <1>2 DEF Inv, TypeOK, CountType
<1>4. Order'
  BY <1>1 DEF Inv, Order
<1>5. Creating'
  BY <1>1 DEF Inv, TypeOK, Creating
<1>6. Objects'
  BY <1>1 DEF Inv, Objects
<1>7. Inboxes' /\ RunsItsFunction'
  BY <1>1 DEF Inv, Inboxes, RunsItsFunction
<1> QED BY <1>2, <1>3, <1>4, <1>5, <1>6, <1>7 DEF Inv

LEMMA CloseStep ==
  ASSUME Inv, NEW t \in Threads, NEW h \in handles, Close(t, h) \/ ClearMemory(t, h)
  PROVE  Inv'
<1>1. h[1] = t /\ creating[t] = None /\ Drop(t, h, pc[t])
  BY DEF Close, ClearMemory, Runs, Inv, Creating
<1>2. UNCHANGED <<parent, creating, pairs, runs, asked, lost, calls>>
  BY DEF Close, ClearMemory
<1>3. calls' \in Nat
  BY <1>2 DEF Inv, TypeOK
<1> QED BY <1>1, <1>2, <1>3, DropStep

LEMMA SendStep ==
  ASSUME Inv, NEW t \in Threads, NEW h \in handles, Send(t, h)
  PROVE  Inv'
<1> DEFINE b == h[2]
<1>1. /\ h[1] = t /\ pc[t] = "running" /\ creating[t] = None /\ b \in Threads
      /\ calls' \in Nat
      /\ UNCHANGED <<parent, creating, pairs, runs, asked, lost>>
  BY DEF Send, Runs, Inv, TypeOK
<1>2. CASE closed[b]
  <2>1. Drop(t, h, pc[t])
    BY <1>1, <1>2 DEF Send
  <2> QED BY <1>1, <2>1, DropStep
<1>3. CASE ~closed[b]
  <2>1. /\ UNCHANGED <<pc, boxes, refCount, closed, handles>>
        /\ \E m \in Messages : inbox' = [inbox EXCEPT ![b] = Append(@, <<"user", m>>)]
    <3>1. b \in boxes
      BY <1>1, Reached DEF Inv
    <3>2. /\ UNCHANGED <<boxes, refCount, closed, handles>>
          /\ \E m \in Messages : inbox' = [inbox EXCEPT ![b] = Append(@, <<"user", m>>)]
      BY <1>3 DEF Send
    <3>3. pc' = [pc EXCEPT ![t] = "running"]
      BY <1>3, <3>1 DEF Send, Goto
    <3> QED BY <1>1, <3>2, <3>3 DEF Inv, TypeOK
  <2>2. Counted'
    <3>1. SameOwners /\ SamePairs
      BY <1>1, <2>1 DEF SameOwners, SamePairs
    <3>2. \A d \in Threads : Holders(d)' = Holders(d)
      BY <2>1, <3>1, HoldersSame
    <3> QED BY <2>1, <3>2, CountSame DEF Inv
  <2>3. PICK m \in Messages : inbox' = [inbox EXCEPT ![b] = Append(@, <<"user", m>>)]
    BY <2>1
  <2> DEFINE M == {"worker", "user"} \X (Functions \cup Messages)
  <2>4. /\ inbox[b] \in Seq(M) /\ <<"user", m>> \in M
        /\ inbox'[b] = Append(inbox[b], <<"user", m>>)
    BY <1>1, <2>3 DEF Inv, TypeOK
  <2>5. /\ inbox'[b] \in Seq(M) /\ inbox'[b] # <<>>
        /\ Head(inbox'[b]) = IF inbox[b] = <<>> THEN <<"user", m>> ELSE Head(inbox[b])
    <3> HIDE DEF M
    <3> QED BY <2>4, AppendProperties, HeadTailAppend
  <2>6. TypeOK'
    <3>1. inbox' \in [Threads -> Seq(M)]
      BY <2>3, <2>4, <2>5 DEF Inv, TypeOK
    <3> QED BY <1>1, <2>1, <3>1 DEF Inv, TypeOK
  <2>7. Order' /\ Creating' /\ Objects' /\ RunsItsFunction'
    BY <1>1, <2>1 DEF Inv, Order, Creating, Objects, RunsItsFunction
  <2>8. Inboxes'
    <3> SUFFICES ASSUME NEW d \in Threads, pc[d] \in Young, d \notin lost
                 PROVE  \/ inbox'[d] = <<>> /\ (pc[d] = "none" \/ creating[parent[d]] = d)
                        \/ inbox'[d] # <<>> /\ Head(inbox'[d])[1] = "worker"
      BY <1>1, <2>1 DEF Inboxes
    <3>1. \/ inbox[d] = <<>> /\ (pc[d] = "none" \/ creating[parent[d]] = d)
          \/ inbox[d] # <<>> /\ Head(inbox[d])[1] = "worker"
      BY DEF Inv, Inboxes
    <3>2. CASE d # b
      BY <2>3, <3>1, <3>2 DEF Inv, TypeOK
    <3>3. CASE d = b
      <4>1. pc[b] # "none" /\ parent[b] = t
        <5>1. h[3] \in {"child", "parent", "current", "failed"}
          BY DEF Inv, TypeOK
        <5>2. h[3] # "parent"
          BY <1>1, <3>3, NamesDiffer DEF Inv, Objects, Order
        <5> QED BY <1>1, <3>3, <5>1, <5>2 DEF Inv, Objects
      <4>2. creating[parent[d]] # d
        BY <1>1, <3>3, <4>1, NamesDiffer
      <4> QED BY <2>5, <3>1, <3>3, <4>1, <4>2
    <3> QED BY <3>2, <3>3
  <2> QED BY <2>2, <2>6, <2>7, <2>8 DEF Inv
<1> QED BY <1>2, <1>3

LEMMA ReceiveStep ==
  ASSUME Inv, NEW t \in Threads, Receive(t)
  PROVE  Inv'
<1>1. /\ pc[t] = "running" /\ inbox[t] # <<>> /\ inbox' = [inbox EXCEPT ![t] = Tail(@)]
      /\ UNCHANGED <<pc, parent, creating, pairs, boxes, refCount, closed, handles,
                     runs, asked, lost, calls>>
  <2>1. t \in boxes
    BY Reached DEF Receive, Runs, Inv, Alive
  <2> QED BY <2>1 DEF Receive, Runs, Goto, Inv, TypeOK
<1>2. Counted'
  <2>1. SameOwners /\ SamePairs
    BY <1>1 DEF SameOwners, SamePairs
  <2>2. \A d \in Threads : Holders(d)' = Holders(d)
    BY <1>1, <2>1, HoldersSame
  <2> QED BY <1>1, <2>2, CountSame DEF Inv
<1>3. TypeOK'
  <2>1. Tail(inbox[t]) \in Seq({"worker", "user"} \X (Functions \cup Messages))
    BY <1>1, HeadTailProperties DEF Inv, TypeOK
  <2> QED BY <1>1, <2>1 DEF Inv, TypeOK
<1>4. Order' /\ Creating' /\ Objects' /\ RunsItsFunction'
  BY <1>1 DEF Inv, Order, Creating, Objects, RunsItsFunction
<1>5. Inboxes'
  BY <1>1 DEF Inv, TypeOK, Inboxes, Young
<1> QED BY <1>2, <1>3, <1>4, <1>5 DEF Inv

LEMMA CurrentStep ==
  ASSUME Inv, NEW t \in Threads, Current(t)
  PROVE  Inv'
<1> DEFINE h == <<t, t, "current">>
<1>1. /\ pc[t] = "running" /\ t \notin asked /\ t \in boxes /\ CountType
      /\ calls' \in Nat /\ asked' = asked \cup {t}
      /\ ref(t, 1) /\ handles' = handles \cup {h}
      /\ UNCHANGED <<pc, parent, creating, pairs, closed, inbox, runs, lost>>
  <2>1. t \in boxes
    BY Reached DEF Current, Runs, Inv, Alive
  <2> QED BY <2>1 DEF Current, Runs, Goto, ref, Inv, TypeOK, CountType
<1>2. Counted' /\ CountType'
  <2>1. SameOwners /\ SamePairs
    BY <1>1 DEF SameOwners, SamePairs
  <2>2. h \notin handles /\ h[2] = t
    BY <1>1 DEF Inv, Objects
  <2> QED BY <1>1, <2>1, <2>2, HandleUp DEF Inv
<1>3. TypeOK'
  BY <1>1, <1>2 DEF Inv, TypeOK, CountType
<1>4. Order' /\ Creating' /\ Inboxes' /\ RunsItsFunction'
  BY <1>1 DEF Inv, Order, Creating, Inboxes, RunsItsFunction
<1>5. Objects'
  BY <1>1 DEF Inv, Objects, Young
<1> QED BY <1>2, <1>3, <1>4, <1>5 DEF Inv

LEMMA FinishStep ==
  ASSUME Inv, Finish
  PROVE  Inv'
<1>1. /\ Main \in Threads /\ pc[Main] = "running" /\ creating[Main] = None
      /\ pc' = [pc EXCEPT ![Main] = "clearing"]
      /\ UNCHANGED <<parent, creating, pairs, boxes, refCount, closed, inbox, handles,
                     runs, asked, lost, calls>>
  BY NamesDiffer DEF Finish, Runs, mail
<1>2. Counted'
  <2>1. SameOwners /\ SamePairs
    BY <1>1 DEF SameOwners, SamePairs, Alive, Inv, TypeOK
  <2>2. \A d \in Threads : Holders(d)' = Holders(d)
    BY <1>1, <2>1, HoldersSame
  <2> QED BY <1>1, <2>2, CountSame DEF Inv
<1>3. TypeOK'
  BY <1>1 DEF Inv, TypeOK, Stages
<1>4. Order'
  BY <1>1, NamesDiffer DEF Inv, TypeOK, Order, Young
<1>5. Creating'
  BY <1>1 DEF Inv, TypeOK, Creating
<1>6. Objects'
  BY <1>1 DEF Inv, TypeOK, Objects, Young
<1>7. Inboxes'
  BY <1>1 DEF Inv, TypeOK, Inboxes, Young
<1>8. RunsItsFunction'
  BY <1>1 DEF Inv, TypeOK, RunsItsFunction
<1> QED BY <1>2, <1>3, <1>4, <1>5, <1>6, <1>7, <1>8 DEF Inv

LEMMA ThreadsDeinitStep ==
  ASSUME Inv, NEW t \in Threads, ThreadsDeinit(t)
  PROVE  Inv'
<1>1. /\ pc[t] = "clearing" /\ creating[t] = None /\ \A h \in handles : h[1] # t
      /\ pc' = [pc EXCEPT ![t] = "gone"] /\ closed' = [closed EXCEPT ![t] = TRUE]
      /\ CountDownOf(t) /\ CountType
      /\ UNCHANGED <<parent, creating, pairs, inbox, handles, runs, asked, lost, calls>>
  <2>1. pc[t] = "clearing" /\ t \in boxes /\ creating[t] = None
    BY Reached DEF ThreadsDeinit, Inv, Alive, Creating
  <2> QED BY <2>1 DEF ThreadsDeinit, Goto, CountDownOf, Inv, TypeOK, CountType
<1>2. Counted' /\ CountType'
  <2>1. /\ pc[t] \in Alive /\ pc'[t] \notin Alive /\ SamePairs
        /\ \A d \in Threads \ {t} : pc'[d] \in Alive <=> pc[d] \in Alive
    BY <1>1 DEF Alive, SamePairs, Inv, TypeOK
  <2> QED BY <1>1, <2>1, OwnerDown DEF Inv
<1>3. TypeOK'
  BY <1>1, <1>2 DEF Inv, TypeOK, Stages, CountType
<1>4. Order'
  BY <1>1, NamesDiffer DEF Inv, TypeOK, Order, Young
<1>5. Creating'
  BY <1>1 DEF Inv, TypeOK, Creating
<1>6. Objects'
  BY <1>1 DEF Inv, TypeOK, Objects, Young
<1>7. Inboxes'
  BY <1>1 DEF Inv, TypeOK, Inboxes, Young
<1>8. RunsItsFunction'
  BY <1>1 DEF Inv, TypeOK, RunsItsFunction
<1> QED BY <1>2, <1>3, <1>4, <1>5, <1>6, <1>7, <1>8 DEF Inv

LEMMA InvNext ==
  ASSUME Inv, [Next]_vars
  PROVE  Inv'
<1>1. CASE UNCHANGED vars
  <2>1. UNCHANGED <<pc, parent, creating, pairs, boxes, refCount, closed, inbox, handles,
                    runs, asked, lost, calls>>
    BY <1>1 DEF vars, life, mail
  <2>2. Counted'
    BY <2>1 DEF Inv, Counted, Holders
  <2> QED BY <2>1, <2>2 DEF Inv, TypeOK, Order, Creating, Objects, Inboxes, RunsItsFunction
<1>2. ASSUME NEW t \in Threads, Proceed(t) PROVE Inv'
  BY <1>2, StartStep, StartFailsStep, SendFunctionStep, BeginStep, MakeParentStep,
     TakeFunctionStep, LeavePairStep, CloseStep, ThreadsDeinitStep DEF Proceed
<1>3. ASSUME NEW t \in Threads, Return(t) \/ Receive(t) \/ Current(t) PROVE Inv'
  BY <1>3, ReturnStep, ReceiveStep, CurrentStep
<1>4. ASSUME NEW t \in Threads, NEW c \in Threads, MakePair(t, c) PROVE Inv'
  BY <1>4, MakePairStep
<1>5. ASSUME NEW t \in Threads, NEW h \in handles, Send(t, h) \/ Close(t, h) PROVE Inv'
  BY <1>5, SendStep, CloseStep
<1>6. CASE Finish
  BY <1>6, FinishStep
<1> QED BY <1>1, <1>2, <1>3, <1>4, <1>5, <1>6 DEF Next

-----------------------------------------------------------------------------
(* Theorems *)

\* Threads keep the invariant: every action of thread/new, thread_worker and the end
\* of a thread carries it over.
THEOREM Invariance == Spec => []Inv
<1>1. Init => Inv
  BY InvInit
<1>2. Inv /\ [Next]_vars => Inv'
  BY InvNext
<1> QED BY <1>1, <1>2, PTL DEF Spec

\* The variables of the model keep their types.
THEOREM TypeCorrect == Spec => []TypeOK
<1>1. Inv => TypeOK
  BY DEF Inv
<1> QED BY <1>1, Invariance, PTL

\* Whatever number of threads start, fail to start, talk and end: the count in a
\* mailbox (janet_mailbox_ref) is exact, a mailbox lives as long as somebody can
\* reach it, and no step uses one that is freed.
THEOREM References == Spec => []RefsAccounted
<1>1. Inv => RefsAccounted
  BY DEF Inv, RefsAccounted, Counted, Order
<1> QED BY <1>1, Invariance, PTL

\* A mailbox outlives its thread, or one that never starts, only by threads that have
\* not gone and can reach it: the last of them takes it along, on every path.
THEOREM Reclamation == Spec => []BoxesReclaimed
<1>1. Inv => BoxesReclaimed
  <2> SUFFICES ASSUME Inv, NEW b \in boxes, pc[b] \in {"none", "gone"}
               PROVE  \/ \E h \in handles : h[2] = b /\ pc[h[1]] \notin {"none", "gone"}
                      \/ \E c \in Threads : /\ parent[c] = b /\ "original" \in pairs[c]
                                           /\ pc[c] \notin {"none", "gone"}
    BY DEF BoxesReclaimed
  <2>1. b \in Threads /\ Order /\ Objects /\ Counted
    BY DEF Inv, TypeOK
  <2>2. \A t \in Threads : pc[t] \in {"none", "gone"} => pairs[t] = {}
    BY <2>1 DEF Order
  <2>3. PICK x : x \in Holders(b)
    BY <2>1 DEF Counted
  <2>4. CASE x = <<"owner", b>> /\ pc[b] \in Alive
    BY <2>4 DEF Alive
  <2>5. CASE \E c \in Threads : x = <<"original", c>> /\ parent[c] = b /\ "original" \in pairs[c]
    BY <2>2, <2>5
  <2>6. CASE x = <<"newbox", b>> /\ "newbox" \in pairs[b]
    BY <2>1, <2>2, <2>6
  <2>7. CASE \E h \in handles : x = <<"handle", h>> /\ h[2] = b
    BY <2>1, <2>7 DEF Objects
  <2> QED BY <2>3, <2>4, <2>5, <2>6, <2>7, HolderIs
<1> QED BY <1>1, Invariance, PTL

\* What a thread takes for its function is the one given to thread/new, unless
\* that one got lost: no message overtakes it.
THEOREM FunctionFirst == Spec => []RunsItsFunction
<1>1. Inv => RunsItsFunction
  BY DEF Inv
<1> QED BY <1>1, Invariance, PTL
=============================================================================
