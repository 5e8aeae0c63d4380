---------------------------- MODULE FuturesProofs ----------------------------
(***************************************************************************)
(* Theorems about Futures, for every set of pages, results and arguments.  *)
(***************************************************************************)
EXTENDS Futures, SequenceTheorems, TLAPS

\* The list holds one node per call of future, in order, each with its page.
Registry == /\ idx = Len(nodes)
            /\ \A i \in 1..Len(nodes) : nodes[i].id = i
            /\ \A i, j \in 1..Len(nodes) : CellOf(i) = CellOf(j) => i = j

\* The futures whose fork() is behind them.
ForkedUpTo == IF pc = "fork" THEN Len(nodes) - 1 ELSE Len(nodes)

\* There is a child (or a failed fork) for exactly the pages in the list.
Children == /\ pc \in {"fork", "mark"} => Len(nodes) > 0
            /\ \A i \in 1..ForkedUpTo : child[CellOf(i)] # "none"
            /\ \A c \in Cells :
                 child[c] # "none" => \E i \in 1..ForkedUpTo : CellOf(i) = c

\* A page holds nothing, :PENDING, or the result of its own body after that.
OwnResultOnly ==
  \A c \in Cells : \/ cell[c] \in {Zero, PENDING}
                   \/ child[c] = "exited" /\ cell[c] = out[c]

\* A page the program can see is pending until its child has stored its result.
Pages == /\ OwnResultOnly
         /\ \A c \in Cells : child[c] \in {"done", "exited"} => out[c] \in Results
         /\ \A i \in 1..Published :
              \/ cell[CellOf(i)] = PENDING
              \/ child[CellOf(i)] = "exited" /\ cell[CellOf(i)] = out[CellOf(i)]

\* The future x has its result, and no process will write its page again.
Final(x) == x \in 1..Len(nodes) =>
              /\ child[CellOf(x)] = "exited"
              /\ cell[CellOf(x)] = out[CellOf(x)]
              /\ out[CellOf(x)] # PENDING

Answer(x) == IF x \in 1..Len(nodes) THEN out[CellOf(x)] ELSE MISSING

\* What the parent has learnt in the loops of deref and realize-all.
Reads ==
  /\ pc \in {"deref", "deref_sleep", "deref_read"} =>
       call.op = "deref" /\ Len(call.fs) = 1
  /\ pc = "deref_read" => Final(call.fs[1])
  /\ pc = "count" => /\ Len(ret) =< Len(call.fs)
                     /\ cnt = 0 => \A k \in 1..Len(ret) : Final(call.fs[k])
  /\ pc = "count_sleep" => ret = <<>> /\ cnt = 0
  /\ pc = "gather" => /\ Len(ret) =< Len(call.fs)
                      /\ \A k \in 1..Len(call.fs) : Final(call.fs[k])
                      /\ \A k \in 1..Len(ret) : ret[k] = Answer(call.fs[k])
  /\ (pc = "idle" /\ call.op \in {"deref", "realize_all"}) =>
       /\ Len(ret) = Len(call.fs)
       /\ \A k \in 1..Len(call.fs) : Final(call.fs[k])
       /\ \A k \in 1..Len(ret) : ret[k] = Answer(call.fs[k])
  /\ pc \in {"count", "count_sleep", "gather"} => call.op = "realize_all"
  /\ pc \in {"fork", "mark"} => call.op = "future"

Inv == TypeOK /\ Registry /\ Children /\ Pages /\ Reads

-----------------------------------------------------------------------------
(* In the list a handle is found at its own position and nothing else is. *)

LEMMA LookupFinds ==
  ASSUME Registry, nodes \in Seq([id : Int, future_out : Cells]), NEW x \in Int
  PROVE  /\ x \in 1..Len(nodes) => get_by_id(x) = {x} /\ realize(x) = cell[CellOf(x)]
         /\ x \notin 1..Len(nodes) => get_by_id(x) = {} /\ realize(x) = MISSING
<1>1. DOMAIN nodes = 1..Len(nodes)
  BY LenProperties
<1>2. CASE x \in 1..Len(nodes)
  <2>1. get_by_id(x) = {x}
    BY <1>1, <1>2 DEF get_by_id, Registry
  <2>2. (CHOOSE i \in get_by_id(x) : TRUE) = x
    BY <2>1
  <2>3. realize(x) = cell[CellOf(x)]
    BY <2>1, <2>2 DEF realize, CellOf
  <2> QED BY <1>2, <2>1, <2>3
<1>3. CASE x \notin 1..Len(nodes)
  <2>1. get_by_id(x) = {}
    BY <1>1, <1>3 DEF get_by_id, Registry
  <2> QED BY <1>3, <2>1 DEF realize
<1> QED BY <1>2, <1>3

\* A future that is visible and not pending has its final answer.
LEMMA NotPendingIsFinal ==
  ASSUME Inv, Published = Len(nodes), NEW x \in Args, realize(x) # PENDING
  PROVE  Final(x) /\ realize(x) = Answer(x)
<1>1. x \in Int
  BY ArgsAreInts
<1>2. CASE x \in 1..Len(nodes)
  <2>1. realize(x) = cell[CellOf(x)]
    BY <1>1, <1>2, LookupFinds DEF Inv, TypeOK
  <2> QED BY <1>2, <2>1 DEF Inv, Pages, Final, Answer
<1>3. CASE x \notin 1..Len(nodes)
  BY <1>1, <1>3, LookupFinds DEF Inv, TypeOK, Final, Answer
<1> QED BY <1>2, <1>3

LEMMA BatchIsSeq == Batches \subseteq Seq(Args)
BY SeqDef, ArgsAreInts DEF Batches

-----------------------------------------------------------------------------
LEMMA InitInv == Init => Inv
BY ValuesDistinct DEF Init, Inv, TypeOK, Values, Registry, Children, ForkedUpTo,
   Published, Pages, OwnResultOnly, Reads, CellOf

LEMMA RealizeType ==
  ASSUME Inv, NEW x \in Int
  PROVE  realize(x) \in Answers
<1>1. CASE x \in 1..Len(nodes)
  <2>1. realize(x) = cell[CellOf(x)]
    BY <1>1, LookupFinds DEF Inv, TypeOK
  <2>2. CellOf(x) \in Cells
    <3>1. nodes[x] \in [id : Int, future_out : Cells]
      BY <1>1, ElementOfSeq DEF Inv, TypeOK
    <3> QED BY <3>1 DEF CellOf
  <2>3. cell \in [Cells -> Values]
    BY DEF Inv, TypeOK
  <2> QED BY <2>1, <2>2, <2>3 DEF Answers
<1>2. CASE x \notin 1..Len(nodes)
  BY <1>2, LookupFinds DEF Inv, TypeOK, Answers
<1> QED BY <1>1, <1>2

LEMMA FsElement ==
  ASSUME TypeOK, NEW k \in 1..Len(call.fs)
  PROVE  call.fs[k] \in Args /\ call.fs[k] \in Int
<1>1. call.fs \in Seq(Args)
  BY DEF TypeOK
<1> QED BY <1>1, ElementOfSeq, ArgsAreInts

LEMMA Singleton == \A S : \A e \in S : <<e>> \in Seq(S) /\ Len(<<e>>) = 1 /\ <<e>>[1] = e
OBVIOUS

LEMMA TypeStep ==
  ASSUME Inv, [Next]_vars
  PROVE  TypeOK'
<1> USE DEF Inv, TypeOK, Values
<1>1. CASE Allocate
  BY <1>1 DEF Allocate, push
<1>2. CASE Fork
  BY <1>2 DEF Fork
<1>3. CASE MarkPending
  <2>1. <<idx>> \in Seq(Answers \cup Int)
    BY Singleton
  <2> QED BY <1>3, <2>1 DEF MarkPending
<1>4. CASE Realize
  <2>1. PICK x \in Args :
          /\ call' = [op |-> "realize", fs |-> <<x>>]
          /\ \/ pc' = "crashed" /\ ret' = <<>>
             \/ pc' = "idle" /\ ret' = <<realize(x)>>
    BY <1>4 DEF Realize
  <2>2. <<realize(x)>> \in Seq(Answers \cup Int) /\ <<x>> \in Seq(Args)
    BY Singleton, RealizeType, ArgsAreInts
  <2>3. UNCHANGED <<reader, cnt>>
    BY <1>4 DEF Realize
  <2>4. ret' \in Seq(Answers \cup Int)
    <3> HIDE DEF Inv, TypeOK, Values
    <3>1. <<>> \in Seq(Answers \cup Int)
      OBVIOUS
    <3> QED BY <2>1, <2>2, <3>1
  <2>5. call' \in [op : {"none", "future", "realize", "deref", "realize_all"},
                   fs : Seq(Args)]
    BY <2>1, <2>2
  <2> QED BY <2>1, <2>3, <2>4, <2>5 DEF reader
<1>5. CASE CallDeref
  <2>1. \A x \in Args : <<x>> \in Seq(Args)
    BY Singleton
  <2> QED BY <1>5, <2>1 DEF CallDeref, reader
<1>6. CASE DerefPoll
  BY <1>6 DEF DerefPoll, Crash, reader
<1>7. CASE DerefSleep
  BY <1>7 DEF DerefSleep, reader
<1>8. CASE DerefRead
  <2>1. call.fs[1] \in Int
    <3>1. pc = "deref_read"
      BY <1>8 DEF DerefRead
    <3>2. 1 \in 1..Len(call.fs)
      BY <3>1 DEF Reads
    <3> QED BY <3>2, FsElement
  <2>2. <<realize(call.fs[1])>> \in Seq(Answers \cup Int)
    BY <2>1, Singleton, RealizeType
  <2> QED BY <1>8, <2>2 DEF DerefRead, reader
<1>9. CASE CallRealizeAll
  BY <1>9, BatchIsSeq DEF CallRealizeAll, reader
<1>10. CASE CountOne
  <2>1. CASE Crash(call.fs[Len(ret) + 1])
    BY <2>1 DEF Crash, reader
  <2>2. CASE ~Crash(call.fs[Len(ret) + 1])
    <3>1. call.fs[Len(ret) + 1] \in Int
      <4>1. Len(ret) < Len(call.fs) /\ Len(ret) \in Nat /\ Len(call.fs) \in Nat
        BY <1>10 DEF CountOne
      <4> QED BY <4>1, FsElement
    <3>2. realize(call.fs[Len(ret) + 1]) \in Answers
      BY <3>1, RealizeType
    <3>3. /\ ret' = Append(ret, realize(call.fs[Len(ret) + 1]))
          /\ cnt' \in Nat
          /\ UNCHANGED <<reader, call, pc>>
      BY <1>10, <2>2 DEF CountOne
    <3> QED BY <3>2, <3>3 DEF reader
  <2> QED BY <2>1, <2>2
<1>11. CASE CountDone
  BY <1>11 DEF CountDone, reader
<1>12. CASE CountSleep
  BY <1>12 DEF CountSleep, reader
<1>13. CASE GatherOne
  <2>1. call.fs[Len(ret) + 1] \in Int
    <3>1. Len(ret) < Len(call.fs) /\ Len(ret) \in Nat /\ Len(call.fs) \in Nat
      BY <1>13 DEF GatherOne
    <3> QED BY <3>1, FsElement
  <2>2. realize(call.fs[Len(ret) + 1]) \in Answers
    BY <2>1, RealizeType
  <2> QED BY <1>13, <2>2 DEF GatherOne, reader
<1>14. CASE GatherDone
  BY <1>14 DEF GatherDone, reader
<1>15. ASSUME NEW c \in Cells, RunBody(c)
       PROVE  TypeOK'
  BY <1>15 DEF RunBody, parent
<1>16. ASSUME NEW c \in Cells, StoreResult(c)
       PROVE  TypeOK'
  BY <1>16 DEF StoreResult, parent
<1>17. CASE UNCHANGED vars
  BY <1>17 DEF vars
<1> QED BY <1>1, <1>2, <1>3, <1>4, <1>5, <1>6, <1>7, <1>8, <1>9, <1>10, <1>11,
           <1>12, <1>13, <1>14, <1>15, <1>16, <1>17 DEF Next, Parent, Child

-----------------------------------------------------------------------------
(* Allocate is the only step that touches the list; the page it takes is     *)
(* fresh because every page in the list has been forked for.                 *)

LEMMA AllocateStep ==
  ASSUME Inv, Allocate
  PROVE  Registry' /\ Children' /\ Pages' /\ Reads'
<1>1. PICK c \in Cells :
        /\ pc = "idle" /\ child[c] = "none"
        /\ idx' = idx + 1
        /\ nodes' = Append(nodes, [id |-> idx + 1, future_out |-> c])
        /\ pc' = "fork"
        /\ call' = [op |-> "future", fs |-> <<>>] /\ ret' = <<>>
        /\ UNCHANGED <<cell, child, out, cnt>>
  BY DEF Allocate, push
<1>2. /\ Len(nodes) \in Nat
      /\ Len(nodes') = Len(nodes) + 1
      /\ \A i \in 1..Len(nodes) : nodes'[i] = nodes[i]
      /\ nodes'[Len(nodes) + 1] = [id |-> idx + 1, future_out |-> c]
  BY <1>1 DEF Inv, TypeOK
<1>3. \A i \in 1..Len(nodes) : CellOf(i)' = CellOf(i) /\ CellOf(i) # c
  BY <1>1, <1>2 DEF CellOf, Inv, Children, ForkedUpTo
<1>4. nodes'[Len(nodes) + 1].future_out = c /\ nodes'[Len(nodes) + 1].id = idx + 1
  BY <1>2
<1>5. Registry'
  <2>1. idx' = Len(nodes') /\ \A i \in 1..Len(nodes') : nodes'[i].id = i
    BY <1>1, <1>2, <1>4 DEF Inv, Registry
  <2>2. ASSUME NEW i \in 1..Len(nodes'), NEW j \in 1..Len(nodes'),
               nodes'[i].future_out = nodes'[j].future_out
        PROVE  i = j
    <3>1. CASE i \in 1..Len(nodes) /\ j \in 1..Len(nodes)
      BY <1>2, <2>2, <3>1 DEF Inv, Registry, CellOf
    <3>2. CASE i = Len(nodes) + 1 \/ j = Len(nodes) + 1
      BY <1>2, <1>3, <1>4, <2>2, <3>2 DEF CellOf
    <3> QED BY <1>2, <3>1, <3>2
  <2> QED BY <2>1, <2>2 DEF Registry, CellOf
<1>6. Children'
  BY <1>1, <1>2, <1>3 DEF Inv, Children, ForkedUpTo
<1>7. Pages'
  BY <1>1, <1>2, <1>3 DEF Inv, Pages, OwnResultOnly, Published
<1>8. Reads'
  BY <1>1 DEF Reads
<1> QED BY <1>5, <1>6, <1>7, <1>8

LEMMA NewestIsLast ==
  ASSUME Inv, pc \in {"fork", "mark"}
  PROVE  /\ Len(nodes) \in 1..Len(nodes) /\ Len(nodes) \in Nat
         /\ Newest = CellOf(Len(nodes)) /\ Newest \in Cells
         /\ \A i \in 1..(Len(nodes) - 1) : CellOf(i) # Newest /\ CellOf(i) \in Cells
<1>1. Len(nodes) \in Nat /\ Len(nodes) > 0
  BY DEF Inv, TypeOK, Children
<1>2. Newest = CellOf(Len(nodes))
  BY DEF Newest, CellOf
<1>3. \A i \in 1..Len(nodes) : CellOf(i) \in Cells
  <2> TAKE i \in 1..Len(nodes)
  <2>1. nodes[i] \in [id : Int, future_out : Cells]
    BY ElementOfSeq DEF Inv, TypeOK
  <2> QED BY <2>1 DEF CellOf
<1>4. \A i \in 1..(Len(nodes) - 1) : CellOf(i) # CellOf(Len(nodes))
  BY <1>1 DEF Inv, Registry
<1> QED BY <1>1, <1>2, <1>3, <1>4

LEMMA ForkStep ==
  ASSUME Inv, Fork
  PROVE  Registry' /\ Children' /\ Pages' /\ Reads'
<1>1. /\ pc = "fork" /\ pc' = "mark"
      /\ UNCHANGED <<idx, nodes, cell, out, call, ret, cnt>>
  BY DEF Fork
<1>2. PICK s \in {"running", "nofork"} : child' = [child EXCEPT ![Newest] = s]
  BY DEF Fork
<1>3. /\ child \in [Cells -> {"none", "running", "done", "exited", "panicked", "nofork"}]
      /\ child[Newest] = "none"
  <2>1. \A i \in 1..(Len(nodes) - 1) : CellOf(i) # Newest
    BY <1>1, NewestIsLast
  <2> QED BY <1>1, <2>1, NewestIsLast DEF Inv, TypeOK, Children, ForkedUpTo
<1>4. \A i \in DOMAIN nodes : CellOf(i)' = CellOf(i)
  BY <1>1 DEF CellOf
<1>5. Registry'
  BY <1>1 DEF Inv, Registry, CellOf
<1>6. Children'
  <2>1. \A i \in 1..Len(nodes) : child'[CellOf(i)] # "none"
    BY <1>1, <1>2, <1>3, NewestIsLast DEF Inv, Children, ForkedUpTo
  <2>2. \A c \in Cells : child'[c] # "none" => \E i \in 1..Len(nodes) : CellOf(i) = c
    BY <1>1, <1>2, <1>3, NewestIsLast DEF Inv, Children, ForkedUpTo
  <2> QED BY <1>1, <2>1, <2>2, NewestIsLast DEF Children, ForkedUpTo, CellOf
<1>7. Pages'
  <2>1. \A c \in Cells : child'[c] = child[c] \/ (child[c] = "none" /\ child'[c] \notin {"done", "exited"})
    BY <1>2, <1>3
  <2>2. OwnResultOnly'
    BY <1>1, <2>1 DEF Inv, Pages, OwnResultOnly
  <2>3. Published' = Published
    BY <1>1 DEF Published
  <2>4. \A i \in 1..Published : CellOf(i) \in Cells
    BY <1>1, NewestIsLast DEF Published
  <2>5. \A i \in 1..Published :
           \/ cell[CellOf(i)] = PENDING
           \/ child'[CellOf(i)] = "exited" /\ cell[CellOf(i)] = out[CellOf(i)]
    BY <2>1, <2>4 DEF Inv, Pages
  <2>6. \A c \in Cells : child'[c] \in {"done", "exited"} => out[c] \in Results
    BY <2>1 DEF Inv, Pages
  <2> QED BY <1>1, <2>2, <2>3, <2>5, <2>6 DEF Pages, CellOf
<1>8. Reads'
  BY <1>1 DEF Inv, Reads
<1> QED BY <1>5, <1>6, <1>7, <1>8

LEMMA MarkStep ==
  ASSUME Inv, MarkPending
  PROVE  Registry' /\ Children' /\ Pages' /\ Reads'
<1>1. /\ pc = "mark" /\ pc' = "idle"
      /\ cell' = [cell EXCEPT ![Newest] = PENDING]
      /\ UNCHANGED <<idx, nodes, child, out, call, cnt>>
  BY DEF MarkPending
<1>2. cell \in [Cells -> Values]
  BY DEF Inv, TypeOK
<1>3. Registry' /\ Children'
  BY <1>1 DEF Inv, Registry, Children, ForkedUpTo, CellOf
<1>4. Pages'
  <2>1. OwnResultOnly'
    BY <1>1, <1>2 DEF Inv, Pages, OwnResultOnly
  <2>2. \A i \in 1..Len(nodes) : \/ cell'[CellOf(i)] = PENDING
                                 \/ child[CellOf(i)] = "exited" /\ cell'[CellOf(i)] = out[CellOf(i)]
    BY <1>1, <1>2, NewestIsLast DEF Inv, Pages, Published
  <2> QED BY <1>1, <2>1, <2>2 DEF Inv, Pages, Published, CellOf
<1>5. Reads'
  <2>1. call.op = "future"
    BY <1>1 DEF Inv, Reads
  <2> QED BY <1>1, <2>1 DEF Reads
<1> QED BY <1>3, <1>4, <1>5

-----------------------------------------------------------------------------
(* A child only ever writes while it has not exited, so it leaves every       *)
(* final answer alone.                                                        *)

LEMMA CellsInList ==
  ASSUME Inv, NEW i \in 1..Len(nodes)
  PROVE  CellOf(i) \in Cells
<1>1. nodes[i] \in [id : Int, future_out : Cells]
  BY ElementOfSeq DEF Inv, TypeOK
<1> QED BY <1>1 DEF CellOf

LEMMA FinalIsStable ==
  ASSUME Inv, NEW c \in Cells, child[c] # "exited", UNCHANGED parent,
         \A d \in Cells \ {c} : child'[d] = child[d] /\ out'[d] = out[d] /\ cell'[d] = cell[d]
  PROVE  /\ \A x : Final(x) => Final(x)' /\ Answer(x)' = Answer(x)
         /\ Reads'
<1>1. ASSUME NEW x, Final(x)
      PROVE  Final(x)' /\ Answer(x)' = Answer(x)
  <2>1. nodes' = nodes
    BY DEF parent
  <2>2. CASE x \in 1..Len(nodes)
    <3>1. CellOf(x) \in Cells \ {c}
      BY <1>1, <2>2, CellsInList DEF Final
    <3> QED BY <1>1, <2>1, <2>2, <3>1 DEF Final, Answer, CellOf
  <2>3. CASE x \notin 1..Len(nodes)
    BY <2>1, <2>3 DEF Final, Answer
  <2> QED BY <2>2, <2>3
<1>2. UNCHANGED <<idx, nodes, pc, call, ret, cnt>>
  BY DEF parent
<1>3. Len(ret) \in Nat /\ Len(call.fs) \in Nat
  BY DEF Inv, TypeOK
<1>4. Reads
  BY DEF Inv
<1>5. Reads'
  <2>1. pc' = "deref_read" => Final(call.fs[1])'
    BY <1>1, <1>2, <1>4 DEF Reads
  <2>2. (pc' = "count" /\ cnt' = 0) => \A k \in 1..Len(ret) : Final(call.fs[k])'
    BY <1>1, <1>2, <1>4 DEF Reads
  <2>3. (pc' = "gather" \/ (pc' = "idle" /\ call.op \in {"deref", "realize_all"})) =>
           \A k \in 1..Len(call.fs) : Final(call.fs[k])'
    BY <1>1, <1>2, <1>4 DEF Reads
  <2>4. (pc' = "gather" \/ (pc' = "idle" /\ call.op \in {"deref", "realize_all"})) =>
           \A k \in 1..Len(ret) : ret[k] = Answer(call.fs[k])'
    <3>1. (pc = "gather" \/ (pc = "idle" /\ call.op \in {"deref", "realize_all"})) =>
           \A k \in 1..Len(ret) : k \in 1..Len(call.fs)
      BY <1>3, <1>4 DEF Reads
    <3> QED BY <1>1, <1>2, <1>4, <3>1 DEF Reads
  <2> QED BY <1>2, <1>4, <2>1, <2>2, <2>3, <2>4 DEF Reads
<1> QED BY <1>1, <1>5

LEMMA RunBodyStep ==
  ASSUME Inv, NEW c \in Cells, RunBody(c)
  PROVE  Registry' /\ Children' /\ Pages' /\ Reads'
<1>1. /\ child[c] = "running" /\ cell' = cell /\ UNCHANGED parent
      /\ \A d \in Cells \ {c} : child'[d] = child[d] /\ out'[d] = out[d]
      /\ (child'[c] = "done" /\ out'[c] \in Results) \/ child'[c] = "panicked"
  BY DEF RunBody, Inv, TypeOK
<1>2. Reads'
  BY <1>1, FinalIsStable
<1>3. Registry' /\ Children'
  <2>1. \A i \in 1..ForkedUpTo : CellOf(i) \in Cells
    BY CellsInList DEF ForkedUpTo, Inv, TypeOK
  <2> QED BY <1>1, <2>1 DEF parent, Inv, Registry, Children, ForkedUpTo, CellOf
<1>4. Pages'
  <2>1. OwnResultOnly'
    BY <1>1 DEF Inv, Pages, OwnResultOnly
  <2>2. \A d \in Cells : child'[d] \in {"done", "exited"} => out'[d] \in Results
    BY <1>1 DEF Inv, Pages
  <2>3. \A i \in 1..Published : \/ cell[CellOf(i)] = PENDING
                                \/ child'[CellOf(i)] = "exited" /\ cell[CellOf(i)] = out'[CellOf(i)]
    <3>1. \A i \in 1..Published : CellOf(i) \in Cells
      BY CellsInList DEF Published, Inv, TypeOK
    <3> QED BY <1>1, <3>1 DEF Inv, Pages
  <2> QED BY <1>1, <2>1, <2>2, <2>3 DEF Pages, Published, CellOf, parent
<1> QED BY <1>2, <1>3, <1>4

LEMMA StoreResultStep ==
  ASSUME Inv, NEW c \in Cells, StoreResult(c)
  PROVE  Registry' /\ Children' /\ Pages' /\ Reads'
<1>1. /\ child[c] = "done" /\ child'[c] = "exited"
      /\ cell'[c] = out[c] /\ out' = out /\ UNCHANGED parent
      /\ \A d \in Cells \ {c} : child'[d] = child[d] /\ cell'[d] = cell[d]
  BY DEF StoreResult, Inv, TypeOK
<1>2. Reads'
  BY <1>1, FinalIsStable
<1>3. Registry' /\ Children'
  <2>1. \A i \in 1..ForkedUpTo : CellOf(i) \in Cells
    BY CellsInList DEF ForkedUpTo, Inv, TypeOK
  <2> QED BY <1>1, <2>1 DEF parent, Inv, Registry, Children, ForkedUpTo, CellOf
<1>4. Pages'
  <2>1. OwnResultOnly'
    BY <1>1 DEF Inv, Pages, OwnResultOnly
  <2>2. \A d \in Cells : child'[d] \in {"done", "exited"} => out'[d] \in Results
    BY <1>1 DEF Inv, Pages
  <2>3. \A i \in 1..Published : \/ cell'[CellOf(i)] = PENDING
                                \/ child'[CellOf(i)] = "exited" /\ cell'[CellOf(i)] = out[CellOf(i)]
    <3>1. \A i \in 1..Published : CellOf(i) \in Cells
      BY CellsInList DEF Published, Inv, TypeOK
    <3> QED BY <1>1, <3>1 DEF Inv, Pages
  <2> QED BY <1>1, <2>1, <2>2, <2>3 DEF Pages, Published, CellOf, parent
<1> QED BY <1>2, <1>3, <1>4

-----------------------------------------------------------------------------
(* The readers change no page and no node. *)

LEMMA ReaderFrame ==
  ASSUME Inv, UNCHANGED reader, pc \notin {"fork", "mark"}, pc' \notin {"fork", "mark"}
  PROVE  /\ Registry' /\ Children' /\ Pages'
         /\ \A x : Final(x)' = Final(x) /\ Answer(x)' = Answer(x) /\ realize(x)' = realize(x)
<1>1. UNCHANGED <<idx, nodes, cell, child, out>>
  BY DEF reader
<1>2. Registry' /\ Children' /\ Pages'
  BY <1>1 DEF Inv, Registry, Children, ForkedUpTo, Pages, OwnResultOnly, Published, CellOf
<1>3. \A x : Final(x)' = Final(x) /\ Answer(x)' = Answer(x) /\ realize(x)' = realize(x)
  BY <1>1 DEF Final, Answer, realize, get_by_id, CellOf
<1> QED BY <1>2, <1>3

LEMMA ReaderStep ==
  ASSUME Inv,
         \/ Realize \/ CallDeref \/ DerefPoll \/ DerefSleep \/ DerefRead
         \/ CallRealizeAll \/ CountOne \/ CountDone \/ CountSleep
         \/ GatherOne \/ GatherDone
  PROVE  Registry' /\ Children' /\ Pages' /\ Reads'
<1>1. /\ UNCHANGED reader
      /\ pc \notin {"fork", "mark"} /\ pc' \notin {"fork", "mark"}
  BY DEF Realize, CallDeref, DerefPoll, DerefSleep, DerefRead, CallRealizeAll, CountOne,
     CountDone, CountSleep, GatherOne, GatherDone, Crash
<1>2. /\ Registry' /\ Children' /\ Pages'
      /\ \A x : Final(x)' = Final(x) /\ Answer(x)' = Answer(x) /\ realize(x)' = realize(x)
  BY <1>1, ReaderFrame
<1>3. Published = Len(nodes)
  BY <1>1 DEF Published
<1>4. Reads /\ TypeOK
  BY DEF Inv
<1>5. Len(ret) \in Nat /\ Len(call.fs) \in Nat /\ cnt \in Nat
  BY DEF Inv, TypeOK
<1> SUFFICES Reads'
  BY <1>2
<1>6. CASE Realize
  <2>1. call'.op = "realize" /\ pc' \in {"idle", "crashed"}
    BY <1>6 DEF Realize
  <2> QED BY <1>2, <2>1 DEF Reads
<1>7. CASE CallDeref
  <2>1. call'.op = "deref" /\ Len(call'.fs) = 1 /\ pc' = "deref"
    BY <1>7 DEF CallDeref
  <2> QED BY <1>2, <2>1 DEF Reads
<1>8. CASE DerefPoll
  <2>1. /\ pc = "deref" /\ UNCHANGED <<call, ret, cnt>>
        /\ \/ pc' \in {"crashed", "deref_sleep"}
           \/ pc' = "deref_read" /\ realize(call.fs[1]) # PENDING
    BY <1>8 DEF DerefPoll, Crash
  <2>2. 1 \in 1..Len(call.fs)
    BY <1>4, <2>1 DEF Reads
  <2>3. pc' = "deref_read" => Final(call.fs[1])
    BY <1>3, <1>4, <2>1, <2>2, FsElement, NotPendingIsFinal
  <2>4. Final(call.fs[1])' = Final(call.fs[1])
    BY <2>1, <1>1 DEF Final, reader, CellOf
  <2> QED BY <1>2, <1>4, <2>1, <2>3, <2>4 DEF Reads
<1>9. CASE DerefSleep
  BY <1>2, <1>4, <1>9 DEF DerefSleep, Reads
<1>10. CASE DerefRead
  <2>1. /\ pc = "deref_read" /\ pc' = "idle" /\ UNCHANGED <<call, cnt>>
        /\ ret' = <<realize(call.fs[1])>>
    BY <1>10 DEF DerefRead
  <2>2. Final(call.fs[1]) /\ call.op = "deref" /\ Len(call.fs) = 1
    BY <1>4, <2>1 DEF Reads
  <2>3. realize(call.fs[1]) = Answer(call.fs[1])
    <3>1. call.fs[1] \in Int
      BY <1>4, <2>2, FsElement
    <3> QED BY <1>4, <2>2, <3>1, LookupFinds DEF Inv, TypeOK, Final, Answer
  <2>4. Final(call.fs[1])' /\ Answer(call.fs[1])' = Answer(call.fs[1])
    BY <1>1, <2>1, <2>2 DEF Final, Answer, reader, CellOf
  <2>5. Len(ret') = 1 /\ ret'[1] = Answer(call.fs[1])'
    BY <2>1, <2>3, <2>4
  <2>6. /\ \A k \in 1..Len(call'.fs) : k = 1
        /\ \A k \in 1..Len(ret') : k = 1
    BY <2>1, <2>2, <2>5
  <2> QED BY <2>1, <2>2, <2>4, <2>5, <2>6 DEF Reads
<1>11. CASE CallRealizeAll
  <2>1. pc' = "count" /\ call'.op = "realize_all" /\ ret' = <<>> /\ cnt' = 0
    BY <1>11 DEF CallRealizeAll
  <2>2. Len(call'.fs) \in Nat
    <3>1. call'.fs \in Seq(Args)
      BY <1>11, BatchIsSeq DEF CallRealizeAll
    <3> QED BY <3>1
  <2> QED BY <2>1, <2>2 DEF Reads
<1>12. CASE CountOne
  <2> DEFINE x == call.fs[Len(ret) + 1]
  <2>1. /\ pc = "count" /\ UNCHANGED call
        /\ Len(ret) < Len(call.fs)
        /\ \/ pc' = "crashed"
           \/ /\ pc' = "count"
              /\ ret' = Append(ret, realize(x))
              /\ cnt' = IF realize(x) = PENDING THEN cnt + 1 ELSE cnt
    BY <1>12 DEF CountOne, Crash
  <2>2. CASE pc' = "crashed"
    BY <2>2 DEF Reads
  <2>3. CASE pc' = "count"
    <3>1. Len(ret') = Len(ret) + 1 /\ cnt' = IF realize(x) = PENDING THEN cnt + 1 ELSE cnt
      BY <1>4, <2>1, <2>3 DEF TypeOK
    <3>2. cnt' = 0 => Final(x)
      BY <1>3, <1>4, <1>5, <2>1, <3>1, FsElement, NotPendingIsFinal
    <3>3. cnt' = 0 => \A k \in 1..Len(ret) : Final(call.fs[k])
      BY <1>4, <1>5, <2>1, <3>1 DEF Reads
    <3>4. cnt' = 0 => \A k \in 1..Len(ret') : Final(call.fs[k])
      BY <1>5, <3>1, <3>2, <3>3
    <3>5. cnt' = 0 => \A k \in 1..Len(ret') : Final(call.fs[k])'
      BY <1>1, <2>1, <3>4 DEF Final, reader, CellOf
    <3> QED BY <1>4, <1>5, <2>1, <2>3, <3>1, <3>5 DEF Reads
  <2> QED BY <2>1, <2>2, <2>3
<1>13. CASE CountDone
  <2>1. /\ pc = "count" /\ Len(ret) = Len(call.fs) /\ UNCHANGED call
        /\ ret' = <<>> /\ cnt' = 0
        /\ pc' = IF cnt > 0 THEN "count_sleep" ELSE "gather"
    BY <1>13 DEF CountDone
  <2>2. pc' = "gather" => \A k \in 1..Len(call.fs) : Final(call.fs[k])
    BY <1>4, <1>5, <2>1 DEF Reads
  <2>3. pc' = "gather" => \A k \in 1..Len(call.fs) : Final(call.fs[k])'
    BY <1>1, <2>1, <2>2 DEF Final, reader, CellOf
  <2>4. Len(ret') = 0
    BY <2>1
  <2> QED BY <1>4, <1>5, <2>1, <2>3, <2>4 DEF Reads
<1>14. CASE CountSleep
  <2>1. /\ pc = "count_sleep" /\ pc' = "count" /\ UNCHANGED <<call, ret, cnt>>
    BY <1>14 DEF CountSleep
  <2>2. Len(ret') = 0
    BY <1>4, <2>1 DEF Reads
  <2> QED BY <1>4, <1>5, <2>1, <2>2 DEF Reads
<1>15. CASE GatherOne
  <2> DEFINE x == call.fs[Len(ret) + 1]
  <2>1. /\ pc = "gather" /\ pc' = "gather" /\ UNCHANGED call
        /\ Len(ret) < Len(call.fs)
        /\ ret' = Append(ret, realize(x))
    BY <1>15 DEF GatherOne
  <2>2. /\ Len(ret') = Len(ret) + 1
        /\ \A k \in 1..Len(ret) : ret'[k] = ret[k]
        /\ ret'[Len(ret) + 1] = realize(x)
    BY <1>4, <2>1 DEF TypeOK
  <2>3. \A k \in 1..Len(call.fs) : Final(call.fs[k])
    BY <1>4, <2>1 DEF Reads
  <2>4. realize(x) = Answer(x)
    <3>1. x \in Int /\ Final(x)
      BY <1>4, <1>5, <2>1, <2>3, FsElement
    <3> QED BY <1>4, <3>1, LookupFinds DEF Inv, TypeOK, Final, Answer
  <2>5. \A k \in 1..Len(call.fs) : Final(call.fs[k])'
    BY <1>1, <2>1, <2>3 DEF Final, reader, CellOf
  <2>6. \A k \in 1..Len(ret') : ret'[k] = Answer(call.fs[k])
    BY <1>4, <1>5, <2>1, <2>2, <2>4 DEF Reads
  <2>7. \A k \in 1..Len(ret') : ret'[k] = Answer(call.fs[k])'
    BY <1>1, <2>1, <2>6 DEF Answer, reader, CellOf
  <2> QED BY <1>4, <1>5, <2>1, <2>2, <2>5, <2>7 DEF Reads
<1>16. CASE GatherDone
  <2>1. /\ pc = "gather" /\ pc' = "idle" /\ UNCHANGED <<call, ret, cnt>>
        /\ Len(ret) = Len(call.fs)
    BY <1>16 DEF GatherDone
  <2>2. /\ \A k \in 1..Len(call.fs) : Final(call.fs[k])'
        /\ \A k \in 1..Len(ret) : ret[k] = Answer(call.fs[k])'
    BY <1>1, <1>4, <2>1 DEF Reads, Final, Answer, reader, CellOf
  <2> QED BY <1>4, <2>1, <2>2 DEF Reads
<1> QED BY <1>2, <1>6, <1>7, <1>8, <1>9, <1>10, <1>11, <1>12, <1>13, <1>14, <1>15, <1>16

LEMMA InvStep == Inv /\ [Next]_vars => Inv'
<1> SUFFICES ASSUME Inv, [Next]_vars PROVE Inv'
  OBVIOUS
<1>1. CASE UNCHANGED vars
  <2>1. Registry' /\ Children' /\ Pages' /\ Reads'
    BY <1>1 DEF vars, Inv, Registry, Children, ForkedUpTo, Pages, OwnResultOnly, Published,
       CellOf, Reads, Final, Answer
  <2> QED BY <2>1, TypeStep DEF Inv
<1>2. CASE Next
  BY <1>2, TypeStep, AllocateStep, ForkStep, MarkStep, RunBodyStep, StoreResultStep,
     ReaderStep DEF Inv, Next, Parent, Child
<1> QED BY <1>1, <1>2

LEMMA Invariance == Spec => []Inv
BY InitInv, InvStep, PTL DEF Spec

-----------------------------------------------------------------------------
\* Every variable of futures.c, of its children and of the library functions
\* keeps its type.
THEOREM TypeCorrect == Spec => []TypeOK
BY Invariance, PTL DEF Inv

\* The id future returns names, for ever, the node, the page and the child of
\* that call, however many futures there are.
THEOREM HandlesCorrect == Spec => []HandlesNameTheirCells
<1>1. Inv => HandlesNameTheirCells
  <2> SUFFICES ASSUME Inv PROVE HandlesNameTheirCells
    OBVIOUS
  <2>1. Registry /\ nodes \in Seq([id : Int, future_out : Cells]) /\ Len(nodes) \in Nat
    BY DEF Inv, TypeOK
  <2>2. \A i \in 1..idx : get_by_id(i) = {i}
    BY <2>1, LookupFinds DEF Registry
  <2>3. ASSUME NEW c \in Cells, child[c] # "none"
        PROVE  \E i \in 1..idx : CellOf(i) = c
    BY <2>1, <2>3 DEF Inv, Children, ForkedUpTo, Registry
  <2> QED BY <2>1, <2>2, <2>3 DEF HandlesNameTheirCells, Registry
<1> QED BY <1>1, Invariance, PTL

\* deref and realize-all return the results of their own futures, never
\* :PENDING, although they look every future up twice.
THEOREM DerefCorrect == Spec => []AnswersAreFinal
<1>1. Inv => AnswersAreFinal
  <2> SUFFICES ASSUME Inv, pc = "idle", call.op \in {"deref", "realize_all"}
               PROVE  /\ Len(ret) = Len(call.fs)
                      /\ \A k \in 1..Len(ret) : LET x == call.fs[k] IN
                           /\ ret[k] # PENDING
                           /\ IF x \in 1..idx
                              THEN child[CellOf(x)] = "exited" /\ ret[k] = out[CellOf(x)]
                              ELSE ret[k] = MISSING
    BY DEF AnswersAreFinal
  <2>1. /\ Len(ret) = Len(call.fs) /\ idx = Len(nodes)
        /\ \A k \in 1..Len(call.fs) : Final(call.fs[k])
        /\ \A k \in 1..Len(ret) : ret[k] = Answer(call.fs[k])
    BY DEF Inv, Reads, Registry
  <2> QED BY <2>1, ValuesDistinct DEF Final, Answer
<1> QED BY <1>1, Invariance, PTL

-----------------------------------------------------------------------------
(* Refinement of FutureService. *)

View == [i \in 1..Published |-> cell[CellOf(i)]]

\* A step that leaves every published page alone is invisible.
LEMMA SameView ==
  ASSUME Published' = Published, \A i \in 1..Published : cell'[CellOf(i)'] = cell[CellOf(i)]
  PROVE  View' = View
BY DEF View

LEMMA PublishedCells ==
  ASSUME Inv
  PROVE  /\ Published \in Nat /\ Published =< Len(nodes)
         /\ \A i \in 1..Published : CellOf(i) \in Cells
<1>1. Published \in Nat /\ Published =< Len(nodes)
  BY DEF Inv, TypeOK, Published, Children
<1>2. \A i \in 1..Published : i \in 1..Len(nodes)
  BY <1>1 DEF Inv, TypeOK
<1> QED BY <1>1, <1>2, CellsInList

\* The whole program behaves, seen through realize, as write-once boxes that
\* are handed out empty, for any number of futures and any scheduling.
THEOREM Refinement == Spec => ServiceSpec
<1>1. Init => Service!Init
  <2> SUFFICES ASSUME Init PROVE View = <<>>
    BY DEF Service!Init, View
  <2>1. Published = 0
    BY DEF Init, Published
  <2> QED BY <2>1 DEF View
<1>2. Inv /\ Inv' /\ [Next]_vars => [Service!Next]_View
  <2> SUFFICES ASSUME Inv, Inv', [Next]_vars
               PROVE  Service!Next \/ View' = View
    OBVIOUS
  <2> USE PublishedCells
  <2>1. CASE Allocate
    <3>1. Published' = Published /\ Published = Len(nodes) /\ cell' = cell
      BY <2>1 DEF Allocate, push, Published, Inv, TypeOK
    <3>2. \A i \in 1..Len(nodes) : nodes'[i] = nodes[i]
      BY <2>1 DEF Allocate, push, Inv, TypeOK
    <3> QED BY <3>1, <3>2, SameView DEF CellOf
  <2>2. CASE Fork
    BY <2>2, SameView DEF Fork, Published, CellOf
  <2>3. CASE MarkPending
    <3>1. /\ pc = "mark" /\ pc' = "idle" /\ nodes' = nodes
          /\ cell' = [cell EXCEPT ![Newest] = PENDING]
      BY <2>3 DEF MarkPending
    <3>2. Published' = Published + 1 /\ Published = Len(nodes) - 1 /\ Len(nodes) \in Nat
      BY <3>1, NewestIsLast DEF Published
    <3>3. cell'[CellOf(Len(nodes))] = PENDING
      BY <3>1, NewestIsLast DEF Inv, TypeOK
    <3>4. \A i \in 1..Published : cell'[CellOf(i)] = cell[CellOf(i)]
      BY <3>1, <3>2, NewestIsLast DEF Inv, TypeOK
    <3>5. View' = Append(View, PENDING)
      <4>1. Len(View) = Published /\ View \in Seq(Values)
        BY <3>2 DEF View, Inv, TypeOK
      <4>2. View' \in Seq(Values) /\ Len(View') = Published + 1
        <5>1. cell' \in [Cells -> Values] /\ Published' = Published + 1
          BY <3>2 DEF Inv, TypeOK
        <5>2. \A i \in 1..Published' : CellOf(i)' \in Cells
          BY <3>1, <3>2, NewestIsLast DEF CellOf
        <5>3. View' \in [1..(Published + 1) -> Values]
          BY <5>1, <5>2 DEF View
        <5> QED BY <3>2, <5>3
      <4>3. Append(View, PENDING) \in Seq(Values) /\ Len(Append(View, PENDING)) = Published + 1
        BY <4>1 DEF Values
      <4>4. \A i \in 1..(Published + 1) : View'[i] = Append(View, PENDING)[i]
        BY <3>1, <3>2, <3>3, <3>4, <4>1 DEF View, CellOf
      <4> QED BY <4>2, <4>3, <4>4, SeqEqual
    <3> QED BY <3>5 DEF Service!Next, Service!Spawn, View
  <2>4. ASSUME NEW c \in Cells, RunBody(c)
        PROVE  View' = View
    BY <2>4, SameView DEF RunBody, parent, Published, CellOf
  <2>5. ASSUME NEW c \in Cells, StoreResult(c)
        PROVE  Service!Next \/ View' = View
    <3>1. /\ Published' = Published /\ nodes' = nodes /\ child[c] = "done"
          /\ cell' = [cell EXCEPT ![c] = out[c]] /\ out[c] \in Results
      BY <2>5 DEF StoreResult, parent, Published, Inv, Pages
    <3>2. CASE \A i \in 1..Published : CellOf(i) # c
      BY <3>1, <3>2, SameView DEF CellOf, Inv, TypeOK
    <3>3. ASSUME NEW i \in 1..Published, CellOf(i) = c
          PROVE  Service!Next
      <4>1. View[i] = PENDING /\ i \in DOMAIN View
        BY <3>1, <3>3 DEF View, Inv, Pages
      <4>2. \A j \in 1..Published : j # i => CellOf(j) # c
        <5>1. \A j \in 1..Published : j \in 1..Len(nodes)
          BY PublishedCells DEF Inv, TypeOK
        <5>2. \A j, k \in 1..Len(nodes) : CellOf(j) = CellOf(k) => j = k
          BY DEF Inv, Registry
        <5> QED BY <3>3, <5>1, <5>2
      <4>3. View' = [View EXCEPT ![i] = out[c]]
        BY <3>1, <3>3, <4>2 DEF View, CellOf, Inv, TypeOK
      <4> QED BY <3>1, <4>1, <4>3 DEF Service!Next, Service!Resolve, View
    <3> QED BY <3>2, <3>3
  <2>6. CASE \/ Realize \/ CallDeref \/ DerefPoll \/ DerefSleep \/ DerefRead
             \/ CallRealizeAll \/ CountOne \/ CountDone \/ CountSleep
             \/ GatherOne \/ GatherDone
    <3>1. /\ UNCHANGED reader
          /\ pc \notin {"fork", "mark"} /\ pc' \notin {"fork", "mark"}
      BY <2>6 DEF Realize, CallDeref, DerefPoll, DerefSleep, DerefRead, CallRealizeAll,
         CountOne, CountDone, CountSleep, GatherOne, GatherDone, Crash
    <3> QED BY <3>1, SameView DEF reader, Published, CellOf
  <2>7. CASE UNCHANGED vars
    BY <2>7, SameView DEF vars, Published, CellOf
  <2> QED BY <2>1, <2>2, <2>3, <2>4, <2>5, <2>6, <2>7 DEF Next, Parent, Child
<1> QED BY <1>1, <1>2, Invariance, PTL DEF Spec, ServiceSpec, Service!Spec, View
=============================================================================
