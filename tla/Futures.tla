------------------------------- MODULE Futures -------------------------------
(***************************************************************************)
(* src/futures.c and src/futures_lib.janet: futures made of fork() and     *)
(* shared pages.  One Janet program (the parent) calls future, realize,    *)
(* deref and realize-all in any order; every successful fork() adds a      *)
(* child process that runs the body, writes its result to the shared page  *)
(* `future_out' and exits.                                                 *)
(*                                                                         *)
(* Here no body uses the futures module itself (FuturesShm does that), so  *)
(* only the parent reads or extends the list of nodes, and the list is a   *)
(* sequence.  A cell is the page `future_out' of one call of future, and   *)
(* names the child forked by that call.                                    *)
(***************************************************************************)
EXTENDS Integers, Sequences

CONSTANTS
  Cells,     \* the pages mmap may return: bounds the calls of future
  Results,   \* what a body may return; may contain PENDING
  PENDING,   \* :PENDING
  MISSING,   \* :MISSING
  Zero,      \* what a fresh page reads as
  Faults,    \* which of "panic" (of a body), "nofork" (fork() = -1) happen
  Args,      \* the integers a program passes to realize, deref, realize-all
  RootLow,   \* low word of the address root_node points to
  MaxBatch   \* bound on the length of the list given to realize-all

ASSUME ValuesDistinct == /\ PENDING # MISSING /\ PENDING # Zero /\ MISSING # Zero
                         /\ Zero \notin Results /\ MISSING \notin Results
ASSUME ArgsAreInts  == Args \subseteq Int /\ MaxBatch \in Nat
ASSUME RootIsInt    == RootLow \in Int

Values == Results \cup {PENDING, Zero}
Answers == Values \cup {MISSING}

VARIABLES
  idx,     \* `idx': the last id handed out
  nodes,   \* the list behind &root_node: records [id, future_out]
  cell,    \* what each page holds
  child,   \* the child process forked for a page
  out,     \* its local `out'
  pc,      \* where the parent is
  call,    \* the call it makes or made last: [op, fs]
  ret,     \* what that call has returned so far, one answer per id of fs
  cnt      \* `count' of the pending futures seen by futures-pending?

vars == <<idx, nodes, cell, child, out, pc, call, ret, cnt>>
parent == <<idx, nodes, pc, call, ret, cnt>>
reader == <<idx, nodes, cell, child, out>>

-----------------------------------------------------------------------------
Init == /\ idx = 0 /\ nodes = <<>>
        /\ cell = [c \in Cells |-> Zero]
        /\ child = [c \in Cells |-> "none"]
        /\ out = [c \in Cells |-> Zero]
        /\ pc = "idle" /\ call = [op |-> "none", fs |-> <<>>]
        /\ ret = <<>> /\ cnt = 0

\* Mutant: links the new node without walking to the end.
push_unlinked(id, c) == <<[id |-> id, future_out |-> c]>>

\* push walks to the last node and links a new one there.
push(id, c) == Append(nodes, [id |-> id, future_out |-> c])

\* get_by_id starts at &root_node, which is the pointer itself read as a
\* node: its id is the low word of root_node, its future_out is NULL.
HeadId == IF nodes = <<>> THEN 0 ELSE RootLow

get_by_id(x) == {i \in DOMAIN nodes :
                   /\ nodes[i].id = x
                   /\ \A j \in 1..(i - 1) : nodes[j].id # x}

\* The answer of (realize x) when x is not the id of the head.
realize(x) == IF get_by_id(x) = {} THEN MISSING
              ELSE cell[nodes[CHOOSE i \in get_by_id(x) : TRUE].future_out]

\* The page of the call of future in progress.
Newest == nodes[Len(nodes)].future_out

-----------------------------------------------------------------------------
(* The parent inside (future f). *)

\* mmap of the page, ++idx and push.
Allocate == \E c \in Cells :
  /\ pc = "idle" /\ child[c] = "none"
  /\ idx' = idx + 1
  /\ nodes' = push(idx', c)
  /\ pc' = "fork"
  /\ call' = [op |-> "future", fs |-> <<>>] /\ ret' = <<>>
  /\ UNCHANGED <<cell, child, out, cnt>>

Fork == /\ pc = "fork"
        /\ \/ child' = [child EXCEPT ![Newest] = "running"]
           \/ /\ "nofork" \in Faults
              /\ child' = [child EXCEPT ![Newest] = "nofork"]
        /\ pc' = "mark"
        /\ UNCHANGED <<idx, nodes, cell, out, call, ret, cnt>>

\* Mutant: leaves the page as mmap returned it.
MarkNothing == /\ pc = "mark"
               /\ pc' = "idle" /\ ret' = <<idx>>
               /\ UNCHANGED <<idx, nodes, cell, child, out, call, cnt>>

\* The parent (also when fork() failed) stores :PENDING and returns idx.
MarkPending == /\ pc = "mark"
               /\ cell' = [cell EXCEPT ![Newest] = PENDING]
               /\ pc' = "idle" /\ ret' = <<idx>>
               /\ UNCHANGED <<idx, nodes, child, out, call, cnt>>

-----------------------------------------------------------------------------
(* The child of page c. *)

\* janet_call returns a value, or panics: the panic unwinds out of future()
\* in the child's copy of the program and *future_out is never assigned.
RunBody(c) == /\ child[c] = "running"
              /\ \/ /\ \E v \in Results : out' = [out EXCEPT ![c] = v]
                    /\ child' = [child EXCEPT ![c] = "done"]
                 \/ /\ "panic" \in Faults
                    /\ child' = [child EXCEPT ![c] = "panicked"]
                    /\ out' = out
              /\ UNCHANGED <<cell, parent>>

StoreResult(c) == /\ child[c] = "done"
                  /\ cell' = [cell EXCEPT ![c] = out[c]]
                  /\ child' = [child EXCEPT ![c] = "exited"]
                  /\ UNCHANGED <<out, parent>>

-----------------------------------------------------------------------------
(* The parent reading futures.  A call that looks for the id of the head    *)
(* dereferences NULL.                                                       *)

Crash(x) == /\ x = HeadId /\ pc' = "crashed"
            /\ UNCHANGED <<reader, call, ret, cnt>>

Realize == /\ pc = "idle"
           /\ \E x \in Args :
                /\ call' = [op |-> "realize", fs |-> <<x>>]
                /\ IF x = HeadId THEN pc' = "crashed" /\ ret' = <<>>
                                 ELSE pc' = "idle" /\ ret' = <<realize(x)>>
           /\ UNCHANGED <<reader, cnt>>

CallDeref == /\ pc = "idle"
             /\ \E x \in Args : call' = [op |-> "deref", fs |-> <<x>>]
             /\ pc' = "deref" /\ ret' = <<>>
             /\ UNCHANGED <<reader, cnt>>

\* (while (future-pending? x) (os/sleep 0.05))
DerefPoll == /\ pc = "deref"
             /\ LET x == call.fs[1] IN
                \/ Crash(x)
                \/ /\ x # HeadId
                   /\ pc' = IF realize(x) = PENDING THEN "deref_sleep" ELSE "deref_read"
                   /\ UNCHANGED <<reader, call, ret, cnt>>

DerefSleep == /\ pc = "deref_sleep" /\ pc' = "deref"
              /\ UNCHANGED <<reader, call, ret, cnt>>

\* the (realize x) after the loop
DerefRead == /\ pc = "deref_read"
             /\ ret' = <<realize(call.fs[1])>> /\ pc' = "idle"
             /\ UNCHANGED <<reader, call, cnt>>

Batches == UNION {[1..n -> Args] : n \in 0..MaxBatch}

CallRealizeAll == /\ pc = "idle"
                  /\ \E fs \in Batches : call' = [op |-> "realize_all", fs |-> fs]
                  /\ pc' = "count" /\ ret' = <<>> /\ cnt' = 0
                  /\ UNCHANGED reader

\* One call of future-pending? inside (count future-pending? futures); the
\* answers already inspected in this round are kept in ret.
CountOne == /\ pc = "count" /\ Len(ret) < Len(call.fs)
            /\ LET x == call.fs[Len(ret) + 1] IN
               \/ Crash(x)
               \/ /\ x # HeadId
                  /\ ret' = Append(ret, realize(x))
                  /\ cnt' = IF realize(x) = PENDING THEN cnt + 1 ELSE cnt
                  /\ UNCHANGED <<reader, call, pc>>

\* Mutant: (> (count ...) 1).
CountDoneAboveOne == /\ pc = "count" /\ Len(ret) = Len(call.fs)
                     /\ pc' = IF cnt > 1 THEN "count_sleep" ELSE "gather"
                     /\ ret' = <<>> /\ cnt' = 0
                     /\ UNCHANGED <<reader, call>>

\* Mutant: the next round goes on counting where this one ended.
CountDoneNoReset == /\ pc = "count" /\ Len(ret) = Len(call.fs)
                    /\ pc' = IF cnt > 0 THEN "count_sleep" ELSE "gather"
                    /\ ret' = <<>>
                    /\ UNCHANGED <<reader, call, cnt>>

\* (> (count ...) 0): sleep and look again, or leave the loop.
CountDone == /\ pc = "count" /\ Len(ret) = Len(call.fs)
             /\ pc' = IF cnt > 0 THEN "count_sleep" ELSE "gather"
             /\ ret' = <<>> /\ cnt' = 0
             /\ UNCHANGED <<reader, call>>

CountSleep == /\ pc = "count_sleep" /\ pc' = "count"
              /\ UNCHANGED <<reader, call, ret, cnt>>

\* (map realize futures)
GatherOne == /\ pc = "gather" /\ Len(ret) < Len(call.fs)
             /\ ret' = Append(ret, realize(call.fs[Len(ret) + 1]))
             /\ UNCHANGED <<reader, call, pc, cnt>>

GatherDone == /\ pc = "gather" /\ Len(ret) = Len(call.fs)
              /\ pc' = "idle"
              /\ UNCHANGED <<reader, call, ret, cnt>>

Parent == \/ Allocate \/ Fork \/ MarkPending
          \/ Realize
          \/ CallDeref \/ DerefPoll \/ DerefSleep \/ DerefRead
          \/ CallRealizeAll \/ CountOne \/ CountDone \/ CountSleep
          \/ GatherOne \/ GatherDone

Child(c) == RunBody(c) \/ StoreResult(c)

Next == Parent \/ \E c \in Cells : Child(c)

Spec == Init /\ [][Next]_vars

\* A call in progress goes on (nothing obliges the program to make one), the
\* kernel schedules every child, and every body finishes.
InCall == pc # "idle" /\ Parent
FairSpec == Spec /\ WF_vars(InCall) /\ \A c \in Cells : WF_vars(Child(c))

-----------------------------------------------------------------------------
(* Properties *)

\* The cell of the future with id i.
CellOf(i) == nodes[i].future_out

\* The handles a program has been given: future has returned them.
Published == IF pc \in {"fork", "mark"} THEN Len(nodes) - 1 ELSE Len(nodes)

TypeOK == /\ idx \in Nat
          /\ nodes \in Seq([id : Int, future_out : Cells])
          /\ cell \in [Cells -> Values]
          /\ child \in [Cells -> {"none", "running", "done", "exited", "panicked", "nofork"}]
          /\ out \in [Cells -> Values]
          /\ pc \in {"idle", "fork", "mark", "deref", "deref_sleep", "deref_read",
                     "count", "count_sleep", "gather", "crashed"}
          /\ call \in [op : {"none", "future", "realize", "deref", "realize_all"},
                      fs : Seq(Args)]
          /\ ret \in Seq(Answers \cup Int)
          /\ cnt \in Nat

\* push and get_by_id agree: the id future returns is found in the list, at
\* the page and the child of that very call, and no two futures share one.
HandlesNameTheirCells ==
  /\ idx = Len(nodes)
  /\ \A i \in 1..idx : get_by_id(i) = {i}
  /\ \A i, j \in 1..idx : CellOf(i) = CellOf(j) => i = j
  /\ \A c \in Cells : child[c] # "none" => \E i \in 1..idx : CellOf(i) = c

\* What deref and realize-all return, although every id is looked up at least
\* twice and the children run in between: for a handle, the result its own
\* body computed and never :PENDING; :MISSING for an integer that is none.
AnswersAreFinal ==
  (pc = "idle" /\ call.op \in {"deref", "realize_all"}) =>
     /\ Len(ret) = Len(call.fs)
     /\ \A k \in 1..Len(ret) : LET x == call.fs[k] IN
          /\ ret[k] # PENDING
          /\ IF x \in 1..idx
             THEN child[CellOf(x)] = "exited" /\ ret[k] = out[CellOf(x)]
             ELSE ret[k] = MISSING

\* Seen from the program, the module is the write-once boxes of FutureService:
\* a handle never answers with an uninitialised page, and an answer other than
\* :PENDING is never taken back or replaced.
Service == INSTANCE FutureService
             WITH promise <- [i \in 1..Published |-> cell[CellOf(i)]]
ServiceSpec == Service!Spec

\* The reasons for which a future stays :PENDING for ever: no process writes
\* its page any more.
Lost(c) == \/ child[c] \in {"panicked", "nofork"}
           \/ child[c] = "exited" /\ cell[c] = PENDING

\* deref and realize-all end unless one of their futures is lost: whatever the
\* scheduling, polling never misses a result that is there, and the loop of
\* realize-all is left in the round that finds nothing pending.
Waiting == pc \in {"deref", "deref_sleep", "deref_read", "count", "count_sleep", "gather"}
WaitsOnlyForLost ==
  Waiting ~> \/ ~Waiting
             \/ \E k \in 1..Len(call.fs) : call.fs[k] \in 1..idx /\ Lost(CellOf(call.fs[k]))

\* What deref's doc string says: it waits until it can realize the future, so
\* when every body returns (and no fault happens) it does return.
DerefReturns == (pc = "deref") ~> (pc \in {"idle", "crashed"})
=============================================================================
