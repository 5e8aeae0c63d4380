------------------------------ MODULE Threads ------------------------------
(***************************************************************************)
(* The life of threads and of their mailboxes: section thread.c of         *)
(* amalg/janet.c, from thread/new to the end of a thread.                  *)
(*                                                                         *)
(* A mailbox is named after the thread that owns it.  What happens inside  *)
(* a mailbox, and to threads that wait at it, is the subject of Mailbox;   *)
(* here a mailbox is a queue with a reference count, which one locked      *)
(* section changes at a time.                                              *)
(***************************************************************************)
EXTENDS Integers, Sequences, FiniteSets

CONSTANTS
  Threads,
  Main,         \* the thread that janet_init runs in first
  None,
  Functions,    \* kinds of worker functions: "good", "arity" (does not take one
                \* argument), "garbled" (fails in unmarshal), "unsendable"
  Messages,     \* kinds of user messages: "good" (a function that takes one
                \* argument), "data", "garbled"
  MaxCalls      \* bound on the calls of thread/send and thread/current

ASSUME NamesDiffer == Main \in Threads /\ None \notin Threads
ASSUME NoneIsNoMessage == None \notin {"worker", "user"}

VARIABLES
  pc,           \* of each thread, see Stages
  parent,       \* the thread that has made it
  creating,     \* the child whose thread/new a thread is in, or None
  pairs,        \* references that the JanetMailboxPair of each thread holds
  handles,      \* JanetThread objects with a mailbox: <<holder, mailbox, why>>
  boxes,        \* mailboxes that exist
  refCount, closed, inbox,
  runs,         \* what each thread has taken for its function
  asked,        \* threads that have called thread/current
  lost,         \* children whose function did not arrive
  calls         \* number of calls of thread/send and thread/current

life == <<pc, parent, creating, pairs>>
mail == <<boxes, refCount, closed, inbox>>
vars == <<life, mail, handles, runs, asked, lost, calls>>

\* "none", in thread/new of the parent "paired"; then in thread_worker "new",
\* "init", "waiting" for the function, "running", "leaving" (destroys the
\* pair), "clearing" (janet_deinit), "gone"; "crashed" after undefined behaviour.
Stages == {"none", "paired", "new", "init", "waiting", "running", "leaving",
           "clearing", "gone", "crashed"}

\* What the references counted by refCount[b] are: the thread itself, the pair,
\* and objects on the heaps of b, its parent and its children.
Holders(b) ==
  {<<"owner", t>> : t \in {t \in {b} : pc[t] \in {"init", "waiting", "running", "leaving", "clearing"}}}
  \cup {<<"original", c>> : c \in {c \in Threads : parent[c] = b /\ "original" \in pairs[c]}}
  \cup {<<"newbox", c>> : c \in {c \in {b} : "newbox" \in pairs[c]}}
  \cup {<<"handle", h>> : h \in {h \in handles : h[2] = b}}

-----------------------------------------------------------------------------
Init == /\ pc = [t \in Threads |-> IF t = Main THEN "running" ELSE "none"]
        /\ parent = [t \in Threads |-> None]
        /\ creating = [t \in Threads |-> None]
        /\ pairs = [t \in Threads |-> {}]
        /\ handles = {}
        /\ boxes = {Main}
        /\ refCount = [t \in Threads |-> IF t = Main THEN 1 ELSE 0]
        /\ closed = [t \in Threads |-> FALSE]
        /\ inbox = [t \in Threads |-> <<>>]
        /\ runs = [t \in Threads |-> None]
        /\ asked = {} /\ lost = {} /\ calls = 0

\* janet_mailbox_ref
ref(b, delta) ==
  /\ refCount' = [refCount EXCEPT ![b] = @ + delta]
  /\ boxes' = IF refCount[b] + delta =< 0 THEN boxes \ {b} ELSE boxes
  /\ UNCHANGED <<closed, inbox>>

\* Thread t goes on at the given stage, if the mailbox that it has used is there.
Goto(t, b, stage) == pc' = [pc EXCEPT ![t] = IF b \in boxes THEN stage ELSE "crashed"]

Runs(t) == pc[t] = "running" /\ creating[t] = None

-----------------------------------------------------------------------------
(* thread/new *)

\* make_mailbox_pair and the handle: the new mailbox is born with the reference
\* of the pair, the handle adds one.
MakePair(t, c) ==
  /\ Runs(t) /\ pc[c] = "none"
  /\ pc' = [pc EXCEPT ![c] = "paired", ![t] = IF t \in boxes THEN @ ELSE "crashed"]
  /\ parent' = [parent EXCEPT ![c] = t]
  /\ creating' = [creating EXCEPT ![t] = c]
  /\ pairs' = [pairs EXCEPT ![c] = {"original", "newbox"}]
  /\ refCount' = [refCount EXCEPT ![t] = @ + 1, ![c] = 2]
  /\ boxes' = boxes \cup {c}
  /\ handles' = handles \cup {<<t, c, "child">>}
  /\ UNCHANGED <<closed, inbox, runs, asked, lost, calls>>

Start(t) == LET c == creating[t] IN
            /\ pc[t] = "running" /\ c # None /\ pc[c] = "paired"
            /\ "original" \in pairs[c]
            /\ pc' = [pc EXCEPT ![c] = "new"]
            /\ UNCHANGED <<parent, creating, pairs, mail, handles, runs, asked, lost, calls>>

\* Mutant: gives back the parent's mailbox only, and forgets the new one.
StartFails_half(t) ==
  LET c == creating[t] IN
  /\ pc[t] = "running" /\ c # None /\ pc[c] = "paired"
  /\ ref(t, -1)
  /\ pc' = [pc EXCEPT ![c] = "gone", ![t] = IF t \in boxes THEN @ ELSE "crashed"]
  /\ pairs' = [pairs EXCEPT ![c] = @ \ {"original"}]
  /\ creating' = [creating EXCEPT ![t] = None]
  /\ UNCHANGED <<parent, handles, runs, asked, lost, calls>>

\* The thread cannot be started: destroy_mailbox_pair, in two locked sections.
StartFails(t) ==
  LET c == creating[t] IN
  /\ pc[t] = "running" /\ c # None /\ pc[c] = "paired"
  /\ \/ /\ "original" \in pairs[c] /\ ref(t, -1) /\ Goto(t, t, "running")
        /\ pairs' = [pairs EXCEPT ![c] = @ \ {"original"}]
        /\ creating' = creating
     \/ /\ "original" \notin pairs[c] /\ ref(c, -1)
        /\ pc' = [pc EXCEPT ![c] = IF c \in boxes THEN "gone" ELSE "crashed"]
        /\ pairs' = [pairs EXCEPT ![c] = {}]
        /\ creating' = [creating EXCEPT ![t] = None]
  /\ UNCHANGED <<parent, handles, runs, asked, lost, calls>>

\* Mutant: the handle is made for the other mailbox of the pair.
SendFunction_swapped(t) ==
  LET c == creating[t] IN
  /\ pc[t] = "running" /\ c # None /\ pc[c] # "paired"
  /\ creating' = [creating EXCEPT ![t] = None]
  /\ inbox' = [inbox EXCEPT ![t] = Append(@, <<"worker", "good">>)]
  /\ UNCHANGED <<pc, parent, pairs, boxes, refCount, closed, handles, runs, asked, lost, calls>>

\* The function goes through the mailbox like any message; if it cannot be
\* marshalled, thread/new panics and the child is left waiting.
SendFunction(t) ==
  LET c == creating[t] IN
  /\ pc[t] = "running" /\ c # None /\ pc[c] # "paired"
  /\ Goto(t, c, "running")
  /\ creating' = [creating EXCEPT ![t] = None]
  /\ \E f \in Functions :
       IF f = "unsendable" THEN lost' = lost \cup {c} /\ inbox' = inbox
       ELSE lost' = lost /\ inbox' = [inbox EXCEPT ![c] = Append(@, <<"worker", f>>)]
  /\ UNCHANGED <<parent, pairs, boxes, refCount, closed, handles, runs, asked, calls>>

-----------------------------------------------------------------------------
(* thread_worker *)

\* Its own reference to the mailbox, next to that of the pair.
Begin(c) == /\ pc[c] = "new" /\ Goto(c, c, "init") /\ ref(c, 1)
            /\ UNCHANGED <<parent, creating, pairs, handles, runs, asked, lost, calls>>

\* The object that the function is called with.
MakeParent(c) ==
  /\ pc[c] = "init" /\ Goto(c, parent[c], "waiting") /\ ref(parent[c], 1)
  /\ handles' = handles \cup {<<c, parent[c], "parent">>}
  /\ UNCHANGED <<parent, creating, pairs, runs, asked, lost, calls>>

\* Mutant: goes on waiting after a message that is no function for it.
TakeFunction_waits(c) ==
  LET m == Head(inbox[c]) IN
  /\ pc[c] = "waiting" /\ inbox[c] # <<>>
  /\ inbox' = [inbox EXCEPT ![c] = Tail(@)]
  /\ Goto(c, c, IF m[2] = "good" THEN "running" ELSE "waiting")
  /\ runs' = IF m[2] = "good" THEN [runs EXCEPT ![c] = m[1]] ELSE runs
  /\ lost' = IF m = <<"worker", "garbled">> THEN lost \cup {c} ELSE lost
  /\ UNCHANGED <<parent, creating, pairs, boxes, refCount, closed, handles, asked, calls>>

\* Receives until something can be unmarshalled, and takes it for the function.
TakeFunction(c) ==
  LET m == Head(inbox[c]) IN
  /\ pc[c] = "waiting" /\ inbox[c] # <<>>
  /\ inbox' = [inbox EXCEPT ![c] = Tail(@)]
  /\ Goto(c, c, CASE m[2] = "garbled" -> "waiting"
                  [] m[2] = "good"    -> "running"
                  [] OTHER            -> "leaving")
  /\ runs' = IF m[2] = "good" THEN [runs EXCEPT ![c] = m[1]] ELSE runs
  /\ lost' = IF m = <<"worker", "garbled">> THEN lost \cup {c} ELSE lost
  /\ UNCHANGED <<parent, creating, pairs, boxes, refCount, closed, handles, asked, calls>>

\* The function returns, or fails: the message about it names an object made for
\* that purpose.
Return(c) == /\ Runs(c) /\ c # Main
             /\ \/ Goto(c, c, "leaving") /\ UNCHANGED <<mail, handles>>
                \/ Goto(c, c, "leaving") /\ ref(c, 1)
                   /\ handles' = handles \cup {<<c, c, "failed">>}
             /\ UNCHANGED <<parent, creating, pairs, runs, asked, lost, calls>>

\* Mutant: frees the pair and leaves its reference to the parent's mailbox.
LeavePair_half(c) ==
  /\ pc[c] = "leaving"
  /\ Goto(c, c, "clearing") /\ ref(c, -1)
  /\ pairs' = [pairs EXCEPT ![c] = {}]
  /\ UNCHANGED <<parent, creating, handles, runs, asked, lost, calls>>

\* destroy_mailbox_pair
LeavePair(c) ==
  /\ pc[c] = "leaving"
  /\ \/ /\ "original" \in pairs[c]
        /\ Goto(c, parent[c], "leaving") /\ ref(parent[c], -1)
        /\ pairs' = [pairs EXCEPT ![c] = @ \ {"original"}]
     \/ /\ "original" \notin pairs[c]
        /\ Goto(c, c, "clearing") /\ ref(c, -1)
        /\ pairs' = [pairs EXCEPT ![c] = {}]
  /\ UNCHANGED <<parent, creating, handles, runs, asked, lost, calls>>

-----------------------------------------------------------------------------
(* What a running thread does to mailboxes. *)

\* Object h of thread t gives up its mailbox.
Drop(t, h, stage) ==
  /\ Goto(t, h[2], stage) /\ ref(h[2], -1)
  /\ handles' = handles \ {h}

\* thread/send by the name of object h; one that finds the mailbox closed drops
\* its reference.
Send(t, h) ==
  /\ Runs(t) /\ h[1] = t /\ calls < MaxCalls
  /\ calls' = calls + 1
  /\ IF closed[h[2]]
     THEN Drop(t, h, "running")
     ELSE /\ Goto(t, h[2], "running")
          /\ \E m \in Messages : inbox' = [inbox EXCEPT ![h[2]] = Append(@, <<"user", m>>)]
          /\ UNCHANGED <<boxes, refCount, closed, handles>>
  /\ UNCHANGED <<parent, creating, pairs, runs, asked, lost>>

\* thread/receive of a message that is there.
Receive(t) == /\ Runs(t) /\ inbox[t] # <<>>
              /\ Goto(t, t, "running")
              /\ inbox' = [inbox EXCEPT ![t] = Tail(@)]
              /\ UNCHANGED <<parent, creating, pairs, boxes, refCount, closed, handles,
                             runs, asked, lost, calls>>

\* thread/current makes one object for each thread.
Current(t) == /\ Runs(t) /\ t \notin asked /\ calls < MaxCalls
              /\ calls' = calls + 1
              /\ asked' = asked \cup {t}
              /\ Goto(t, t, "running") /\ ref(t, 1)
              /\ handles' = handles \cup {<<t, t, "current">>}
              /\ UNCHANGED <<parent, creating, pairs, runs, lost>>

\* thread/close of any object of the thread, or thread_gc of one that it has
\* forgotten; the object of a thread/new that is under way is in use.
Close(t, h) == /\ Runs(t) /\ h[1] = t
               /\ Drop(t, h, "running")
               /\ UNCHANGED <<parent, creating, pairs, runs, asked, lost, calls>>

\* The main thread comes to its end (the process may then end under the others,
\* or, when Janet is embedded, go on).
Finish == /\ Runs(Main)
          /\ pc' = [pc EXCEPT ![Main] = "clearing"]
          /\ UNCHANGED <<parent, creating, pairs, mail, handles, runs, asked, lost, calls>>

\* janet_deinit: the heap with its objects, then the mailbox.
ClearMemory(t, h) == /\ pc[t] = "clearing" /\ h[1] = t
                     /\ Drop(t, h, "clearing")
                     /\ UNCHANGED <<parent, creating, pairs, runs, asked, lost, calls>>

\* janet_threads_deinit
ThreadsDeinit(t) ==
  /\ pc[t] = "clearing" /\ \A h \in handles : h[1] # t
  /\ Goto(t, t, "gone")
  /\ closed' = [closed EXCEPT ![t] = TRUE]
  /\ refCount' = [refCount EXCEPT ![t] = @ - 1]
  /\ boxes' = IF refCount[t] =< 1 THEN boxes \ {t} ELSE boxes
  /\ UNCHANGED <<inbox, parent, creating, pairs, handles, runs, asked, lost, calls>>

-----------------------------------------------------------------------------
\* What a thread does by itself once it has begun; the rest is up to the program.
Proceed(t) == \/ Start(t) \/ StartFails(t) \/ SendFunction(t)
              \/ Begin(t) \/ MakeParent(t) \/ TakeFunction(t) \/ LeavePair(t)
              \/ (\E h \in handles : ClearMemory(t, h)) \/ ThreadsDeinit(t)

Next == \/ \E t \in Threads : \/ Proceed(t) \/ Return(t) \/ Receive(t) \/ Current(t)
                              \/ \E c \in Threads : MakePair(t, c)
                              \/ \E h \in handles : Send(t, h) \/ Close(t, h)
        \/ Finish

Spec == Init /\ [][Next]_vars

\* Threads are scheduled by the kernel, and no locked section waits.
FairSpec == Spec /\ \A t \in Threads : WF_vars(Proceed(t))

-----------------------------------------------------------------------------
(* Properties *)

TypeOK ==
  /\ pc \in [Threads -> Stages]
  /\ parent \in [Threads -> Threads \cup {None}]
  /\ creating \in [Threads -> Threads \cup {None}]
  /\ pairs \in [Threads -> SUBSET {"original", "newbox"}]
  /\ handles \subseteq Threads \X Threads \X {"child", "parent", "current", "failed"}
  /\ boxes \subseteq Threads
  /\ refCount \in [Threads -> Nat] /\ closed \in [Threads -> BOOLEAN]
  /\ inbox \in [Threads -> Seq({"worker", "user"} \X (Functions \cup Messages))]
  /\ runs \in [Threads -> {"worker", "user", None}]
  /\ asked \subseteq Threads /\ lost \subseteq Threads /\ calls \in Nat

\* On every path, those of a thread that does not start or has no function to run
\* included, a mailbox counts exactly those who can still reach it, and it exists
\* as long as there is one: no thread ever touches a mailbox that has been freed.
RefsAccounted ==
  /\ \A b \in Threads : /\ refCount[b] = Cardinality(Holders(b))
                        /\ b \in boxes <=> Holders(b) # {}
  /\ \A t \in Threads : pc[t] # "crashed"

\* No mailbox is left behind: one whose thread has gone, or has never started, is
\* there only as long as a thread that has not gone can still reach it, by an
\* object of its own or by the pair of a child that has not let go of it.  So every
\* way out of a thread, of thread/new that fails half way and of a function that
\* does not arrive gives back all its references, and once all threads have gone
\* there is no mailbox.
BoxesReclaimed ==
  \A b \in boxes :
    \/ pc[b] \notin {"none", "gone"}
    \/ \E h \in handles : h[2] = b /\ pc[h[1]] \notin {"none", "gone"}
    \/ \E c \in Threads : /\ parent[c] = b /\ "original" \in pairs[c]
                         /\ pc[c] \notin {"none", "gone"}

\* A thread runs the function given to thread/new; it can only mistake a message
\* for it if that one did not survive the way.
RunsItsFunction == \A t \in Threads : runs[t] = "user" => t \in lost

\* A thread that has been started gets as far as its function, or ends and leaves
\* nothing half done, whatever the others do; it stays on the way only if its
\* function was lost.
StartsOrEnds ==
  \A t \in Threads : pc[t] \in {"new", "leaving", "clearing"} ~>
    \/ pc[t] \in {"running", "gone"}
    \/ pc[t] = "waiting" /\ t \in lost
=============================================================================
