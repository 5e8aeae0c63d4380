------------------------------- MODULE MySum -------------------------------
(***************************************************************************)
(* my-sum of mymod.c: the operands go through global variables to a thread *)
(* that adds them ten seconds later; my-sum-get reads the result.  Nothing *)
(* orders the threads, so any load and store may come before another's.    *)
(***************************************************************************)
EXTENDS Integers, FiniteSets

CONSTANTS
  Calls,        \* bound on the calls of my-sum
  Operands

ASSUME CallsBounded == Calls \in Nat
ASSUME OperandsAreInts == Operands \subseteq Int

VARIABLES
  x, y, z,
  args,         \* of the calls: what my-sum was given; calls not made: <<0, 0>>
  called,       \* number of calls of my-sum
  half,         \* the last call has set x and nothing else yet
  worker,       \* of each call: "none", "asleep", "x", "y", "xy" (loaded), "done",
                \* "failed" (there is no thread)
  ax, ay,       \* what each worker has loaded
  overlapped    \* a call was made while a worker had not finished

sumvars == <<x, y, z, args, called, half, worker, ax, ay, overlapped>>

SumInit == /\ x = 0 /\ y = 0 /\ z = 0
           /\ args = [c \in 1..Calls |-> <<0, 0>>]
           /\ called = 0 /\ half = FALSE
           /\ worker = [c \in 1..Calls |-> "none"]
           /\ ax = [c \in 1..Calls |-> 0] /\ ay = [c \in 1..Calls |-> 0]
           /\ overlapped = FALSE

Working == {c \in 1..Calls : worker[c] \notin {"none", "done", "failed"}}

\* Mutant: the thread is created before the second operand is set.
SetX_spawns ==
  /\ ~half /\ called < Calls
  /\ called' = called + 1 /\ half' = TRUE
  /\ \E a, b \in Operands : args' = [args EXCEPT ![called'] = <<a, b>>]
  /\ x' = args'[called'][1]
  /\ worker' = [worker EXCEPT ![called'] = "asleep"]
  /\ UNCHANGED <<y, z, ax, ay, overlapped>>

\* my_sum, as far as the first operand
SetX == /\ ~half /\ called < Calls
        /\ called' = called + 1 /\ half' = TRUE
        /\ \E a, b \in Operands : args' = [args EXCEPT ![called'] = <<a, b>>]
        /\ x' = args'[called'][1]
        /\ overlapped' = (overlapped \/ Working # {})
        /\ UNCHANGED <<y, z, worker, ax, ay>>

\* The rest of my_sum, which does not look whether pthread_create has failed.
Spawn == /\ half /\ half' = FALSE
         /\ y' = args[called][2]
         /\ \E how \in {"asleep", "failed"} : worker' = [worker EXCEPT ![called] = how]
         /\ UNCHANGED <<x, z, args, called, ax, ay, overlapped>>

\* my_sum_compute: two loads, in the order the compiler likes, and a store.
LoadX(c) == /\ worker[c] \in {"asleep", "y"}
            /\ worker' = [worker EXCEPT ![c] = IF @ = "asleep" THEN "x" ELSE "xy"]
            /\ ax' = [ax EXCEPT ![c] = x]
            /\ UNCHANGED <<x, y, z, args, called, half, ay, overlapped>>

LoadY(c) == /\ worker[c] \in {"asleep", "x"}
            /\ worker' = [worker EXCEPT ![c] = IF @ = "asleep" THEN "y" ELSE "xy"]
            /\ ay' = [ay EXCEPT ![c] = y]
            /\ UNCHANGED <<x, y, z, args, called, half, ax, overlapped>>

Store(c) == /\ worker[c] = "xy"
            /\ worker' = [worker EXCEPT ![c] = "done"]
            /\ z' = ax[c] + ay[c]
            /\ UNCHANGED <<x, y, args, called, half, ax, ay, overlapped>>

SumNext == \/ SetX \/ Spawn
           \/ \E c \in 1..Calls : LoadX(c) \/ LoadY(c) \/ Store(c)

-----------------------------------------------------------------------------
(* Properties *)

SumOf(c) == args[c][1] + args[c][2]

\* If calls overlap, a result may mix their operands and an old one may come last,
\* but it adds an operand of each kind and none that is older than its own call;
\* so a program that lets each sum finish before it asks for the next gets it, also
\* if calls before it have had no thread.
SumsRight ==
  /\ \A c \in 1..Calls :
       worker[c] = "xy" => \E i, j \in c..called : ax[c] = args[i][1] /\ ay[c] = args[j][2]
  /\ ~overlapped /\ called > 0 /\ worker[called] = "done" => z = SumOf(called)
=============================================================================
