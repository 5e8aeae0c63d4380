----------------------------- MODULE SqlScript -----------------------------
(***************************************************************************)
(* What sqlite3/eval promises: the statements of a script take effect one  *)
(* by one, in their order, each at most once and with the arguments of the *)
(* call; only a call that has done them all succeeds, and its rows are     *)
(* those of the last one.  A call that fails leaves what it has done.      *)
(***************************************************************************)
EXTENDS SqlStatements

CONSTANTS Conns, Queries, Failed,
          Bound(_, _),  \* the row that arguments make for a statement
          Read(_)       \* rows of the file as the caller sees them

VARIABLES db,     \* the database file
          active, \* connections in a call
          call,   \* script and arguments of the last call of each
          ran,    \* number of its statements that took effect
          ret     \* its answer

vars == <<db, active, call, ran, ret>>

Init == active = {}

Begin(c) == /\ c \notin active /\ active' = active \cup {c}
            /\ \E query \in Queries : call' = [call EXCEPT ![c] = query]
            /\ ran' = [ran EXCEPT ![c] = 0]
            /\ UNCHANGED <<db, ret>>

Answer(c, what) == active' = active \ {c} /\ ret' = [ret EXCEPT ![c] = what]

Fail(c) == c \in active /\ Answer(c, Failed) /\ UNCHANGED <<db, call, ran>>

\* A call on a closed database.
Refuse(c) == /\ c \notin active /\ ret' = [ret EXCEPT ![c] = Failed]
             /\ UNCHANGED <<db, active, call, ran>>

\* The process of the connection is killed.
Lose(c) == /\ c \in active /\ active' = active \ {c}
           /\ UNCHANGED <<db, call, ran, ret>>

\* A script without a statement.
Nothing(c) == /\ c \in active /\ call[c].script = <<>> /\ Answer(c, <<>>)
              /\ UNCHANGED <<db, call, ran>>

\* The next statement takes effect; the call goes on, or it is over.
Do(c) == LET script == call[c].script
             s == script[ran[c] + 1]
             last == ran[c] + 1 = Len(script) IN
         /\ c \in active /\ ran[c] < Len(script)
         /\ Compiles(s, db)
         /\ db' = Effect(s, Bound(s, call[c].args), db)
         /\ ran' = [ran EXCEPT ![c] = @ + 1]
         /\ \/ ~last /\ UNCHANGED <<active, ret>>
            \/ ~last /\ Answer(c, Failed)
            \/ last /\ Answer(c, Read(Result(s, db)))
         /\ call' = call

Next == \E c \in Conns : \/ Begin(c) \/ Refuse(c) \/ Do(c) \/ Nothing(c)
                         \/ Fail(c) \/ Lose(c)

Spec == Init /\ [][Next]_vars
=============================================================================
