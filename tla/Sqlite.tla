------------------------------- MODULE Sqlite -------------------------------
(***************************************************************************)
(* The database binding target/super/sqlite3/main.c.                       *)
(*                                                                         *)
(* Each connection belongs to one thread or process and all of them work   *)
(* on one file, so that between two calls of SQLite made for one           *)
(* connection the others may change it.  sqlite3/eval compiles statement   *)
(* k + 1 before it executes statement k.                                   *)
(***************************************************************************)
EXTENDS SqlStatements, SequencesExt

CONSTANTS
  Conns,
  Queries,      \* calls of sqlite3/eval: a script is a sequence of statements,
                \* args a function from keys to values, or NoArgs
  NoArgs,
  WithNul,      \* queries whose text has a byte 0 in it
  NULL,         \* no statement; also SQL's NULL
  Unbindable,   \* values without a counterpart: functions, text with a NUL
  Booleans, IntMin,
  column_int,   \* what sqlite3_column_int leaves of numbers beyond 32 bits
  Failed,       \* the answer of a call that panics
  MaxCalls,     \* bound on the evals and the failing opens of each connection
  Faults        \* of "busy", "noopen"

NoQuery == [script |-> <<>>, args |-> NoArgs]

ASSUME ConstantsSound ==
  /\ NULL \notin Nat
  /\ \A q \in Queries : q = [script |-> q.script, args |-> q.args] /\ q.script \in Seq(Statement)

VARIABLES
  db,           \* the file: the rows of each table
  flags,        \* of each Db: "none" before it is made, "open", FLAG_CLOSED
  handles,      \* the Dbs whose handle is open inside SQLite
  unowned,      \* number of handles inside SQLite that belong to no Db
  pc,           \* "idle", in the loop of sql_eval "compile" or "turn", "crashed"
  call,         \* query and parameters of the last call
  pos,          \* number of its statements that c is past
  stmt, stmt_next,
  prepared,     \* statements that exist inside SQLite
  ran,          \* number of statements that took effect
  ret,          \* its answer
  calls,        \* number of calls made
  before,       \* the file when the call began
  alone         \* FALSE: another changed or locked the file, or the call was refused

object == <<flags, handles, unowned>>
loop == <<pos, stmt, stmt_next, prepared>>
history == <<before, alone>>
vars == <<db, object, pc, call, loop, ran, ret, calls, history>>

-----------------------------------------------------------------------------
Init == /\ db = [t \in Tables |-> Absent]
        /\ flags = [c \in Conns |-> "none"] /\ handles = {}
        /\ unowned = [c \in Conns |-> 0]
        /\ pc = [c \in Conns |-> "idle"]
        /\ call = [c \in Conns |-> NoQuery]
        /\ pos = [c \in Conns |-> 0]
        /\ stmt = [c \in Conns |-> NULL] /\ stmt_next = [c \in Conns |-> NULL]
        /\ prepared = [c \in Conns |-> {}]
        /\ ran = [c \in Conns |-> 0] /\ ret = [c \in Conns |-> <<>>]
        /\ calls = [c \in Conns |-> 0]
        /\ before = [c \in Conns |-> db] /\ alone = [c \in Conns |-> TRUE]

-----------------------------------------------------------------------------
(* Connections. *)

\* sql_open, also for a path whose last Db was closed.
Open(c) == /\ pc[c] = "idle" /\ flags[c] # "open"
           /\ flags' = [flags EXCEPT ![c] = "open"]
           /\ handles' = handles \cup {c}
           /\ UNCHANGED <<db, unowned, pc, call, loop, ran, ret, calls, history>>

\* sqlite3_open makes a handle also when it fails.  sql_open takes the message
\* from it and panics; there is no Db yet, and nothing closes the handle.
OpenFails(c) == /\ pc[c] = "idle" /\ flags[c] # "open" /\ "noopen" \in Faults
                /\ unowned' = [unowned EXCEPT ![c] = @ + 1]
                /\ alone' = [alone EXCEPT ![c] = FALSE]
                /\ UNCHANGED <<db, flags, handles, pc, call, loop, ran, ret, calls, before>>

\* SQLite's handle is gone after sqlite3_close_v2; a second call is undefined.
closedb(c) ==
  IF flags[c] = "open"
  THEN /\ flags' = [flags EXCEPT ![c] = "FLAG_CLOSED"]
       /\ handles' = handles \ {c}
       /\ pc' = IF c \in handles THEN pc ELSE [pc EXCEPT ![c] = "crashed"]
  ELSE UNCHANGED <<flags, handles, pc>>

\* sql_close, and gcsqlite once the program has lost the Db.
Close(c) == /\ pc[c] = "idle" /\ flags[c] # "none"
            /\ closedb(c)
            /\ UNCHANGED <<db, unowned, call, loop, ran, ret, calls, history>>

-----------------------------------------------------------------------------
(* Parameters. *)

Position == <<"?1", "?2", "?3">>

\* The parameters of s that a key of the arguments stands for.
Places(s, key) == {i \in DOMAIN s.params : key \in {Position[i], s.params[i]}}

\* bindmany succeeds: no key too many, no key unknown, no value unfit.
Fits(s, args) == \/ args = NoArgs
                 \/ \A key \in DOMAIN args : Places(s, key) # {} /\ args[key] \notin Unbindable

\* A boolean is unwrapped as a number, and its bits are those of a NaN.
bind1(v) == IF v \in Booleans THEN IntMin ELSE v

Bound(s, args) ==
  [i \in DOMAIN s.params |->
     IF args # NoArgs /\ \E key \in DOMAIN args : i \in Places(s, key)
     THEN bind1(args[CHOOSE key \in DOMAIN args : i \in Places(s, key)])
     ELSE NULL]

column(v) == IF v \in DOMAIN column_int THEN column_int[v] ELSE v
Read(found) == [r \in DOMAIN found |-> [i \in DOMAIN found[r] |-> column(found[r][i])]]

-----------------------------------------------------------------------------
(* sql_eval *)

\* On a closed Db, or for a text that C would see the beginning of only.
Refused(c, query) == flags[c] = "FLAG_CLOSED" \/ query \in WithNul

Eval(c, query) ==
  /\ pc[c] = "idle" /\ flags[c] # "none"
  /\ calls' = [calls EXCEPT ![c] = @ + 1]
  /\ IF Refused(c, query)
     THEN /\ ret' = [ret EXCEPT ![c] = Failed]
          /\ alone' = [alone EXCEPT ![c] = FALSE]
          /\ UNCHANGED <<pc, call, loop, ran, before>>
     ELSE /\ pc' = [pc EXCEPT ![c] = "compile"]
          /\ call' = [call EXCEPT ![c] = query]
          /\ pos' = [pos EXCEPT ![c] = 0]
          /\ stmt' = [stmt EXCEPT ![c] = NULL] /\ stmt_next' = [stmt_next EXCEPT ![c] = NULL]
          /\ ran' = [ran EXCEPT ![c] = 0]
          /\ before' = [before EXCEPT ![c] = db] /\ alone' = [alone EXCEPT ![c] = TRUE]
          /\ UNCHANGED <<prepared, ret>>
  /\ UNCHANGED <<db, object>>

statement(c, k) == call[c].script[k]
Live(ss) == ss \ {NULL}

\* sqlite3_finalize of each of ss, and the end of the call; finalizing what is
\* not prepared, or calling SQLite on a closed handle, is undefined.
Finalize(c, ss, then) ==
  /\ prepared' = [prepared EXCEPT ![c] = @ \ ss]
  /\ pc' = [pc EXCEPT ![c] = IF Live(ss) \subseteq prepared[c] /\ c \in handles
                            THEN then ELSE "crashed"]

\* Mutant: forgets the statement that was compiled ahead.
Panic_leaks(c, next) ==
  /\ Finalize(c, {stmt[c]}, "idle")
  /\ ret' = [ret EXCEPT ![c] = Failed]
  /\ UNCHANGED <<pos, stmt, stmt_next, call, calls, object>>

\* The label error: next is the value of stmt_next.
Panic(c, next) ==
  /\ Finalize(c, {stmt[c], next}, "idle")
  /\ ret' = [ret EXCEPT ![c] = Failed]
  /\ UNCHANGED <<pos, stmt, stmt_next, call, calls, object>>

\* Another connection holds the lock that this one needs.
Busy(c) == "busy" \in Faults /\ \E d \in Conns \ {c} : pc[d] \in {"compile", "turn"}

\* sqlite3_prepare_v2: the next statement, none, or an error.
Compile(c) ==
  LET k == pos[c] + 1 IN
  /\ pc[c] = "compile"
  /\ \/ /\ k =< Len(call[c].script) /\ Compiles(statement(c, k), db)
        /\ stmt_next' = [stmt_next EXCEPT ![c] = k]
        /\ prepared' = [prepared EXCEPT ![c] = @ \cup {k}]
        /\ pos' = [pos EXCEPT ![c] = k]
        /\ pc' = [pc EXCEPT ![c] = "turn"]
        /\ UNCHANGED <<stmt, call, ret, calls, object, alone>>
     \/ /\ k > Len(call[c].script)
        /\ pc' = [pc EXCEPT ![c] = "turn"]
        /\ UNCHANGED <<loop, call, ret, calls, object, alone>>
     \/ /\ k =< Len(call[c].script) /\ ~Compiles(statement(c, k), db)
        /\ Panic(c, NULL) /\ alone' = alone
     \/ /\ k =< Len(call[c].script) /\ Busy(c)
        /\ Panic(c, NULL) /\ alone' = [alone EXCEPT ![c] = FALSE]
  /\ UNCHANGED <<db, ran, before>>

\* Mutant: the rows of an earlier statement.
Rows_kept(c, found) == IF found = <<>> THEN ret[c] ELSE Read(found)

Rows(c, found) == Read(found)

\* The end of the turn: stmt_next becomes stmt; without one the loop ends.
Rotate(c, found) ==
  /\ Finalize(c, {stmt[c]}, IF stmt_next[c] = NULL THEN "idle" ELSE "compile")
  /\ stmt' = [stmt EXCEPT ![c] = stmt_next[c]]
  /\ stmt_next' = [stmt_next EXCEPT ![c] = NULL]
  /\ ret' = IF stmt_next[c] = NULL THEN [ret EXCEPT ![c] = Rows(c, found)] ELSE ret
  /\ UNCHANGED <<pos, call, calls, object>>

\* bindmany for the statement compiled ahead, if there is one, and the rotation.
BindNext(c, found) ==
  IF stmt_next[c] # NULL /\ ~Fits(statement(c, stmt_next[c]), call[c].args)
  THEN Panic(c, stmt_next[c])
  ELSE Rotate(c, found)

\* Mutant: an error in the middle of a script is passed over.
Turn_goes_on(c) ==
  /\ pc[c] = "turn" /\ BindNext(c, <<>>)
  /\ IF stmt[c] # NULL /\ Compiles(statement(c, stmt[c]), db)
     THEN /\ db' = Effect(statement(c, stmt[c]), Bound(statement(c, stmt[c]), call[c].args), db)
          /\ ran' = [ran EXCEPT ![c] = @ + 1]
     ELSE UNCHANGED <<db, ran>>
  /\ UNCHANGED history

\* execute or execute_collect for the current statement, which SQLite compiles
\* again if the tables have changed, and the rest of the turn of the loop.
Turn(c) ==
  /\ pc[c] = "turn"
  /\ \/ /\ stmt[c] = NULL
        /\ BindNext(c, <<>>)
        /\ UNCHANGED <<db, ran, alone>>
     \/ /\ stmt[c] # NULL
        /\ LET s == statement(c, stmt[c]) IN
           \/ /\ Compiles(s, db)
              /\ db' = Effect(s, Bound(s, call[c].args), db)
              /\ ran' = [ran EXCEPT ![c] = @ + 1]
              /\ BindNext(c, Result(s, db))
              /\ alone' = [d \in Conns |-> alone[d] /\ (d = c \/ db' = db)]
           \/ /\ ~Compiles(s, db) /\ Panic(c, stmt_next[c])
              /\ UNCHANGED <<db, ran, alone>>
           \/ /\ Busy(c) /\ Panic(c, stmt_next[c])
              /\ alone' = [alone EXCEPT ![c] = FALSE]
              /\ UNCHANGED <<db, ran>>
  /\ before' = before

Step(c) == Compile(c) \/ Turn(c)

Next == \E c \in Conns :
          \/ Open(c) \/ Close(c) \/ Step(c)
          \/ /\ calls[c] + unowned[c] < MaxCalls
             /\ OpenFails(c) \/ \E query \in Queries : Eval(c, query)

Spec == Init /\ [][Next]_vars

-----------------------------------------------------------------------------
(* Properties *)

TypeOK == /\ flags \in [Conns -> {"none", "open", "FLAG_CLOSED"}]
          /\ pc \in [Conns -> {"idle", "compile", "turn"}]
          /\ call \in [Conns -> Queries \cup {NoQuery}]
          /\ pos \in [Conns -> Nat] /\ ran \in [Conns -> Nat] /\ calls \in [Conns -> Nat]
          /\ stmt \in [Conns -> Nat \cup {NULL}] /\ stmt_next \in [Conns -> Nat \cup {NULL}]
          /\ prepared \in [Conns -> SUBSET Nat]
          /\ handles \subseteq Conns /\ unowned \in [Conns -> Nat]

\* What a Db has made inside SQLite is what the binding still knows: its handle as
\* long as it is open, and in a call the current statement and the one ahead.
\* Nothing is left over on any way out of sqlite3/eval.  The handles of opens that
\* failed are not among these: they never get a Db, and unowned counts the leak.
NothingLeftOver ==
  /\ handles = {c \in Conns : flags[c] = "open"}
  /\ \A c \in Conns : prepared[c] = IF pc[c] = "idle" THEN {} ELSE Live({stmt[c], stmt_next[c]})

\* The statements of a call take effect like those of SqlScript.
Script == INSTANCE SqlScript WITH active <- {c \in Conns : pc[c] # "idle"}
ScriptSpec == Script!Spec

\* The file after the first n statements of a script.
After(d, script, args, n) ==
  LET after[k \in 0..n] ==
        IF k = 0 THEN d
        ELSE IF Compiles(script[k], after[k - 1])
             THEN Effect(script[k], Bound(script[k], args), after[k - 1])
             ELSE after[k - 1]
  IN after[n]

\* Statement k goes wrong: it was compiled before statement k - 1 was executed.
GoesWrong(d, script, args, k) ==
  \/ ~Compiles(script[k], After(d, script, args, IF k > 1 THEN k - 2 ELSE 0))
  \/ ~Compiles(script[k], After(d, script, args, k - 1))
  \/ ~Fits(script[k], args)

\* A call that is begun and that nobody disturbs fails only if one of its statements goes wrong,
\* and then the statements before that one have taken effect, but for one: if it
\* is the look-ahead that fails, the statement in front is dropped with it.
FailsForCause ==
  \A c \in Conns : pc[c] = "idle" /\ alone[c] /\ calls[c] > 0 =>
    LET script == call[c].script
        bad == {k \in DOMAIN script : GoesWrong(before[c], script, call[c].args, k)} IN
    /\ ret[c] = Failed <=> bad # {}
    /\ bad = {} => ran[c] = Len(script)
    /\ bad # {} => \E k \in bad : (\A j \in bad : k =< j) /\ k - 2 =< ran[c] /\ ran[c] < k

\* The doc string: statements can be chained.  A script whose statements are
\* in order one after the other does not fail.
ChainedScriptsWork ==
  \A c \in Conns : pc[c] = "idle" /\ alone[c] /\ ret[c] = Failed =>
    \E k \in DOMAIN call[c].script :
      LET s == call[c].script[k] IN
      \/ ~Compiles(s, After(before[c], call[c].script, call[c].args, k - 1))
      \/ ~Fits(s, call[c].args)
=============================================================================
