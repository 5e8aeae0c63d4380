------------------------------ MODULE Auctions ------------------------------
(***************************************************************************)
(* exec-db of target/super/auctions.janet, which app.janet calls when it   *)
(* starts, over the database binding: whoever finds no file makes it in    *)
(* three steps.  The program may run several times at once, be killed at   *)
(* any point and started again.                                            *)
(***************************************************************************)
EXTENDS Sqlite

CONSTANTS users, MaxVisits      \* bound on the calls of exec-db of a process

ASSUME UsersIsATable == users \in Tables
ASSUME AbsentIsNoTable == {Absent, Failed} \cap {<<>>, << <<>> >>} = {}

CreateUsers == [op |-> "create", table |-> users, params |-> <<>>]
InsertDummy == [op |-> "insert", table |-> users, params |-> <<>>]
CountUsers == [op |-> "select", table |-> users, params |-> <<>>]
Ask(s) == [script |-> <<s>>, args |-> NoArgs]
Asked == {Ask(CreateUsers), Ask(InsertDummy), Ask(CountUsers)}
ASSUME AskedAreQueries == Asked \subseteq Queries \ WithNul

VARIABLES
  exists,       \* dummy.db is there
  at,           \* the last form that each process has evaluated
  visits,       \* calls of exec-db
  abandoned,    \* a create-db ended between making the file and the row
  crowded       \* this visit and the create-db of another overlap

program == <<exists, at, visits, abandoned, crowded>>
allvars == <<vars, program>>

AuctionsInit == /\ Init /\ exists = FALSE /\ abandoned = FALSE
                /\ at = [p \in Conns |-> "out"] /\ visits = [p \in Conns |-> 0]
                /\ crowded = [p \in Conns |-> FALSE]

\* Processes inside create-db.
Makers == {p \in Conns : at[p] \in {"missing", "made", "created", "inserted"}}

\* os/stat
Stat(p) ==
  /\ at[p] = "out" /\ visits[p] < MaxVisits
  /\ visits' = [visits EXCEPT ![p] = @ + 1]
  /\ at' = [at EXCEPT ![p] = IF exists THEN "found" ELSE "missing"]
  /\ crowded' = [q \in Conns |-> IF q = p THEN Makers # {}
                                ELSE crowded[q] \/ (~exists /\ q \in Makers)]
  /\ UNCHANGED <<vars, exists, abandoned>>

Form(p, from, to) == /\ at[p] = from /\ pc[p] = "idle"
                     /\ at' = [at EXCEPT ![p] = to]
                     /\ UNCHANGED <<visits, abandoned, crowded>>

\* Mutant: goes on when the table could not be made.
Go_anyway(p) ==
  \/ Form(p, "missing", "made") /\ Open(p) /\ exists' = TRUE
  \/ Form(p, "made", "created") /\ Eval(p, Ask(CreateUsers)) /\ UNCHANGED exists
  \/ Form(p, "created", "inserted") /\ Eval(p, Ask(InsertDummy)) /\ UNCHANGED exists
  \/ Form(p, "inserted", "found") /\ Close(p) /\ UNCHANGED exists

\* The calls of create-db and of exec-db in their order.  SQLite makes the file
\* when it is opened.
Go(p) ==
  \/ Form(p, "missing", "made") /\ Open(p) /\ exists' = TRUE
  \/ Form(p, "made", "created") /\ Eval(p, Ask(CreateUsers)) /\ UNCHANGED exists
  \/ Form(p, "created", "inserted") /\ ret[p] # Failed
       /\ Eval(p, Ask(InsertDummy)) /\ UNCHANGED exists
  \/ Form(p, "inserted", "found") /\ ret[p] # Failed /\ Close(p) /\ UNCHANGED exists
  \/ Form(p, "found", "opened") /\ Open(p) /\ UNCHANGED exists
  \/ Form(p, "opened", "counted") /\ Eval(p, Ask(CountUsers)) /\ UNCHANGED exists
  \/ Form(p, "counted", "done") /\ ret[p] # Failed /\ Close(p) /\ UNCHANGED exists

\* sqlite3/open panics; it may have made the file before it failed.
Unopened(p) == /\ at[p] \in {"missing", "found"} /\ OpenFails(p)
               /\ at' = [at EXCEPT ![p] = "failed"]
               /\ exists' \in {exists, exists \/ at[p] = "missing"}
               /\ abandoned' = (abandoned \/ (exists' /\ ~exists))
               /\ UNCHANGED <<visits, crowded>>

Inside(p) == Step(p) /\ UNCHANGED program

\* The binding panics and the error leaves exec-db; the Db is closed when it is
\* collected.
Raise(p) == /\ at[p] \in {"created", "inserted", "counted"} /\ pc[p] = "idle" /\ ret[p] = Failed
            /\ abandoned' = (abandoned \/ at[p] = "inserted"
                               \/ (at[p] = "created" /\ db[users] = Absent))
            /\ at' = [at EXCEPT ![p] = "failed"]
            /\ Close(p)
            /\ UNCHANGED <<exists, visits, crowded>>

\* The process is killed; the file keeps what has been committed.
Kill(p) == /\ at[p] \notin {"out", "done", "failed", "killed"}
           /\ at' = [at EXCEPT ![p] = "killed"]
           /\ abandoned' = (abandoned \/ (at[p] \in {"made", "created", "inserted"}
                                            /\ (db[users] \in {Absent, <<>>})))
           /\ flags' = [flags EXCEPT ![p] = "none"] /\ handles' = handles \ {p}
           /\ unowned' = [unowned EXCEPT ![p] = 0]
           /\ pc' = [pc EXCEPT ![p] = "idle"] /\ prepared' = [prepared EXCEPT ![p] = {}]
           /\ alone' = [alone EXCEPT ![p] = FALSE]
           /\ UNCHANGED <<db, call, pos, stmt, stmt_next, ran, ret, calls, before>>
           /\ UNCHANGED <<exists, visits, crowded>>

\* exec-db is called again, by the same process or by the program started again.
Leave(p) == /\ at[p] \in {"done", "failed", "killed"}
            /\ at' = [at EXCEPT ![p] = "out"]
            /\ UNCHANGED <<vars, exists, visits, abandoned, crowded>>

AuctionsNext == \E p \in Conns : \/ Stat(p) \/ Go(p) \/ Unopened(p) \/ Inside(p)
                                 \/ Raise(p) \/ Kill(p) \/ Leave(p)

-----------------------------------------------------------------------------
(* Properties *)

\* However many processes find no file at the same time, one row is made at most;
\* and when no one is making it and none that was has been cut off, it is there.
MadeOnce ==
  /\ db[users] # Absent => Len(db[users]) =< 1
  /\ exists /\ Makers = {} /\ ~abandoned => db[users] = << <<>> >>

\* Only a create-db of somebody else, one that was cut off, the lock of another or
\* a file that cannot be opened can make a visit fail, and the lock cannot make it
\* count none.
Undisturbed ==
  \A p \in Conns : ~crowded[p] /\ ~abandoned =>
    /\ at[p] = "failed" => ~alone[p]
    /\ at[p] = "done" => Len(ret[p]) = 1

=============================================================================
