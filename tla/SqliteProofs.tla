---------------------------- MODULE SqliteProofs ----------------------------
(***************************************************************************)
(* Theorems about Sqlite, for any connections, tables and scripts, any     *)
(* bound on the calls and any fault; and about Auctions, for any number of *)
(* processes and visits.                                                   *)
(***************************************************************************)
EXTENDS MCSqlite, Recursion

\* A statement is finalized and SQLite called only while both exist.
OpenInCall ==
  \A c \in Conns : /\ pc[c] \in {"idle", "compile", "turn"}
                   /\ flags[c] \in {"none", "open", "FLAG_CLOSED"}
                   /\ pc[c] # "idle" => flags[c] = "open" /\ call[c] \in Queries

\* How far the loop of sql_eval is: the statement that is executed next is the one
\* behind those that took effect, and at most one more is compiled.
InLoop(c) ==
  /\ pos[c] \in 0..Len(call[c].script)
  /\ pc[c] = "compile" =>
       /\ stmt_next[c] = NULL
       /\ IF stmt[c] = NULL THEN pos[c] = 0 /\ ran[c] = 0
          ELSE stmt[c] = pos[c] /\ pos[c] > 0 /\ ran[c] = pos[c] - 1
  /\ pc[c] = "turn" /\ stmt_next[c] = NULL =>
       /\ pos[c] = Len(call[c].script)
       /\ IF stmt[c] = NULL THEN pos[c] = 0 /\ ran[c] = 0
          ELSE stmt[c] = pos[c] /\ pos[c] > 0 /\ ran[c] = pos[c] - 1
  /\ pc[c] = "turn" /\ stmt_next[c] # NULL =>
       /\ stmt_next[c] = pos[c]
       /\ IF stmt[c] = NULL THEN pos[c] = 1 /\ ran[c] = 0
          ELSE stmt[c] = pos[c] - 1 /\ pos[c] > 1 /\ ran[c] = pos[c] - 2

Loops == \A c \in Conns : pc[c] # "idle" => InLoop(c)

Inv == TypeOK /\ OpenInCall /\ Loops /\ NothingLeftOver

-----------------------------------------------------------------------------
LEMMA InCall ==
  ASSUME Inv, NEW c \in Conns, pc[c] # "idle"
  PROVE  /\ c \in handles /\ InLoop(c) /\ Len(call[c].script) \in Nat
         /\ prepared[c] = Live({stmt[c], stmt_next[c]})
         /\ pos[c] \in Nat /\ ran[c] \in Nat
<1>1. call[c].script \in Seq(Statement)
  BY ConstantsSound DEF Inv, OpenInCall
<1>2. Len(call[c].script) \in Nat
  BY <1>1
<1> QED BY <1>2 DEF Inv, OpenInCall, Loops, NothingLeftOver, TypeOK

\* The label error ends the call and leaves nothing.
LEMMA PanicStep ==
  ASSUME Inv, NEW c \in Conns, pc[c] # "idle", Panic(c, stmt_next[c]),
         ran' \in [Conns -> Nat], \A d \in Conns \ {c} : ran'[d] = ran[d]
  PROVE  Inv' /\ pc' = [pc EXCEPT ![c] = "idle"]
<1>1. Live({stmt[c], stmt_next[c]}) \subseteq prepared[c] /\ c \in handles
  BY InCall
<1>2. /\ pc' = [pc EXCEPT ![c] = "idle"]
      /\ prepared' = [prepared EXCEPT ![c] = @ \ {stmt[c], stmt_next[c]}]
      /\ UNCHANGED <<pos, stmt, stmt_next, call, calls, flags, handles, unowned>>
  BY <1>1 DEF Panic, Finalize, object
<1>3. prepared'[c] = {}
  BY <1>2, InCall DEF Live, Inv, TypeOK
<1>4. TypeOK' /\ OpenInCall'
  BY <1>2 DEF Inv, TypeOK, OpenInCall
<1>5. Loops'
  BY <1>2 DEF Inv, TypeOK, Loops, InLoop
<1>6. NothingLeftOver'
  BY <1>2, <1>3 DEF Inv, TypeOK, NothingLeftOver
<1> QED BY <1>2, <1>4, <1>5, <1>6 DEF Inv

LEMMA RotateStep ==
  ASSUME Inv, NEW c \in Conns, pc[c] = "turn", NEW found, Rotate(c, found),
         ran' = IF stmt[c] = NULL THEN ran ELSE [ran EXCEPT ![c] = @ + 1]
  PROVE  /\ Inv'
         /\ pc' = [pc EXCEPT ![c] = IF stmt_next[c] = NULL THEN "idle" ELSE "compile"]
<1>1. /\ Live({stmt[c]}) \subseteq prepared[c] /\ c \in handles /\ InLoop(c)
      /\ prepared[c] = Live({stmt[c], stmt_next[c]})
      /\ pos[c] \in Nat /\ ran[c] \in Nat
  BY InCall DEF Live
<1>2. /\ pc' = [pc EXCEPT ![c] = IF stmt_next[c] = NULL THEN "idle" ELSE "compile"]
      /\ prepared' = [prepared EXCEPT ![c] = @ \ {stmt[c]}]
      /\ stmt' = [stmt EXCEPT ![c] = stmt_next[c]]
      /\ stmt_next' = [stmt_next EXCEPT ![c] = NULL]
      /\ UNCHANGED <<pos, call, calls, flags, handles, unowned>>
  BY <1>1 DEF Rotate, Finalize, object
<1>3. ran' \in [Conns -> Nat] /\ (stmt[c] # NULL => ran'[c] = ran[c] + 1)
      /\ (stmt[c] = NULL => ran'[c] = ran[c]) /\ \A d \in Conns \ {c} : ran'[d] = ran[d]
  BY <1>1 DEF Inv, TypeOK
<1>4. stmt_next[c] # NULL => stmt_next[c] # stmt[c]
  BY <1>1, ConstantsSound DEF InLoop
<1>5. prepared'[c] = IF stmt_next[c] = NULL THEN {} ELSE {stmt_next[c]}
  BY <1>1, <1>2, <1>4 DEF Live, Inv, TypeOK
<1>6. TypeOK' /\ OpenInCall'
  BY <1>2, <1>3 DEF Inv, TypeOK, OpenInCall
<1>7. Loops'
  <2>1. ASSUME NEW d \in Conns \ {c}, pc'[d] # "idle" PROVE InLoop(d)'
    BY <1>2, <1>3, <2>1 DEF Inv, TypeOK, Loops, InLoop
  <2>2. stmt_next[c] # NULL => InLoop(c)'
    BY <1>1, <1>2, <1>3, ConstantsSound DEF InLoop, Inv, TypeOK
  <2>3. pc'[c] # "idle" => stmt_next[c] # NULL
    BY <1>2 DEF Inv, TypeOK
  <2> QED BY <2>1, <2>2, <2>3 DEF Loops
<1>8. NothingLeftOver'
  BY <1>2, <1>5 DEF Inv, TypeOK, NothingLeftOver, Live
<1> QED BY <1>2, <1>6, <1>7, <1>8 DEF Inv

LEMMA CompileStep ==
  ASSUME Inv, NEW c \in Conns, Compile(c)
  PROVE  /\ Inv' /\ UNCHANGED <<db, call, ran>>
         /\ \/ pc' = [pc EXCEPT ![c] = "turn"] /\ ret' = ret
            \/ pc' = [pc EXCEPT ![c] = "idle"] /\ ret' = [ret EXCEPT ![c] = Failed]
<1> DEFINE k == pos[c] + 1
           script == call[c].script
<1>1. /\ pc[c] = "compile" /\ c \in handles /\ InLoop(c) /\ Len(script) \in Nat
      /\ prepared[c] = Live({stmt[c], stmt_next[c]}) /\ stmt_next[c] = NULL
      /\ pos[c] \in Nat /\ ran[c] \in Nat /\ ran' = ran /\ db' = db
  BY InCall DEF Compile, InLoop
<1>2. CASE /\ k =< Len(script)
           /\ stmt_next' = [stmt_next EXCEPT ![c] = k]
           /\ prepared' = [prepared EXCEPT ![c] = @ \cup {k}]
           /\ pos' = [pos EXCEPT ![c] = k]
           /\ pc' = [pc EXCEPT ![c] = "turn"]
           /\ UNCHANGED <<stmt, call, ret, calls, object, alone>>
  <2>1. k \in Nat /\ k # NULL /\ k # stmt[c] /\ k > 0
    BY <1>1, ConstantsSound DEF InLoop
  <2>2. UNCHANGED <<stmt, call, ret, calls, flags, handles, unowned, alone>>
    BY <1>2 DEF object
  <2>3. TypeOK' /\ OpenInCall'
    BY <1>1, <1>2, <2>1, <2>2 DEF Inv, TypeOK, OpenInCall
  <2>4. Loops'
    <3>1. ASSUME NEW d \in Conns \ {c}, pc'[d] # "idle" PROVE InLoop(d)'
      BY <1>1, <1>2, <2>2, <3>1 DEF Inv, TypeOK, Loops, InLoop
    <3>2. InLoop(c)'
      BY <1>1, <1>2, <2>1, <2>2, ConstantsSound DEF InLoop, Inv, TypeOK
    <3> QED BY <3>1, <3>2 DEF Loops
  <2>5. prepared'[c] = Live({stmt'[c], stmt_next'[c]})
    BY <1>1, <1>2, <2>1, <2>2 DEF Inv, TypeOK, Live
  <2>6. NothingLeftOver'
    BY <1>1, <1>2, <2>2, <2>5 DEF Inv, TypeOK, NothingLeftOver
  <2> QED BY <1>1, <1>2, <2>2, <2>3, <2>4, <2>6 DEF Inv
<1>3. CASE /\ k > Len(script)
           /\ pc' = [pc EXCEPT ![c] = "turn"]
           /\ UNCHANGED <<loop, call, ret, calls, object, alone>>
  <2>1. UNCHANGED <<pos, stmt, stmt_next, prepared, call, ret, calls, flags, handles, unowned>>
    BY <1>3 DEF object, loop
  <2>2. TypeOK' /\ OpenInCall'
    BY <1>1, <1>3, <2>1 DEF Inv, TypeOK, OpenInCall
  <2>3. Loops'
    <3>1. ASSUME NEW d \in Conns \ {c}, pc'[d] # "idle" PROVE InLoop(d)'
      BY <1>1, <1>3, <2>1, <3>1 DEF Inv, TypeOK, Loops, InLoop
    <3>2. InLoop(c)'
      BY <1>1, <1>3, <2>1 DEF InLoop, Inv, TypeOK
    <3> QED BY <3>1, <3>2 DEF Loops
  <2>4. NothingLeftOver'
    BY <1>1, <1>3, <2>1 DEF Inv, TypeOK, NothingLeftOver
  <2> QED BY <1>1, <1>3, <2>1, <2>2, <2>3, <2>4 DEF Inv
<1>4. CASE Panic(c, NULL)
  <2>1. Panic(c, stmt_next[c]) /\ ran' \in [Conns -> Nat]
    BY <1>1, <1>4 DEF Inv, TypeOK
  <2>2. Inv' /\ pc' = [pc EXCEPT ![c] = "idle"]
    BY <1>1, <2>1, PanicStep
  <2> QED BY <1>1, <1>4, <2>2 DEF Panic
<1> QED BY <1>2, <1>3, <1>4 DEF Compile

\* A turn executes the statement, if there is one and if it can; what follows is
\* the next turn, the end of the call, or the label error.
LEMMA TurnStep ==
  ASSUME Inv, NEW c \in Conns, Turn(c)
  PROVE  /\ Inv' /\ call' = call
         /\ \/ /\ db' = db /\ ran' = ran
               /\ pc' = [pc EXCEPT ![c] = "idle"] /\ ret' = [ret EXCEPT ![c] = Failed]
            \/ /\ stmt[c] = NULL /\ db' = db /\ ran' = ran
               /\ \/ stmt_next[c] # NULL /\ pc' = [pc EXCEPT ![c] = "compile"] /\ ret' = ret
                  \/ /\ stmt_next[c] = NULL /\ pc' = [pc EXCEPT ![c] = "idle"]
                     /\ ret' = [ret EXCEPT ![c] = Read(<<>>)]
            \/ LET s == statement(c, stmt[c]) IN
               /\ stmt[c] # NULL /\ Compiles(s, db)
               /\ db' = Effect(s, Bound(s, call[c].args), db)
               /\ ran' = [ran EXCEPT ![c] = @ + 1]
               /\ \/ stmt_next[c] # NULL /\ pc' = [pc EXCEPT ![c] = "compile"] /\ ret' = ret
                  \/ /\ stmt_next[c] # NULL /\ pc' = [pc EXCEPT ![c] = "idle"]
                     /\ ret' = [ret EXCEPT ![c] = Failed]
                  \/ /\ stmt_next[c] = NULL /\ pc' = [pc EXCEPT ![c] = "idle"]
                     /\ ret' = [ret EXCEPT ![c] = Read(Result(s, db))]
<1>1. pc[c] = "turn" /\ ran \in [Conns -> Nat]
  BY DEF Turn, Inv, TypeOK
<1>2. CASE stmt[c] = NULL /\ BindNext(c, <<>>) /\ UNCHANGED <<db, ran>>
  <2>1. CASE Panic(c, stmt_next[c])
    <3>1. Inv' /\ pc' = [pc EXCEPT ![c] = "idle"]
      BY <1>1, <1>2, <2>1, PanicStep
    <3> QED BY <1>2, <2>1, <3>1 DEF Panic
  <2>2. CASE Rotate(c, <<>>)
    <3>1. /\ Inv'
          /\ pc' = [pc EXCEPT ![c] = IF stmt_next[c] = NULL THEN "idle" ELSE "compile"]
      BY <1>1, <1>2, <2>2, RotateStep
    <3> QED BY <1>2, <2>2, <3>1 DEF Rotate, Rows
  <2> QED BY <1>2, <2>1, <2>2 DEF BindNext
<1>3. CASE Panic(c, stmt_next[c]) /\ UNCHANGED <<db, ran>>
  <2>1. Inv' /\ pc' = [pc EXCEPT ![c] = "idle"]
    BY <1>1, <1>3, PanicStep
  <2> QED BY <1>3, <2>1 DEF Panic
<1>4. CASE LET s == statement(c, stmt[c]) IN
           /\ stmt[c] # NULL /\ Compiles(s, db)
           /\ db' = Effect(s, Bound(s, call[c].args), db)
           /\ ran' = [ran EXCEPT ![c] = @ + 1]
           /\ BindNext(c, Result(s, db))
  <2> DEFINE s == statement(c, stmt[c])
  <2>1. CASE stmt_next[c] # NULL /\ Panic(c, stmt_next[c])
    <3>1. ran' \in [Conns -> Nat] /\ \A d \in Conns \ {c} : ran'[d] = ran[d]
      <4>1. ran[c] + 1 \in Nat
        BY <1>1
      <4> QED BY <1>1, <1>4, <4>1
    <3>2. Inv' /\ pc' = [pc EXCEPT ![c] = "idle"]
      BY <1>1, <2>1, <3>1, PanicStep
    <3> QED BY <1>4, <2>1, <3>2 DEF Panic
  <2>2. CASE Rotate(c, Result(s, db))
    <3>1. /\ Inv'
          /\ pc' = [pc EXCEPT ![c] = IF stmt_next[c] = NULL THEN "idle" ELSE "compile"]
      BY <1>1, <1>4, <2>2, RotateStep
    <3> QED BY <1>4, <2>2, <3>1 DEF Rotate, Rows
  <2> QED BY <1>4, <2>1, <2>2 DEF BindNext
<1> QED BY <1>2, <1>3, <1>4 DEF Turn

LEMMA EvalStep ==
  ASSUME Inv, NEW c \in Conns, NEW query \in Queries, Eval(c, query)
  PROVE  /\ Inv' /\ UNCHANGED <<db, flags>> /\ pc[c] = "idle"
         /\ \/ Refused(c, query)
               /\ pc' = pc /\ call' = call /\ ran' = ran /\ ret' = [ret EXCEPT ![c] = Failed]
            \/ /\ ~Refused(c, query)
               /\ pc' = [pc EXCEPT ![c] = "compile"] /\ call' = [call EXCEPT ![c] = query]
               /\ ran' = [ran EXCEPT ![c] = 0] /\ ret' = ret
<1>1. /\ pc[c] = "idle" /\ flags[c] # "none" /\ calls' = [calls EXCEPT ![c] = @ + 1]
      /\ UNCHANGED <<db, flags, handles, unowned>>
  BY DEF Eval, object
<1>2. calls' \in [Conns -> Nat]
  <2>1. calls[c] + 1 \in Nat
    BY DEF Inv, TypeOK
  <2> QED BY <1>1, <2>1 DEF Inv, TypeOK
<1>3. CASE Refused(c, query)
  <2>1. UNCHANGED <<pc, call, pos, stmt, stmt_next, prepared, ran>>
        /\ ret' = [ret EXCEPT ![c] = Failed]
    BY <1>3 DEF Eval, loop
  <2>2. TypeOK' /\ OpenInCall' /\ Loops' /\ NothingLeftOver'
    BY <1>1, <1>2, <2>1 DEF Inv, TypeOK, OpenInCall, Loops, InLoop, NothingLeftOver
  <2> QED BY <1>1, <1>3, <2>1, <2>2 DEF Inv
<1>4. CASE ~Refused(c, query)
  <2>1. /\ flags[c] = "open" /\ pc' = [pc EXCEPT ![c] = "compile"]
        /\ call' = [call EXCEPT ![c] = query] /\ pos' = [pos EXCEPT ![c] = 0]
        /\ stmt' = [stmt EXCEPT ![c] = NULL] /\ stmt_next' = [stmt_next EXCEPT ![c] = NULL]
        /\ ran' = [ran EXCEPT ![c] = 0] /\ UNCHANGED <<prepared, ret>>
    BY <1>1, <1>4 DEF Eval, Refused, Inv, TypeOK
  <2>2. TypeOK' /\ OpenInCall'
    BY <1>1, <1>2, <2>1 DEF Inv, TypeOK, OpenInCall
  <2>3. Loops'
    <3>1. ASSUME NEW d \in Conns \ {c}, pc'[d] # "idle" PROVE InLoop(d)'
      BY <2>1, <3>1 DEF Inv, TypeOK, Loops, InLoop
    <3>2. InLoop(c)'
      <4>1. query.script \in Seq(Statement)
        BY ConstantsSound
      <4>2. Len(query.script) \in Nat
        BY <4>1
      <4> QED BY <2>1, <4>2 DEF InLoop, Inv, TypeOK
    <3> QED BY <3>1, <3>2 DEF Loops
  <2>4. NothingLeftOver'
    BY <1>1, <2>1 DEF Inv, TypeOK, NothingLeftOver, Live
  <2> QED BY <1>1, <1>4, <2>1, <2>2, <2>3, <2>4 DEF Inv
<1> QED BY <1>3, <1>4

LEMMA ConnectionStep ==
  ASSUME Inv, NEW c \in Conns, Open(c) \/ Close(c) \/ OpenFails(c)
  PROVE  /\ Inv' /\ UNCHANGED <<db, pc, call, ran, ret>>
         /\ \A d \in Conns \ {c} : flags'[d] = flags[d]
         /\ Open(c) => flags'[c] = "open"
<1>1. /\ pc[c] = "idle"
      /\ \/ flags' = [flags EXCEPT ![c] = "open"] /\ handles' = handles \cup {c}
         \/ flags' = [flags EXCEPT ![c] = "FLAG_CLOSED"] /\ handles' = handles \ {c}
         \/ UNCHANGED <<flags, handles>>
      /\ \/ unowned' = unowned
         \/ unowned' = [unowned EXCEPT ![c] = @ + 1]
      /\ UNCHANGED <<db, pc, call, pos, stmt, stmt_next, prepared, ran, ret, calls>>
  <2>1. flags[c] = "open" => c \in handles
    BY DEF Inv, NothingLeftOver
  <2> QED BY <2>1 DEF Open, OpenFails, Close, closedb, loop
<1>2. TypeOK' /\ OpenInCall'
  <2>1. unowned' \in [Conns -> Nat]
    <3>1. unowned[c] + 1 \in Nat
      BY DEF Inv, TypeOK
    <3> QED BY <1>1, <3>1 DEF Inv, TypeOK
  <2> QED BY <1>1, <2>1 DEF Inv, TypeOK, OpenInCall
<1>3. Loops'
  BY <1>1 DEF Inv, TypeOK, Loops, InLoop
<1>4. NothingLeftOver'
  BY <1>1 DEF Inv, TypeOK, NothingLeftOver
<1>5. Open(c) => flags'[c] = "open"
  BY DEF Open, Inv, TypeOK
<1> QED BY <1>1, <1>2, <1>3, <1>4, <1>5 DEF Inv, TypeOK

LEMMA InvInit == Init => Inv
BY ConstantsSound DEF Init, Inv, TypeOK, OpenInCall, Loops, NothingLeftOver

LEMMA InvNext == Inv /\ [Next]_vars => Inv'
<1> SUFFICES ASSUME Inv, [Next]_vars PROVE Inv'
  OBVIOUS
<1>1. CASE UNCHANGED vars
  BY <1>1 DEF vars, object, loop, Inv, TypeOK, OpenInCall, Loops, InLoop, NothingLeftOver
<1>2. ASSUME NEW c \in Conns, Open(c) \/ Close(c) \/ OpenFails(c) PROVE Inv'
  BY <1>2, ConnectionStep
<1>3. ASSUME NEW c \in Conns, Step(c) PROVE Inv'
  BY <1>3, CompileStep, TurnStep DEF Step
<1>4. ASSUME NEW c \in Conns, NEW query \in Queries, Eval(c, query) PROVE Inv'
  BY <1>4, EvalStep
<1> QED BY <1>1, <1>2, <1>3, <1>4 DEF Next

-----------------------------------------------------------------------------
(* Theorems *)

\* The invariant of the binding: every way through sql_eval, and opening and closing,
\* keeps it.
THEOREM Invariance == Spec => []Inv
BY InvInit, InvNext, PTL DEF Spec

\* Whatever the scripts do and at whichever statement sql_eval leaves its loop,
\* every prepared statement is finalized once, and the handle of a Db is open inside
\* SQLite exactly as long as the Db.  (A sqlite3/open that fails makes no Db.)
THEOREM NothingLeft == Spec => []NothingLeftOver
<1>1. Inv => NothingLeftOver
  BY DEF Inv
<1> QED BY <1>1, Invariance, PTL

\* A step of a call is one of the abstract call, or none.
LEMMA CallRefines ==
  ASSUME Inv, NEW c \in Conns, Step(c)
  PROVE  Script!Next \/ UNCHANGED Script!vars
<1> DEFINE act == {d \in Conns : pc[d] # "idle"}
           script == call[c].script
<1>1. /\ c \in act /\ call' = call /\ InLoop(c) /\ Len(script) \in Nat
      /\ pos[c] \in Nat /\ ran[c] \in Nat /\ ran \in [Conns -> Nat]
      /\ pc \in [Conns -> {"idle", "compile", "turn"}]
  BY InCall, CompileStep, TurnStep DEF Step, Compile, Turn, Inv, TypeOK
<1>2. pc' = [pc EXCEPT ![c] = "turn"] \/ pc' = [pc EXCEPT ![c] = "compile"] => act' = act
  BY <1>1
<1>3. pc' = [pc EXCEPT ![c] = "idle"] => act' = act \ {c}
  BY <1>1
<1>4. CASE pc' = [pc EXCEPT ![c] = "turn"] /\ UNCHANGED <<db, ran, ret>>
  BY <1>1, <1>2, <1>4 DEF Script!vars
<1>5. CASE /\ pc' = [pc EXCEPT ![c] = "idle"] /\ ret' = [ret EXCEPT ![c] = Failed]
           /\ UNCHANGED <<db, ran>>
  <2>1. Script!Fail(c)
    BY <1>1, <1>3, <1>5 DEF Script!Fail, Script!Answer
  <2> QED BY <2>1 DEF Script!Next
<1>6. CASE /\ pc[c] = "turn" /\ stmt[c] = NULL /\ UNCHANGED <<db, ran>>
           /\ \/ pc' = [pc EXCEPT ![c] = "compile"] /\ ret' = ret
              \/ /\ stmt_next[c] = NULL /\ pc' = [pc EXCEPT ![c] = "idle"]
                 /\ ret' = [ret EXCEPT ![c] = Read(<<>>)]
  <2>1. CASE pc' = [pc EXCEPT ![c] = "compile"] /\ ret' = ret
    BY <1>1, <1>2, <1>6, <2>1 DEF Script!vars
  <2>2. CASE /\ stmt_next[c] = NULL /\ pc' = [pc EXCEPT ![c] = "idle"]
             /\ ret' = [ret EXCEPT ![c] = Read(<<>>)]
    <3>1. script \in Seq(Statement) /\ Len(script) = 0
      BY <1>1, <1>6, <2>2, ConstantsSound DEF InLoop, Inv, OpenInCall
    <3>2. script = <<>>
      BY <3>1
    <3>3. Read(<<>>) = <<>>
      BY DEF Read
    <3>4. Script!Nothing(c)
      BY <1>1, <1>3, <1>6, <2>2, <3>2, <3>3 DEF Script!Nothing, Script!Answer
    <3> QED BY <3>4 DEF Script!Next
  <2> QED BY <1>6, <2>1, <2>2
<1>7. CASE LET s == statement(c, stmt[c]) IN
           /\ pc[c] = "turn" /\ stmt[c] # NULL /\ Compiles(s, db)
           /\ db' = Effect(s, Bound(s, call[c].args), db)
           /\ ran' = [ran EXCEPT ![c] = @ + 1]
           /\ \/ stmt_next[c] # NULL /\ pc' = [pc EXCEPT ![c] = "compile"] /\ ret' = ret
              \/ /\ stmt_next[c] # NULL /\ pc' = [pc EXCEPT ![c] = "idle"]
                 /\ ret' = [ret EXCEPT ![c] = Failed]
              \/ /\ stmt_next[c] = NULL /\ pc' = [pc EXCEPT ![c] = "idle"]
                 /\ ret' = [ret EXCEPT ![c] = Read(Result(s, db))]
  <2>1. /\ stmt[c] = ran[c] + 1 /\ ran[c] < Len(script)
        /\ stmt_next[c] = NULL <=> ran[c] + 1 = Len(script)
    BY <1>1, <1>7 DEF InLoop
  <2>2. statement(c, stmt[c]) = script[ran[c] + 1]
    BY <2>1 DEF statement
  <2>3. Script!Do(c)
    BY <1>1, <1>2, <1>3, <1>7, <2>1, <2>2
       DEF Script!Do, Script!Answer, Script!Compiles, Script!Effect, Script!Result,
           Compiles, Effect, Result
  <2> QED BY <2>3 DEF Script!Next
<1>8. CASE Compile(c)
  BY <1>4, <1>5, <1>8, CompileStep
<1>9. CASE Turn(c)
  <2>1. pc[c] = "turn"
    BY <1>9 DEF Turn
  <2> QED BY <1>5, <1>6, <1>7, <1>9, <2>1, TurnStep
<1> QED BY <1>8, <1>9 DEF Step

LEMMA NextRefines ==
  ASSUME Inv, [Next]_vars
  PROVE  [Script!Next]_(Script!vars)
<1>1. CASE UNCHANGED vars
  BY <1>1 DEF vars, Script!vars
<1>2. ASSUME NEW c \in Conns, Open(c) \/ Close(c) \/ OpenFails(c)
      PROVE  UNCHANGED Script!vars
  BY <1>2, ConnectionStep DEF Script!vars
<1>3. ASSUME NEW c \in Conns, Step(c) PROVE Script!Next \/ UNCHANGED Script!vars
  BY <1>3, CallRefines
<1>4. ASSUME NEW c \in Conns, NEW query \in Queries, Eval(c, query) PROVE Script!Next
  <2>1. pc \in [Conns -> {"idle", "compile", "turn"}]
    BY DEF Inv, TypeOK
  <2>2. \/ Script!Refuse(c)
        \/ Script!Begin(c)
    BY <1>4, <2>1, EvalStep DEF Script!Refuse, Script!Begin
  <2> QED BY <2>2 DEF Script!Next
<1> QED BY <1>1, <1>2, <1>3, <1>4 DEF Next

\* sql_eval, which compiles each statement one turn before it executes it, does for
\* every script what the plain description does that executes one after the other.
THEOREM ScriptImplemented == Spec => ScriptSpec
<1>1. Init => Script!Init
  BY DEF Init, Script!Init
<1>2. Inv /\ [Next]_vars => [Script!Next]_(Script!vars)
  BY NextRefines
<1> QED BY <1>1, <1>2, Invariance, PTL DEF Spec, ScriptSpec, Script!Spec

-----------------------------------------------------------------------------
(* Why a call fails. *)

\* The file after k statements, as a table over 0..n.
AfterTable(h, d, script, args, n) ==
  h = [k \in 0..n |->
         IF k = 0 THEN d
         ELSE IF Compiles(script[k], h[k - 1])
              THEN Effect(script[k], Bound(script[k], args), h[k - 1])
              ELSE h[k - 1]]

LEMMA AfterTables ==
  ASSUME NEW d, NEW script, NEW args, NEW n \in Nat
  PROVE  \E h : AfterTable(h, d, script, args, n) /\ After(d, script, args, n) = h[n]
<1> DEFINE P(h, m) == AfterTable(h, d, script, args, m)
           S == {m \in 0..n : \E h : P(h, m)}
<1>1. 0 \in S
  <2>1. P([k \in 0..0 |-> d], 0)
    BY DEF AfterTable
  <2>2. 0 \in 0..n
    OBVIOUS
  <2> HIDE DEF P
  <2> QED BY <2>1, <2>2
<1>2. ASSUME NEW m \in 0..(n - 1), m \in S PROVE m + 1 \in S
  <2>1. PICK h : P(h, m)
    BY <1>2
  <2> DEFINE s == script[m + 1]
             next == IF Compiles(s, h[m]) THEN Effect(s, Bound(s, args), h[m]) ELSE h[m]
             g == [k \in 0..(m + 1) |-> IF k = m + 1 THEN next ELSE h[k]]
  <2>2. ASSUME NEW k \in 0..(m + 1)
        PROVE  g[k] = IF k = 0 THEN d
                      ELSE IF Compiles(script[k], g[k - 1])
                           THEN Effect(script[k], Bound(script[k], args), g[k - 1])
                           ELSE g[k - 1]
    <3>1. CASE k = m + 1
      <4>1. k # 0 /\ k - 1 = m /\ m \in 0..(m + 1) /\ m # m + 1
        BY <3>1
      <4>2. g[k] = next /\ g[k - 1] = h[m]
        BY <3>1, <4>1
      <4> HIDE DEF g
      <4> QED BY <3>1, <4>1, <4>2
    <3>2. CASE k # m + 1
      <4>1. k \in 0..m /\ (k # 0 => k - 1 \in 0..m)
        BY <3>2
      <4>2. g[k] = h[k] /\ (k # 0 => g[k - 1] = h[k - 1])
        BY <4>1
      <4>3. h[k] = IF k = 0 THEN d
                   ELSE IF Compiles(script[k], h[k - 1])
                        THEN Effect(script[k], Bound(script[k], args), h[k - 1])
                        ELSE h[k - 1]
        BY <2>1, <4>1 DEF AfterTable
      <4> HIDE DEF g
      <4> QED BY <4>2, <4>3
    <3> QED BY <3>1, <3>2
  <2>3. P(g, m + 1)
    BY <2>2 DEF AfterTable
  <2>4. m + 1 \in 0..n
    OBVIOUS
  <2> HIDE DEF P
  <2> QED BY <2>3, <2>4
<1>3. n \in S
  <2>1. n \in 0..n /\ \A m \in 0..(n - 1) : m \in S => m + 1 \in S
    BY <1>2
  <2> HIDE DEF S
  <2> QED BY <1>1, <2>1, Induction
<1> DEFINE h == CHOOSE h : P(h, n)
<1>4. P(h, n)
  <2>1. \E g : P(g, n)
    BY <1>3
  <2> HIDE DEF P
  <2> QED BY <2>1
<1>5. After(d, script, args, n) = h[n]
  BY DEF After, AfterTable
<1> HIDE DEF h
<1> QED BY <1>4, <1>5

LEMMA AfterNone == ASSUME NEW d, NEW script, NEW args PROVE After(d, script, args, 0) = d
<1>1. PICK h : AfterTable(h, d, script, args, 0) /\ After(d, script, args, 0) = h[0]
  BY AfterTables
<1>2. h[0] = d
  BY <1>1 DEF AfterTable
<1> QED BY <1>1, <1>2

LEMMA AfterOne ==
  ASSUME NEW d, NEW script, NEW args, NEW n \in Nat
  PROVE  After(d, script, args, n + 1) =
           LET s == script[n + 1]
               e == After(d, script, args, n)
           IN IF Compiles(s, e) THEN Effect(s, Bound(s, args), e) ELSE e
<1>1. PICK f : AfterTable(f, d, script, args, n) /\ After(d, script, args, n) = f[n]
  BY AfterTables
<1>2. PICK g : AfterTable(g, d, script, args, n + 1) /\ After(d, script, args, n + 1) = g[n + 1]
  BY AfterTables
<1> DEFINE S == {k \in 0..n : f[k] = g[k]}
<1>3. 0 \in S
  BY <1>1, <1>2 DEF AfterTable
<1>4. \A k \in 0..(n + 1) :
        g[k] = IF k = 0 THEN d
               ELSE IF Compiles(script[k], g[k - 1])
                    THEN Effect(script[k], Bound(script[k], args), g[k - 1])
                    ELSE g[k - 1]
  BY <1>2 DEF AfterTable
<1>5. ASSUME NEW k \in 0..(n - 1), k \in S PROVE k + 1 \in S
  <2>1. k + 1 \in 0..n /\ k + 1 \in 0..(n + 1) /\ k + 1 # 0 /\ (k + 1) - 1 = k
    OBVIOUS
  <2>2. f[k + 1] = IF Compiles(script[k + 1], f[k])
                   THEN Effect(script[k + 1], Bound(script[k + 1], args), f[k])
                   ELSE f[k]
    BY <1>1, <2>1 DEF AfterTable
  <2>3. g[k + 1] = IF Compiles(script[k + 1], g[k])
                   THEN Effect(script[k + 1], Bound(script[k + 1], args), g[k])
                   ELSE g[k]
    BY <1>4, <2>1
  <2>4. f[k] = g[k]
    BY <1>5
  <2> QED BY <2>1, <2>2, <2>3, <2>4
<1>6. f[n] = g[n]
  <2>1. n \in 0..n /\ \A k \in 0..(n - 1) : k \in S => k + 1 \in S
    BY <1>5
  <2>2. 0..n \subseteq S
    <3> HIDE DEF S
    <3> QED BY <1>3, <2>1, Induction
  <2> QED BY <2>1, <2>2
<1>7. n + 1 \in 0..(n + 1) /\ n + 1 # 0 /\ (n + 1) - 1 = n
  OBVIOUS
<1> QED BY <1>1, <1>2, <1>4, <1>6, <1>7

File(c, k) == After(before[c], call[c].script, call[c].args, k)
Wrong(c, k) == GoesWrong(before[c], call[c].script, call[c].args, k)

\* Statement k has passed the look-ahead.
Passed(c, k) == /\ Compiles(call[c].script[k], File(c, IF k > 1 THEN k - 2 ELSE 0))
                /\ Fits(call[c].script[k], call[c].args)

\* A call that has not been disturbed yet has done what its script says, as far as
\* it is, and nothing has gone wrong that was looked at.
OnWay(c) ==
  /\ db = File(c, ran[c])
  /\ \A k \in 1..ran[c] : ~Wrong(c, k)
  /\ stmt[c] # NULL => Passed(c, stmt[c])
  /\ pc[c] = "turn" /\ stmt_next[c] # NULL => Compiles(call[c].script[stmt_next[c]], db)

\* One that has ended failed at the first statement that goes wrong, or did not fail.
Ended(c) ==
  LET script == call[c].script IN
  \/ /\ ret[c] # Failed /\ ran[c] = Len(script)
     /\ \A k \in DOMAIN script : ~Wrong(c, k)
  \/ /\ ret[c] = Failed
     /\ \E k \in DOMAIN script : /\ Wrong(c, k) /\ \A j \in 1..(k - 1) : ~Wrong(c, j)
                                 /\ k - 2 =< ran[c] /\ ran[c] < k

Cause ==
  /\ alone \in [Conns -> BOOLEAN]
  /\ before = [c \in Conns |-> before[c]] /\ ret = [c \in Conns |-> ret[c]]
  /\ \A c \in Conns : alone[c] => IF pc[c] = "idle" THEN calls[c] > 0 => Ended(c) ELSE OnWay(c)

\* What a call that is not c's step sees: its own state is as it was.
LEMMA OthersCause ==
  ASSUME Inv, Cause, NEW d \in Conns, alone[d],
         pc'[d] = pc[d], call'[d] = call[d], calls'[d] = calls[d], before'[d] = before[d],
         ran'[d] = ran[d], ret'[d] = ret[d], stmt'[d] = stmt[d], stmt_next'[d] = stmt_next[d],
         pc[d] = "idle" \/ db' = db
  PROVE  IF pc'[d] = "idle" THEN calls'[d] > 0 => Ended(d)' ELSE OnWay(d)'
<1>1. \A k : File(d, k)' = File(d, k) /\ Wrong(d, k)' = Wrong(d, k) /\ Passed(d, k)' = Passed(d, k)
  BY DEF File, Wrong, Passed
<1>2. CASE pc[d] = "idle"
  BY <1>1, <1>2 DEF Cause, Ended
<1>3. CASE pc[d] # "idle"
  BY <1>1, <1>3 DEF Cause, OnWay
<1> QED BY <1>2, <1>3

\* The end of a call at statement k, where statement k - 1 may be the one to blame.
LEMMA FailsAt ==
  ASSUME NEW c \in Conns, NEW k \in Nat, NEW n \in Nat, call[c].script \in Seq(Statement),
         k > 0, k =< Len(call[c].script), Wrong(c, k), n < k, k =< n + 2,
         \A j \in 1..n : ~Wrong(c, j)
  PROVE  \E i \in DOMAIN call[c].script :
            /\ Wrong(c, i) /\ \A j \in 1..(i - 1) : ~Wrong(c, j)
            /\ i - 2 =< n /\ n < i
<1>1. DOMAIN call[c].script = 1..Len(call[c].script) /\ Len(call[c].script) \in Nat
  OBVIOUS
<1>2. CASE k = n + 1
  <2>1. \A j \in 1..(k - 1) : ~Wrong(c, j)
    BY <1>2
  <2> QED BY <1>1, <1>2, <2>1
<1>3. CASE k = n + 2 /\ Wrong(c, n + 1)
  <2>1. \A j \in 1..((n + 1) - 1) : ~Wrong(c, j)
    OBVIOUS
  <2>2. n + 1 \in DOMAIN call[c].script
    BY <1>1, <1>3
  <2> QED BY <1>3, <2>1, <2>2
<1>4. CASE k = n + 2 /\ ~Wrong(c, n + 1)
  <2>1. \A j \in 1..(k - 1) : ~Wrong(c, j)
    <3>1. \A j \in 1..(k - 1) : j \in 1..n \/ j = n + 1
      BY <1>4
    <3> QED BY <1>4, <3>1
  <2> QED BY <1>1, <1>4, <2>1
<1> QED BY <1>2, <1>3, <1>4

\* What c's step has to show.
LEMMA CauseOf ==
  ASSUME Inv, Cause, NEW c \in Conns,
         alone' \in [Conns -> BOOLEAN],
         before' = [d \in Conns |-> before'[d]], ret' = [d \in Conns |-> ret'[d]],
         \A d \in Conns \ {c} :
           /\ pc'[d] = pc[d] /\ call'[d] = call[d] /\ calls'[d] = calls[d] /\ before'[d] = before[d]
           /\ ran'[d] = ran[d] /\ ret'[d] = ret[d] /\ stmt'[d] = stmt[d] /\ stmt_next'[d] = stmt_next[d]
           /\ alone'[d] => alone[d] /\ db' = db,
         alone'[c] => IF pc'[c] = "idle" THEN calls'[c] > 0 => Ended(c)' ELSE OnWay(c)'
  PROVE  Cause'
<1>1. ASSUME NEW d \in Conns, alone'[d]
      PROVE  IF pc'[d] = "idle" THEN calls'[d] > 0 => Ended(d)' ELSE OnWay(d)'
  <2>1. CASE d = c
    BY <1>1, <2>1
  <2>2. CASE d # c
    BY <1>1, <2>2, OthersCause
  <2> QED BY <2>1, <2>2
<1> QED BY <1>1 DEF Cause

LEMMA ConnectionCause ==
  ASSUME Inv, Cause, NEW c \in Conns, Open(c) \/ Close(c) \/ OpenFails(c)
  PROVE  Cause'
<1>1. /\ pc[c] = "idle" /\ pc' = pc
      /\ UNCHANGED <<db, call, stmt, stmt_next, ran, ret, calls, before>>
      /\ alone' \in {alone, [alone EXCEPT ![c] = FALSE]}
  <2>1. flags[c] = "open" => c \in handles
    BY DEF Inv, NothingLeftOver
  <2> QED BY <2>1 DEF Open, OpenFails, Close, closedb, loop, history
<1>2. alone' \in [Conns -> BOOLEAN] /\ \A d \in Conns : alone'[d] => alone[d]
  BY <1>1 DEF Cause
<1> QED BY <1>1, <1>2 DEF Cause, Ended, OnWay, Wrong, File, Passed

LEMMA EvalCause ==
  ASSUME Inv, Cause, NEW c \in Conns, NEW query \in Queries, Eval(c, query)
  PROVE  Cause'
<1>1. /\ pc[c] = "idle" /\ db' = db
      /\ \A d \in Conns \ {c} : calls'[d] = calls[d]
      /\ pc \in [Conns -> {"idle", "compile", "turn"}] /\ call \in [Conns -> Queries \cup {NoQuery}]
      /\ ran \in [Conns -> Nat]
      /\ stmt \in [Conns -> Nat \cup {NULL}] /\ stmt_next \in [Conns -> Nat \cup {NULL}]
  BY DEF Eval, Inv, TypeOK
<1>2. CASE Refused(c, query)
  <2>1. /\ ret' = [ret EXCEPT ![c] = Failed] /\ alone' = [alone EXCEPT ![c] = FALSE]
        /\ UNCHANGED <<pc, call, stmt, stmt_next, ran, before>>
    BY <1>2 DEF Eval, loop
  <2> QED BY <1>1, <2>1, CauseOf DEF Cause
<1>3. CASE ~Refused(c, query)
  <2>1. /\ pc' = [pc EXCEPT ![c] = "compile"] /\ call' = [call EXCEPT ![c] = query]
        /\ stmt' = [stmt EXCEPT ![c] = NULL] /\ stmt_next' = [stmt_next EXCEPT ![c] = NULL]
        /\ ran' = [ran EXCEPT ![c] = 0] /\ before' = [before EXCEPT ![c] = db]
        /\ alone' = [alone EXCEPT ![c] = TRUE] /\ ret' = ret
    BY <1>3 DEF Eval
  <2>2. /\ pc'[c] = "compile" /\ stmt'[c] = NULL /\ ran'[c] = 0 /\ before'[c] = db
    BY <1>1, <2>1 DEF Cause
  <2>3. File(c, 0)' = db
    BY <2>2, AfterNone DEF File
  <2>4. OnWay(c)'
    <3>1. 1..ran'[c] = {}
      BY <2>2
    <3> QED BY <1>1, <2>2, <2>3, <3>1 DEF OnWay
  <2>5. /\ alone' \in [Conns -> BOOLEAN]
        /\ before' = [d \in Conns |-> before'[d]] /\ ret' = [d \in Conns |-> ret'[d]]
        /\ \A d \in Conns \ {c} :
             /\ pc'[d] = pc[d] /\ call'[d] = call[d] /\ before'[d] = before[d]
             /\ ran'[d] = ran[d] /\ ret'[d] = ret[d] /\ stmt'[d] = stmt[d]
             /\ stmt_next'[d] = stmt_next[d] /\ alone'[d] = alone[d]
    BY <1>1, <2>1 DEF Cause
  <2> QED BY <1>1, <2>2, <2>4, <2>5, CauseOf
<1> QED BY <1>2, <1>3

\* The label error, reached in time: statement k goes wrong, and n took effect.
LEMMA PanicEnded ==
  ASSUME Inv, Cause, NEW c \in Conns, pc[c] # "idle", NEW n \in Nat, NEW k \in Nat,
         ran'[c] = n, Panic(c, stmt_next[c]), before'[c] = before[c],
         k > 0, k =< Len(call[c].script), Wrong(c, k), n < k, k =< n + 2,
         \A j \in 1..n : ~Wrong(c, j)
  PROVE  Ended(c)'
<1>1. ret'[c] = Failed /\ call' = call
  BY DEF Panic, Cause
<1>2. call[c].script \in Seq(Statement)
  BY ConstantsSound DEF Inv, OpenInCall
<1>3. PICK i \in DOMAIN call[c].script :
            /\ Wrong(c, i) /\ \A j \in 1..(i - 1) : ~Wrong(c, j)
            /\ i - 2 =< n /\ n < i
  BY <1>2, FailsAt
<1>4. \A j : Wrong(c, j)' = Wrong(c, j)
  BY <1>1 DEF Wrong
<1> QED BY <1>1, <1>3, <1>4 DEF Ended

LEMMA CompileCause ==
  ASSUME Inv, Cause, NEW c \in Conns, Compile(c)
  PROVE  Cause'
<1> DEFINE k == pos[c] + 1
           script == call[c].script
<1>1. /\ pc[c] = "compile" /\ InLoop(c) /\ Len(script) \in Nat /\ stmt_next[c] = NULL
      /\ pos[c] \in Nat /\ ran[c] \in Nat /\ UNCHANGED <<db, ran, before>>
      /\ pc \in [Conns -> {"idle", "compile", "turn"}]
      /\ stmt_next \in [Conns -> Nat \cup {NULL}]
  BY InCall DEF Compile, InLoop, Inv, TypeOK
<1>2. /\ k \in Nat /\ k > 0 /\ ran[c] < k /\ k =< ran[c] + 2
      /\ (IF k > 1 THEN k - 2 ELSE 0) = ran[c]
  BY <1>1 DEF InLoop
<1>3. ASSUME alone[c] PROVE OnWay(c)
  BY <1>1, <1>3 DEF Cause
<1>4. CASE /\ k =< Len(script) /\ Compiles(statement(c, k), db)
           /\ stmt_next' = [stmt_next EXCEPT ![c] = k]
           /\ pc' = [pc EXCEPT ![c] = "turn"]
           /\ UNCHANGED <<stmt, call, ret, calls, object, alone>>
  <2>1. stmt_next'[c] = k /\ pc'[c] = "turn"
    BY <1>1, <1>4
  <2>2. ASSUME alone[c] PROVE OnWay(c)'
    <3>1. OnWay(c)
      BY <1>3, <2>2
    <3>2. \A j : File(c, j)' = File(c, j) /\ Wrong(c, j)' = Wrong(c, j) /\ Passed(c, j)' = Passed(c, j)
      BY <1>1, <1>4 DEF File, Wrong, Passed
    <3> QED BY <1>1, <1>4, <2>1, <3>1, <3>2 DEF OnWay, statement
  <2>3. \A d \in Conns \ {c} : pc'[d] = pc[d] /\ stmt_next'[d] = stmt_next[d]
    BY <1>1, <1>4
  <2> HIDE DEF k, script
  <2> QED BY <1>1, <1>4, <2>1, <2>2, <2>3, CauseOf DEF Cause
<1>5. CASE /\ k > Len(script)
           /\ pc' = [pc EXCEPT ![c] = "turn"]
           /\ UNCHANGED <<loop, call, ret, calls, object, alone>>
  <2>1. UNCHANGED <<stmt, stmt_next>> /\ pc'[c] = "turn"
    BY <1>1, <1>5 DEF loop
  <2>2. ASSUME alone[c] PROVE OnWay(c)'
    <3>1. OnWay(c)
      BY <1>3, <2>2
    <3>2. \A j : File(c, j)' = File(c, j) /\ Wrong(c, j)' = Wrong(c, j) /\ Passed(c, j)' = Passed(c, j)
      BY <1>1, <1>5 DEF File, Wrong, Passed
    <3> QED BY <1>1, <1>5, <2>1, <3>1, <3>2 DEF OnWay
  <2>3. \A d \in Conns \ {c} : pc'[d] = pc[d]
    BY <1>1, <1>5
  <2> HIDE DEF k, script
  <2> QED BY <1>1, <1>5, <2>1, <2>2, <2>3, CauseOf DEF Cause
<1>6. CASE Panic(c, NULL) /\ \/ /\ k =< Len(script) /\ ~Compiles(statement(c, k), db)
                                /\ alone' = alone
                             \/ alone' = [alone EXCEPT ![c] = FALSE]
  <2>1. /\ Panic(c, stmt_next[c]) /\ ret' = [ret EXCEPT ![c] = Failed]
        /\ UNCHANGED <<stmt, stmt_next, call, calls>>
    BY <1>1, <1>6 DEF Panic
  <2>2. pc' = [pc EXCEPT ![c] = "idle"]
    BY <1>1, <2>1, PanicStep DEF Inv, TypeOK
  <2>3. ASSUME alone'[c] PROVE Ended(c)'
    <3>1. /\ alone[c] /\ k =< Len(script) /\ ~Compiles(statement(c, k), db)
      BY <1>6, <2>3 DEF Cause
    <3>2. OnWay(c)
      BY <1>3, <3>1
    <3>3. Wrong(c, k)
      <4>1. File(c, IF k > 1 THEN k - 2 ELSE 0) = db
        BY <1>2, <3>2 DEF OnWay
      <4> QED BY <3>1, <4>1 DEF Wrong, GoesWrong, File, statement
    <3>4. \A j \in 1..ran[c] : ~Wrong(c, j)
      BY <3>2 DEF OnWay
    <3>5. ran'[c] = ran[c] /\ before'[c] = before[c] /\ pc[c] # "idle"
      BY <1>1
    <3> HIDE DEF k
    <3> QED BY <1>1, <1>2, <2>1, <3>1, <3>3, <3>4, <3>5, PanicEnded
  <2>4. \A d \in Conns \ {c} : pc'[d] = pc[d] /\ ret'[d] = ret[d] /\ (alone'[d] => alone[d])
    BY <1>1, <1>6, <2>1, <2>2 DEF Cause
  <2>5. /\ alone' \in [Conns -> BOOLEAN] /\ before' = [d \in Conns |-> before'[d]]
        /\ ret' = [d \in Conns |-> ret'[d]] /\ pc'[c] = "idle"
    BY <1>1, <1>6, <2>1, <2>2 DEF Cause
  <2> HIDE DEF k, script
  <2> QED BY <1>1, <2>1, <2>3, <2>4, <2>5, CauseOf
<1> QED BY <1>4, <1>5, <1>6 DEF Compile

\* An answer of rows is told from a failure.
FailedIsNoAnswer == \A found : Read(found) # Failed

\* The rest of the turn, when n statements have taken effect and none went wrong.
LEMMA BindCause ==
  ASSUME FailedIsNoAnswer, Inv, Cause, NEW c \in Conns, pc[c] = "turn", alone[c],
         NEW found, BindNext(c, found), NEW n \in Nat, ran'[c] = n, before' = before,
         db' = File(c, n), \A j \in 1..n : ~Wrong(c, j),
         stmt_next[c] = NULL => n = Len(call[c].script),
         stmt_next[c] # NULL =>
           /\ stmt_next[c] = n + 1 /\ n < Len(call[c].script)
           /\ Compiles(call[c].script[n + 1], File(c, IF n > 0 THEN n - 1 ELSE 0))
  PROVE  IF pc'[c] = "idle" THEN Ended(c)' ELSE OnWay(c)'
<1> DEFINE script == call[c].script
<1>1. /\ InLoop(c) /\ Len(script) \in Nat /\ script \in Seq(Statement)
      /\ pc \in [Conns -> {"idle", "compile", "turn"}]
      /\ stmt \in [Conns -> Nat \cup {NULL}] /\ stmt_next \in [Conns -> Nat \cup {NULL}]
      /\ Live({stmt[c], stmt_next[c]}) \subseteq prepared[c] /\ c \in handles
  BY InCall, ConstantsSound DEF Inv, TypeOK, OpenInCall
<1>2. call' = call
  BY DEF BindNext, Panic, Rotate
<1>3. \A j : File(c, j)' = File(c, j) /\ Wrong(c, j)' = Wrong(c, j) /\ Passed(c, j)' = Passed(c, j)
  BY <1>2 DEF File, Wrong, Passed
<1>4. n # NULL /\ n + 1 # NULL
  BY ConstantsSound
<1>5. CASE stmt_next[c] = NULL
  <2>1. Rotate(c, found) /\ Live({stmt[c]}) \subseteq prepared[c]
    BY <1>1, <1>5 DEF BindNext, Live
  <2>2. pc'[c] = "idle" /\ ret'[c] = Read(found)
    BY <1>1, <1>5, <2>1 DEF Rotate, Finalize, Rows, Cause
  <2>3. ret'[c] # Failed
    BY <2>2 DEF FailedIsNoAnswer
  <2>4. \A k \in DOMAIN script : ~Wrong(c, k)
    BY <1>1, <1>5
  <2>5. Ended(c)'
    BY <1>2, <1>3, <1>5, <2>3, <2>4 DEF Ended
  <2> QED BY <2>2, <2>5
<1>6. CASE stmt_next[c] # NULL /\ Fits(statement(c, stmt_next[c]), call[c].args)
  <2>1. Rotate(c, found) /\ Live({stmt[c]}) \subseteq prepared[c]
    BY <1>1, <1>6 DEF BindNext, Live
  <2>2. /\ pc'[c] = "compile" /\ stmt'[c] = stmt_next[c] /\ stmt_next'[c] = NULL
    BY <1>1, <1>6, <2>1 DEF Rotate, Finalize
  <2>3. Passed(c, n + 1)
    <3>1. (IF n + 1 > 1 THEN (n + 1) - 2 ELSE 0) = IF n > 0 THEN n - 1 ELSE 0
      OBVIOUS
    <3> QED BY <1>6, <3>1 DEF Passed, statement
  <2>4. OnWay(c)'
    BY <1>2, <1>3, <1>6, <2>2, <2>3 DEF OnWay
  <2> QED BY <2>2, <2>4
<1>7. CASE stmt_next[c] # NULL /\ ~Fits(statement(c, stmt_next[c]), call[c].args)
  <2>1. Panic(c, stmt_next[c])
    BY <1>7 DEF BindNext
  <2>2. pc'[c] = "idle"
    BY <1>1, <2>1 DEF Panic, Finalize
  <2>3. Wrong(c, n + 1)
    BY <1>7 DEF Wrong, GoesWrong, statement
  <2>4. n + 1 \in Nat /\ n + 1 > 0 /\ n + 1 =< Len(call[c].script) /\ n < n + 1 /\ n + 1 =< n + 2
    BY <1>1, <1>7
  <2>5. Ended(c)'
    <3> DEFINE k == n + 1
    <3>1. k \in Nat /\ k > 0 /\ k =< Len(call[c].script) /\ n < k /\ k =< n + 2 /\ Wrong(c, k)
      BY <2>3, <2>4
    <3> HIDE DEF k
    <3> QED BY <2>1, <3>1, PanicEnded
  <2> QED BY <2>2, <2>5
<1> QED BY <1>5, <1>6, <1>7

LEMMA TurnCause ==
  ASSUME FailedIsNoAnswer, Inv, Cause, NEW c \in Conns, Turn(c)
  PROVE  Cause'
<1> DEFINE script == call[c].script
           n == ran[c]
           s == statement(c, stmt[c])
<1>1. /\ pc[c] = "turn" /\ pc[c] # "idle" /\ InLoop(c) /\ Len(script) \in Nat
      /\ pos[c] \in Nat /\ n \in Nat /\ before' = before
      /\ Live({stmt[c], stmt_next[c]}) \subseteq prepared[c] /\ c \in handles
      /\ pc \in [Conns -> {"idle", "compile", "turn"}] /\ ran \in [Conns -> Nat]
      /\ stmt \in [Conns -> Nat \cup {NULL}] /\ stmt_next \in [Conns -> Nat \cup {NULL}]
  BY InCall DEF Turn, Inv, TypeOK
<1>2. ASSUME alone[c] PROVE OnWay(c)
  BY <1>1, <1>2 DEF Cause
<1>3. \/ BindNext(c, <<>>) /\ stmt[c] = NULL /\ UNCHANGED <<db, ran, alone>>
      \/ /\ stmt[c] # NULL /\ Compiles(s, db)
         /\ db' = Effect(s, Bound(s, call[c].args), db)
         /\ ran' = [ran EXCEPT ![c] = @ + 1]
         /\ BindNext(c, Result(s, db))
         /\ alone' = [d \in Conns |-> alone[d] /\ (d = c \/ db' = db)]
      \/ stmt[c] # NULL /\ ~Compiles(s, db) /\ Panic(c, stmt_next[c]) /\ UNCHANGED <<db, ran, alone>>
      \/ Panic(c, stmt_next[c]) /\ alone' = [alone EXCEPT ![c] = FALSE] /\ UNCHANGED <<db, ran>>
  BY DEF Turn
<1>4. /\ call' = call /\ calls' = calls
      /\ ret' = [d \in Conns |-> ret'[d]]
      /\ \A d \in Conns \ {c} : pc'[d] = pc[d] /\ ret'[d] = ret[d]
                                /\ stmt'[d] = stmt[d] /\ stmt_next'[d] = stmt_next[d]
  <2>1. CASE Panic(c, stmt_next[c])
    BY <1>1, <2>1 DEF Panic, Finalize, Cause
  <2>2. ASSUME NEW found, Rotate(c, found) PROVE <1>4
    BY <1>1, <2>2 DEF Rotate, Finalize, Cause
  <2>3. ASSUME NEW found, BindNext(c, found) PROVE <1>4
    BY <2>1, <2>2, <2>3 DEF BindNext
  <2> QED BY <1>3, <2>1, <2>3
<1>5. /\ alone' \in [Conns -> BOOLEAN] /\ before' = [d \in Conns |-> before'[d]]
      /\ \A d \in Conns \ {c} : /\ alone'[d] => alone[d] /\ db' = db
                                /\ ran'[d] = ran[d]
  <2>1. before' = [d \in Conns |-> before'[d]]
    BY <1>1 DEF Cause
  <2>2. alone \in [Conns -> BOOLEAN]
    BY DEF Cause
  <2> QED BY <1>1, <1>3, <2>1, <2>2
<1>6. ASSUME alone'[c] PROVE IF pc'[c] = "idle" THEN Ended(c)' ELSE OnWay(c)'
  <2>1. alone[c] /\ OnWay(c)
    <3>1. alone[c]
      BY <1>3, <1>6 DEF Cause
    <3> QED BY <1>2, <3>1
  <2>2. db = File(c, n) /\ (\A j \in 1..n : ~Wrong(c, j))
    BY <2>1 DEF OnWay
  <2>3. CASE BindNext(c, <<>>) /\ stmt[c] = NULL /\ UNCHANGED <<db, ran, alone>>
    <3>1. n = 0 /\ (stmt_next[c] = NULL => Len(script) = 0)
          /\ (stmt_next[c] # NULL => stmt_next[c] = 1 /\ 1 =< Len(script))
      BY <1>1, <2>3 DEF InLoop
    <3>2. stmt_next[c] # NULL => Compiles(script[1], db)
      BY <1>1, <2>1, <3>1 DEF OnWay
    <3>3. /\ stmt_next[c] = NULL => n = Len(call[c].script)
          /\ stmt_next[c] # NULL =>
               /\ stmt_next[c] = n + 1 /\ n < Len(call[c].script)
               /\ Compiles(call[c].script[n + 1], File(c, IF n > 0 THEN n - 1 ELSE 0))
      BY <1>1, <2>2, <3>1, <3>2
    <3> QED BY <1>1, <2>1, <2>2, <2>3, <3>3, BindCause
  <2>4. CASE stmt[c] # NULL /\ ~Compiles(s, db) /\ Panic(c, stmt_next[c]) /\ UNCHANGED <<db, ran, alone>>
    <3> DEFINE k == n + 1
    <3>1. k \in Nat /\ k > 0 /\ k =< Len(script) /\ n < k /\ k =< n + 2 /\ stmt[c] = k
      BY <1>1, <2>4 DEF InLoop
    <3>2. Wrong(c, k)
      <4>1. File(c, k - 1) = db
        BY <1>1, <2>2
      <4> QED BY <2>4, <3>1, <4>1 DEF Wrong, GoesWrong, File, statement
    <3>3. pc'[c] = "idle"
      BY <1>1, <2>4 DEF Panic, Finalize
    <3> HIDE DEF k
    <3> QED BY <1>1, <2>2, <2>4, <3>1, <3>2, <3>3, PanicEnded
  <2>5. CASE /\ stmt[c] # NULL /\ Compiles(s, db)
             /\ db' = Effect(s, Bound(s, call[c].args), db)
             /\ ran' = [ran EXCEPT ![c] = @ + 1]
             /\ BindNext(c, Result(s, db))
    <3> DEFINE k == n + 1
    <3>1. /\ k \in Nat /\ ran'[c] = k /\ stmt[c] = k
          /\ stmt_next[c] = NULL => k = Len(script)
          /\ stmt_next[c] # NULL => stmt_next[c] = k + 1 /\ k < Len(script)
      BY <1>1, <2>5 DEF InLoop
    <3>2. File(c, k) = db'
      <4>1. s = script[n + 1]
        BY <3>1 DEF statement
      <4>2. File(c, n + 1) = IF Compiles(s, File(c, n))
                             THEN Effect(s, Bound(s, call[c].args), File(c, n)) ELSE File(c, n)
        BY <1>1, <4>1, AfterOne DEF File
      <4> QED BY <2>2, <2>5, <4>2
    <3>3. ~Wrong(c, k)
      <4>1. Passed(c, k)
        BY <2>1, <2>5, <3>1 DEF OnWay
      <4>2. File(c, k - 1) = db /\ s = script[k]
        BY <1>1, <2>2, <3>1 DEF statement
      <4> QED BY <2>5, <4>1, <4>2 DEF Wrong, GoesWrong, Passed, File
    <3>4. \A j \in 1..k : ~Wrong(c, j)
      <4>1. \A j \in 1..k : j \in 1..n \/ j = k
        BY <1>1
      <4> QED BY <2>2, <3>3, <4>1
    <3>5. stmt_next[c] # NULL => Compiles(script[k + 1], File(c, IF k > 0 THEN k - 1 ELSE 0))
      <4>1. (IF k > 0 THEN k - 1 ELSE 0) = n
        <5>1. n \in Nat
          BY <1>1
        <5> HIDE DEF n
        <5> QED BY <5>1
      <4> QED BY <1>1, <2>1, <2>2, <3>1, <4>1 DEF OnWay
    <3> HIDE DEF k
    <3> QED BY <1>1, <2>1, <2>5, <3>1, <3>2, <3>4, <3>5, BindCause
  <2>6. CASE Panic(c, stmt_next[c]) /\ alone' = [alone EXCEPT ![c] = FALSE]
    BY <1>6, <2>6 DEF Cause
  <2> QED BY <1>3, <2>3, <2>4, <2>5, <2>6
<1> HIDE DEF script, n, s
<1> QED BY <1>1, <1>4, <1>5, <1>6, CauseOf

LEMMA CauseInit == Init => Cause
BY DEF Init, Cause

LEMMA CauseNext ==
  ASSUME FailedIsNoAnswer, Inv, Cause, [Next]_vars
  PROVE  Cause'
<1>1. CASE UNCHANGED vars
  BY <1>1 DEF vars, object, loop, history, Cause, Ended, OnWay, Wrong, File, Passed
<1>2. ASSUME NEW c \in Conns, Open(c) \/ Close(c) \/ OpenFails(c) PROVE Cause'
  BY <1>2, ConnectionCause
<1>3. ASSUME NEW c \in Conns, Step(c) PROVE Cause'
  BY <1>3, CompileCause, TurnCause DEF Step
<1>4. ASSUME NEW c \in Conns, NEW query \in Queries, Eval(c, query) PROVE Cause'
  BY <1>4, EvalCause
<1> QED BY <1>1, <1>2, <1>3, <1>4 DEF Next

LEMMA CauseSuffices == Inv /\ Cause => FailsForCause
<1> SUFFICES ASSUME Inv, Cause, NEW c \in Conns, pc[c] = "idle", alone[c], calls[c] > 0
             PROVE  LET script == call[c].script
                        bad == {k \in DOMAIN script :
                                  GoesWrong(before[c], script, call[c].args, k)} IN
                    /\ ret[c] = Failed <=> bad # {}
                    /\ bad = {} => ran[c] = Len(script)
                    /\ bad # {} => \E k \in bad : /\ \A j \in bad : k =< j
                                                  /\ k - 2 =< ran[c] /\ ran[c] < k
  BY DEF FailsForCause
<1> DEFINE script == call[c].script
           bad == {k \in DOMAIN script : Wrong(c, k)}
<1>1. Ended(c)
  BY DEF Cause
<1>2. script \in Seq(Statement)
  <2>1. call[c] \in Queries \/ call[c] = NoQuery
    BY DEF Inv, TypeOK
  <2>2. NoQuery.script = <<>> /\ <<>> \in Seq(Statement)
    BY DEF NoQuery
  <2> QED BY <2>1, <2>2, ConstantsSound
<1>3. DOMAIN script \subseteq Nat
  BY <1>2
<1>4. CASE ret[c] # Failed
  BY <1>1, <1>4 DEF Ended, Wrong
<1>5. CASE ret[c] = Failed
  <2>1. PICK k \in DOMAIN script :
          /\ Wrong(c, k) /\ \A j \in 1..(k - 1) : ~Wrong(c, j)
          /\ k - 2 =< ran[c] /\ ran[c] < k
    BY <1>1, <1>5 DEF Ended
  <2>2. ASSUME NEW j \in bad PROVE k =< j
    <3>1. j \in Nat /\ k \in Nat /\ j > 0 /\ Wrong(c, j)
      BY <1>2, <1>3
    <3>2. j \notin 1..(k - 1)
      BY <2>1, <3>1
    <3> QED BY <3>1, <3>2
  <2>3. k \in bad
    BY <2>1
  <2> QED BY <1>5, <2>1, <2>2, <2>3 DEF Wrong
<1> QED BY <1>4, <1>5

\* sqlite3/eval on a file that nobody else touches fails exactly for a script in
\* which a statement goes wrong, be it when it is compiled ahead, when it is
\* executed or for its parameters; what took effect are the statements before the
\* first of these, up to the one that the look-ahead drops.
THEOREM FailuresHaveCauses ==
  ASSUME FailedIsNoAnswer
  PROVE  Spec => []FailsForCause
<1>1. Inv /\ Cause /\ [Next]_vars => Inv' /\ Cause'
  BY InvNext, CauseNext
<1>2. Init => Inv /\ Cause
  BY InvInit, CauseInit
<1> QED BY <1>1, <1>2, CauseSuffices, PTL DEF Spec

-----------------------------------------------------------------------------
(* Auctions. *)

AuctionsSpec == AuctionsInit /\ [][AuctionsNext]_allvars

T == db[users]
OneRow == << <<>> >>

LEMMA NoTable == Absent # <<>> /\ Absent # OneRow /\ Failed # <<>> /\ Failed # OneRow
BY AbsentIsNoTable DEF OneRow

\* The form that a process has evaluated fits what its connection does; an answer
\* other than an error means that the statement took effect.
Visit(p) ==
  /\ pc[p] # "idle" =>
       \/ at[p] = "created" /\ call[p] = Ask(CreateUsers)
       \/ at[p] = "inserted" /\ call[p] = Ask(InsertDummy)
       \/ at[p] = "counted" /\ call[p] = Ask(CountUsers)
  /\ at[p] \in {"made", "created", "inserted", "opened", "counted"} => flags[p] = "open"
  /\ at[p] \in {"created", "inserted"} =>
       IF pc[p] = "idle" THEN ran[p] = IF ret[p] = Failed THEN 0 ELSE 1 ELSE ran[p] = 0
  /\ at[p] \in {"made", "created", "inserted"} => exists

\* The process whose create took effect, until it has closed the Db or is gone.
Won(p) == (at[p] = "created" /\ ran[p] = 1) \/ at[p] = "inserted"

Table ==
  /\ T \in {Absent, <<>>, OneRow} /\ (~exists => T = Absent)
  /\ \A p, q \in Conns : Won(p) /\ Won(q) => p = q
  /\ \A p \in Conns : Won(p) => T = IF at[p] = "inserted" /\ ran[p] = 1 THEN OneRow ELSE <<>>

\* A file without its row is on its way to it, or was abandoned.
Underway ==
  exists /\ ~abandoned =>
    \/ T = OneRow
    \/ T = <<>> /\ \E p \in Conns : Won(p)
    \/ T = Absent /\ \E p \in Conns : at[p] \in {"made", "created"}

Shape == /\ at = [p \in Conns |-> at[p]] /\ db = [tab \in Tables |-> db[tab]]
         /\ ran \in [Conns -> Nat] /\ ret = [p \in Conns |-> ret[p]]
         /\ exists \in BOOLEAN /\ abandoned \in BOOLEAN

AInv == Inv /\ Shape /\ (\A p \in Conns : Visit(p)) /\ Table /\ Underway

-----------------------------------------------------------------------------
\* A call with one statement: it goes on, fails without effect, or succeeds.
LEMMA SingleStatement ==
  ASSUME Inv, NEW p \in Conns, NEW s, call[p] = Ask(s), Step(p)
  PROVE  /\ Inv' /\ UNCHANGED <<call, flags>> /\ pc[p] # "idle"
         /\ \/ /\ \E stage \in {"compile", "turn"} : pc' = [pc EXCEPT ![p] = stage]
               /\ UNCHANGED <<db, ran, ret>>
            \/ /\ pc' = [pc EXCEPT ![p] = "idle"] /\ ret' = [ret EXCEPT ![p] = Failed]
               /\ UNCHANGED <<db, ran>>
            \/ /\ Compiles(s, db) /\ ran[p] = 0
               /\ pc' = [pc EXCEPT ![p] = "idle"]
               /\ db' = Effect(s, Bound(s, NoArgs), db)
               /\ ran' = [ran EXCEPT ![p] = @ + 1]
               /\ ret' = [ret EXCEPT ![p] = Read(Result(s, db))]
<1>1. pc[p] # "idle" /\ InLoop(p) /\ ran[p] \in Nat /\ pos[p] \in Nat
  BY InCall DEF Step, Compile, Turn
<1>2. flags' = flags
  BY DEF Step, Compile, Turn, BindNext, Rotate, Panic, object
<1>3. call[p].script = <<s>> /\ call[p].args = NoArgs /\ Len(call[p].script) = 1
  BY DEF Ask
<1>4. CASE Compile(p)
  BY <1>1, <1>4, <1>2, CompileStep
<1>5. CASE Turn(p)
  <2>1. pc[p] = "turn"
    BY <1>5 DEF Turn
  <2>2. stmt[p] # NULL => stmt[p] = 1 /\ stmt_next[p] = NULL /\ ran[p] = 0
    BY <1>1, <1>3, <2>1 DEF InLoop
  <2>3. stmt[p] = NULL => stmt_next[p] # NULL
    BY <1>1, <1>3, <2>1 DEF InLoop
  <2>4. stmt[p] # NULL => statement(p, stmt[p]) = s
    BY <1>3, <2>2 DEF statement
  <2> QED BY <1>1, <1>3, <1>5, <1>2, <2>2, <2>3, <2>4, TurnStep
<1> QED BY <1>4, <1>5 DEF Step

\* What the statements of exec-db do.
LEMMA Statements ==
  ASSUME Shape, NEW row
  PROVE  /\ Bound(InsertDummy, NoArgs) = <<>> /\ Read(<<>>) = <<>>
         /\ Compiles(CreateUsers, db) => /\ T = Absent
                                         /\ Effect(CreateUsers, row, db)[users] = <<>>
         /\ Effect(InsertDummy, row, db)[users] = Append(T, row)
         /\ Effect(CountUsers, row, db) = db
         /\ Result(CreateUsers, db) = <<>> /\ Result(InsertDummy, db) = <<>>
         /\ \A s \in {CreateUsers, InsertDummy, CountUsers} :
              Effect(s, row, db) = [tab \in Tables |-> Effect(s, row, db)[tab]]
<1>1. Bound(InsertDummy, NoArgs) = <<>> /\ Read(<<>>) = <<>>
  BY DEF Bound, Read, InsertDummy
<1>2. /\ CreateUsers.op = "create" /\ CreateUsers.table = users
      /\ InsertDummy.op = "insert" /\ InsertDummy.table = users
      /\ CountUsers.op = "select" /\ CountUsers.table = users
  BY DEF CreateUsers, InsertDummy, CountUsers
<1>3. Compiles(CreateUsers, db) => T = Absent
  BY <1>2 DEF Compiles, T
<1>4. /\ Effect(CreateUsers, row, db) = [db EXCEPT ![users] = <<>>]
      /\ Effect(InsertDummy, row, db) = [db EXCEPT ![users] = Append(db[users], row)]
      /\ Effect(CountUsers, row, db) = [db EXCEPT ![users] = db[users]]
  BY <1>2 DEF Effect
<1>5. Result(CreateUsers, db) = <<>> /\ Result(InsertDummy, db) = <<>>
  BY <1>2 DEF Result
<1> QED BY <1>1, <1>3, <1>4, <1>5, UsersIsATable DEF Shape, T

-----------------------------------------------------------------------------
\* Steps outside create-db and the evals: the file is not touched.
Outside == {"out", "missing", "found", "done", "failed", "killed"}

LEMMA MoveStep ==
  ASSUME AInv, NEW p \in Conns, at[p] \in Outside, NEW a \in Outside,
         at' = [at EXCEPT ![p] = a], UNCHANGED <<vars, exists, abandoned>>
  PROVE  AInv'
<1>1. Inv' /\ Shape'
  <2>1. Inv'
    BY InvNext DEF AInv
  <2> QED BY <2>1 DEF AInv, Shape, vars
<1>2. /\ at'[p] = a /\ \A q \in Conns \ {p} : at'[q] = at[q]
      /\ UNCHANGED <<db, flags, pc, call, ran, ret>>
  BY DEF AInv, Shape, vars, object
<1>3. \A q \in Conns : Visit(q)'
  BY <1>2 DEF AInv, Visit, Outside
<1>4. \A q \in Conns : Won(q)' <=> Won(q)
  BY <1>2 DEF Won, Outside
<1>5. Table'
  BY <1>2, <1>4 DEF AInv, Table, T, Won, Outside
<1>6. Underway'
  BY <1>2, <1>4 DEF AInv, Underway, T, Outside
<1> QED BY <1>1, <1>3, <1>5, <1>6 DEF AInv

\* A Db is opened or closed: between the forms of exec-db, or by create-db.
LEMMA OpenCloseStep ==
  ASSUME AInv, NEW p \in Conns, NEW to, at' = [at EXCEPT ![p] = to], abandoned' = abandoned,
         Open(p) \/ Close(p),
         \/ at[p] = "missing" /\ to = "made" /\ Open(p) /\ exists' = TRUE
         \/ at[p] = "inserted" /\ to = "found" /\ ret[p] # Failed /\ exists' = exists
         \/ at[p] = "found" /\ to = "opened" /\ Open(p) /\ exists' = exists
         \/ at[p] = "counted" /\ to = "done" /\ exists' = exists
  PROVE  AInv'
<1>1. /\ Inv' /\ UNCHANGED <<db, pc, call, ran, ret>>
      /\ \A d \in Conns \ {p} : flags'[d] = flags[d]
      /\ Open(p) => flags'[p] = "open"
      /\ pc[p] = "idle"
  <2>1. pc[p] = "idle"
    BY DEF Open, Close
  <2> QED BY <2>1, ConnectionStep DEF AInv
<1>2. /\ at'[p] = to /\ \A q \in Conns \ {p} : at'[q] = at[q]
      /\ exists' \in BOOLEAN /\ Shape'
  BY <1>1 DEF AInv, Shape
<1>3. \A q \in Conns : Visit(q)'
  BY <1>1, <1>2 DEF AInv, Visit
<1>4. \A q \in Conns \ {p} : Won(q)' <=> Won(q)
  BY <1>1, <1>2 DEF Won
<1>5. /\ ~Won(p)' /\ T' = T
      /\ Won(p) => at[p] = "inserted" /\ T = OneRow
  BY <1>1, <1>2 DEF Won, T, AInv, Visit, Table
<1>6. Table'
  <2>1. \A q \in Conns : Won(q)' => Won(q) /\ at'[q] = at[q] /\ ran'[q] = ran[q]
    BY <1>1, <1>2, <1>4, <1>5
  <2>2. ~exists' => ~exists
    OBVIOUS
  <2> QED BY <1>5, <2>1, <2>2 DEF AInv, Table
<1>7. Underway'
  <2> SUFFICES ASSUME exists', ~abandoned
               PROVE  \/ T = OneRow
                      \/ T = <<>> /\ \E q \in Conns : Won(q)'
                      \/ T = Absent /\ \E q \in Conns : at'[q] \in {"made", "created"}
    BY <1>5 DEF Underway
  <2>1. CASE ~exists
    <3>1. to = "made" /\ T = Absent
      BY <2>1 DEF AInv, Table
    <3> QED BY <1>2, <3>1
  <2>2. CASE exists
    <3>1. \/ T = OneRow
          \/ T = <<>> /\ \E q \in Conns : Won(q)
          \/ T = Absent /\ \E q \in Conns : at[q] \in {"made", "created"}
      BY <2>2 DEF AInv, Underway
    <3>2. at[p] \notin {"made", "created"}
      OBVIOUS
    <3> QED BY <1>2, <1>4, <1>5, <3>1, <3>2
  <2> QED BY <2>1, <2>2
<1> QED BY <1>1, <1>2, <1>3, <1>6, <1>7 DEF AInv

\* create-db's two statements and the count are sent to the Db.
LEMMA EvalFormStep ==
  ASSUME AInv, NEW p \in Conns, NEW to, NEW s, at' = [at EXCEPT ![p] = to],
         UNCHANGED <<exists, abandoned>>, Eval(p, Ask(s)),
         \/ at[p] = "made" /\ to = "created" /\ s = CreateUsers
         \/ at[p] = "created" /\ to = "inserted" /\ s = InsertDummy /\ ret[p] # Failed
         \/ at[p] = "opened" /\ to = "counted" /\ s = CountUsers
  PROVE  AInv'
<1>1. /\ Inv' /\ UNCHANGED <<db, flags, ret>> /\ pc[p] = "idle" /\ flags[p] = "open"
      /\ pc' = [pc EXCEPT ![p] = "compile"] /\ call' = [call EXCEPT ![p] = Ask(s)]
      /\ ran' = [ran EXCEPT ![p] = 0]
  <2>1. Ask(s) \in Queries
    BY AskedAreQueries DEF Asked
  <2>2. flags[p] = "open" /\ ~Refused(p, Ask(s))
    BY AskedAreQueries DEF AInv, Visit, Asked, Refused
  <2> QED BY <2>1, <2>2, EvalStep DEF AInv
<1>2. /\ at'[p] = to /\ \A q \in Conns \ {p} : at'[q] = at[q]
      /\ ran'[p] = 0 /\ \A q \in Conns \ {p} : ran'[q] = ran[q]
      /\ pc'[p] = "compile" /\ call'[p] = Ask(s) /\ Shape'
  BY <1>1 DEF AInv, Inv, TypeOK, Shape
<1>3. \A q \in Conns \ {p} : pc'[q] = pc[q] /\ call'[q] = call[q]
  BY <1>1 DEF AInv, Inv, TypeOK
<1>4. \A q \in Conns : Visit(q)'
  <2>1. Visit(p)'
    BY <1>1, <1>2 DEF AInv, Visit
  <2>2. \A q \in Conns \ {p} : Visit(q)'
    BY <1>1, <1>2, <1>3 DEF AInv, Visit
  <2> QED BY <2>1, <2>2
<1>5. \A q \in Conns : Won(q)' <=> Won(q)
  BY <1>1, <1>2 DEF Won, AInv, Visit
<1>6. Won(p) => T = <<>>
  BY DEF Won, AInv, Table
<1>7. Table'
  BY <1>1, <1>2, <1>5, <1>6 DEF AInv, Table, T
<1>8. Underway'
  <2>1. at[p] = "created" => T = <<>>
    BY <1>1, <1>6 DEF AInv, Visit, Won
  <2>2. \A q \in Conns : at[q] \in {"made", "created"} =>
          at'[q] \in {"made", "created"} \/ T = <<>>
    BY <1>2, <2>1
  <2>3. T' = T
    BY <1>1 DEF T
  <2> QED BY <1>5, <2>2, <2>3, NoTable DEF AInv, Underway
<1> QED BY <1>1, <1>2, <1>4, <1>7, <1>8 DEF AInv

\* The statement of a form is compiled and executed.
LEMMA InsideStep ==
  ASSUME AInv, NEW p \in Conns, Inside(p)
  PROVE  AInv'
<1>1. Step(p) /\ UNCHANGED <<at, exists, abandoned>>
  BY DEF Inside, program
<1>2. PICK s \in {CreateUsers, InsertDummy, CountUsers} :
        /\ call[p] = Ask(s)
        /\ at[p] = "created" => s = CreateUsers
        /\ at[p] = "inserted" => s = InsertDummy
        /\ at[p] \notin {"created", "inserted"} => s = CountUsers /\ at[p] = "counted"
  <2>1. pc[p] # "idle"
    BY <1>1 DEF Step, Compile, Turn
  <2> QED BY <2>1 DEF AInv, Visit
<1>3. /\ Inv' /\ UNCHANGED <<call, flags>> /\ pc[p] # "idle"
      /\ pc \in [Conns -> {"idle", "compile", "turn"}] /\ ran \in [Conns -> Nat]
  BY <1>1, <1>2, SingleStatement DEF AInv, Inv, TypeOK
<1>4. at[p] \in {"created", "inserted"} => ran[p] = 0
  BY <1>3 DEF AInv, Visit
<1>5. CASE \/ /\ \E stage \in {"compile", "turn"} : pc' = [pc EXCEPT ![p] = stage]
              /\ UNCHANGED <<db, ran, ret>>
           \/ /\ pc' = [pc EXCEPT ![p] = "idle"] /\ ret' = [ret EXCEPT ![p] = Failed]
              /\ UNCHANGED <<db, ran>>
  <2>1. Shape' /\ \A q \in Conns \ {p} : pc'[q] = pc[q] /\ ret'[q] = ret[q]
    BY <1>1, <1>3, <1>5 DEF AInv, Shape
  <2>2. \/ pc'[p] # "idle"
        \/ pc'[p] = "idle" /\ ret'[p] = Failed
    BY <1>3, <1>5 DEF AInv, Shape
  <2>3. Visit(p)'
    BY <1>1, <1>3, <1>4, <1>5, <2>2 DEF AInv, Visit
  <2>4. \A q \in Conns \ {p} : Visit(q)'
    BY <1>1, <1>3, <1>5, <2>1 DEF AInv, Visit
  <2>5. Table' /\ Underway'
    BY <1>1, <1>5 DEF AInv, Table, Underway, T, Won
  <2> QED BY <1>3, <2>1, <2>3, <2>4, <2>5 DEF AInv
<1>6. CASE /\ Compiles(s, db) /\ ran[p] = 0
           /\ pc' = [pc EXCEPT ![p] = "idle"]
           /\ db' = Effect(s, Bound(s, NoArgs), db)
           /\ ran' = [ran EXCEPT ![p] = @ + 1]
           /\ ret' = [ret EXCEPT ![p] = Read(Result(s, db))]
  <2>1. /\ ran'[p] = 1 /\ ran' \in [Conns -> Nat] /\ pc'[p] = "idle"
        /\ \A q \in Conns \ {p} : pc'[q] = pc[q] /\ ret'[q] = ret[q] /\ ran'[q] = ran[q]
        /\ ret'[p] = Read(Result(s, db)) /\ ret' = [q \in Conns |-> ret'[q]]
    BY <1>3, <1>6 DEF AInv, Shape
  <2>2. Shape'
    <3>1. db' = [tab \in Tables |-> db'[tab]]
      BY <1>2, <1>6, Statements DEF AInv
    <3> QED BY <1>1, <2>1, <3>1 DEF AInv, Shape
  <2>3. /\ at[p] = "created" => T = Absent /\ T' = <<>>
        /\ at[p] = "inserted" => T = <<>> /\ T' = OneRow
        /\ at[p] = "counted" => T' = T
        /\ at[p] \in {"created", "inserted"} => ret'[p] # Failed
    <3>1. at[p] = "inserted" => T = <<>>
      BY <1>6 DEF AInv, Table, Won
    <3>2. Append(<<>>, <<>>) = OneRow
      BY DEF OneRow
    <3> QED BY <1>2, <1>6, <2>1, <3>1, <3>2, Statements, NoTable DEF AInv, T
  <2>4. \A q \in Conns : Visit(q)'
    <3>1. Visit(p)'
      BY <1>1, <1>3, <2>1, <2>3 DEF AInv, Visit
    <3>2. \A q \in Conns \ {p} : Visit(q)'
      BY <1>1, <1>3, <2>1 DEF AInv, Visit
    <3> QED BY <3>1, <3>2
  <2>5. \A q \in Conns \ {p} : Won(q)' <=> Won(q)
    BY <1>1, <2>1 DEF Won
  <2>6. CASE at[p] = "counted"
    <3>1. ~Won(p) /\ ~Won(p)'
      BY <1>1, <2>6 DEF Won
    <3> QED BY <1>1, <1>3, <2>1, <2>2, <2>3, <2>4, <2>5, <2>6, <3>1
            DEF AInv, Table, Underway
  <2>7. CASE at[p] \in {"created", "inserted"}
    <3>1. exists /\ Won(p)'
      BY <1>1, <2>1, <2>7 DEF AInv, Visit, Won
    <3>2. \A q \in Conns \ {p} : ~Won(q)
      BY <2>3, <2>7, NoTable DEF AInv, Table, Won, OneRow
    <3>3. T' = IF at'[p] = "inserted" /\ ran'[p] = 1 THEN OneRow ELSE <<>>
      BY <1>1, <2>1, <2>3, <2>7
    <3>4. Table'
      BY <1>1, <2>5, <3>1, <3>2, <3>3 DEF Table
    <3>5. Underway'
      BY <2>3, <2>7, <3>1 DEF Underway
    <3> QED BY <1>3, <2>2, <2>4, <3>4, <3>5 DEF AInv
  <2> QED BY <1>2, <2>6, <2>7
<1> QED BY <1>1, <1>2, <1>5, <1>6, SingleStatement DEF AInv

\* An error leaves exec-db.
LEMMA RaiseStep ==
  ASSUME AInv, NEW p \in Conns, Raise(p)
  PROVE  AInv'
<1>1. /\ at[p] \in {"created", "inserted", "counted"} /\ pc[p] = "idle" /\ ret[p] = Failed
      /\ abandoned' = (abandoned \/ at[p] = "inserted"
                         \/ (at[p] = "created" /\ T = Absent))
      /\ at' = [at EXCEPT ![p] = "failed"] /\ exists' = exists
  BY DEF Raise, T
<1>2. /\ Inv' /\ UNCHANGED <<db, pc, call, ran, ret>>
      /\ \A d \in Conns \ {p} : flags'[d] = flags[d]
  BY ConnectionStep DEF Raise, AInv
<1>3. /\ at'[p] = "failed" /\ \A q \in Conns \ {p} : at'[q] = at[q]
      /\ abandoned' \in BOOLEAN /\ Shape' /\ T' = T
  BY <1>1, <1>2 DEF AInv, Shape, T
<1>4. \A q \in Conns : Visit(q)'
  BY <1>1, <1>2, <1>3 DEF AInv, Visit
<1>5. \A q \in Conns \ {p} : Won(q)' <=> Won(q)
  BY <1>2, <1>3 DEF Won
<1>6. ~Won(p)' /\ (at[p] # "inserted" => ~Won(p))
  BY <1>1, <1>3 DEF Won, AInv, Visit
<1>7. Table'
  BY <1>1, <1>2, <1>3, <1>5, <1>6 DEF AInv, Table
<1>8. Underway'
  <2> SUFFICES ASSUME exists, ~abandoned'
               PROVE  \/ T = OneRow
                      \/ T = <<>> /\ \E q \in Conns : Won(q)'
                      \/ T = Absent /\ \E q \in Conns : at'[q] \in {"made", "created"}
    BY <1>1, <1>3 DEF Underway
  <2>1. ~abandoned /\ at[p] # "inserted" /\ (at[p] = "created" => T # Absent)
    BY <1>1
  <2>2. \/ T = OneRow
        \/ T = <<>> /\ \E q \in Conns : Won(q)
        \/ T = Absent /\ \E q \in Conns : at[q] \in {"made", "created"}
    BY <2>1 DEF AInv, Underway
  <2> QED BY <1>1, <1>3, <1>5, <1>6, <2>1, <2>2
<1> QED BY <1>2, <1>3, <1>4, <1>7, <1>8 DEF AInv

\* A process is killed, also in the middle of a call.
LEMMA KillStep ==
  ASSUME AInv, NEW p \in Conns, Kill(p)
  PROVE  AInv'
<1>1. /\ at' = [at EXCEPT ![p] = "killed"] /\ exists' = exists
      /\ abandoned' = (abandoned \/ (at[p] \in {"made", "created", "inserted"}
                                       /\ (T \in {Absent, <<>>})))
      /\ flags' = [flags EXCEPT ![p] = "none"] /\ handles' = handles \ {p}
      /\ unowned' = [unowned EXCEPT ![p] = 0]
      /\ pc' = [pc EXCEPT ![p] = "idle"] /\ prepared' = [prepared EXCEPT ![p] = {}]
      /\ UNCHANGED <<db, call, pos, stmt, stmt_next, ran, ret, calls>>
  BY DEF Kill, T
<1>2. Inv'
  <2>1. TypeOK' /\ OpenInCall'
    BY <1>1 DEF AInv, Inv, TypeOK, OpenInCall
  <2>2. Loops'
    BY <1>1 DEF AInv, Inv, TypeOK, Loops, InLoop
  <2>3. NothingLeftOver'
    BY <1>1 DEF AInv, Inv, TypeOK, NothingLeftOver
  <2> QED BY <2>1, <2>2, <2>3 DEF Inv
<1>3. /\ at'[p] = "killed" /\ \A q \in Conns \ {p} : at'[q] = at[q]
      /\ pc'[p] = "idle" /\ \A q \in Conns \ {p} : pc'[q] = pc[q] /\ flags'[q] = flags[q]
      /\ abandoned' \in BOOLEAN /\ Shape' /\ T' = T
  BY <1>1 DEF AInv, Inv, TypeOK, Shape, T
<1>4. \A q \in Conns : Visit(q)'
  BY <1>1, <1>3 DEF AInv, Visit
<1>5. \A q \in Conns \ {p} : Won(q)' <=> Won(q)
  BY <1>1, <1>3 DEF Won
<1>6. ~Won(p)'
  BY <1>3 DEF Won
<1>7. Table'
  BY <1>1, <1>3, <1>5, <1>6 DEF AInv, Table
<1>8. Underway'
  <2> SUFFICES ASSUME exists, ~abandoned'
               PROVE  \/ T = OneRow
                      \/ T = <<>> /\ \E q \in Conns : Won(q)'
                      \/ T = Absent /\ \E q \in Conns : at'[q] \in {"made", "created"}
    BY <1>1, <1>3 DEF Underway
  <2>1. ~abandoned /\ (at[p] \in {"made", "created", "inserted"} => T \notin {Absent, <<>>})
    BY <1>1
  <2>2. \/ T = OneRow
        \/ T = <<>> /\ \E q \in Conns : Won(q)
        \/ T = Absent /\ \E q \in Conns : at[q] \in {"made", "created"}
    BY <2>1 DEF AInv, Underway
  <2>3. Won(p) => at[p] \in {"made", "created", "inserted"}
    BY DEF Won
  <2> QED BY <1>3, <1>5, <2>1, <2>2, <2>3
<1> QED BY <1>2, <1>3, <1>4, <1>7, <1>8 DEF AInv

\* sqlite3/open fails, with or without having made the file.
LEMMA UnopenedStep ==
  ASSUME AInv, NEW p \in Conns, Unopened(p)
  PROVE  AInv'
<1>1. /\ at[p] \in {"missing", "found"} /\ at' = [at EXCEPT ![p] = "failed"]
      /\ exists \in BOOLEAN /\ exists' \in BOOLEAN /\ (exists => exists')
      /\ abandoned' = (abandoned \/ (exists' /\ ~exists))
      /\ OpenFails(p)
  BY DEF Unopened, AInv, Shape
<1>2. Inv' /\ UNCHANGED <<db, flags, pc, call, ran, ret>>
  BY <1>1, ConnectionStep DEF OpenFails, AInv
<1>3. /\ at'[p] = "failed" /\ \A q \in Conns \ {p} : at'[q] = at[q]
      /\ abandoned' \in BOOLEAN /\ Shape' /\ T' = T
  BY <1>1, <1>2 DEF AInv, Shape, T
<1>4. \A q \in Conns : Visit(q)'
  BY <1>1, <1>2, <1>3 DEF AInv, Visit
<1>5. \A q \in Conns : Won(q)' <=> Won(q)
  BY <1>1, <1>2, <1>3 DEF Won
<1>6. Table'
  <2>1. \A q \in Conns : Won(q) => at'[q] = at[q]
    BY <1>1, <1>3 DEF Won
  <2> QED BY <1>1, <1>2, <1>3, <1>5, <2>1 DEF AInv, Table
<1>7. Underway'
  BY <1>1, <1>3, <1>5 DEF AInv, Underway
<1> QED BY <1>2, <1>3, <1>4, <1>6, <1>7 DEF AInv

LEMMA GoStep ==
  ASSUME AInv, NEW p \in Conns, Go(p)
  PROVE  AInv'
<1>1. CASE Form(p, "missing", "made") /\ Open(p) /\ exists' = TRUE
  BY <1>1, OpenCloseStep DEF Form
<1>2. CASE Form(p, "made", "created") /\ Eval(p, Ask(CreateUsers)) /\ UNCHANGED exists
  BY <1>2, EvalFormStep DEF Form
<1>3. CASE Form(p, "created", "inserted") /\ ret[p] # Failed
             /\ Eval(p, Ask(InsertDummy)) /\ UNCHANGED exists
  BY <1>3, EvalFormStep DEF Form
<1>4. CASE Form(p, "inserted", "found") /\ ret[p] # Failed /\ Close(p) /\ UNCHANGED exists
  BY <1>4, OpenCloseStep DEF Form
<1>5. CASE Form(p, "found", "opened") /\ Open(p) /\ UNCHANGED exists
  BY <1>5, OpenCloseStep DEF Form
<1>6. CASE Form(p, "opened", "counted") /\ Eval(p, Ask(CountUsers)) /\ UNCHANGED exists
  BY <1>6, EvalFormStep DEF Form
<1>7. CASE Form(p, "counted", "done") /\ ret[p] # Failed /\ Close(p) /\ UNCHANGED exists
  BY <1>7, OpenCloseStep DEF Form
<1> QED BY <1>1, <1>2, <1>3, <1>4, <1>5, <1>6, <1>7 DEF Go

LEMMA AInvInit == AuctionsInit => AInv
<1> SUFFICES ASSUME AuctionsInit PROVE AInv
  OBVIOUS
<1>1. Inv
  BY InvInit DEF AuctionsInit
<1>2. Shape /\ T = Absent
  BY UsersIsATable DEF AuctionsInit, Init, Shape, T
<1>3. \A p \in Conns : Visit(p) /\ ~Won(p)
  BY DEF AuctionsInit, Init, Visit, Won
<1> QED BY <1>1, <1>2, <1>3 DEF AuctionsInit, AInv, Table, Underway

LEMMA AInvNext == AInv /\ [AuctionsNext]_allvars => AInv'
<1> SUFFICES ASSUME AInv, [AuctionsNext]_allvars PROVE AInv'
  OBVIOUS
<1>1. CASE UNCHANGED allvars
  <2>1. Inv'
    BY <1>1, InvNext DEF AInv, allvars
  <2> QED BY <1>1, <2>1 DEF allvars, vars, object, program, AInv, Shape, Visit, Table,
                            Underway, Won, T
<1>2. ASSUME NEW p \in Conns, Stat(p) \/ Leave(p) PROVE AInv'
  BY <1>2, MoveStep DEF Stat, Leave, Outside
<1>3. ASSUME NEW p \in Conns, Go(p) \/ Unopened(p) \/ Inside(p) \/ Raise(p) \/ Kill(p)
      PROVE  AInv'
  BY <1>3, GoStep, UnopenedStep, InsideStep, RaiseStep, KillStep
<1> QED BY <1>1, <1>2, <1>3 DEF AuctionsNext

-----------------------------------------------------------------------------
(* Theorems *)

LEMMA MadeOnceHolds == AInv => MadeOnce
<1> SUFFICES ASSUME AInv PROVE MadeOnce
  OBVIOUS
<1>1. T # Absent => Len(T) =< 1
  <2>1. T = <<>> => Len(T) =< 1
    OBVIOUS
  <2>2. T = OneRow => Len(T) =< 1
    BY DEF OneRow
  <2> QED BY <2>1, <2>2 DEF AInv, Table
<1>2. ASSUME exists, Makers = {}, ~abandoned PROVE T = OneRow
  <2>1. \A p \in Conns : at[p] \notin {"made", "created", "inserted"}
    BY <1>2 DEF Makers
  <2> QED BY <1>2, <2>1 DEF AInv, Underway, Won
<1> QED BY <1>1, <1>2 DEF MadeOnce, T, OneRow

\* Any number of processes that start at the same time, are killed at any point and
\* started again make one row at most; and when nobody is making it and no create-db
\* was cut off between making the file and the row, the file has its row.
THEOREM OneRowMade == AuctionsSpec => []MadeOnce
<1>1. AuctionsSpec => []AInv
  BY AInvInit, AInvNext, PTL DEF AuctionsSpec
<1> QED BY MadeOnceHolds, <1>1, PTL

-----------------------------------------------------------------------------
(* Visits that no create-db of another overlaps. *)

Making == {"missing", "made", "created", "inserted"}

Peaceful(p) ==
  /\ at[p] \in Making => Makers = {p}
  /\ at[p] \in {"missing", "made"} => T = Absent
  /\ at[p] = "created" => IF pc[p] = "idle" THEN alone[p] => ret[p] # Failed ELSE T = Absent
  /\ at[p] = "inserted" /\ pc[p] = "idle" /\ alone[p] => ret[p] # Failed
  /\ at[p] \in {"found", "opened", "counted"} => T = OneRow
  /\ at[p] = "counted" /\ pc[p] = "idle" => ret[p] = OneRow \/ (ret[p] = Failed /\ ~alone[p])
  /\ at[p] = "failed" => ~alone[p]
  /\ at[p] = "done" => ret[p] = OneRow

Peace == /\ crowded \in [Conns -> BOOLEAN] /\ alone \in [Conns -> BOOLEAN]
         /\ ~abandoned => \A p \in Conns : ~crowded[p] => Peaceful(p)

\* A statement that can be executed fails only for a lock.
LEMMA SingleAlone ==
  ASSUME Inv, alone \in [Conns -> BOOLEAN], ret = [q \in Conns |-> ret[q]],
         NEW p \in Conns, NEW s, call[p] = Ask(s), Step(p)
  PROVE  /\ alone' \in [Conns -> BOOLEAN]
         /\ \A q \in Conns : alone'[q] => alone[q]
         /\ Compiles(s, db) =>
              pc'[p] # "idle" \/ ~alone'[p] \/ ret'[p] = Read(Result(s, db))
<1>1. /\ pc[p] # "idle" /\ InLoop(p) /\ pos[p] \in Nat
      /\ pc \in [Conns -> {"idle", "compile", "turn"}]
      /\ call[p].script = <<s>> /\ Len(call[p].script) = 1 /\ call[p].script[1] = s
      /\ call[p].args = NoArgs
  <2>1. pc[p] # "idle"
    BY DEF Step, Compile, Turn
  <2>2. call[p].script = <<s>> /\ call[p].args = NoArgs
    BY DEF Ask
  <2>3. Len(call[p].script) = 1 /\ call[p].script[1] = s
    BY <2>2
  <2>4. InLoop(p) /\ pos[p] \in Nat /\ pc \in [Conns -> {"idle", "compile", "turn"}]
    BY <2>1, InCall DEF Inv, TypeOK
  <2> QED BY <2>1, <2>2, <2>3, <2>4
<1>2. CASE Compile(p)
  <2>1. pc[p] = "compile"
    BY <1>2 DEF Compile
  <2>2. \/ pc' = [pc EXCEPT ![p] = "turn"] /\ alone' = alone
        \/ pos[p] + 1 =< 1 /\ ~Compiles(statement(p, pos[p] + 1), db) /\ alone' = alone
        \/ alone' = [alone EXCEPT ![p] = FALSE]
    BY <1>1, <1>2 DEF Compile
  <2>3. pos[p] + 1 =< 1 => statement(p, pos[p] + 1) = s
    <3>1. pos[p] + 1 =< 1 => pos[p] + 1 = 1
      BY <1>1
    <3> QED BY <1>1, <3>1 DEF statement
  <2> QED BY <1>1, <2>2, <2>3
<1>3. CASE Turn(p)
  <2>1. pc[p] = "turn"
    BY <1>3 DEF Turn
  <2>2. /\ stmt[p] # NULL => stmt[p] = 1 /\ stmt_next[p] = NULL
        /\ stmt[p] = NULL => stmt_next[p] # NULL
    BY <1>1, <2>1 DEF InLoop
  <2>3. stmt[p] # NULL => statement(p, stmt[p]) = s
    BY <1>1, <2>2 DEF statement
  <2>4. \A k : Fits(statement(p, k), call[p].args)
    BY <1>1 DEF Fits
  <2>5. \/ stmt[p] = NULL /\ Rotate(p, <<>>) /\ alone' = alone
        \/ /\ stmt[p] # NULL /\ Rotate(p, Result(s, db))
           /\ alone' = [d \in Conns |-> alone[d] /\ (d = p \/ db' = db)]
        \/ stmt[p] # NULL /\ ~Compiles(s, db) /\ alone' = alone
        \/ alone' = [alone EXCEPT ![p] = FALSE]
    BY <1>3, <2>3, <2>4 DEF Turn, BindNext
  <2>6. CASE stmt[p] = NULL /\ Rotate(p, <<>>) /\ alone' = alone
    <3>1. pc'[p] \in {"compile", "crashed"}
      BY <1>1, <2>2, <2>6 DEF Rotate, Finalize
    <3> QED BY <2>6, <3>1
  <2>7. CASE stmt[p] # NULL /\ Rotate(p, Result(s, db))
    <3>1. ret'[p] = Read(Result(s, db))
      BY <2>2, <2>7 DEF Rotate, Rows
    <3> QED BY <2>5, <3>1
  <2> QED BY <2>5, <2>6, <2>7
<1> QED BY <1>2, <1>3 DEF Step

\* What a step of p leaves to the others.
LEMMA OthersPeace ==
  ASSUME AInv, Peace, NEW p \in Conns,
         crowded' = crowded, ~abandoned' => ~abandoned,
         alone' \in [Conns -> BOOLEAN],
         \A q \in Conns \ {p} : /\ at'[q] = at[q] /\ pc'[q] = pc[q] /\ ret'[q] = ret[q]
                                /\ alone'[q] => alone[q],
         at'[p] \in Making => at[p] \in Making,
         T' = T \/ (at[p] \in Making /\ T # OneRow),
         ~abandoned' /\ ~crowded[p] /\ Peaceful(p) => Peaceful(p)'
  PROVE  Peace'
<1> SUFFICES ASSUME ~abandoned', NEW q \in Conns, ~crowded[q], Peaceful(q), q # p
             PROVE  Peaceful(q)'
  BY DEF Peace
<1>1. at'[q] = at[q] /\ pc'[q] = pc[q] /\ ret'[q] = ret[q] /\ (alone'[q] => alone[q])
  OBVIOUS
<1>2. CASE at[q] \in Making
  <2>1. Makers = {q} /\ at[p] \notin Making
    BY <1>2 DEF Peaceful, Makers, Making
  <2>2. T' = T /\ Makers' = {q}
    <3>1. at'[p] \notin Making
      BY <2>1
    <3>2. \A r \in Conns : at'[r] \in Making <=> r = q
      <4>1. \A r \in Conns : at[r] \in Making <=> r = q
        BY <2>1 DEF Makers, Making
      <4> QED BY <1>1, <1>2, <3>1, <4>1
    <3>3. Makers' = {r \in Conns : at'[r] \in Making}
      BY DEF Makers, Making
    <3> QED BY <2>1, <3>2, <3>3
  <2> QED BY <1>1, <1>2, <2>2 DEF Peaceful, Making
<1>3. CASE at[q] \notin Making
  <2>1. at[q] \in {"found", "opened", "counted"} => T' = T
    BY DEF Peaceful
  <2> QED BY <1>1, <1>3, <2>1 DEF Peaceful, Making
<1> QED BY <1>2, <1>3

LEMMA StatPeace ==
  ASSUME AInv, Peace, NEW p \in Conns, Stat(p)
  PROVE  Peace'
<1>1. /\ at[p] = "out" /\ at' = [at EXCEPT ![p] = IF exists THEN "found" ELSE "missing"]
      /\ crowded' = [q \in Conns |-> IF q = p THEN Makers # {}
                                    ELSE crowded[q] \/ (~exists /\ q \in Makers)]
      /\ UNCHANGED <<db, pc, ret, alone, exists, abandoned>>
  BY DEF Stat, vars, history
<1>2. /\ at'[p] = IF exists THEN "found" ELSE "missing"
      /\ \A q \in Conns \ {p} : at'[q] = at[q]
      /\ T' = T
  BY <1>1 DEF AInv, Shape, T
<1>3. Makers' = IF exists THEN Makers ELSE Makers \cup {p}
  BY <1>1, <1>2 DEF Makers
<1>4. ASSUME NEW q \in Conns, ~abandoned', ~crowded'[q] PROVE Peaceful(q)'
  <2>1. CASE q = p
    <3>1. Makers = {}
      BY <1>1, <1>4, <2>1
    <3>2. ~exists => T = Absent
      BY DEF AInv, Table
    <3>3. exists => T = OneRow
      <4>1. \A r \in Conns : at[r] \notin {"made", "created", "inserted"}
        BY <3>1 DEF Makers
      <4> QED BY <1>1, <1>4, <4>1 DEF AInv, Underway, Won
    <3> QED BY <1>1, <1>2, <1>3, <2>1, <3>1, <3>2, <3>3 DEF Peaceful, Making
  <2>2. CASE q # p
    <3>1. ~crowded[q] /\ (exists \/ q \notin Makers) /\ Peaceful(q)
      BY <1>1, <1>4, <2>2 DEF Peace
    <3>2. at[q] \in Making <=> q \in Makers
      BY DEF Makers, Making
    <3> QED BY <1>1, <1>2, <1>3, <2>2, <3>1, <3>2 DEF Peaceful
  <2> QED BY <2>1, <2>2
<1>5. crowded' \in [Conns -> BOOLEAN] /\ alone' \in [Conns -> BOOLEAN]
  <2>1. \A q \in Conns : (Makers # {}) \in BOOLEAN /\ (crowded[q] \/ (~exists /\ q \in Makers)) \in BOOLEAN
    BY DEF Peace
  <2> QED BY <1>1, <2>1 DEF Peace
<1> QED BY <1>4, <1>5 DEF Peace

LEMMA InsidePeace ==
  ASSUME AInv, Peace, NEW p \in Conns, Inside(p)
  PROVE  Peace'
<1>1. Step(p) /\ UNCHANGED <<at, exists, abandoned, crowded>>
  BY DEF Inside, program
<1>2. PICK s \in {CreateUsers, InsertDummy, CountUsers} :
        /\ call[p] = Ask(s)
        /\ at[p] = "created" => s = CreateUsers
        /\ at[p] = "inserted" => s = InsertDummy
        /\ at[p] \notin {"created", "inserted"} => s = CountUsers /\ at[p] = "counted"
  <2>1. pc[p] # "idle"
    BY <1>1 DEF Step, Compile, Turn
  <2> QED BY <2>1 DEF AInv, Visit
<1>3. /\ alone' \in [Conns -> BOOLEAN]
      /\ \A q \in Conns : alone'[q] => alone[q]
      /\ Compiles(s, db) =>
           pc'[p] # "idle" \/ ~alone'[p] \/ ret'[p] = Read(Result(s, db))
  BY <1>1, <1>2, SingleAlone DEF AInv, Shape, Peace
<1>4. /\ pc[p] # "idle" /\ ran[p] \in Nat
      /\ pc \in [Conns -> {"idle", "compile", "turn"}] /\ ret = [q \in Conns |-> ret[q]]
      /\ \/ /\ \E stage \in {"compile", "turn"} : pc' = [pc EXCEPT ![p] = stage]
            /\ UNCHANGED <<db, ran, ret>>
         \/ /\ pc' = [pc EXCEPT ![p] = "idle"] /\ ret' = [ret EXCEPT ![p] = Failed]
            /\ UNCHANGED <<db, ran>>
         \/ /\ Compiles(s, db) /\ ran[p] = 0
            /\ pc' = [pc EXCEPT ![p] = "idle"]
            /\ db' = Effect(s, Bound(s, NoArgs), db)
            /\ ran' = [ran EXCEPT ![p] = @ + 1]
            /\ ret' = [ret EXCEPT ![p] = Read(Result(s, db))]
  BY <1>1, <1>2, SingleStatement DEF AInv, Inv, TypeOK, Shape
<1>5. \A q \in Conns \ {p} : pc'[q] = pc[q] /\ ret'[q] = ret[q]
  BY <1>4
<1>6. at[p] = "inserted" => ran[p] = 0 /\ T = <<>>
  BY <1>4 DEF AInv, Visit, Won, Table
<1>7. T' = T \/ (at[p] \in Making /\ T # OneRow)
  <2>1. db' = db => T' = T
    BY DEF T
  <2>2. CASE Compiles(s, db) /\ db' = Effect(s, Bound(s, NoArgs), db)
    <3>1. at[p] = "created" => T # OneRow
      BY <1>2, <2>2, NoTable, Statements DEF AInv
    <3>2. at[p] = "inserted" => T # OneRow
      BY <1>6 DEF OneRow
    <3>3. at[p] \notin {"created", "inserted"} => T' = T
      BY <1>2, <2>2, Statements DEF AInv, T
    <3> QED BY <3>1, <3>2, <3>3 DEF Making
  <2> QED BY <1>4, <2>1, <2>2
<1>8. ASSUME ~abandoned', ~crowded[p], Peaceful(p) PROVE Peaceful(p)'
  <2>1. at'[p] = at[p] /\ Makers' = Makers
    BY <1>1 DEF Makers
  <2>2. CASE at[p] = "created"
    <3>1. s = CreateUsers /\ T = Absent
      BY <1>2, <1>4, <1>8, <2>2 DEF Peaceful
    <3>2. Compiles(s, db)
      BY <3>1 DEF Compiles, CreateUsers, T
    <3>3. pc'[p] = "idle" /\ alone'[p] => ret'[p] # Failed
      BY <1>2, <1>3, <3>1, <3>2, NoTable, Statements DEF AInv
    <3>4. pc'[p] # "idle" => db' = db
      BY <1>4
    <3> QED BY <1>8, <2>1, <2>2, <3>1, <3>3, <3>4 DEF Peaceful, T
  <2>3. CASE at[p] = "inserted"
    <3>1. s = InsertDummy /\ T = <<>>
      BY <1>2, <1>6, <2>3
    <3>2. Compiles(s, db)
      BY <3>1, NoTable DEF Compiles, InsertDummy, T
    <3>3. pc'[p] = "idle" /\ alone'[p] => ret'[p] # Failed
      BY <1>2, <1>3, <3>1, <3>2, NoTable, Statements DEF AInv
    <3> QED BY <1>8, <2>1, <2>3, <3>3 DEF Peaceful
  <2>4. CASE at[p] \notin {"created", "inserted"}
    <3>1. s = CountUsers /\ at[p] = "counted" /\ T = OneRow
      BY <1>2, <1>8, <2>4 DEF Peaceful
    <3>2. Compiles(s, db) /\ Result(s, db) = OneRow
      BY <3>1, NoTable DEF Compiles, Result, CountUsers, T
    <3>3. T' = T
      BY <1>7, <3>1
    <3>4. Read(OneRow) = OneRow
      BY DEF Read, OneRow
    <3>5. pc'[p] = "idle" => ret'[p] = OneRow \/ (ret'[p] = Failed /\ ~alone'[p])
      BY <1>3, <1>4, <3>2, <3>4, NoTable
    <3> QED BY <1>8, <2>1, <3>1, <3>3, <3>5 DEF Peaceful, Making
  <2> QED BY <2>2, <2>3, <2>4
<1> HIDE DEF Making
<1> QED BY <1>1, <1>3, <1>5, <1>7, <1>8, OthersPeace

\* A form, an error, the end: only p's own place changes.
LEMMA PlacePeace ==
  ASSUME AInv, Peace, NEW p \in Conns, NEW to, at' = [at EXCEPT ![p] = to],
         db' = db, crowded' = crowded, ~abandoned' => ~abandoned, alone' \in [Conns -> BOOLEAN],
         \A q \in Conns \ {p} : /\ pc'[q] = pc[q] /\ ret'[q] = ret[q]
                                /\ alone'[q] => alone[q],
         to \in Making => at[p] \in Making,
         ~abandoned' /\ ~crowded[p] /\ Peaceful(p) =>
           /\ to \in {"missing", "made"} => T = Absent
           /\ to = "created" => IF pc'[p] = "idle" THEN alone'[p] => ret'[p] # Failed ELSE T = Absent
           /\ to = "inserted" /\ pc'[p] = "idle" /\ alone'[p] => ret'[p] # Failed
           /\ to \in {"found", "opened", "counted"} => T = OneRow
           /\ to = "counted" /\ pc'[p] = "idle" => ret'[p] = OneRow \/ (ret'[p] = Failed /\ ~alone'[p])
           /\ to = "failed" => ~alone'[p]
           /\ to = "done" => ret'[p] = OneRow
  PROVE  Peace'
<1>1. at'[p] = to /\ T' = T /\ \A q \in Conns \ {p} : at'[q] = at[q]
  BY DEF AInv, Shape, T
<1>2. ASSUME Peaceful(p), at'[p] \in Making PROVE Makers' = {p}
  <2>1. Makers = {p}
    BY <1>1, <1>2 DEF Peaceful
  <2>2. \A q \in Conns : at[q] \in Making <=> q = p
    BY <2>1 DEF Makers, Making
  <2>3. \A q \in Conns : at'[q] \in Making <=> q = p
    BY <1>1, <1>2, <2>2
  <2>4. Makers' = {q \in Conns : at'[q] \in Making}
    BY DEF Makers, Making
  <2> QED BY <2>3, <2>4
<1>3. ~abandoned' /\ ~crowded[p] /\ Peaceful(p) => Peaceful(p)'
  BY <1>1, <1>2 DEF Peaceful
<1> HIDE DEF Making
<1> QED BY <1>1, <1>3, OthersPeace

LEMMA GoPeace ==
  ASSUME AInv, Peace, NEW p \in Conns, Go(p)
  PROVE  Peace'
<1>1. UNCHANGED <<abandoned, crowded>> /\ alone \in [Conns -> BOOLEAN]
  BY DEF Go, Form, Peace
<1>2. ASSUME Open(p) \/ Close(p)
      PROVE  pc[p] = "idle" /\ UNCHANGED <<db, pc, ret, alone>>
  <2>1. UNCHANGED <<db, pc, ret>>
    BY <1>2, ConnectionStep DEF AInv
  <2> QED BY <1>2, <2>1 DEF Open, Close, history
<1>3. CASE Form(p, "missing", "made") /\ Open(p)
  <2>1. at[p] = "missing" /\ at' = [at EXCEPT ![p] = "made"]
    BY <1>3 DEF Form
  <2>2. pc[p] = "idle" /\ UNCHANGED <<db, pc, ret, alone>>
    BY <1>2, <1>3
  <2> QED BY <1>1, <2>1, <2>2, PlacePeace DEF Peaceful, Making
<1>4. CASE Form(p, "inserted", "found") /\ ret[p] # Failed /\ Close(p)
  <2>1. at[p] = "inserted" /\ at' = [at EXCEPT ![p] = "found"]
    BY <1>4 DEF Form
  <2>2. pc[p] = "idle" /\ UNCHANGED <<db, pc, ret, alone>>
    BY <1>2, <1>4
  <2>3. T = OneRow
    BY <1>4, <2>1, <2>2 DEF AInv, Visit, Won, Table
  <2> QED BY <1>1, <2>1, <2>2, <2>3, PlacePeace DEF Peaceful, Making
<1>5. CASE Form(p, "found", "opened") /\ Open(p)
  <2>1. at[p] = "found" /\ at' = [at EXCEPT ![p] = "opened"]
    BY <1>5 DEF Form
  <2>2. pc[p] = "idle" /\ UNCHANGED <<db, pc, ret, alone>>
    BY <1>2, <1>5
  <2> QED BY <1>1, <2>1, <2>2, PlacePeace DEF Peaceful, Making
<1>6. CASE Form(p, "counted", "done") /\ ret[p] # Failed /\ Close(p)
  <2>1. at[p] = "counted" /\ at' = [at EXCEPT ![p] = "done"]
    BY <1>6 DEF Form
  <2>2. pc[p] = "idle" /\ UNCHANGED <<db, pc, ret, alone>>
    BY <1>2, <1>6
  <2> QED BY <1>1, <1>6, <2>1, <2>2, PlacePeace DEF Peaceful, Making
<1>7. ASSUME NEW s \in {CreateUsers, InsertDummy, CountUsers}, Eval(p, Ask(s)),
             at[p] \in {"made", "created", "opened"}
      PROVE  /\ pc' = [pc EXCEPT ![p] = "compile"] /\ UNCHANGED <<db, ret>>
             /\ alone' = [alone EXCEPT ![p] = TRUE] /\ pc'[p] = "compile"
             /\ alone' \in [Conns -> BOOLEAN]
             /\ \A q \in Conns \ {p} : pc'[q] = pc[q] /\ alone'[q] = alone[q]
  <2>1. /\ flags[p] = "open" /\ pc \in [Conns -> {"idle", "compile", "turn"}]
        /\ ~Refused(p, Ask(s))
    BY <1>7, AskedAreQueries DEF AInv, Visit, Inv, TypeOK, Asked, Refused
  <2>2. /\ pc' = [pc EXCEPT ![p] = "compile"] /\ UNCHANGED <<db, ret>>
        /\ alone' = [alone EXCEPT ![p] = TRUE]
    BY <1>7, <2>1 DEF Eval
  <2> QED BY <1>1, <2>1, <2>2
<1>8. CASE Form(p, "made", "created") /\ Eval(p, Ask(CreateUsers))
  <2>1. at[p] = "made" /\ at' = [at EXCEPT ![p] = "created"]
    BY <1>8 DEF Form
  <2>2. /\ UNCHANGED <<db, ret>> /\ pc'[p] = "compile" /\ alone' \in [Conns -> BOOLEAN]
        /\ \A q \in Conns \ {p} : pc'[q] = pc[q] /\ alone'[q] = alone[q]
    BY <1>7, <1>8, <2>1
  <2> QED BY <1>1, <2>1, <2>2, PlacePeace DEF Peaceful, Making
<1>9. CASE Form(p, "created", "inserted") /\ ret[p] # Failed /\ Eval(p, Ask(InsertDummy))
  <2>1. at[p] = "created" /\ at' = [at EXCEPT ![p] = "inserted"]
    BY <1>9 DEF Form
  <2>2. /\ UNCHANGED <<db, ret>> /\ pc'[p] = "compile" /\ alone' \in [Conns -> BOOLEAN]
        /\ \A q \in Conns \ {p} : pc'[q] = pc[q] /\ alone'[q] = alone[q]
    BY <1>7, <1>9, <2>1
  <2> QED BY <1>1, <2>1, <2>2, PlacePeace DEF Peaceful, Making
<1>10. CASE Form(p, "opened", "counted") /\ Eval(p, Ask(CountUsers))
  <2>1. at[p] = "opened" /\ at' = [at EXCEPT ![p] = "counted"]
    BY <1>10 DEF Form
  <2>2. /\ UNCHANGED <<db, ret>> /\ pc'[p] = "compile" /\ alone' \in [Conns -> BOOLEAN]
        /\ \A q \in Conns \ {p} : pc'[q] = pc[q] /\ alone'[q] = alone[q]
    BY <1>7, <1>10, <2>1
  <2> QED BY <1>1, <2>1, <2>2, PlacePeace DEF Peaceful, Making
<1> QED BY <1>3, <1>4, <1>5, <1>6, <1>8, <1>9, <1>10 DEF Go

LEMMA EndPeace ==
  ASSUME AInv, Peace, NEW p \in Conns, Raise(p) \/ Unopened(p) \/ Kill(p) \/ Leave(p)
  PROVE  Peace'
<1>1. CASE Raise(p)
  <2>1. UNCHANGED <<db, pc, ret>>
    BY <1>1, ConnectionStep DEF Raise, AInv
  <2>2. /\ at[p] \in {"created", "inserted", "counted"} /\ pc[p] = "idle" /\ ret[p] = Failed
        /\ at' = [at EXCEPT ![p] = "failed"] /\ UNCHANGED <<crowded, alone>>
        /\ ~abandoned' => ~abandoned
    BY <1>1 DEF Raise, Close, history
  <2>3. Peaceful(p) => ~alone[p]
    BY <2>2, NoTable DEF Peaceful
  <2> QED BY <2>1, <2>2, <2>3, PlacePeace DEF Peace, Making
<1>2. CASE Kill(p)
  <2>1. /\ at' = [at EXCEPT ![p] = "killed"] /\ UNCHANGED <<db, ret, crowded>>
        /\ alone' = [alone EXCEPT ![p] = FALSE] /\ pc' = [pc EXCEPT ![p] = "idle"]
        /\ ~abandoned' => ~abandoned
    BY <1>2 DEF Kill
  <2>2. /\ alone' \in [Conns -> BOOLEAN]
        /\ \A q \in Conns \ {p} : pc'[q] = pc[q] /\ alone'[q] = alone[q]
    BY <2>1 DEF Peace, AInv, Inv, TypeOK
  <2> QED BY <2>1, <2>2, PlacePeace DEF Making
<1>3. CASE Leave(p)
  <2>1. at' = [at EXCEPT ![p] = "out"] /\ UNCHANGED <<db, pc, ret, alone, crowded, abandoned>>
    BY <1>3 DEF Leave, vars, history
  <2> QED BY <2>1, PlacePeace DEF Peace, Making
<1>4. CASE Unopened(p)
  <2>1. UNCHANGED <<db, pc, ret>>
    BY <1>4, ConnectionStep DEF Unopened, AInv
  <2>2. /\ at' = [at EXCEPT ![p] = "failed"] /\ crowded' = crowded
        /\ alone' = [alone EXCEPT ![p] = FALSE] /\ (~abandoned' => ~abandoned)
    BY <1>4 DEF Unopened, OpenFails
  <2>3. /\ alone' \in [Conns -> BOOLEAN] /\ ~alone'[p]
        /\ \A q \in Conns \ {p} : pc'[q] = pc[q] /\ ret'[q] = ret[q] /\ alone'[q] = alone[q]
    BY <2>1, <2>2 DEF Peace
  <2> QED BY <2>1, <2>2, <2>3, PlacePeace DEF Making
<1> QED BY <1>1, <1>2, <1>3, <1>4

LEMMA PeaceInit == AuctionsInit => Peace
BY DEF AuctionsInit, Init, Peace, Peaceful, Making

LEMMA PeaceNext ==
  ASSUME AInv, Peace, [AuctionsNext]_allvars
  PROVE  Peace'
<1>1. CASE UNCHANGED allvars
  BY <1>1 DEF allvars, vars, history, program, Peace, Peaceful, Makers, T
<1>2. CASE AuctionsNext
  BY <1>2, StatPeace, GoPeace, InsidePeace, EndPeace DEF AuctionsNext
<1> QED BY <1>1, <1>2

LEMMA UndisturbedHolds == AInv /\ Peace => Undisturbed
<1>1. Len(OneRow) = 1
  BY DEF OneRow
<1> QED BY <1>1 DEF Peace, Peaceful, Undisturbed

\* A visit of exec-db during which nobody else was making the file, and none was cut
\* off while he did, fails only if the lock of another was in its way, and otherwise
\* finds the row; also where a program may instead use the database freely.
THEOREM VisitsAreComplete == MCSpec => []VisitsComplete
<1> DEFINE I == free \/ (AInv /\ Peace)
<1>1. MCInit => I
  BY AInvInit, PeaceInit DEF MCInit
<1>2. I /\ [MCNext]_<<allvars, free>> => I'
  BY AInvNext, PeaceNext DEF MCNext
<1>3. I => VisitsComplete
  BY MadeOnceHolds, UndisturbedHolds DEF VisitsComplete
<1> QED BY <1>1, <1>2, <1>3, PTL DEF MCSpec

LEMMA KillCause ==
  ASSUME Inv, Cause, NEW p \in Conns, Kill(p)
  PROVE  Cause'
<1>1. /\ alone' = [alone EXCEPT ![p] = FALSE] /\ pc' = [pc EXCEPT ![p] = "idle"]
      /\ UNCHANGED <<db, call, calls, before, ran, ret, stmt, stmt_next>>
  BY DEF Kill
<1>2. /\ alone' \in [Conns -> BOOLEAN] /\ ~alone'[p]
      /\ \A q \in Conns \ {p} : pc'[q] = pc[q] /\ alone'[q] = alone[q]
  BY <1>1 DEF Cause, Inv, TypeOK
<1> QED BY <1>1, <1>2, CauseOf DEF Cause

LEMMA AuctionsCause ==
  ASSUME FailedIsNoAnswer, Inv, Cause, [AuctionsNext]_allvars
  PROVE  Cause'
<1>1. CASE UNCHANGED vars
  BY <1>1, CauseNext
<1>2. ASSUME NEW p \in Conns, Go(p) \/ Unopened(p) \/ Inside(p) \/ Raise(p) PROVE Cause'
  <2>1. \/ Open(p) \/ Close(p) \/ OpenFails(p) \/ Step(p)
        \/ \E query \in Queries : Eval(p, query)
    BY <1>2, AskedAreQueries DEF Go, Unopened, Inside, Raise, Asked
  <2> QED BY <2>1, ConnectionCause, CompileCause, TurnCause, EvalCause DEF Step
<1>3. ASSUME NEW p \in Conns, Stat(p) \/ Leave(p) PROVE UNCHANGED vars
  BY <1>3 DEF Stat, Leave
<1> QED BY <1>1, <1>2, <1>3, KillCause DEF AuctionsNext, allvars

\* Calls fail for the same causes where exec-db makes them.
THEOREM CausesInVisits ==
  ASSUME FailedIsNoAnswer
  PROVE  MCSpec => []FailsForCause
<1> DEFINE I == Inv /\ Cause /\ (free \/ AInv)
<1>1. MCInit => I
  BY InvInit, CauseInit, AInvInit DEF MCInit, AuctionsInit
<1>2. I /\ [MCNext]_<<allvars, free>> => I'
  <2> SUFFICES ASSUME I, [MCNext]_<<allvars, free>> PROVE I'
    OBVIOUS
  <2>1. CASE free
    <3>1. [Next]_vars /\ free' = free
      BY <2>1 DEF MCNext, allvars
    <3> QED BY <2>1, <3>1, InvNext, CauseNext
  <2>2. CASE ~free
    <3>1. [AuctionsNext]_allvars /\ AInv
      BY <2>2 DEF MCNext
    <3>2. AInv' /\ Cause'
      BY <3>1, AInvNext, AuctionsCause
    <3>3. Inv'
      BY <3>2 DEF AInv
    <3> QED BY <3>2, <3>3
  <2> QED BY <2>1, <2>2
<1>3. I => FailsForCause
  BY CauseSuffices
<1> QED BY <1>1, <1>2, <1>3, PTL DEF MCSpec
=============================================================================
