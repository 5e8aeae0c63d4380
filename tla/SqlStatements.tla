--------------------------- MODULE SqlStatements ---------------------------
(***************************************************************************)
(* What the statements of a script do to a database file: as much of       *)
(* SQLite as the binding in target/super/sqlite3/main.c relies on.         *)
(***************************************************************************)
EXTENDS Integers, Sequences

CONSTANTS
  Tables,
  Absent        \* in place of a table that is not there

\* A statement has an operation, a table and the names of its parameters in
\* their order; what it inserts is one row of these parameters.
Statement == [op: {"create", "drop", "insert", "select", "nonsense"},
              table: Tables, params: Seq(STRING)]

\* Whether SQLite can make sense of s in a database d.
Compiles(s, d) == CASE s.op = "nonsense" -> FALSE
                    [] s.op = "create"   -> d[s.table] = Absent
                    [] OTHER             -> d[s.table] # Absent

Effect(s, row, d) ==
  [d EXCEPT ![s.table] = CASE s.op = "create" -> <<>>
                           [] s.op = "drop"   -> Absent
                           [] s.op = "insert" -> Append(@, row)
                           [] OTHER           -> @]

\* The rows that s delivers.
Result(s, d) == IF s.op = "select" THEN d[s.table] ELSE <<>>
=============================================================================
