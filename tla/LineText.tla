------------------------------ MODULE LineText ------------------------------
(***************************************************************************)
(* What a line editor promises: a text with a cursor, a bounded history of *)
(* lines, newest first, and a result that is the text at the time of Enter.*)
(* No buffer, no screen, no memory.                                        *)
(***************************************************************************)
EXTENDS Integers, Sequences, SequencesExt

CONSTANTS HISTORY_MAX, Newline

VARIABLES
  before, after,      \* the text on the two sides of the cursor
  history,
  result              \* what the last call returned

vars == <<before, after, history, result>>
text == <<before, after>>

Init == before = <<>> /\ after = <<>> /\ history = <<>> /\ result = <<>>

\* The line being edited is the newest entry; the oldest may have to go.
Open == /\ before' = <<>> /\ after' = <<>> /\ result' = <<>>
        /\ history' = SubSeq(<<<<>>>> \o history, 1,
                             IF Len(history) < HISTORY_MAX THEN Len(history) + 1 ELSE HISTORY_MAX)

Move == /\ before' \o after' = before \o after
        /\ UNCHANGED <<history, result>>

\* New text is put at the cursor, perhaps after moving it to the right.
Insert == /\ IsSuffix(after', after)
          /\ IsPrefix(before \o SubSeq(after, 1, Len(after) - Len(after')), before')
          /\ UNCHANGED <<history, result>>

\* Text next to the cursor is removed, on one side.
Erase == /\ \/ IsPrefix(before', before) /\ after' = after
            \/ IsSuffix(after', after) /\ before' = before
         /\ UNCHANGED <<history, result>>

\* One entry takes the text as it is, and another one is shown.
Recall == /\ \E i, j \in DOMAIN history :
               /\ history' = [history EXCEPT ![i] = before \o after]
               /\ before' = history'[j] /\ after' = <<>>
          /\ UNCHANGED result

\* Empty lines and repetitions are not remembered.
Enter ==
  LET line == before \o after IN
  /\ history # <<>>
  /\ result' = Append(line, Newline)
  /\ history' = IF line = <<>> \/ (Len(history) > 1 /\ line = history[2])
                THEN Tail(history)
                ELSE [history EXCEPT ![1] = line]
  /\ UNCHANGED text

\* A line that is not edited.
Plain == UNCHANGED <<text, history>>

Quit == history' = <<>> /\ UNCHANGED <<text, result>>

Next == Open \/ Move \/ Insert \/ Erase \/ Recall \/ Enter \/ Plain \/ Quit

Spec == Init /\ [][Next]_vars
=============================================================================
