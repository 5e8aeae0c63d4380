-------------------------- MODULE LineEditorProofs --------------------------
(***************************************************************************)
(* The line editor for every size of buffer and history, every terminal,   *)
(* table of names and sequence of keys.                                    *)
(*                                                                         *)
(* First memory, where only pointers matter: each history slot in use owns *)
(* one string and nothing else is allocated.  Then the bytes: what each    *)
(* key does to the array is what it does to the text on the two sides of   *)
(* the cursor, the array stays a string, and the history holds lines that  *)
(* fit into it.  From this follow that the editor never reads or writes    *)
(* outside of its buffer, that the screen shows the line, that Up recalls  *)
(* the line just entered, that the terminal is restored, and that the      *)
(* editor implements the abstract text with a cursor and a history.        *)
(***************************************************************************)
EXTENDS LineEditor, Completion, Recursion, FiniteSetTheorems, TLAPS

\* n slots in use, each with a string of its own, and no other string.
Owned(slots, n, h) ==
  /\ slots \in [History -> Ptrs \cup {NULL}]
  /\ n \in 0..HISTORY_MAX
  /\ DOMAIN h = {slots[i] : i \in 0..(n - 1)}
  /\ DOMAIN h \subseteq Ptrs
  /\ \A i, j \in 0..(n - 1) : i # j => slots[i] # slots[j]

\* The inductive invariant.  While a line is read there is a slot for it.
Inv == /\ pc = "exit" => DOMAIN heap = {}
       /\ pc # "exit" => Owned(gbl_history, gbl_history_count, heap)
       /\ Reading => gbl_historyi \in 0..(gbl_history_count - 1)

-----------------------------------------------------------------------------
(* The heap. *)

\* What free leaves allocated.
LEMMA ReleasedDomain == \A h, p : DOMAIN Released(h, p) = DOMAIN h \ {p}
BY DEF Released

\* sdup returns a piece that was free, and allocates it.
LEMMA SdupFresh ==
  ASSUME "nomem" \notin Faults, NEW h, NEW s, NEW m \in sdup(h, s)
  PROVE  /\ m.ptr \in Ptrs \ DOMAIN h
         /\ DOMAIN m.heap = DOMAIN h \cup {m.ptr}
<1>1. PICK p \in Ptrs \ DOMAIN h :
        m = [ptr |-> p, heap |-> [q \in DOMAIN h \cup {p} |-> IF q = p THEN s ELSE h[q]]]
  BY DEF sdup
<1>. QED
  BY <1>1

\* A slot in use points to a string.
LEMMA SlotAllocated ==
  ASSUME NEW slots, NEW n, NEW h, Owned(slots, n, h), NEW i \in 0..(n - 1)
  PROVE  /\ slots[i] \in DOMAIN h /\ slots[i] \in Ptrs /\ slots[i] # NULL
         /\ i \in History
BY MemorySuffices, SizesPositive DEF Owned, History

\* One slot in use is given a fresh string after its own has been freed, or the
\* other way round.
LEMMA SlotReplaced ==
  ASSUME NEW slots, NEW n, NEW h, Owned(slots, n, h), NEW k \in 0..(n - 1),
         NEW p \in Ptrs, NEW g,
         DOMAIN g = (DOMAIN h \ {slots[k]}) \cup {p},
         p \notin DOMAIN h \ {slots[k]}
  PROVE  Owned([slots EXCEPT ![k] = p], n, g)
<1> DEFINE new == [slots EXCEPT ![k] = p]
<1>1. k \in History /\ slots \in [History -> Ptrs \cup {NULL}] /\ 0..(n - 1) \subseteq History
  BY SizesPositive DEF Owned, History
<1>2. new \in [History -> Ptrs \cup {NULL}] /\ n \in 0..HISTORY_MAX
  BY <1>1 DEF Owned
<1>3. new[k] = p /\ \A i \in 0..(n - 1) : i # k => new[i] = slots[i]
  BY <1>1
<1>4. \A i \in 0..(n - 1) : i # k => slots[i] # slots[k] /\ slots[i] \in DOMAIN h
  BY DEF Owned
<1>5. DOMAIN g = {new[i] : i \in 0..(n - 1)}
  BY <1>3, <1>4 DEF Owned
<1>6. \A i, j \in 0..(n - 1) : i # j => new[i] # new[j]
  BY <1>3, <1>4 DEF Owned
<1>7. DOMAIN g \subseteq Ptrs
  BY DEF Owned
<1>. QED
  BY <1>2, <1>5, <1>6, <1>7 DEF Owned

-----------------------------------------------------------------------------
(* The three operations on the history. *)

\* The string of the oldest slot goes when all are in use.
LEMMA AddHistoryOwned ==
  ASSUME "nomem" \notin Faults, Owned(gbl_history, gbl_history_count, heap), addhistory
  PROVE  /\ Owned(gbl_history', gbl_history_count', heap')
         /\ 0 \in 0..(gbl_history_count' - 1)
<1> DEFINE full == gbl_history_count >= HISTORY_MAX
           len == IF full THEN HISTORY_MAX ELSE gbl_history_count + 1
           last == gbl_history[HISTORY_MAX - 1]
<1>1. PICK m \in sdup(heap, <<>>) :
        IF m.ptr = NULL THEN UNCHANGED <<heap, gbl_history, gbl_history_count>>
        ELSE /\ heap' = IF full THEN Released(m.heap, last) ELSE m.heap
             /\ gbl_history' = [i \in History |-> IF i = 0 THEN m.ptr
                                                  ELSE IF i < len THEN gbl_history[i - 1]
                                                  ELSE gbl_history[i]]
             /\ gbl_history_count' = len
  BY DEF addhistory
<1>2. m.ptr \in Ptrs \ DOMAIN heap /\ DOMAIN m.heap = DOMAIN heap \cup {m.ptr}
  BY <1>1, SdupFresh
<1>3. m.ptr # NULL
  BY <1>2, MemorySuffices
<1>4. /\ gbl_history \in [History -> Ptrs \cup {NULL}] /\ gbl_history_count \in 0..HISTORY_MAX
      /\ len \in 1..HISTORY_MAX /\ HISTORY_MAX \in Nat \ {0}
      /\ len - 1 =< gbl_history_count
      /\ ~full => len - 1 = gbl_history_count
      /\ full => gbl_history_count = HISTORY_MAX /\ len = HISTORY_MAX
  BY SizesPositive DEF Owned
<1>5. gbl_history' \in [History -> Ptrs \cup {NULL}]
  BY <1>1, <1>2, <1>3, <1>4 DEF History
<1>6. /\ gbl_history'[0] = m.ptr
      /\ \A i \in 1..(len - 1) : gbl_history'[i] = gbl_history[i - 1]
  BY <1>1, <1>3, <1>4 DEF History
<1>7. \A i \in 1..(len - 1) : /\ i - 1 \in 0..(gbl_history_count - 1)
                              /\ gbl_history[i - 1] \in DOMAIN heap
  <2> SUFFICES ASSUME NEW i \in 1..(len - 1)
               PROVE  /\ i - 1 \in 0..(gbl_history_count - 1)
                      /\ gbl_history[i - 1] \in DOMAIN heap
    OBVIOUS
  <2>1. i - 1 \in 0..(gbl_history_count - 1)
    BY <1>4
  <2>. QED
    BY <2>1, SlotAllocated
<1>8. \A i, j \in 0..(len - 1) : i # j => gbl_history'[i] # gbl_history'[j]
  <2> SUFFICES ASSUME NEW i \in 0..(len - 1), NEW j \in 0..(len - 1), i # j
               PROVE  gbl_history'[i] # gbl_history'[j]
    OBVIOUS
  <2>1. CASE i = 0 \/ j = 0
    <3>1. \A k \in 1..(len - 1) : gbl_history'[k] # m.ptr
      BY <1>2, <1>6, <1>7
    <3>. QED
      BY <2>1, <3>1, <1>4, <1>6
  <2>2. CASE i # 0 /\ j # 0
    <3>1. i \in 1..(len - 1) /\ j \in 1..(len - 1) /\ i - 1 # j - 1
      BY <2>2, <1>4
    <3>2. i - 1 \in 0..(gbl_history_count - 1) /\ j - 1 \in 0..(gbl_history_count - 1)
      BY <3>1, <1>7
    <3>3. gbl_history[i - 1] # gbl_history[j - 1]
      BY <3>1, <3>2 DEF Owned
    <3>. QED
      BY <3>1, <3>3, <1>6
  <2>. QED
    BY <2>1, <2>2
<1>9. DOMAIN heap' = {gbl_history'[i] : i \in 0..(len - 1)}
  <2>1. {gbl_history'[i] : i \in 0..(len - 1)} = {m.ptr} \cup {gbl_history[i - 1] : i \in 1..(len - 1)}
    <3>1. len \in Int /\ len >= 1
      BY <1>4
    <3> HIDE DEF len
    <3>2. 0..(len - 1) = {0} \cup 1..(len - 1)
      BY <3>1
    <3>3. \A i \in 1..(len - 1) : gbl_history'[i] = gbl_history[i - 1]
      BY <1>6
    <3>. QED
      BY <3>2, <3>3, <1>6
  <2>2. {gbl_history[i - 1] : i \in 1..(len - 1)} = {gbl_history[i] : i \in 0..(len - 2)}
    <3>1. \A i \in 0..(len - 2) : i + 1 \in 1..(len - 1) /\ (i + 1) - 1 = i
      BY <1>4
    <3>2. \A i \in 1..(len - 1) : i - 1 \in 0..(len - 2)
      BY <1>4
    <3>. QED
      BY <3>1, <3>2
  <2>3. CASE ~full
    <3>1. DOMAIN heap' = DOMAIN heap \cup {m.ptr}
      BY <2>3, <1>1, <1>2, <1>3
    <3>2. len - 2 = gbl_history_count - 1
      BY <2>3, <1>4
    <3>. QED
      BY <2>1, <2>2, <3>1, <3>2 DEF Owned
  <2>4. CASE full
    <3>1. DOMAIN heap' = (DOMAIN heap \cup {m.ptr}) \ {last}
      BY <2>4, <1>1, <1>2, <1>3, ReleasedDomain
    <3>2. HISTORY_MAX - 1 \in 0..(gbl_history_count - 1) /\ gbl_history_count - 1 = HISTORY_MAX - 1
          /\ len - 2 = HISTORY_MAX - 2
      BY <2>4, <1>4
    <3>3. last \in DOMAIN heap /\ last # m.ptr
      BY <3>2, <1>2, SlotAllocated
    <3>4. DOMAIN heap = {gbl_history[i] : i \in 0..(HISTORY_MAX - 2)} \cup {last}
      <4>1. 0..(HISTORY_MAX - 1) = 0..(HISTORY_MAX - 2) \cup {HISTORY_MAX - 1}
        BY <1>4
      <4>. QED
        BY <4>1, <3>2 DEF Owned
    <3>5. last \notin {gbl_history[i] : i \in 0..(HISTORY_MAX - 2)}
      <4>1. \A i \in 0..(HISTORY_MAX - 2) : i \in 0..(gbl_history_count - 1) /\ i # HISTORY_MAX - 1
        BY <3>2, <1>4
      <4>. QED
        BY <4>1, <3>2 DEF Owned
    <3>. QED
      BY <2>1, <2>2, <3>1, <3>2, <3>3, <3>4, <3>5
  <2>. QED
    BY <2>3, <2>4
<1>10. gbl_history_count' = len
  BY <1>1, <1>3
<1>11. DOMAIN heap' \subseteq Ptrs
  <2>1. \A i \in 0..(len - 1) : gbl_history'[i] \in Ptrs
    <3> SUFFICES ASSUME NEW i \in 0..(len - 1) PROVE gbl_history'[i] \in Ptrs
      OBVIOUS
    <3>1. CASE i = 0
      BY <3>1, <1>2, <1>6
    <3>2. CASE i # 0
      <4>1. i \in 1..(len - 1)
        BY <3>2, <1>4
      <4>. QED
        BY <4>1, <1>6, <1>7 DEF Owned
    <3>. QED
      BY <3>1, <3>2
  <2>. QED
    BY <2>1, <1>9
<1>12. 0 \in 0..(len - 1)
  BY <1>4
<1>. QED
  BY <1>4, <1>5, <1>8, <1>9, <1>10, <1>11, <1>12 DEF Owned

\* With the newest slot shifted out the others stay; otherwise its string is
\* exchanged for the copy of the line.
LEMMA ReplaceHistoryOwned ==
  ASSUME "nomem" \notin Faults, Owned(gbl_history, gbl_history_count, heap),
         gbl_history_count > 0, NEW t, replacehistory(t)
  PROVE  Owned(gbl_history', gbl_history_count', heap')
<1> DEFINE n == gbl_history_count
<1>1. /\ gbl_history \in [History -> Ptrs \cup {NULL}]
      /\ n \in 1..HISTORY_MAX /\ HISTORY_MAX \in Nat \ {0}
      /\ 0 \in 0..(n - 1)
  BY SizesPositive DEF Owned
<1>2. CASE t.len = 0 \/ Repeated(t)
  <2>1. /\ heap' = Released(heap, gbl_history[0])
        /\ gbl_history' = [i \in History |-> IF i + 1 < n THEN gbl_history[i + 1]
                                             ELSE gbl_history[i]]
        /\ gbl_history_count' = n - 1
    BY <1>2 DEF replacehistory
  <2>2. \A i \in 0..(n - 2) : /\ i + 1 \in 0..(n - 1) /\ i + 1 # 0
                              /\ gbl_history'[i] = gbl_history[i + 1]
    BY <1>1, <2>1 DEF History
  <2>3. gbl_history' \in [History -> Ptrs \cup {NULL}]
    BY <1>1, <2>1 DEF History
  <2>4. \A i, j \in 0..(n - 2) : i # j => gbl_history'[i] # gbl_history'[j]
    <3> SUFFICES ASSUME NEW i \in 0..(n - 2), NEW j \in 0..(n - 2), i # j
                 PROVE  gbl_history'[i] # gbl_history'[j]
      OBVIOUS
    <3>1. i + 1 # j + 1 /\ i + 1 \in 0..(n - 1) /\ j + 1 \in 0..(n - 1)
      BY <1>1
    <3>. QED
      BY <2>2, <3>1 DEF Owned
  <2>5. DOMAIN heap' = {gbl_history'[i] : i \in 0..(n - 2)}
    <3>1. DOMAIN heap' = {gbl_history[i] : i \in 0..(n - 1)} \ {gbl_history[0]}
      BY <2>1, ReleasedDomain DEF Owned
    <3>2. \A i \in 0..(n - 1) : i # 0 => i - 1 \in 0..(n - 2) /\ (i - 1) + 1 = i
      BY <1>1
    <3>3. \A i \in 0..(n - 1) : i # 0 => /\ gbl_history[i] # gbl_history[0]
                                         /\ gbl_history[i] = gbl_history'[i - 1]
      BY <1>1, <2>2, <3>2 DEF Owned
    <3>. QED
      BY <3>1, <3>2, <3>3, <2>2
  <2>6. DOMAIN heap' \subseteq Ptrs
    BY <2>1, ReleasedDomain DEF Owned
  <2>7. n - 1 \in 0..HISTORY_MAX /\ (n - 1) - 1 = n - 2
    BY <1>1
  <2>. QED
    BY <2>1, <2>3, <2>4, <2>5, <2>6, <2>7 DEF Owned
<1>3. CASE ~(t.len = 0 \/ Repeated(t))
  <2>1. PICK m \in sdup(heap, CString(t.buf)) :
          IF m.ptr = NULL THEN UNCHANGED <<heap, gbl_history>>
          ELSE /\ heap' = Released(m.heap, gbl_history[0])
               /\ gbl_history' = [gbl_history EXCEPT ![0] = m.ptr]
    BY <1>3 DEF replacehistory
  <2>2. m.ptr \in Ptrs \ DOMAIN heap /\ DOMAIN m.heap = DOMAIN heap \cup {m.ptr}
    BY <2>1, SdupFresh
  <2>3. gbl_history[0] \in DOMAIN heap
    BY <1>1, SlotAllocated
  <2>4. DOMAIN Released(m.heap, gbl_history[0]) = (DOMAIN heap \ {gbl_history[0]}) \cup {m.ptr}
    BY <2>2, <2>3, ReleasedDomain
  <2>5. Owned([gbl_history EXCEPT ![0] = m.ptr], n, Released(m.heap, gbl_history[0]))
    BY <1>1, <2>2, <2>4, SlotReplaced
  <2>6. gbl_history_count' = gbl_history_count
    BY <1>3 DEF replacehistory
  <2>. QED
    BY <2>1, <2>2, <2>5, <2>6, MemorySuffices
<1>. QED
  BY <1>2, <1>3

\* A move exchanges the string of the slot shown, and stays among those in use.
LEMMA HistoryMoveOwned ==
  ASSUME "nomem" \notin Faults, Owned(gbl_history, gbl_history_count, heap),
         gbl_historyi \in 0..(gbl_history_count - 1),
         NEW delta \in Int, historymove(delta)
  PROVE  /\ Owned(gbl_history', gbl_history_count', heap')
         /\ gbl_historyi' \in 0..(gbl_history_count' - 1)
<1> DEFINE old == gbl_history[gbl_historyi]
           to == IF gbl_historyi + delta < 0 THEN 0
                 ELSE IF gbl_historyi + delta >= gbl_history_count THEN gbl_history_count - 1
                 ELSE gbl_historyi + delta
<1>1. CASE UNCHANGED hist
  BY <1>1 DEF hist
<1>2. CASE ~UNCHANGED hist
  <2>1. PICK m \in sdup(Released(heap, old), CString(line.buf)) :
          /\ gbl_history' = [gbl_history EXCEPT ![gbl_historyi] = m.ptr]
          /\ heap' = m.heap /\ gbl_historyi' = to
          /\ UNCHANGED gbl_history_count
    BY <1>2 DEF historymove
  <2>2. /\ m.ptr \in Ptrs \ (DOMAIN heap \ {old})
        /\ DOMAIN m.heap = (DOMAIN heap \ {old}) \cup {m.ptr}
    <3>1. /\ m.ptr \in Ptrs \ DOMAIN Released(heap, old)
          /\ DOMAIN m.heap = DOMAIN Released(heap, old) \cup {m.ptr}
      BY SdupFresh
    <3>2. DOMAIN Released(heap, old) = DOMAIN heap \ {old}
      BY ReleasedDomain
    <3>. QED
      BY <3>1, <3>2
  <2>3. Owned([gbl_history EXCEPT ![gbl_historyi] = m.ptr], gbl_history_count, m.heap)
    BY <2>2, SlotReplaced
  <2>4. to \in 0..(gbl_history_count - 1)
    BY DEF Owned
  <2>. QED
    BY <2>1, <2>3, <2>4
<1>. QED
  BY <1>1, <1>2

-----------------------------------------------------------------------------
(* The invariant. *)

\* Nothing is allocated before the first line.
LEMMA InitInv == Init => Inv
<1> SUFFICES ASSUME Init PROVE Inv
  OBVIOUS
<1>1. /\ pc = "idle" /\ gbl_history_count = 0
      /\ gbl_history \in [History -> Ptrs \cup {NULL}]
  BY DEF Init
<1>2. DOMAIN heap = {}
  BY DEF Init
<1>3. 0..(gbl_history_count - 1) = {} /\ gbl_history_count \in 0..HISTORY_MAX
  BY <1>1, SizesPositive
<1>. QED
  BY <1>1, <1>2, <1>3 DEF Owned, Inv, Reading

\* A step that leaves the history alone, and does not end the program.
LEMMA HistoryUntouched ==
  ASSUME Inv, pc # "exit", UNCHANGED hist, pc' # "exit", Reading' => Reading
  PROVE  Inv'
<1>1. UNCHANGED <<gbl_history, gbl_history_count, gbl_historyi, heap>>
  BY DEF hist
<1>. QED
  BY <1>1 DEF Inv

\* What a redraw leaves in pc.
LEMMA RedrawPc == ASSUME NEW t, Redraw(t) PROVE pc' \in {"line", "crashed", "died"}
BY DEF Redraw

\* A command of the loop.
LEMMA DoInv ==
  ASSUME "nomem" \notin Faults, Inv, Reading, NEW op, Do(op)
  PROVE  Inv'
<1>1. CASE op \in {"older", "newer", "oldest", "newest"}
  <2>1. PICK delta \in {1, -1, HISTORY_MAX, -HISTORY_MAX} : historymove(delta)
    BY <1>1 DEF Do
  <2>2. delta \in Int
    BY <2>1, SizesPositive
  <2>3. pc' \in {"line", "crashed", "died"}
    BY <2>1 DEF historymove, Redraw
  <2>4. /\ Owned(gbl_history', gbl_history_count', heap')
        /\ gbl_historyi' \in 0..(gbl_history_count' - 1)
    BY <2>1, <2>2, HistoryMoveOwned DEF Inv, Reading
  <2>. QED
    BY <2>3, <2>4 DEF Inv, Reading
<1>2. CASE op \notin {"older", "newer", "oldest", "newest"}
  <2>1. UNCHANGED hist /\ pc' \in {"line", "crashed", "died"}
    BY <1>2, RedrawPc DEF Do
  <2>. QED
    BY <2>1, HistoryUntouched DEF Reading
<1>. QED
  BY <1>1, <1>2

\* One case for each action.
LEMMA StepInv == "nomem" \notin Faults /\ Inv /\ [Next]_vars => Inv'
<1> SUFFICES ASSUME "nomem" \notin Faults, Inv, [Next]_vars
             PROVE  Inv'
  OBVIOUS
<1>1. CASE Begin
  <2>1. pc = "idle" /\ gbl_historyi' = 0
    BY <1>1 DEF Begin
  <2>2. Owned(gbl_history, gbl_history_count, heap)
    BY <2>1 DEF Inv
  <2>3. gbl_history_count \in 0..HISTORY_MAX /\ ~(gbl_history_count < 0)
    BY <2>2, SizesPositive DEF Owned
  <2>4. pc' = "line" /\ addhistory
    BY <1>1, <2>3 DEF Begin
  <2>5. /\ Owned(gbl_history', gbl_history_count', heap')
        /\ 0 \in 0..(gbl_history_count' - 1)
    BY <2>2, <2>4, AddHistoryOwned
  <2>. QED
    BY <2>1, <2>4, <2>5 DEF Inv
<1>2. CASE BeginSimple \/ BeginDies
  BY <1>2 DEF BeginSimple, BeginDies, Inv, Reading
<1>3. CASE TypeChar
  <2>1. pc = "line" /\ UNCHANGED hist /\ pc' \in {"line", "crashed", "died"}
    BY <1>3, RedrawPc DEF TypeChar, Read
  <2>. QED
    BY <2>1, HistoryUntouched DEF Reading
<1>4. CASE ControlKey
  BY <1>4, DoInv DEF ControlKey, Read, Reading
<1>5. CASE EscapeKey
  BY <1>5, HistoryUntouched DEF EscapeKey, Read, Reading
<1>6. CASE AltKey
  <2>1. Reading /\ pc = "esc"
    BY <1>6 DEF AltKey, Read, Reading
  <2>2. CASE Do(Alt(c))
    BY <2>1, <2>2, DoInv
  <2>3. CASE pc' = "csi" /\ UNCHANGED hist
    BY <2>1, <2>3, HistoryUntouched
  <2>. QED
    BY <1>6, <2>2, <2>3 DEF AltKey
<1>7. CASE CsiKey
  <2>1. Reading /\ pc = "csi"
    BY <1>7 DEF CsiKey, Read, Reading
  <2>2. CASE Do(Csi(c))
    BY <2>1, <2>2, DoInv
  <2>3. CASE pc' = "ext" /\ UNCHANGED hist
    BY <2>1, <2>3, HistoryUntouched
  <2>. QED
    BY <1>7, <2>2, <2>3 DEF CsiKey
<1>8. CASE ExtendedKey
  BY <1>8, DoInv DEF ExtendedKey, Read, Reading
<1>9. CASE Suspend
  BY <1>9, HistoryUntouched DEF Suspend, Read, Reading
<1>10. CASE Enter
  <2>1. /\ pc = "line" /\ gbl_historyi' = gbl_historyi
        /\ \/ pc' = "crashed" /\ UNCHANGED <<gbl_history, gbl_history_count, heap>>
           \/ pc' = "idle" /\ replacehistory(line)
    BY <1>10 DEF Enter, Read
  <2>2. Owned(gbl_history, gbl_history_count, heap) /\ gbl_history_count > 0
    BY <2>1 DEF Inv, Reading, Owned
  <2>3. Owned(gbl_history', gbl_history_count', heap')
    BY <2>1, <2>2, ReplaceHistoryOwned
  <2>. QED
    BY <2>1, <2>3 DEF Inv, Reading
<1>11. CASE Interrupt \/ EndOfInput \/ Hangup
  <2>1. pc = "line" /\ UNCHANGED hist
    BY <1>11 DEF Interrupt, EndOfInput, Hangup, Abandoned, Read
  <2>2. pc' \in {SigintFate, "idle"}
    BY <1>11 DEF Interrupt, EndOfInput, Hangup, Abandoned
  <2>. QED
    BY <2>1, <2>2, HistoryUntouched, SigintKillsOrNot DEF Reading
<1>12. CASE HangupInEscape
  <2>1. Reading /\ UNCHANGED hist /\ pc # "exit" /\ pc' # "exit"
    BY <1>12 DEF HangupInEscape, Reading
  <2>. QED
    BY <2>1, HistoryUntouched
<1>13. CASE Continue
  <2>1. pc = "stopped" /\ UNCHANGED hist /\ pc' \in {"line", "crashed", "died"}
    BY <1>13, RedrawPc DEF Continue
  <2>. QED
    BY <2>1, HistoryUntouched DEF Reading
<1>14. CASE Deinit
  <2>1. /\ pc = "idle" /\ UNCHANGED <<gbl_history, gbl_history_count>>
        /\ \/ pc' = "crashed" /\ UNCHANGED heap
           \/ /\ pc' = "exit"
              /\ DOMAIN heap' = DOMAIN heap \ {gbl_history[i] : i \in 0..(gbl_history_count - 1)}
    BY <1>14 DEF Deinit
  <2>2. Owned(gbl_history, gbl_history_count, heap)
    BY <2>1 DEF Inv
  <2>. QED
    BY <2>1, <2>2 DEF Inv, Owned, Reading
<1>15. CASE \E key \in Keys : Press(key)
  <2>1. Reading /\ UNCHANGED hist /\ UNCHANGED pc /\ pc # "exit"
    BY <1>15 DEF Press, Reading
  <2>. QED
    BY <2>1, HistoryUntouched
<1>16. CASE UNCHANGED vars
  BY <1>16 DEF vars, hist, Inv, Owned, Reading
<1>. QED
  BY <1>1, <1>2, <1>3, <1>4, <1>5, <1>6, <1>7, <1>8, <1>9, <1>10, <1>11, <1>12,
     <1>13, <1>14, <1>15, <1>16 DEF Next, Loop

\* Where malloc does not fail, every history slot in use owns one string and
\* nothing else is allocated, whatever is typed: addhistory, replacehistory,
\* historymove and janet_line_deinit free each line once and lose none.
THEOREM HistorySlotsOwned ==
  ASSUME "nomem" \notin Faults
  PROVE  Spec => []SlotsOwned
<1>1. Inv => SlotsOwned
  BY DEF Inv, Owned, SlotsOwned, Reading
<1>. QED
  BY <1>1, InitInv, StepInv, PTL DEF Spec

-----------------------------------------------------------------------------
(* The array, pieces of it, and the walks along it. *)

\* C strings, without the NUL.
Strings == Seq(1..255)

\* A buffer whose string has n bytes.
IsString(chars, size) ==
  /\ chars \in [Places -> Bytes] /\ size \in Places
  /\ \A i \in 0..(size - 1) : chars[i] # NUL
  /\ chars[size] = NUL /\ chars[LINE_MAX - 1] = NUL

\* A buffer with its length and a cursor in it.
IsText(t) == /\ t \in [buf : [Places -> Bytes], len : Nat, pos : Nat]
             /\ IsString(t.buf, t.len) /\ t.pos =< t.len

\* What a piece of a buffer is.
LEMMA PieceIs ==
  ASSUME NEW b, NEW p \in Int, NEW q \in Int, p =< q
  PROVE  /\ DOMAIN Piece(b, p, q) = 1..(q - p)
         /\ \A i \in 1..(q - p) : Piece(b, p, q)[i] = b[p + i - 1]
BY DEF Piece

\* A piece whose bytes are all in S.
LEMMA PieceType ==
  ASSUME NEW b, NEW p \in Int, NEW q \in Int, p =< q, NEW S, \A i \in p..(q - 1) : b[i] \in S
  PROVE  Piece(b, p, q) \in Seq(S) /\ Len(Piece(b, p, q)) = q - p
<1>1. \A i \in 1..(q - p) : p + i - 1 \in p..(q - 1)
  OBVIOUS
<1>2. Piece(b, p, q) \in [1..(q - p) -> S] /\ q - p \in Nat
  BY <1>1 DEF Piece
<1>. QED
  BY <1>2

\* The string ends at the first NUL.
LEMMA CStringIs ==
  ASSUME NEW b, NEW n, IsString(b, n)
  PROVE  CString(b) = Piece(b, 0, n)
<1> DEFINE P(k) == b[k] = NUL /\ \A i \in 0..(k - 1) : b[i] # NUL
           m == CHOOSE k \in Places : P(k)
<1>1. n \in Places /\ P(n)
  BY DEF IsString
<1>2. m \in Places /\ P(m)
  BY <1>1
<1>3. m = n
  <2>1. m \in Nat /\ n \in Nat
    BY <1>1, <1>2, SizesPositive DEF Places
  <2>2. ~(m < n)
    BY <1>1, <1>2, <2>1
  <2>3. ~(n < m)
    BY <1>1, <1>2, <2>1
  <2>. QED
    BY <2>1, <2>2, <2>3
<1>. QED
  BY <1>3 DEF CString

\* The walk to the left.
LEMMA LeftIs ==
  ASSUME NEW b, NEW p \in Nat, NEW S
  PROVE  /\ Left(b, p, S) \in 0..p
         /\ \A i \in Left(b, p, S)..(p - 1) : b[i] \in S
<1> DEFINE Q == {k \in 0..p : \A i \in k..(p - 1) : b[i] \in S}
           P(k) == /\ \A i \in k..(p - 1) : b[i] \in S
                   /\ k = 0 \/ b[k - 1] \notin S
<1>1. Q \subseteq Nat /\ p \in Q
  OBVIOUS
<1>2. PICK k \in Q : \A j \in Q : k =< j
  <2>. HIDE DEF Q
  <2>. QED
    BY <1>1, LeastNat
<1>3. k \in 0..p /\ P(k)
  <2>1. CASE k # 0 /\ b[k - 1] \in S
    <3>1. k - 1 \in 0..p
      BY <2>1
    <3>2. \A i \in (k - 1)..(p - 1) : i = k - 1 \/ i \in k..(p - 1)
      OBVIOUS
    <3>3. k - 1 \in Q
      BY <2>1, <3>1, <3>2
    <3>. QED
      BY <1>2, <3>1, <3>3
  <2>. QED
    BY <2>1
<1>4. Left(b, p, S) \in 0..p /\ P(Left(b, p, S))
  BY <1>3 DEF Left
<1>. QED
  BY <1>4

\* The walk to the right.
LEMMA RightIs ==
  ASSUME NEW b, NEW p \in Nat, NEW q \in Nat, p =< q, NEW S
  PROVE  /\ Right(b, p, q, S) \in p..q
         /\ \A i \in p..(Right(b, p, q, S) - 1) : b[i] \in S
<1> DEFINE Q == {k \in p..q : k = q \/ b[k] \notin S}
           P(k) == /\ \A i \in p..(k - 1) : b[i] \in S
                   /\ k = q \/ b[k] \notin S
<1>1. Q \subseteq Nat /\ q \in Q
  OBVIOUS
<1>2. PICK k \in Q : \A j \in Q : k =< j
  <2>. HIDE DEF Q
  <2>. QED
    BY <1>1, LeastNat
<1>3. k \in p..q /\ P(k)
  <2>1. \A i \in p..(k - 1) : i \in p..q /\ i # q /\ ~(k =< i)
    OBVIOUS
  <2>2. \A i \in p..(k - 1) : b[i] \in S
    BY <1>2, <2>1
  <2>. QED
    BY <2>2
<1>4. Right(b, p, q, S) \in p..q /\ P(Right(b, p, q, S))
  BY <1>3 DEF Right
<1>. QED
  BY <1>4

-----------------------------------------------------------------------------
(* The two operations that change the array. *)

\* What a text consists of.
LEMMA TextFields ==
  ASSUME NEW t, IsText(t)
  PROVE  /\ t.buf \in [Places -> Bytes] /\ t.len \in Nat /\ t.pos \in Nat
         /\ t.pos =< t.len /\ t.len < LINE_MAX /\ LINE_MAX \in Nat \ {0}
         /\ t.len \in Places /\ t.buf[t.len] = NUL /\ t.buf[LINE_MAX - 1] = NUL
         /\ \A i \in 0..(t.len - 1) : t.buf[i] # NUL
         /\ t = [buf |-> t.buf, len |-> t.len, pos |-> t.pos]
BY SizesPositive DEF Places, IsText, IsString

\* How a text is put together.
LEMMA MadeText ==
  ASSUME NEW b, NEW n \in Nat, IsString(b, n), NEW p \in Nat, p =< n
  PROVE  IsText([buf |-> b, len |-> n, pos |-> p])
BY DEF IsText, IsString

\* The cursor elsewhere in the text.
LEMMA MovedText ==
  ASSUME NEW t, IsText(t), NEW p \in Nat, p =< t.len
  PROVE  /\ IsText([t EXCEPT !.pos = p])
         /\ [t EXCEPT !.pos = p] = [buf |-> t.buf, len |-> t.len, pos |-> p]
<1>1. [t EXCEPT !.pos = p] = [buf |-> t.buf, len |-> t.len, pos |-> p]
  BY DEF IsText
<1>2. IsString(t.buf, t.len) /\ t.len \in Nat
  BY DEF IsText
<1>. QED
  BY <1>1, <1>2, MadeText

\* The bytes of s that fit go to the cursor.
LEMMA InsertText ==
  ASSUME NEW t, IsText(t), NEW s \in Strings
  PROVE  \E n \in 0..Len(s) :
           /\ n = IF Len(s) < Room(t) THEN Len(s) ELSE Room(t)
           /\ IsText(insert(t, s))
           /\ insert(t, s).len = t.len + n /\ insert(t, s).pos = t.pos + n
           /\ \A i \in 0..(t.pos - 1) : insert(t, s).buf[i] = t.buf[i]
           /\ \A i \in 1..n : insert(t, s).buf[t.pos + i - 1] = s[i]
           /\ \A i \in t.pos..(t.len - 1) : insert(t, s).buf[i + n] = t.buf[i]
<1> DEFINE buf == t.buf
           len == t.len
           pos == t.pos
           n == IF Len(s) < Room(t) THEN Len(s) ELSE Room(t)
           b == [i \in Places |-> IF i \in pos..(pos + n - 1) THEN s[i - pos + 1]
                                  ELSE IF i \in (pos + n)..(len + n - 1) THEN buf[i - n]
                                  ELSE IF i = len + n THEN NUL ELSE buf[i]]
           new == [buf |-> b, len |-> len + n, pos |-> pos + n]
<1>1. /\ buf \in [Places -> Bytes] /\ len \in Nat /\ pos \in Nat
      /\ pos =< len /\ len < LINE_MAX /\ LINE_MAX \in Nat \ {0}
      /\ buf[len] = NUL /\ buf[LINE_MAX - 1] = NUL
      /\ \A i \in 0..(len - 1) : buf[i] # NUL
  BY TextFields
<1>0. Room(t) = LINE_MAX - 1 - len
  BY DEF Room
<1>2. Len(s) \in Nat /\ \A i \in 1..Len(s) : s[i] \in 1..255
  <2>. DEFINE B == 1..255
  <2>1. s \in Seq(B)
    BY DEF Strings
  <2>. HIDE DEF B
  <2>2. Len(s) \in Nat /\ \A i \in 1..Len(s) : s[i] \in B
    BY <2>1
  <2>. QED
    BY <2>2 DEF B
<1>3. n \in 0..Len(s) /\ n =< LINE_MAX - 1 - len
  BY <1>0, <1>1, <1>2
<1>4. CASE n = 0
  <2>1. insert(t, s) = t
    BY <1>4 DEF insert
  <2>. QED
    BY <1>1, <1>3, <1>4, <2>1
<1>5. CASE n # 0
  <2>1. insert(t, s) = new
    BY <1>5 DEF insert
  <2>. HIDE DEF n, buf, len, pos
  <2>2. \A i \in pos..(pos + n - 1) : i - pos + 1 \in 1..n /\ s[i - pos + 1] \in 1..255
    BY <1>1, <1>2, <1>3
  <2>3. \A i \in (pos + n)..(len + n - 1) : i - n \in 0..(len - 1) /\ i - n \in Places
    BY <1>1, <1>3 DEF Places
  <2>4. b \in [Places -> Bytes]
    <3>1. ASSUME NEW i \in Places PROVE b[i] \in Bytes
      <4>1. CASE i \in pos..(pos + n - 1)
        BY <4>1, <2>2 DEF Bytes
      <4>2. CASE i \notin pos..(pos + n - 1) /\ i \in (pos + n)..(len + n - 1)
        BY <4>2, <2>3, <1>1
      <4>3. CASE i \notin pos..(pos + n - 1) /\ i \notin (pos + n)..(len + n - 1)
        BY <4>3, <1>1 DEF Bytes, NUL
      <4>. QED
        BY <4>1, <4>2, <4>3
    <3>. QED
      BY <3>1
  <2>5. len + n \in Nat /\ len + n < LINE_MAX /\ pos + n \in Nat /\ pos + n =< len + n
    BY <1>1, <1>2, <1>3
  <2>6. \A i \in 0..(pos - 1) : b[i] = buf[i]
    BY <1>1, <1>3 DEF Places
  <2>7. \A i \in 1..n : b[pos + i - 1] = s[i]
    <3>1. ASSUME NEW i \in 1..n
          PROVE  /\ pos + i - 1 \in Places /\ pos + i - 1 \in pos..(pos + n - 1)
                 /\ (pos + i - 1) - pos + 1 = i
      BY <1>1, <1>3, <2>5 DEF Places
    <3>. QED
      BY <3>1
  <2>8. \A i \in pos..(len - 1) : b[i + n] = buf[i]
    <3>1. ASSUME NEW i \in pos..(len - 1)
          PROVE  /\ i + n \in Places /\ i + n \notin pos..(pos + n - 1)
                 /\ i + n \in (pos + n)..(len + n - 1) /\ (i + n) - n = i
      BY <1>1, <1>3, <2>5 DEF Places
    <3>. QED
      BY <3>1
  <2>9. b[len + n] = NUL
    BY <2>5, <1>1, <1>3 DEF Places
  <2>10. b[LINE_MAX - 1] = NUL
    BY <2>5, <1>1, <1>3 DEF Places
  <2>11. \A i \in 0..((len + n) - 1) : b[i] # NUL
    <3>1. ASSUME NEW i \in 0..((len + n) - 1) PROVE b[i] # NUL
      <4>1. CASE i < pos
        <5>1. i \in 0..(pos - 1) /\ i \in 0..(len - 1)
          BY <4>1, <1>1, <1>2, <1>3
        <5>. QED
          BY <5>1, <2>6, <1>1
      <4>2. CASE pos =< i /\ i < pos + n
        <5>1. i - pos + 1 \in 1..n /\ pos + (i - pos + 1) - 1 = i
          BY <4>2, <1>1, <1>3
        <5>2. s[i - pos + 1] \in 1..255
          <6>1. i - pos + 1 \in 1..Len(s)
            BY <1>2, <1>3, <5>1
          <6>. QED
            BY <1>2, <6>1
        <5>3. b[pos + (i - pos + 1) - 1] = s[i - pos + 1]
          BY <2>7, <5>1
        <5>. QED
          BY <5>1, <5>2, <5>3 DEF NUL
      <4>3. CASE pos + n =< i
        <5>1. i - n \in pos..(len - 1) /\ (i - n) + n = i /\ i - n \in 0..(len - 1)
          BY <4>3, <1>1, <1>3
        <5>. QED
          BY <5>1, <2>8, <1>1
      <4>. QED
        BY <4>1, <4>2, <4>3, <1>1, <1>3
    <3>. QED
      BY <3>1
  <2>. HIDE DEF b
  <2>12. IsText(new)
    <3>1. len + n \in Places
      BY <1>1, <2>5 DEF Places
    <3>2. IsString(b, len + n)
      BY <3>1, <2>4, <2>9, <2>10, <2>11 DEF IsString
    <3>. QED
      BY <3>2, <2>5, MadeText
  <2>13. new.buf = b /\ new.len = len + n /\ new.pos = pos + n
    OBVIOUS
  <2>. HIDE DEF new
  <2>. QED
    BY <1>3, <2>1, <2>6, <2>7, <2>8, <2>12, <2>13 DEF n, buf, len, pos
<1>. QED
  BY <1>4, <1>5

\* n bytes from p on are taken out.
LEMMA RemoveText ==
  ASSUME NEW t, IsText(t), NEW p \in Nat, NEW n \in Nat, p + n =< t.len
  PROVE  /\ IsText(remove(t, p, n))
         /\ remove(t, p, n).len = t.len - n /\ remove(t, p, n).pos = p
         /\ \A i \in 0..(p - 1) : remove(t, p, n).buf[i] = t.buf[i]
         /\ \A i \in p..(t.len - n - 1) : remove(t, p, n).buf[i] = t.buf[i + n]
<1> DEFINE buf == t.buf
           len == t.len
           pos == t.pos
           b == [i \in Places |-> IF i \in p..(len - n - 1) THEN buf[i + n]
                                  ELSE IF i \in (len - n)..(len - 1) THEN NUL
                                  ELSE buf[i]]
           new == [buf |-> b, len |-> len - n, pos |-> p]
<1>1. /\ buf \in [Places -> Bytes] /\ len \in Nat /\ pos \in Nat
      /\ pos =< len /\ len < LINE_MAX /\ LINE_MAX \in Nat \ {0}
      /\ buf[len] = NUL /\ buf[LINE_MAX - 1] = NUL
      /\ \A i \in 0..(len - 1) : buf[i] # NUL
  BY TextFields
<1>0. p + n =< len /\ remove(t, p, n) = new
  BY DEF remove
<1>. HIDE DEF buf, len, pos
<1>2. \A i \in p..(len - n - 1) : i + n \in 0..(len - 1) /\ i + n \in Places /\ i \in Places
  BY <1>0, <1>1 DEF Places
<1>3. b \in [Places -> Bytes]
  BY <1>1, <1>2 DEF Bytes, NUL
<1>4. len - n \in Nat /\ len - n < LINE_MAX /\ p =< len - n
  BY <1>0, <1>1
<1>5. \A i \in 0..(p - 1) : b[i] = buf[i]
  BY <1>0, <1>1, <1>4 DEF Places
<1>6. \A i \in p..(len - n - 1) : b[i] = buf[i + n]
  BY <1>2
<1>7. b[len - n] = NUL
  BY <1>0, <1>1, <1>4 DEF Places
<1>8. b[LINE_MAX - 1] = NUL
  BY <1>0, <1>1, <1>4 DEF Places
<1>9. \A i \in 0..(len - n - 1) : b[i] # NUL
  <2>1. \A i \in 0..(len - n - 1) : i \in 0..(p - 1) \/ i \in p..(len - n - 1)
    BY <1>4
  <2>2. \A i \in 0..(p - 1) : i \in 0..(len - 1)
    BY <1>0, <1>4, <1>1
  <2>. HIDE DEF b
  <2>. QED
    BY <2>1, <2>2, <1>1, <1>2, <1>5, <1>6
<1>. HIDE DEF b
<1>11. IsText(new)
  <2>1. len - n \in Places
    BY <1>1, <1>4 DEF Places
  <2>2. IsString(b, len - n)
    BY <2>1, <1>3, <1>7, <1>8, <1>9 DEF IsString
  <2>. QED
    BY <2>2, <1>4, MadeText
<1>12. new.buf = b /\ new.len = len - n /\ new.pos = p
  OBVIOUS
<1>. HIDE DEF new
<1>. QED
  BY <1>5, <1>6, <1>0, <1>11, <1>12 DEF buf, len, pos

-----------------------------------------------------------------------------
(* Pieces: the text on the two sides of the cursor. *)

\* The text left of the cursor, and right of it.
Before(t) == Piece(t.buf, 0, t.pos)
After(t) == Piece(t.buf, t.pos, t.len)

\* n bytes of a from u on are those of b from p on.
Agree(a, u, b, p, n) == \A i \in 1..n : a[u + i - 1] = b[p + i - 1]

\* Pieces with the same bytes are equal.
LEMMA SamePiece ==
  ASSUME NEW a, NEW b, NEW p \in Int, NEW q \in Int, NEW u \in Int, NEW v \in Int,
         NEW n \in Int, n = q - p, n = v - u, Agree(a, u, b, p, n)
  PROVE  Piece(a, u, v) = Piece(b, p, q)
<1>1. q - p = n /\ v - u = n
  OBVIOUS
<1>. QED
  BY <1>1 DEF Piece, Agree

\* A piece of the array is a sequence of bytes.
LEMMA PieceSeq ==
  ASSUME NEW b, b \in [Places -> Bytes], NEW p \in Nat, NEW q \in Nat, p =< q, q =< LINE_MAX
  PROVE  /\ Piece(b, p, q) \in Seq(Bytes) /\ Len(Piece(b, p, q)) = q - p
         /\ \A i \in 1..(q - p) : Piece(b, p, q)[i] = b[p + i - 1]
<1>1. \A i \in p..(q - 1) : b[i] \in Bytes
  BY SizesPositive DEF Places
<1>2. p \in Int /\ q \in Int
  OBVIOUS
<1>3. Piece(b, p, q) \in Seq(Bytes) /\ Len(Piece(b, p, q)) = q - p
  BY <1>1, <1>2, PieceType
<1>4. \A i \in 1..(q - p) : Piece(b, p, q)[i] = b[p + i - 1]
  BY <1>2, PieceIs
<1>. QED
  BY <1>3, <1>4

\* Sequences are equal when their elements are.
LEMMA SeqEqual ==
  ASSUME NEW S, NEW s \in Seq(S), NEW u \in Seq(S), Len(s) = Len(u),
         \A i \in 1..Len(s) : s[i] = u[i]
  PROVE  s = u
OBVIOUS

\* What a concatenation is.
LEMMA ConcatIs ==
  ASSUME NEW S, NEW s \in Seq(S), NEW u \in Seq(S)
  PROVE  /\ s \o u \in Seq(S) /\ Len(s \o u) = Len(s) + Len(u)
         /\ \A i \in 1..Len(s) : (s \o u)[i] = s[i]
         /\ \A i \in (Len(s) + 1)..(Len(s) + Len(u)) : (s \o u)[i] = u[i - Len(s)]
OBVIOUS

\* Neighbouring pieces make one.
LEMMA PieceJoin ==
  ASSUME NEW b, b \in [Places -> Bytes], NEW p \in Nat, NEW q \in Nat, NEW r \in Nat,
         p =< q, q =< r, r =< LINE_MAX
  PROVE  Piece(b, p, q) \o Piece(b, q, r) = Piece(b, p, r)
<1> DEFINE s == Piece(b, p, q)
           u == Piece(b, q, r)
           w == Piece(b, p, r)
<1>1. LINE_MAX \in Nat /\ p =< r /\ q =< LINE_MAX
  BY SizesPositive
<1>2. /\ s \in Seq(Bytes) /\ Len(s) = q - p
      /\ \A i \in 1..(q - p) : s[i] = b[p + i - 1]
  BY <1>1, PieceSeq
<1>3. /\ u \in Seq(Bytes) /\ Len(u) = r - q
      /\ \A i \in 1..(r - q) : u[i] = b[q + i - 1]
  BY <1>1, PieceSeq
<1>4. /\ w \in Seq(Bytes) /\ Len(w) = r - p
      /\ \A i \in 1..(r - p) : w[i] = b[p + i - 1]
  BY <1>1, PieceSeq
<1>. HIDE DEF s, u, w
<1>5. s \o u \in Seq(Bytes) /\ Len(s \o u) = r - p
  <2>1. s \o u \in Seq(Bytes) /\ Len(s \o u) = Len(s) + Len(u)
    BY <1>2, <1>3, ConcatIs
  <2>. QED
    BY <2>1, <1>2, <1>3
<1>6. \A i \in 1..(r - p) : (s \o u)[i] = w[i]
  <2>1. ASSUME NEW i \in 1..(r - p) PROVE (s \o u)[i] = w[i]
    <3>1. CASE i =< q - p
      <4>1. i \in 1..(q - p) /\ (s \o u)[i] = s[i]
        <5>1. i \in 1..(q - p)
          BY <3>1
        <5>. QED
          BY <5>1, <1>2, <1>3, ConcatIs
      <4>. QED
        BY <4>1, <1>2, <1>4
    <3>2. CASE q - p < i
      <4>1. i - (q - p) \in 1..(r - q) /\ (s \o u)[i] = u[i - (q - p)]
        <5>1. i \in (Len(s) + 1)..(Len(s) + Len(u)) /\ i - (q - p) \in 1..(r - q)
          BY <3>2, <1>2, <1>3
        <5>2. (s \o u)[i] = u[i - Len(s)]
          BY <5>1, <1>2, <1>3, ConcatIs
        <5>. QED
          BY <5>1, <5>2, <1>2
      <4>2. q + (i - (q - p)) - 1 = p + i - 1
        OBVIOUS
      <4>. QED
        BY <4>1, <4>2, <1>3, <1>4
    <3>3. i =< q - p \/ q - p < i
      OBVIOUS
    <3>. QED
      BY <3>1, <3>2, <3>3
  <2>. QED
    BY <2>1
<1>7. s \o u = w
  BY <1>4, <1>5, <1>6, SeqEqual
<1>. QED
  BY <1>7 DEF s, u, w

\* A piece that starts at the same place and is shorter.
LEMMA PrefixPiece ==
  ASSUME NEW b, b \in [Places -> Bytes], NEW p \in Nat, NEW q \in Nat, NEW r \in Nat,
         p =< q, q =< r, r =< LINE_MAX
  PROVE  /\ SubSeq(Piece(b, p, r), 1, q - p) = Piece(b, p, q)
         /\ IsPrefix(Piece(b, p, q), Piece(b, p, r))
<1> DEFINE s == Piece(b, p, q)
           w == Piece(b, p, r)
<1>1. LINE_MAX \in Nat /\ p =< r /\ q =< LINE_MAX
  BY SizesPositive
<1>2. /\ s \in Seq(Bytes) /\ Len(s) = q - p
      /\ \A i \in 1..(q - p) : s[i] = b[p + i - 1]
  BY <1>1, PieceSeq
<1>4. /\ w \in Seq(Bytes) /\ Len(w) = r - p
      /\ \A i \in 1..(r - p) : w[i] = b[p + i - 1]
  BY <1>1, PieceSeq
<1>. HIDE DEF s, w
<1>5. \A i \in 1..(q - p) : s[i] = w[i]
  BY <1>2, <1>4
<1>6. SubSeq(w, 1, q - p) = s
  <2>1. /\ SubSeq(w, 1, q - p) \in Seq(Bytes) /\ Len(SubSeq(w, 1, q - p)) = q - p
        /\ \A i \in 1..(q - p) : SubSeq(w, 1, q - p)[i] = w[i]
    BY <1>1, <1>4
  <2>. QED
    BY <2>1, <1>2, <1>5, SeqEqual
<1>7. SubSeq(s, 1, q - p) = s
  BY <1>2
<1>. QED
  BY <1>2, <1>4, <1>6, <1>7 DEF s, w, IsPrefix

\* A piece that ends at the same place and is shorter.
LEMMA SuffixPiece ==
  ASSUME NEW b, b \in [Places -> Bytes], NEW p \in Nat, NEW q \in Nat, NEW r \in Nat,
         p =< q, q =< r, r =< LINE_MAX
  PROVE  IsSuffix(Piece(b, q, r), Piece(b, p, r))
<1> DEFINE s == Piece(b, q, r)
           w == Piece(b, p, r)
<1>1. LINE_MAX \in Nat /\ p =< r /\ q =< LINE_MAX
  BY SizesPositive
<1>2. /\ s \in Seq(Bytes) /\ Len(s) = r - q
      /\ \A i \in 1..(r - q) : s[i] = b[q + i - 1]
  BY <1>1, PieceSeq
<1>4. /\ w \in Seq(Bytes) /\ Len(w) = r - p
      /\ \A i \in 1..(r - p) : w[i] = b[p + i - 1]
  BY <1>1, PieceSeq
<1>. HIDE DEF s, w
<1>5. /\ Reverse(s) \in Seq(Bytes) /\ Len(Reverse(s)) = r - q
      /\ \A i \in 1..(r - q) : Reverse(s)[i] = s[(r - q) - i + 1]
  BY <1>2 DEF Reverse
<1>6. /\ Reverse(w) \in Seq(Bytes) /\ Len(Reverse(w)) = r - p
      /\ \A i \in 1..(r - p) : Reverse(w)[i] = w[(r - p) - i + 1]
  BY <1>4 DEF Reverse
<1>7. \A i \in 1..(r - q) : Reverse(s)[i] = Reverse(w)[i]
  <2>1. ASSUME NEW i \in 1..(r - q) PROVE Reverse(s)[i] = Reverse(w)[i]
    <3>1. /\ (r - q) - i + 1 \in 1..(r - q) /\ (r - p) - i + 1 \in 1..(r - p)
          /\ q + ((r - q) - i + 1) - 1 = p + ((r - p) - i + 1) - 1 /\ i \in 1..(r - p)
      OBVIOUS
    <3>. QED
      BY <3>1, <1>2, <1>4, <1>5, <1>6
  <2>. QED
    BY <2>1
<1>8. SubSeq(Reverse(s), 1, r - q) = SubSeq(Reverse(w), 1, r - q)
  BY <1>5, <1>6, <1>7
<1>. QED
  BY <1>5, <1>6, <1>8 DEF s, w, IsPrefix, IsSuffix

-----------------------------------------------------------------------------
(* What an operation does to those two sides. *)

\* What a key does to the text on the two sides of the cursor.
Moves(t, u) == Before(u) \o After(u) = Before(t) \o After(t)
Erases(t, u) == \/ IsPrefix(Before(u), Before(t)) /\ After(u) = After(t)
                \/ IsSuffix(After(u), After(t)) /\ Before(u) = Before(t)
Inserts(t, u) ==
  /\ IsSuffix(After(u), After(t))
  /\ IsPrefix(Before(t) \o SubSeq(After(t), 1, Len(After(t)) - Len(After(u))), Before(u))

\* The two sides are the string.
LEMMA WholeText ==
  ASSUME NEW t, IsText(t)
  PROVE  Before(t) \o After(t) = Piece(t.buf, 0, t.len)
<1>1. /\ t.buf \in [Places -> Bytes] /\ t.pos \in Nat /\ t.len \in Nat /\ 0 \in Nat
      /\ 0 =< t.pos /\ t.pos =< t.len /\ t.len =< LINE_MAX
  BY TextFields
<1>. QED
  BY <1>1, PieceJoin DEF Before, After

\* Moving the cursor leaves the text.
LEMMA MoveEffect ==
  ASSUME NEW t, IsText(t), NEW p \in Nat, p =< t.len
  PROVE  IsText([t EXCEPT !.pos = p]) /\ Moves(t, [t EXCEPT !.pos = p])
<1> DEFINE u == [t EXCEPT !.pos = p]
<1>1. IsText(u) /\ u = [buf |-> t.buf, len |-> t.len, pos |-> p]
  BY MovedText
<1>2. u.buf = t.buf /\ u.len = t.len
  BY <1>1
<1>. HIDE DEF u
<1>3. Moves(t, u)
  BY <1>1, <1>2, WholeText DEF Moves
<1>. QED
  BY <1>1, <1>3 DEF u

\* Taking out the bytes on one side of the cursor.
LEMMA RemoveEffect ==
  ASSUME NEW t, IsText(t), NEW p \in Nat, NEW n \in Nat, p + n =< t.len,
         p = t.pos \/ p + n = t.pos
  PROVE  IsText(remove(t, p, n)) /\ Erases(t, remove(t, p, n))
<1> DEFINE u == remove(t, p, n)
<1>1. /\ IsText(u) /\ u.len = t.len - n /\ u.pos = p
      /\ \A i \in 0..(p - 1) : u.buf[i] = t.buf[i]
      /\ \A i \in p..(t.len - n - 1) : u.buf[i] = t.buf[i + n]
  BY RemoveText
<1>. HIDE DEF u
<1>2. /\ t.buf \in [Places -> Bytes] /\ t.pos \in Nat /\ t.len \in Nat /\ LINE_MAX \in Nat
      /\ t.pos =< t.len /\ t.len =< LINE_MAX
  BY TextFields
<1>3. Before(u) = Piece(t.buf, 0, p)
  <2>1. \A i \in 1..p : 0 + i - 1 \in 0..(p - 1)
    OBVIOUS
  <2>3. Agree(u.buf, 0, t.buf, 0, p) /\ p - 0 = p /\ 0 \in Int
    BY <2>1, <1>1 DEF Agree
  <2>2. Piece(u.buf, 0, p) = Piece(t.buf, 0, p)
    BY <2>3, SamePiece
  <2>. QED
    BY <2>2, <1>1 DEF Before
<1>4. After(u) = Piece(t.buf, p + n, t.len)
  <2>1. \A i \in 1..(t.len - (p + n)) : /\ p + i - 1 \in p..(t.len - n - 1)
                                        /\ (p + i - 1) + n = (p + n) + i - 1
    BY <1>2
  <2>2. Agree(u.buf, p, t.buf, p + n, t.len - (p + n))
    BY <2>1, <1>1 DEF Agree
  <2>3. /\ t.len - (p + n) = (t.len - n) - p /\ p + n \in Int /\ t.len \in Int /\ t.len - n \in Int
        /\ t.len - (p + n) \in Int
    BY <1>2
  <2>4. Piece(u.buf, p, t.len - n) = Piece(t.buf, p + n, t.len)
    BY <2>2, <2>3, SamePiece
  <2>. QED
    BY <2>4, <1>1 DEF After
<1>5. CASE p + n = t.pos
  <2>1. p =< t.pos /\ t.pos =< LINE_MAX /\ 0 =< p /\ 0 \in Nat
    BY <1>2, <1>5
  <2>2. IsPrefix(Piece(t.buf, 0, p), Piece(t.buf, 0, t.pos))
    BY <2>1, <1>2, PrefixPiece
  <2>. QED
    BY <1>1, <1>3, <1>4, <1>5, <2>2 DEF Erases, Before, After, u
<1>6. CASE p = t.pos
  <2>1. p =< p + n /\ p + n \in Nat /\ p + n =< t.len
    OBVIOUS
  <2>2. IsSuffix(Piece(t.buf, p + n, t.len), Piece(t.buf, p, t.len))
    BY <2>1, <1>2, SuffixPiece
  <2>. QED
    BY <1>1, <1>3, <1>4, <1>6, <2>2 DEF Erases, Before, After, u
<1>. QED
  BY <1>5, <1>6

\* From a cursor at q, which is t's or to the right of it.
LEMMA InsertEffect ==
  ASSUME NEW t, IsText(t), NEW q \in t.pos..t.len, NEW s \in Strings
  PROVE  /\ IsText(insert([t EXCEPT !.pos = q], s))
         /\ Inserts(t, insert([t EXCEPT !.pos = q], s))
<1> DEFINE m == [t EXCEPT !.pos = q]
           u == insert(m, s)
<1>1. /\ t.buf \in [Places -> Bytes] /\ t.pos \in Nat /\ t.len \in Nat /\ LINE_MAX \in Nat
      /\ t.pos =< t.len /\ t.len =< LINE_MAX /\ q \in Nat /\ t.pos =< q /\ q =< t.len
  BY TextFields
<1>2. IsText(m) /\ m.buf = t.buf /\ m.len = t.len /\ m.pos = q
  <2>1. IsText(m) /\ m = [buf |-> t.buf, len |-> t.len, pos |-> q]
    BY <1>1, MovedText
  <2>. QED
    BY <2>1
<1>. HIDE DEF m
<1>3. PICK n \in 0..Len(s) :
           /\ IsText(u) /\ u.len = t.len + n /\ u.pos = q + n
           /\ \A i \in 0..(q - 1) : u.buf[i] = t.buf[i]
           /\ \A i \in 1..n : u.buf[q + i - 1] = s[i]
           /\ \A i \in q..(t.len - 1) : u.buf[i + n] = t.buf[i]
  <2>1. PICK n \in 0..Len(s) :
           /\ IsText(u) /\ u.len = m.len + n /\ u.pos = m.pos + n
           /\ \A i \in 0..(m.pos - 1) : u.buf[i] = m.buf[i]
           /\ \A i \in 1..n : u.buf[m.pos + i - 1] = s[i]
           /\ \A i \in m.pos..(m.len - 1) : u.buf[i + n] = m.buf[i]
    BY <1>2, InsertText
  <2>. HIDE DEF u
  <2>. QED
    BY <2>1, <1>2
<1>. HIDE DEF u
<1>4. Len(s) \in Nat /\ n \in Nat
  BY DEF Strings
<1>5. After(u) = Piece(t.buf, q, t.len)
  <2>1. \A i \in 1..(t.len - q) : q + i - 1 \in q..(t.len - 1) /\ (q + i - 1) + n = (q + n) + i - 1
    BY <1>1, <1>4
  <2>2. Agree(u.buf, q + n, t.buf, q, t.len - q)
    BY <2>1, <1>3 DEF Agree
  <2>3. /\ t.len - q = (t.len + n) - (q + n) /\ q + n \in Int /\ t.len + n \in Int
        /\ t.len - q \in Int /\ q \in Int /\ t.len \in Int
    BY <1>1, <1>4
  <2>4. Piece(u.buf, q + n, t.len + n) = Piece(t.buf, q, t.len)
    BY <2>2, <2>3, SamePiece
  <2>. QED
    BY <2>4, <1>3 DEF After
<1>6. IsSuffix(After(u), After(t))
  BY <1>1, <1>5, SuffixPiece DEF After
<1>7. Before(t) \o SubSeq(After(t), 1, Len(After(t)) - Len(After(u))) = Piece(u.buf, 0, q)
  <2>1. Len(After(t)) = t.len - t.pos /\ Len(After(u)) = t.len - q
    <3>1. Len(Piece(t.buf, t.pos, t.len)) = t.len - t.pos
      BY <1>1, PieceSeq
    <3>2. Len(Piece(t.buf, q, t.len)) = t.len - q
      BY <1>1, PieceSeq
    <3>. QED
      BY <1>5, <3>1, <3>2 DEF After
  <2>2. Len(After(t)) - Len(After(u)) = q - t.pos
    BY <2>1, <1>1
  <2>3. SubSeq(After(t), 1, q - t.pos) = Piece(t.buf, t.pos, q)
    BY <1>1, PrefixPiece DEF After
  <2>4. Before(t) \o Piece(t.buf, t.pos, q) = Piece(t.buf, 0, q)
    <3>1. 0 \in Nat /\ 0 =< t.pos /\ q =< LINE_MAX
      BY <1>1
    <3>. QED
      BY <3>1, <1>1, PieceJoin DEF Before
  <2>5. Piece(u.buf, 0, q) = Piece(t.buf, 0, q)
    <3>1. \A i \in 1..q : 0 + i - 1 \in 0..(q - 1)
      BY <1>1
    <3>2. Agree(u.buf, 0, t.buf, 0, q) /\ q - 0 = q /\ 0 \in Int /\ q \in Int
      BY <3>1, <1>1, <1>3 DEF Agree
    <3>. QED
      BY <3>2, SamePiece
  <2>. QED
    BY <2>2, <2>3, <2>4, <2>5
<1>8. IsPrefix(Piece(u.buf, 0, q), Before(u))
  <2>1. /\ u.buf \in [Places -> Bytes] /\ q + n =< LINE_MAX /\ q =< q + n /\ 0 \in Nat /\ 0 =< q
        /\ q + n \in Nat
    BY <1>1, <1>3, <1>4, TextFields
  <2>2. IsPrefix(Piece(u.buf, 0, q), Piece(u.buf, 0, q + n))
    BY <2>1, <1>1, PrefixPiece
  <2>. QED
    BY <2>2, <1>3 DEF Before
<1>. QED
  BY <1>3, <1>6, <1>7, <1>8 DEF Inserts, u, m

-----------------------------------------------------------------------------
(* The keys that edit. *)

\* The commands that only edit.
Edits == {"home", "end", "left", "right", "leftw", "rightw", "backspace", "delete",
          "backspacew", "deletew", "kill", "killstart", "clear", "none"}

\* Ctrl-K cuts the text at the cursor.
LEMMA KillEffect ==
  ASSUME NEW t, IsText(t)
  PROVE  IsText(TextAfter("kill", t)) /\ Erases(t, TextAfter("kill", t))
<1> DEFINE u == TextAfter("kill", t)
           b == [t.buf EXCEPT ![t.pos] = NUL]
<1>1. /\ t.buf \in [Places -> Bytes] /\ t.pos \in Nat /\ t.len \in Nat /\ LINE_MAX \in Nat \ {0}
      /\ t.pos =< t.len /\ t.len < LINE_MAX /\ t.buf[LINE_MAX - 1] = NUL
      /\ t = [buf |-> t.buf, len |-> t.len, pos |-> t.pos]
      /\ \A i \in 0..(t.len - 1) : t.buf[i] # NUL
  BY TextFields
<1>2. u = [buf |-> b, len |-> t.pos, pos |-> t.pos]
  BY <1>1 DEF TextAfter
<1>3. b \in [Places -> Bytes] /\ b[t.pos] = NUL /\ b[LINE_MAX - 1] = NUL /\ t.pos \in Places
  BY <1>1 DEF Bytes, NUL, Places
<1>4. \A i \in 0..(t.pos - 1) : b[i] = t.buf[i] /\ b[i] # NUL
  BY <1>1 DEF Places
<1>. HIDE DEF b, u
<1>5. IsText(u)
  <2>1. IsString(b, t.pos)
    BY <1>3, <1>4 DEF IsString
  <2>. QED
    BY <2>1, <1>1, <1>2, MadeText
<1>6. Before(u) = Before(t)
  <2>1. \A i \in 1..t.pos : 0 + i - 1 \in 0..(t.pos - 1)
    BY <1>1
  <2>2. Agree(b, 0, t.buf, 0, t.pos) /\ t.pos - 0 = t.pos /\ 0 \in Int /\ t.pos \in Int
    BY <2>1, <1>1, <1>4 DEF Agree
  <2>3. Piece(b, 0, t.pos) = Piece(t.buf, 0, t.pos)
    BY <2>2, SamePiece
  <2>. QED
    BY <2>3, <1>2 DEF Before
<1>7. IsSuffix(After(u), After(t))
  <2>1. After(u) = Piece(b, t.pos, t.pos)
    BY <1>2 DEF After
  <2>2. Piece(b, t.pos, t.pos) = Piece(t.buf, t.len, t.len)
    <3>1. Agree(b, t.pos, t.buf, t.len, 0) /\ t.len - t.len = 0 /\ t.pos - t.pos = 0
          /\ t.pos \in Int /\ t.len \in Int
      BY <1>1 DEF Agree
    <3>. QED
      BY <3>1, SamePiece
  <2>3. IsSuffix(Piece(t.buf, t.len, t.len), Piece(t.buf, t.pos, t.len))
    <3>1. t.len =< LINE_MAX /\ t.len =< t.len
      BY <1>1
    <3>. QED
      BY <3>1, <1>1, SuffixPiece
  <2>. QED
    BY <2>1, <2>2, <2>3 DEF After
<1>. QED
  BY <1>5, <1>6, <1>7 DEF Erases, u

\* Ctrl-U moves the rest to the start.
LEMMA KillStartEffect ==
  ASSUME NEW t, IsText(t)
  PROVE  IsText(TextAfter("killstart", t)) /\ Erases(t, TextAfter("killstart", t))
<1> DEFINE u == TextAfter("killstart", t)
           n == t.len - t.pos
           b == [i \in Places |-> IF i < n THEN t.buf[i + t.pos]
                                  ELSE IF i = n THEN NUL ELSE t.buf[i]]
<1>1. /\ t.buf \in [Places -> Bytes] /\ t.pos \in Nat /\ t.len \in Nat /\ LINE_MAX \in Nat \ {0}
      /\ t.pos =< t.len /\ t.len < LINE_MAX /\ t.buf[LINE_MAX - 1] = NUL
      /\ \A i \in 0..(t.len - 1) : t.buf[i] # NUL
  BY TextFields
<1>2. u = [buf |-> b, len |-> n, pos |-> 0]
  BY DEF TextAfter
<1>0. n \in Nat /\ n < LINE_MAX /\ n \in Places /\ n + t.pos = t.len
  BY <1>1 DEF Places
<1>. HIDE DEF n
<1>3. \A i \in 0..(n - 1) : i \in Places /\ i < n /\ i + t.pos \in Places /\ i + t.pos \in 0..(t.len - 1)
  BY <1>0, <1>1 DEF Places
<1>4. \A i \in 0..(n - 1) : b[i] = t.buf[i + t.pos] /\ b[i] # NUL
  BY <1>1, <1>3
<1>5. b[n] = NUL /\ b[LINE_MAX - 1] = NUL
  BY <1>0, <1>1 DEF Places
<1>6. b \in [Places -> Bytes]
  <2>1. ASSUME NEW i \in Places PROVE b[i] \in Bytes
    <3>1. CASE i < n
      <4>1. i \in 0..(n - 1)
        BY <3>1, <1>0 DEF Places
      <4>. QED
        BY <4>1, <1>3, <1>4, <1>1
    <3>2. CASE ~(i < n)
      BY <3>2, <1>1 DEF Bytes, NUL
    <3>. QED
      BY <3>1, <3>2
  <2>. QED
    BY <2>1
<1>. HIDE DEF b, u
<1>7. IsText(u)
  <2>1. IsString(b, n)
    BY <1>0, <1>4, <1>5, <1>6 DEF IsString
  <2>. QED
    BY <2>1, <1>0, <1>2, MadeText
<1>8. After(u) = After(t)
  <2>1. \A i \in 1..n : 0 + i - 1 \in 0..(n - 1) /\ (0 + i - 1) + t.pos = t.pos + i - 1
    BY <1>0, <1>1
  <2>2. /\ Agree(b, 0, t.buf, t.pos, n) /\ t.len - t.pos = n /\ n - 0 = n
        /\ 0 \in Int /\ t.pos \in Int /\ t.len \in Int /\ n \in Int
    BY <2>1, <1>0, <1>1, <1>4 DEF Agree
  <2>3. Piece(b, 0, n) = Piece(t.buf, t.pos, t.len)
    BY <2>2, SamePiece
  <2>. QED
    BY <2>3, <1>2 DEF After
<1>9. IsPrefix(Before(u), Before(t))
  <2>1. Before(u) = Piece(b, 0, 0)
    BY <1>2 DEF Before
  <2>2. Piece(b, 0, 0) = Piece(t.buf, 0, 0)
    <3>1. Agree(b, 0, t.buf, 0, 0) /\ 0 - 0 = 0
      BY DEF Agree
    <3>. QED
      BY <3>1, SamePiece
  <2>3. IsPrefix(Piece(t.buf, 0, 0), Piece(t.buf, 0, t.pos))
    <3>1. 0 \in Nat /\ 0 =< 0 /\ 0 =< t.pos /\ t.pos =< LINE_MAX
      BY <1>1
    <3>. QED
      BY <3>1, <1>1, PrefixPiece
  <2>. QED
    BY <2>1, <2>2, <2>3 DEF Before
<1>. QED
  BY <1>7, <1>8, <1>9 DEF Erases, u

\* The walks by words end inside of the text, on their side of the cursor.
LEMMA WordWalks ==
  ASSUME NEW t, IsText(t)
  PROVE  /\ kleftw(t) \in 0..t.pos
         /\ krightw(t) \in t.pos..t.len
         /\ kdeletew(t) \in t.pos..t.len
<1>1. t.pos \in Nat /\ t.len \in Nat /\ t.pos =< t.len
  BY TextFields
<1>2. kleftw(t) \in 0..t.pos
  <2> DEFINE k == Left(t.buf, t.pos, Spaces)
  <2>1. k \in 0..t.pos
    BY <1>1, LeftIs
  <2>2. k \in Nat
    BY <2>1, <1>1
  <2>. HIDE DEF k
  <2>3. Left(t.buf, k, Words) \in 0..k
    BY <2>2, LeftIs
  <2>4. Left(t.buf, k, Words) \in 0..t.pos
    BY <2>1, <2>3, <1>1
  <2>. QED
    BY <2>4 DEF kleftw, k
<1>3. \A S, T : Right(t.buf, Right(t.buf, t.pos, t.len, S), t.len, T) \in t.pos..t.len
  <2>. TAKE S, T
  <2> DEFINE k == Right(t.buf, t.pos, t.len, S)
  <2>1. k \in t.pos..t.len
    BY <1>1, RightIs
  <2>2. k \in Nat /\ k =< t.len
    BY <2>1, <1>1
  <2>. HIDE DEF k
  <2>3. Right(t.buf, k, t.len, T) \in k..t.len
    BY <2>2, <1>1, RightIs
  <2>4. Right(t.buf, k, t.len, T) \in t.pos..t.len
    BY <2>1, <2>3, <1>1
  <2>. QED
    BY <2>4 DEF k
<1>. QED
  BY <1>2, <1>3 DEF krightw, kdeletew

\* Nothing happens to the text.
LEMMA SameMoves == ASSUME NEW t PROVE Moves(t, t)
BY DEF Moves

\* Every key that only edits moves the cursor or takes bytes out beside it.
LEMMA EditEffect ==
  ASSUME NEW t, IsText(t), NEW op \in Edits
  PROVE  /\ IsText(TextAfter(op, t))
         /\ Moves(t, TextAfter(op, t)) \/ Erases(t, TextAfter(op, t))
<1>1. t.pos \in Nat /\ t.len \in Nat /\ t.pos =< t.len
  BY TextFields
<1>2. ASSUME NEW p \in Nat, p =< t.len, TextAfter(op, t) = [t EXCEPT !.pos = p]
      PROVE  IsText(TextAfter(op, t)) /\ Moves(t, TextAfter(op, t))
  <2>1. IsText([t EXCEPT !.pos = p]) /\ Moves(t, [t EXCEPT !.pos = p])
    BY <1>2, MoveEffect
  <2>. QED
    BY <1>2, <2>1
<1>3. ASSUME NEW p \in Nat, NEW n \in Nat, p + n =< t.len, p = t.pos \/ p + n = t.pos,
             TextAfter(op, t) = remove(t, p, n)
      PROVE  IsText(TextAfter(op, t)) /\ Erases(t, TextAfter(op, t))
  <2>1. IsText(remove(t, p, n)) /\ Erases(t, remove(t, p, n))
    BY <1>3, RemoveEffect
  <2>. QED
    BY <1>3, <2>1
<1>4. CASE op = "home"
  <2>1. TextAfter(op, t) = [t EXCEPT !.pos = 0] /\ 0 \in Nat /\ 0 =< t.len
    BY <1>1, <1>4 DEF TextAfter
  <2>. QED
    BY <2>1, <1>2
<1>5. CASE op = "end"
  <2>1. TextAfter(op, t) = [t EXCEPT !.pos = t.len] /\ t.len =< t.len
    BY <1>1, <1>5 DEF TextAfter
  <2>. QED
    BY <2>1, <1>1, <1>2
<1>6. CASE op = "left"
  <2> DEFINE p == IF t.pos = 0 THEN 0 ELSE t.pos - 1
  <2>1. TextAfter(op, t) = [t EXCEPT !.pos = p]
    BY <1>1, <1>6, TextFields DEF TextAfter
  <2>2. p \in Nat /\ p =< t.len
    BY <1>1
  <2>. HIDE DEF p
  <2>. QED
    BY <2>1, <2>2, <1>2
<1>7. CASE op = "right"
  <2> DEFINE p == IF t.pos = t.len THEN t.pos ELSE t.pos + 1
  <2>1. TextAfter(op, t) = [t EXCEPT !.pos = p]
    BY <1>1, <1>7, TextFields DEF TextAfter
  <2>2. p \in Nat /\ p =< t.len
    BY <1>1
  <2>. HIDE DEF p
  <2>. QED
    BY <2>1, <2>2, <1>2
<1>8. CASE op = "leftw"
  <2>1. TextAfter(op, t) = [t EXCEPT !.pos = kleftw(t)]
    BY <1>8 DEF TextAfter
  <2>2. kleftw(t) \in Nat /\ kleftw(t) =< t.len
    BY <1>1, WordWalks
  <2>. QED
    BY <2>1, <2>2, <1>2
<1>9. CASE op = "rightw"
  <2>1. TextAfter(op, t) = [t EXCEPT !.pos = krightw(t)]
    BY <1>9 DEF TextAfter
  <2>2. krightw(t) \in Nat /\ krightw(t) =< t.len
    BY <1>1, WordWalks
  <2>. QED
    BY <2>1, <2>2, <1>2
<1>10. CASE op \in {"clear", "none"} \/ (op = "backspace" /\ t.pos = 0) \/ (op = "delete" /\ t.pos = t.len)
  <2>1. TextAfter(op, t) = t
    BY <1>10 DEF TextAfter
  <2>. QED
    BY <2>1, SameMoves
<1>11. CASE op = "backspace" /\ t.pos # 0
  <2>1. TextAfter(op, t) = remove(t, t.pos - 1, 1)
    BY <1>11 DEF TextAfter
  <2>2. t.pos - 1 \in Nat /\ 1 \in Nat /\ (t.pos - 1) + 1 =< t.len /\ (t.pos - 1) + 1 = t.pos
    BY <1>1, <1>11
  <2>. QED
    BY <2>1, <2>2, <1>3
<1>12. CASE op = "delete" /\ t.pos # t.len
  <2>1. TextAfter(op, t) = remove(t, t.pos, 1)
    BY <1>12 DEF TextAfter
  <2>2. t.pos \in Nat /\ 1 \in Nat /\ t.pos + 1 =< t.len
    BY <1>1, <1>12
  <2>. QED
    BY <2>1, <2>2, <1>3
<1>13. CASE op = "backspacew"
  <2>1. TextAfter(op, t) = remove(t, kleftw(t), t.pos - kleftw(t))
    BY <1>13 DEF TextAfter
  <2>2. /\ kleftw(t) \in Nat /\ t.pos - kleftw(t) \in Nat
        /\ kleftw(t) + (t.pos - kleftw(t)) =< t.len /\ kleftw(t) + (t.pos - kleftw(t)) = t.pos
    BY <1>1, WordWalks
  <2>. QED
    BY <2>1, <2>2, <1>3
<1>14. CASE op = "deletew"
  <2>1. TextAfter(op, t) = remove(t, t.pos, kdeletew(t) - t.pos)
    BY <1>14 DEF TextAfter
  <2>2. /\ t.pos \in Nat /\ kdeletew(t) - t.pos \in Nat
        /\ t.pos + (kdeletew(t) - t.pos) =< t.len
    BY <1>1, WordWalks
  <2>. QED
    BY <2>1, <2>2, <1>3
<1>15. CASE op = "kill"
  BY <1>15, KillEffect
<1>16. CASE op = "killstart"
  BY <1>16, KillStartEffect
<1>. QED
  BY <1>4, <1>5, <1>6, <1>7, <1>8, <1>9, <1>10, <1>11, <1>12, <1>13, <1>14, <1>15, <1>16 DEF Edits

-----------------------------------------------------------------------------
(* Completion: what is common to the matches. *)

\* The longest common prefix of two names.
LEMMA CommonIs ==
  ASSUME NEW B, NEW a \in Seq(B), NEW b \in Seq(B)
  PROVE  /\ Common(a, b) \in Seq(B)
         /\ IsPrefix(Common(a, b), a) /\ IsPrefix(Common(a, b), b)
         /\ \/ Common(a, b) = a \/ Common(a, b) = b
            \/ a[Len(Common(a, b)) + 1] # b[Len(Common(a, b)) + 1]
<1> DEFINE Ends(p) == /\ IsPrefix(p, b)
                      /\ \/ p = a \/ p = b
                         \/ a[Len(p) + 1] # b[Len(p) + 1]
           Heads == {SubSeq(a, 1, n) : n \in 0..Len(a)}
           Q == {n \in 0..Len(a) : n =< Len(b) /\ \A i \in 1..n : a[i] = b[i]}
           D == {Len(a) - n : n \in Q}
<1>1. Len(a) \in Nat /\ Len(b) \in Nat
  OBVIOUS
<1>2. D \subseteq Nat /\ D # {}
  <2>1. 0 \in Q
    BY <1>1
  <2>2. Len(a) - 0 \in D
    BY <2>1
  <2>3. \A n \in 0..Len(a) : Len(a) - n \in Nat
    BY <1>1
  <2>. QED
    BY <2>2, <2>3
<1>3. PICK d \in D : \A e \in D : d =< e
  <2>. HIDE DEF D
  <2>. QED
    BY <1>2, LeastNat
<1>4. PICK n \in Q : d = Len(a) - n
  OBVIOUS
<1>5. \A m \in Q : m =< n
  <2>1. ASSUME NEW m \in Q PROVE m =< n
    <3>1. Len(a) - n =< Len(a) - m
      BY <1>3, <1>4
    <3>. QED
      BY <3>1, <1>1
  <2>. QED
    BY <2>1
<1> DEFINE p == SubSeq(a, 1, n)
<1>6. n \in Nat /\ n =< Len(a) /\ n =< Len(b) /\ n \in 0..Len(a)
  BY <1>1
<1>7. /\ p \in Seq(B) /\ Len(p) = n /\ \A i \in 1..n : p[i] = a[i]
  BY <1>6
<1>8. \A i \in 1..n : a[i] = b[i]
  OBVIOUS
<1>. HIDE DEF p
<1>9. IsPrefix(p, b)
  <2>1. /\ SubSeq(p, 1, n) \in Seq(B) /\ Len(SubSeq(p, 1, n)) = n
        /\ \A i \in 1..n : SubSeq(p, 1, n)[i] = p[i]
    BY <1>6, <1>7
  <2>2. /\ SubSeq(b, 1, n) \in Seq(B) /\ Len(SubSeq(b, 1, n)) = n
        /\ \A i \in 1..n : SubSeq(b, 1, n)[i] = b[i]
    BY <1>6
  <2>3. SubSeq(p, 1, n) = SubSeq(b, 1, n)
    BY <2>1, <2>2, <1>7, <1>8, SeqEqual
  <2>. QED
    BY <1>6, <1>7, <2>3 DEF IsPrefix
<1>10. p = a \/ p = b \/ a[Len(p) + 1] # b[Len(p) + 1]
  <2>1. CASE n = Len(a)
    BY <2>1, <1>7, SeqEqual
  <2>2. CASE n = Len(b)
    BY <2>2, <1>7, <1>8, SeqEqual
  <2>3. CASE n # Len(a) /\ n # Len(b)
    <3>1. SUFFICES ASSUME a[n + 1] = b[n + 1] PROVE FALSE
      BY <1>7
    <3>2. n + 1 \in 0..Len(a) /\ n + 1 =< Len(b)
      BY <1>1, <1>6, <2>3
    <3>3. \A i \in 1..(n + 1) : i \in 1..n \/ i = n + 1
      BY <1>6
    <3>4. \A i \in 1..(n + 1) : a[i] = b[i]
      BY <3>1, <3>3, <1>8
    <3>5. n + 1 \in Q
      BY <3>2, <3>4
    <3>6. n + 1 =< n
      BY <3>5, <1>5
    <3>. QED
      BY <3>6, <1>6
  <2>. QED
    BY <2>1, <2>2, <2>3
<1>11. p \in Heads /\ Ends(p)
  BY <1>6, <1>9, <1>10 DEF p
<1>12. Common(a, b) \in Heads /\ Ends(Common(a, b))
  <2>1. Common(a, b) = CHOOSE x \in Heads : Ends(x)
    BY DEF Common
  <2>. HIDE DEF Heads, Ends
  <2>. QED
    BY <2>1, <1>11
<1>13. PICK k \in 0..Len(a) : Common(a, b) = SubSeq(a, 1, k)
  BY <1>12
<1>14. /\ SubSeq(a, 1, k) \in Seq(B) /\ Len(SubSeq(a, 1, k)) = k /\ k =< Len(a)
       /\ SubSeq(SubSeq(a, 1, k), 1, k) = SubSeq(a, 1, k)
  BY <1>1
<1>15. Common(a, b) \in Seq(B) /\ IsPrefix(Common(a, b), a)
  BY <1>13, <1>14 DEF IsPrefix
<1>. QED
  BY <1>12, <1>15

\* What the loop of check_match carries begins with the new symbol, and is from then on
\* the larger of what it was and the place it comes to.
LEMMA CarriedIs ==
  ASSUME NEW V, NEW ms \in Seq(V), NEW test \in V
  PROVE  /\ \A i \in 1..(Len(ms) + 1) : Carried(ms, test)[i] \in V
         /\ Carried(ms, test)[1] = test
         /\ \A k \in 1..Len(ms) :
              Carried(ms, test)[k + 1] =
                IF Less(Carried(ms, test)[k], ms[k]) THEN ms[k] ELSE Carried(ms, test)[k]
<1> DEFINE n == Len(ms)
           F == [k \in 1..n |-> [v \in V |-> IF Less(v, ms[k]) THEN ms[k] ELSE v]]
           Fits(m) == m = [i \in 1..(n + 1) |->
                             IF i = 1 THEN test
                             ELSE IF Less(m[i - 1], ms[i - 1]) THEN ms[i - 1] ELSE m[i - 1]]
           mm == CHOOSE m : Fits(m)
<1>1. n \in Nat /\ \A k \in 1..n : ms[k] \in V
  OBVIOUS
<1>2. Carried(ms, test) = mm
  BY DEF Carried
<1>. HIDE DEF n
<1>3. F \in Steps(V, n)
  BY <1>1 DEF Steps
<1>4. \A v \in V, k \in 1..n : F[k][v] = IF Less(v, ms[k]) THEN ms[k] ELSE v
  OBVIOUS
<1>. HIDE DEF F
<1>5. PICK g : Walk(g, V, test, n, F)
  BY <1>1, <1>3, RecursionTable
<1>6. /\ g \in [0..n -> V] /\ g[0] = test
      /\ \A k \in 1..n : g[k] = F[k][g[k - 1]]
  BY <1>5 DEF Walk
<1> DEFINE t == [i \in 1..(n + 1) |-> g[i - 1]]
<1>7. Fits(t)
  <2>1. ASSUME NEW i \in 1..(n + 1)
        PROVE  g[i - 1] = IF i = 1 THEN test
                          ELSE IF Less(t[i - 1], ms[i - 1]) THEN ms[i - 1] ELSE t[i - 1]
    <3>1. CASE i = 1
      BY <3>1, <1>6
    <3>2. CASE i # 1
      <4>1. i - 1 \in 1..n /\ i - 1 \in 1..(n + 1) /\ (i - 1) - 1 \in 0..n
        BY <3>2, <1>1
      <4>2. t[i - 1] = g[(i - 1) - 1] /\ g[(i - 1) - 1] \in V
        BY <4>1, <1>6
      <4>3. g[i - 1] = F[i - 1][g[(i - 1) - 1]]
        BY <4>1, <1>6
      <4>. HIDE DEF t
      <4>. QED
        BY <3>2, <4>1, <4>2, <4>3, <1>4
    <3>. QED
      BY <3>1, <3>2
  <2>. QED
    BY <2>1
<1>8. Fits(mm)
  <2>. HIDE DEF Fits
  <2>. QED
    BY <1>7
<1>14. mm[1] = test /\ \A k \in 1..n : mm[k + 1] = IF Less(mm[k], ms[k]) THEN ms[k] ELSE mm[k]
  <2>1. 1 \in 1..(n + 1) /\ \A k \in 1..n : k + 1 \in 1..(n + 1) /\ k + 1 # 1 /\ (k + 1) - 1 = k
    BY <1>1
  <2>2. \A i \in 1..(n + 1) : mm[i] = IF i = 1 THEN test
                          ELSE IF Less(mm[i - 1], ms[i - 1]) THEN ms[i - 1] ELSE mm[i - 1]
    <3>. HIDE DEF mm
    <3>. QED
      BY <1>8
  <2>. HIDE DEF mm
  <2>. QED
    BY <2>1, <2>2
<1>. HIDE DEF mm
<1> DEFINE S == {k \in 0..n : mm[k + 1] \in V}
<1>9. 0 \in S
  <2>1. 1 \in 1..(n + 1) /\ 0 \in 0..n /\ 0 + 1 = 1
    BY <1>1
  <2>. QED
    BY <2>1, <1>14
<1>10. ASSUME NEW k \in 0..(n - 1), k \in S PROVE k + 1 \in S
  <2>1. k + 1 \in 0..n /\ k + 1 \in 1..n
    BY <1>1
  <2>2. mm[(k + 1) + 1] = IF Less(mm[k + 1], ms[k + 1]) THEN ms[k + 1] ELSE mm[k + 1]
    BY <2>1, <1>14
  <2>3. mm[k + 1] \in V
    BY <1>10
  <2>. QED
    BY <2>1, <2>2, <2>3, <1>1
<1>11. 0..n \subseteq S
  <2>1. \A k \in 0..(n - 1) : k \in S => k + 1 \in S
    BY <1>10
  <2>. HIDE DEF S
  <2>. QED
    BY <2>1, <1>1, <1>9, Induction
<1>12. \A i \in 1..(n + 1) : i - 1 \in 0..n /\ (i - 1) + 1 = i
  BY <1>1
<1>13. \A i \in 1..(n + 1) : mm[i] \in V
  <2>. QED
    BY <1>11, <1>12
<1>. QED
  BY <1>2, <1>13, <1>14 DEF n

\* What check_match keeps is among what it had and the name.
LEMMA MatchIs ==
  ASSUME NEW V, NEW ms \in Seq(V), NEW src, NEW test \in V
  PROVE  check_match(ms, src, test) \in Seq(V)
<1> DEFINE n == Len(ms)
           mm == Carried(ms, test)
           kept == [i \in DOMAIN ms |-> IF Less(mm[i], ms[i]) THEN mm[i] ELSE ms[i]]
<1>1. n \in Nat /\ DOMAIN ms = 1..n /\ \A i \in 1..n : ms[i] \in V
  OBVIOUS
<1>2. \A i \in 1..(n + 1) : mm[i] \in V
  BY CarriedIs
<1>3. check_match(ms, src, test) \in {ms, kept, Append(kept, mm[n + 1])}
  BY DEF check_match
<1>. HIDE DEF n, mm
<1>4. n + 1 \in 1..(n + 1) /\ \A i \in 1..n : i \in 1..(n + 1)
  BY <1>1
<1>5. kept \in [1..n -> V]
  BY <1>1, <1>2, <1>4
<1>. HIDE DEF kept
<1>6. kept \in Seq(V) /\ mm[n + 1] \in V
  BY <1>1, <1>2, <1>4, <1>5
<1>7. Append(kept, mm[n + 1]) \in Seq(V)
  BY <1>6
<1>. QED
  BY <1>3, <1>6, <1>7

\* The matches are among the names looked at.
LEMMA MatchesAre ==
  ASSUME NEW B, NEW src, NEW names \in Seq(B)
  PROVE  Matches(src, names) \in Seq(B)
<1> DEFINE V == Seq(B)
           base == <<>>
           n == Len(names)
           F == [k \in 1..n |-> [v \in V |-> check_match(v, src, names[k])]]
           Fits(h) == h = [s \in SUBSET (1..n) |->
                             IF s = {} THEN base ELSE check_match(h[s \ {Max(s)}], src, names[Max(s)])]
           h == CHOOSE h : Fits(h)
<1>1. n \in Nat /\ DOMAIN names = 1..n
  OBVIOUS
<1>2. Matches(src, names) = h[1..n]
  BY <1>1 DEF Matches, FoldLeft, MapThenFoldSet
<1>3. base \in V
  OBVIOUS
<1>4. \A k \in 1..n, v \in V : check_match(v, src, names[k]) \in V
  BY MatchIs
<1>. HIDE DEF V, base, n
<1>5. F \in Steps(V, n)
  BY <1>4 DEF Steps
<1>6. \A k \in 1..n, v \in V : F[k][v] = check_match(v, src, names[k])
  OBVIOUS
<1>. HIDE DEF F
<1>7. \A s \in SUBSET (1..n) : s # {} => Max(s) \in 1..n /\ s \ {Max(s)} \in SUBSET (1..n)
  BY <1>1, MaxIsGreatest
<1>8. Fits(h)
  <2>1. PICK t : FoldValues(t, V, base, n, F)
    BY <1>1, <1>3, <1>5, FoldTable
  <2>2. /\ t \in [SUBSET (1..n) -> V]
        /\ \A s \in SUBSET (1..n) :
             t[s] = IF s = {} THEN base ELSE F[Max(s)][t[s \ {Max(s)}]]
    BY <2>1 DEF FoldValues
  <2>3. ASSUME NEW s \in SUBSET (1..n)
        PROVE  t[s] = IF s = {} THEN base ELSE check_match(t[s \ {Max(s)}], src, names[Max(s)])
    <3>1. CASE s = {}
      BY <2>2, <3>1
    <3>2. CASE s # {}
      <4>1. Max(s) \in 1..n /\ t[s \ {Max(s)}] \in V
        BY <1>7, <2>2, <3>2
      <4>. QED
        BY <1>6, <2>2, <3>2, <4>1
    <3>. QED
      BY <3>1, <3>2
  <2>4. Fits(t)
    BY <2>2, <2>3
  <2>. HIDE DEF Fits
  <2>. QED
    BY <2>4
<1>9. FoldsBy(h, V, base, n, F)
  <2>1. \A s \in SUBSET (1..n) :
          h[s] = IF s = {} THEN base ELSE check_match(h[s \ {Max(s)}], src, names[Max(s)])
    <3>. HIDE DEF h
    <3>. QED
      BY <1>8
  <2>. HIDE DEF h
  <2>2. h[{}] = base
    BY <2>1
  <2>3. ASSUME NEW s \in SUBSET (1..n), s # {}, h[s \ {Max(s)}] \in V
        PROVE  h[s] = F[Max(s)][h[s \ {Max(s)}]]
    <3>1. Max(s) \in 1..n
      BY <1>7, <2>3
    <3>. QED
      BY <1>6, <2>1, <2>3, <3>1
  <2>. QED
    BY <2>2, <2>3 DEF FoldsBy
<1>. HIDE DEF h
<1>10. PICK g : Walk(g, V, base, n, F) /\ h[1..n] = g[n]
  BY <1>1, <1>3, <1>5, <1>9, FoldWalk
<1>11. g[n] \in V
  <2>1. g \in [0..n -> V] /\ n \in 0..n
    BY <1>1, <1>10 DEF Walk
  <2>. QED
    BY <2>1
<1>. QED
  BY <1>2, <1>10, <1>11 DEF V

\* longest_common_prefix goes from one match to the next.
LEMMA CommonWalk ==
  ASSUME NEW B, NEW ms \in Seq(Seq(B)), ms # <<>>
  PROVE  \E g : /\ g \in [0..Len(ms) -> Seq(B)] /\ g[0] = ms[1]
                /\ \A k \in 1..Len(ms) : g[k] = Common(g[k - 1], ms[k])
                /\ longest_common_prefix(ms) = g[Len(ms)]
<1> DEFINE V == Seq(B)
           base == Head(ms)
           n == Len(ms)
           F == [k \in 1..n |-> [v \in V |-> Common(v, ms[k])]]
           Fits(h) == h = [s \in SUBSET (1..n) |->
                             IF s = {} THEN base ELSE Common(h[s \ {Max(s)}], ms[Max(s)])]
           h == CHOOSE h : Fits(h)
<1>1. n \in Nat /\ DOMAIN ms = 1..n
  OBVIOUS
<1>2. longest_common_prefix(ms) = h[1..n]
  BY <1>1 DEF longest_common_prefix, FoldLeft, MapThenFoldSet
<1>3. base \in V
  OBVIOUS
<1>4. \A k \in 1..n, v \in V : Common(v, ms[k]) \in V
  <2>1. \A k \in 1..n : ms[k] \in Seq(B)
    OBVIOUS
  <2>. QED
    BY <2>1, CommonIs
<1>. HIDE DEF V, base, n
<1>5. F \in Steps(V, n)
  BY <1>4 DEF Steps
<1>6. \A k \in 1..n, v \in V : F[k][v] = Common(v, ms[k])
  OBVIOUS
<1>. HIDE DEF F
<1>7. \A s \in SUBSET (1..n) : s # {} => Max(s) \in 1..n /\ s \ {Max(s)} \in SUBSET (1..n)
  BY <1>1, MaxIsGreatest
<1>8. Fits(h)
  <2>1. PICK t : FoldValues(t, V, base, n, F)
    BY <1>1, <1>3, <1>5, FoldTable
  <2>2. /\ t \in [SUBSET (1..n) -> V]
        /\ \A s \in SUBSET (1..n) :
             t[s] = IF s = {} THEN base ELSE F[Max(s)][t[s \ {Max(s)}]]
    BY <2>1 DEF FoldValues
  <2>3. ASSUME NEW s \in SUBSET (1..n)
        PROVE  t[s] = IF s = {} THEN base ELSE Common(t[s \ {Max(s)}], ms[Max(s)])
    <3>1. CASE s = {}
      BY <2>2, <3>1
    <3>2. CASE s # {}
      <4>1. Max(s) \in 1..n /\ t[s \ {Max(s)}] \in V
        BY <1>7, <2>2, <3>2
      <4>. QED
        BY <1>6, <2>2, <3>2, <4>1
    <3>. QED
      BY <3>1, <3>2
  <2>4. Fits(t)
    BY <2>2, <2>3
  <2>. HIDE DEF Fits
  <2>. QED
    BY <2>4
<1>9. FoldsBy(h, V, base, n, F)
  <2>1. \A s \in SUBSET (1..n) :
          h[s] = IF s = {} THEN base ELSE Common(h[s \ {Max(s)}], ms[Max(s)])
    <3>. HIDE DEF h
    <3>. QED
      BY <1>8
  <2>. HIDE DEF h
  <2>2. h[{}] = base
    BY <2>1
  <2>3. ASSUME NEW s \in SUBSET (1..n), s # {}, h[s \ {Max(s)}] \in V
        PROVE  h[s] = F[Max(s)][h[s \ {Max(s)}]]
    <3>1. Max(s) \in 1..n
      BY <1>7, <2>3
    <3>. QED
      BY <1>6, <2>1, <2>3, <3>1
  <2>. QED
    BY <2>2, <2>3 DEF FoldsBy
<1>. HIDE DEF h
<1>10. PICK g : Walk(g, V, base, n, F) /\ h[1..n] = g[n]
  BY <1>1, <1>3, <1>5, <1>9, FoldWalk
<1>11. g \in [0..n -> V] /\ g[0] = base /\ \A k \in 1..n : g[k] = F[k][g[k - 1]]
  BY <1>10 DEF Walk
<1>12. \A k \in 1..n : g[k] = Common(g[k - 1], ms[k])
  <2>. TAKE k \in 1..n
  <2>1. g[k - 1] \in V
    BY <1>1, <1>11
  <2>. QED
    BY <2>1, <1>6, <1>11
<1>13. base = ms[1]
  BY DEF base
<1>. QED
  BY <1>2, <1>10, <1>11, <1>12, <1>13 DEF V, n

\* What is common to all of them is made of the same bytes.
LEMMA CommonToAll ==
  ASSUME NEW B, NEW ms \in Seq(Seq(B)), ms # <<>>
  PROVE  longest_common_prefix(ms) \in Seq(B)
<1>1. Len(ms) \in Nat /\ Len(ms) \in 0..Len(ms)
  OBVIOUS
<1>2. PICK g : g \in [0..Len(ms) -> Seq(B)] /\ longest_common_prefix(ms) = g[Len(ms)]
  BY CommonWalk
<1>. QED
  BY <1>1, <1>2

\* The elements of a finite set in some order.
LEMMA SetToSeqIs ==
  ASSUME NEW B, NEW S, S \subseteq B, IsFiniteSet(S)
  PROVE  SetToSeq(S) \in Seq(B)
<1> DEFINE n == Cardinality(S)
<1>1. n \in Nat /\ ExistsBijection(1..n, S)
  BY FS_CardinalityType
<1>2. \E f \in [1..n -> S] : IsInjective(f)
  BY <1>1 DEF ExistsBijection, Bijection, Injection
<1>3. SetToSeq(S) \in [1..n -> S]
  BY <1>2 DEF SetToSeq
<1>. HIDE DEF n
<1>. QED
  BY <1>1, <1>3

\* The names of a chain of tables.
LEMMA ChainNamesAre ==
  ASSUME NEW B, NEW chain \in Seq(SUBSET B), \A i \in DOMAIN chain : IsFiniteSet(chain[i])
  PROVE  ChainNames(chain) \in Seq(B)
<1> DEFINE V == Seq(B)
           base == <<>>
           n == Len(chain)
           F == [k \in 1..n |-> [v \in V |-> v \o SetToSeq(chain[k])]]
           Fits(h) == h = [s \in SUBSET (1..n) |->
                             IF s = {} THEN base ELSE h[s \ {Max(s)}] \o SetToSeq(chain[Max(s)])]
           h == CHOOSE h : Fits(h)
<1>1. n \in Nat /\ DOMAIN chain = 1..n
  OBVIOUS
<1>2. ChainNames(chain) = h[1..n]
  BY <1>1 DEF ChainNames, FoldLeft, MapThenFoldSet
<1>3. base \in V
  OBVIOUS
<1>4. \A k \in 1..n, v \in V : v \o SetToSeq(chain[k]) \in V
  <2>1. \A k \in 1..n : chain[k] \subseteq B /\ IsFiniteSet(chain[k])
    OBVIOUS
  <2>2. \A k \in 1..n : SetToSeq(chain[k]) \in Seq(B)
    BY <2>1, SetToSeqIs
  <2>. QED
    BY <2>2
<1>. HIDE DEF V, base, n
<1>5. F \in Steps(V, n)
  BY <1>4 DEF Steps
<1>6. \A k \in 1..n, v \in V : F[k][v] = v \o SetToSeq(chain[k])
  OBVIOUS
<1>. HIDE DEF F
<1>7. \A s \in SUBSET (1..n) : s # {} => Max(s) \in 1..n /\ s \ {Max(s)} \in SUBSET (1..n)
  BY <1>1, MaxIsGreatest
<1>8. Fits(h)
  <2>1. PICK t : FoldValues(t, V, base, n, F)
    BY <1>1, <1>3, <1>5, FoldTable
  <2>2. /\ t \in [SUBSET (1..n) -> V]
        /\ \A s \in SUBSET (1..n) :
             t[s] = IF s = {} THEN base ELSE F[Max(s)][t[s \ {Max(s)}]]
    BY <2>1 DEF FoldValues
  <2>3. ASSUME NEW s \in SUBSET (1..n)
        PROVE  t[s] = IF s = {} THEN base ELSE t[s \ {Max(s)}] \o SetToSeq(chain[Max(s)])
    <3>1. CASE s = {}
      BY <2>2, <3>1
    <3>2. CASE s # {}
      <4>1. Max(s) \in 1..n /\ t[s \ {Max(s)}] \in V
        BY <1>7, <2>2, <3>2
      <4>. QED
        BY <1>6, <2>2, <3>2, <4>1
    <3>. QED
      BY <3>1, <3>2
  <2>4. Fits(t)
    BY <2>2, <2>3
  <2>. HIDE DEF Fits
  <2>. QED
    BY <2>4
<1>9. FoldsBy(h, V, base, n, F)
  <2>1. \A s \in SUBSET (1..n) :
          h[s] = IF s = {} THEN base ELSE h[s \ {Max(s)}] \o SetToSeq(chain[Max(s)])
    <3>. HIDE DEF h
    <3>. QED
      BY <1>8
  <2>. HIDE DEF h
  <2>2. h[{}] = base
    BY <2>1
  <2>3. ASSUME NEW s \in SUBSET (1..n), s # {}, h[s \ {Max(s)}] \in V
        PROVE  h[s] = F[Max(s)][h[s \ {Max(s)}]]
    <3>1. Max(s) \in 1..n
      BY <1>7, <2>3
    <3>. QED
      BY <1>6, <2>1, <2>3, <3>1
  <2>. QED
    BY <2>2, <2>3 DEF FoldsBy
<1>. HIDE DEF h
<1>10. PICK g : Walk(g, V, base, n, F) /\ h[1..n] = g[n]
  BY <1>1, <1>3, <1>5, <1>9, FoldWalk
<1>11. g[n] \in V
  <2>1. g \in [0..n -> V] /\ n \in 0..n
    BY <1>1, <1>10 DEF Walk
  <2>. QED
    BY <2>1
<1>. QED
  BY <1>2, <1>10, <1>11 DEF V

\* The names that are offered are strings.
LEMMA AllNamesAre ==
  ASSUME gbl_complete_env \in Envs \cup {NoEnv}
  PROVE  AllNames \in Seq(Strings)
<1>1. gbl_complete_env \in Seq(SUBSET Strings) /\ \A i \in DOMAIN gbl_complete_env : IsFiniteSet(gbl_complete_env[i])
  <2>1. CASE gbl_complete_env \in Envs
    BY <2>1, NamesAreStrings DEF Strings
  <2>2. CASE gbl_complete_env = <<>>
    BY <2>2
  <2>. QED
    BY <2>1, <2>2 DEF NoEnv
<1>2. ChainNames(gbl_complete_env) \in Seq(Strings)
  BY <1>1, ChainNamesAre
<1>3. Specials \in Seq(Strings)
  BY NamesAreStrings DEF Strings
<1>. QED
  BY <1>2, <1>3, ConcatIs DEF AllNames

\* The cursor stays.
LEMMA SamePos == ASSUME NEW t, IsText(t) PROVE [t EXCEPT !.pos = t.pos] = t
BY DEF IsText

\* Tab moves to the end of the symbol and inserts what all matches go on with.
LEMMA CompletionEffect ==
  ASSUME NEW t, IsText(t), gbl_complete_env \in Envs \cup {NoEnv}
  PROVE  /\ IsText(kshowcomp(t).text)
         /\ Moves(t, kshowcomp(t).text) \/ Inserts(t, kshowcomp(t).text)
<1> DEFINE q == Right(t.buf, t.pos, LINE_MAX, SymbolBytes)
           moved == [t EXCEPT !.pos = q]
           p == Left(t.buf, moved.pos, SymbolBytes)
           src == Piece(t.buf, p, moved.pos)
           common == longest_common_prefix(Matches(src, AllNames))
           longer == SubSeq(common, Len(src) + 1, Len(common))
           Result == kshowcomp(t).text
<1>1. /\ t.buf \in [Places -> Bytes] /\ t.pos \in Nat /\ t.len \in Nat /\ LINE_MAX \in Nat
      /\ t.pos =< t.len /\ t.len < LINE_MAX /\ t.buf[t.len] = NUL
  BY TextFields
<1>2. q \in t.pos..LINE_MAX /\ \A i \in t.pos..(q - 1) : t.buf[i] \in SymbolBytes
  <2>1. t.pos =< LINE_MAX
    BY <1>1
  <2>. QED
    BY <2>1, <1>1, RightIs
<1>. HIDE DEF q
<1>3. q \in t.pos..t.len /\ q \in Nat /\ q =< t.len
  <2>1. NUL \notin SymbolBytes
    BY DEF SymbolBytes, Letters, NUL
  <2>2. ~(t.len < q)
    <3>1. SUFFICES ASSUME t.len < q PROVE FALSE
      OBVIOUS
    <3>2. t.len \in t.pos..(q - 1)
      BY <3>1, <1>1, <1>2
    <3>. QED
      BY <3>2, <2>1, <1>1, <1>2
  <2>. QED
    BY <2>2, <1>1, <1>2
<1>4. moved.pos = q /\ IsText(moved) /\ Moves(t, moved)
  <2>1. moved = [buf |-> t.buf, len |-> t.len, pos |-> q]
    BY <1>3, MovedText
  <2>2. moved.pos = q
    BY <2>1
  <2>. QED
    BY <2>2, <1>3, MoveEffect
<1>5. Len(src) \in Nat
  <2>1. p \in 0..q
    BY <1>3, <1>4, LeftIs
  <2>2. p \in Nat /\ p =< q /\ q =< LINE_MAX
    BY <2>1, <1>1, <1>3
  <2>. HIDE DEF p
  <2>3. Len(Piece(t.buf, p, q)) = q - p
    BY <2>2, <1>1, <1>3, PieceSeq
  <2>. QED
    BY <2>2, <2>3, <1>3, <1>4
<1>6. common \in Strings
  <2> DEFINE ms == Matches(src, AllNames)
  <2>1. ms \in Seq(Strings)
    BY AllNamesAre, MatchesAre
  <2>. HIDE DEF ms
  <2>2. CASE ms = <<>>
    <3>1. longest_common_prefix(ms) = <<>>
      BY <2>2 DEF longest_common_prefix
    <3>2. <<>> \in Strings
      BY DEF Strings
    <3>3. common = <<>>
      BY <3>1 DEF ms
    <3>. QED
      BY <3>2, <3>3
  <2>3. CASE ms # <<>>
    <3>1. ms \in Seq(Seq(1..255))
      BY <2>1 DEF Strings
    <3>2. longest_common_prefix(ms) \in Seq(1..255)
      BY <2>3, <3>1, CommonToAll
    <3>. QED
      BY <3>2 DEF ms, Strings
  <2>. QED
    BY <2>2, <2>3
<1>7. longer \in Strings
  <2>. HIDE DEF common
  <2> DEFINE B == 1..255
  <2>1. common \in Seq(B)
    BY <1>6 DEF Strings
  <2>. HIDE DEF B
  <2>2. Len(common) \in Nat /\ Len(src) + 1 \in Nat \ {0}
    BY <2>1, <1>5
  <2>3. SubSeq(common, Len(src) + 1, Len(common)) \in Seq(B)
    BY <2>1, <2>2
  <2>. QED
    BY <2>3 DEF B, Strings
<1>8. Result \in {insert(t, <<32, 32>>), moved, insert(moved, longer)}
  BY DEF kshowcomp, q
<1>9. CASE Result = insert(t, <<32, 32>>)
  <2> DEFINE s == <<32, 32>>
  <2>1. s \in Strings
    BY DEF Strings
  <2>2. t.pos \in t.pos..t.len
    BY <1>1
  <2>3. [t EXCEPT !.pos = t.pos] = t
    BY SamePos
  <2>. HIDE DEF s
  <2>4. IsText(insert(t, s)) /\ Inserts(t, insert(t, s))
    <3>1. /\ IsText(insert([t EXCEPT !.pos = t.pos], s))
          /\ Inserts(t, insert([t EXCEPT !.pos = t.pos], s))
      BY <2>1, <2>2, InsertEffect
    <3>. QED
      BY <2>3, <3>1
  <2>. QED
    BY <1>9, <2>4 DEF s
<1>10. CASE Result = moved
  BY <1>4, <1>10
<1>11. CASE Result = insert(moved, longer)
  <2>. HIDE DEF longer
  <2>1. IsText(insert(moved, longer)) /\ Inserts(t, insert(moved, longer))
    BY <1>3, <1>7, InsertEffect
  <2>. QED
    BY <1>11, <2>1
<1>. QED
  BY <1>8, <1>9, <1>10, <1>11

\* A byte that is typed.
LEMMA TypedEffect ==
  ASSUME NEW t, IsText(t), NEW b \in 1..255
  PROVE  IsText(insert(t, <<b>>)) /\ Inserts(t, insert(t, <<b>>))
<1> DEFINE s == <<b>>
<1>1. s \in Strings
  BY DEF Strings
<1>2. t.pos \in t.pos..t.len
  BY TextFields
<1>3. [t EXCEPT !.pos = t.pos] = t
  BY SamePos
<1>. HIDE DEF s
<1>4. /\ IsText(insert([t EXCEPT !.pos = t.pos], s))
      /\ Inserts(t, insert([t EXCEPT !.pos = t.pos], s))
  BY <1>1, <1>2, InsertEffect
<1>. QED
  BY <1>3, <1>4 DEF s

\* A history line: a string that fits into the buffer.
IsLine(s) == s \in Strings /\ Len(s) < LINE_MAX

\* strncpy of a history line gives the line.
LEMMA LoadedIs ==
  ASSUME NEW b, b \in [Places -> Bytes], b[LINE_MAX - 1] = NUL, NEW s, IsLine(s)
  PROVE  /\ IsText(Loaded(b, s))
         /\ Before(Loaded(b, s)) = s /\ After(Loaded(b, s)) = <<>>
<1> DEFINE n == Len(s)
           b1 == [i \in Places |-> IF i < n THEN s[i + 1]
                                   ELSE IF i < LINE_MAX - 1 THEN NUL ELSE b[i]]
           B == 1..255
<1>1. LINE_MAX \in Nat \ {0}
  BY SizesPositive
<1>2. n \in Nat /\ n < LINE_MAX /\ \A i \in 1..n : s[i] \in 1..255
  <2>1. s \in Seq(B)
    BY DEF IsLine, Strings
  <2>. HIDE DEF B
  <2>2. n \in Nat /\ n < LINE_MAX /\ \A i \in 1..n : s[i] \in B
    BY <2>1 DEF IsLine
  <2>. QED
    BY <2>2 DEF B
<1>. HIDE DEF n
<1>a. \A i \in Places : b1[i] = IF i < n THEN s[i + 1]
                                 ELSE IF i < LINE_MAX - 1 THEN NUL ELSE b[i]
  OBVIOUS
<1>4. \A i \in 0..(n - 1) : b1[i] = s[i + 1] /\ s[i + 1] \in 1..255
  <2>. TAKE i \in 0..(n - 1)
  <2>2. i \in Places /\ i < n /\ i + 1 \in 1..n
    BY <1>1, <1>2 DEF Places
  <2>3. b1[i] = s[i + 1]
    BY <2>2, <1>a
  <2>. QED
    BY <2>2, <2>3, <1>2
<1>3. \A i \in 1..n : b1[i - 1] = s[i]
  <2>. TAKE i \in 1..n
  <2>2. i - 1 \in 0..(n - 1) /\ (i - 1) + 1 = i
    BY <1>2
  <2>. QED
    BY <2>2, <1>4
<1>5. n \in Places /\ b1[n] = NUL /\ b1[LINE_MAX - 1] = NUL
  <2>1. n \in Places /\ ~(n < n)
    BY <1>1, <1>2 DEF Places
  <2>2. LINE_MAX - 1 \in Places /\ ~(LINE_MAX - 1 < n) /\ ~(LINE_MAX - 1 < LINE_MAX - 1)
    BY <1>1, <1>2 DEF Places
  <2>3. b1[LINE_MAX - 1] = b[LINE_MAX - 1]
    BY <2>2, <1>a
  <2>4. b1[n] = NUL
    <3>1. CASE n < LINE_MAX - 1
      BY <3>1, <2>1, <1>a
    <3>2. CASE ~(n < LINE_MAX - 1)
      <4>1. n = LINE_MAX - 1
        BY <3>2, <1>1, <1>2
      <4>. QED
        BY <4>1, <2>3
    <3>. QED
      BY <3>1, <3>2
  <2>. QED
    BY <2>1, <2>3, <2>4
<1>6. b1 \in [Places -> Bytes]
  <2>1. ASSUME NEW i \in Places PROVE b1[i] \in Bytes
    <3>1. CASE i < n
      <4>1. i \in 0..(n - 1)
        BY <3>1, <1>1, <1>2 DEF Places
      <4>2. b1[i] \in 1..255
        BY <4>1, <1>4
      <4>. QED
        BY <4>2 DEF Bytes
    <3>2. CASE ~(i < n)
      <4>1. b1[i] = NUL \/ b1[i] = b[i]
        BY <3>2, <1>a
      <4>2. b[i] \in Bytes /\ NUL \in Bytes
        BY DEF Bytes, NUL
      <4>. QED
        BY <4>1, <4>2
    <3>. QED
      BY <3>1, <3>2
  <2>. QED
    BY <2>1
<1>. HIDE DEF b1
<1>7. IsString(b1, n)
  BY <1>4, <1>5, <1>6 DEF IsString, NUL
<1>8. CString(b1) = Piece(b1, 0, n)
  BY <1>7, CStringIs
<1>9. Piece(b1, 0, n) = s
  <2>1. s \in Seq(Bytes)
    <3>1. s \in Seq(B)
      BY DEF IsLine, Strings
    <3>2. B \subseteq Bytes
      BY DEF Bytes
    <3>. HIDE DEF B
    <3>. QED
      BY <3>1, <3>2
  <2>2. /\ Piece(b1, 0, n) \in Seq(Bytes) /\ Len(Piece(b1, 0, n)) = n - 0
        /\ \A i \in 1..(n - 0) : Piece(b1, 0, n)[i] = b1[0 + i - 1]
    <3>1. 0 \in Nat /\ 0 =< n /\ n =< LINE_MAX
      BY <1>1, <1>2
    <3>. QED
      BY <3>1, <1>2, <1>6, PieceSeq
  <2>3. \A i \in 1..n : Piece(b1, 0, n)[i] = s[i]
    BY <2>2, <1>2, <1>3
  <2>4. Len(Piece(b1, 0, n)) = n /\ Len(s) = n
    BY <2>2, <1>2 DEF n
  <2>. QED
    BY <2>1, <2>2, <2>3, <2>4, SeqEqual
<1>10. Loaded(b, s) = [buf |-> b1, len |-> n, pos |-> n]
  <2>1. Loaded(b, s) = [buf |-> b1, len |-> Len(CString(b1)), pos |-> Len(CString(b1))]
    BY DEF Loaded, b1, n
  <2>. QED
    BY <2>1, <1>8, <1>9 DEF n
<1>11. IsText(Loaded(b, s))
  BY <1>2, <1>7, <1>10, MadeText
<1>12. Piece(b1, n, n) = <<>>
  BY <1>2 DEF Piece
<1>. QED
  BY <1>9, <1>10, <1>11, <1>12 DEF Before, After

-----------------------------------------------------------------------------
(* The screen. *)

\* The prompt is not empty and leaves a column for the cursor.
PromptFits == \A width \in Widths, len \in PromptLengths : 0 < len /\ len < width

\* The terminal and the prompt.
Sizes == gbl_cols \in Nat /\ gbl_plen \in Nat /\ 0 < gbl_plen /\ gbl_plen < gbl_cols

\* The screen s shows the text t.
Current(t, s) ==
  \E k \in 0..t.pos :
    LET n == Len(s.text) IN
    /\ k + n =< t.len /\ s.text = Piece(t.buf, k, k + n)
    /\ s.cursor = gbl_plen + t.pos - k /\ s.cursor < gbl_cols
    /\ gbl_plen + n =< gbl_cols
    /\ k + n = t.len \/ gbl_plen + n = gbl_cols

\* refresh draws a window with the cursor in it.
LEMMA DrawnIs ==
  ASSUME Sizes, NEW t, IsText(t)
  PROVE  Visible(t) >= 0 /\ Current(t, Drawn(t)) /\ Drawn(t).text \in Seq(Bytes)
<1> DEFINE k == Hidden(t)
           n == Visible(t)
           u == Piece(t.buf, k, k + n)
<1>1. /\ t.buf \in [Places -> Bytes] /\ t.pos \in Nat /\ t.len \in Nat /\ LINE_MAX \in Nat
      /\ t.pos =< t.len /\ t.len =< LINE_MAX
  BY TextFields
<1>2. /\ gbl_cols \in Nat /\ gbl_plen \in Nat /\ 0 < gbl_plen /\ gbl_plen < gbl_cols
  BY DEF Sizes
<1>3. k \in 0..t.pos /\ gbl_plen + t.pos - k < gbl_cols
  BY <1>1, <1>2 DEF Hidden
<1>4. n = IF gbl_plen + (t.len - k) > gbl_cols THEN gbl_cols - gbl_plen ELSE t.len - k
  BY DEF Visible
<1>. HIDE DEF k, n
<1>5. /\ n \in Nat /\ k \in Nat /\ k + n =< t.len /\ gbl_plen + n =< gbl_cols
      /\ k + n = t.len \/ gbl_plen + n = gbl_cols
  BY <1>1, <1>2, <1>3, <1>4
<1>6. u \in Seq(Bytes) /\ Len(u) = n
  <2>1. k + n \in Nat /\ k =< k + n /\ k + n =< LINE_MAX /\ (k + n) - k = n
    BY <1>1, <1>5
  <2>. QED
    BY <2>1, <1>1, <1>5, PieceSeq
<1>. HIDE DEF u
<1>7. gbl_plen + t.pos - k # 0
  BY <1>1, <1>2, <1>3
<1>8. Drawn(t).text = u /\ Drawn(t).cursor = gbl_plen + t.pos - k
  BY <1>7 DEF Drawn, CursorAt, k, n, u
<1>9. Current(t, Drawn(t))
  BY <1>3, <1>5, <1>6, <1>8 DEF Current, u
<1>. QED
  BY <1>5, <1>6, <1>8, <1>9 DEF n

\* A redraw does not crash, and shows the line unless it ends the process.
LEMMA RedrawIs ==
  ASSUME Sizes, NEW t, IsText(t), Redraw(t), shown.text \in Seq(Bytes)
  PROVE  /\ pc' \in {"line", "died"} /\ line' = t
         /\ shown'.text \in Seq(Bytes) /\ (pc' = "line" => Current(t, shown'))
<1>1. Visible(t) >= 0 /\ Current(t, Drawn(t)) /\ Drawn(t).text \in Seq(Bytes)
  BY DrawnIs
<1>2. Visible(t) \in Int
  BY TextFields DEF Sizes, Visible, Hidden
<1>3. ~(Visible(t) < 0)
  BY <1>1, <1>2
<1>. QED
  BY <1>1, <1>3 DEF Redraw

\* The string in the buffer is the text, and a line.
LEMMA LineOfText ==
  ASSUME NEW t, IsText(t)
  PROVE  /\ CString(t.buf) = Piece(t.buf, 0, t.len)
         /\ Before(t) \o After(t) = CString(t.buf)
         /\ IsLine(CString(t.buf)) /\ Len(CString(t.buf)) = t.len
<1>1. /\ t.buf \in [Places -> Bytes] /\ t.len \in Nat /\ t.len < LINE_MAX /\ LINE_MAX \in Nat
      /\ \A i \in 0..(t.len - 1) : t.buf[i] # NUL
  BY TextFields
<1>2. CString(t.buf) = Piece(t.buf, 0, t.len)
  BY CStringIs DEF IsText
<1>3. \A i \in 0..(t.len - 1) : t.buf[i] \in 1..255
  <2>. TAKE i \in 0..(t.len - 1)
  <2>1. i \in Places
    BY <1>1 DEF Places
  <2>. QED
    BY <2>1, <1>1 DEF Bytes, NUL
<1>4. Piece(t.buf, 0, t.len) \in Strings /\ Len(Piece(t.buf, 0, t.len)) = t.len
  <2> DEFINE B == 1..255
  <2>1. \A i \in 0..(t.len - 1) : t.buf[i] \in B
    BY <1>3
  <2>2. 0 \in Int /\ t.len \in Int /\ 0 =< t.len /\ t.len - 0 = t.len
    BY <1>1
  <2>. HIDE DEF B
  <2>3. Piece(t.buf, 0, t.len) \in Seq(B) /\ Len(Piece(t.buf, 0, t.len)) = t.len - 0
    BY <2>1, <2>2, PieceType
  <2>. QED
    BY <2>2, <2>3 DEF Strings, B
<1>5. Before(t) \o After(t) = Piece(t.buf, 0, t.len)
  BY WholeText
<1>. QED
  BY <1>1, <1>2, <1>4, <1>5 DEF IsLine

\* A copy is a new piece with the string in it.
LEMMA SdupIs ==
  ASSUME "nomem" \notin Faults, NEW h, NEW s, NEW m \in sdup(h, s)
  PROVE  /\ m.ptr \in Ptrs \ DOMAIN h /\ m.ptr # NULL
         /\ DOMAIN m.heap = DOMAIN h \cup {m.ptr}
         /\ m.heap[m.ptr] = s /\ \A q \in DOMAIN h : m.heap[q] = h[q]
<1>1. PICK p \in Ptrs \ DOMAIN h :
        m = [ptr |-> p, heap |-> [q \in DOMAIN h \cup {p} |-> IF q = p THEN s ELSE h[q]]]
  BY DEF sdup
<1>2. m.ptr = p /\ m.heap = [q \in DOMAIN h \cup {p} |-> IF q = p THEN s ELSE h[q]]
  BY <1>1
<1>. QED
  BY <1>2, MemorySuffices

\* What the slots in use hold, newest first.
Lines(slots, n, h) == [i \in 1..n |-> h[slots[i - 1]]]

\* Every string of the heap h is in S.
Holds(h, S) == \A p \in DOMAIN h : h[p] \in S

\* They are as many as there are slots in use.
LEMMA LinesAre ==
  ASSUME NEW slots, NEW n, NEW h, Owned(slots, n, h), NEW S, Holds(h, S)
  PROVE  /\ n \in Nat /\ Lines(slots, n, h) \in Seq(S) /\ Len(Lines(slots, n, h)) = n
         /\ DOMAIN Lines(slots, n, h) = 1..n
         /\ \A i \in 1..n : Lines(slots, n, h)[i] = h[slots[i - 1]]
<1>1. n \in Nat
  BY SizesPositive DEF Owned
<1>2. \A i \in 1..n : h[slots[i - 1]] \in S
  <2>. TAKE i \in 1..n
  <2>1. i - 1 \in 0..(n - 1)
    BY <1>1
  <2>2. slots[i - 1] \in DOMAIN h
    BY <2>1, SlotAllocated
  <2>. QED
    BY <2>2 DEF Holds
<1>3. Lines(slots, n, h) \in [1..n -> S]
  BY <1>2 DEF Lines
<1>. QED
  BY <1>1, <1>3 DEF Lines

-----------------------------------------------------------------------------
(* The lines of the history. *)

\* The new line is the first entry; the oldest goes where there is no room.
LEMMA AddHistoryLines ==
  ASSUME "nomem" \notin Faults, Owned(gbl_history, gbl_history_count, heap), addhistory,
         NEW S, <<>> \in S, Holds(heap, S)
  PROVE  /\ Holds(heap', S)
         /\ Lines(gbl_history', gbl_history_count', heap') =
            LET s == Lines(gbl_history, gbl_history_count, heap)
            IN SubSeq(<<<<>>>> \o s, 1, IF Len(s) < HISTORY_MAX THEN Len(s) + 1 ELSE HISTORY_MAX)
<1> DEFINE n == gbl_history_count
           full == n >= HISTORY_MAX
           len == IF full THEN HISTORY_MAX ELSE n + 1
           last == gbl_history[HISTORY_MAX - 1]
           s == Lines(gbl_history, n, heap)
           u == Lines(gbl_history', gbl_history_count', heap')
           w == <<<<>>>> \o s
<1>1. PICK m \in sdup(heap, <<>>) :
        IF m.ptr = NULL THEN UNCHANGED <<heap, gbl_history, gbl_history_count>>
        ELSE /\ heap' = IF full THEN Released(m.heap, last) ELSE m.heap
             /\ gbl_history' = [i \in History |-> IF i = 0 THEN m.ptr
                                                  ELSE IF i < len THEN gbl_history[i - 1]
                                                  ELSE gbl_history[i]]
             /\ gbl_history_count' = len
  BY DEF addhistory
<1>2. /\ m.ptr \in Ptrs \ DOMAIN heap /\ m.ptr # NULL
      /\ DOMAIN m.heap = DOMAIN heap \cup {m.ptr}
      /\ m.heap[m.ptr] = <<>> /\ \A q \in DOMAIN heap : m.heap[q] = heap[q]
  BY SdupIs
<1>3. /\ n \in 0..HISTORY_MAX /\ HISTORY_MAX \in Nat \ {0}
      /\ len \in 1..HISTORY_MAX /\ len - 1 =< n
      /\ len = IF n < HISTORY_MAX THEN n + 1 ELSE HISTORY_MAX
  BY SizesPositive DEF Owned
<1>4. Owned(gbl_history', gbl_history_count', heap') /\ gbl_history_count' = len
  BY <1>1, <1>2, AddHistoryOwned
<1>5. \A p \in DOMAIN heap' : heap'[p] = m.heap[p] /\ p \in DOMAIN m.heap
  BY <1>1, <1>2 DEF Released
<1>6. Holds(heap', S)
  BY <1>2, <1>5 DEF Holds
<1>7. s \in Seq(S) /\ Len(s) = n /\ \A i \in 1..n : s[i] = heap[gbl_history[i - 1]]
  BY LinesAre
<1>8. u \in Seq(S) /\ Len(u) = len /\ \A i \in 1..len : u[i] = heap'[gbl_history'[i - 1]]
  BY <1>4, <1>6, LinesAre
<1>9. /\ w \in Seq(S) /\ Len(w) = n + 1 /\ w[1] = <<>>
      /\ \A i \in 2..(n + 1) : w[i] = s[i - 1]
  <2>. HIDE DEF s
  <2>1. <<<<>>>> \in Seq(S) /\ Len(<<<<>>>>) = 1 /\ <<<<>>>>[1] = <<>>
    OBVIOUS
  <2>2. /\ w \in Seq(S) /\ Len(w) = 1 + n
        /\ \A i \in 1..1 : w[i] = <<<<>>>>[i]
        /\ \A i \in (1 + 1)..(1 + n) : w[i] = s[i - 1]
    BY <2>1, <1>7, ConcatIs
  <2>. HIDE DEF w
  <2>. QED
    BY <2>1, <2>2, <1>3
<1>. HIDE DEF s, u, w, len, full
<1>10. /\ SubSeq(w, 1, len) \in Seq(S) /\ Len(SubSeq(w, 1, len)) = len
       /\ \A i \in 1..len : SubSeq(w, 1, len)[i] = w[i]
  BY <1>3, <1>9
<1>11. \A i \in 1..len : u[i] = w[i]
  <2>. TAKE i \in 1..len
  <2>0. i - 1 \in 0..(len - 1) /\ i - 1 \in History
    BY <1>3 DEF History
  <2>1. gbl_history'[i - 1] \in DOMAIN heap'
    BY <2>0, <1>4, SlotAllocated
  <2>2. u[i] = m.heap[gbl_history'[i - 1]]
    BY <2>1, <1>5, <1>8
  <2>3. CASE i = 1
    <3>1. gbl_history'[i - 1] = m.ptr
      BY <2>0, <2>3, <1>1, <1>2
    <3>. QED
      BY <2>2, <2>3, <3>1, <1>2, <1>9
  <2>4. CASE i # 1
    <3>1. i - 1 # 0 /\ i - 1 < len /\ i \in 2..(n + 1) /\ i - 1 \in 1..n /\ (i - 1) - 1 \in 0..(n - 1)
      BY <2>4, <1>3
    <3>2. gbl_history'[i - 1] = gbl_history[(i - 1) - 1]
      BY <2>0, <3>1, <1>1, <1>2
    <3>3. gbl_history[(i - 1) - 1] \in DOMAIN heap
      BY <3>1, SlotAllocated
    <3>. QED
      BY <2>2, <3>1, <3>2, <3>3, <1>2, <1>7, <1>9
  <2>. QED
    BY <2>3, <2>4
<1>12. u = SubSeq(w, 1, len)
  BY <1>8, <1>10, <1>11, SeqEqual
<1>. QED
  BY <1>3, <1>6, <1>7, <1>12 DEF s, u, w

\* Enter drops the first entry, or makes it the line.
LEMMA ReplaceHistoryLines ==
  ASSUME "nomem" \notin Faults, Owned(gbl_history, gbl_history_count, heap),
         gbl_history_count > 0, NEW t, IsText(t), replacehistory(t),
         NEW S, CString(t.buf) \in S, Holds(heap, S)
  PROVE  /\ Holds(heap', S)
         /\ Lines(gbl_history', gbl_history_count', heap') =
            LET s == Lines(gbl_history, gbl_history_count, heap)
                text == CString(t.buf)
            IN IF text = <<>> \/ (Len(s) > 1 /\ text = s[2]) THEN Tail(s)
               ELSE [s EXCEPT ![1] = text]
<1> DEFINE n == gbl_history_count
           s == Lines(gbl_history, n, heap)
           u == Lines(gbl_history', gbl_history_count', heap')
           text == CString(t.buf)
<1>1. n \in 1..HISTORY_MAX /\ HISTORY_MAX \in Nat \ {0} /\ 0 \in 0..(n - 1)
  BY SizesPositive DEF Owned
<1>2. Owned(gbl_history', gbl_history_count', heap')
  BY ReplaceHistoryOwned
<1>3. s \in Seq(S) /\ Len(s) = n /\ \A i \in 1..n : s[i] = heap[gbl_history[i - 1]]
  BY LinesAre
<1>4. t.len = 0 <=> text = <<>>
  <2>1. IsLine(text) /\ Len(text) = t.len
    BY LineOfText
  <2>2. text \in Seq(1..255)
    BY <2>1 DEF IsLine, Strings
  <2>. HIDE DEF text
  <2> DEFINE B == 1..255
  <2>3. text \in Seq(B)
    BY <2>2
  <2>. HIDE DEF B
  <2>4. Len(text) = 0 <=> text = <<>>
    BY <2>3
  <2>. QED
    BY <2>1, <2>4
<1>5. Repeated(t) <=> Len(s) > 1 /\ text = s[2]
  <2>1. CASE n > 1
    <3>1. s[2] = heap[gbl_history[1]]
      BY <2>1, <1>1, <1>3
    <3>. QED
      BY <3>1, <1>3 DEF Repeated
  <2>2. CASE ~(n > 1)
    BY <2>2, <1>3 DEF Repeated
  <2>. QED
    BY <2>1, <2>2
<1>6. CASE t.len = 0 \/ Repeated(t)
  <2>1. /\ heap' = Released(heap, gbl_history[0])
        /\ gbl_history' = [i \in History |-> IF i + 1 < n THEN gbl_history[i + 1]
                                             ELSE gbl_history[i]]
        /\ gbl_history_count' = n - 1
    BY <1>6 DEF replacehistory
  <2>2. \A p \in DOMAIN heap' : heap'[p] = heap[p] /\ p \in DOMAIN heap
    BY <2>1 DEF Released
  <2>3. Holds(heap', S)
    BY <2>2 DEF Holds
  <2>4. u \in Seq(S) /\ Len(u) = n - 1 /\ \A i \in 1..(n - 1) : u[i] = heap'[gbl_history'[i - 1]]
    <3>1. /\ u \in Seq(S) /\ Len(u) = gbl_history_count'
          /\ \A i \in 1..gbl_history_count' : u[i] = heap'[gbl_history'[i - 1]]
      BY <1>2, <2>3, LinesAre
    <3>. HIDE DEF u
    <3>. QED
      BY <2>1, <3>1
  <2>. HIDE DEF s, u
  <2>5. Tail(s) \in Seq(S) /\ Len(Tail(s)) = n - 1 /\ \A i \in 1..(n - 1) : Tail(s)[i] = s[i + 1]
    <3>1. s # <<>>
      BY <1>1, <1>3
    <3>. QED
      BY <3>1, <1>1, <1>3
  <2>6. \A i \in 1..(n - 1) : u[i] = Tail(s)[i]
    <3>. TAKE i \in 1..(n - 1)
    <3>1. /\ i - 1 \in 0..((n - 1) - 1) /\ i - 1 \in History /\ (i - 1) + 1 < n /\ (i - 1) + 1 = i
          /\ i + 1 \in 1..n /\ (i + 1) - 1 = i
      BY <1>1 DEF History
    <3>2. gbl_history'[i - 1] = gbl_history[i]
      BY <3>1, <2>1
    <3>3. gbl_history'[i - 1] \in DOMAIN heap'
      BY <3>1, <1>2, <2>1, SlotAllocated
    <3>4. u[i] = heap[gbl_history[i]]
      BY <3>2, <3>3, <2>2, <2>4
    <3>. QED
      BY <3>1, <3>4, <1>3, <2>5
  <2>7. u = Tail(s)
    BY <1>1, <2>4, <2>5, <2>6, SeqEqual
  <2>8. text = <<>> \/ (Len(s) > 1 /\ text = s[2])
    BY <1>4, <1>5, <1>6
  <2>. QED
    BY <2>3, <2>7, <2>8 DEF s, u
<1>7. CASE ~(t.len = 0 \/ Repeated(t))
  <2>1. PICK m \in sdup(heap, text) :
          IF m.ptr = NULL THEN UNCHANGED <<heap, gbl_history>>
          ELSE /\ heap' = Released(m.heap, gbl_history[0])
               /\ gbl_history' = [gbl_history EXCEPT ![0] = m.ptr]
    BY <1>7 DEF replacehistory
  <2>2. /\ m.ptr \in Ptrs \ DOMAIN heap /\ m.ptr # NULL
        /\ DOMAIN m.heap = DOMAIN heap \cup {m.ptr}
        /\ m.heap[m.ptr] = text /\ \A q \in DOMAIN heap : m.heap[q] = heap[q]
    BY <2>1, SdupIs
  <2>3. /\ heap' = Released(m.heap, gbl_history[0])
        /\ gbl_history' = [gbl_history EXCEPT ![0] = m.ptr]
        /\ gbl_history_count' = n
    BY <1>7, <2>1, <2>2 DEF replacehistory
  <2>4. \A p \in DOMAIN heap' : heap'[p] = m.heap[p] /\ p \in DOMAIN m.heap
    BY <2>3 DEF Released
  <2>5. Holds(heap', S)
    BY <2>2, <2>4 DEF Holds
  <2>6. u \in Seq(S) /\ Len(u) = n /\ \A i \in 1..n : u[i] = heap'[gbl_history'[i - 1]]
    <3>1. /\ u \in Seq(S) /\ Len(u) = gbl_history_count'
          /\ \A i \in 1..gbl_history_count' : u[i] = heap'[gbl_history'[i - 1]]
      BY <1>2, <2>5, LinesAre
    <3>. HIDE DEF u
    <3>. QED
      BY <2>3, <3>1
  <2>. HIDE DEF s, u, text
  <2>7. /\ [s EXCEPT ![1] = text] \in Seq(S) /\ Len([s EXCEPT ![1] = text]) = n
        /\ [s EXCEPT ![1] = text][1] = text
        /\ \A i \in 2..n : [s EXCEPT ![1] = text][i] = s[i]
    <3>1. text \in S
      BY DEF text
    <3>. QED
      BY <3>1, <1>1, <1>3
  <2>8. \A i \in 1..n : u[i] = [s EXCEPT ![1] = text][i]
    <3>. TAKE i \in 1..n
    <3>1. i - 1 \in 0..(n - 1) /\ i - 1 \in History
      BY <1>1 DEF History
    <3>2. gbl_history'[i - 1] \in DOMAIN heap'
      BY <3>1, <1>2, <2>3, SlotAllocated
    <3>3. u[i] = m.heap[gbl_history'[i - 1]]
      BY <3>2, <2>4, <2>6
    <3>4. gbl_history \in [History -> Ptrs \cup {NULL}]
      BY DEF Owned
    <3>5. CASE i = 1
      <4>1. gbl_history'[i - 1] = m.ptr
        BY <3>1, <3>4, <3>5, <2>3
      <4>. QED
        BY <3>3, <3>5, <4>1, <2>2, <2>7
    <3>6. CASE i # 1
      <4>1. gbl_history'[i - 1] = gbl_history[i - 1] /\ i \in 2..n
        BY <3>1, <3>4, <3>6, <2>3, <1>1
      <4>2. gbl_history[i - 1] \in DOMAIN heap
        BY <3>1, SlotAllocated
      <4>. QED
        BY <3>3, <4>1, <4>2, <2>2, <2>7, <1>3
    <3>. QED
      BY <3>5, <3>6
  <2>9. u = [s EXCEPT ![1] = text]
    BY <2>6, <2>7, <2>8, SeqEqual
  <2>10. ~(text = <<>> \/ (Len(s) > 1 /\ text = s[2]))
    BY <1>4, <1>5, <1>7
  <2>. QED
    BY <2>5, <2>9, <2>10 DEF s, u, text
<1>. QED
  BY <1>6, <1>7

\* A move along the history: the slot shown keeps the text, another is shown.
LEMMA HistoryMoveLines ==
  ASSUME "nomem" \notin Faults, Owned(gbl_history, gbl_history_count, heap),
         gbl_historyi \in 0..(gbl_history_count - 1), Sizes, IsText(line),
         NEW delta \in Int, historymove(delta), \A p \in DOMAIN heap : IsLine(heap[p])
  PROVE  \/ pc' = "line" /\ UNCHANGED <<line, shown, hist>>
         \/ /\ \A p \in DOMAIN heap' : IsLine(heap'[p])
            /\ Redraw(line') /\ IsText(line') /\ After(line') = <<>>
            /\ \E i, j \in 1..gbl_history_count :
                 /\ Lines(gbl_history', gbl_history_count', heap') =
                    [Lines(gbl_history, gbl_history_count, heap) EXCEPT ![i] = CString(line.buf)]
                 /\ Before(line') = Lines(gbl_history', gbl_history_count', heap')[j]
<1> DEFINE n == gbl_history_count
           at == gbl_historyi
           old == gbl_history[at]
           to == IF at + delta < 0 THEN 0 ELSE IF at + delta >= n THEN n - 1 ELSE at + delta
           s == Lines(gbl_history, n, heap)
           u == Lines(gbl_history', gbl_history_count', heap')
           text == CString(line.buf)
           S == {x \in Strings : Len(x) < LINE_MAX}
           h == Released(heap, old)
<1>0. \A x : IsLine(x) <=> x \in S
  BY DEF IsLine
<1>. HIDE DEF S
<1>1. CASE n =< 1
  BY <1>1 DEF historymove
<1>2. CASE ~(n =< 1)
  <2>1. n \in 2..HISTORY_MAX /\ at \in 0..(n - 1) /\ to \in 0..(n - 1)
    BY <1>2, SizesPositive DEF Owned
  <2>2. old \in DOMAIN heap /\ at \in History /\ to \in History
    BY <2>1, SlotAllocated
  <2>3. PICK m \in sdup(h, text) :
          LET slots == [gbl_history EXCEPT ![at] = m.ptr]
              p == slots[to]
          IN /\ gbl_history' = slots /\ heap' = m.heap /\ gbl_historyi' = to
             /\ UNCHANGED gbl_history_count
             /\ IF p \in DOMAIN m.heap THEN Redraw(Loaded(line.buf, m.heap[p]))
                ELSE pc' = "crashed" /\ UNCHANGED <<line, shown>>
    <3>1. CanFree(old)
      BY <2>2 DEF CanFree, Allocated
    <3>. QED
      BY <1>2, <3>1 DEF historymove
  <2>4. /\ DOMAIN h = DOMAIN heap \ {old} /\ \A q \in DOMAIN h : h[q] = heap[q]
    BY DEF Released
  <2>. HIDE DEF h
  <2>5. /\ m.ptr \in Ptrs \ DOMAIN h /\ DOMAIN m.heap = DOMAIN h \cup {m.ptr}
        /\ m.heap[m.ptr] = text /\ \A q \in DOMAIN h : m.heap[q] = h[q]
    BY <2>3, SdupIs
  <2>6. Owned(gbl_history', n, heap') /\ gbl_history_count' = n
    BY <2>3, HistoryMoveOwned
  <2>7. IsLine(text)
    BY LineOfText
  <2>8. Holds(heap', S)
    BY <1>0, <2>3, <2>4, <2>5, <2>7 DEF Holds
  <2>9. s \in Seq(S) /\ Len(s) = n /\ \A i \in 1..n : s[i] = heap[gbl_history[i - 1]]
    <3>1. Holds(heap, S)
      BY <1>0 DEF Holds
    <3>. QED
      BY <3>1, LinesAre
  <2>10. u \in Seq(S) /\ Len(u) = n /\ \A i \in 1..n : u[i] = heap'[gbl_history'[i - 1]]
    <3>1. /\ u \in Seq(S) /\ Len(u) = gbl_history_count'
          /\ \A i \in 1..gbl_history_count' : u[i] = heap'[gbl_history'[i - 1]]
      BY <2>6, <2>8, LinesAre
    <3>. HIDE DEF u
    <3>. QED
      BY <2>6, <3>1
  <2>. HIDE DEF s, u, text, to
  <2>11. /\ [s EXCEPT ![at + 1] = text] \in Seq(S) /\ Len([s EXCEPT ![at + 1] = text]) = n
         /\ \A i \in 1..n : [s EXCEPT ![at + 1] = text][i] = IF i = at + 1 THEN text ELSE s[i]
    <3>1. text \in S /\ at + 1 \in 1..n
      BY <1>0, <2>1, <2>7
    <3>. QED
      BY <3>1, <2>1, <2>9
  <2>12. \A i \in 1..n : u[i] = [s EXCEPT ![at + 1] = text][i]
    <3>. TAKE i \in 1..n
    <3>1. i - 1 \in 0..(n - 1) /\ i - 1 \in History
      BY <2>1, SizesPositive DEF History
    <3>4. gbl_history \in [History -> Ptrs \cup {NULL}]
      BY DEF Owned
    <3>5. CASE i = at + 1
      <4>1. gbl_history'[i - 1] = m.ptr
        <5>1. i - 1 = at
          BY <3>5, <2>1
        <5>. QED
          BY <5>1, <2>2, <2>3, <3>4
      <4>. QED
        BY <3>5, <4>1, <2>3, <2>5, <2>10, <2>11
    <3>6. CASE i # at + 1
      <4>1. i - 1 # at
        BY <3>6, <2>1
      <4>2. gbl_history'[i - 1] = gbl_history[i - 1]
        BY <4>1, <3>1, <3>4, <2>3
      <4>3. gbl_history[i - 1] \in DOMAIN heap /\ gbl_history[i - 1] # old
        BY <3>1, <4>1, <2>1, SlotAllocated DEF Owned
      <4>4. heap'[gbl_history[i - 1]] = heap[gbl_history[i - 1]]
        BY <4>3, <2>3, <2>4, <2>5
      <4>. QED
        BY <3>6, <4>2, <4>4, <2>9, <2>10, <2>11
    <3>. QED
      BY <3>5, <3>6
  <2>13. u = [s EXCEPT ![at + 1] = text]
    BY <2>1, <2>10, <2>11, <2>12, SeqEqual
  <2>14. gbl_history'[to] \in DOMAIN heap'
    BY <2>1, <2>6, SlotAllocated
  <2>15. Redraw(Loaded(line.buf, heap'[gbl_history'[to]]))
    BY <2>3, <2>14
  <2>16. IsLine(heap'[gbl_history'[to]])
    BY <1>0, <2>8, <2>14 DEF Holds
  <2>17. /\ IsText(Loaded(line.buf, heap'[gbl_history'[to]]))
         /\ Before(Loaded(line.buf, heap'[gbl_history'[to]])) = heap'[gbl_history'[to]]
         /\ After(Loaded(line.buf, heap'[gbl_history'[to]])) = <<>>
    <3>1. line.buf \in [Places -> Bytes] /\ line.buf[LINE_MAX - 1] = NUL
      BY TextFields
    <3>. QED
      BY <2>16, <3>1, LoadedIs
  <2>18. line' = Loaded(line.buf, heap'[gbl_history'[to]])
    BY <2>15 DEF Redraw
  <2>19. Before(line') = u[to + 1]
    <3>1. to + 1 \in 1..n /\ (to + 1) - 1 = to
      BY <2>1
    <3>. QED
      BY <3>1, <2>10, <2>17, <2>18
  <2>20. at + 1 \in 1..n /\ to + 1 \in 1..n
    BY <2>1
  <2>21. \A p \in DOMAIN heap' : IsLine(heap'[p])
    BY <1>0, <2>8 DEF Holds
  <2>. QED
    BY <2>13, <2>15, <2>17, <2>18, <2>19, <2>20, <2>21 DEF s, u, text
<1>. QED
  BY <1>1, <1>2

-----------------------------------------------------------------------------
(* What holds between two bytes of input. *)

\* What the keys stand for.
Commands == Edits \cup {"older", "newer", "oldest", "newest", "tab"}

\* What a slot of the history may hold.
HistoryLines == {s \in Strings : Len(s) < LINE_MAX}

\* The buffer and the screen, besides the ownership of the slots.
Good == /\ pc # "crashed"
        /\ Sizes /\ IsText(line) /\ input \in Seq(Bytes)
        /\ gbl_complete_env \in Envs \cup {NoEnv}
        /\ Holds(heap, HistoryLines)
        /\ shown.text \in Seq(Bytes) /\ (Reading => Current(line, shown))

\* The same as a set.
LEMMA LinesFit == \A s : IsLine(s) <=> s \in HistoryLines
BY DEF IsLine, HistoryLines

\* An empty line is one.
LEMMA EmptyFits == <<>> \in HistoryLines
BY SizesPositive DEF HistoryLines, Strings

\* Prefixes are the same in both modules.
LEMMA SamePrefix ==
  \A s, t : /\ Text!IsPrefix(s, t) <=> IsPrefix(s, t)
            /\ Text!IsSuffix(s, t) <=> IsSuffix(s, t)
<1>1. \A s, t : Text!IsPrefix(s, t) <=> IsPrefix(s, t)
  BY DEF Text!IsPrefix, IsPrefix
<1>2. \A s : Text!Reverse(s) = Reverse(s)
  BY DEF Text!Reverse, Reverse
<1>. QED
  BY <1>1, <1>2 DEF Text!IsSuffix, IsSuffix

\* A step that may change the line, and nothing of the history, the result or
\* the sizes.
LEMMA EditStep ==
  ASSUME pc # "exit", pc' # "exit", UNCHANGED <<hist, result>>,
         Moves(line, line') \/ Erases(line, line') \/ Inserts(line, line')
  PROVE  Text!Next
<1>1. UNCHANGED <<gbl_history, gbl_history_count, gbl_historyi, heap, result>>
  BY DEF hist
<1>2. CASE Moves(line, line')
  BY <1>1, <1>2 DEF Text!Next, Text!Move, Moves, Before, After
<1>3. CASE Erases(line, line')
  BY <1>1, <1>3, SamePrefix DEF Text!Next, Text!Erase, Erases, Before, After
<1>4. CASE Inserts(line, line')
  BY <1>1, <1>4, SamePrefix DEF Text!Next, Text!Insert, Inserts, Before, After
<1>. QED
  BY <1>2, <1>3, <1>4

\* A step that changes none of them.
LEMMA SameStep ==
  ASSUME pc # "exit", pc' # "exit", UNCHANGED <<line, hist, result>>
  PROVE  UNCHANGED Text!vars
BY DEF Text!vars, hist

\* The numbers of the terminal and the heap stay.
LEMMA KeptGood ==
  ASSUME Good, UNCHANGED <<gbl_cols, gbl_plen, gbl_complete_env, heap>>,
         input' \in Seq(Bytes), pc' # "crashed", IsText(line'), shown'.text \in Seq(Bytes),
         Reading' => Current(line', shown')
  PROVE  Good'
BY DEF Good, Sizes, Current, Holds

\* What is read is a byte.
LEMMA ReadByte ==
  ASSUME Good, NEW at, Read(at)
  PROVE  pc = at /\ c \in Bytes /\ input' \in Seq(Bytes)
BY DEF Good, Read, c

\* A command of the loop.
LEMMA DoGood ==
  ASSUME "nomem" \notin Faults, Inv, Good, Reading, NEW op \in Commands, Do(op),
         input' \in Seq(Bytes)
  PROVE  /\ Good' /\ pc' \in {"line", "died"} /\ UNCHANGED session
         /\ Text!Next \/ UNCHANGED Text!vars
<1>0. /\ UNCHANGED session /\ pc # "exit" /\ Sizes /\ IsText(line)
      /\ UNCHANGED <<gbl_cols, gbl_plen, gbl_complete_env, result>>
      /\ shown.text \in Seq(Bytes) /\ Current(line, shown)
  BY DEF Do, session, call, Reading, Good
<1>1. CASE op \in {"older", "newer", "oldest", "newest"}
  <2>1. PICK delta \in {1, -1, HISTORY_MAX, -HISTORY_MAX} : historymove(delta)
    BY <1>1 DEF Do
  <2>2. delta \in Int
    BY <2>1, SizesPositive
  <2>3. /\ Owned(gbl_history, gbl_history_count, heap)
        /\ gbl_historyi \in 0..(gbl_history_count - 1)
    BY <1>0 DEF Inv
  <2>4. \A p \in DOMAIN heap : IsLine(heap[p])
    BY LinesFit DEF Good, Holds
  <2>5. \/ pc' = "line" /\ UNCHANGED <<line, shown, hist>>
        \/ /\ \A p \in DOMAIN heap' : IsLine(heap'[p])
           /\ Redraw(line') /\ IsText(line') /\ After(line') = <<>>
           /\ \E i, j \in 1..gbl_history_count :
                /\ Lines(gbl_history', gbl_history_count', heap') =
                   [Lines(gbl_history, gbl_history_count, heap) EXCEPT ![i] = CString(line.buf)]
                /\ Before(line') = Lines(gbl_history', gbl_history_count', heap')[j]
    BY <1>0, <2>1, <2>2, <2>3, <2>4, HistoryMoveLines
  <2>6. CASE pc' = "line" /\ UNCHANGED <<line, shown, hist>>
    <3>1. Good'
      BY <1>0, <2>6, KeptGood DEF hist
    <3>. QED
      BY <1>0, <2>6, <3>1, SameStep
  <2>7. CASE /\ \A p \in DOMAIN heap' : IsLine(heap'[p])
             /\ Redraw(line') /\ IsText(line') /\ After(line') = <<>>
             /\ \E i, j \in 1..gbl_history_count :
                  /\ Lines(gbl_history', gbl_history_count', heap') =
                     [Lines(gbl_history, gbl_history_count, heap) EXCEPT ![i] = CString(line.buf)]
                  /\ Before(line') = Lines(gbl_history', gbl_history_count', heap')[j]
    <3>1. /\ pc' \in {"line", "died"} /\ shown'.text \in Seq(Bytes)
          /\ Reading' => Current(line', shown')
      BY <1>0, <2>7, RedrawIs DEF Reading
    <3>2. Holds(heap', HistoryLines)
      BY <2>7, LinesFit DEF Holds
    <3>3. Good'
      BY <1>0, <2>7, <3>1, <3>2 DEF Good, Sizes, Current, Holds
    <3>4. CString(line.buf) = Before(line) \o After(line)
      BY <1>0, LineOfText
    <3>5. DOMAIN Lines(gbl_history, gbl_history_count, heap) = 1..gbl_history_count
      BY DEF Lines
    <3>6. Text!Recall
      BY <1>0, <2>7, <3>1, <3>4, <3>5 DEF Text!Recall, Lines, Before, After
    <3>. QED
      BY <1>0, <3>1, <3>3, <3>6 DEF Text!Next
  <2>. QED
    BY <2>5, <2>6, <2>7
<1>2. ASSUME UNCHANGED hist, NEW t, IsText(t), Redraw(t),
             Moves(line, t) \/ Erases(line, t) \/ Inserts(line, t)
      PROVE  Good' /\ pc' \in {"line", "died"} /\ Text!Next
  <2>1. /\ pc' \in {"line", "died"} /\ line' = t /\ shown'.text \in Seq(Bytes)
        /\ Reading' => Current(t, shown')
    BY <1>0, <1>2, RedrawIs DEF Reading
  <2>2. Good'
    BY <1>0, <1>2, <2>1, KeptGood DEF hist
  <2>3. Text!Next
    BY <1>0, <1>2, <2>1, EditStep
  <2>. QED
    BY <2>1, <2>2, <2>3
<1>3. CASE op = "tab"
  <2>1. Redraw(kshowcomp(line).text) /\ UNCHANGED hist
    BY <1>3 DEF Do
  <2>2. /\ IsText(kshowcomp(line).text)
        /\ Moves(line, kshowcomp(line).text) \/ Inserts(line, kshowcomp(line).text)
    BY <1>0, CompletionEffect DEF Good
  <2>. QED
    BY <1>0, <1>2, <2>1, <2>2
<1>4. CASE op \in Edits
  <2>1. op \notin {"older", "newer", "oldest", "newest", "tab"}
    BY <1>4 DEF Edits
  <2>2. /\ IF Silent(op, line) THEN pc' = "line" /\ UNCHANGED <<line, shown>>
           ELSE Redraw(TextAfter(op, line))
        /\ UNCHANGED hist
    BY <2>1 DEF Do
  <2>3. /\ IsText(TextAfter(op, line))
        /\ Moves(line, TextAfter(op, line)) \/ Erases(line, TextAfter(op, line))
    BY <1>0, <1>4, EditEffect
  <2>4. CASE Silent(op, line)
    <3>1. Good'
      BY <1>0, <2>2, <2>4, KeptGood DEF hist
    <3>. QED
      BY <1>0, <2>2, <2>4, <3>1, SameStep
  <2>5. CASE ~Silent(op, line)
    BY <1>0, <1>2, <2>2, <2>3, <2>5
  <2>. QED
    BY <2>4, <2>5
<1>. QED
  BY <1>1, <1>3, <1>4 DEF Commands

-----------------------------------------------------------------------------
(* The actions: the start of a line, a character, Enter. *)

\* The step to the state that Good' describes is one of the text, or none.
TextStep == Text!Next \/ UNCHANGED Text!vars

\* A new line is opened.
LEMMA BeginGood ==
  ASSUME "nomem" \notin Faults, PromptFits, Inv, Good, Begin
  PROVE  Good' /\ TextStep
<1>1. /\ pc = "idle" /\ line' = [buf |-> [line.buf EXCEPT ![0] = NUL], len |-> 0, pos |-> 0]
      /\ shown' = [text |-> <<>>, cursor |-> gbl_plen'] /\ result' = <<>>
      /\ gbl_cols' \in Widths /\ gbl_plen' \in PromptLengths /\ gbl_complete_env' \in Envs
      /\ UNCHANGED input
  BY DEF Begin
<1>2. Owned(gbl_history, gbl_history_count, heap)
  BY <1>1 DEF Inv
<1>3. pc' = "line" /\ addhistory
  <2>1. gbl_history_count \in 0..HISTORY_MAX /\ ~(gbl_history_count < 0)
    BY <1>2, SizesPositive DEF Owned
  <2>. QED
    BY <2>1 DEF Begin
<1>4. Sizes'
  <2>1. gbl_cols' \in Nat /\ gbl_plen' \in Nat
    BY <1>1, ScreenSizes
  <2>. QED
    BY <1>1, <2>1 DEF Sizes, PromptFits
<1>5. IsText(line')
  <2> DEFINE b == [line.buf EXCEPT ![0] = NUL]
  <2>1. line.buf \in [Places -> Bytes] /\ line.buf[LINE_MAX - 1] = NUL
    BY TextFields DEF Good
  <2>2. 0 \in Places /\ LINE_MAX - 1 \in Places
    BY SizesPositive DEF Places
  <2>3. b \in [Places -> Bytes] /\ b[0] = NUL /\ b[LINE_MAX - 1] = NUL
    BY <2>1, <2>2 DEF Bytes, NUL
  <2>. HIDE DEF b
  <2>4. IsString(b, 0)
    BY <2>2, <2>3 DEF IsString
  <2>5. IsText([buf |-> b, len |-> 0, pos |-> 0])
    BY <2>4, MadeText
  <2>. QED
    BY <1>1, <2>5 DEF b
<1>6. Current(line, shown)' /\ shown'.text \in Seq(Bytes)
  <2>1. /\ line'.len = 0 /\ line'.pos = 0
        /\ shown'.text = <<>> /\ shown'.cursor = gbl_plen'
    BY <1>1
  <2>2. Piece(line'.buf, 0, 0) = <<>>
    BY DEF Piece
  <2>3. gbl_plen' \in Nat /\ gbl_cols' \in Nat /\ gbl_plen' < gbl_cols'
    BY <1>4 DEF Sizes
  <2>4. Len(<<>>) = 0 /\ 0 + 0 = 0 /\ 0 \in 0..0
    OBVIOUS
  <2>. QED
    BY <2>1, <2>2, <2>3, <2>4 DEF Current
<1>7. /\ Holds(heap', HistoryLines)
      /\ Lines(gbl_history', gbl_history_count', heap') =
         LET s == Lines(gbl_history, gbl_history_count, heap)
         IN SubSeq(<<<<>>>> \o s, 1, IF Len(s) < HISTORY_MAX THEN Len(s) + 1 ELSE HISTORY_MAX)
  BY <1>2, <1>3, EmptyFits, AddHistoryLines DEF Good
<1>8. Good'
  BY <1>1, <1>3, <1>4, <1>5, <1>6, <1>7 DEF Good
<1>9. Text!Open
  <2>1. line'.pos = 0 /\ line'.len = 0
    BY <1>1
  <2>2. Piece(line'.buf, 0, 0) = <<>>
    BY DEF Piece
  <2>. QED
    BY <1>1, <1>3, <1>7, <2>1, <2>2 DEF Text!Open, Lines
<1>. QED
  BY <1>8, <1>9 DEF TextStep, Text!Next

\* A byte of text, drawn or written at the end.
LEMMA TypeCharGood ==
  ASSUME Good, TypeChar
  PROVE  Good' /\ TextStep /\ pc' \in {"line", "died"} /\ UNCHANGED session
<1>1. /\ pc = "line" /\ c \in Bytes /\ input' \in Seq(Bytes)
      /\ UNCHANGED <<hist, session>> /\ Signed(c) >= 32
  BY ReadByte DEF TypeChar
<1>2. /\ Sizes /\ IsText(line) /\ shown.text \in Seq(Bytes) /\ Current(line, shown)
      /\ UNCHANGED <<gbl_cols, gbl_plen, gbl_complete_env, heap, result>>
  BY <1>1 DEF Good, Reading, session, call, hist
<1>3. c \in 1..255
  BY <1>1 DEF Bytes, Signed
<1> DEFINE t == insert(line, <<c>>)
<1>4. IsText(t) /\ Inserts(line, t)
  BY <1>2, <1>3, TypedEffect
<1>5. CASE Room(line) = 0
  <2>1. pc' = "line" /\ UNCHANGED <<line, shown>>
    BY <1>5 DEF TypeChar
  <2>. QED
    BY <1>1, <1>2, <2>1, KeptGood, SameStep DEF TextStep
<1>6. CASE Room(line) # 0 /\ ~(line.pos = line.len /\ FitsOnScreen(t))
  <2>1. Redraw(t)
    BY <1>6 DEF TypeChar
  <2>. HIDE DEF t
  <2>2. /\ pc' \in {"line", "died"} /\ line' = t /\ shown'.text \in Seq(Bytes)
        /\ Reading' => Current(t, shown')
    BY <1>2, <1>4, <2>1, RedrawIs DEF Reading
  <2>3. Good'
    BY <1>1, <1>2, <1>4, <2>2, KeptGood
  <2>4. Text!Next
    BY <1>1, <1>2, <1>4, <2>2, EditStep
  <2>. QED
    BY <1>1, <2>2, <2>3, <2>4 DEF TextStep
<1>7. CASE Room(line) # 0 /\ line.pos = line.len /\ FitsOnScreen(t)
  <2>1. /\ pc' = "line" /\ line' = t
        /\ shown' = [text |-> Append(shown.text, c), cursor |-> shown.cursor + 1]
    BY <1>7 DEF TypeChar
  <2>2. /\ line.buf \in [Places -> Bytes] /\ line.len \in Nat /\ line.pos = line.len
        /\ line.len < LINE_MAX /\ LINE_MAX \in Nat
    BY <1>2, <1>7, TextFields
  <2>3. /\ t.len = line.len + 1 /\ t.pos = line.len + 1
        /\ \A i \in 0..(line.len - 1) : t.buf[i] = line.buf[i]
        /\ t.buf[line.len] = c
    <3> DEFINE s == <<c>>
    <3>1. s \in Strings /\ Len(s) = 1 /\ s[1] = c
      BY <1>3 DEF Strings
    <3>. HIDE DEF s
    <3>2. Room(line) \in Nat /\ ~(1 < Room(line)) => Room(line) = 1
      BY <1>7, <2>2 DEF Room
    <3>3. PICK n \in 0..Len(s) :
            /\ n = IF Len(s) < Room(line) THEN Len(s) ELSE Room(line)
            /\ insert(line, s).len = line.len + n /\ insert(line, s).pos = line.pos + n
            /\ \A i \in 0..(line.pos - 1) : insert(line, s).buf[i] = line.buf[i]
            /\ \A i \in 1..n : insert(line, s).buf[line.pos + i - 1] = s[i]
      BY <1>2, <3>1, InsertText
    <3>4. n = 1
      <4>1. Room(line) \in Nat \ {0}
        BY <1>7, <2>2 DEF Room
      <4>. QED
        BY <4>1, <3>1, <3>3
    <3>5. 1 \in 1..n /\ line.pos + 1 - 1 = line.len
      BY <2>2, <3>4
    <3>. QED
      BY <2>2, <3>1, <3>3, <3>4, <3>5 DEF t, s
  <2>. HIDE DEF t
  <2>4. gbl_plen + line.len + 1 < gbl_cols /\ gbl_plen \in Nat /\ gbl_cols \in Nat
    BY <1>2, <1>7, <2>2, <2>3 DEF FitsOnScreen, Sizes
  <2> DEFINE n == Len(shown.text)
  <2>5. PICK k \in 0..line.pos :
          /\ k + n =< line.len /\ shown.text = Piece(line.buf, k, k + n)
          /\ shown.cursor = gbl_plen + line.pos - k /\ shown.cursor < gbl_cols
          /\ gbl_plen + n =< gbl_cols
          /\ k + n = line.len \/ gbl_plen + n = gbl_cols
    BY <1>2 DEF Current
  <2>6. n \in Nat
    BY <1>2
  <2>7. k + n = line.len /\ k \in Nat
    BY <2>2, <2>4, <2>5, <2>6
  <2>8. shown'.text \in Seq(Bytes) /\ Len(shown'.text) = n + 1 /\ shown'.cursor = shown.cursor + 1
    BY <1>1, <1>2, <2>1
  <2>9. shown'.text = Piece(t.buf, k, k + (n + 1))
    <3>1. t.buf \in [Places -> Bytes] /\ t.len =< LINE_MAX
      BY <1>4, TextFields
    <3>2. /\ Piece(t.buf, k, k + (n + 1)) \in Seq(Bytes)
          /\ Len(Piece(t.buf, k, k + (n + 1))) = n + 1
          /\ \A i \in 1..(n + 1) : Piece(t.buf, k, k + (n + 1))[i] = t.buf[k + i - 1]
      <4>1. /\ k + (n + 1) \in Nat /\ k =< k + (n + 1) /\ k + (n + 1) =< LINE_MAX
            /\ (k + (n + 1)) - k = n + 1
        BY <2>2, <2>3, <2>6, <2>7, <3>1
      <4> DEFINE q == k + (n + 1)
      <4>2. q \in Nat /\ k =< q /\ q =< LINE_MAX /\ q - k = n + 1 /\ k \in Nat
        BY <2>7, <4>1
      <4>. HIDE DEF q
      <4>3. /\ Piece(t.buf, k, q) \in Seq(Bytes) /\ Len(Piece(t.buf, k, q)) = q - k
            /\ \A i \in 1..(q - k) : Piece(t.buf, k, q)[i] = t.buf[k + i - 1]
        BY <3>1, <4>2, PieceSeq
      <4>. QED
        BY <4>2, <4>3 DEF q
    <3>3. \A i \in 1..n : shown.text[i] = line.buf[k + i - 1]
      <4>1. k + n \in Nat /\ k =< k + n /\ k + n =< LINE_MAX /\ (k + n) - k = n
        BY <2>2, <2>6, <2>7
      <4> DEFINE q == k + n
      <4>2. q \in Nat /\ k =< q /\ q =< LINE_MAX /\ q - k = n /\ k \in Nat
        BY <2>7, <4>1
      <4>3. shown.text = Piece(line.buf, k, q)
        BY <2>5
      <4>. HIDE DEF q
      <4>4. /\ Piece(line.buf, k, q) \in Seq(Bytes) /\ Len(Piece(line.buf, k, q)) = q - k
            /\ \A i \in 1..(q - k) : Piece(line.buf, k, q)[i] = line.buf[k + i - 1]
        <5>1. line.buf \in [Places -> Bytes]
          BY <2>2
        <5>. HIDE DEF n
        <5>2. q \in Nat /\ k \in Nat /\ k =< q /\ q =< LINE_MAX
          BY <4>2
        <5>. QED
          BY <5>1, <5>2, PieceSeq
      <4>5. \A i \in 1..n : Piece(line.buf, k, q)[i] = line.buf[k + i - 1]
        BY <4>2, <4>4
      <4>. QED
        BY <4>3, <4>5
    <3>4. \A i \in 1..n : shown'.text[i] = shown.text[i]
      BY <1>1, <1>2, <2>1
    <3>5. shown'.text[n + 1] = c
      BY <1>1, <1>2, <2>1
    <3>. HIDE DEF n
    <3>6. \A i \in 1..(n + 1) : shown'.text[i] = Piece(t.buf, k, k + (n + 1))[i]
      <4>. TAKE i \in 1..(n + 1)
      <4>1. CASE i = n + 1
        <5>1. k + i - 1 = line.len
          BY <4>1, <2>2, <2>6, <2>7
        <5>. QED
          BY <4>1, <5>1, <2>3, <3>2, <3>5
      <4>2. CASE i # n + 1
        <5>1. i \in 1..n /\ k + i - 1 \in 0..(line.len - 1)
          BY <4>2, <2>2, <2>6, <2>7
        <5>. QED
          BY <5>1, <2>3, <3>2, <3>3, <3>4
      <4>. QED
        BY <4>1, <4>2
    <3>. QED
      BY <2>8, <3>2, <3>6, SeqEqual DEF n
  <2>10. Current(t, shown')
    <3> DEFINE m == Len(shown'.text)
    <3>1. m = n + 1
      BY <2>8
    <3>. HIDE DEF n, m
    <3>2. /\ k \in 0..t.pos /\ k + m =< t.len
          /\ shown'.cursor = gbl_plen + t.pos - k /\ shown'.cursor < gbl_cols
          /\ gbl_plen + m =< gbl_cols /\ k + m = t.len
      <4>1. k \in 0..t.pos /\ k + m = t.len /\ k + m =< t.len
        BY <2>2, <2>3, <2>6, <2>7, <3>1
      <4>2. gbl_plen + m =< gbl_cols
        BY <2>2, <2>4, <2>6, <2>7, <3>1
      <4>3. shown'.cursor = gbl_plen + t.pos - k
        BY <2>2, <2>3, <2>4, <2>5, <2>7, <2>8
      <4>4. shown'.cursor < gbl_cols
        BY <4>3, <2>2, <2>3, <2>4, <2>7
      <4>. QED
        BY <4>1, <4>2, <4>3, <4>4
    <3>3. shown'.text = Piece(t.buf, k, k + m)
      BY <2>9, <3>1
    <3>. QED
      BY <3>2, <3>3 DEF Current, m
  <2>11. Good'
    BY <1>1, <1>2, <1>4, <2>1, <2>8, <2>10, KeptGood
  <2>12. Text!Next
    BY <1>1, <1>2, <1>4, <2>1, EditStep
  <2>. QED
    BY <1>1, <2>1, <2>11, <2>12 DEF TextStep
<1>. QED
  BY <1>5, <1>6, <1>7

\* The line is returned and remembered.
LEMMA EnterGood ==
  ASSUME "nomem" \notin Faults, Inv, Good, Enter
  PROVE  /\ Good' /\ TextStep /\ pc' = "idle"
         /\ result' = Append(CString(line.buf), 10)
         /\ LET s == Lines(gbl_history, gbl_history_count, heap)
                text == CString(line.buf)
            IN Lines(gbl_history', gbl_history_count', heap') =
               IF text = <<>> \/ (Len(s) > 1 /\ text = s[2]) THEN Tail(s)
               ELSE [s EXCEPT ![1] = text]
<1>1. pc = "line" /\ input' \in Seq(Bytes) /\ UNCHANGED <<line, shown, gbl_cols, gbl_plen>>
      /\ gbl_complete_env' = NoEnv
  BY ReadByte DEF Enter
<1>2. Owned(gbl_history, gbl_history_count, heap) /\ gbl_history_count > 0
  BY <1>1 DEF Inv, Reading, Owned
<1>3. ~HistoryBroken
  <2>1. 0 \in 0..(gbl_history_count - 1)
    BY <1>2, SizesPositive DEF Owned
  <2>2. gbl_history_count > 1 => 1 \in 0..(gbl_history_count - 1)
    BY <1>2, SizesPositive DEF Owned
  <2>3. gbl_history[0] \in DOMAIN heap
    BY <1>2, <2>1, SlotAllocated
  <2>4. gbl_history_count > 1 => gbl_history[1] \in DOMAIN heap
    BY <1>2, <2>2, SlotAllocated
  <2>. QED
    BY <2>3, <2>4 DEF HistoryBroken, CanFree, Allocated
<1>4. pc' = "idle" /\ replacehistory(line)
  BY <1>3 DEF Enter
<1>5. IsText(line) /\ CString(line.buf) = Piece(line.buf, 0, line.len)
      /\ Before(line) \o After(line) = CString(line.buf) /\ CString(line.buf) \in HistoryLines
  BY LineOfText, LinesFit DEF Good
<1>6. /\ Holds(heap', HistoryLines)
      /\ Lines(gbl_history', gbl_history_count', heap') =
         LET s == Lines(gbl_history, gbl_history_count, heap)
             text == CString(line.buf)
         IN IF text = <<>> \/ (Len(s) > 1 /\ text = s[2]) THEN Tail(s)
            ELSE [s EXCEPT ![1] = text]
  BY <1>2, <1>4, <1>5, ReplaceHistoryLines DEF Good
<1>7. Good'
  BY <1>1, <1>4, <1>6 DEF Good, Sizes, Reading
<1>8. result' = Append(CString(line.buf), 10)
  BY <1>5 DEF Enter, Returned
<1>9. Lines(gbl_history, gbl_history_count, heap) # <<>>
  <2>1. Holds(heap, HistoryLines)
    BY DEF Good
  <2>2. Len(Lines(gbl_history, gbl_history_count, heap)) = gbl_history_count
    BY <1>2, <2>1, LinesAre
  <2>. QED
    BY <1>2, <2>2
<1>10. Text!Enter
  BY <1>1, <1>4, <1>5, <1>6, <1>8, <1>9 DEF Text!Enter, Text!text, Lines, Before, After
<1>. QED
  BY <1>4, <1>6, <1>7, <1>8, <1>10 DEF TextStep, Text!Next

-----------------------------------------------------------------------------
(* The other actions. *)

\* Every key stands for a command.
LEMMA KeysCommand ==
  \A b : /\ Control(b) \in Commands /\ Alt(b) \in Commands
         /\ Csi(b) \in Commands /\ Extended(b) \in Commands
<1>1. \A b : Control(b) \in Commands
  BY DEF Control, Commands, Edits
<1>2. \A b : Alt(b) \in Commands
  BY DEF Alt, Commands, Edits
<1>3. \A b : Csi(b) \in Commands
  BY DEF Csi, Commands, Edits
<1>4. \A b : Extended(b) \in Commands
  BY DEF Extended, Commands, Edits
<1>. QED
  BY <1>1, <1>2, <1>3, <1>4

\* A byte of Keys, alone, is input.
LEMMA KeyInput ==
  ASSUME NEW key \in Keys
  PROVE  key \in Seq(Bytes) /\ \A i \in DOMAIN key : <<key[i]>> \in Seq(Bytes)
<1>1. key \in Seq(Bytes)
  BY KeysAreBytes
<1>2. \A i \in DOMAIN key : key[i] \in Bytes
  BY <1>1
<1>. QED
  BY <1>1, <1>2

\* The steps of the loop that run a command, or go further into an escape.
LEMMA CommandGood ==
  ASSUME "nomem" \notin Faults, Inv, Good, ControlKey \/ EscapeKey \/ AltKey \/ CsiKey \/ ExtendedKey
  PROVE  /\ Good' /\ TextStep /\ UNCHANGED session
         /\ pc \in {"line", "esc", "csi", "ext"} /\ pc' \in {"line", "esc", "csi", "ext", "died"}
<1>1. /\ Reading /\ pc \in {"line", "esc", "csi", "ext"} /\ input' \in Seq(Bytes)
      /\ IsText(line) /\ shown.text \in Seq(Bytes) /\ Current(line, shown)
  BY ReadByte DEF ControlKey, EscapeKey, AltKey, CsiKey, ExtendedKey, Reading, Good
<1>2. ASSUME NEW op \in Commands, Do(op)
      PROVE  Good' /\ TextStep /\ UNCHANGED session /\ pc' \in {"line", "died"}
  BY <1>1, <1>2, DoGood DEF TextStep
<1>3. ASSUME UNCHANGED <<display, hist, session>>, pc' \in {"esc", "csi", "ext"}
      PROVE  Good' /\ TextStep /\ UNCHANGED session
  <2>1. /\ UNCHANGED <<line, shown, heap, gbl_cols, gbl_plen, gbl_complete_env, hist, result>>
        /\ pc' # "crashed" /\ pc # "exit" /\ pc' # "exit"
    BY <1>1, <1>3 DEF display, hist, session, call
  <2>2. Good'
    BY <1>1, <2>1, KeptGood
  <2>. QED
    BY <1>3, <2>1, <2>2, SameStep DEF TextStep
<1>4. CASE ControlKey
  BY <1>1, <1>2, <1>4, KeysCommand DEF ControlKey
<1>5. CASE EscapeKey
  BY <1>1, <1>3, <1>5 DEF EscapeKey
<1>6. CASE AltKey
  <2>1. Do(Alt(c)) \/ (UNCHANGED <<display, hist, session>> /\ pc' = "csi")
    BY <1>6 DEF AltKey
  <2>. QED
    BY <1>1, <1>2, <1>3, <2>1, KeysCommand
<1>7. CASE CsiKey
  <2>1. Do(Csi(c)) \/ (UNCHANGED <<display, hist, session>> /\ pc' = "ext")
    BY <1>7 DEF CsiKey
  <2>. QED
    BY <1>1, <1>2, <1>3, <2>1, KeysCommand
<1>8. CASE ExtendedKey
  <2>1. "none" \in Commands
    BY DEF Commands, Edits
  <2>2. PICK op \in Commands : Do(op)
    BY <1>8, <2>1, KeysCommand DEF ExtendedKey
  <2>. QED
    BY <1>1, <1>2, <2>2
<1>. QED
  BY <1>4, <1>5, <1>6, <1>7, <1>8

\* The steps that leave the line and the history alone.
LEMMA QuietGood ==
  ASSUME Good, \/ BeginSimple \/ BeginDies \/ Suspend \/ Interrupt \/ EndOfInput \/ Hangup \/ HangupInEscape
               \/ \E key \in Keys : Press(key)
  PROVE  Good' /\ TextStep
<1>1. CASE BeginSimple \/ BeginDies
  <2>1. /\ pc = "idle" /\ pc' \in {"idle", "died"}
        /\ UNCHANGED <<input, line, shown, heap, gbl_cols, gbl_plen,
                       gbl_complete_env, gbl_history, gbl_history_count>>
    BY <1>1 DEF BeginSimple, BeginDies, display
  <2>2. Good'
    BY <2>1 DEF Good, Sizes, Current, Holds, Reading
  <2>3. Text!Plain
    BY <2>1 DEF Text!Plain, Text!text
  <2>. QED
    BY <2>2, <2>3 DEF TextStep, Text!Next
<1>2. ASSUME UNCHANGED <<line, shown, hist, gbl_cols, gbl_plen, result>>, pc' # "exit",
             pc' # "crashed", Reading, input' \in Seq(Bytes),
             gbl_complete_env' \in {NoEnv, gbl_complete_env}
      PROVE  Good' /\ TextStep
  <2>1. Good'
    BY <1>2 DEF Good, Sizes, Current, Holds, hist, NoEnv
  <2>2. pc # "exit"
    BY <1>2 DEF Reading
  <2>. QED
    BY <1>2, <2>1, <2>2, SameStep DEF TextStep
<1>3. CASE Suspend
  BY <1>2, <1>3, ReadByte DEF Suspend, Reading, display, call
<1>4. CASE Interrupt \/ EndOfInput \/ Hangup
  <2>1. pc = "line" /\ input' \in Seq(Bytes)
    BY <1>4, ReadByte DEF Interrupt, EndOfInput, Hangup, Good
  <2>2. /\ UNCHANGED <<line, shown, hist, gbl_cols, gbl_plen, result>>
        /\ pc' \in {SigintFate, "idle"} /\ gbl_complete_env' = NoEnv
    BY <1>4 DEF Interrupt, EndOfInput, Hangup, Abandoned
  <2>. QED
    BY <1>2, <2>1, <2>2, SigintKillsOrNot DEF Reading
<1>5. CASE HangupInEscape
  <2>1. /\ pc \in {"esc", "csi", "ext"} /\ pc' \in {"esc", "csi", "ext", "line"}
        /\ UNCHANGED <<line, shown, hist, gbl_cols, gbl_plen, result, gbl_complete_env>>
    BY <1>5 DEF HangupInEscape, display, session, call
  <2>2. input' \in Seq(Bytes)
    <3>1. UNCHANGED input \/ \E key \in Keys : \E i \in DOMAIN key : input' = <<key[i]>>
      BY <1>5 DEF HangupInEscape
    <3>. QED
      BY <3>1, KeyInput DEF Good
  <2>. QED
    BY <1>2, <2>1, <2>2 DEF Reading
<1>6. CASE \E key \in Keys : Press(key)
  <2>1. /\ pc \in {"line", "esc", "csi", "ext"} /\ pc' = pc
        /\ UNCHANGED <<line, shown, hist, gbl_cols, gbl_plen, result, gbl_complete_env>>
        /\ \E key \in Keys : input' = key
    BY <1>6 DEF Press, display, session, call
  <2>2. input' \in Seq(Bytes)
    BY <2>1, KeyInput
  <2>. QED
    BY <1>2, <2>1, <2>2 DEF Reading
<1>. QED
  BY <1>1, <1>3, <1>4, <1>5, <1>6

\* After Ctrl-Z the line is drawn again.
LEMMA ContinueGood ==
  ASSUME Good, Continue
  PROVE  Good' /\ TextStep /\ pc' \in {"line", "died"}
<1>1. /\ pc = "stopped" /\ Redraw(line)
      /\ UNCHANGED <<input, hist, gbl_cols, gbl_plen, gbl_complete_env, result>>
  BY DEF Continue, call
<1>2. Sizes /\ IsText(line) /\ input \in Seq(Bytes) /\ shown.text \in Seq(Bytes)
  BY DEF Good
<1>3. /\ pc' \in {"line", "died"} /\ line' = line /\ shown'.text \in Seq(Bytes)
      /\ Reading' => Current(line, shown')
  BY <1>1, <1>2, RedrawIs DEF Reading
<1>4. Good'
  BY <1>1, <1>2, <1>3, KeptGood DEF hist
<1>. QED
  BY <1>1, <1>3, <1>4, SameStep DEF TextStep

\* At the end every slot in use is freed, once.
LEMMA DeinitGood ==
  ASSUME Inv, Good, Deinit
  PROVE  Good' /\ TextStep /\ pc' = "exit"
<1> DEFINE used == 0..(gbl_history_count - 1)
           twice == \E i, j \in used : i # j /\ gbl_history[i] = gbl_history[j]
                                     /\ gbl_history[i] # NULL
<1>1. pc = "idle" /\ Owned(gbl_history, gbl_history_count, heap)
  BY DEF Deinit, Inv
<1>2. ~twice
  BY <1>1 DEF Owned
<1>3. ~(\E i \in used : ~CanFree(gbl_history[i]))
  BY <1>1, SlotAllocated DEF CanFree, Allocated
<1>4. /\ pc' = "exit"
      /\ heap' = [p \in DOMAIN heap \ {gbl_history[i] : i \in used} |-> heap[p]]
  BY <1>2, <1>3 DEF Deinit
<1>5. UNCHANGED <<input, line, shown, gbl_cols, gbl_plen, gbl_complete_env, result>>
  BY DEF Deinit, display, call
<1>6. Good'
  BY <1>4, <1>5 DEF Good, Sizes, Holds, Reading
<1>7. Text!Quit
  BY <1>1, <1>4, <1>5 DEF Text!Quit, Text!text
<1>. QED
  BY <1>4, <1>6, <1>7 DEF TextStep, Text!Next

\* Every step.
LEMMA StepGood ==
  ASSUME "nomem" \notin Faults, PromptFits, Inv, Good, [Next]_vars
  PROVE  Good' /\ TextStep
<1>1. CASE Next
  <2>1. CASE Begin
    BY <2>1, BeginGood
  <2>2. CASE TypeChar
    BY <2>2, TypeCharGood
  <2>3. CASE Enter
    BY <2>3, EnterGood
  <2>4. CASE ControlKey \/ EscapeKey \/ AltKey \/ CsiKey \/ ExtendedKey
    BY <2>4, CommandGood
  <2>5. CASE \/ BeginSimple \/ BeginDies \/ Suspend \/ Interrupt \/ EndOfInput \/ Hangup \/ HangupInEscape
             \/ \E key \in Keys : Press(key)
    BY <2>5, QuietGood
  <2>6. CASE Continue
    BY <2>6, ContinueGood
  <2>7. CASE Deinit
    BY <2>7, DeinitGood
  <2>. QED
    BY <1>1, <2>1, <2>2, <2>3, <2>4, <2>5, <2>6, <2>7 DEF Next, Loop
<1>2. CASE UNCHANGED vars
  <2>1. UNCHANGED <<pc, input, line, shown, hist, gbl_history, gbl_history_count, heap,
                    gbl_cols, gbl_plen, gbl_complete_env, result>>
    BY <1>2 DEF vars, display, session, call, hist
  <2>2. Good'
    BY <2>1 DEF Good, Sizes, Current, Holds, Reading
  <2>3. UNCHANGED Text!vars
    BY <2>1 DEF Text!vars
  <2>. QED
    BY <2>2, <2>3 DEF TextStep
<1>. QED
  BY <1>1, <1>2

\* An empty text and an empty history.
LEMMA InitGood == Init => Good /\ Text!Init
<1> SUFFICES ASSUME Init PROVE Good /\ Text!Init
  OBVIOUS
<1> DEFINE b == [i \in Places |-> NUL]
<1>1. /\ pc = "idle" /\ input = <<>> /\ line = [buf |-> b, len |-> 0, pos |-> 0]
      /\ shown = [text |-> <<>>, cursor |-> 0] /\ gbl_cols = 80 /\ gbl_plen = 2
      /\ gbl_complete_env = NoEnv /\ heap = <<>> /\ gbl_history_count = 0 /\ result = <<>>
  BY DEF Init
<1>2. IsText(line)
  <2>1. 0 \in Places /\ LINE_MAX - 1 \in Places
    BY SizesPositive DEF Places
  <2>2. b \in [Places -> Bytes] /\ b[0] = NUL /\ b[LINE_MAX - 1] = NUL
    BY <2>1 DEF Bytes, NUL
  <2>. HIDE DEF b
  <2>3. IsString(b, 0)
    BY <2>1, <2>2 DEF IsString
  <2>4. IsText([buf |-> b, len |-> 0, pos |-> 0])
    BY <2>3, MadeText
  <2>. QED
    BY <1>1, <2>4
<1>3. Holds(heap, HistoryLines)
  BY <1>1 DEF Holds
<1>4. Good
  BY <1>1, <1>2, <1>3 DEF Good, Sizes, Reading
<1>5. Text!Init
  <2>1. line.pos = 0 /\ line.len = 0
    BY <1>1
  <2>2. Piece(line.buf, 0, 0) = <<>> /\ [i \in 1..0 |-> heap[gbl_history[i - 1]]] = <<>>
    BY DEF Piece
  <2>. QED
    BY <1>1, <2>1, <2>2 DEF Text!Init
<1>. QED
  BY <1>4, <1>5

-----------------------------------------------------------------------------
(* The line that is remembered, and the terminal. *)

\* While a line is read nothing has been returned.
Kept == (Reading => result = <<>>) /\ LastLineRecallable

\* Enter returns the line and leaves it in the newest slot.
LEMMA StepKept ==
  ASSUME "nomem" \notin Faults, Inv, Good, Kept, [Next]_vars
  PROVE  Kept'
<1>1. CASE Begin
  <2>1. result' = <<>>
    BY <1>1 DEF Begin
  <2>. QED
    BY <2>1 DEF Kept, LastLineRecallable
<1>11. CASE BeginDies
  BY <1>11 DEF BeginDies, Kept, LastLineRecallable, Reading
<1>2. CASE BeginSimple
  <2>1. pc = "idle" /\ pc' = pc /\ result' \in {<<>>, <<10>>}
    BY <1>2 DEF BeginSimple
  <2>2. ~(Len(result') > 1)
    <3>1. Len(<<>>) = 0 /\ Len(<<10>>) = 1
      OBVIOUS
    <3>2. CASE result' = <<>>
      BY <3>1, <3>2
    <3>3. CASE result' = <<10>>
      <4>1. Len(result') = 1
        BY <3>1, <3>3
      <4>. QED
        BY <4>1
    <3>. QED
      BY <2>1, <3>2, <3>3
  <2>. QED
    BY <2>1, <2>2 DEF Kept, LastLineRecallable, Reading
<1>3. CASE Enter
  <2> DEFINE s == Lines(gbl_history, gbl_history_count, heap)
             u == Lines(gbl_history', gbl_history_count', heap')
             text == CString(line.buf)
  <2>1. /\ pc' = "idle" /\ result' = Append(text, 10)
        /\ u = IF text = <<>> \/ (Len(s) > 1 /\ text = s[2]) THEN Tail(s)
               ELSE [s EXCEPT ![1] = text]
    BY <1>3, EnterGood
  <2>2. /\ Owned(gbl_history, gbl_history_count, heap) /\ gbl_history_count > 0
        /\ Holds(heap, HistoryLines)
    BY <1>3 DEF Enter, Read, Inv, Good, Reading, Owned
  <2>3. s \in Seq(HistoryLines) /\ Len(s) = gbl_history_count /\ gbl_history_count \in Nat
    BY <2>2, LinesAre
  <2>4. text \in HistoryLines
    BY LineOfText, LinesFit DEF Good
  <2>5. Len(result') = Len(text) + 1 /\ Front(result') = text /\ (Len(text) > 0 => text # <<>>)
    <3> DEFINE B == 1..255
    <3>1. text \in Seq(B)
      BY <2>4 DEF HistoryLines, Strings
    <3>. HIDE DEF B, text
    <3> DEFINE D == B \cup {10}
    <3>2. text \in Seq(D)
      BY <3>1
    <3>3. 10 \in D
      OBVIOUS
    <3>. HIDE DEF D
    <3>4. /\ Append(text, 10) \in Seq(D) /\ Len(Append(text, 10)) = Len(text) + 1
          /\ SubSeq(Append(text, 10), 1, Len(text)) = text /\ Len(text) \in Nat
      BY <3>2, <3>3
    <3>. QED
      BY <2>1, <3>2, <3>4 DEF Front
  <2>6. ASSUME Len(text) > 0
        PROVE  gbl_history_count' > 0 /\ heap'[gbl_history'[0]] = text
    <3>. HIDE DEF s, text
    <3>1. text # <<>> /\ Len(text) > 0
      BY <2>5, <2>6
    <3>2. u # <<>> /\ u[1] = text
      <4>1. CASE Len(s) > 1 /\ text = s[2]
        BY <4>1, <2>1, <2>3
      <4>2. CASE ~(Len(s) > 1 /\ text = s[2])
        <5>1. u = [s EXCEPT ![1] = text]
          BY <3>1, <4>2, <2>1
        <5>2. 1 \in DOMAIN s
          BY <2>2, <2>3
        <5>. QED
          BY <5>1, <5>2
      <4>. QED
        BY <4>1, <4>2
    <3>3. /\ Owned(gbl_history', gbl_history_count', heap')
      <4>1. replacehistory(line)
        BY <1>3, <2>1 DEF Enter
      <4>. QED
        BY <2>2, <4>1, ReplaceHistoryOwned
    <3>4. gbl_history_count' \in Nat
      BY <3>3, SizesPositive DEF Owned
    <3>5. gbl_history_count' > 0
      <4>1. gbl_history_count' # 0
        <5>1. SUFFICES ASSUME gbl_history_count' = 0 PROVE FALSE
          OBVIOUS
        <5>2. u = <<>>
          BY <5>1 DEF Lines
        <5>. QED
          BY <5>2, <3>2
      <4>. QED
        BY <4>1, <3>4
    <3>6. u[1] = heap'[gbl_history'[0]]
      BY <3>4, <3>5 DEF Lines
    <3>. QED
      BY <3>2, <3>5, <3>6
  <2>7. Len(result') > 1 => Len(text) > 0
    <3>1. Len(text) \in Nat
      BY LineOfText, TextFields DEF Good
    <3>. QED
      BY <2>5, <3>1
  <2>. QED
    BY <2>1, <2>5, <2>6, <2>7 DEF Kept, LastLineRecallable, Reading
<1>4. CASE ControlKey \/ EscapeKey \/ AltKey \/ CsiKey \/ ExtendedKey
  BY <1>4, CommandGood DEF Kept, LastLineRecallable, Reading, session
<1>5. CASE TypeChar
  BY <1>5, TypeCharGood, ReadByte DEF TypeChar, Kept, LastLineRecallable, Reading, session
<1>6. ASSUME Reading, UNCHANGED result PROVE Kept'
  BY <1>6 DEF Kept, LastLineRecallable
<1>7. CASE Suspend \/ Interrupt \/ EndOfInput \/ Hangup \/ HangupInEscape \/ Continue
  BY <1>6, <1>7 DEF Suspend, Interrupt, EndOfInput, Hangup, HangupInEscape, Continue,
                    Abandoned, Read, Reading, session
<1>8. CASE \E key \in Keys : Press(key)
  BY <1>6, <1>8 DEF Press, Reading, session
<1>9. CASE Deinit
  BY <1>9, DeinitGood DEF Kept, LastLineRecallable, Reading
<1>10. CASE UNCHANGED vars
  BY <1>10 DEF vars, hist, session, Kept, LastLineRecallable, Reading
<1>. QED
  BY <1>1, <1>2, <1>3, <1>4, <1>5, <1>7, <1>8, <1>9, <1>10, <1>11 DEF Next, Loop

\* The flag says whether there is a cooked mode to go back to; where a change back
\* has failed it still says so as long as that mode is known.
Restorable ==
  /\ tty # "cooked" /\ gbl_termios_start = "cooked" => gbl_israwmode
  /\ ~left_raw => IF gbl_israwmode
                  THEN /\ gbl_termios_start = "cooked"
                       /\ (Reading /\ pc # "stopped") \/ pc = "died"
                  ELSE tty = "cooked"

\* Every way out of the loop but exit(1) tries to restore the terminal.
LEMMA StepRestorable ==
  ASSUME "nomem" \notin Faults, PromptFits, Inv, Good, Restorable, [Next]_vars
  PROVE  Restorable'
<1>1. CASE norawmode
  <2>1. CASE /\ gbl_israwmode /\ tty' = gbl_termios_start /\ gbl_israwmode' = FALSE
             /\ left_raw' = (left_raw /\ gbl_termios_start # "cooked")
             /\ UNCHANGED gbl_termios_start
    <3>1. left_raw' <=> (left_raw /\ gbl_termios_start # "cooked")
      BY <2>1
    <3>2. tty' # "cooked" => left_raw'
      BY <2>1, <3>1 DEF Restorable
    <3>3. gbl_termios_start' = tty' /\ ~gbl_israwmode'
      BY <2>1
    <3>. QED
      BY <3>2, <3>3 DEF Restorable
  <2>2. CASE /\ gbl_israwmode /\ left_raw' = TRUE
             /\ UNCHANGED <<tty, gbl_termios_start, gbl_israwmode>>
    BY <2>2 DEF Restorable
  <2>3. CASE ~gbl_israwmode /\ UNCHANGED term
    BY <2>3 DEF term, Restorable
  <2>. QED
    BY <1>1, <2>1, <2>2, <2>3 DEF norawmode
<1>2. CASE Begin \/ BeginDies
  <2>1. pc = "idle" /\ rawmode /\ pc' \in {"line", "died"}
    BY <1>2, BeginGood DEF Begin, BeginDies, Good
  <2>. QED
    BY <2>1 DEF rawmode, Restorable, Reading
<1>3. CASE BeginSimple
  BY <1>3 DEF BeginSimple, rawmode_fails, Restorable, Reading
<1>4. CASE ControlKey \/ EscapeKey \/ AltKey \/ CsiKey \/ ExtendedKey
  BY <1>4, CommandGood DEF Restorable, Reading, session, term
<1>5. CASE TypeChar
  BY <1>5, TypeCharGood DEF Restorable, Reading, session, term
<1>6. CASE Suspend \/ Enter \/ Interrupt \/ EndOfInput \/ Hangup \/ Deinit
  BY <1>1, <1>6 DEF Suspend, Enter, Interrupt, EndOfInput, Hangup, Deinit, Abandoned
<1>7. CASE Continue
  <2>1. pc = "stopped" /\ pc' \in {"line", "died"} /\ (rawmode \/ rawmode_fails)
    BY <1>7, ContinueGood DEF Continue
  <2>. QED
    BY <2>1 DEF rawmode, rawmode_fails, Restorable, Reading
<1>8. CASE HangupInEscape \/ \E key \in Keys : Press(key)
  BY <1>8 DEF HangupInEscape, Press, Restorable, Reading, session, term
<1>9. CASE UNCHANGED vars
  BY <1>9 DEF vars, session, term, Restorable, Reading
<1>. QED
  BY <1>2, <1>3, <1>4, <1>5, <1>6, <1>7, <1>8, <1>9 DEF Next, Loop

-----------------------------------------------------------------------------
(* What holds of every run in which malloc does not fail and the prompt fits. *)

\* gbl_buf stays a string of gbl_len bytes with a NUL in its last place, the cursor
\* stays inside, and no key makes insert, the kills, the walks, strncpy or the
\* memcpy of refresh go beyond it: for all keys, all names and all sizes of the
\* buffer, when malloc does not fail and the prompt leaves room on the screen.
THEOREM LineTerminated ==
  ASSUME "nomem" \notin Faults, PromptFits
  PROVE  Spec => []Terminated
<1>1. Inv /\ Good => Terminated
  BY TextFields DEF Good, Terminated
<1>2. Inv /\ Good /\ [Next]_vars => Good'
  BY StepGood
<1>. QED
  BY <1>1, <1>2, InitInv, StepInv, InitGood, PTL DEF Spec

\* The terminal shows the window of the line that refresh would draw, although
\* insert draws a byte at the end alone and some keys draw nothing.
THEOREM ScreenCurrent ==
  ASSUME "nomem" \notin Faults, PromptFits
  PROVE  Spec => []ScreenIsCurrent
<1>1. Inv /\ Good => ScreenIsCurrent
  BY DEF Good, Current, ScreenIsCurrent
<1>2. Inv /\ Good /\ [Next]_vars => Good'
  BY StepGood
<1>. QED
  BY <1>1, <1>2, InitInv, StepInv, InitGood, PTL DEF Spec

\* The line that janet_line_get returned is in the newest slot, which Up shows, also
\* where replacehistory dropped it as a repetition of the line before.
THEOREM LastLineKept ==
  ASSUME "nomem" \notin Faults, PromptFits
  PROVE  Spec => []LastLineRecallable
<1>1. Init => Kept
  BY DEF Init, Kept, LastLineRecallable, Reading
<1>2. Inv /\ Good /\ [Next]_vars => Good'
  BY StepGood
<1>3. Inv /\ Good /\ Kept /\ [Next]_vars => Kept'
  BY StepKept
<1>4. Kept => LastLineRecallable
  BY DEF Kept
<1>. QED
  BY <1>1, <1>2, <1>3, <1>4, InitInv, StepInv, InitGood, PTL DEF Spec

\* Every way out of the loop, Ctrl-Z among them, puts the terminal in the mode in which
\* rawmode found it, whatever fails: but for a write that fails, which ends the
\* process, and a tcsetattr that fails, which leaves the flag set for the next try
\* until another rawmode overwrites the mode to go back to.
THEOREM TerminalCooked ==
  ASSUME "nomem" \notin Faults, PromptFits
  PROVE  Spec => []CookedOutside
<1>1. Init => Restorable
  BY DEF Init, Restorable
<1>2. Inv /\ Good /\ [Next]_vars => Good'
  BY StepGood
<1>3. Inv /\ Good /\ Restorable /\ [Next]_vars => Restorable'
  BY StepRestorable
<1>4. Restorable => CookedOutside
  BY DEF Restorable, CookedOutside
<1>. QED
  BY <1>1, <1>2, <1>3, <1>4, InitInv, StepInv, InitGood, PTL DEF Spec

\* The editor implements LineText: each key moves, inserts or erases beside the
\* cursor, history moves exchange one entry and show another, Enter returns the
\* text and remembers it unless it is empty or repeated.
THEOREM TextImplemented ==
  ASSUME "nomem" \notin Faults, PromptFits
  PROVE  Spec => TextSpec
<1>1. Init => Text!Init
  BY InitGood
<1>2. Inv /\ Good /\ [Next]_vars => Good' /\ [Text!Next]_(Text!vars)
  BY StepGood DEF TextStep
<1>. QED
  BY <1>1, <1>2, InitInv, StepInv, InitGood, PTL DEF Spec, TextSpec, Text!Spec

-----------------------------------------------------------------------------
(* Completion: the order of the symbols. *)

\* A prefix has the same elements.
LEMMA PrefixIs ==
  ASSUME NEW S, NEW a \in Seq(S), NEW b \in Seq(S)
  PROVE  IsPrefix(a, b) <=> Len(a) =< Len(b) /\ \A j \in 1..Len(a) : a[j] = b[j]
<1>0. Len(a) \in Nat /\ Len(b) \in Nat
  OBVIOUS
<1>1. SubSeq(a, 1, Len(a)) = a
  OBVIOUS
<1>2. ASSUME Len(a) =< Len(b)
      PROVE  /\ SubSeq(b, 1, Len(a)) \in Seq(S) /\ Len(SubSeq(b, 1, Len(a))) = Len(a)
             /\ \A j \in 1..Len(a) : SubSeq(b, 1, Len(a))[j] = b[j]
  BY <1>0, <1>2
<1>3. ASSUME IsPrefix(a, b) PROVE Len(a) =< Len(b) /\ \A j \in 1..Len(a) : a[j] = b[j]
  BY <1>1, <1>2, <1>3 DEF IsPrefix
<1>4. ASSUME Len(a) =< Len(b), \A j \in 1..Len(a) : a[j] = b[j] PROVE IsPrefix(a, b)
  <2>1. \A j \in 1..Len(a) : SubSeq(b, 1, Len(a))[j] = a[j]
    BY <1>2, <1>4
  <2>2. SubSeq(b, 1, Len(a)) = a
    BY <1>0, <1>2, <1>4, <2>1, SeqEqual
  <2>. QED
    BY <1>1, <1>4, <2>2 DEF IsPrefix
<1>. QED
  BY <1>3, <1>4

\* Where a differs from b, or ends, for a to come first.
LessAt(a, b, k) ==
  /\ k \in 1..Len(b) /\ k =< Len(a) + 1
  /\ \A j \in 1..(k - 1) : a[j] = b[j]
  /\ k = Len(a) + 1 \/ a[k] < b[k]

\* compare_bytes finds that place.
LEMMA LessIs ==
  ASSUME NEW a \in Seq(Int), NEW b \in Seq(Int)
  PROVE  Less(a, b) <=> \E k \in 1..Len(b) : LessAt(a, b, k)
<1>0. Len(a) \in Nat /\ Len(b) \in Nat /\ DOMAIN a = 1..Len(a) /\ DOMAIN b = 1..Len(b)
  OBVIOUS
<1>1. ASSUME a # b, IsPrefix(a, b) PROVE \E k \in 1..Len(b) : LessAt(a, b, k)
  <2>1. Len(a) =< Len(b) /\ \A j \in 1..Len(a) : a[j] = b[j]
    BY <1>1, PrefixIs
  <2>2. Len(a) # Len(b)
    BY <1>1, <2>1, SeqEqual
  <2>3. Len(a) + 1 \in 1..Len(b) /\ (Len(a) + 1) - 1 = Len(a) /\ Len(a) + 1 =< Len(a) + 1
    <3>1. Len(a) =< Len(b) /\ Len(a) # Len(b)
      BY <2>1, <2>2
    <3>2. Len(a) \in Nat /\ Len(b) \in Nat
      OBVIOUS
    <3> DEFINE m == Len(a)
               n == Len(b)
    <3>. HIDE DEF m, n
    <3>3. m \in Nat /\ n \in Nat /\ m =< n /\ m # n
      BY <3>1, <3>2 DEF m, n
    <3>4. m + 1 \in 1..n /\ (m + 1) - 1 = m /\ m + 1 =< m + 1
      BY <3>3
    <3>. QED
      BY <3>4 DEF m, n
  <2>4. LessAt(a, b, Len(a) + 1)
    BY <2>1, <2>3 DEF LessAt
  <2>. QED
    BY <2>3, <2>4
<1>2. ASSUME NEW k \in DOMAIN a \cap DOMAIN b, a[k] < b[k], \A j \in 1..(k - 1) : a[j] = b[j]
      PROVE  \E m \in 1..Len(b) : LessAt(a, b, m)
  <2>1. k \in 1..Len(b) /\ k =< Len(a) + 1
    BY <1>0
  <2>. QED
    BY <1>2, <2>1 DEF LessAt
<1>3. ASSUME NEW k \in 1..Len(b), LessAt(a, b, k) PROVE Less(a, b)
  <2>1. CASE k = Len(a) + 1
    <3>1. \A j \in 1..Len(a) : a[j] = b[j]
      BY <1>0, <1>3, <2>1 DEF LessAt
    <3>2. Len(a) < Len(b)
      BY <1>0, <2>1
    <3>3. IsPrefix(a, b)
      BY <3>1, <3>2, <1>0, PrefixIs
    <3>4. a # b
      BY <3>2, <1>0
    <3>. QED
      BY <3>3, <3>4 DEF Less
  <2>2. CASE k # Len(a) + 1
    <3>1. k \in DOMAIN a \cap DOMAIN b
      BY <2>2, <1>0, <1>3 DEF LessAt
    <3>. QED
      BY <2>2, <3>1, <1>3 DEF Less, LessAt
  <2>. QED
    BY <2>1, <2>2
<1>. QED
  BY <1>1, <1>2, <1>3 DEF Less

\* It is a strict order, and total.
LEMMA LessIrreflexive == ASSUME NEW a \in Seq(Int) PROVE ~Less(a, a)
<1>1. \A k \in 1..Len(a) : ~LessAt(a, a, k)
  <2>. TAKE k \in 1..Len(a)
  <2>1. a[k] \in Int /\ k # Len(a) + 1
    OBVIOUS
  <2>. QED
    BY <2>1 DEF LessAt
<1>. QED
  BY <1>1, LessIs

LEMMA LessTransitive ==
  ASSUME NEW a \in Seq(Int), NEW b \in Seq(Int), NEW d \in Seq(Int), Less(a, b), Less(b, d)
  PROVE  Less(a, d)
<1>0. /\ Len(a) \in Nat /\ Len(b) \in Nat /\ Len(d) \in Nat
      /\ \A i \in 1..Len(a) : a[i] \in Int
      /\ \A i \in 1..Len(b) : b[i] \in Int
      /\ \A i \in 1..Len(d) : d[i] \in Int
  OBVIOUS
<1>1. PICK k \in 1..Len(b) : LessAt(a, b, k)
  BY LessIs
<1>2. PICK m \in 1..Len(d) : LessAt(b, d, m)
  BY LessIs
<1>3. /\ k =< Len(a) + 1 /\ \A j \in 1..(k - 1) : a[j] = b[j]
      /\ k = Len(a) + 1 \/ a[k] < b[k]
  BY <1>1 DEF LessAt
<1>4. /\ m =< Len(b) + 1 /\ \A j \in 1..(m - 1) : b[j] = d[j]
      /\ m = Len(b) + 1 \/ b[m] < d[m]
  BY <1>2 DEF LessAt
<1>5. CASE k < m
  <2>1. k \in 1..Len(d) /\ b[k] = d[k]
    BY <1>0, <1>4, <1>5
  <2>2. \A j \in 1..(k - 1) : a[j] = d[j]
    <3>1. \A j \in 1..(k - 1) : j \in 1..(m - 1)
      BY <1>0, <1>5
    <3>. QED
      BY <3>1, <1>3, <1>4
  <2>3. LessAt(a, d, k)
    BY <1>3, <2>1, <2>2 DEF LessAt
  <2>. QED
    BY <2>1, <2>3, LessIs
<1>6. CASE m < k
  <2>1. m \in 1..Len(b) /\ m # Len(b) + 1 /\ m =< Len(a) /\ a[m] = b[m]
    <3>1. k =< Len(a) + 1 /\ \A j \in 1..(k - 1) : a[j] = b[j]
      BY <1>3
    <3>2. Len(a) \in Nat /\ Len(b) \in Nat
      BY <1>0
    <3>3. m \in 1..(k - 1) /\ m \in 1..Len(b) /\ m # Len(b) + 1 /\ m =< Len(a)
      <4> DEFINE x == Len(a)
                 y == Len(b)
      <4>1. x \in Nat /\ y \in Nat /\ k \in 1..y /\ m \in Int /\ 1 =< m /\ k =< x + 1
        BY <3>1, <3>2
      <4>. HIDE DEF x, y
      <4>2. m \in 1..(k - 1) /\ m \in 1..y /\ m # y + 1 /\ m =< x
        BY <4>1, <1>6
      <4>. QED
        BY <4>2 DEF x, y
    <3>. QED
      BY <3>1, <3>3
  <2>2. \A j \in 1..(m - 1) : a[j] = d[j]
    <3>1. \A j \in 1..(m - 1) : j \in 1..(k - 1)
      BY <1>0, <1>6
    <3>. QED
      BY <3>1, <1>3, <1>4
  <2>3. LessAt(a, d, m)
    BY <1>0, <1>4, <2>1, <2>2 DEF LessAt
  <2>. QED
    BY <2>3, LessIs
<1>7. CASE k = m
  <2>1. k # Len(b) + 1 /\ b[k] < d[k] /\ k \in 1..Len(d)
    BY <1>0, <1>4, <1>7
  <2>2. k = Len(a) + 1 \/ a[k] < d[k]
    <3>1. CASE k # Len(a) + 1
      <4>1. a[k] < b[k] /\ k \in 1..Len(a)
        BY <3>1, <1>0, <1>3
      <4>2. a[k] \in Int /\ b[k] \in Int /\ d[k] \in Int
        BY <4>1, <2>1, <1>0
      <4>. QED
        BY <4>1, <4>2, <2>1
    <3>. QED
      BY <3>1
  <2>3. LessAt(a, d, k)
    BY <1>3, <1>4, <1>7, <2>1, <2>2 DEF LessAt
  <2>. QED
    BY <2>1, <2>3, LessIs
<1>. QED
  BY <1>0, <1>5, <1>6, <1>7

LEMMA LessTotal ==
  ASSUME NEW a \in Seq(Int), NEW b \in Seq(Int), a # b
  PROVE  Less(a, b) \/ Less(b, a)
<1>0. /\ Len(a) \in Nat /\ Len(b) \in Nat
      /\ \A i \in 1..Len(a) : a[i] \in Int
      /\ \A i \in 1..Len(b) : b[i] \in Int
  OBVIOUS
<1> DEFINE D == {j \in 1..(Len(a) + 1) : j = Len(a) + 1 \/ j = Len(b) + 1 \/ a[j] # b[j]}
<1>1. D \subseteq Nat /\ Len(a) + 1 \in D
  BY <1>0
<1>2. PICK k \in D : \A j \in D : k =< j
  <2>. HIDE DEF D
  <2>. QED
    BY <1>1, LeastNat
<1>3. /\ k \in 1..(Len(a) + 1)
      /\ k = Len(a) + 1 \/ k = Len(b) + 1 \/ a[k] # b[k]
  OBVIOUS
<1>4. \A j \in 1..(k - 1) : j # Len(b) + 1 /\ a[j] = b[j]
  <2>. TAKE j \in 1..(k - 1)
  <2>1. j \in 1..(Len(a) + 1) /\ ~(k =< j)
    BY <1>0, <1>3
  <2>2. j \notin D
    BY <1>2, <2>1
  <2>. QED
    BY <2>1, <2>2
<1>5. k =< Len(b) + 1
  <2>1. SUFFICES ASSUME Len(b) + 1 < k PROVE FALSE
    BY <1>0, <1>3
  <2>2. Len(b) + 1 \in 1..(k - 1)
    BY <2>1, <1>0, <1>3
  <2>. QED
    BY <2>2, <1>4
<1>. HIDE DEF D
<1>6. CASE k \in 1..Len(a) /\ k \in 1..Len(b)
  <2>1. a[k] # b[k] /\ a[k] \in Int /\ b[k] \in Int
    BY <1>0, <1>3, <1>6
  <2>2. CASE a[k] < b[k]
    <3>1. LessAt(a, b, k)
      BY <1>4, <1>5, <1>6, <1>0, <2>2 DEF LessAt
    <3>. QED
      BY <1>6, <3>1, LessIs
  <2>3. CASE b[k] < a[k]
    <3>1. LessAt(b, a, k)
      BY <1>4, <1>5, <1>6, <1>0, <2>3 DEF LessAt
    <3>. QED
      BY <1>6, <3>1, LessIs
  <2>. QED
    BY <2>1, <2>2, <2>3
<1>7. CASE k = Len(a) + 1 /\ k \in 1..Len(b)
  <2>1. LessAt(a, b, k)
    BY <1>4, <1>7, <1>0 DEF LessAt
  <2>. QED
    BY <1>7, <2>1, LessIs
<1>8. CASE k = Len(b) + 1 /\ k \in 1..Len(a)
  <2>1. LessAt(b, a, k)
    BY <1>4, <1>8, <1>0 DEF LessAt
  <2>. QED
    BY <1>8, <2>1, LessIs
<1>9. CASE k = Len(a) + 1 /\ k = Len(b) + 1
  <2>1. Len(a) = Len(b) /\ \A j \in 1..Len(a) : a[j] = b[j]
    BY <1>0, <1>4, <1>9
  <2>. QED
    BY <2>1, SeqEqual
<1>. QED
  BY <1>0, <1>3, <1>5, <1>6, <1>7, <1>8, <1>9

-----------------------------------------------------------------------------
(* The list of check_match. *)

\* What check_match makes of a list when the symbol matches.
LEMMA MatchSteps ==
  ASSUME NEW V, NEW ms \in Seq(V), NEW src, NEW test \in V, IsPrefix(src, test)
  PROVE  LET new == check_match(ms, src, test)
             mm == Carried(ms, test)
             n == Len(ms)
         IN /\ new \in Seq(V) /\ Len(new) = IF n = MATCH_MAX THEN n ELSE n + 1
            /\ \A i \in 1..n : new[i] = IF Less(mm[i], ms[i]) THEN mm[i] ELSE ms[i]
            /\ n # MATCH_MAX => new[n + 1] = mm[n + 1]
<1> DEFINE n == Len(ms)
           mm == Carried(ms, test)
           kept == [i \in DOMAIN ms |-> IF Less(mm[i], ms[i]) THEN mm[i] ELSE ms[i]]
<1>1. n \in Nat /\ DOMAIN ms = 1..n /\ \A i \in 1..n : ms[i] \in V
  OBVIOUS
<1>2. \A i \in 1..(n + 1) : mm[i] \in V
  BY CarriedIs
<1>3. check_match(ms, src, test) = IF n = MATCH_MAX THEN kept ELSE Append(kept, mm[n + 1])
  BY DEF check_match
<1>. HIDE DEF n, mm
<1>4. n + 1 \in 1..(n + 1) /\ \A i \in 1..n : i \in 1..(n + 1)
  BY <1>1
<1>5. kept \in [1..n -> V]
  BY <1>1, <1>2, <1>4
<1>6. \A i \in 1..n : kept[i] = IF Less(mm[i], ms[i]) THEN mm[i] ELSE ms[i]
  BY <1>1
<1>. HIDE DEF kept
<1>7. kept \in Seq(V) /\ mm[n + 1] \in V /\ Len(kept) = n
  BY <1>1, <1>2, <1>4, <1>5
<1>8. /\ Append(kept, mm[n + 1]) \in Seq(V) /\ Len(Append(kept, mm[n + 1])) = n + 1
      /\ Append(kept, mm[n + 1])[n + 1] = mm[n + 1]
      /\ \A i \in 1..n : Append(kept, mm[n + 1])[i] = kept[i]
  BY <1>7
<1>. QED
  BY <1>3, <1>6, <1>7, <1>8 DEF n, mm

\* A set of symbols that has with each one all that do not come after it.
Lower(D) == /\ D \subseteq Names
            /\ \A x, y \in Names : y \in D /\ ~Less(y, x) => x \in D

\* The first k places of the list are those in D.
Cut(ms, D, k) == \A i \in 1..Len(ms) : ms[i] \in D <=> i =< k

\* Symbols are strings of numbers.
LEMMA NamesAreInts == Names \subseteq Seq(Int)
<1>1. ASSUME NEW s \in Names PROVE s \in Seq(Int)
  <2>1. s \in Seq(1..255)
    BY SymbolsAreStrings
  <2> DEFINE B == 1..255
  <2>2. B \subseteq Int /\ s \in Seq(B)
    BY <2>1
  <2>. HIDE DEF B
  <2>3. Len(s) \in Nat /\ s \in [1..Len(s) -> B]
    BY <2>2
  <2>4. s \in [1..Len(s) -> Int]
    BY <2>2, <2>3
  <2>. QED
    BY <2>3, <2>4
<1>. QED
  BY <1>1

\* What comes before a symbol of the set is in it.
LEMMA LowerHolds ==
  ASSUME NEW D, Lower(D), NEW x \in Names, NEW y \in Names, Less(x, y), y \in D
  PROVE  x \in D
<1>1. x \in Seq(Int) /\ y \in Seq(Int)
  BY NamesAreInts
<1>2. ~Less(y, x)
  BY <1>1, LessTransitive, LessIrreflexive
<1>. QED
  BY <1>2 DEF Lower

\* A cut stays one, a place further if the new symbol is in the set.
LEMMA CutStep ==
  ASSUME NEW ms \in Seq(Names), NEW src, NEW test \in Names, IsPrefix(src, test),
         NEW D, Lower(D), NEW k \in Nat, Cut(ms, D, k),
         Len(ms) # MATCH_MAX => k =< Len(ms)
  PROVE  Cut(check_match(ms, src, test), D, IF test \in D THEN k + 1 ELSE k)
<1> DEFINE new == check_match(ms, src, test)
           mm == Carried(ms, test)
           n == Len(ms)
<1>1. n \in Nat /\ \A i \in 1..n : ms[i] \in Names
  OBVIOUS
<1>2. /\ new \in Seq(Names) /\ Len(new) = IF n = MATCH_MAX THEN n ELSE n + 1
      /\ \A i \in 1..n : new[i] = IF Less(mm[i], ms[i]) THEN mm[i] ELSE ms[i]
      /\ n # MATCH_MAX => new[n + 1] = mm[n + 1]
  BY MatchSteps
<1>3. /\ \A i \in 1..(n + 1) : mm[i] \in Names
      /\ mm[1] = test
      /\ \A i \in 1..n : mm[i + 1] = IF Less(mm[i], ms[i]) THEN ms[i] ELSE mm[i]
  BY CarriedIs
<1>4. \A i \in 1..n : ms[i] \in D <=> i =< k
  BY DEF Cut
<1>5. n # MATCH_MAX => k =< n
  OBVIOUS
<1>. HIDE DEF new, mm, n
<1>6. \A x, y \in Names : (Less(x, y) /\ y \in D => x \in D) /\ (x \in D /\ y \notin D => Less(x, y))
  BY LowerHolds DEF Lower
<1>7. CASE test \in D
  <2> DEFINE S == {i \in 0..n : mm[i + 1] \in D <=> i =< k}
  <2>1. 0 \in S
    BY <1>1, <1>3, <1>7
  <2>2. ASSUME NEW i \in 0..(n - 1), i \in S PROVE i + 1 \in S
    <3>1. i + 1 \in 1..n /\ i + 1 \in 0..n /\ i + 1 \in 1..(n + 1)
      BY <1>1
    <3>2. mm[i + 1] \in Names /\ ms[i + 1] \in Names /\ (mm[i + 1] \in D <=> i =< k)
      BY <3>1, <1>1, <1>3, <2>2
    <3>3. ms[i + 1] \in D <=> i + 1 =< k
      BY <3>1, <1>4
    <3>4. mm[(i + 1) + 1] = IF Less(mm[i + 1], ms[i + 1]) THEN ms[i + 1] ELSE mm[i + 1]
      BY <3>1, <1>3
    <3>5. mm[(i + 1) + 1] \in D <=> i + 1 =< k
      <4>1. CASE i + 1 =< k
        BY <4>1, <3>2, <3>3, <3>4
      <4>2. CASE ~(i + 1 =< k) /\ i =< k
        BY <4>2, <3>2, <3>3, <3>4, <1>6
      <4>3. CASE ~(i =< k)
        <5>1. ~(i + 1 =< k)
          BY <4>3
        <5>. QED
          BY <5>1, <4>3, <3>2, <3>3, <3>4
      <4>. QED
        BY <4>1, <4>2, <4>3
    <3>. QED
      BY <3>1, <3>5
  <2>3. 0..n \subseteq S
    <3>1. \A i \in 0..(n - 1) : i \in S => i + 1 \in S
      BY <2>2
    <3>. HIDE DEF S
    <3>. QED
      BY <3>1, <1>1, <2>1, Induction
  <2>4. ASSUME NEW i \in 1..(n + 1) PROVE mm[i] \in D <=> i =< k + 1
    <3>1. i - 1 \in 0..n /\ (i - 1) + 1 = i /\ (i - 1 =< k <=> i =< k + 1)
      BY <1>1
    <3>. QED
      BY <3>1, <2>3
  <2>. HIDE DEF S
  <2>5. ASSUME NEW i \in 1..n PROVE new[i] \in D <=> i =< k + 1
    <3>1. /\ mm[i] \in Names /\ ms[i] \in Names /\ i \in 1..(n + 1)
          /\ mm[i] \in D <=> i =< k + 1
          /\ ms[i] \in D <=> i =< k
      BY <1>1, <1>3, <1>4, <2>4
    <3>2. i =< k => i =< k + 1
      BY <1>1
    <3>. QED
      BY <3>1, <3>2, <1>2, <1>6
  <2>6. ASSUME NEW i \in 1..Len(new) PROVE new[i] \in D <=> i =< k + 1
    <3>1. i \in 1..n \/ (n # MATCH_MAX /\ i = n + 1)
      BY <1>1, <1>2
    <3>2. n + 1 \in 1..(n + 1)
      BY <1>1
    <3>. QED
      BY <3>1, <3>2, <1>2, <2>4, <2>5
  <2>. QED
    BY <1>7, <2>6 DEF Cut, new
<1>8. CASE test \notin D
  <2> DEFINE S == {i \in 0..n : mm[i + 1] \notin D}
  <2>1. 0 \in S
    BY <1>1, <1>3, <1>8
  <2>2. ASSUME NEW i \in 0..(n - 1), i \in S PROVE i + 1 \in S
    <3>1. i + 1 \in 1..n /\ i + 1 \in 0..n /\ i + 1 \in 1..(n + 1)
      BY <1>1
    <3>2. mm[i + 1] \in Names /\ ms[i + 1] \in Names /\ mm[i + 1] \notin D
      BY <3>1, <1>1, <1>3, <2>2
    <3>3. mm[(i + 1) + 1] = IF Less(mm[i + 1], ms[i + 1]) THEN ms[i + 1] ELSE mm[i + 1]
      BY <3>1, <1>3
    <3>. QED
      BY <3>1, <3>2, <3>3, <1>6
  <2>3. 0..n \subseteq S
    <3>1. \A i \in 0..(n - 1) : i \in S => i + 1 \in S
      BY <2>2
    <3>. HIDE DEF S
    <3>. QED
      BY <3>1, <1>1, <2>1, Induction
  <2>4. ASSUME NEW i \in 1..(n + 1) PROVE mm[i] \notin D
    <3>1. i - 1 \in 0..n /\ (i - 1) + 1 = i
      BY <1>1
    <3>. QED
      BY <3>1, <2>3
  <2>. HIDE DEF S
  <2>5. ASSUME NEW i \in 1..n PROVE new[i] \in D <=> i =< k
    <3>1. /\ mm[i] \in Names /\ ms[i] \in Names /\ i \in 1..(n + 1)
          /\ mm[i] \notin D
          /\ ms[i] \in D <=> i =< k
      BY <1>1, <1>3, <1>4, <2>4
    <3>. QED
      BY <3>1, <1>2, <1>6
  <2>6. ASSUME NEW i \in 1..Len(new) PROVE new[i] \in D <=> i =< k
    <3>1. i \in 1..n \/ (n # MATCH_MAX /\ i = n + 1)
      BY <1>1, <1>2
    <3>2. n + 1 \in 1..(n + 1) /\ (k =< n => ~(n + 1 =< k))
      BY <1>1
    <3>. QED
      BY <3>1, <3>2, <1>2, <1>5, <2>4, <2>5
  <2>. QED
    BY <1>8, <2>6 DEF Cut, new
<1>. QED
  BY <1>7, <1>8

-----------------------------------------------------------------------------
(* The search of kshowcomp. *)

\* The matching entries seen so far whose symbol is in D.
Seen(D) == {e \in Matching : e[2] \in D}

\* The list is as long as the symbols seen fill it, and every set of smallest symbols
\* has the places at its front.
SearchInv ==
  /\ env \subseteq Entries /\ todo \subseteq env
  /\ gbl_matches \in Seq(Names)
  /\ Len(gbl_matches) = Least(MATCH_MAX, Cardinality(Matching))
  /\ \A D : Lower(D) => Cut(gbl_matches, D, Cardinality(Seen(D)))

\* There are finitely many entries.
LEMMA EntriesAre == IsFiniteSet(Entries) /\ \A e \in Entries : e[2] \in Names
<1>1. Depth \in Nat /\ IsFiniteSet(Names)
  BY SymbolsAreStrings
<1>2. IsFiniteSet(1..Depth)
  BY <1>1, FS_Interval
<1>. QED
  BY <1>1, <1>2, FS_Product DEF Entries

\* So the sets of those seen are finite, and a part is not more than the whole.
LEMMA SeenAre ==
  ASSUME env \subseteq Entries
  PROVE  /\ IsFiniteSet(Matching) /\ Cardinality(Matching) \in Nat
         /\ \A D : /\ IsFiniteSet(Seen(D)) /\ Cardinality(Seen(D)) \in Nat
                   /\ Cardinality(Seen(D)) =< Cardinality(Matching)
<1>1. Matching \subseteq Entries /\ \A D : Seen(D) \subseteq Matching
  BY DEF Matching, Seen
<1>2. IsFiniteSet(Matching)
  BY <1>1, EntriesAre, FS_Subset
<1>. QED
  BY <1>1, <1>2, FS_Subset, FS_CardinalityType

\* Nothing is seen at first.
LEMMA SearchInitInv == SearchInit => SearchInv
<1>. SUFFICES ASSUME SearchInit PROVE SearchInv
  OBVIOUS
<1>1. Matching = {}
  BY DEF SearchInit, Matching
<1>2. \A D : Seen(D) = {}
  BY <1>1 DEF Seen
<1>3. Cardinality({}) = 0
  BY FS_EmptySet
<1>4. gbl_matches = <<>> /\ Len(<<>>) = 0 /\ <<>> \in Seq(Names)
  BY DEF SearchInit
<1>5. \A D : Cut(<<>>, D, 0)
  BY DEF Cut
<1>6. Least(MATCH_MAX, 0) = 0
  BY MatchMaxPositive DEF Least
<1>7. env \subseteq Entries /\ todo \subseteq env
  BY DEF SearchInit
<1>. QED
  BY <1>1, <1>2, <1>3, <1>4, <1>5, <1>6, <1>7 DEF SearchInv

\* A symbol of the chain is looked at.
LEMMA CheckMatchInv ==
  ASSUME SearchInv, NEW e \in Entries, CheckMatch(e)
  PROVE  SearchInv'
<1>1. /\ e \in todo /\ todo' = todo \ {e} /\ env' = env /\ prefix' = prefix
      /\ gbl_matches' = check_match(gbl_matches, prefix, e[2])
  BY DEF CheckMatch
<1>2. /\ env \subseteq Entries /\ todo \subseteq env /\ gbl_matches \in Seq(Names)
      /\ Len(gbl_matches) = Least(MATCH_MAX, Cardinality(Matching))
      /\ \A D : Lower(D) => Cut(gbl_matches, D, Cardinality(Seen(D)))
  BY DEF SearchInv
<1>3. e[2] \in Names /\ e \in env
  BY <1>1, <1>2, EntriesAre
<1>4. env' \subseteq Entries /\ todo' \subseteq env'
  BY <1>1, <1>2
<1>5. CASE ~IsPrefix(prefix, e[2])
  <2>1. gbl_matches' = gbl_matches
    BY <1>1, <1>5 DEF check_match
  <2>2. Matching' = Matching
    BY <1>1, <1>5 DEF Matching
  <2>3. \A D : Seen(D)' = Seen(D)
    BY <2>2 DEF Seen
  <2>. QED
    BY <1>2, <1>4, <2>1, <2>2, <2>3 DEF SearchInv, Lower
<1>6. CASE IsPrefix(prefix, e[2])
  <2>1. Matching' = Matching \cup {e} /\ e \notin Matching
    BY <1>1, <1>2, <1>3, <1>6 DEF Matching
  <2>2. /\ IsFiniteSet(Matching) /\ Cardinality(Matching) \in Nat
        /\ \A D : /\ IsFiniteSet(Seen(D)) /\ Cardinality(Seen(D)) \in Nat
                  /\ Cardinality(Seen(D)) =< Cardinality(Matching)
    BY <1>2, SeenAre
  <2>3. Cardinality(Matching') = Cardinality(Matching) + 1
    BY <2>1, <2>2, FS_AddElement
  <2>4. \A D : Cardinality(Seen(D)') = IF e[2] \in D THEN Cardinality(Seen(D)) + 1
                                       ELSE Cardinality(Seen(D))
    <3>. TAKE D
    <3>1. CASE e[2] \in D
      <4>1. Seen(D)' = Seen(D) \cup {e} /\ e \notin Seen(D)
        BY <2>1, <3>1 DEF Seen
      <4>. QED
        BY <3>1, <4>1, <2>2, FS_AddElement
    <3>2. CASE e[2] \notin D
      <4>1. Seen(D)' = Seen(D)
        BY <2>1, <3>2 DEF Seen
      <4>. QED
        BY <3>2, <4>1
    <3>. QED
      BY <3>1, <3>2
  <2> DEFINE ms == gbl_matches
             new == check_match(ms, prefix, e[2])
             total == Cardinality(Matching)
  <2>5. /\ new \in Seq(Names)
        /\ Len(new) = IF Len(ms) = MATCH_MAX THEN Len(ms) ELSE Len(ms) + 1
    BY <1>2, <1>3, <1>6, MatchSteps
  <2>6. Len(new) = Least(MATCH_MAX, total + 1) /\ (Len(ms) # MATCH_MAX => Len(ms) = total)
    <3>1. Len(ms) = IF MATCH_MAX < total THEN MATCH_MAX ELSE total
      BY <1>2 DEF Least
    <3>. HIDE DEF new, ms, total
    <3>2. Len(new) = IF MATCH_MAX < total + 1 THEN MATCH_MAX ELSE total + 1
      BY <2>2, <2>5, <3>1, MatchMaxPositive DEF total
    <3>. QED
      BY <3>1, <3>2, <2>2, MatchMaxPositive DEF Least, total
  <2>7. ASSUME NEW D, Lower(D)
        PROVE  Cut(new, D, IF e[2] \in D THEN Cardinality(Seen(D)) + 1 ELSE Cardinality(Seen(D)))
    <3> DEFINE k == Cardinality(Seen(D))
    <3>1. k \in Nat /\ Cut(ms, D, k) /\ (Len(ms) # MATCH_MAX => k =< Len(ms))
      BY <1>2, <2>2, <2>6, <2>7
    <3>. HIDE DEF k
    <3>2. Cut(new, D, IF e[2] \in D THEN k + 1 ELSE k)
      BY <1>2, <1>3, <1>6, <2>7, <3>1, CutStep
    <3>. QED
      BY <3>2 DEF k
  <2>. QED
    BY <1>1, <1>4, <2>3, <2>4, <2>5, <2>6, <2>7 DEF SearchInv, Lower
<1>. QED
  BY <1>5, <1>6

\* It is an invariant.
LEMMA SearchIsInv == SearchSpec => []SearchInv
<1>1. SearchInv /\ [SearchNext]_searchvars => SearchInv'
  <2>. SUFFICES ASSUME SearchInv, [SearchNext]_searchvars PROVE SearchInv'
    OBVIOUS
  <2>1. CASE SearchNext
    BY <2>1, CheckMatchInv DEF SearchNext
  <2>2. CASE UNCHANGED searchvars
    <3>1. env' = env /\ prefix' = prefix /\ todo' = todo /\ gbl_matches' = gbl_matches
      BY <2>2 DEF searchvars
    <3>. QED
      BY <3>1 DEF SearchInv, Lower, Cut, Seen, Matching
  <2>. QED
    BY <2>1, <2>2
<1>. QED
  BY <1>1, SearchInitInv, PTL DEF SearchSpec

-----------------------------------------------------------------------------
(* What the list holds. *)

\* The symbols before n, and those not after it.
Below(n) == {x \in Names : Less(x, n)}
UpTo(n) == {x \in Names : ~Less(n, x)}

\* n and no other symbol is in the second and not in the first.
LEMMA BetweenIs ==
  ASSUME NEW n \in Names
  PROVE  /\ Lower(Below(n)) /\ Lower(UpTo(n))
         /\ n \notin Below(n) /\ n \in UpTo(n) /\ Below(n) \subseteq UpTo(n)
         /\ \A x \in Names : x \in UpTo(n) /\ x \notin Below(n) => x = n
<1>1. \A x \in Names : x \in Seq(Int)
  BY NamesAreInts
<1>2. /\ \A x, y, z \in Names : Less(x, y) /\ Less(y, z) => Less(x, z)
      /\ \A x \in Names : ~Less(x, x)
      /\ \A x, y \in Names : x # y => Less(x, y) \/ Less(y, x)
  BY <1>1, LessTransitive, LessIrreflexive, LessTotal
<1>3. Lower(Below(n))
  BY <1>2 DEF Lower, Below
<1>4. Lower(UpTo(n))
  BY <1>2 DEF Lower, UpTo
<1>. QED
  BY <1>2, <1>3, <1>4 DEF Below, UpTo

\* The definitions of n that match, and the places it has.
Defined(n) == {e \in Matching : e[2] = n}
Held(n) == {i \in DOMAIN gbl_matches : gbl_matches[i] = n}

\* A symbol has the places between the two cuts.
LEMMA HeldAre ==
  ASSUME SearchInv, NEW n \in Names
  PROVE  LET below == Cardinality(Seen(Below(n)))
             upto == Cardinality(Seen(UpTo(n)))
         IN /\ below \in Nat /\ upto = below + Cardinality(Defined(n))
            /\ Cardinality(Defined(n)) \in Nat
            /\ upto =< Cardinality(Matching)
            /\ Held(n) = {i \in 1..Len(gbl_matches) : below < i /\ i =< upto}
<1> DEFINE below == Cardinality(Seen(Below(n)))
           upto == Cardinality(Seen(UpTo(n)))
<1>1. /\ env \subseteq Entries /\ gbl_matches \in Seq(Names)
      /\ \A D : Lower(D) => Cut(gbl_matches, D, Cardinality(Seen(D)))
  BY DEF SearchInv
<1>2. /\ IsFiniteSet(Matching)
      /\ \A D : /\ IsFiniteSet(Seen(D)) /\ Cardinality(Seen(D)) \in Nat
                /\ Cardinality(Seen(D)) =< Cardinality(Matching)
  BY <1>1, SeenAre
<1>3. IsFiniteSet(Defined(n)) /\ Cardinality(Defined(n)) \in Nat
  <2>1. Defined(n) \subseteq Matching
    BY DEF Defined
  <2>. QED
    BY <2>1, <1>2, FS_Subset, FS_CardinalityType
<1>4. Seen(UpTo(n)) = Seen(Below(n)) \cup Defined(n) /\ Seen(Below(n)) \cap Defined(n) = {}
  <2>1. \A e \in Matching : e[2] \in Names
    BY <1>1, EntriesAre DEF Matching
  <2>. QED
    BY <2>1, BetweenIs DEF Seen, Defined
<1>5. upto = below + Cardinality(Defined(n))
  <2> DEFINE S == Seen(Below(n))
             T == Defined(n)
  <2>1. IsFiniteSet(S) /\ IsFiniteSet(T) /\ S \cap T = {} /\ Seen(UpTo(n)) = S \cup T
    BY <1>2, <1>3, <1>4
  <2>. HIDE DEF S, T
  <2>2. Cardinality(S \cup T) = Cardinality(S) + Cardinality(T) - Cardinality(S \cap T)
    BY <2>1, FS_Union
  <2>3. Cardinality(S \cap T) = 0
    BY <2>1, FS_EmptySet
  <2>4. Cardinality(S) \in Nat /\ Cardinality(T) \in Nat
    BY <1>2, <1>3 DEF S, T
  <2>5. upto = Cardinality(S) + Cardinality(T)
    BY <2>1, <2>2, <2>3, <2>4
  <2>. QED
    BY <2>5 DEF S, T
<1>6. Cut(gbl_matches, Below(n), below) /\ Cut(gbl_matches, UpTo(n), upto)
  BY <1>1, BetweenIs
<1>7. \A i \in 1..Len(gbl_matches) : gbl_matches[i] = n <=> below < i /\ i =< upto
  <2>. TAKE i \in 1..Len(gbl_matches)
  <2>1. gbl_matches[i] \in Names
    BY <1>1
  <2>2. gbl_matches[i] = n <=> gbl_matches[i] \in UpTo(n) /\ gbl_matches[i] \notin Below(n)
    BY <2>1, BetweenIs
  <2>3. /\ gbl_matches[i] \in UpTo(n) <=> i =< upto
        /\ gbl_matches[i] \in Below(n) <=> i =< below
    BY <1>6 DEF Cut
  <2>4. ~(i =< below) <=> below < i
    BY <1>2
  <2>. QED
    BY <2>2, <2>3, <2>4
<1>8. DOMAIN gbl_matches = 1..Len(gbl_matches)
  BY <1>1
<1>. QED
  BY <1>2, <1>3, <1>5, <1>7, <1>8 DEF Held

\* How many numbers of 1..l are above b and at most u.
LEMMA CountBetween ==
  ASSUME NEW l \in Nat, NEW b \in Nat, NEW u \in Nat, b =< u
  PROVE  Cardinality({i \in 1..l : b < i /\ i =< u}) =
           LET top == Least(l, u) IN IF b < top THEN top - b ELSE 0
<1> DEFINE top == Least(l, u)
<1>1. top \in Nat /\ (\A i \in 1..l : i =< u <=> i =< top) /\ top =< l
  BY DEF Least
<1>. HIDE DEF top
<1>2. {i \in 1..l : b < i /\ i =< u} = (b + 1)..top
  BY <1>1
<1>3. Cardinality((b + 1)..top) = IF b + 1 > top THEN 0 ELSE top - (b + 1) + 1
  BY <1>1, FS_Interval
<1>4. (IF b + 1 > top THEN 0 ELSE top - (b + 1) + 1) = IF b < top THEN top - b ELSE 0
  BY <1>1
<1>5. Cardinality({i \in 1..l : b < i /\ i =< u}) = IF b < top THEN top - b ELSE 0
  BY <1>2, <1>3, <1>4
<1>. QED
  BY <1>5 DEF top

\* The list is sorted and has the symbols that the smaller ones leave room for.
LEMMA SmallestHeld == SearchInv => KeepsSmallest
<1>. SUFFICES ASSUME SearchInv PROVE KeepsSmallest
  OBVIOUS
<1>1. /\ gbl_matches \in Seq(Names) /\ Len(gbl_matches) \in Nat /\ env \subseteq Entries
      /\ Len(gbl_matches) = Least(MATCH_MAX, Cardinality(Matching))
      /\ \A D : Lower(D) => Cut(gbl_matches, D, Cardinality(Seen(D)))
  BY DEF SearchInv
<1>2. ASSUME NEW i \in 1..(Len(gbl_matches) - 1), Less(gbl_matches[i + 1], gbl_matches[i])
      PROVE  FALSE
  <2>1. i \in 1..Len(gbl_matches) /\ i + 1 \in 1..Len(gbl_matches)
    BY <1>1
  <2>2. gbl_matches[i] \in Names /\ gbl_matches[i + 1] \in Names
    BY <1>1, <2>1
  <2> DEFINE D == Below(gbl_matches[i])
             k == Cardinality(Seen(D))
  <2>3. Lower(D) /\ gbl_matches[i] \notin D /\ gbl_matches[i + 1] \in D
    BY <1>2, <2>2, BetweenIs DEF Below
  <2>4. k \in Nat
    BY <1>1, SeenAre
  <2>5. Cut(gbl_matches, D, k)
    BY <1>1, <2>3
  <2>. HIDE DEF D, k
  <2>6. ~(i =< k) /\ i + 1 =< k
    BY <2>1, <2>3, <2>5 DEF Cut
  <2>. QED
    BY <2>4, <2>6
<1>3. ASSUME NEW n \in Names
      PROVE  LET smaller == Cardinality({e \in Matching : Less(e[2], n)})
                 defined == Cardinality({e \in Matching : e[2] = n})
                 left == IF smaller < MATCH_MAX THEN MATCH_MAX - smaller ELSE 0
             IN Cardinality({i \in DOMAIN gbl_matches : gbl_matches[i] = n}) = Least(left, defined)
  <2> DEFINE b == Cardinality(Seen(Below(n)))
             u == Cardinality(Seen(UpTo(n)))
             d == Cardinality(Defined(n))
             total == Cardinality(Matching)
             l == Len(gbl_matches)
             h == Cardinality(Held(n))
  <2>1. Seen(Below(n)) = {e \in Matching : Less(e[2], n)}
    <3>1. \A e \in Matching : e[2] \in Names
      BY <1>1, EntriesAre DEF Matching
    <3>. QED
      BY <3>1 DEF Seen, Below
  <2>2. /\ b \in Nat /\ d \in Nat /\ u = b + d /\ u =< total
        /\ Held(n) = {i \in 1..l : b < i /\ i =< u}
    BY HeldAre
  <2>3. total \in Nat /\ l \in Nat /\ l = Least(MATCH_MAX, total)
    BY <1>1, SeenAre
  <2>4. MATCH_MAX \in Nat
    BY MatchMaxPositive
  <2>. HIDE DEF b, u, d, total, l
  <2>5. u \in Nat /\ b =< u
    BY <2>2
  <2>6. h = LET top == Least(l, u) IN IF b < top THEN top - b ELSE 0
    BY <2>2, <2>3, <2>5, CountBetween
  <2>. HIDE DEF h
  <2>7. h = Least(IF b < MATCH_MAX THEN MATCH_MAX - b ELSE 0, d)
    <3>1. l = IF MATCH_MAX < total THEN MATCH_MAX ELSE total
      BY <2>3 DEF Least
    <3> DEFINE top == Least(l, u)
               left == IF b < MATCH_MAX THEN MATCH_MAX - b ELSE 0
    <3>2. top = IF l < u THEN l ELSE u
      BY DEF Least
    <3>3. h = IF b < top THEN top - b ELSE 0
      BY <2>6
    <3>4. left = IF b < MATCH_MAX THEN MATCH_MAX - b ELSE 0
      OBVIOUS
    <3>. HIDE DEF top, left
    <3>5. h = IF left < d THEN left ELSE d
      <4>1. u =< total /\ u = b + d /\ b \in Nat /\ d \in Nat /\ u \in Nat /\ total \in Nat
        BY <2>2, <2>3, <2>5
      <4>2. top = IF MATCH_MAX < u THEN MATCH_MAX ELSE u
        <5>1. CASE MATCH_MAX < total
          BY <5>1, <3>1, <3>2
        <5>2. CASE ~(MATCH_MAX < total)
          <6>1. top = u
            BY <5>2, <4>1, <3>1, <3>2
          <6>2. ~(MATCH_MAX < u)
            BY <5>2, <4>1, <2>4
          <6>. QED
            BY <6>1, <6>2
        <5>. QED
          BY <5>1, <5>2
      <4>3. CASE b < MATCH_MAX
        BY <4>1, <4>2, <4>3, <2>4, <3>3, <3>4
      <4>4. CASE ~(b < MATCH_MAX)
        BY <4>1, <4>2, <4>4, <2>4, <3>3, <3>4
      <4>. QED
        BY <4>3, <4>4
    <3>. QED
      BY <3>5 DEF Least, left
  <2>. QED
    BY <2>1, <2>7 DEF b, d, h, Defined, Held
<1>. QED
  BY <1>2, <1>3 DEF KeepsSmallest

\* As long as there is room, every matching symbol has a place, and only they do.
LEMMA AllHeld ==
  ASSUME SearchInv, Cardinality(Matching) =< MATCH_MAX
  PROVE  /\ \A e \in Matching : \E i \in DOMAIN gbl_matches : gbl_matches[i] = e[2]
         /\ \A i \in DOMAIN gbl_matches : \E e \in Matching : e[2] = gbl_matches[i]
<1>1. /\ gbl_matches \in Seq(Names) /\ Len(gbl_matches) \in Nat /\ env \subseteq Entries
      /\ Len(gbl_matches) = Least(MATCH_MAX, Cardinality(Matching))
  BY DEF SearchInv
<1>2. Cardinality(Matching) \in Nat /\ IsFiniteSet(Matching)
  BY <1>1, SeenAre
<1>3. Len(gbl_matches) = Cardinality(Matching)
  BY <1>1, <1>2, MatchMaxPositive DEF Least
<1>4. ASSUME NEW e \in Matching PROVE \E i \in DOMAIN gbl_matches : gbl_matches[i] = e[2]
  <2>1. e[2] \in Names
    BY <1>1, EntriesAre DEF Matching
  <2> DEFINE n == e[2]
             b == Cardinality(Seen(Below(n)))
             u == Cardinality(Seen(UpTo(n)))
             d == Cardinality(Defined(n))
  <2>2. /\ b \in Nat /\ d \in Nat /\ u = b + d /\ u =< Len(gbl_matches)
        /\ Held(n) = {i \in 1..Len(gbl_matches) : b < i /\ i =< u}
    BY <2>1, <1>3, HeldAre
  <2>3. d # 0
    <3>1. e \in Defined(n) /\ Defined(n) \subseteq Matching
      BY DEF Defined
    <3>2. IsFiniteSet(Defined(n))
      BY <3>1, <1>2, FS_Subset
    <3>. QED
      BY <3>1, <3>2, FS_EmptySet
  <2>. HIDE DEF b, u, d
  <2>4. u \in 1..Len(gbl_matches) /\ b < u /\ u =< u
    BY <1>1, <2>2, <2>3
  <2>5. u \in Held(n)
    BY <2>2, <2>4
  <2>. QED
    BY <2>5 DEF Held
<1>5. ASSUME NEW i \in DOMAIN gbl_matches PROVE \E e \in Matching : e[2] = gbl_matches[i]
  <2> DEFINE n == gbl_matches[i]
             b == Cardinality(Seen(Below(n)))
             u == Cardinality(Seen(UpTo(n)))
             d == Cardinality(Defined(n))
  <2>1. n \in Names
    BY <1>1
  <2>2. /\ b \in Nat /\ d \in Nat /\ u = b + d
        /\ Held(n) = {j \in 1..Len(gbl_matches) : b < j /\ j =< u}
    BY <2>1, HeldAre
  <2>3. i \in Held(n)
    BY DEF Held
  <2>4. b < i /\ i =< u /\ i \in Nat
    BY <2>2, <2>3, <1>1
  <2>5. d # 0
    <3>. HIDE DEF b, u, d
    <3>. QED
      BY <2>2, <2>4
  <2>6. Defined(n) # {}
    BY <2>5, FS_EmptySet
  <2>. QED
    BY <2>6 DEF Defined
<1>. QED
  BY <1>4, <1>5

-----------------------------------------------------------------------------
(* What Tab inserts. *)

\* A prefix of a prefix is one.
LEMMA PrefixOfPrefix ==
  ASSUME NEW B, NEW a \in Seq(B), NEW b \in Seq(B), NEW d \in Seq(B), IsPrefix(a, b), IsPrefix(b, d)
  PROVE  IsPrefix(a, d)
<1>1. Len(a) \in Nat /\ Len(b) \in Nat /\ Len(d) \in Nat
  OBVIOUS
<1>2. /\ Len(a) =< Len(b) /\ \A j \in 1..Len(a) : a[j] = b[j]
      /\ Len(b) =< Len(d) /\ \A j \in 1..Len(b) : b[j] = d[j]
  BY PrefixIs
<1>3. Len(a) =< Len(d) /\ \A j \in 1..Len(a) : j \in 1..Len(b)
  BY <1>1, <1>2
<1>4. \A j \in 1..Len(a) : a[j] = d[j]
  BY <1>2, <1>3
<1>. QED
  BY <1>3, <1>4, PrefixIs

\* p is all that the strings at the places I of ms have in common.
AllCommon(p, ms, I) ==
  /\ \A j \in I : IsPrefix(p, ms[j])
  /\ \E i, j \in I : ms[i] = p \/ ms[i][Len(p) + 1] # ms[j][Len(p) + 1]

\* One string more.
LEMMA OneMore ==
  ASSUME NEW B, NEW ms \in Seq(Seq(B)), NEW I, I \subseteq 1..Len(ms), 1 \in I,
         NEW a \in Seq(B), AllCommon(a, ms, I), NEW m \in 1..Len(ms)
  PROVE  AllCommon(Common(a, ms[m]), ms, I \cup {m})
<1> DEFINE p == Common(a, ms[m])
<1>1. ms[m] \in Seq(B) /\ \A j \in I : ms[j] \in Seq(B) /\ j \in 1..Len(ms)
  OBVIOUS
<1>2. /\ p \in Seq(B) /\ IsPrefix(p, a) /\ IsPrefix(p, ms[m])
      /\ p = a \/ p = ms[m] \/ a[Len(p) + 1] # ms[m][Len(p) + 1]
  BY <1>1, CommonIs
<1>3. /\ \A j \in I : IsPrefix(a, ms[j])
      /\ \E i, j \in I : ms[i] = a \/ ms[i][Len(a) + 1] # ms[j][Len(a) + 1]
  BY DEF AllCommon
<1>. HIDE DEF p
<1>4. \A j \in I \cup {m} : IsPrefix(p, ms[j])
  <2>1. \A j \in I : IsPrefix(p, ms[j])
    BY <1>1, <1>2, <1>3, PrefixOfPrefix
  <2>. QED
    BY <2>1, <1>2
<1>5. \E i, j \in I \cup {m} : ms[i] = p \/ ms[i][Len(p) + 1] # ms[j][Len(p) + 1]
  <2>1. CASE p = a
    BY <2>1, <1>3
  <2>2. CASE p = ms[m]
    BY <2>2
  <2>3. CASE p # a /\ a[Len(p) + 1] # ms[m][Len(p) + 1]
    <3>1. Len(p) \in Nat /\ Len(a) \in Nat
      BY <1>2
    <3>2. Len(p) =< Len(a) /\ \A j \in 1..Len(p) : p[j] = a[j]
      BY <1>2, PrefixIs
    <3>3. Len(p) # Len(a)
      BY <1>2, <2>3, <3>2, SeqEqual
    <3>4. Len(p) + 1 \in 1..Len(a)
      BY <3>1, <3>2, <3>3
    <3>5. ms[1] \in Seq(B) /\ IsPrefix(a, ms[1])
      BY <1>1, <1>3
    <3>6. \A j \in 1..Len(a) : a[j] = ms[1][j]
      BY <3>5, PrefixIs
    <3>7. ms[1][Len(p) + 1] = a[Len(p) + 1]
      BY <3>4, <3>6
    <3>8. ms[1][Len(p) + 1] # ms[m][Len(p) + 1] /\ 1 \in I \cup {m} /\ m \in I \cup {m}
      BY <2>3, <3>7
    <3>. QED
      BY <3>8
  <2>. QED
    BY <1>2, <2>1, <2>2, <2>3
<1>. QED
  BY <1>4, <1>5 DEF AllCommon, p

\* longest_common_prefix returns all that the matches have in common.
LEMMA LongestIs ==
  ASSUME NEW B, NEW ms \in Seq(Seq(B)), ms # <<>>
  PROVE  AllCommon(longest_common_prefix(ms), ms, 1..Len(ms))
<1> DEFINE n == Len(ms)
           First(k) == {j \in 1..n : j = 1 \/ j =< k}
<1>1. n \in Nat /\ n # 0 /\ \A j \in 1..n : ms[j] \in Seq(B)
  OBVIOUS
<1>2. PICK g : /\ g \in [0..n -> Seq(B)] /\ g[0] = ms[1]
               /\ \A k \in 1..n : g[k] = Common(g[k - 1], ms[k])
               /\ longest_common_prefix(ms) = g[n]
  BY CommonWalk
<1>. HIDE DEF n
<1> DEFINE S == {k \in 0..n : AllCommon(g[k], ms, First(k))}
<1>3. 0 \in S
  <2>1. First(0) = {1} /\ ms[1] \in Seq(B)
    BY <1>1
  <2>2. IsPrefix(ms[1], ms[1])
    BY <2>1, PrefixIs
  <2>3. AllCommon(ms[1], ms, {1})
    BY <2>2 DEF AllCommon
  <2>4. 0 \in 0..n
    BY <1>1
  <2>. HIDE DEF First
  <2>. QED
    BY <1>2, <2>1, <2>3, <2>4
<1>4. ASSUME NEW k \in 0..(n - 1), k \in S PROVE k + 1 \in S
  <2>1. k + 1 \in 0..n /\ k + 1 \in 1..n /\ (k + 1) - 1 = k /\ k \in 0..n
    BY <1>1
  <2>2. First(k + 1) = First(k) \cup {k + 1} /\ 1 \in First(k) /\ First(k) \subseteq 1..n
    BY <1>1, <2>1
  <2>3. AllCommon(g[k], ms, First(k)) /\ g[k] \in Seq(B)
    BY <1>2, <1>4, <2>1
  <2>. HIDE DEF First
  <2>4. AllCommon(Common(g[k], ms[k + 1]), ms, First(k) \cup {k + 1})
    BY <2>1, <2>2, <2>3, OneMore DEF n
  <2>5. g[k + 1] = Common(g[k], ms[k + 1])
    BY <1>2, <2>1
  <2>. QED
    BY <2>1, <2>2, <2>4, <2>5
<1>5. n \in S
  <2>1. \A k \in 0..(n - 1) : k \in S => k + 1 \in S
    BY <1>4
  <2>2. n \in 0..n
    BY <1>1
  <2>. HIDE DEF S
  <2>3. 0..n \subseteq S
    BY <1>1, <1>3, <2>1, Induction
  <2>. QED
    BY <2>2, <2>3
<1>6. First(n) = 1..n
  BY <1>1
<1>. HIDE DEF First
<1>. QED
  BY <1>2, <1>5, <1>6 DEF n

\* Tab inserts what all matching symbols have in common.
LEMMA CommonInserted == SearchInv => InsertsAllCommon
<1>. SUFFICES ASSUME SearchInv, gbl_matches # <<>>, Cardinality(Matching) =< MATCH_MAX
              PROVE  /\ \A e \in Matching : IsPrefix(lcp, e[2])
                     /\ \E e, f \in Matching : \/ e[2] = lcp
                                               \/ e[2][Len(lcp) + 1] # f[2][Len(lcp) + 1]
  BY DEF InsertsAllCommon
<1>1. gbl_matches \in Seq(Names) /\ DOMAIN gbl_matches = 1..Len(gbl_matches)
  BY DEF SearchInv
<1>2. gbl_matches \in Seq(Seq(Int))
  BY <1>1, NamesAreInts
<1>3. AllCommon(lcp, gbl_matches, DOMAIN gbl_matches)
  BY <1>1, <1>2, LongestIs DEF lcp
<1>4. /\ \A e \in Matching : \E i \in DOMAIN gbl_matches : gbl_matches[i] = e[2]
      /\ \A i \in DOMAIN gbl_matches : \E e \in Matching : e[2] = gbl_matches[i]
  BY AllHeld
<1>5. \A e \in Matching : IsPrefix(lcp, e[2])
  BY <1>3, <1>4 DEF AllCommon
<1>6. PICK i \in DOMAIN gbl_matches, j \in DOMAIN gbl_matches :
        gbl_matches[i] = lcp \/ gbl_matches[i][Len(lcp) + 1] # gbl_matches[j][Len(lcp) + 1]
  BY <1>3 DEF AllCommon
<1>7. PICK e \in Matching, f \in Matching : e[2] = gbl_matches[i] /\ f[2] = gbl_matches[j]
  BY <1>4
<1>8. e[2] = lcp \/ e[2][Len(lcp) + 1] # f[2][Len(lcp) + 1]
  BY <1>6, <1>7
<1>. QED
  BY <1>5, <1>8

\* check_match keeps the smallest of the matching symbols, sorted and as often as they
\* are defined, in whatever order the tables give them: for any names, chain of
\* environments, typed symbol and size of the list.
THEOREM SmallestKept == SearchSpec => []KeepsSmallest
BY SearchIsInv, SmallestHeld, PTL

\* kshowcomp inserts what all matching symbols go on with, and all of it, as long as
\* the list has not overflowed.
THEOREM AllCommonInserted == SearchSpec => []InsertsAllCommon
BY SearchIsInv, CommonInserted, PTL
=============================================================================
