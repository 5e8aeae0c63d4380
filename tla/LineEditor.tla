----------------------------- MODULE LineEditor -----------------------------
(***************************************************************************)
(* The line editor of the REPL (target/super/super.c): janet_line_get with *)
(* its key loop, the history, completion, the redrawing of the line and    *)
(* the mode of the terminal.                                               *)
(*                                                                         *)
(* The editor is one thread; what interleaves is the person at the         *)
(* keyboard, whose keys arrive as sequences of bytes (input) that the loop *)
(* reads one by one.  gbl_buf is the array of the code, with its NUL and   *)
(* the bytes behind it; history lines are pieces of a heap.                *)
(***************************************************************************)
EXTENDS SymbolMatch, FiniteSets

CONSTANTS
  LINE_MAX, HISTORY_MAX,  \* JANET_LINE_MAX (1024), JANET_HISTORY_MAX (100)
  Keys,                   \* byte sequences that the keyboard sends
  Widths, PromptLengths,  \* columns of the terminal, lengths of the prompt
  Envs,                   \* gbl_complete_env: chains (sequences) of sets of names
  Specials,               \* the names check_specials adds, a sequence
  Ptrs, NULL,             \* pieces of memory; no pointer
  MaxLines,               \* bound on the calls of janet_line_get
  Faults,                 \* "nomem", "notty", "norestore", "nowrite": what may fail
  SigintFate              \* "killed", or "idle" where SIGINT is ignored

Bytes == 0..255
NUL == 0
Spaces == (9..13) \cup {32}
NoEnv == <<>>

ASSUME SizesPositive == LINE_MAX \in Nat \ {0} /\ HISTORY_MAX \in Nat \ {0}
ASSUME KeysAreBytes == Keys \subseteq Seq(Bytes) \ {<<>>}
ASSUME ScreenSizes == Widths \subseteq Nat \ {0} /\ PromptLengths \subseteq Nat
ASSUME MemorySuffices == /\ IsFiniteSet(Ptrs) /\ Cardinality(Ptrs) > HISTORY_MAX
                         /\ NULL \notin Ptrs
ASSUME NamesAreStrings ==
  /\ Specials \in Seq(Seq(1..255))
  /\ \A chain \in Envs : /\ chain \in Seq(SUBSET Seq(1..255))
                         /\ \A i \in DOMAIN chain : IsFiniteSet(chain[i])
ASSUME SigintKillsOrNot == SigintFate \in {"killed", "idle"}

VARIABLES
  pc,                     \* "idle", reading: "line", "esc", "csi", "ext";
                          \* "stopped", "killed", "exit", "crashed", "died"
  input,                  \* bytes typed and not yet read
  seq1,                   \* seq[1] of an extended escape
  line,                   \* gbl_buf, gbl_len, gbl_pos
  shown,                  \* what the terminal shows: text, column of the cursor
  gbl_cols, gbl_plen,
  gbl_complete_env, gbl_lines_below,
  gbl_history, gbl_history_count, gbl_historyi,
  heap,                   \* the strings at the pointers that are allocated
  tty, gbl_termios_start, \* "cooked" or "raw": the terminal; what to go back to
  gbl_israwmode, gbl_sigint_flag,
  left_raw,               \* a change back has failed, and none has succeeded since
  result,                 \* the buffer of the last call
  lines                   \* calls made

hist == <<gbl_history, gbl_history_count, gbl_historyi, heap>>
term == <<tty, gbl_termios_start, gbl_israwmode, left_raw>>
call == <<gbl_cols, gbl_plen, gbl_complete_env, lines>>
session == <<term, call, gbl_sigint_flag, result>>
display == <<line, shown, gbl_lines_below>>
vars == <<pc, input, seq1, display, hist, session>>

-----------------------------------------------------------------------------
(* The buffer. *)

Places == 0..(LINE_MAX - 1)

\* The bytes from p to q, without q.
Piece(b, p, q) == [i \in 1..(q - p) |-> b[p + i - 1]]

\* The string a char pointer to gbl_buf stands for.
CString(b) == Piece(b, 0, CHOOSE n \in Places : b[n] = NUL /\ \A i \in 0..(n - 1) : b[i] # NUL)

Room(t) == LINE_MAX - 1 - t.len

\* insert for one byte after the other: nothing more when the line is full.
insert(t, s) ==
  LET n == IF Len(s) < Room(t) THEN Len(s) ELSE Room(t)
  IN IF n = 0 THEN t
     ELSE [buf |-> [i \in Places |-> IF i \in t.pos..(t.pos + n - 1) THEN s[i - t.pos + 1]
                                    ELSE IF i \in (t.pos + n)..(t.len + n - 1) THEN t.buf[i - n]
                                    ELSE IF i = t.len + n THEN NUL ELSE t.buf[i]],
           len |-> t.len + n, pos |-> t.pos + n]

\* Mutant: the line is not terminated again.
remove_open(t, p, n) ==
  [buf |-> [i \in Places |-> IF i \in p..(t.len - n - 1) THEN t.buf[i + n] ELSE t.buf[i]],
   len |-> t.len - n, pos |-> p]

\* kbackspace or kdelete n times, which leaves the cursor at p: the rest moves
\* left byte by byte, each time with a NUL behind it.
remove(t, p, n) ==
  [buf |-> [i \in Places |-> IF i \in p..(t.len - n - 1) THEN t.buf[i + n]
                            ELSE IF i \in (t.len - n)..(t.len - 1) THEN NUL ELSE t.buf[i]],
   len |-> t.len - n, pos |-> p]

\* Where a loop ends that walks left from p, or right from p up to q, over
\* bytes of S.
Left(b, p, S) == CHOOSE k \in 0..p : /\ \A i \in k..(p - 1) : b[i] \in S
                                     /\ k = 0 \/ b[k - 1] \notin S
Right(b, p, q, S) == CHOOSE k \in p..q : /\ \A i \in p..(k - 1) : b[i] \in S
                                         /\ k = q \/ b[k] \notin S

Words == Bytes \ Spaces
kleftw(t) == Left(t.buf, Left(t.buf, t.pos, Spaces), Words)
krightw(t) == Right(t.buf, Right(t.buf, t.pos, t.len, Words), t.len, Spaces)

kdeletew(t) == Right(t.buf, Right(t.buf, t.pos, t.len, Spaces), t.len, Words)

\* The text after each key of the loop that only edits.
TextAfter(op, t) ==
  CASE op = "home"       -> [t EXCEPT !.pos = 0]
    [] op = "end"        -> [t EXCEPT !.pos = t.len]
    [] op = "left"       -> [t EXCEPT !.pos = IF @ = 0 THEN 0 ELSE @ - 1]
    [] op = "right"      -> [t EXCEPT !.pos = IF @ = t.len THEN @ ELSE @ + 1]
    [] op = "leftw"      -> [t EXCEPT !.pos = kleftw(t)]
    [] op = "rightw"     -> [t EXCEPT !.pos = krightw(t)]
    [] op = "backspace"  -> IF t.pos = 0 THEN t ELSE remove(t, t.pos - 1, 1)
    [] op = "delete"     -> IF t.pos = t.len THEN t ELSE remove(t, t.pos, 1)
    [] op = "backspacew" -> remove(t, kleftw(t), t.pos - kleftw(t))
    [] op = "deletew"    -> remove(t, t.pos, kdeletew(t) - t.pos)
    [] op = "kill"       -> [t EXCEPT !.buf[t.pos] = NUL, !.len = t.pos]
    [] op = "killstart"  -> LET n == t.len - t.pos IN
                            [buf |-> [i \in Places |-> IF i < n THEN t.buf[i + t.pos]
                                                      ELSE IF i = n THEN NUL ELSE t.buf[i]],
                             len |-> n, pos |-> 0]
    [] op \in {"clear", "none"} -> t

\* These return without drawing when there is nothing to do.
Silent(op, t) == \/ op = "none"
                 \/ op \in {"left", "backspace"} /\ t.pos = 0
                 \/ op \in {"right", "delete"} /\ t.pos = t.len

-----------------------------------------------------------------------------
(* The screen. *)

\* refresh drops what is left of the window so that the cursor fits, then what
\* does not fit at the right.
Hidden(t) == IF gbl_plen + t.pos >= gbl_cols THEN gbl_plen + t.pos - gbl_cols + 1 ELSE 0
Visible(t) == LET n == t.len - Hidden(t)
              IN IF gbl_plen + n > gbl_cols THEN gbl_cols - gbl_plen ELSE n

\* The escape sequence that moves the cursor right moves it by one when it is
\* given 0.
CursorAt(n) == IF n = 0 THEN 1 ELSE n

Drawn(t) == [text |-> Piece(t.buf, Hidden(t), Hidden(t) + Visible(t)),
             cursor |-> CursorAt(gbl_plen + t.pos - Hidden(t))]

\* The line is t now, and drawn; a negative number of bytes is copied as a huge one.
\* Where the terminal cannot be written to, the process ends here with exit(1), as
\* in getcols and clear, and nothing restores the mode of the terminal.
Redraw(t) == /\ line' = t
             /\ IF Visible(t) < 0 THEN pc' = "crashed" /\ UNCHANGED shown
                ELSE \/ pc' = "line" /\ shown' = Drawn(t)
                     \/ "nowrite" \in Faults /\ pc' = "died" /\ UNCHANGED shown

-----------------------------------------------------------------------------
(* History slots and the heap. *)

History == 0..(HISTORY_MAX - 1)

Allocated(p) == p \in DOMAIN heap
CanFree(p) == p = NULL \/ Allocated(p)
Released(h, p) == [q \in DOMAIN h \ {p} |-> h[q]]

\* What sdup(s) may do to the heap h: the pointer returned, and the heap.
sdup(h, s) ==
  {[ptr |-> p, heap |-> [q \in DOMAIN h \cup {p} |-> IF q = p THEN s ELSE h[q]]] :
     p \in Ptrs \ DOMAIN h}
  \cup (IF "nomem" \in Faults THEN {[ptr |-> NULL, heap |-> h]} ELSE {})

\* Mutant: the oldest line is not freed when the history is full.
addhistory_leak ==
  \E m \in sdup(heap, <<>>) :
    /\ heap' = m.heap
    /\ gbl_history' = [i \in History |-> IF i = 0 THEN m.ptr ELSE gbl_history[i - 1]]
    /\ gbl_history_count' = IF gbl_history_count < HISTORY_MAX THEN gbl_history_count + 1
                            ELSE HISTORY_MAX

addhistory ==
  \E m \in sdup(heap, <<>>) :
    LET full == gbl_history_count >= HISTORY_MAX
        len == IF full THEN HISTORY_MAX ELSE gbl_history_count + 1
    IN IF m.ptr = NULL THEN UNCHANGED <<heap, gbl_history, gbl_history_count>>
       ELSE /\ heap' = IF full THEN Released(m.heap, gbl_history[HISTORY_MAX - 1]) ELSE m.heap
            /\ gbl_history' = [i \in History |-> IF i = 0 THEN m.ptr
                                                 ELSE IF i < len THEN gbl_history[i - 1]
                                                 ELSE gbl_history[i]]
            /\ gbl_history_count' = len

\* Mutant: the line is compared with its own slot, which holds an earlier edit.
Repeated_own(t) == gbl_history_count > 1 /\ CString(t.buf) = heap[gbl_history[0]]

\* The line is the one before once more.
Repeated(t) == gbl_history_count > 1 /\ CString(t.buf) = heap[gbl_history[1]]

\* Mutant: the slot keeps a pointer that is already freed.
replacehistory_stale(t) ==
  \/ /\ t.len = 0 \/ Repeated(t)
     /\ heap' = Released(heap, gbl_history[0])
     /\ gbl_history_count' = gbl_history_count - 1
     /\ UNCHANGED gbl_history
  \/ /\ ~(t.len = 0 \/ Repeated(t))
     /\ UNCHANGED <<heap, gbl_history, gbl_history_count>>

replacehistory(t) ==
  \/ /\ t.len = 0 \/ Repeated(t)
     /\ heap' = Released(heap, gbl_history[0])
     /\ gbl_history' = [i \in History |-> IF i + 1 < gbl_history_count THEN gbl_history[i + 1]
                                          ELSE gbl_history[i]]
     /\ gbl_history_count' = gbl_history_count - 1
  \/ /\ ~(t.len = 0 \/ Repeated(t))
     /\ \E m \in sdup(heap, CString(t.buf)) :
          IF m.ptr = NULL THEN UNCHANGED <<heap, gbl_history>>
          ELSE /\ heap' = Released(m.heap, gbl_history[0])
               /\ gbl_history' = [gbl_history EXCEPT ![0] = m.ptr]
     /\ UNCHANGED gbl_history_count

\* Mutant: copies the bytes of the line and not its NUL.
Loaded_open(b, s) ==
  [buf |-> [i \in Places |-> IF i < Len(s) THEN s[i + 1] ELSE b[i]],
   len |-> Len(s), pos |-> Len(s)]

\* strncpy of s into the buffer, which pads with NUL but not the last byte.
Loaded(b, s) ==
  LET b1 == [i \in Places |-> IF i < Len(s) THEN s[i + 1]
                             ELSE IF i < LINE_MAX - 1 THEN NUL ELSE b[i]]
      n == Len(CString(b1))
  IN [buf |-> b1, len |-> n, pos |-> n]

\* The slot shown before takes the text as it was edited.
historymove(delta) ==
  LET old == gbl_history[gbl_historyi]
      to == IF gbl_historyi + delta < 0 THEN 0
            ELSE IF gbl_historyi + delta >= gbl_history_count THEN gbl_history_count - 1
            ELSE gbl_historyi + delta
  IN IF gbl_history_count =< 1
     THEN pc' = "line" /\ UNCHANGED <<line, shown, hist>>
     ELSE IF ~CanFree(old) THEN pc' = "crashed" /\ UNCHANGED <<line, shown, hist>>
     ELSE \E m \in sdup(Released(heap, old), CString(line.buf)) :
            LET slots == [gbl_history EXCEPT ![gbl_historyi] = m.ptr]
                p == slots[to]
            IN /\ gbl_history' = slots /\ heap' = m.heap /\ gbl_historyi' = to
               /\ UNCHANGED gbl_history_count
               /\ IF p \in DOMAIN m.heap THEN Redraw(Loaded(line.buf, m.heap[p]))
                  ELSE pc' = "crashed" /\ UNCHANGED <<line, shown>>

-----------------------------------------------------------------------------
(* The mode of the terminal. *)

rawmode == /\ gbl_termios_start' = tty /\ tty' = "raw" /\ gbl_israwmode' = TRUE
           /\ UNCHANGED left_raw

\* No terminal, or one whose mode is read and cannot be set.
rawmode_fails == /\ "notty" \in Faults
                 /\ gbl_termios_start' \in {gbl_termios_start, tty}
                 /\ UNCHANGED <<tty, gbl_israwmode, left_raw>>

\* Mutant: the flag says that there is nothing to restore.
norawmode_never == gbl_israwmode' = FALSE /\ UNCHANGED <<tty, gbl_termios_start, left_raw>>

\* Where tcsetattr fails the terminal stays raw and the flag set.
norawmode == \/ /\ gbl_israwmode
                /\ tty' = gbl_termios_start /\ gbl_israwmode' = FALSE
                /\ left_raw' = (left_raw /\ gbl_termios_start # "cooked")
                /\ UNCHANGED gbl_termios_start
             \/ /\ gbl_israwmode /\ "norestore" \in Faults
                /\ left_raw' = TRUE
                /\ UNCHANGED <<tty, gbl_termios_start, gbl_israwmode>>
             \/ ~gbl_israwmode /\ UNCHANGED term

-----------------------------------------------------------------------------
(* Completion. *)

\* The names of a chain of tables, each in the order of its table.
ChainNames(chain) == FoldLeft(LAMBDA s, names : s \o SetToSeq(names), <<>>, chain)

AllNames == ChainNames(gbl_complete_env) \o Specials

Matches(src, names) == FoldLeft(LAMBDA ms, name : check_match(ms, src, name), <<>>, names)

Widest(names) == FoldLeft(LAMBDA n, name : IF Len(name) > n THEN Len(name) ELSE n, 0, names)

\* The text after a tab, and the number of lines printed below it.  (The width is
\* asked for again here; it is taken not to change while a line is edited.)
kshowcomp(t) ==
  LET moved == [t EXCEPT !.pos = Right(t.buf, t.pos, LINE_MAX, SymbolBytes)]
      src == Piece(t.buf, Left(t.buf, moved.pos, SymbolBytes), moved.pos)
      matches == Matches(src, AllNames)
      common == longest_common_prefix(matches)
      longer == SubSeq(common, Len(src) + 1, Len(common))
      wide == gbl_cols \div (Widest(matches) + 4)
      columns == IF wide = 0 THEN 1 ELSE wide
  IN IF gbl_complete_env = NoEnv
     THEN [text |-> insert(t, <<32, 32>>), below |-> gbl_lines_below]
     ELSE IF src = <<>> THEN [text |-> moved, below |-> gbl_lines_below]
     ELSE [text |-> insert(moved, longer),
           below |-> IF gbl_lines_below = 0 /\ Len(common) # Len(src) THEN 0
                     ELSE IF Len(matches) < 2 THEN 0
                     ELSE (Len(matches) + columns - 1) \div columns]

-----------------------------------------------------------------------------
(* janet_line_get. *)

Init == /\ pc = "idle" /\ input = <<>> /\ seq1 = NUL
        /\ line = [buf |-> [i \in Places |-> NUL], len |-> 0, pos |-> 0]
        /\ shown = [text |-> <<>>, cursor |-> 0]
        /\ gbl_cols = 80 /\ gbl_plen = 2
        /\ gbl_complete_env = NoEnv /\ gbl_lines_below = 0
        /\ gbl_history = [i \in History |-> NULL]
        /\ gbl_history_count = 0 /\ gbl_historyi = 0
        /\ heap = <<>>
        /\ tty = "cooked" /\ gbl_termios_start = "cooked"
        /\ gbl_israwmode = FALSE /\ gbl_sigint_flag = FALSE
        /\ left_raw = FALSE
        /\ result = <<>> /\ lines = 0

\* The head of janet_line_get and of line, up to the first read.
Begin ==
  /\ pc = "idle" /\ lines < MaxLines
  /\ lines' = lines + 1
  /\ gbl_historyi' = 0 /\ result' = <<>>
  /\ rawmode
  /\ gbl_cols' \in Widths /\ gbl_plen' \in PromptLengths
  /\ gbl_complete_env' \in Envs
  /\ line' = [buf |-> [line.buf EXCEPT ![0] = NUL], len |-> 0, pos |-> 0]
  /\ shown' = [text |-> <<>>, cursor |-> gbl_plen']
  /\ IF gbl_history_count < 0
     THEN pc' = "crashed" /\ UNCHANGED <<gbl_history, gbl_history_count, heap>>
     ELSE pc' = "line" /\ addhistory
  /\ UNCHANGED <<input, seq1, gbl_lines_below, gbl_sigint_flag>>

\* getcols asks the terminal for its width and cannot write the question.
BeginDies ==
  /\ pc = "idle" /\ lines < MaxLines
  /\ "nowrite" \in Faults
  /\ pc' = "died"
  /\ lines' = lines + 1
  /\ rawmode
  /\ gbl_historyi' = 0 /\ result' = <<>>
  /\ UNCHANGED <<input, seq1, display, gbl_history, gbl_history_count, heap,
                 gbl_cols, gbl_plen, gbl_complete_env, gbl_sigint_flag>>

\* No terminal: simpleline reads a line that nobody edits.
BeginSimple ==
  /\ pc = "idle" /\ lines < MaxLines
  /\ lines' = lines + 1
  /\ rawmode_fails
  /\ gbl_historyi' = 0
  /\ result' \in {<<>>, <<10>>}
  /\ UNCHANGED <<pc, input, seq1, display, gbl_history,
                 gbl_history_count, heap, gbl_cols, gbl_plen, gbl_complete_env,
                 gbl_sigint_flag>>

\* The person at the keyboard.  What is typed in the middle of an escape sequence
\* is a key of one byte.
Press(key) == /\ pc = "line" \/ (pc \in {"esc", "csi", "ext"} /\ Len(key) = 1)
              /\ input = <<>>
              /\ input' = key
              /\ UNCHANGED <<pc, seq1, display, hist, session>>

\* read returns the next byte, c.
Read(at) == pc = at /\ input # <<>> /\ input' = Tail(input)
c == Head(input)

\* What the switch of the loop does for each command.
Do(op) ==
  /\ \/ /\ op \in {"older", "newer", "oldest", "newest"}
        /\ historymove(CASE op = "older" -> 1 [] op = "newer" -> -1
                         [] op = "oldest" -> HISTORY_MAX [] op = "newest" -> -HISTORY_MAX)
        /\ UNCHANGED gbl_lines_below
     \/ /\ op = "tab"
        /\ Redraw(kshowcomp(line).text)
        /\ gbl_lines_below' = kshowcomp(line).below
        /\ UNCHANGED hist
     \/ /\ op \notin {"older", "newer", "oldest", "newest", "tab"}
        /\ IF Silent(op, line) THEN pc' = "line" /\ UNCHANGED <<line, shown>>
           ELSE Redraw(TextAfter(op, line))
        /\ UNCHANGED <<gbl_lines_below, hist>>
  /\ seq1' = NUL
  /\ UNCHANGED session

\* The control characters of the loop.
Control(b) == CASE b = 1 -> "home" [] b = 2 -> "left" [] b = 4 -> "delete"
                [] b = 5 -> "end" [] b = 6 -> "right" [] b \in {8, 127} -> "backspace"
                [] b = 9 -> "tab" [] b = 11 -> "kill" [] b = 12 -> "clear"
                [] b = 14 -> "newer" [] b = 16 -> "older" [] b = 21 -> "killstart"
                [] b = 23 -> "backspacew" [] OTHER -> "none"

\* A char is signed: bytes beyond ASCII are less than 0x20 and are ignored.
Signed(b) == IF b > 127 THEN b - 256 ELSE b

\* Mutant: a byte in the last column counts as one that fits.
FitsOnScreen_late(t) == gbl_plen + t.len =< gbl_cols

\* A byte at the end of a line that fits is written without drawing the line.
FitsOnScreen(t) == gbl_plen + t.len < gbl_cols

TypeChar ==
  /\ Read("line")
  /\ Signed(c) >= 32 /\ c # 127
  /\ IF Room(line) = 0 THEN pc' = "line" /\ UNCHANGED <<line, shown>>
     ELSE IF line.pos = line.len /\ FitsOnScreen(insert(line, <<c>>))
     THEN /\ pc' = "line" /\ line' = insert(line, <<c>>)
          /\ shown' = [text |-> Append(shown.text, c), cursor |-> shown.cursor + 1]
     ELSE Redraw(insert(line, <<c>>))
  /\ UNCHANGED <<seq1, gbl_lines_below, hist, session>>

ControlKey ==
  /\ Read("line")
  /\ Signed(c) < 32 \/ c = 127
  /\ c \notin {3, 13, 26, 27} /\ ~(c = 4 /\ line.len = 0)
  /\ Do(Control(c))

EscapeKey == /\ Read("line") /\ c = 27
             /\ pc' = "esc"
             /\ UNCHANGED <<seq1, display, hist, session>>

\* What follows ESC: [ or one of the Alt bindings.  The branch for O sits behind
\* the test for [ and is never taken.
Alt(b) == CASE b = 100 -> "deletew" [] b = 98 -> "leftw" [] b = 102 -> "rightw"
            [] b = 44 -> "oldest" [] b = 46 -> "newest" [] b = 127 -> "backspacew"
            [] OTHER -> "none"

AltKey ==
  /\ Read("esc")
  /\ \/ /\ c = 91 /\ pc' = "csi"
        /\ UNCHANGED <<seq1, display, hist, session>>
     \/ c # 91 /\ Do(Alt(c))

Csi(b) == CASE b = 65 -> "older" [] b = 66 -> "newer" [] b = 67 -> "right"
            [] b = 68 -> "left" [] b = 72 -> "home" [] b = 70 -> "end" [] OTHER -> "none"

CsiKey ==
  /\ Read("csi")
  /\ \/ /\ c \in 48..57 /\ pc' = "ext" /\ seq1' = c
        /\ UNCHANGED <<display, hist, session>>
     \/ c \notin 48..57 /\ Do(Csi(c))

Extended(b) == CASE b = 49 -> "home" [] b = 51 -> "delete" [] b = 52 -> "end"
                 [] OTHER -> "none"

ExtendedKey ==
  /\ Read("ext")
  /\ Do(IF c = 126 THEN Extended(seq1) ELSE "none")

\* Ctrl-Z: the terminal is restored and the process stops until it is continued.
Suspend == /\ Read("line") /\ c = 26
           /\ norawmode
           /\ pc' = "stopped"
           /\ UNCHANGED <<seq1, display, hist, call, gbl_sigint_flag, result>>

\* The result of rawmode is not looked at.
Continue == /\ pc = "stopped"
            /\ rawmode \/ rawmode_fails
            /\ Redraw(line)
            /\ UNCHANGED <<input, seq1, gbl_lines_below, hist, call, gbl_sigint_flag, result>>

\* What replacehistory would free or read is not there.
HistoryBroken == \/ ~CanFree(gbl_history[0])
                 \/ /\ line.len # 0 /\ gbl_history_count > 1
                    /\ ~Allocated(gbl_history[1])

\* Mutant: the line is cut at the cursor.
Returned_to_cursor == Append(Piece(line.buf, 0, line.pos), 10)

Returned == Append(Piece(line.buf, 0, line.len), 10)

Enter ==
  /\ Read("line") /\ c = 13
  /\ norawmode
  /\ result' = Returned
  /\ IF HistoryBroken
     THEN pc' = "crashed" /\ UNCHANGED <<gbl_history, gbl_history_count, heap>>
     ELSE pc' = "idle" /\ replacehistory(line)
  /\ gbl_lines_below' = 0 /\ gbl_complete_env' = NoEnv
  /\ UNCHANGED <<seq1, line, shown, gbl_historyi, gbl_cols, gbl_plen, lines,
                 gbl_sigint_flag>>

\* line returns -1: the buffer stays empty, the history keeps its newest slot.
Abandoned(flag) ==
  /\ norawmode
  /\ gbl_sigint_flag' = flag
  /\ pc' = IF flag THEN SigintFate ELSE "idle"
  /\ gbl_complete_env' = NoEnv
  /\ UNCHANGED <<seq1, line, shown, hist, gbl_cols, gbl_plen, lines, result>>

\* Ctrl-C, and Ctrl-D on an empty line.
Interrupt == Read("line") /\ c = 3 /\ Abandoned(TRUE) /\ gbl_lines_below' = 0
EndOfInput == /\ Read("line") /\ c = 4 /\ line.len = 0
              /\ Abandoned(gbl_sigint_flag) /\ gbl_lines_below' = 0

\* The terminal is gone: read returns 0 or -1.  A prompt, or a byte written without
\* drawing, that cannot be written also ends the line like this, right after
\* Begin or TypeChar.
Hangup == /\ pc = "line" /\ input = <<>>
          /\ Abandoned(gbl_sigint_flag)
          /\ UNCHANGED <<input, gbl_lines_below>>

\* In an escape sequence -1 goes back to the loop; 0 leaves seq uninitialised,
\* so that any byte may be found there.
HangupInEscape ==
  /\ pc \in {"esc", "csi", "ext"} /\ input = <<>>
  /\ \/ /\ pc' = "line" /\ seq1' = NUL /\ UNCHANGED input
     \/ /\ \E key \in Keys : \E i \in DOMAIN key : input' = <<key[i]>>
        /\ UNCHANGED <<pc, seq1>>
  /\ UNCHANGED <<display, hist, session>>

\* The end of main: janet_line_deinit.
Deinit ==
  LET used == 0..(gbl_history_count - 1)
      twice == \E i, j \in used : i # j /\ gbl_history[i] = gbl_history[j]
                                /\ gbl_history[i] # NULL
  IN /\ pc = "idle"
     /\ norawmode
     /\ gbl_historyi' = 0
     /\ IF twice \/ \E i \in used : ~CanFree(gbl_history[i])
        THEN pc' = "crashed" /\ UNCHANGED heap
        ELSE /\ pc' = "exit"
             /\ heap' = [p \in DOMAIN heap \ {gbl_history[i] : i \in used} |-> heap[p]]
     /\ UNCHANGED <<input, seq1, display, gbl_history, gbl_history_count, call,
                    gbl_sigint_flag, result>>

Loop == \/ TypeChar \/ ControlKey \/ EscapeKey \/ AltKey \/ CsiKey \/ ExtendedKey
        \/ Suspend \/ Enter \/ Interrupt \/ EndOfInput

Next == \/ Begin \/ BeginDies \/ BeginSimple \/ Loop \/ Continue \/ Hangup \/ HangupInEscape \/ Deinit
        \/ \E key \in Keys : Press(key)

Spec == Init /\ [][Next]_vars

-----------------------------------------------------------------------------
Reading == pc \in {"line", "esc", "csi", "ext", "stopped"}

\* gbl_buf is a string of gbl_len bytes, and its last byte is always NUL: strlen
\* after the strncpy of historymove, strcmp and the walk of kshowcomp end inside,
\* and no key takes the cursor or a copy beyond it.
Terminated == /\ \A i \in 0..(line.len - 1) : line.buf[i] # NUL
              /\ line.buf[line.len] = NUL /\ line.buf[LINE_MAX - 1] = NUL
              /\ line.pos \in 0..line.len
              /\ pc # "crashed"

\* Between two keys the terminal shows a window of the line that is as long as
\* the terminal allows, with the cursor on the byte that gbl_pos names, although
\* most keys draw nothing or only one byte.
ScreenIsCurrent ==
  Reading =>
    \E k \in 0..line.pos :
      LET n == Len(shown.text) IN
      /\ k + n =< line.len /\ shown.text = Piece(line.buf, k, k + n)
      /\ shown.cursor = gbl_plen + line.pos - k /\ shown.cursor < gbl_cols
      /\ gbl_plen + n =< gbl_cols
      /\ k + n = line.len \/ gbl_plen + n = gbl_cols

\* The slots in use own one string each, and nothing else is allocated: no move,
\* deletion or overflow of the history frees a line twice or loses one.
SlotsOwned ==
  LET used == 0..(gbl_history_count - 1)
  IN /\ DOMAIN heap = IF pc = "exit" THEN {} ELSE {gbl_history[i] : i \in used}
     /\ pc # "exit" => \A i, j \in used : i # j => gbl_history[i] # gbl_history[j]
     /\ Reading => gbl_historyi \in used

\* The line that Enter returned is what the next Up shows, whatever was
\* recalled, edited or repeated before.
LastLineRecallable ==
  pc = "idle" /\ Len(result) > 1 =>
    gbl_history_count > 0 /\ heap[gbl_history[0]] = Front(result)

\* Outside of the loop, also while the process is stopped in the middle of a line,
\* the terminal is in the mode it was found in, but for two failures: a write that
\* fails ends the process in raw mode, and a change back that fails leaves it so.
\* The latter is made good by the next change back, as long as the mode to go back
\* to has not been overwritten: until then the flag says that it is due.
CookedOutside ==
  /\ (~Reading \/ pc = "stopped") /\ pc # "died" /\ ~left_raw => tty = "cooked"
  /\ tty # "cooked" /\ gbl_termios_start = "cooked" => gbl_israwmode

Text == INSTANCE LineText WITH
          Newline <- 10,
          before <- Piece(line.buf, 0, line.pos),
          after <- Piece(line.buf, line.pos, line.len),
          history <- IF pc = "exit" THEN <<>>
                     ELSE [i \in 1..gbl_history_count |-> heap[gbl_history[i - 1]]]

\* The editor, with its array, its pointers and its escape sequences, is a text
\* with a cursor and a history.
TextSpec == Text!Spec
=============================================================================
