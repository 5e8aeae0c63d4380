# Verification project for janet-code

This directory holds TLA+ modules, TLC configurations and TLAPS proofs about the
programs of this repository: native modules and scripts for the Janet language
(futures, threads, sockets, an HTTP server, a database binding, a REPL). `src/`
below is the root of the repository.

## 1. The system

| component | code | state it keeps | operations | what makes it correct |
|---|---|---|---|---|
| futures | `futures.c`, `futures_lib.janet` | `idx`, the list behind `root_node`, one shared page `future_out` per future, one child process per future | `future`, `realize`, `deref`, `realize-all` | a handle names its own page and child; results never mix; `deref` returns the result and returns at all |
| thread mailboxes | `amalg/janet.c` 18410-19083 (section `thread.c` of the bundled Janet), `janet_deinit` | ring of buffers, lock, one condition variable, `refCount`, `closed`; mailbox pairs and thread objects | `thread/new`, `thread/current`, `thread/send`, `thread/receive`, `thread/close`, exit of a thread | FIFO, nothing overwritten or lost, freed exactly once and never in use, nobody sleeps beside a message, timeouts end; a started thread gets its function |
| line editor | `target/super/super.c` 40-832 (also `super-shell.c`, `amalg/shell.c`) | buffer, cursor, 100 history slots, completion matches, raw mode | one operation per key, `janet_line_get` | cursor within the line, history slots neither shared nor freed twice, Enter returns the text shown, the terminal is restored |
| circlet HTTP server | `target/super/circlet/circlet.c`, `circlet_lib.janet`, of `mongoose.c` what drives them | one fiber per listener, its status, buffers and flags of connections | bind, poll, request event, close | each request gets the answer computed for it or is settled otherwise; nothing written is dropped |
| sqlite3 binding | `target/super/sqlite3/main.c` | handle and `FLAG_CLOSED`, current and next statement | open, eval, close, finalizer | statements take effect in order, each is finalized once, nothing is used after close |
| auctions start-up | `target/super/auctions.janet`, `app.janet` | the file `dummy.db`, its table and its row | `exec-db` (and `create-db` inside it) | any number of processes make the row once, also when some are killed |
| json codec | `target/super/json/json.c` | none | encode, decode | decode(encode(x)) = x, decoded text is UTF-8 |
| tcp, udp | `tcp.c`, `udp.c` | a socket, a receive buffer; `udp_listen_received` | connect, close, send, read; send, listen | all bytes and only the bytes of the peer, bounds of the buffers, calls return |
| mymod | `mymod.c` | globals `x`, `y`, `z`; a copy of the futures code | `my-sum`, `my-sum-get`, pthread samples | a sum belongs to its operands |
| iup callbacks | `target/super/iup_wrap.c` 243-291 | table from widget to function | set callback, event, garbage collection | an event calls the function set for it |
| scripts | `qq.janet`, `router.janet`, `threads.janet`, ... | pub/sub table, routes | publish, subscribe, match | every subscriber gets every event |

How they interact: a script calls native modules; `futures.c` interacts with its
own children through shared pages; threads interact only through mailboxes; the
HTTP server calls back into a Janet fiber from the mongoose poll loop; `exec-db`
calls the database binding, and several processes meet in the file; the REPL
reads lines through the line editor, which asks the environment for completions.
Two compositions are modelled: `Auctions` extends `Sqlite`, so that the forms of
`exec-db` run over the statement loop of the binding, with all processes
interleaved at every call of SQLite; and `Circlet` runs the C handler, the fiber,
the Janet loop and the connections of mongoose together. `Mailbox` looks inside
one locked section of `Threads`. The other components share no state.

Hard behaviours: the race of parent and child on a shared page, a failing
`fork`, a panic that unwinds inside the child; one condition variable with one
signal for senders and receiver, timeouts against signals, panics half way
through marshalling; starts that fail, functions that get lost, threads that end
in any order; abandoned lines and a full history in the editor; handlers that
suspend or fail inside a fiber that all connections share, pipelining, requests
that are cut off or invalid; one of several SQL statements failing, another process at the
same file, a process killed between making a file and filling it; a read timeout
that is set in the middle of a call and stays. The full list, each with its line,
is under `hazards` in `PROJECT.json`.

Left out for good: sqlite, libcurl and IUP themselves, mongoose but for the parts
named above, the rest of the bundled Janet, the SWIG output (`curl_wrap*.c`, most
of `iup_wrap.c`), images, DLLs, build files, `bench.c` (it reads clocks and
prints) and `table.c` (no state). These make up nearly all of the repository's
lines: the authors' own C and Janet code is some five thousand of them.

## 2. Modules

| module | models | extends / instantiates |
|---|---|---|
| `FutureService` | abstract: boxes that start as `:PENDING` and are resolved at most once | - |
| `Futures` | `futures.c` and `futures_lib.janet`, one parent and its children | `INSTANCE FutureService` |
| `BoundedFifo` | abstract: a bounded queue | - |
| `Mailbox` | mailbox of one thread, its senders, its owner | `INSTANCE BoundedFifo` |
| `Threads` | threads, mailbox pairs and thread objects from `thread/new` to `janet_deinit` | - |
| `LineText` | abstract: a text with a cursor, a bounded history | - |
| `SymbolMatch` | matching, sorting and common prefix of completion (operators) | - |
| `Completion` | the search of one completion, in any order of the tables | `SymbolMatch` |
| `LineEditor` | the line editor of `super.c` | `SymbolMatch`, `INSTANCE LineText` |
| `Circlet` | the HTTP server: poll loop, connections, fiber and handler | - |
| `SqlStatements` | external: what a statement needs and does (operators) | - |
| `SqlScript` | abstract: a call executes its statements one after the other | `SqlStatements` |
| `Sqlite` | the database binding | `SqlStatements`, `INSTANCE SqlScript` |
| `Auctions` | `exec-db` in several processes over the binding | `Sqlite` |
| `Utf8` | reference definition of well-formed UTF-8 | - |
| `JsonStrings` | encoder and decoder of JSON strings | `Utf8` |
| `TcpRead` | `make-sock`, `unmake-sock`, `read-sock` and the peer | - |
| `Udp` | `udp/listen` | - |
| `MySum` | `my-sum`, `my-sum-get` and the worker | - |
| `IupCallbacks` | the table of IUP callbacks and the collector | - |
| `MCFutures`, `MCMailbox`, `MCThreads`, `MCLineEditor`, `MCCirclet`, `MCSqlite`, `MCSmall` | instances for TLC; `MCSmall` runs the components with a small state space, one at a time | the module(s) they are named after |
| `Recursion` | lemmas: least numbers, induction, recursive functions and folds | TLAPS |
| `FuturesProofs`, `MailboxProofs`, `ThreadsProofs`, `CircletProofs` | theorems | the module they are named after, TLAPS |
| `LineEditorProofs` | theorems about `LineEditor` and `Completion` | these, `Recursion` |
| `SqliteProofs` | theorems about `Sqlite` and `Auctions` | `MCSqlite`, `Recursion` |
| `SmallProofs` | theorems about `Udp`, `IupCallbacks`, `TcpRead`, `MySum` and `JsonStrings` | these, `Recursion` |

### Futures

`nodes` is the list behind `root_node` as a sequence; it can be one because only
the parent extends or reads it (no body uses the futures module itself). A cell
is the page `future_out` of one call of `future` and also names the child forked
by that call; `out` is that child's local variable. `pc`, `call`, `ret` and `cnt`
are where the parent is, which call it makes, and what it has answered so far.

| code | action |
|---|---|
| `future`: mmap, `++idx`, `push` / `fork` / store `:PENDING`, return | `Allocate` / `Fork` / `MarkPending` |
| child: `janet_call` / `*future_out = out; exit` | `RunBody` / `StoreResult` |
| `realize` | `Realize` (and the operator `realize` inside the loops) |
| `deref` | `CallDeref`, `DerefPoll`, `DerefSleep`, `DerefRead` |
| `realize-all` | `CallRealizeAll`, `CountOne`, `CountDone`, `CountSleep`, `GatherOne`, `GatherDone` |

Steps are split exactly where a child can act in between: every read or write of
a shared page by the parent is a step of its own. `HeadId` is the oddity that
`push` and `get_by_id` are given `&root_node`, so that the pointer itself is
read as the first node: its id is the low word of the pointer (`RootLow`; 0
before the first future), its `future_out` is `NULL`; looking that id up ends in
`pc = "crashed"`.

### Mailbox

The state is the struct `JanetMailbox` plus, per thread, its `JanetWaiter`
(`wait`), the status of its last call and its place in the call. What happens
between lock and unlock, or between two waits, is one step; the signal comes
after the unlock and is a step of its own. The condition variable is the set
`waiters`; `Signal` wakes any one of them, `Spurious` wakes one for no reason.

| code | action |
|---|---|
| `janet_thread_send`: no mailbox / closed / full / room | `SendNoHandle` / `SendClosed` / `SendFull` / `SendNow` |
| its retry loop, the timeout of its wait | `SendRetry`, `SendTimeout`, `SendGiveUp` |
| marshalling, with its panic | `Enqueue` |
| `janet_thread_receive` | `ReceiveBegin`, `ReceiveRetry` (both `ReceiveTurn`), `ReceiveTimeout` |
| `janet_mailbox_wakeup` | `Signal` |
| `janet_close_thread`, `thread_gc` | `CloseHandle` |
| `janet_threads_deinit` | `Deinit` |

A message is a record of its sender, the number of the send and whether it will
fail to unmarshal. The POSIX build is modelled; the receiver is assumed not to
send to itself.

### Threads

A mailbox is named after the thread that owns it. `pairs[c]` is what the
`JanetMailboxPair` of child `c` still holds (the parent's mailbox `"original"`,
its own `"newbox"`), `handles` are the `JanetThread` objects that have a mailbox,
and `refCount` is changed by every locked section as `janet_mailbox_ref` does it;
`Holders` says what should be counted. A step that uses a mailbox that has been
freed leads to `pc = "crashed"`.

| code | action |
|---|---|
| `make_mailbox_pair` and the handle in `cfun_thread_new` | `MakePair` |
| `janet_thread_start_child` / its failure, `destroy_mailbox_pair` | `Start` / `StartFails` (two steps) |
| sending the function | `SendFunction` |
| `thread_worker`: its own reference / the object of the parent / receiving the function | `Begin` / `MakeParent` / `TakeFunction` |
| the end of the function, `destroy_mailbox_pair` | `Return`, `LeavePair` (two steps) |
| `thread/send`, `thread/receive`, `thread/current`, `thread/close` and `thread_gc` | `Send`, `Receive`, `Current`, `Close` |
| `janet_deinit`: heap, then mailbox | `Finish` (main thread), `ClearMemory`, `ThreadsDeinit` |

Here a mailbox is an unbounded queue and nobody waits: that is what `Mailbox` is
about. A function is one of four kinds (one argument, another number of them, one
that fails in unmarshal, one that cannot be marshalled), since the code treats
exactly these differently.

### LineEditor

One process and one person at the keyboard. A key is the sequence of bytes that
it sends (`input`); the loop of `line` reads them one by one, `pc` says where it
is: `"line"`, or inside an escape sequence (`"esc"`, `"csi"`, `"ext"`). `line` is
`gbl_buf`, `gbl_len` and `gbl_pos`; the array keeps its NUL and the bytes behind
it, since `strlen`, `strcmp` and the walk of `kshowcomp` depend on them. History
slots are pointers into `heap`, and what `malloc` returns is any free piece.
`shown` is the text and the cursor that the terminal shows. A double free, a
pointer that is not there or a negative length ends in `pc = "crashed"`, and a write
to the terminal that fails while it is drawn ends the process (`exit(1)`) in
`pc = "died"`. `left_raw` records that a change back to the mode of the terminal has
failed and none has succeeded since.

| code | action or operator |
|---|---|
| `janet_line_get`, head of `line` | `Begin`, `BeginSimple` (no terminal), `BeginDies` (`getcols` cannot write) |
| keys | `TypeChar`, `ControlKey`, `EscapeKey`, `AltKey`, `CsiKey`, `ExtendedKey` |
| what a key does | `Do`, with `TextAfter`, `historymove`, `kshowcomp` |
| `refresh` | `Redraw` |
| ctrl-z, Enter, ctrl-c, ctrl-d on an empty line | `Suspend` and `Continue`, `Enter`, `Interrupt`, `EndOfInput` |
| `read` fails | `Hangup`, `HangupInEscape` |
| `janet_line_deinit` | `Deinit` |

The switch of the loop is a table from bytes to commands (`Control`, `Alt`,
`Csi`, `Extended`). A `char` is signed, as on the x86 build, so bytes beyond ASCII
are ignored. `insert` and `remove` do in one step what loops of single-byte
inserts, backspaces and deletes do, the NULs they leave included. A column of the
terminal is a byte, as in the code: names beyond ASCII, which Tab may insert, take
fewer columns on a real terminal than either counts.

### Circlet

One thread polls. Request `k` of connection `c` is the pair of them; what it asks
for is its `Uri`, and what the handler of a URI may do is a set of outcomes
(`Routes`), because a handler is the user's code. `held` is the request whose
handler has suspended inside the fiber, so that the next request resumes that
handler; `fate` is what became of each request, `replies` the requests whose
answers were put into a connection's output. The last request of an unreliable client
may be cut off behind its headers or be invalid (`last`): headers that do not parse, or
that do not end within the bytes mongoose allows, are `"bad"`.

| code | action |
|---|---|
| `do_bind`, and a port that is taken | `Bind`, `BindTaken` |
| accept, receive, the peer's end of file, send, close in `mg_mgr_poll` | `Accept`, `Recv`, `RecvEof`, `Flush`, `Close`, `Reset` |
| one turn of the loop of `mg_http_handler` with `http_handler`, `janet_continue` and `send_http` | `Work` (operators `http_handler`, `Continue`, `send_http`) |
| its branch for an invalid request | `Reject`: `flags` become `"close_immediately"`, and `Close` follows without a `Flush` |
| `mg_close_conn`, which hands a cut-off request to the handler | `CloseConn` |
| the client | `Send`, `HangUp` |

While a buffer is worked off nothing else is polled: `turn` is the connection.

### Sqlite and Auctions

A connection belongs to one thread or process; between two calls of SQLite made
for it the others may change the file. `stmt` and `stmt_next` are the variables of
`sql_eval` (numbers of statements), `prepared` what exists inside SQLite. The file
maps tables to rows or `Absent`; a statement creates, drops, fills or reads a
table, or does not compile. Finalizing what is not prepared, and using a closed
handle, leads to `pc = "crashed"`. `unowned` counts the handles that a failing
`sqlite3_open` leaves inside SQLite, which belong to no Db.

| code | action |
|---|---|
| `sql_open`, `sql_close`, `gcsqlite` | `Open`, `OpenFails`, `Close` (operator `closedb`) |
| the refusals of `sql_eval`: a closed Db, a text with a NUL | `Eval` (operator `Refused`) |
| head of `sql_eval` / `sqlite3_prepare_v2` / the rest of a turn of the loop | `Eval` / `Compile` / `Turn` |
| `bindmany`, `bind1` | `Fits`, `Bound` |
| `execute`, `execute_collect` | `Rows`, `Read`, `column` |
| the label `error` | `Panic` |

In `Auctions` `at` is the form of `exec-db` that a process has evaluated last:
`Stat` is `os/stat`, `Go` the calls in their order, `Inside` a step of the binding,
`Unopened` a database that cannot be opened (also after the file was made), `Raise` the error that leaves `exec-db`, `Kill` the end of a process at any point
(its connection is gone, the file keeps what was committed), `Leave` the next
start. `abandoned` and `crowded` are history variables for the properties.

### The small components

`JsonStrings`: `EncodeOne` is one turn of the loop of `encode_one`, with the code
points put together as the code does it; `DecodeOne` one character or escape of
`decode_string`. `TcpRead`: `make_sock`, `unmake_sock`, `read_sock`, `Read` (one `read` with its
copy into the buffer), `Return`. What `make_sock` gives is a connected socket, the
number of a closed one, or 0, which `read_sock` takes for the standard input (whoever
writes there is the peer then, and there is no receive timeout); where `getaddrinfo`
fails the code walks a list that was never set, which may be any of these or a crash. A
closed number is taken not to be given out again meanwhile. Bytes are named by their place in the stream and
some are NUL, at which the copy and the answer stop. `Udp`: `udp_listen`,
`receive_udp`, `ReceiveFails`; datagrams that come while nobody is bound are
dropped. `MySum`: the parent stores the globals one by one (`SetX`, `Spawn`), the
worker loads them one by one (`LoadX`, `LoadY`, `Store`), if `pthread_create` has made
one. `Udp` has one caller. `IupCallbacks`:
`SetThunkCallback`, `UniversalCb`, and `Collect`, since nothing keeps the table
alive.

## 3. Runs

| run | bounds | shows |
|---|---|---|
| `futures` | 3 futures, a body may return `:PENDING`, both faults, arguments 0..3, batches up to 2 | `HandlesNameTheirCells`, `AnswersAreFinal`, refinement `ServiceSpec`, liveness `WaitsOnlyForLost` |
| `futures_lost_result` | 2 futures, no fault | `DerefReturns` is **violated** |
| `mailbox_safety` | 2 senders with up to 3 sends, ring of 2, all timeouts and faults, closing | `RingIntact`, `SendReportsTruth`, `NoUseAfterFree`, refinement `FifoSpec` |
| `mailbox_live` | 2 senders with up to 2 sends, ring of 1, timed or immediate sends | liveness `ReceiverWakes`, `TimedCallsEnd` |
| `mailbox_lost_signal` | senders without timeout, ring of 1 | `ReceiverWakes` is **violated** |
| `threads` | 3 threads (so children and a grandchild), 1 call of send or current, four kinds of functions | `RefsAccounted`, `BoxesReclaimed`, `RunsItsFunction`, liveness `StartsOrEnds` |
| `editor_keys` | one line of up to 4 bytes, a window of 2, 32 keys, completion over two environments; no terminal, a change of its mode or a write that fails | `Terminated`, `ScreenIsCurrent`, `CookedOutside`, refinement `TextSpec` |
| `editor_history` | 5 lines of up to 2 bytes, which fill the buffer, 3 slots | `Terminated`, `SlotsOwned`, `LastLineRecallable`, refinement `TextSpec` |
| `circlet` | 2 listeners, 3 connections, one with an unreliable client (hangs up, cuts off, sends an invalid request), pipelined requests | `AnswersOwnRequest`, `RefusedAfterRaise`, `DrainedBeforeClose`, `CutOffUnanswered`, liveness `EveryRequestSettled` |
| `sqlite` | 2 connections: used freely with 2 calls each of 14 scripts of up to 3 statements, or 2 processes with 2 visits each; locks and failing opens | `NothingLeftOver`, `FailsForCause`, `VisitsComplete` (`MadeOnce` and `Undisturbed`), refinement `ScriptSpec` |
| `sqlite_chained` | 1 connection, no lock | `ChainedScriptsWork` (doc string) is **violated** |
| `small` | see below | `KeepsSmallest`, `InsertsAllCommon`, `RoundTrip`, `DeliversUtf8`, `InOrderOnce`, `FreshOrRepeated`, `SumsRight`, `OneEventEach`, liveness `CallsReturn` |

The passing runs have between 30,888 (`mailbox_live`) and 4,022,375 (`editor_keys`)
distinct states and take from seconds to three minutes each.

Why the bounds are enough. Futures: a mix-up of handles needs two futures, one
more shows a list with a middle; an argument 3 is no handle before the third
future and 0 never is; a batch of two relates the two passes of `realize-all`.
Mailbox: a ring of two wraps after two messages and both senders can be queued,
blocked and retrying at once; three sends each make the ring turn more than
once. Stealing a signal needs two senders and a full ring, hence the ring of one
in the liveness runs. Threads: a parent, a child and either a second child or a
grandchild give every relation between the owner of a mailbox and those who hold
it; one call of `thread/send` is enough to overtake a lost function or to find a
mailbox closed, and the references do not depend on how many there are (the
theorems cover any number). Circlet: two connections share a listener, the third
has the other one and asks for something without a route; one connection pipelines
two requests. Sqlite: three
statements are a first, a middle and a last one, which is what the look-ahead
tells apart; two processes are enough to be in `create-db` at once, and a second
visit meets what the first one left. Line editor: two columns of window under four bytes make it
scroll in both directions and cut at the right; with a letter, a space and a
parenthesis every word operation has something to skip on each side; three slots
have a first, a last and a middle, and five lines overflow them. In
`editor_history` a line holds only two bytes because the history, not the text,
is asked about. In `small`: completion over every chain of 2 environments with 5
names, of which more match than there are 3 places; byte strings of up to 4 over
14 bytes (leads and continuations of every kind) and JSON texts of up to 3 over 11
tokens (surrogates included); 5 bytes in reads of 2 into a buffer of 4, with 3
calls, so that the buffer fills exactly, overflows, or is never full; 4 datagrams;
3 sums; 2 widgets, 2 events, 2 functions. Pages are symmetric, so are senders,
pieces of memory and connections; symmetry is used in safety runs only.
`CHECK_DEADLOCK FALSE` everywhere: nothing obliges a program to make another call,
and the counters bound the calls it makes.

What the violations say:

* `futures.c:67` - the parent stores `:PENDING` *after* `fork()`. A child that is
  quicker loses its result, and `deref` polls for ever.
* `janet.c:18756` - one signal, one condition variable: a second blocked sender
  takes the signal meant for the receiver, finds the mailbox full and sleeps
  again. Only a sender with a timeout repairs this, since it signals when it
  gives up (that is what `mailbox_live` shows).
* `sqlite3/main.c:309` - statement k + 1 is compiled before statement k is
  executed, so a script that makes a table and uses it fails, and what it made is
  dropped with it, although the doc string says "Multiple sql statements can be changed
  together" (meaning chained).

Differences that reading alone shows have no run; the models contain them all the
same:

* Threads: after a message that cannot be unmarshalled the receiver waits without
  looking at `messageCount` again (`janet.c:18814`); `thread/close` unblocks nobody
  (`janet.c:18567`); `thread/send` blocks at a full mailbox although its doc string
  says that it never does (`SendFull`); the capacity given to `thread/new` is
  ignored, a child's mailbox has 16 places (`janet.c:18597`).
* Line editor: a prompt that fills the terminal makes the visible length negative,
  and it is handed to `memcpy` (`super.c:229`); ESC O H types an H, as its branch is
  unreachable (`super.c:707`, `Alt`); with an empty prompt "0 columns to the right"
  moves by one (`super.c:246`, `CursorAt`); when the first line finds no memory,
  `replacehistory` frees a slot that was never filled (`super.c:311`, the fault
  `nomem`); with more matches than places, Tab inserts a prefix that not all
  matching symbols have (`super.c:475`, `check_match`). A write to the terminal that
  fails ends the process with `exit(1)` in the middle of a line, with the terminal still
  raw and nothing that restores it (`super.c:204`, `217`, `249`; `Redraw`, `BeginDies`);
  a change back that fails leaves it raw, and when the next line is begun then, raw is
  what it will be set back to (`super.c:154`, `rawmode`). `CookedOutside` names both.
* Circlet: a listener whose handler has failed once refuses all later requests and
  leaves their connections open (`circlet.c:176`, `RefusedAfterRaise`); a handler
  that suspends is resumed with the request of somebody else; a port that is taken
  is a write through `NULL` (`circlet.c:199`, `BindTaken`); an ill-typed entry closes the
  connection without an answer; behind an invalid or oversized request the connection is
  closed at once and the answers to good requests before it, if still unsent, are dropped
  (`mongoose.c:6644`, `2495`; `Reject`, and the exception in `DrainedBeforeClose`); the router's 404 is a number and becomes a 500.
* Sqlite: `sqlite3_open` makes a handle also when it fails, and `sql_open` panics without
  closing it, so every failing open leaks one (`main.c:73`, `OpenFails`; `NothingLeftOver`
  is about what Dbs have made); a boolean parameter is bound as the smallest integer (`main.c:107`,
  `bind1`); integers beyond 32 bits are cut off when they are read (`column`);
  `exec-db` takes the file for the sign that the table is there, so a creation that
  was cut off is never repaired (`abandoned`).
* JSON: the third byte of a four-byte sequence is never read, so characters beyond
  the basic plane change (`json.c:436`, `codepoint`), although the module's README
  says that surrogates are supported; `RoundTrip` therefore excludes them.
* tcp: `make-sock` returns the number of a closed socket when it cannot connect,
  although the comment at `tcp.c:31` says 0 (`make_sock`); where it does return 0, a
  `read-sock` on it reads the standard input, without a timeout, and may wait for ever
  (`tcp.c:43`, `81`; `CallsReturn` promises nothing there); answers stop at a NUL
  byte; a call that finds 1024 bytes writes beyond its buffer (`tcp.c:121`, `Take`).
* The first `read-sock` waits for ever if the peer is silent, and a later one may
  return "" at once (`CallsReturn` is stated accordingly); `udp/listen` repeats the
  datagram before when the system reports an error (`ReceiveFails`).
* IUP: the table has one entry per widget, so two events of a widget share a
  function, and no root keeps it alive (`Collect`); `OneEventEach` says what is left.

## 4. Fairness

Futures: weak fairness of the parent inside a call (`InCall`; nothing obliges the
program to begin one) and of every child, which the kernel schedules and whose
body is taken to finish. Bodies that panic and forks that fail are not excluded:
`WaitsOnlyForLost` names them as the only excuse.

Mailbox: weak fairness of each thread inside a call (a thread that wants the lock
gets it: no step holds the lock for ever) and of deadlines. Beginning a call,
closing, exiting, spurious wakeups and the choice of the waiter that a signal
wakes are not fair. `ReceiverWakes` also rests on the finite number of sends:
POSIX promises no fairness among waiters, so an endless stream of sends could
starve the receiver.

Threads: weak fairness of `Proceed(t)`, what a thread does by itself: the kernel
schedules it and none of its locked sections waits. What the program decides
(`Return`, sends, closing, the end of the main thread) is not fair.

Circlet: strong fairness of `Poll(c)` for each connection: the loop of `server`
polls for ever and every poll goes through all connections, while handlers end or
yield. It must be strong because a connection's actions are disabled while another
one's buffer is worked off. Clients and resets are not fair.

tcp: weak fairness of `Read` and `Return`, that is of the kernel waking the caller;
the peer is not fair.

Everything else is safety only.

## 5. Proofs

Each module of proofs states its results for every value of the constants, from
the named assumptions of the module it extends (special values differ, bounds are
numbers, the given scripts, arguments and routes have their shape); TLC evaluates
these assumptions on the runs.

`FuturesProofs`: `[]TypeOK`, `[]HandlesNameTheirCells`, `[]AnswersAreFinal` and `Spec => ServiceSpec`. None is inductive alone; the invariant
is `TypeOK /\ Registry /\ Children /\ Pages /\ Reads`: the list holds ids 1..idx
at distinct pages (`Registry`), a page has a child iff it is in the list and that
child was forked, apart from the future in progress (`Children`), what a page
holds is determined by its child and by whether the parent has marked it
(`Pages`), and what a loop has already seen stays true while it goes on, because a
result is never taken back (`Reads`). The last part carries the argument that
looking a future up twice is harmless.

`MailboxProofs`: `[]TypeOK`, `[]RingIntact`, `[]NoUseAfterFree`, `[]SendReportsTruth` and
`Spec => FifoSpec`.
The ring part reduces every action to one of four ring steps (push, scribble on a
free buffer, pop, nothing) and needs one fact of arithmetic, `ModTwoTurns`; a
lemma for each ring step relates it to the queue it stands for. The reference
count needs that the waiters of the condition variable are in a call (`Calls`),
since only then is the woken thread known to hold a reference; dropping one is
`DropReference`, a cardinality argument. What a send reports (`Told`) needs that a
message in the ring is of a call that has begun, so that the next call of the same
thread starts with nothing of its own in the ring (`ToldEnqueue`, `ToldStep`).

`ThreadsProofs`: `[]TypeOK`, `[]RefsAccounted`, `[]BoxesReclaimed`,
`[]RunsItsFunction`, for any number of threads and calls. `Counted` says that the
holders of every mailbox are a finite set, the count is its cardinality and the
mailbox exists iff it is not empty; it is inductive with the stages of a pair and
its parent (`Order`, `Creating`), the objects each stage has made (`Objects`) and
what may be in an inbox before the function is taken (`Inboxes`). Every action
adds holders to a mailbox, removes one, or none: `CountUp`, `CountDown` and
`CountSame`, with one lemma for each kind of holder.

`LineEditorProofs`: everything the runs check of the editor, for every size of the
buffer, history, terminal and prompt, every chain of environments and every sequence
of keys: `[]SlotsOwned`, `[]Terminated`, `[]ScreenIsCurrent`, `[]LastLineRecallable`,
`[]CookedOutside` and the refinement `Spec => TextSpec`. All assume that `malloc` does
not fail (`"nomem" \notin Faults`; where it does, the code frees slots it does not own,
see above), and all but
`SlotsOwned` that the prompt leaves a column on the terminal (`PromptFits`; a wider one
makes the visible length negative, see `hazards`). Assumptions on the constants: there
is more memory than there are slots (`MemorySuffices`), and symbols have no NUL in them
and are finitely many (`NamesAreStrings`).

* Memory. `Owned` says that the slots below the count hold different pointers, never
  `NULL`, and that these are all that is allocated; with it goes the range of
  `gbl_historyi` while a line is read, without which `historymove` would free a slot
  that is not in use. One lemma for each operation carries it over: `AddHistoryOwned`
  (shift, and drop of the oldest), `ReplaceHistoryOwned` (shift back, or exchange) and
  `HistoryMoveOwned`; `SlotReplaced` is the exchange that the last two share. The text
  of a line plays no part in it.
* Bytes. `Good` says that `gbl_buf` is a string of `gbl_len` bytes with the cursor in
  it (`IsText`), that every piece of the heap is a line that fits into the buffer
  (`Holds`), that what is typed is bytes, and that the screen shows the line
  (`Current`). The lemmas go in layers: loops over the array (`LoadedIs`, the walks
  over words), pieces of the array (`PieceJoin`, `PrefixPiece`, `SuffixPiece`), the two
  sides of the cursor (`InsertEffect`, `RemoveEffect`, `KillEffect`, ...), a key
  (`EditEffect`; `CompletionEffect` for Tab), the history as a sequence of lines
  (`AddHistoryLines`, `ReplaceHistoryLines`, `HistoryMoveLines`), and the actions
  (`TypeCharGood`, `CommandGood`, `EnterGood`, ...). `Good` needs `Inv` (with `Owned`),
  since the lines are read through the slots.
* `StepGood` proves with each step also which step of `LineText` it is, or that it
  changes nothing there; `Kept` (nothing is returned while a line is read) and
  `Restorable` (the flag says whether there is a cooked mode to go back to) are the
  strengthenings of the last two properties.

For `Completion` it proves `[]KeepsSmallest` and `[]InsertsAllCommon`, for any symbols,
any chain of environments and any size of the list, overflow included. `SearchInv` says
that the list is as long as the symbols seen fill it and that every set of smallest
symbols (`Lower`) has as many places at its front as symbols of it were seen (`Cut`);
`CutStep`, an induction over what the loop of `check_match` carries from place to place,
is where sorting and overflow are handled at once. How often a symbol is held is the
distance of two cuts (`HeldAre`). `LessIs`, `LessTransitive` and `LessTotal` show that
`compare_bytes` is a strict total order, `LongestIs` that `longest_common_prefix` returns
all that the matches have in common.

`CircletProofs`: `[]TypeOK`, `[]AnswersOwnRequest`, `[]RefusedAfterRaise`,
`[]DrainedBeforeClose`, `[]CutOffUnanswered`. The invariant adds what a connection
may have in each state (`Progress`: worked off, read and sent requests in this
order; a request that is not whole is handled only by closing), that a connection to be
closed immediately has read an invalid request (`Rejected`), and that a handler
suspended in a fiber has left its trace in `fate` (`HeldSeen`), which is what makes
the hypothesis of `AnswersOwnRequest` strong enough.

`SqliteProofs`: `[]NothingLeftOver` and `Spec => ScriptSpec`. The invariant says at
which statement the loop is (`InLoop`: the current one is the one behind those that
took effect, at most one more is compiled) and that a call is made on an open Db
(`OpenInCall`); the lemmas `CompileStep` and `TurnStep` say what each step does to
file and answer, and the refinement reads off from them which abstract step it is.

`[]FailsForCause` is proved there for scripts of any length, from the hypothesis that
`Failed`, the value that stands for a panic, is not an answer (`FailedIsNoAnswer`:
`Read(found) # Failed`). `Cause` says where a call that nobody disturbs has got to: the
statements that took effect are right and have left the file that `After` computes for
them (`OnWay`), and where it ended the blame is on the first wrong one, which is one or
two behind them (`FailsAt`). `After` is a recursive function; `AfterTables` shows that it
is defined for every length and `AfterNone`, `AfterOne` what it is at both ends.

On top of it, `[]MadeOnce` (`OneRowMade`) and `[]VisitsComplete` for any number of
processes and visits of `exec-db`, killed at any
point. The invariant ties the form a process has evaluated to its connection
(`Visit`), has at most one process whose `create table` took effect, with the table
as far as that process is (`Table`: that one statement of SQLite decides the race),
and says that a file without its row is on its way to it or abandoned (`Underway`).
For `Undisturbed`, `Peaceful` says what a visitor that found nobody making the table
may rely on at each of its forms, until one of the makers is killed: the table is
whole, or it is the only maker itself, and only a lock makes it fail (`SingleAlone`).
The lemmas on `Sqlite` are what makes the binding a single step here
(`SingleStatement`). `MCSpec`, free use of the binding or visits, is what the run
checks, and `CausesInVisits` carries `FailsForCause` over to it.

`SmallProofs`, for any values of the constants: `[]FreshOrRepeated` (a bound socket
holds what came since `bind`, in order, and `world` is the last answer);
`[]OneEventEach` (as long as a widget has one event, its entry is what was wanted);
`[]InOrderOnce` (what has been taken from the socket is the answers joined and the
bytes being read, `TcpInv`; `JoinedWalk` reduces the fold over the answers to one step
for each of them, so that `JoinedAppend` says what one more answer adds); and
`[]SumsRight`: the globals hold the operands of the last call, or,
for `y`, of the one before while the last is half way (`Globals`), what a worker has loaded
is not older than its call (`Loaded`), and calls that do not overlap leave their sum
(`OneByOne`). For the strings of JSON the only assumption is what the constants are:
byte strings and sequences of characters and escapes (`StringsOfBytes`). `WellFormedIs`
restates well-formedness as the existence of a set of positions with a character from
each to another, which lets a step extend it by one character (`AppendCharacter`);
`[]DeliversUtf8` needs that the encoder writes ASCII only and that every number that
`decode_string` lets through becomes a character of its own (`Utf8BytesIs`, `Sound`).
`[]RoundTrip`: every element of the text gives back the bytes of one character
(`CharacterBack`, from the arithmetic of two and of three bytes in `TwoNumber` and
`ThreeNumber`); the invariant `InStep` says that the encoder stands at a boundary of a
character, that there are marks in the string for the elements of the text, and that
the decoder has written the string up to the mark where it reads. The specifications
named there (`UdpSpec`, `IupSpec`, `TcpSpec`, `SumSpec`, `JsonSpec`) are the parts that
`SmallSpec` puts side by side.

`Recursion` holds what these proofs need of numbers: a set of naturals has a least
element (`LeastNat`, from `WFMin` of the library), a set that holds 0 and with each
number the next holds them all (`Induction`), and a recursive function over `0..n`, or
the choice by which `MapThenFoldSet` defines a fold, exists and goes through values each
made from the one before (`RecursionTable`, `FoldTable`). The induction theorems of the
library take an operator, which the provers cannot instantiate; these lemmas take sets
and functions.

`TypeOK` of `Futures`, `Mailbox`, `Threads` and `Circlet` is a theorem of its own and is
part of the invariant of the other proofs; it is not repeated in the runs.

Only model-checked: all liveness (`WaitsOnlyForLost`, `ReceiverWakes`,
`TimedCallsEnd`, `StartsOrEnds`, `EveryRequestSettled`, `CallsReturn`), which this
prover does not handle. Every safety property that a run checks and that holds is a
theorem.

## 6. Not modelled, and why

* Futures: a body that itself calls the futures module works on its own `idx` and
  mappings and links pages that others have not mapped; that needs a model of memory
  per process, beside `Futures`, and has none yet.
* Threads: the capacity of the mailboxes in `Threads` (it is in `Mailbox`), thread
  objects sent inside messages, the Windows build. The end of the main thread is
  modelled as that of any other; the process then usually ends under the others.
* Circlet: a handler that polls the manager itself, the collector freeing the
  manager, websockets, header memory, chunked bodies and the wording of replies.
* Sqlite: `last-insert-rowid`, `error-code`, `allow-loading` (they read or set a
  number); transactions other than the implicit one per statement, which no script
  of the repository uses.
* JSON numbers, arrays and objects: a recursive descent without state.
* tcp `send-sock`, udp `send-string`: single system calls; several callers of `udp` or several
  sockets at once.
* pthread samples of `mymod.c`, which the source says crash; the generated wrappers;
  the demo scripts. The subscribers of `qq.janet` are threads that get one message,
  which `Threads` covers; its router is a pure function over strings.
