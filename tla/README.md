# A TLA+ model of xaprun

xaprun is a search server that runs as a child process of its client. It reads
length-prefixed requests from stdin, hands them to worker threads and writes their
responses to stdout. This directory models the parts of it where order and timing
matter: the worker pool, the process with its main loop, wake-up socket and signals, the
splitting of the input into messages and the framing of answers, and the client's
connection, which several threads share. Paths below are relative to the repository.

## The system

| Component | State | Operations | Hard because |
|---|---|---|---|
| Worker pool (`src/server/workerpool.cc`) | `workers` with group, count and `ready_to_exit`; `workers_by_group`; `exiting_workers`; `exited_workers` | `send_to_worker`, `worker_message_handled`, `worker_exited`, `stop`, `join`, destructor | called by main and by every worker; objects move between lists and are deleted |
| Worker threads (`src/server/worker.cc`) | message queue, `stop_requested`, `joined`, `had_message` | `start`, `wait_for_message`, `send_message`, `stop`, `join` | condition variable, stop against queued work |
| `ContextLocker` (`src/server/locker.h`) | mutex, `locked` | constructor, `lock`, `unlock`, destructor | everything in the pool relies on it |
| Search and indexer workers (`src/xappy/*worker.cc`) | none | `run` | runs inside the above |
| Main loop (`src/server/server.cc`) | connections with `read_buf` and `write_buf`, `outgoing_messages`, nudge socket | `run`, `mainloop`, `dispatch_responses`, `queue_response`, `shutdown` | select, blocking writes, several writers of one socket, order of set-up and release |
| Signals (`src/server/signals.cc`) | installed handlers | `handle_sig`, `emergency_exit_handler` | run on top of any thread, at any point |
| Dispatcher (`src/xappy/dispatch.cc`) | `read_buf` | `dispatch_request`, `build_message`, `route_message`, responses | input cut anywhere, several messages in one read |
| I/O wrappers, logger, settings, utilities | descriptors | | conventions of return values |
| Python client (`clients/python/xaprun`) | `pending`, `next_id`, `read_buf`, `read_msg_len`, `closed`, lock | `send`, `check`, `sendwait`, `close` | several threads share one connection, whoever holds the lock reads for all; both processes write to pipes that fill |

How they interact. `mainloop` reads stdin and calls the dispatcher, which either answers
(`queue_response`) or calls `send_to_worker`. A worker's thread takes the message under
its own `message_mutex`, runs, and calls `queue_response`: a push on `outgoing_messages`
under a mutex, then one byte `R` to the nudge socket. `mainloop` wakes, reads all bytes,
moves all queued responses to `write_buf` and writes it to stdout. SIGINT writes an `S`
to the same socket; the loop then ends, and `run` stops and joins the pool. In the
client, a call registers its callback under a fresh id, writes the request and, with
`sendwait`, reads until its callback has been called.

What makes each part correct:

* pool: a request is run at most once, by a worker of its group that has nothing else to
  do; counts match what is outstanding; no wake-up is lost; no object is deleted under a
  running thread, or twice; shutdown ends;
* main loop: no response waits without somebody to wake the loop, responses arrive in
  order and once, a shutdown is not forgotten and ends the process, nobody writes to a
  socket that is not open;
* dispatcher: messages are routed as they were sent, wherever the stream is cut, as soon
  as they are complete; the scan ends on every input; the client reads back the answers
  that were sent;
* client: each callback is called once, with its own response or with "closed"; no call
  is forgotten or waits for ever.

`PROJECT.json` lists the hazards line by line.

## The modules

| Module | What it is |
|---|---|
| `WorkerPool` | pool, worker threads and worker loops, composed; one action per access to a shared container |
| `Delivery` | what the pool promises: the abstract specification `WorkerPool` implements |
| `MCWorkerPool` | instances; the limit of the settings |
| `WorkerPoolProofs` | theorems about `WorkerPool` |
| `Locker`, `LockerProofs` | `ContextLocker` on one mutex; why `WorkerPool` may leave the mutex out |
| `Server` | the process from `main` to its exit: main loop, nudge socket, outgoing queue, signals; pool threads and client as far as they touch those |
| `Conduit` | what the server promises about responses: a first-in first-out channel, cut off by a close |
| `MCServer`, `ServerProofs` | instances; theorems about `Server` |
| `Dispatcher`, `MCDispatcher` | the parser and the answers, on small alphabets; conversations |
| `DispatcherProofs` | theorems about `Dispatcher`: splitting and routing |
| `AnswerProofs` | theorems about `Dispatcher`: the answers, read back |
| `Connection`, `MCConnection` | the client's connection, its threads, two pipes, the server as the client sees it |
| `ConnectionProofs` | theorems about `Connection` |
| `Calls` | what the connection promises: one answer for each call |

### WorkerPool

`stage` and `mpc` say in which call the main thread is and where: `SendToWorker` to
`SendMessage` are `send_to_worker`; `StopTest` to `MarkExiting` are `stop`; `JoinTest` to
`ReapPop` are `join` and, once more round, the destructor. `wpc[w]` is the same for worker
`w`: `WaitForMessage`, `MessageHandled*`, `Sleep`, `TakeMessage`, `SendResponse`, `Exited*`.

`message_mutex` is locked as it should be, so a critical section of a `WorkerThread` is one
action. `workerlist_mutex` is not: `ContextLocker` sets `locked` before it calls `lock`,
which then returns (module `Locker`). So each access to a container of the pool is an
action, `++messages` and `--messages` are a load and a store each, and two threads about
to make conflicting accesses race. The outcome of a race is either order of the two or an
undefined state (`DataRace`, `status = "undefined"`), after which nothing is claimed.
Using an iterator whose node was erased, joining a thread that was never created, and
using a deleted object are undefined in the same way (`MainFault`, `WorkerFault`). The
race on the integer `messages` has the outcomes of its loads and stores, and is not a
race on a container. A failed `assert` ends the process (`AssertFails`).

Left out: `request_exit` (never called), exceptions of the containers, failing mutex
calls. Requests are model values, each sent once.

### Server

`mpc` follows the process: `parse_args`, `socketpair`, the handlers, `start_listening`;
`mainloop` from `select` round to the erasing of closed connections; then `stop`, `join`,
the release of the handlers and the closing of the socket. The nudge socket is a bounded
sequence of `"R"` and `"S"`; a write to it waits for room (`Nudge`). One read empties it,
since it holds fewer bytes than the 4096 that are asked for, or fails, which the code
takes for a read without an `S` (`NudgeReadFails`). A write to stdout is begun when
`select` allowed it and then puts the buffer into the pipe piece by piece; a signal may end
it early. A pool thread exists for each request that is not answered by the dispatcher:
that no request waits behind another is `NeverQueuedBehind` of `WorkerPool`. `join` may
miss a thread that is on its way out (`JoinWaitsForAll` of `WorkerPool` fails), so a signal
may find a pool thread as long as the process lives, and `shutdown` on top of such a
thread may find the socket closed. A worker that is still busy when `stop` has removed it
aborts the process when it reports its message (`MessageHandled`; run `pool_assert` has the
lists this rests on).

The handler of SIGINT takes two steps, and a thread with one on top of it (`Held`) does not
move: `Shutdown` writes the `S` (`handling`), then `SetUpEmergency` replaces the handlers
(`arming`). Between the two another thread may enter the first handler as well. When
`sigaction` fails the default handlers are put back. SIGTERM, and a SIGINT that finds the default or the emergency
handler, end the process at any point. Of `error_message` the exit status is left. The
client is external: it sends, may close, and reads.

### Dispatcher

One action per way round the loop of `dispatch_request`: `NoLength`, `Resync`,
`Incomplete`, `Route`. Characters are strings; an id, a target and a payload character
are one character each. The length prefix is built and parsed digit by digit, because
its position and length are what the properties are about. `log` records where each
message was found and where it was sent. `out` is what the dispatcher itself answers,
framed as `send_msg_response` and `send_fatal_error` do; of the texts only their lengths
matter. `ReadBack` is the client's parser applied to it. Blanks are those of `isspace`, line
ends those of `find_first_of`; `"VT"` stands for the vertical tab, for which TLA+ strings
have no escape. The run's inputs have a space, a tab and both line ends.

The digits of a length are only read below position 9 of the buffer, so what is true of
the parser is true of conversations that keep in step with that (`InStep`: messages on one
line, with their separator and length in at most 9 characters, which is what the client in
this repository sends). `InStepRoutedAsSent` and `InStepRoutedPromptly` are
conditional on it; the other properties of `dispatch_all` are for every input.
`AnswersReadBack` covers what was answered before the first protocol error, whose answer has a
wrong length.

### Connection

Each thread of `Callers` makes one call, `send` or `sendwait`; `Closers` call `close`.
`pc[t]` is where the call is: about to write, waiting for the lock to `check`, parsing,
reading, looking at `r`, failing or closing. `lock` is held from `Send` to `Write`, and from
`Check` to the end of `check`, over every blocking call in between, as `@locked` has it.
`results[c]` is what `c`'s callback was called with: its own response, another's, or
"closed".

A response is two tokens, length and message, so that a read can end between them and a
thread leave a half-read response to the next. What stands for the length is the id it
was sent with. A worker's response has no frame: one token `raw`, or nothing for the
empty payload of a GET. So a `sendwait` for a GET on a database is answered by no bytes and
does not return, not even with a timeout (second table of violations). A `raw` holds no space in the model
and is joined to the length of the next response. The text of a real document may hold one: then `int()`
may fail at once, or a payload may even read as a frame of its own. In each case the client
takes something for a response that is not one, which is what `client_worker` shows. The
server reads one request at a time, answers at once or
through a worker, and writes all of its buffer before it looks at its input again; it
ends when the client closes the pipes, or at any time by itself. What it had not written
is lost, what is in the pipe can be read.

## The runs

| Run | Question | Instance |
|---|---|---|
| `pool_safety` | what holds although the lock is not taken | 3 requests (2 groups), 3 workers, symmetric |
| `pool_liveness` | are requests answered, does shutdown end | 2 requests, 2 workers |
| `locker_noblock` | can the mutex be left out of `WorkerPool` | 6 threads |
| `server_loop` | nudges, shutdown, order of responses, life of the socket; do responses arrive, does shutdown end, does `join` | 2 requests, one local, 2 signals, socket of 4, pipes of 2 |
| `dispatch_all` | splitting, routing and answering, for every cut; does the scan end, and does each time round bring it nearer to its end | 3 messages of 8 kinds; 3 items of 8 kinds, with noise |
| `client_calls` | is each call answered, once and with its own response | 2 `sendwait`s with a timeout, a `send`, a `close`, a stdin of 1 request, a stdout of 3 tokens |

Three requests are what it takes for a group to grow, a worker to be reused while
another runs, and a second group to be bypassed; two workers leaving at once is
the case of every race found. In `server_loop` a local answer and a worker's response
meet in the queue, and the second signal comes before, during or after the shutdown that
the first began; the nudge socket has room for every byte that can be written, which is
the assumption under which shutdown completes (a real socket holds a few hundred). The
invariants are proved for any number of requests. Pipes of two make `write_buf` wait and `write` block in the middle. A
conversation of three messages puts a length prefix before, across and after the position
9 at which the code stops reading digits. In `client_calls` stdin is full with one request
and stdout before the second response is all written, so either side blocks; one read takes
the end of a response and the whole of the next, one thread reads for the other, its clock
runs out between the length and the message, and the connection is closed or the server
dies at every point of that.

Runs that end in a violation each refute one sentence of the code's comments, asserts or
docs; `findings` in `PROJECT.json` quotes it:

| Run | What happens |
|---|---|
| `locker_exclusion` | two threads in scope of a `ContextLocker` at once |
| `pool_assert` | a worker busy during `stop()` fails `assert(i != workers.end())`; no lock would prevent it |
| `server_shutdown` | `shutdown()` blocks for ever on a full socket |
| `dispatch_lines` | a message at position 9 or later, followed by a newline, is skipped |
| `client_wait` | a `sendwait` whose response another thread has read calls `check` once more and waits for ever, lock in hand |
| `client_worker` | a worker's bare payload is taken for part of the next length; the connection fails under every caller |

The modules state further sentences of the code or its docs that do not hold. Most follow
from the same causes or from code that is not written yet, and no run is kept for them. Naming
one as the INVARIANT of the configuration in the second column (as the PROPERTY, for `JoinEnds` and
`CallsReturn`), in place of the property there, shows it:

| Property | Configuration | What happens |
|---|---|---|
| `NoRaceWhileServing` (workerpool.h:76) | `WorkerPool_assert.cfg` | conflicting accesses to a list while serving |
| `ReadyToExitAccurate` (workerpool.h:54) | `WorkerPool_assert.cfg` | `ready_to_exit` true with a message queued |
| `DeletedOnce` (workerpool.cc:240) | `WorkerPool_assert.cfg` | a worker in both lists of leaving workers is deleted twice |
| `JoinWaitsForAll` (workerpool.h:157) | `WorkerPool_assert.cfg` | `join()` returns with a thread still in `worker_exited` |
| `UpdateWorkersBounded` (settings.h:48) | `WorkerPool_assert.cfg` with `GroupOf <- MCUpdates` | two update workers with `update_workers` at 1 |
| `JoinEnds` (workerpool.h:157) | `Server_shutdown.cfg` with `Requests = {p1, p2}`, `Local = {}`, `MaxSignals = 0` | the loop has ended and nobody reads the socket: a worker blocks on it, and `join()` on the worker |
| `ConnectionsClosedFirst` (serverinternal.h:111) | `Server_shutdown.cfg` | the pool is stopped with the connection open |
| `RoutedPromptly` (server.h:113) | `Dispatcher_lines.cfg` with `Conversations <- SpacedConversations` | a whole message after nine spaces is left in the buffer |
| `NoProtocolError` (protocol.rst:14) | `Dispatcher_lines.cfg` with `Conversations <- BareConversations` | a message without payload is a protocol error |
| `CallsReturn` (connection.py:79) | `Connection_wait.cfg` with `Kind <- AllGet`, `Timeout <- AllTimed` | a GET on a database is answered by no bytes; `sendwait` goes round for ever in spite of its timeout |
| `CallsReturn` (connection.py:79) | `Connection_wait.cfg` with `Timeout <- ZeroTimed` | `check(0)` returns on its second pass, before the only read, and `sendwait` spins |
| `CallsReturn` (connection.py:38) | `Connection_wait.cfg` with `Callers = {c1, c2, c3, c4}`, `Timeout <- AllTimed`, `PipeCap = 1`, `OutCap = 2` | both pipes full: a caller writes with the lock held, so nobody reads, and the server writes and does not read |

`Server_shutdown.cfg` has a socket of one byte, and the last line pipes of one request and of two
tokens: scaled down, with as many writers as fill them. `JoinEnds` and `CallsReturn` hold in
`server_loop` and `client_calls`, where the cause of the violation is absent: a socket that never
fills; nobody waits for a GET, no timeout of 0, too few callers to fill both pipes.

Operators commented as a *slip* are faulty variants of the definition that follows them,
with the same parameters. Put in its place, each makes a property fail (`mutants`).

### Fairness

Weak fairness for the main thread's steps and for each worker's steps: the scheduler
runs a thread that can run. In `Server` also for both steps of a signal handler that has
been entered (`HandlerStep`), and for the client's reading, without which a blocking write to stdout never ends; strong
fairness for `ReadNudge`, because a read of a socket with data in it may fail but does not
fail for ever. In `Connection` weak fairness for a thread that holds the lock or needs
none and for the server's process; strong fairness for getting the lock, which other
threads take in between, and for `Select`: a timeout that is not 0 is not so short that
`check` never gets to look at the pipe. Without the last a thread might time out for ever
with its response in front of it.
Nothing is assumed about new requests, signals, errors, spurious wake-ups, a close, the
death of the server, or the outcome of races. In `Dispatcher`, the scan is the main
thread's own.

## The proofs

All are for every value of the constants, from the named assumptions only
(`ConstantsAssumption`, `RelockersAssumption`, `ServerAssumption`, `ConnectionAssumption`,
`DispatcherAssumption`). The inductive invariant of a component (`IInv` and its parts)
stands at the head of its module of proofs. TLC evaluates it when the MC module is made
to extend that module and `IInv` is named as an INVARIANT of the passing configuration
(`LockerProofs` needs no MC module). Each `IInv`, and `ChannelInv`, holds there on all
states. `AnswerInv` is the exception: it says that a sequence exists and names no finite set to
look for it in, so TLC cannot evaluate it and only the proof speaks for it.

**WorkerPoolProofs.** `IInv` is the type invariant and six parts. None of the
properties is inductive alone. That the count is exact (`CountInv`) needs that main only
counts up a worker whose count is 0, hence one with nothing in its queue and nothing
unreported: then the worker cannot be between its load and its store of the same counter,
and the two unprotected updates never overlap. This needs in turn that main's worker is a
current one while it dispatches (`MainInv`), since nobody leaves `workers` while requests
are served: only a stop makes a worker leave, and a stop comes after the last dispatch
(`LifeInv`). That a worker which is allocated is listed while requests are served, the other
half of `LifeInv`, gives `IteratorsCorrect`: what main and the workers look up in the list
is there when they use it, as long as no stop has begun. `HoldInv` says that a request sent and not answered is in one place, with a
worker of its group; `IndexInv` that the index mirrors the list until the stop. Each part
has a lemma with one step per action. `Refinement` maps `sent`, `wmsg` of busy workers,
`answered` and `group` to `Delivery` and uses `HoldInv` to show that `TakeMessage` is a
`Take`. So at-most-once delivery survives the missing lock, up to the first undefined
step; what does not survive is in the runs above.

**LockerProofs.** The mutex has an owner only while `join()` holds it, so nobody waits.

**ServerProofs.** `NoLostNudge` needs that a request is dispatched once (`FreshInv`),
or `SendToWorker` would take a thread away that still owes its nudge, and that a write is
begun only with data (`WriteInv`). `LifeInv` says what exists at each stage of the
process: the socket from `socketpair` to `close`, a handler that can be entered only
between its set-up and its release, pool threads with something to say only until `join`.
`WritersFindSocket` follows from it, and `ShutdownRemembered`, which begins where a handler has
done with the socket (`arming`), needs it for the handler that finds the socket closed.

`ConduitCorrect` is the refinement: `Conduit`'s channel is the pipe, then the write buffer,
then the queue. It needs `ChannelInv` besides: whatever is in one of them is the response
to a request that was given its response (`GivenInv`), so that a response is not put in
twice; and the connection exists while the loop serves it (`ConnectedInv`). Moving the queue
to the buffer and the buffer to the pipe are then stutters, a response is a `Put`, a read by
the client is a `Get`, and erasing the connection cuts the channel down to what is in the
pipe.

**ConnectionProofs.** `IInv` is the type invariant and seven parts. Who holds the lock is
where its `pc` says (`LockInv`), so the table of callbacks changes only under it: a caller is
in it at most once, from its send to its answer, and with no result yet (`TableInv`). A
message on its way carries an id that was given out and, if that id is still in the table,
the caller it belongs to (`IdInv`); so a response is its caller's own. That it comes once needs
that an id is in one place only (`OnceInv`), and that it comes at all needs that a waiting call is
unwritten or under way (`FlowInv`) and what the server holds when it ends (`SrvInv`). Most
steps neither touch the table nor change the sequence of tokens from the server to the
client, wherever in buffers and pipe they are; the proofs treat those as one case
(`Quiet`) and the others (`Loud`) one by one. `FrameInv` is for `ResponsesUnderstood`: lengths
and messages alternate, and `read_msg_len` is that of the message it waits for. This is only
claimed where no worker sends a bare payload (`NoPuts`, a hypothesis of `UnderstoodCorrect`
alone): `client_worker` shows that it fails otherwise. The calls excepted in `NoneForgotten`
are those a worker answers with an empty payload, thus with no bytes.

**DispatcherProofs.** For any conversation, any number of messages of any size, any limit on
the digits and any way of cutting the stream. `StreamInv` says that the buffer and what is
still to arrive are the stream from `base` on; with the types it is inductive for every
input, also for one that is not made of messages. For conversations in step (`InStep`) the
invariant adds `RoutedAsSent` and `PlaceInv`: the parser is between the end of the last message
it has routed and the length of the next one, and it is past the start of the buffer only if
it has found something. The second part is what makes the limit on the digits harmless:
a length that the limit cuts is met only in a call that has found something, so it has no
newline to skip to, the call ends with the message still in the buffer, and the next one
begins with the message at position 0, where it is inside the limit. Hence each
way round the loop either waits for more of the next message or routes it as it was sent.
`DispatcherAssumption` asks no more than that a conversation is a sequence of items of
characters.

`Chars`, `Number` and `Decimal` are recursive functions. The library's induction theorems take a
predicate as parameter, which the provers cannot instantiate; `SetInduction` takes a set, and
follows from the well-foundedness of the naturals through `LeastOf`. From it
`RecursionExists` and `RecursionUnique` show that such a definition has the function it
describes, and only that one. `LeastOf` also gives what the `CHOOSE`s of `SkipSpace`, `DigitsEnd`
and `Find` return.

`NearsEndCorrect` is the part of `ScanEnds` that needs no fairness. `Left` counts the
characters after `pos` twice, and once more if the call has found something: a message or a
skipped line moves `pos`, and a call that ends after it has found something is made again
with `found` false, on the same characters. So `Left` falls every time round and is never
negative, whatever the input is. `ScanStep` shows this of the step itself and not of
`[Next]_vars`, so no time round the loop leaves everything as it was either.

**AnswerProofs.** `AnswersReadBack` compares `out`, the characters of all answers, with `log`
by running the client's parser over `out`. The proof has four parts.

* Numbers. What `Str(n)` writes are digits only, and `Decimal` of them is `n` (`StrIs`): by
  induction over `n`, since dropping the last digit is a division by ten (`WritesMore`).
* One response. `Framed(s, id, r, h, n)` says that `s` begins with a length of `h` digits, a
  space, and a message of that many characters that begins with `id` and a space, and that `r` is
  the rest. If it holds, the parser returns `id` and `r` (`FramedRead`), since the first space is
  the one after the length: digits are no spaces, and `Routed` puts none into an id
  (`RoutedId`). The frame of an answer is such an `s` (`FrameFramed`), and characters after
  it only extend `r` (`FramedMore`).
* Several. `Walk(s, ids, n, w)` lists what is left of `s` after each of its `n` responses.
  `WalkMore` puts one more response at the end, where the parser only gets to after all
  the others; `WalkReads` is the induction that shows `ReadBack` to take this walk.
* The invariant. `AnswerInv`: unless there was a protocol error, there is such a walk through
  `out` with the ids of the entries of `log` that are answered at once. Only `Route` writes
  either of them, so `AnswerStep` has one case that is not immediate. `AnswersReadBack` alone
  would not be inductive: that the parser has read all of `out` says nothing of how it would go
  on if `out` were longer.

It makes no use of `InStep`: what is answered is read back however badly the messages were
split. The provers do not know that a string literal is in `STRING`, hence `Symbols`.

Every invariant, action property and refinement of the passing runs is stated by a theorem.
Model-checked only: the seven liveness properties (`RequestsAnswered`, `ShutdownEnds`,
`ResponsesArrive`, `ShutdownCompletes`, `JoinEnds`, `ScanEnds`, `CallsReturn`), since the provers have
no rule for fairness; and the properties that fail.

## Not modelled

* The vendored libraries (http-parser, jsoncpp, re2). They are nine tenths of the lines
  in the repository. xaprun calls one function of them, jsoncpp's writer, for the text of
  an error; their correctness is not a property of this program.
* The logger: nothing reads what it writes. Only the main thread and handlers on top of
  other threads log, and main logs, and so opens the file, before the handlers exist.
* The values of the options other than `--stdio`: nothing uses them. TCP listening is not
  implemented in the code.
* `urlquote`, `urlunquote`, `request_exit`, `io_read_exact`: never called.
* `client.py` on top of the connection: one call after another, no state of its own but the
  shared connection, which is made under a lock.
* Callbacks given to `send` by the application are taken to return. They run with the lock
  held: one that calls the connection deadlocks, one that raises leaves its message in
  `read_buf` with its id gone.
* A short `os.write` in the client (its result is not looked at), and the reuse of a closed
  descriptor's number, which `check` would then read.
* Failures of mutex calls and exceptions of the containers; what is unsafe to call in a
  signal handler; SIGPIPE; SIGCHLD, since the server makes no processes.

## Where this could go

The liveness properties are the claims without a proof. `ScanEnds` has its variant; for the
pool and the connection, a variant would have to count the steps that a worker or a caller
can still take before its answer, and a prover with the rules for `WF` and `SF` would have to
combine the two. When the lock is mended in `ContextLocker`, `WorkerPool` can treat
the sections under `workerlist_mutex` as one action each, and the sentences in the second table
of violations are then worth a run again.
