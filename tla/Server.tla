------------------------------- MODULE Server -------------------------------
(***************************************************************************)
(* The main loop of xaprun (src/server/server.cc), its nudge socket, the   *)
(* queue of outgoing messages and the signal handlers (signals.cc).        *)
(*                                                                         *)
(* Threads.  The main thread runs main() and run(): the socket and the     *)
(* handlers are set up, then the select loop, then the stop and join of    *)
(* the pool, and the handlers and the socket are taken down.  One pool     *)
(* thread runs each request that is not answered by the dispatcher itself  *)
(* (WorkerPool: no request queues behind another).  A signal handler runs  *)
(* on top of any thread and holds it up.                                   *)
(*                                                                         *)
(* The nudge socket and the pipes to the client hold a bounded number of   *)
(* items, and a write to a full one blocks: io_write and io_write_some     *)
(* work on blocking descriptors and retry EINTR.                           *)
(*                                                                         *)
(* A request is a model value: splitting the byte stream into requests is  *)
(* the dispatcher's business.  start_listening makes connection 0, with    *)
(* --stdio, and no other.                                                  *)
(***************************************************************************)
EXTENDS Naturals, Sequences, FiniteSets

CONSTANTS Requests,     \* what the client sends, each once
          Local,        \* those the dispatcher answers itself (version, errors)
          Main,         \* the main thread; a pool thread is named by its request
          NudgeCap,     \* bytes the nudge socket holds
          PipeCap,      \* requests stdin holds, responses stdout holds
          MaxSignals    \* bound on the SIGINTs and SIGTERMs sent

ASSUME ServerAssumption ==
    /\ Local \subseteq Requests
    /\ Main \notin Requests
    /\ NudgeCap \in Nat \ {0} /\ PipeCap \in Nat \ {0} /\ MaxSignals \in Nat

VARIABLES
    mpc, ready, closing,          \* main: where it is; rfds and wfds; closed_connections
    connected, read_buf, write_buf,          \* connection 0
    outgoing_messages, nudge,
    wpc,                          \* the pool thread of each request
    handling, arming,             \* threads inside handle_sig: before the write of 'S';
                                  \* after it, before emergency_exit_handler is set up
    handlers,                     \* what SIGINT means: the default, handle_sig,
                                  \* emergency_exit_handler, or the default again
    signals,                      \* signals sent so far
    use_stdio, socket,            \* the setting; the nudge socket
    status,                       \* of the process
    unsent, stdin, eof,           \* the client's sending side
    stdout, received              \* the client's receiving side

loopVars == <<mpc, ready, closing>>
connVars == <<connected, read_buf, write_buf>>
sigVars == <<handling, arming, handlers, signals>>
lifeVars == <<use_stdio, socket, status>>
clientVars == <<unsent, stdin, eof, stdout, received>>
vars == <<loopVars, connVars, outgoing_messages, nudge, wpc, sigVars, lifeVars, clientVars>>

Starting == {"args", "socketpair", "handlers", "listen"}
Looping == {"select", "nudge", "responses", "read", "dispatch", "self_nudge", "write",
            "writing", "close"}
Ending == {"stop", "join", "release", "close_nudge", "done"}
MainPcs == Starting \cup Looping \cup Ending

Fds == {"nudge", "read", "write"}

\* Where a pool thread is that has taken a request and not yet reported it.
Unreported == {"running", "nudge", "answered"}

\* The threads with handle_sig on top of them; it masks SIGINT for its thread.
Held == handling \cup arming

Init ==
    /\ mpc = "args" /\ ready = {} /\ closing = FALSE
    /\ connected = FALSE /\ read_buf = <<>> /\ write_buf = <<>>
    /\ outgoing_messages = <<>> /\ nudge = <<>>
    /\ wpc = [r \in Requests |-> "none"]
    /\ handling = {} /\ arming = {} /\ handlers = "default" /\ signals = 0
    /\ use_stdio = FALSE /\ socket = "none" /\ status = "running"
    /\ unsent = Requests /\ stdin = <<>> /\ eof = FALSE
    /\ stdout = <<>> /\ received = <<>>

\* io_write of one byte to the nudge socket.
Nudge(byte) == /\ Len(nudge) < NudgeCap
               /\ nudge' = Append(nudge, byte)

-----------------------------------------------------------------------------
(***************************************************************************)
(* main(), and ServerInternal::run up to the loop.                         *)
(***************************************************************************)

\* parse_args: help and version are printed, or the options are refused, or run() begins.
ParseArgs ==
    /\ mpc = "args"
    /\ \/ status' \in {"exited", "failed"} /\ mpc' = "done" /\ UNCHANGED use_stdio
       \/ use_stdio' \in BOOLEAN /\ mpc' = "socketpair" /\ UNCHANGED status
    /\ UNCHANGED <<ready, closing, connVars, outgoing_messages, nudge, wpc, sigVars, socket,
                   clientVars>>

\* The nudge socket is made, or run() returns at once.
SocketPair ==
    /\ mpc = "socketpair"
    /\ \/ socket' = "open" /\ mpc' = "handlers" /\ UNCHANGED status
       \/ status' = "failed" /\ mpc' = "done" /\ UNCHANGED socket
    /\ UNCHANGED <<ready, closing, connVars, outgoing_messages, nudge, wpc, sigVars, use_stdio,
                   clientVars>>

\* set_up_signal_handlers.  On an error run() goes on all the same, without the handler.
SetUpHandlers ==
    /\ mpc = "handlers"
    /\ handlers' \in {"handle_sig", "default"}
    /\ mpc' = "listen"
    /\ UNCHANGED <<ready, closing, connVars, outgoing_messages, nudge, wpc, handling, arming,
                   signals, lifeVars, clientVars>>

\* start_listening.
StartListening ==
    /\ mpc = "listen"
    /\ connected' = use_stdio /\ mpc' = "select"
    /\ UNCHANGED <<ready, closing, read_buf, write_buf, outgoing_messages, nudge, wpc, sigVars,
                   lifeVars, clientVars>>

-----------------------------------------------------------------------------
(***************************************************************************)
(* ServerInternal::mainloop.                                               *)
(***************************************************************************)

\* The descriptors select finds ready; stdout counts only while write_buf has data.
Readable == (IF nudge # <<>> THEN {"nudge"} ELSE {})
            \cup (IF stdin # <<>> \/ eof THEN {"read"} ELSE {})
            \cup (IF write_buf # <<>> /\ Len(stdout) < PipeCap THEN {"write"} ELSE {})

\* while (!connections.empty()) ... select(); it waits until something is ready.
Select ==
    /\ mpc = "select"
    /\ \/ connected /\ Readable # {} /\ ready' = Readable /\ mpc' = "nudge"
       \/ ~connected /\ ready' = {} /\ mpc' = "stop"
    /\ UNCHANGED <<closing, connVars, outgoing_messages, nudge, wpc, sigVars, lifeVars, clientVars>>

\* select fails with something other than EINTR: mainloop returns.
SelectFails ==
    /\ mpc = "select" /\ connected
    /\ mpc' = "stop"
    /\ UNCHANGED <<ready, closing, connVars, outgoing_messages, nudge, wpc, sigVars, lifeVars,
                   clientVars>>

\* Check the nudge socket: nothing to read, or one read empties it, and an 'S' among
\* the bytes ends the loop.
SkipNudge ==
    /\ mpc = "nudge" /\ "nudge" \notin ready
    /\ mpc' = "read"
    /\ UNCHANGED <<ready, closing, connVars, outgoing_messages, nudge, wpc, sigVars, lifeVars,
                   clientVars>>

\* Slip: only the first byte is looked at.
ReadNudgeFirst ==
    /\ mpc = "nudge" /\ "nudge" \in ready
    /\ nudge' = <<>>
    /\ mpc' = IF Head(nudge) = "S" THEN "stop" ELSE "responses"
    /\ UNCHANGED <<ready, closing, connVars, outgoing_messages, wpc, sigVars, lifeVars, clientVars>>

ReadNudge ==
    /\ mpc = "nudge" /\ "nudge" \in ready
    /\ nudge' = <<>>
    /\ mpc' = IF \E i \in DOMAIN nudge : nudge[i] = "S" THEN "stop" ELSE "responses"
    /\ UNCHANGED <<ready, closing, connVars, outgoing_messages, wpc, sigVars, lifeVars, clientVars>>

\* The read fails.  io_read_append's -1 is turned into true, so the loop goes on as if
\* bytes other than 'S' had been read; they are still in the socket.
NudgeReadFails ==
    /\ mpc = "nudge" /\ "nudge" \in ready
    /\ mpc' = "responses"
    /\ UNCHANGED <<ready, closing, connVars, outgoing_messages, nudge, wpc, sigVars, lifeVars,
                   clientVars>>

\* Slip: one response for each nudge read.
DispatchOneResponse ==
    /\ mpc = "responses"
    /\ write_buf' = write_buf \o (IF outgoing_messages = <<>> THEN <<>>
                                  ELSE <<Head(outgoing_messages)>>)
    /\ outgoing_messages' = SubSeq(outgoing_messages, 2, Len(outgoing_messages))
    /\ mpc' = "read"
    /\ UNCHANGED <<ready, closing, connected, read_buf, nudge, wpc, sigVars, lifeVars, clientVars>>

\* Slip: the queue is not emptied.
DispatchAgain ==
    /\ mpc = "responses"
    /\ write_buf' = write_buf \o outgoing_messages
    /\ mpc' = "read"
    /\ UNCHANGED <<ready, closing, connected, read_buf, outgoing_messages, nudge, wpc, sigVars,
                   lifeVars, clientVars>>

\* dispatch_responses, under outgoing_message_mutex.  Inside the loop connection 0
\* is always found.
DispatchResponses ==
    /\ mpc = "responses"
    /\ write_buf' = write_buf \o outgoing_messages
    /\ outgoing_messages' = <<>>
    /\ mpc' = "read"
    /\ UNCHANGED <<ready, closing, connected, read_buf, nudge, wpc, sigVars, lifeVars, clientVars>>

\* io_read_append on the connection: not asked for, or an error that is only logged ...
SkipRead ==
    /\ mpc = "read"
    /\ mpc' = "write"
    /\ UNCHANGED <<ready, closing, connVars, outgoing_messages, nudge, wpc, sigVars, lifeVars,
                   clientVars>>

\* ... data ...
ReadData ==
    /\ mpc = "read" /\ "read" \in ready /\ stdin # <<>>
    /\ read_buf' = read_buf \o stdin
    /\ stdin' = <<>>
    /\ mpc' = "dispatch"
    /\ UNCHANGED <<ready, closing, connected, write_buf, outgoing_messages, nudge, wpc, sigVars,
                   lifeVars, unsent, eof, stdout, received>>

\* ... or the end of the file.
ReadEof ==
    /\ mpc = "read" /\ "read" \in ready /\ stdin = <<>>
    /\ closing' = TRUE
    /\ mpc' = "write"
    /\ UNCHANGED <<ready, connVars, outgoing_messages, nudge, wpc, sigVars, lifeVars, clientVars>>

\* dispatch_request over read_buf.  A request is answered here, by queue_response,
\* whose nudge is a step of its own ...
AnswerLocally ==
    /\ mpc = "dispatch" /\ read_buf # <<>> /\ Head(read_buf) \in Local
    /\ outgoing_messages' = Append(outgoing_messages, Head(read_buf))
    /\ read_buf' = Tail(read_buf)
    /\ mpc' = "self_nudge"
    /\ UNCHANGED <<ready, closing, connected, write_buf, nudge, wpc, sigVars, lifeVars, clientVars>>

\* ... or handed to the pool ...
SendToWorker ==
    /\ mpc = "dispatch" /\ read_buf # <<>> /\ Head(read_buf) \notin Local
    /\ wpc' = [wpc EXCEPT ![Head(read_buf)] = "queued"]
    /\ read_buf' = Tail(read_buf)
    /\ UNCHANGED <<loopVars, connected, write_buf, outgoing_messages, nudge, sigVars, lifeVars,
                   clientVars>>

\* ... until no whole request is left.
DispatchDone ==
    /\ mpc = "dispatch" /\ read_buf = <<>>
    /\ mpc' = "write"
    /\ UNCHANGED <<ready, closing, connVars, outgoing_messages, nudge, wpc, sigVars, lifeVars,
                   clientVars>>

\* The io_write that ends queue_response, in the thread that alone reads the socket.
SelfNudge ==
    /\ mpc = "self_nudge"
    /\ Nudge("R")
    /\ mpc' = "dispatch"
    /\ UNCHANGED <<ready, closing, connVars, outgoing_messages, wpc, sigVars, lifeVars, clientVars>>

\* FD_ISSET(write_fd): begin io_write_some, or find it failing and close.
BeginWrite ==
    /\ mpc = "write"
    /\ \/ "write" \notin ready /\ mpc' = "close" /\ UNCHANGED closing
       \/ "write" \in ready /\ mpc' = "writing" /\ UNCHANGED closing
       \/ "write" \in ready /\ mpc' = "close" /\ closing' = TRUE
    /\ UNCHANGED <<ready, connVars, outgoing_messages, nudge, wpc, sigVars, lifeVars, clientVars>>

\* write() of all of write_buf to a blocking descriptor: it returns when the whole
\* buffer has gone into the pipe, or when a signal cuts it short.
WriteSome ==
    /\ mpc = "writing" /\ Len(stdout) < PipeCap
    /\ stdout' = Append(stdout, Head(write_buf))
    /\ write_buf' = Tail(write_buf)
    /\ mpc' \in IF Len(write_buf) = 1 THEN {"close"} ELSE {"close", "writing"}
    /\ UNCHANGED <<ready, closing, connected, read_buf, outgoing_messages, nudge, wpc, sigVars,
                   lifeVars, unsent, stdin, eof, received>>

\* Erase the connections found closed, whatever is in their write_buf.
EraseClosed ==
    /\ mpc = "close"
    /\ mpc' = "select" /\ ready' = {} /\ closing' = FALSE
    /\ connected' = (connected /\ ~closing)
    /\ write_buf' = IF closing THEN <<>> ELSE write_buf
    /\ UNCHANGED <<read_buf, outgoing_messages, nudge, wpc, sigVars, lifeVars, clientVars>>

-----------------------------------------------------------------------------
(***************************************************************************)
(* The end of ServerInternal::run, and the pool threads.                   *)
(***************************************************************************)

\* stop_listening does nothing.  workers.stop() removes every worker.  Requests still queued
\* are dropped, because wait_for_message prefers the stop request; one that is being run
\* goes on until it is reported (MessageHandled).
StopWorkers ==
    /\ mpc = "stop"
    /\ mpc' = "join"
    /\ wpc' = [r \in Requests |-> IF wpc[r] = "queued" THEN "dropped" ELSE wpc[r]]
    /\ UNCHANGED <<ready, closing, connVars, outgoing_messages, nudge, sigVars, lifeVars, clientVars>>

\* Slip: a request that stop() has dropped is waited for.
JoinDropped ==
    /\ mpc = "join"
    /\ \A r \in Requests : wpc[r] \in {"none", "done"}
    /\ mpc' = "release"
    /\ UNCHANGED <<ready, closing, connVars, outgoing_messages, nudge, wpc, sigVars, lifeVars,
                   clientVars>>

\* workers.join() returns once every thread has ended, what runs on top of it included.
JoinWorkers ==
    /\ mpc = "join"
    /\ Held = {} /\ \A r \in Requests : wpc[r] \notin Unreported
    /\ mpc' = "release"
    /\ UNCHANGED <<ready, closing, connVars, outgoing_messages, nudge, wpc, sigVars, lifeVars,
                   clientVars>>

\* It does not wait for a thread in worker_exited that is in neither list (WorkerPool:
\* JoinWaitsForAll), even one with a signal handler on top of it.
JoinMissesWorker ==
    /\ mpc = "join"
    /\ \A r \in Requests : wpc[r] \notin Unreported
    /\ mpc' = "release"
    /\ UNCHANGED <<ready, closing, connVars, outgoing_messages, nudge, wpc, sigVars, lifeVars,
                   clientVars>>

\* Slip: the socket is closed with the handlers still in place.
CloseFirst ==
    /\ mpc = "release"
    /\ socket' = "closed" /\ mpc' = "close_nudge"
    /\ UNCHANGED <<ready, closing, connVars, outgoing_messages, nudge, wpc, sigVars, use_stdio,
                   status, clientVars>>

\* release_signal_handlers.
ReleaseHandlers ==
    /\ mpc = "release"
    /\ handlers' = "released" /\ mpc' = "close_nudge"
    /\ UNCHANGED <<ready, closing, connVars, outgoing_messages, nudge, wpc, handling, arming,
                   signals, lifeVars, clientVars>>

\* io_close of both ends.  The exit status tells whether anything failed on the way (the
\* set-up of the handlers, select, a close): which it was, error_message, is not kept.
CloseNudge ==
    /\ mpc = "close_nudge"
    /\ socket' = "closed"
    /\ mpc' = "done" /\ status' \in {"exited", "failed"}
    /\ UNCHANGED <<ready, closing, connVars, outgoing_messages, nudge, wpc, sigVars, use_stdio,
                   clientVars>>

TakeMessage(r) ==
    /\ wpc[r] = "queued"
    /\ wpc' = [wpc EXCEPT ![r] = "running"]
    /\ UNCHANGED <<loopVars, connVars, outgoing_messages, nudge, sigVars, lifeVars, clientVars>>

\* Slip: the response is queued and the main loop not nudged.
QueueSilently(r) ==
    /\ wpc[r] = "running"
    /\ outgoing_messages' = Append(outgoing_messages, r)
    /\ wpc' = [wpc EXCEPT ![r] = "done"]
    /\ UNCHANGED <<loopVars, connVars, nudge, sigVars, lifeVars, clientVars>>

\* queue_response in a worker: the push, under outgoing_message_mutex ...
QueueResponse(r) ==
    /\ wpc[r] = "running"
    /\ outgoing_messages' = Append(outgoing_messages, r)
    /\ wpc' = [wpc EXCEPT ![r] = "nudge"]
    /\ UNCHANGED <<loopVars, connVars, nudge, sigVars, lifeVars, clientVars>>

\* ... and the write of 'R', after the mutex was released.
WorkerNudge(r) ==
    /\ wpc[r] = "nudge"
    /\ Nudge("R")
    /\ wpc' = [wpc EXCEPT ![r] = "answered"]
    /\ UNCHANGED <<loopVars, connVars, outgoing_messages, sigVars, lifeVars, clientVars>>

\* worker_message_handled, on the next call of wait_for_message: by then stop() may have
\* removed the worker, and the assert ends the process (WorkerPool: AssertsHold).
MessageHandled(r) ==
    /\ wpc[r] = "answered"
    /\ IF mpc \in Ending \ {"stop"}
       THEN status' = "aborted" /\ UNCHANGED wpc
       ELSE wpc' = [wpc EXCEPT ![r] = "done"] /\ UNCHANGED status
    /\ UNCHANGED <<loopVars, connVars, outgoing_messages, nudge, sigVars, use_stdio, socket,
                   clientVars>>

-----------------------------------------------------------------------------
(***************************************************************************)
(* Signals.                                                                *)
(***************************************************************************)

\* The threads a signal may find; join() may have missed some of the pool's.
Alive == {Main} \cup {r \in Requests : wpc[r] # "none"}

\* SIGINT is delivered to thread t, which enters handle_sig and shutdown().
Interrupt(t) ==
    /\ handlers = "handle_sig" /\ signals < MaxSignals
    /\ t \in Alive \ Held
    /\ handling' = handling \cup {t}
    /\ signals' = signals + 1
    /\ UNCHANGED <<loopVars, connVars, outgoing_messages, nudge, wpc, arming, handlers,
                   lifeVars, clientVars>>

\* Slip: a byte that ReadNudge does not know.
ShutdownOtherByte(t) ==
    /\ t \in handling
    /\ Nudge("Q")
    /\ handling' = handling \ {t} /\ arming' = arming \cup {t}
    /\ UNCHANGED <<loopVars, connVars, outgoing_messages, wpc, handlers, signals, lifeVars,
                   clientVars>>

\* shutdown(): the write of 'S', or an error that is ignored if run() has closed the
\* socket ...
Shutdown(t) ==
    /\ t \in handling
    /\ \/ socket = "open" /\ Nudge("S")
       \/ socket = "closed" /\ UNCHANGED nudge
    /\ handling' = handling \ {t} /\ arming' = arming \cup {t}
    /\ UNCHANGED <<loopVars, connVars, outgoing_messages, wpc, handlers, signals, lifeVars,
                   clientVars>>

\* ... and set_up_emergency_signal_handlers, which falls back on the default.  Until then
\* another thread may enter handle_sig.
SetUpEmergency(t) ==
    /\ t \in arming
    /\ arming' = arming \ {t}
    /\ handlers' \in {"emergency", "released"}
    /\ UNCHANGED <<loopVars, connVars, outgoing_messages, nudge, wpc, handling, signals, lifeVars,
                   clientVars>>

\* SIGTERM, a SIGINT after the first, for which emergency_exit_handler calls exit(), or
\* a SIGINT that finds no handler.
EmergencyExit ==
    /\ signals < MaxSignals
    /\ signals' = signals + 1
    /\ status' = "killed"
    /\ UNCHANGED <<loopVars, connVars, outgoing_messages, nudge, wpc, handling, arming,
                   handlers, use_stdio, socket, clientVars>>

-----------------------------------------------------------------------------
(***************************************************************************)
(* The client at the other end of stdin and stdout.                        *)
(***************************************************************************)
ClientSends(r) ==
    /\ r \in unsent /\ ~eof /\ Len(stdin) < PipeCap
    /\ unsent' = unsent \ {r}
    /\ stdin' = Append(stdin, r)
    /\ UNCHANGED <<loopVars, connVars, outgoing_messages, nudge, wpc, sigVars, lifeVars, eof, stdout,
                   received>>

ClientCloses ==
    /\ ~eof /\ eof' = TRUE
    /\ UNCHANGED <<loopVars, connVars, outgoing_messages, nudge, wpc, sigVars, lifeVars, unsent, stdin,
                   stdout, received>>

ClientReceives ==
    /\ stdout # <<>>
    /\ received' = Append(received, Head(stdout))
    /\ stdout' = Tail(stdout)
    /\ UNCHANGED <<loopVars, connVars, outgoing_messages, nudge, wpc, sigVars, lifeVars, unsent, stdin,
                   eof>>

-----------------------------------------------------------------------------
\* Steps of the main thread's own code; a signal handler on top of it holds it up.
MainStep ==
    /\ Main \notin Held
    /\ \/ ParseArgs \/ SocketPair \/ SetUpHandlers \/ StartListening
       \/ Select \/ SkipNudge \/ ReadNudge \/ DispatchResponses
       \/ SkipRead \/ ReadData \/ ReadEof
       \/ AnswerLocally \/ SendToWorker \/ DispatchDone \/ SelfNudge
       \/ BeginWrite \/ WriteSome \/ EraseClosed \/ StopWorkers \/ JoinWorkers
       \/ ReleaseHandlers \/ CloseNudge

WorkerStep(r) ==
    /\ r \notin Held
    /\ TakeMessage(r) \/ QueueResponse(r) \/ WorkerNudge(r) \/ MessageHandled(r)

\* The rest of handle_sig.
HandlerStep(t) == Shutdown(t) \/ SetUpEmergency(t)

\* The process has ended; the client may still empty the pipe.
Terminated == status # "running" /\ stdout = <<>> /\ UNCHANGED vars

Next ==
    \/ /\ status = "running"
       /\ \/ MainStep
          \/ Main \notin Held /\ (SelectFails \/ NudgeReadFails \/ JoinMissesWorker)
          \/ \E r \in Requests : WorkerStep(r) \/ ClientSends(r)
          \/ \E t \in Requests \cup {Main} : Interrupt(t) \/ HandlerStep(t)
          \/ EmergencyExit
          \/ ClientCloses
    \/ ClientReceives
    \/ Terminated

Spec == Init /\ [][Next]_vars

\* The operating system runs every thread that can run, and the client reads what it
\* is sent; a read of the nudge socket does not fail for ever.  Signals, errors and what
\* the client sends are not owed to anybody.
Fairness == /\ WF_vars(status = "running" /\ MainStep)
            /\ SF_vars(status = "running" /\ Main \notin Held /\ ReadNudge)
            /\ \A r \in Requests : WF_vars(status = "running" /\ WorkerStep(r))
            /\ \A t \in Requests \cup {Main} : WF_vars(status = "running" /\ HandlerStep(t))
            /\ WF_vars(ClientReceives)

FairSpec == Spec /\ Fairness

-----------------------------------------------------------------------------
(***************************************************************************)
(* Properties.                                                             *)
(***************************************************************************)

\* Every variable keeps its type.
TypeOK ==
    /\ mpc \in MainPcs /\ ready \subseteq Fds /\ closing \in BOOLEAN
    /\ connected \in BOOLEAN
    /\ read_buf \in Seq(Requests) /\ write_buf \in Seq(Requests)
    /\ outgoing_messages \in Seq(Requests) /\ nudge \in Seq({"R", "S"})
    /\ wpc \in [Requests -> {"none", "queued", "running", "nudge", "answered", "done", "dropped"}]
    /\ handling \subseteq Requests \cup {Main} /\ arming \subseteq Requests \cup {Main}
    /\ handlers \in {"default", "handle_sig", "emergency", "released"} /\ signals \in Nat
    /\ use_stdio \in BOOLEAN /\ socket \in {"none", "open", "closed"}
    /\ status \in {"running", "exited", "failed", "killed", "aborted"}
    /\ unsent \subseteq Requests /\ stdin \in Seq(Requests) /\ eof \in BOOLEAN
    /\ stdout \in Seq(Requests) /\ received \in Seq(Requests)

\* A thread has pushed a response and not yet nudged the main loop.
NudgeDue == mpc = "self_nudge" \/ \E r \in Requests : wpc[r] = "nudge"

\* The main loop never sleeps over a response: whenever outgoing_messages has one, the
\* loop has a byte to read, a byte is about to be written, the loop has just taken a
\* byte and not looked yet, or the loop has ended.  A nudge that one read swallows
\* together with others is not lost, because the whole queue is dispatched after it.
NoLostNudge ==
    outgoing_messages # <<>> =>
        \/ nudge # <<>> \/ NudgeDue
        \/ mpc = "responses" \/ mpc \in Ending

\* A shutdown that was asked for is not forgotten: once shutdown() has returned in any
\* thread, whatever the handler does next, the 'S' is in the socket until the loop ends.
ShutdownRemembered ==
    (arming # {} \/ handlers \in {"emergency", "released"}) /\ mpc \notin Ending
        => \E i \in DOMAIN nudge : nudge[i] = "S"

\* Whoever is about to write to the nudge socket, a worker with a response or the main
\* thread in shutdown(), finds it open: it is made before the first handler can run and
\* closed only when the pool has answered and no handler can be entered any more.  (Not so
\* a handler on top of a thread that join() missed: Shutdown.)
WritersFindSocket ==
    NudgeDue \/ Main \in handling \/ handlers = "handle_sig" => socket = "open"

\* What the client may still receive, oldest first.
InFlight == stdout \o (IF connected THEN write_buf \o outgoing_messages ELSE <<>>)

\* The responses travel through outgoing_messages, write_buf and the pipe as through
\* one first-in first-out channel that nothing overtakes, repeats or drops, as long as
\* the connection exists.
Channel == INSTANCE Conduit WITH
    Responses <- Requests,
    inflight <- InFlight,
    open <- connected \/ mpc \in Starting

ImplementsConduit == Channel!Spec

\* A response that was queued reaches the client, unless the connection or the main
\* loop ends first.
ResponsesArrive ==
    \A r \in Requests :
        (\E i \in DOMAIN outgoing_messages : outgoing_messages[i] = r)
            ~> \/ \E i \in DOMAIN received : received[i] = r
               \/ ~connected \/ closing
               \/ mpc \in Ending \/ status # "running"

\* shutdown() brings the server to its end: the loop returns and join() does not hang.
ShutdownCompletes == handling # {} ~> status # "running"

\* join() returns, or a worker's assert ends the process, however the loop came to its end:
\* no worker is left waiting for room in a socket that nobody reads any more, as long as
\* the socket has room for all that is still to be written.
JoinEnds == mpc = "join" ~> mpc # "join" \/ status # "running"

-----------------------------------------------------------------------------
(***************************************************************************)
(* What the code's comments say and the code does not do.                  *)
(***************************************************************************)

\* "This returns immediately" (serverinternal.h:129), and it is safe to call from a
\* signal handler: no thread stays in shutdown() for ever.
ShutdownReturns ==
    \A t \in Requests \cup {Main} : t \in Held ~> t \notin Held \/ status # "running"

\* stop_listening "waits until all active connections are closed before returning"
\* (serverinternal.h:111): the pool is stopped only when no connection is left.
ConnectionsClosedFirst == mpc \in Ending \ {"stop"} => ~connected
=============================================================================
