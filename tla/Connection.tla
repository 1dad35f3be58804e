----------------------------- MODULE Connection -----------------------------
(***************************************************************************)
(* The Python client: Connection and LocalConnection                       *)
(* (clients/python/xaprun/connection.py), used by several threads at once, *)
(* with the xaprun process it has started at the other end of two pipes.   *)
(*                                                                         *)
(* send, check and close hold one lock, which is not reentrant, for as     *)
(* long as they run (@locked): also while they block in os.write, select   *)
(* or process.wait.  sendwait is a send and then checks until the callback *)
(* has been called.                                                        *)
(*                                                                         *)
(* A response is two tokens, the length with its space and the message of  *)
(* that length: read_buf can hold the first without the second, and less   *)
(* than a token is no more use to the parser than nothing.  A response of  *)
(* a worker is its payload with no frame around it: one token "raw", with  *)
(* no space in it (json.dumps with client.py's separators), or no bytes.   *)
(* The text of a document can hold spaces: then int() fails at once, or    *)
(* the payload may even look like a frame.  That is left out; a "raw" that *)
(* waits for the next response to be refused is the mildest case.          *)
(*                                                                         *)
(* The server is modelled by what the client can see of its main loop; the *)
(* loop itself is module Server.                                           *)
(***************************************************************************)
EXTENDS Naturals, Sequences, Functions, FiniteSets

CONSTANTS Callers,      \* threads that make one call each
          Senders,      \* those that only send; the others sendwait
          Closers,      \* threads that call close()
          Kind,         \* what the call asks for: an answer of the dispatcher ("framed"),
                        \* a PUT or a GET on a db, answered by a worker ("put", "get")
          Timeout,      \* of the sendwait: "none", "zero" or "some"
          PipeCap,      \* requests stdin holds
          OutCap,       \* tokens stdout holds
          None

Threads == Callers \cup Closers

ASSUME ConnectionAssumption ==
    /\ Senders \subseteq Callers /\ Closers \cap Callers = {}
    /\ Kind \in [Callers -> {"framed", "put", "get"}]
    /\ Timeout \in [Callers -> {"none", "zero", "some"}]
    /\ PipeCap \in Nat \ {0} /\ OutCap \in Nat \ {0}
    /\ None \notin Threads \cup Nat

VARIABLES
    lock,                          \* the thread that holds self.lock, or None
    pending, next_id,              \* msgid -> the caller whose callback it is
    read_buf, read_msg_len,        \* the length stands for the msgid it was sent with
    closed,
    pc,                            \* where each thread is
    results,                       \* what each callback was called with: r of sendwait
    hup,                           \* _close() has closed both pipes
    stdin, stdout,                 \* the pipes
    srv, working, outgoing, write_buf     \* the server

connVars == <<pending, next_id, read_buf, read_msg_len, closed>>
srvVars == <<srv, working, outgoing, write_buf>>
pipeVars == <<hup, stdin, stdout>>
vars == <<lock, connVars, pc, results, pipeVars, srvVars>>

Pcs == {"idle", "write", "calling", "parse", "more", "test", "failing", "closing",
        "returned", "raised", "done"}

Init ==
    /\ lock = None
    /\ pending = <<>> /\ next_id = 0
    /\ read_buf = <<>> /\ read_msg_len = None /\ closed = FALSE
    /\ pc = [t \in Threads |-> "idle"]
    /\ results = [c \in Callers |-> <<>>]
    /\ hup = FALSE /\ stdin = <<>> /\ stdout = <<>>
    /\ srv = "select" /\ working = {} /\ outgoing = <<>> /\ write_buf = <<>>

Goto(t, p) == pc' = [pc EXCEPT ![t] = p]

-----------------------------------------------------------------------------
(***************************************************************************)
(* send.                                                                   *)
(***************************************************************************)

\* Where a call goes on after send: sendwait calls check.
AfterSend(c) == IF c \in Senders THEN "done" ELSE "calling"

\* On a closed connection send calls the callback and returns.
SendClosed(c) ==
    /\ pc[c] = "idle" /\ lock = None /\ closed
    /\ results' = [results EXCEPT ![c] = Append(@, "closed")]
    /\ Goto(c, AfterSend(c))
    /\ UNCHANGED <<lock, connVars, pipeVars, srvVars>>

\* Slip: the ids all alike.
SendSameId(c) ==
    /\ pc[c] = "idle" /\ lock = None /\ ~closed
    /\ lock' = c
    /\ pending' = [i \in DOMAIN pending \cup {next_id} |->
                       IF i = next_id THEN c ELSE pending[i]]
    /\ Goto(c, "write")
    /\ UNCHANGED <<next_id, read_buf, read_msg_len, closed, results, pipeVars, srvVars>>

\* Otherwise it registers the callback ...
Send(c) ==
    /\ pc[c] = "idle" /\ lock = None /\ ~closed
    /\ lock' = c
    /\ pending' = [i \in DOMAIN pending \cup {next_id} |->
                       IF i = next_id THEN c ELSE pending[i]]
    /\ next_id' = next_id + 1
    /\ Goto(c, "write")
    /\ UNCHANGED <<read_buf, read_msg_len, closed, results, pipeVars, srvVars>>

\* The id that send gave to c's message, while its callback is registered.
MsgId(c) == CHOOSE i \in DOMAIN pending : pending[i] = c

\* ... and writes, which blocks, lock in hand, while the pipe is full ...
Write(c) ==
    /\ pc[c] = "write" /\ srv # "ended" /\ Len(stdin) < PipeCap
    /\ stdin' = Append(stdin, [id |-> MsgId(c), from |-> c])
    /\ lock' = None
    /\ Goto(c, AfterSend(c))
    /\ UNCHANGED <<connVars, results, hup, stdout, srvVars>>

\* ... and raises OSError when the server is gone, with the callback left in pending.
WriteFails(c) ==
    /\ pc[c] = "write" /\ srv = "ended"
    /\ lock' = None
    /\ Goto(c, "raised")
    /\ UNCHANGED <<connVars, results, pipeVars, srvVars>>

-----------------------------------------------------------------------------
(***************************************************************************)
(* check.  The first pass round its loop parses, without a read; later     *)
(* passes look at the clock, read and parse.                               *)
(***************************************************************************)
Check(c) ==
    /\ pc[c] = "calling" /\ lock = None
    /\ lock' = c
    /\ Goto(c, "parse")
    /\ UNCHANGED <<connVars, results, pipeVars, srvVars>>

\* No space in read_buf yet, or not the whole message.
NeedMoreData(c) ==
    /\ pc[c] = "parse"
    /\ \/ read_msg_len = None /\ \A i \in DOMAIN read_buf : read_buf[i].part = "raw"
       \/ read_msg_len # None /\ read_buf = <<>>
    /\ Goto(c, "more")
    /\ UNCHANGED <<lock, connVars, results, pipeVars, srvVars>>

ReadLength(c) ==
    /\ pc[c] = "parse" /\ read_msg_len = None
    /\ read_buf # <<>> /\ Head(read_buf).part = "len"
    /\ read_msg_len' = Head(read_buf).id
    /\ read_buf' = Tail(read_buf)
    /\ UNCHANGED <<lock, pending, next_id, closed, pc, results, pipeVars, srvVars>>

\* The callback of the message at the head of read_buf, and what it is called with.
Callback == pending[Head(read_buf).id]
CallBack == results' = [results EXCEPT ![Callback] =
                            Append(@, IF Head(read_buf).from = Callback THEN "own" ELSE "other")]

\* Slip: the callback stays in pending.
HandleAndKeep(c) ==
    /\ pc[c] = "parse" /\ read_msg_len # None /\ read_buf # <<>>
    /\ Head(read_buf).id \in DOMAIN pending
    /\ CallBack
    /\ read_buf' = Tail(read_buf) /\ read_msg_len' = None
    /\ lock' = None
    /\ Goto(c, "test")
    /\ UNCHANGED <<pending, next_id, closed, pipeVars, srvVars>>

\* Slip: read_msg_len is not reset.
HandleSameLength(c) ==
    /\ pc[c] = "parse" /\ read_msg_len # None /\ read_buf # <<>>
    /\ Head(read_buf).id \in DOMAIN pending
    /\ CallBack
    /\ pending' = Restrict(pending, DOMAIN pending \ {Head(read_buf).id})
    /\ read_buf' = Tail(read_buf)
    /\ lock' = None
    /\ Goto(c, "test")
    /\ UNCHANGED <<read_msg_len, next_id, closed, pipeVars, srvVars>>

\* _handle_message: the callback of the message's id is called, and check returns.
HandleMessage(c) ==
    /\ pc[c] = "parse" /\ read_msg_len # None /\ read_buf # <<>>
    /\ Head(read_buf).id \in DOMAIN pending
    /\ CallBack
    /\ pending' = Restrict(pending, DOMAIN pending \ {Head(read_buf).id})
    /\ read_buf' = Tail(read_buf) /\ read_msg_len' = None
    /\ lock' = None
    /\ Goto(c, "test")
    /\ UNCHANGED <<next_id, closed, pipeVars, srvVars>>

\* The two ways in which a response is refused: what stands before the space is not a
\* number, or no callback has the message's id.
Unintelligible ==
    \/ /\ read_msg_len = None /\ read_buf # <<>> /\ Head(read_buf).part = "raw"
       /\ \E i \in DOMAIN read_buf : read_buf[i].part = "len"
    \/ /\ read_msg_len # None /\ read_buf # <<>>
       /\ Head(read_buf).id \notin DOMAIN pending

\* _failed begins with _close, which closes the pipes and waits for the process.
Fail(c) == /\ hup' = TRUE
           /\ Goto(c, "failing")
           /\ UNCHANGED <<lock, connVars, results, stdin, stdout, srvVars>>

RefuseMessage(c) == pc[c] = "parse" /\ Unintelligible /\ Fail(c)

\* Slip: the clock is looked at only when something has been read.
TimeOutBusy(c) ==
    /\ pc[c] = "more" /\ Timeout[c] # "none" /\ read_buf # <<>>
    /\ lock' = None
    /\ Goto(c, "test")
    /\ UNCHANGED <<connVars, results, pipeVars, srvVars>>

\* The clock is past endtime: check returns.  With a timeout of 0 it always is.
TimeOut(c) ==
    /\ pc[c] = "more" /\ Timeout[c] # "none"
    /\ lock' = None
    /\ Goto(c, "test")
    /\ UNCHANGED <<connVars, results, pipeVars, srvVars>>

\* Slip: what one read does not take is lost.
ReadAndLose(c) ==
    /\ pc[c] = "more" /\ Timeout[c] # "zero" /\ ~hup /\ stdout # <<>>
    /\ \E n \in 1..Len(stdout) : read_buf' = read_buf \o SubSeq(stdout, 1, n)
    /\ stdout' = <<>>
    /\ Goto(c, "parse")
    /\ UNCHANGED <<lock, pending, next_id, read_msg_len, closed, results, hup, stdin, srvVars>>

\* _read: select, which waits until endtime or for ever, then os.read of what there is.
Read(c) ==
    /\ pc[c] = "more" /\ Timeout[c] # "zero" /\ ~hup /\ stdout # <<>>
    /\ \E n \in 1..Len(stdout) :
          /\ read_buf' = read_buf \o SubSeq(stdout, 1, n)
          /\ stdout' = SubSeq(stdout, n + 1, Len(stdout))
    /\ Goto(c, "parse")
    /\ UNCHANGED <<lock, pending, next_id, read_msg_len, closed, results, hup, stdin, srvVars>>

\* End of file: "Connection closed unexpectedly".
ReadEof(c) ==
    /\ pc[c] = "more" /\ Timeout[c] # "zero" /\ ~hup /\ stdout = <<>> /\ srv = "ended"
    /\ Fail(c)

\* check does not look at closed: it selects on the number of a closed descriptor, and
\* select raises.
ReadClosed(c) ==
    /\ pc[c] = "more" /\ Timeout[c] # "zero" /\ hup
    /\ lock' = None
    /\ Goto(c, "raised")
    /\ UNCHANGED <<connVars, results, pipeVars, srvVars>>

\* select finds the pipe readable.
Select(c) == Read(c) \/ ReadEof(c) \/ ReadClosed(c)

\* sendwait looks at r only when check has returned.
Test(c) ==
    /\ pc[c] = "test"
    /\ Goto(c, IF results[c] # <<>> THEN "returned" ELSE "calling")
    /\ UNCHANGED <<lock, connVars, results, pipeVars, srvVars>>

-----------------------------------------------------------------------------
(***************************************************************************)
(* close, and what _failed and close have in common.                       *)
(***************************************************************************)
Close(t) ==
    /\ pc[t] = "idle" /\ lock = None
    /\ lock' = t
    /\ hup' = TRUE
    /\ Goto(t, "closing")
    /\ UNCHANGED <<connVars, results, stdin, stdout, srvVars>>

\* process.wait() has returned; _cleanup calls every callback, and _failed raises.
Cleanup(t) ==
    /\ pc[t] \in {"failing", "closing"} /\ srv = "ended"
    /\ results' = [c \in Callers |-> IF \E i \in DOMAIN pending : pending[i] = c
                                     THEN Append(results[c], "closed") ELSE results[c]]
    /\ pending' = <<>> /\ closed' = TRUE
    /\ lock' = None
    /\ Goto(t, IF pc[t] = "failing" THEN "raised" ELSE "done")
    /\ UNCHANGED <<next_id, read_buf, read_msg_len, pipeVars, srvVars>>

-----------------------------------------------------------------------------
(***************************************************************************)
(* The server.                                                             *)
(***************************************************************************)

\* What the dispatcher sends (send_msg_response), and what a worker sends.
Response(m) ==
    CASE Kind[m.from] = "framed" -> << [part |-> "len", id |-> m.id, from |-> m.from],
                                       [part |-> "body", id |-> m.id, from |-> m.from] >>
      [] Kind[m.from] = "put"    -> << [part |-> "raw", id |-> m.id, from |-> m.from] >>
      [] Kind[m.from] = "get"    -> <<>>

\* The loop reads stdin and dispatches a request: answered on the spot or given to a worker.
SrvRequest ==
    /\ srv = "select" /\ stdin # <<>>
    /\ stdin' = Tail(stdin)
    /\ IF Kind[Head(stdin).from] = "framed"
       THEN outgoing' = outgoing \o Response(Head(stdin)) /\ UNCHANGED working
       ELSE working' = working \cup {Head(stdin)} /\ UNCHANGED outgoing
    /\ UNCHANGED <<lock, connVars, pc, results, hup, stdout, srv, write_buf>>

\* A worker answers, in any order and while the loop does anything else.
WorkerResponds ==
    /\ srv # "ended"
    /\ \E m \in working : working' = working \ {m} /\ outgoing' = outgoing \o Response(m)
    /\ UNCHANGED <<lock, connVars, pc, results, pipeVars, srv, write_buf>>

\* The loop dispatches the responses and starts to write, as select found stdout
\* writable; it reads nothing until all of write_buf is written.
SrvFlush ==
    /\ srv = "select" /\ outgoing # <<>> /\ Len(stdout) < OutCap
    /\ srv' = "writing" /\ write_buf' = outgoing /\ outgoing' = <<>>
    /\ UNCHANGED <<lock, connVars, pc, results, pipeVars, working>>

SrvWrite ==
    /\ srv = "writing" /\ ~hup /\ Len(stdout) < OutCap
    /\ stdout' = Append(stdout, Head(write_buf))
    /\ write_buf' = Tail(write_buf)
    /\ srv' = IF Len(write_buf) = 1 THEN "select" ELSE "writing"
    /\ UNCHANGED <<lock, connVars, pc, results, hup, stdin, working, outgoing>>

\* The process ends and what it had not written is lost ...
SrvGone ==
    /\ srv # "ended" /\ srv' = "ended"
    /\ working' = {} /\ outgoing' = <<>> /\ write_buf' = <<>> /\ stdin' = <<>>
    /\ UNCHANGED <<lock, connVars, pc, results, hup, stdout>>

\* ... because the client closed the pipes: end of file on stdin, or EPIPE on stdout ...
SrvEnds == hup /\ SrvGone

\* ... or for reasons of its own: a signal, an error, a crash.
SrvDies == ~hup /\ SrvGone

-----------------------------------------------------------------------------
\* Steps of a thread that holds the lock, or needs none.
Proceed(c) == \/ Write(c) \/ WriteFails(c)
              \/ NeedMoreData(c) \/ ReadLength(c) \/ HandleMessage(c) \/ RefuseMessage(c)
              \/ TimeOut(c) \/ Select(c) \/ Test(c)

SrvLoop == SrvRequest \/ SrvFlush \/ SrvWrite

Finished == {"returned", "raised", "done"}

\* Every call has come to its end.
Terminated == (\A c \in Callers : pc[c] \in Finished) /\ UNCHANGED vars

Next ==
    \/ \E c \in Callers : Send(c) \/ SendClosed(c) \/ Check(c) \/ Proceed(c)
    \/ \E t \in Closers : Close(t)
    \/ \E t \in Threads : Cleanup(t)
    \/ SrvLoop \/ WorkerResponds \/ SrvEnds \/ SrvDies
    \/ Terminated

Spec == Init /\ [][Next]_vars

\* The operating system runs every thread that can run and the server's process too, a
\* thread that waits for the lock gets it in the end, and a timeout that is not zero is
\* not so short that check never gets to look at the pipe.
Fairness ==
    /\ \A c \in Callers : WF_vars(Proceed(c)) /\ SF_vars(Check(c)) /\ SF_vars(Select(c))
    /\ \A t \in Threads : WF_vars(Cleanup(t))
    /\ WF_vars(SrvLoop) /\ WF_vars(WorkerResponds) /\ WF_vars(SrvEnds)

FairSpec == Spec /\ Fairness

-----------------------------------------------------------------------------
(***************************************************************************)
(* Properties.                                                             *)
(***************************************************************************)
Tokens == [part : {"len", "body", "raw"}, id : Nat, from : Callers]
Messages == [id : Nat, from : Callers]

\* Every variable keeps its type.
TypeOK ==
    /\ lock \in Threads \cup {None}
    /\ next_id \in Nat /\ DOMAIN pending \subseteq 0..(next_id - 1)
    /\ \A i \in DOMAIN pending : pending[i] \in Callers
    /\ read_buf \in Seq(Tokens) /\ read_msg_len \in Nat \cup {None} /\ closed \in BOOLEAN
    /\ pc \in [Threads -> Pcs]
    /\ results \in [Callers -> Seq({"own", "other", "closed"})]
    /\ hup \in BOOLEAN /\ stdin \in Seq(Messages) /\ stdout \in Seq(Tokens)
    /\ srv \in {"select", "writing", "ended"}
    /\ working \subseteq Messages /\ outgoing \in Seq(Tokens) /\ write_buf \in Seq(Tokens)

\* What has come of each call: its callback is in pending, or has been called.
Waiting(c) == \E i \in DOMAIN pending : pending[i] = c

Outcome == [c \in Callers |->
                CASE Waiting(c) /\ results[c] = <<>> -> "waiting"
                  [] ~Waiting(c) /\ results[c] = <<>> -> "none"
                  [] ~Waiting(c) /\ Len(results[c]) = 1 -> results[c][1]
                  [] OTHER -> "many"]

Promise == INSTANCE Calls WITH result <- Outcome, open <- ~closed

\* The connection keeps the promise of module Calls, whatever the threads, the server
\* and the pipes do: no callback is called twice, or with the response to a message of
\* another thread, none is dropped from pending uncalled, and none waits on once the
\* connection is closed.
ImplementsCalls == Promise!Spec

\* Everything the server has said and the client has not parsed, oldest first.
Incoming == read_buf \o stdout \o write_buf \o outgoing

\* A call that waits is never forgotten by everybody: while the server lives and the
\* pipes are open, its request is about to be written, in stdin or with a worker, or
\* its response is somewhere on the way back, and in one of those places only.  (A GET
\* on a db is answered by a worker's empty payload: by no bytes.)
OnItsWay(i) ==
    Cardinality({j \in DOMAIN stdin : stdin[j].id = i})
    + Cardinality({m \in working : m.id = i})
    + Cardinality({j \in DOMAIN Incoming : Incoming[j].id = i /\ Incoming[j].part # "len"})

NoneForgotten ==
    srv # "ended" =>
        \A i \in DOMAIN pending :
            Kind[pending[i]] # "get" => OnItsWay(i) = IF pc[pending[i]] = "write" THEN 0 ELSE 1

\* Whatever is interleaved with it, and however its bytes are cut up by the pipe, the
\* client understands what the server sends it: on an open connection no response is
\* refused for its length or its message id.
ResponsesUnderstood ==
    [][\A c \in Callers : pc[c] = "parse" /\ pc'[c] = "failing" => closed]_vars

\* A sendwait returns or raises: no thread is left behind in check with the lock, or
\* waiting for the lock, or for a response that another thread has read.
CallsReturn == \A c \in Callers : pc[c] # "idle" ~> pc[c] \in Finished
=============================================================================
