----------------------------- MODULE WorkerPool -----------------------------
(***************************************************************************)
(* The worker pool of xaprun (src/server/workerpool.cc, worker.cc) and the *)
(* worker loops it runs (src/xappy/{search,indexer}worker.cc).             *)
(*                                                                         *)
(* Threads.  The main thread hands requests to the pool (send_to_worker)   *)
(* until the main loop returns, then stops, joins and destroys the pool.   *)
(* Each worker thread loops over wait_for_message / send_response.         *)
(*                                                                         *)
(* Locks.  message_mutex of a WorkerThread is taken properly, so each of   *)
(* its critical sections is one step.  workerlist_mutex is NOT: the        *)
(* ContextLocker constructor never locks (module Locker), so the pool's    *)
(* methods interleave access by access.  Two threads that are about to     *)
(* make conflicting accesses to one container race; the outcome is either  *)
(* order of the two, or the undefined state (action DataRace).             *)
(***************************************************************************)
EXTENDS Naturals, Sequences, FiniteSets

CONSTANTS Requests,    \* the messages the dispatcher sends, each once
          Workers,     \* addresses of WorkerThread objects
          Groups,      \* worker groups
          GroupOf,     \* the group route_message sends each request to
          NoRequest, NoWorker, NoGroup

ASSUME ConstantsAssumption ==
    /\ GroupOf \in [Requests -> Groups]
    /\ NoRequest \notin Requests
    /\ NoWorker \notin Workers
    /\ NoGroup \notin Groups

VARIABLES
    \* Main thread.
    stage,             \* which call of ServerInternal::run() / main() it is in
    mpc,               \* where in that call
    mreq, mwk, mval,   \* msg; workerthread/worker; ++messages in a register
    sent,              \* requests given to send_to_worker so far
    \* WorkerPool.
    workers, workers_by_group, exiting_workers, exited_workers,
    group, messages, ready_to_exit,            \* WorkerDetails of each worker
    \* WorkerThread objects and the threads that run them.
    heap,              \* "free", "live" or "deleted"
    joined, had_message, stop_requested, queue,
    wpc, wmsg, wval,   \* where the thread is; its message; --messages in a register
    \* Outside.
    answered,          \* requests whose response was queued
    status             \* of the process

mainVars == <<stage, mpc, mreq, mwk, mval, sent>>
listVars == <<workers, workers_by_group, exiting_workers, exited_workers>>
detailVars == <<group, messages, ready_to_exit>>
objVars == <<heap, joined>>
threadVars == <<had_message, stop_requested, queue, wpc, wmsg, wval>>
vars == <<mainVars, listVars, detailVars, objVars, threadVars, answered, status>>

Stages == {"serving", "stopping", "joining", "destroying"}

MainPcs == {"idle", "create", "start", "count", "store", "clear", "send",
            "stop_test", "stop_signal", "rm_find", "rm_group", "rm_erase", "mark",
            "join_test", "join_wait", "join_erase",
            "reap_test", "reap_wait", "reap_pop", "done"}

WorkerPcs == {"none", "failed", "entry", "h_find", "h_store", "h_flag",
              "check", "wait", "busy",
              "x_find", "x_group", "x_erase", "x_exiting", "x_exited",
              "x_return", "ended"}

Init ==
    /\ stage = "serving" /\ mpc = "idle"
    /\ mreq = NoRequest /\ mwk = NoWorker /\ mval = 0 /\ sent = {}
    /\ workers = {} /\ workers_by_group = [g \in Groups |-> {}]
    /\ exiting_workers = {} /\ exited_workers = <<>>
    /\ group = [w \in Workers |-> NoGroup]
    /\ messages = [w \in Workers |-> 0]
    /\ ready_to_exit = [w \in Workers |-> TRUE]
    /\ heap = [w \in Workers |-> "free"]
    /\ joined = [w \in Workers |-> FALSE]
    /\ had_message = [w \in Workers |-> FALSE]
    /\ stop_requested = [w \in Workers |-> FALSE]
    /\ queue = [w \in Workers |-> <<>>]
    /\ wpc = [w \in Workers |-> "none"]
    /\ wmsg = [w \in Workers |-> NoRequest]
    /\ wval = [w \in Workers |-> 0]
    /\ answered = {}
    /\ status = "running"

\* The process dies: a failed assert, or undefined behaviour.
Die(how) ==
    /\ status' = how
    /\ UNCHANGED <<mainVars, listVars, detailVars, objVars, threadVars, answered>>

-----------------------------------------------------------------------------
(***************************************************************************)
(* Main thread: WorkerPool::send_to_worker.                                *)
(***************************************************************************)

\* Slip: the test of messages == 0 is left out.
IdleIgnoringCount(g) == workers_by_group[g]

\* The workers of a group that have no message outstanding.
Idle(g) == {w \in workers_by_group[g] : messages[w] = 0}

\* Look for a worker with nothing outstanding, in the group of the request.
\* Counts of workers only fall while main searches, so the search is one step.
SendToWorker(r) ==
    /\ mpc = "idle" /\ stage = "serving"
    /\ r \in Requests \ sent
    /\ sent' = sent \cup {r}
    /\ mreq' = r
    /\ \/ \E w \in Idle(GroupOf[r]) : mwk' = w /\ mpc' = "count"
       \/ Idle(GroupOf[r]) = {} /\ mwk' = NoWorker /\ mpc' = "create"
    /\ UNCHANGED <<stage, mval, listVars, detailVars, objVars, threadVars, answered, status>>

\* Slip: the new worker is not entered in workers_by_group.
CreateUnindexed(w) ==
    /\ mpc = "create"
    /\ heap[w] = "free"
    /\ heap' = [heap EXCEPT ![w] = "live"]
    /\ mwk' = w
    /\ workers' = workers \cup {w}
    /\ group' = [group EXCEPT ![w] = GroupOf[mreq]]
    /\ mpc' = "start"
    /\ UNCHANGED <<stage, mreq, mval, sent, workers_by_group, exiting_workers, exited_workers,
                   messages, ready_to_exit, joined, threadVars, answered, status>>

\* get_worker, new WorkerThread, set_thread, add_worker.
CreateWorker(w) ==
    /\ mpc = "create"
    /\ heap[w] = "free"
    /\ heap' = [heap EXCEPT ![w] = "live"]
    /\ mwk' = w
    /\ workers' = workers \cup {w}
    /\ workers_by_group' = [workers_by_group EXCEPT ![GroupOf[mreq]] = @ \cup {w}]
    /\ group' = [group EXCEPT ![w] = GroupOf[mreq]]
    /\ mpc' = "start"
    /\ UNCHANGED <<stage, mreq, mval, sent, exiting_workers, exited_workers, messages,
                   ready_to_exit, joined, threadVars, answered, status>>

\* WorkerThread::start.  pthread_create reports failure with a positive number,
\* never -1, and send_to_worker ignores the result: a failure goes unnoticed.
StartWorker ==
    /\ mpc = "start"
    /\ \E p \in {"entry", "failed"} : wpc' = [wpc EXCEPT ![mwk] = p]
    /\ mpc' = "count"
    /\ UNCHANGED <<stage, mreq, mwk, mval, sent, listVars, detailVars, objVars, had_message,
                   stop_requested, queue, wmsg, wval, answered, status>>

\* ++(k->second.messages): the load ...
CountLoad ==
    /\ mpc = "count"
    /\ mval' = messages[mwk]
    /\ mpc' = "store"
    /\ UNCHANGED <<stage, mreq, mwk, sent, listVars, detailVars, objVars, threadVars,
                   answered, status>>

\* Slip: the count is not raised.
CountStoreSame ==
    /\ mpc = "store"
    /\ messages' = [messages EXCEPT ![mwk] = mval]
    /\ mval' = 0
    /\ mpc' = "clear"
    /\ UNCHANGED <<stage, mreq, mwk, sent, listVars, group, ready_to_exit, objVars,
                   threadVars, answered, status>>

\* ... and the store.
CountStore ==
    /\ mpc = "store"
    /\ messages' = [messages EXCEPT ![mwk] = mval + 1]
    /\ mval' = 0
    /\ mpc' = "clear"
    /\ UNCHANGED <<stage, mreq, mwk, sent, listVars, group, ready_to_exit, objVars,
                   threadVars, answered, status>>

ClearReady ==
    /\ mpc = "clear"
    /\ ready_to_exit' = [ready_to_exit EXCEPT ![mwk] = FALSE]
    /\ mpc' = "send"
    /\ UNCHANGED <<stage, mreq, mwk, mval, sent, listVars, group, messages, objVars,
                   threadVars, answered, status>>

\* Slip: the condition is not signalled.
NotSignalled(w) == wpc

\* pthread_cond_signal(&message_cond): wakes the thread if it sleeps.
Signalled(w) == [wpc EXCEPT ![w] = IF @ = "wait" THEN "check" ELSE @]

\* WorkerThread::send_message, all under message_mutex.
SendMessage ==
    /\ mpc = "send"
    /\ queue' = [queue EXCEPT ![mwk] = Append(@, mreq)]
    /\ wpc' = Signalled(mwk)
    /\ mpc' = "idle" /\ mreq' = NoRequest /\ mwk' = NoWorker
    /\ UNCHANGED <<stage, mval, sent, listVars, detailVars, objVars, had_message,
                   stop_requested, wmsg, wval, answered, status>>

-----------------------------------------------------------------------------
(***************************************************************************)
(* Main thread: WorkerPool::stop and remove_current_worker.                *)
(***************************************************************************)

\* The main loop has returned; run() calls workers.stop().
BeginStop ==
    /\ mpc = "idle" /\ stage = "serving"
    /\ stage' = "stopping" /\ mpc' = "stop_test"
    /\ UNCHANGED <<mreq, mwk, mval, sent, listVars, detailVars, objVars, threadVars,
                   answered, status>>

\* while (!workers.empty()) { worker = workers.begin()->first; ... }
StopTest ==
    /\ mpc = "stop_test"
    /\ \/ \E w \in workers : mwk' = w /\ mpc' = "stop_signal" /\ UNCHANGED stage
       \/ workers = {} /\ mwk' = NoWorker /\ mpc' = "join_test" /\ stage' = "joining"
    /\ UNCHANGED <<mreq, mval, sent, listVars, detailVars, objVars, threadVars, answered, status>>

\* Slip: the flag is set and the thread left asleep.
StopQuietly ==
    /\ mpc = "stop_signal"
    /\ stop_requested' = [stop_requested EXCEPT ![mwk] = TRUE]
    /\ mpc' = "rm_find"
    /\ UNCHANGED <<stage, mreq, mwk, mval, sent, listVars, detailVars, objVars, had_message,
                   queue, wpc, wmsg, wval, answered, status>>

\* WorkerThread::stop, under message_mutex.
StopSignal ==
    /\ mpc = "stop_signal"
    /\ stop_requested' = [stop_requested EXCEPT ![mwk] = TRUE]
    /\ wpc' = IF stop_requested[mwk] THEN wpc ELSE Signalled(mwk)
    /\ mpc' = "rm_find"
    /\ UNCHANGED <<stage, mreq, mwk, mval, sent, listVars, detailVars, objVars, had_message,
                   queue, wmsg, wval, answered, status>>

\* remove_current_worker: workers.find(worker).
RemoveFind ==
    /\ mpc = "rm_find"
    /\ mpc' = IF mwk \in workers THEN "rm_group" ELSE "mark"
    /\ UNCHANGED <<stage, mreq, mwk, mval, sent, listVars, detailVars, objVars, threadVars,
                   answered, status>>

\* Its entry of workers_by_group, through an iterator into workers that is valid.
RemoveGroup ==
    /\ mpc = "rm_group" /\ mwk \in workers
    /\ mpc' = IF mwk \in workers_by_group[group[mwk]] THEN "rm_erase" ELSE "mark"
    /\ workers_by_group' = [workers_by_group EXCEPT ![group[mwk]] = @ \ {mwk}]
    /\ UNCHANGED <<stage, mreq, mwk, mval, sent, workers, exiting_workers, exited_workers,
                   detailVars, objVars, threadVars, answered, status>>

\* workers.erase(i).
RemoveErase ==
    /\ mpc = "rm_erase" /\ mwk \in workers
    /\ workers' = workers \ {mwk}
    /\ mpc' = "mark"
    /\ UNCHANGED <<stage, mreq, mwk, mval, sent, workers_by_group, exiting_workers,
                   exited_workers, detailVars, objVars, threadVars, answered, status>>

\* exiting_workers.insert(worker).
MarkExiting ==
    /\ mpc = "mark"
    /\ exiting_workers' = exiting_workers \cup {mwk}
    /\ mpc' = "stop_test" /\ mwk' = NoWorker
    /\ UNCHANGED <<stage, mreq, mval, sent, workers, workers_by_group, exited_workers,
                   detailVars, objVars, threadVars, answered, status>>

-----------------------------------------------------------------------------
(***************************************************************************)
(* Main thread: WorkerPool::join, then ~WorkerPool.                        *)
(***************************************************************************)

\* while (!exiting_workers.empty()) { worker = *exiting_workers.begin(); ... }
JoinTest ==
    /\ mpc = "join_test"
    /\ \/ \E w \in exiting_workers : mwk' = w /\ mpc' = "join_wait"
       \/ exiting_workers = {} /\ mwk' = NoWorker /\ mpc' = "reap_test"
    /\ UNCHANGED <<stage, mreq, mval, sent, listVars, detailVars, objVars, threadVars,
                   answered, status>>

\* Slip: the thread is not waited for.
JoinAtOnce(w) == joined' = [joined EXCEPT ![w] = TRUE]

\* WorkerThread::join returns.  Joining the handle of a thread that was never
\* created is undefined: it may report an error, or not.
JoinReturns(w) ==
    /\ wpc[w] \in {"ended", "failed"} \/ joined[w]
    /\ joined' = [joined EXCEPT ![w] = TRUE]

JoinWait ==
    /\ mpc = "join_wait"
    /\ JoinReturns(mwk)
    /\ mpc' = "join_erase"
    /\ UNCHANGED <<stage, mreq, mwk, mval, sent, listVars, detailVars, heap, threadVars,
                   answered, status>>

\* Slip: an if in place of the while, so that only one exiting worker is joined.
JoinEraseOnce ==
    /\ mpc = "join_erase"
    /\ exiting_workers' = exiting_workers \ {mwk}
    /\ heap' = IF mwk \in exiting_workers THEN [heap EXCEPT ![mwk] = "deleted"] ELSE heap
    /\ mpc' = "reap_test" /\ mwk' = NoWorker
    /\ UNCHANGED <<stage, mreq, mval, sent, workers, workers_by_group, exited_workers,
                   detailVars, joined, threadVars, answered, status>>

\* if (exiting_workers.erase(worker)) delete worker;
JoinErase ==
    /\ mpc = "join_erase"
    /\ exiting_workers' = exiting_workers \ {mwk}
    /\ heap' = IF mwk \in exiting_workers THEN [heap EXCEPT ![mwk] = "deleted"] ELSE heap
    /\ mpc' = "join_test" /\ mwk' = NoWorker
    /\ UNCHANGED <<stage, mreq, mval, sent, workers, workers_by_group, exited_workers,
                   detailVars, joined, threadVars, answered, status>>

\* while (!exited_workers.empty()): the loop that ends join(), and the one that
\* ends ~WorkerPool.  The destructor's loops over workers and exiting_workers find
\* both empty (NothingLeftForDestructor).  Then main() returns and the process ends.
ReapTest ==
    /\ mpc = "reap_test"
    /\ \/ /\ exited_workers # <<>>
          /\ mwk' = Head(exited_workers) /\ mpc' = "reap_wait" /\ UNCHANGED <<stage, status>>
       \/ /\ exited_workers = <<>> /\ stage = "joining"
          /\ mwk' = NoWorker /\ stage' = "destroying" /\ UNCHANGED <<mpc, status>>
       \/ /\ exited_workers = <<>> /\ stage = "destroying"
          /\ mwk' = NoWorker /\ mpc' = "done" /\ status' = "exited" /\ UNCHANGED stage
    /\ UNCHANGED <<mreq, mval, sent, listVars, detailVars, objVars, threadVars, answered>>

\* exited_workers.front()->join().
ReapWait ==
    /\ mpc = "reap_wait" /\ heap[mwk] = "live"
    /\ JoinReturns(mwk)
    /\ mpc' = "reap_pop"
    /\ UNCHANGED <<stage, mreq, mwk, mval, sent, listVars, detailVars, heap, threadVars,
                   answered, status>>

\* delete exited_workers.front(); exited_workers.pop();
ReapPop ==
    /\ mpc = "reap_pop"
    /\ heap' = [heap EXCEPT ![mwk] = "deleted"]
    /\ exited_workers' = Tail(exited_workers)
    /\ mpc' = "reap_test" /\ mwk' = NoWorker
    /\ UNCHANGED <<stage, mreq, mval, sent, workers, workers_by_group, exiting_workers,
                   detailVars, joined, threadVars, answered, status>>

\* Undefined behaviour of the main thread: an iterator into workers whose node a
\* worker has erased; the join of a thread that was never created; the use of a
\* WorkerThread that join() has deleted already.
MainFault ==
    /\ \/ mpc \in {"rm_group", "rm_erase"} /\ mwk \notin workers
       \/ mpc = "join_wait" /\ wpc[mwk] = "failed"
       \/ mpc = "reap_wait" /\ heap[mwk] = "deleted"
    /\ Die("undefined")

-----------------------------------------------------------------------------
(***************************************************************************)
(* Worker threads: run(), wait_for_message, send_response.                 *)
(***************************************************************************)

\* Entry of wait_for_message: all calls but the first report a handled message.
WaitForMessage(w) ==
    /\ wpc[w] = "entry"
    /\ wpc' = [wpc EXCEPT ![w] = IF had_message[w] THEN "h_find" ELSE "check"]
    /\ had_message' = [had_message EXCEPT ![w] = TRUE]
    /\ UNCHANGED <<mainVars, listVars, detailVars, objVars, stop_requested, queue, wmsg, wval,
                   answered, status>>

\* worker_message_handled: workers.find, the two asserts, the load of --messages.
MessageHandledFind(w) ==
    /\ wpc[w] = "h_find" /\ w \in workers /\ messages[w] > 0
    /\ wval' = [wval EXCEPT ![w] = messages[w]]
    /\ wpc' = [wpc EXCEPT ![w] = "h_store"]
    /\ UNCHANGED <<mainVars, listVars, detailVars, objVars, had_message, stop_requested,
                   queue, wmsg, answered, status>>

AssertFails(w) ==
    /\ wpc[w] = "h_find" /\ ~(w \in workers /\ messages[w] > 0)
    /\ Die("aborted")

\* Slip: a message is counted down twice.
MessageHandledTwice(w) ==
    /\ wpc[w] = "h_store" /\ w \in workers
    /\ messages' = [messages EXCEPT ![w] = wval[w] - 2]
    /\ wpc' = [wpc EXCEPT ![w] = "h_flag"]
    /\ UNCHANGED <<mainVars, listVars, group, ready_to_exit, objVars, had_message,
                   stop_requested, queue, wmsg, wval, answered, status>>

\* The store of --(i->second.messages).
MessageHandledStore(w) ==
    /\ wpc[w] = "h_store" /\ w \in workers
    /\ messages' = [messages EXCEPT ![w] = wval[w] - 1]
    /\ wpc' = [wpc EXCEPT ![w] = "h_flag"]
    /\ UNCHANGED <<mainVars, listVars, group, ready_to_exit, objVars, had_message,
                   stop_requested, queue, wmsg, wval, answered, status>>

\* if (ready_to_exit && messages == 0) ready_to_exit = true.  Both workers pass
\* TRUE.  The count tested is the one just stored or, if reloaded, the current one.
MessageHandledFlag(w) ==
    /\ wpc[w] = "h_flag" /\ w \in workers
    /\ \E n \in {wval[w] - 1, messages[w]} :
          ready_to_exit' = [ready_to_exit EXCEPT ![w] = @ \/ n = 0]
    /\ wval' = [wval EXCEPT ![w] = 0]
    /\ wpc' = [wpc EXCEPT ![w] = "check"]
    /\ UNCHANGED <<mainVars, listVars, group, messages, objVars, had_message,
                   stop_requested, queue, wmsg, answered, status>>

\* Slip: a wake-up that brings no message is taken for a stop request.
ObserveNothing(w) ==
    /\ wpc[w] = "check" /\ (stop_requested[w] \/ queue[w] = <<>>)
    /\ wpc' = [wpc EXCEPT ![w] = "x_find"]
    /\ UNCHANGED <<mainVars, listVars, detailVars, objVars, had_message, stop_requested, queue,
                   wmsg, wval, answered, status>>

\* Rest of wait_for_message, under message_mutex: a stop request wins over messages.
ObserveStop(w) ==
    /\ wpc[w] = "check" /\ stop_requested[w]
    /\ wpc' = [wpc EXCEPT ![w] = "x_find"]
    /\ UNCHANGED <<mainVars, listVars, detailVars, objVars, had_message, stop_requested, queue,
                   wmsg, wval, answered, status>>

Sleep(w) ==
    /\ wpc[w] = "check" /\ ~stop_requested[w] /\ queue[w] = <<>>
    /\ wpc' = [wpc EXCEPT ![w] = "wait"]
    /\ UNCHANGED <<mainVars, listVars, detailVars, objVars, had_message, stop_requested, queue,
                   wmsg, wval, answered, status>>

\* pthread_cond_wait may return without a signal.
SpuriousWake(w) ==
    /\ wpc[w] = "wait"
    /\ wpc' = [wpc EXCEPT ![w] = "check"]
    /\ UNCHANGED <<mainVars, listVars, detailVars, objVars, had_message, stop_requested, queue,
                   wmsg, wval, answered, status>>

\* Slip: the message stays in the queue.
TakeWithoutPop(w) ==
    /\ wpc[w] = "check" /\ ~stop_requested[w] /\ queue[w] # <<>>
    /\ wmsg' = [wmsg EXCEPT ![w] = Head(queue[w])]
    /\ wpc' = [wpc EXCEPT ![w] = "busy"]
    /\ UNCHANGED <<mainVars, listVars, detailVars, objVars, had_message, stop_requested, queue,
                   wval, answered, status>>

\* Otherwise the oldest message is taken.
TakeMessage(w) ==
    /\ wpc[w] = "check" /\ ~stop_requested[w] /\ queue[w] # <<>>
    /\ wmsg' = [wmsg EXCEPT ![w] = Head(queue[w])]
    /\ queue' = [queue EXCEPT ![w] = Tail(@)]
    /\ wpc' = [wpc EXCEPT ![w] = "busy"]
    /\ UNCHANGED <<mainVars, listVars, detailVars, objVars, had_message, stop_requested, wval,
                   answered, status>>

\* run(): send_response(msg.connection_num, msg.payload), and round the loop.
\* Connection numbers are never negative, so the loop is left only by a stop.
SendResponse(w) ==
    /\ wpc[w] = "busy"
    /\ answered' = answered \cup {wmsg[w]}
    /\ wmsg' = [wmsg EXCEPT ![w] = NoRequest]
    /\ wpc' = [wpc EXCEPT ![w] = "entry"]
    /\ UNCHANGED <<mainVars, listVars, detailVars, objVars, had_message, stop_requested, queue,
                   wval, status>>

-----------------------------------------------------------------------------
(***************************************************************************)
(* Worker threads: worker_exited, called by do_run once run() has thrown.  *)
(***************************************************************************)

\* remove_current_worker: workers.find(worker).
ExitedFind(w) ==
    /\ wpc[w] = "x_find"
    /\ wpc' = [wpc EXCEPT ![w] = IF w \in workers THEN "x_group" ELSE "x_exiting"]
    /\ UNCHANGED <<mainVars, listVars, detailVars, objVars, had_message, stop_requested, queue,
                   wmsg, wval, answered, status>>

ExitedGroup(w) ==
    /\ wpc[w] = "x_group" /\ w \in workers
    /\ wpc' = [wpc EXCEPT ![w] = IF w \in workers_by_group[group[w]] THEN "x_erase"
                                                                    ELSE "x_exiting"]
    /\ workers_by_group' = [workers_by_group EXCEPT ![group[w]] = @ \ {w}]
    /\ UNCHANGED <<mainVars, workers, exiting_workers, exited_workers, detailVars, objVars,
                   had_message, stop_requested, queue, wmsg, wval, answered, status>>

ExitedErase(w) ==
    /\ wpc[w] = "x_erase" /\ w \in workers
    /\ workers' = workers \ {w}
    /\ wpc' = [wpc EXCEPT ![w] = "x_exited"]
    /\ UNCHANGED <<mainVars, workers_by_group, exiting_workers, exited_workers, detailVars,
                   objVars, had_message, stop_requested, queue, wmsg, wval, answered, status>>

\* The iterator into workers dangles: main has erased the node.
WorkerFault(w) ==
    /\ wpc[w] \in {"h_store", "h_flag", "x_group", "x_erase"} /\ w \notin workers
    /\ Die("undefined")

\* Not a current worker: exiting_workers.erase(worker).
ExitedUnmark(w) ==
    /\ wpc[w] = "x_exiting"
    /\ exiting_workers' = exiting_workers \ {w}
    /\ wpc' = [wpc EXCEPT ![w] = "x_exited"]
    /\ UNCHANGED <<mainVars, workers, workers_by_group, exited_workers, detailVars, objVars,
                   had_message, stop_requested, queue, wmsg, wval, answered, status>>

\* exited_workers.push(worker).
ExitedPush(w) ==
    /\ wpc[w] = "x_exited"
    /\ exited_workers' = Append(exited_workers, w)
    /\ wpc' = [wpc EXCEPT ![w] = "x_return"]
    /\ UNCHANGED <<mainVars, workers, workers_by_group, exiting_workers, detailVars, objVars,
                   had_message, stop_requested, queue, wmsg, wval, answered, status>>

\* The ContextLocker is destroyed and the thread function returns.
ThreadReturns(w) ==
    /\ wpc[w] = "x_return"
    /\ wpc' = [wpc EXCEPT ![w] = "ended"]
    /\ UNCHANGED <<mainVars, listVars, detailVars, objVars, had_message, stop_requested, queue,
                   wmsg, wval, answered, status>>

-----------------------------------------------------------------------------
(***************************************************************************)
(* Data races on the pool's containers.                                    *)
(***************************************************************************)

\* The containers the next access of a thread at pc p writes, and those it reads.
Writes(p) ==
    CASE p = "create" -> {"workers", "workers_by_group"}
      [] p \in {"rm_group", "x_group"} -> {"workers_by_group"}
      [] p \in {"rm_erase", "x_erase"} -> {"workers"}
      [] p \in {"mark", "join_erase", "x_exiting"} -> {"exiting_workers"}
      [] p \in {"reap_pop", "x_exited"} -> {"exited_workers"}
      [] OTHER -> {}

Reads(p) ==
    CASE p \in {"stop_test", "rm_find", "rm_group", "h_find", "x_find", "x_group"} -> {"workers"}
      [] p = "join_test" -> {"exiting_workers"}
      [] p = "reap_test" -> {"exited_workers"}
      [] OTHER -> {}

Conflict(p, q) == \/ Writes(p) \cap (Writes(q) \cup Reads(q)) # {}
                  \/ Writes(q) \cap Reads(p) # {}

Racing == \/ \E w \in Workers : Conflict(mpc, wpc[w])
          \/ \E v, w \in Workers : v # w /\ Conflict(wpc[v], wpc[w])

DataRace == Racing /\ Die("undefined")

-----------------------------------------------------------------------------
\* Steps the main thread takes by itself, once it is inside a call.
MainStep ==
    \/ \E w \in Workers : CreateWorker(w)
    \/ StartWorker \/ CountLoad \/ CountStore \/ ClearReady \/ SendMessage
    \/ StopTest \/ StopSignal \/ RemoveFind \/ RemoveGroup \/ RemoveErase \/ MarkExiting
    \/ JoinTest \/ JoinWait \/ JoinErase \/ ReapTest \/ ReapWait \/ ReapPop
    \/ MainFault

WorkerStep(w) ==
    \/ WaitForMessage(w)
    \/ MessageHandledFind(w) \/ MessageHandledStore(w) \/ MessageHandledFlag(w)
    \/ ObserveStop(w) \/ Sleep(w) \/ TakeMessage(w) \/ SendResponse(w)
    \/ ExitedFind(w) \/ ExitedGroup(w) \/ ExitedErase(w) \/ ExitedUnmark(w) \/ ExitedPush(w)
    \/ ThreadReturns(w) \/ AssertFails(w) \/ WorkerFault(w)

\* The process has ended, one way or another.
Terminated == status # "running" /\ UNCHANGED vars

Next ==
    \/ /\ status = "running"
       /\ \/ \E r \in Requests : SendToWorker(r)
          \/ BeginStop
          \/ MainStep
          \/ \E w \in Workers : WorkerStep(w) \/ SpuriousWake(w)
          \/ DataRace
    \/ Terminated

Spec == Init /\ [][Next]_vars

\* The operating system runs every thread that can run.  Requests, the end of the
\* main loop, spurious wakeups and races are not owed to anybody.
Fairness == /\ WF_vars(status = "running" /\ MainStep)
            /\ \A w \in Workers : WF_vars(status = "running" /\ WorkerStep(w))

FairSpec == Spec /\ Fairness

-----------------------------------------------------------------------------
(***************************************************************************)
(* Properties.                                                             *)
(***************************************************************************)

\* Every variable keeps its type.
TypeOK ==
    /\ stage \in Stages /\ mpc \in MainPcs
    /\ mreq \in Requests \cup {NoRequest} /\ mwk \in Workers \cup {NoWorker}
    /\ mval \in Nat /\ sent \subseteq Requests
    /\ workers \subseteq Workers /\ workers_by_group \in [Groups -> SUBSET Workers]
    /\ exiting_workers \subseteq Workers /\ exited_workers \in Seq(Workers)
    /\ group \in [Workers -> Groups \cup {NoGroup}]
    /\ messages \in [Workers -> Nat] /\ ready_to_exit \in [Workers -> BOOLEAN]
    /\ heap \in [Workers -> {"free", "live", "deleted"}]
    /\ joined \in [Workers -> BOOLEAN] /\ had_message \in [Workers -> BOOLEAN]
    /\ stop_requested \in [Workers -> BOOLEAN] /\ queue \in [Workers -> Seq(Requests)]
    /\ wpc \in [Workers -> WorkerPcs]
    /\ wmsg \in [Workers -> Requests \cup {NoRequest}] /\ wval \in [Workers -> Nat]
    /\ answered \subseteq Requests
    /\ status \in {"running", "aborted", "undefined", "exited"}

\* Messages taken from the queue and not yet counted down.
Unreported(w) ==
    IF \/ wpc[w] \in {"busy", "h_find", "h_store"}
       \/ wpc[w] = "entry" /\ had_message[w]
    THEN 1 ELSE 0

\* Messages counted by main and not yet in the queue.
InHand(w) == IF mwk = w /\ mpc \in {"clear", "send"} THEN 1 ELSE 0

Outstanding(w) == Len(queue[w]) + Unreported(w) + InHand(w)

\* WorkerDetails::messages is "the number of outstanding messages that the worker
\* has been sent" (workerpool.h:50): ++ in send_to_worker and -- in
\* worker_message_handled lose no update although no lock protects them.
CountMatchesOutstanding ==
    \A w \in workers : messages[w] = Outstanding(w)

\* send_to_worker only picks a worker with nothing outstanding, so no request ever
\* queues behind another one, or behind one that is still running.
NeverQueuedBehind ==
    \A w \in Workers : Len(queue[w]) + Unreported(w) <= 1

\* A thread never sleeps in pthread_cond_wait with a message or a stop request
\* waiting for it: no signal is lost between the test and the wait.
NoLostWakeup ==
    \A w \in Workers : wpc[w] = "wait" => queue[w] = <<>> /\ ~stop_requested[w]

\* "The set of workers in this structure is identical to the set in `workers`"
\* (workerpool.h:87), whenever main is about to search or to start stopping them;
\* the assert of send_to_worker (workerpool.cc:111) relies on it.
GroupIndexMatches ==
    mpc = "idle" => \A w \in Workers, g \in Groups :
                        w \in workers_by_group[g] <=> w \in workers /\ group[w] = g

\* While requests are served the iterators into `workers` that send_to_worker and
\* worker_message_handled keep from find to their last use (workerpool.cc:110-132, 179-184)
\* stay valid: no thread erases a node that another one, or itself, still goes through.
IteratorsValid ==
    stage = "serving" =>
        /\ mpc \in {"count", "store", "clear", "send"} => mwk \in workers
        /\ \A w \in Workers : wpc[w] \in {"h_store", "h_flag"} => w \in workers

\* No WorkerThread is deleted while its thread still runs: every delete follows a
\* join of a thread that has left worker_exited.
DeletedOnlyWhenEnded ==
    \A w \in Workers : heap[w] = "deleted" => wpc[w] \in {"ended", "failed"}

\* When join() has returned, ~WorkerPool finds neither current nor exiting workers.
NothingLeftForDestructor ==
    stage = "destroying" => workers = {} /\ exiting_workers = {}

\* The pool, access races included, does what Delivery promises.
Promise == INSTANCE Delivery WITH
    accepted <- sent,
    running <- [w \in Workers |-> IF wpc[w] = "busy" THEN wmsg[w] ELSE NoRequest],
    serves <- group

ImplementsDelivery == Promise!Spec

\* A request sent to a worker whose thread exists is answered, unless the server
\* starts to shut down or the process dies.
RequestsAnswered ==
    \A r \in Requests :
        r \in sent ~> \/ r \in answered
                      \/ stage # "serving"
                      \/ status # "running"
                      \/ \E w \in Workers : wpc[w] = "failed" /\ queue[w] = <<r>>

\* Once the main loop has returned, stop(), join() and the destructor come to an
\* end: no worker sleeps through the stop and main waits for no thread for ever.
ShutdownEnds == stage = "stopping" ~> status # "running"

-----------------------------------------------------------------------------
(***************************************************************************)
(* What the code's comments and asserts say and the code does not do.      *)
(***************************************************************************)

\* "Mutex which must be held when accessing the list of workers" (workerpool.h:76):
\* no two threads touch a container of the pool at once while requests are served.
NoRaceWhileServing == stage = "serving" => ~Racing

\* worker_message_handled asserts that the worker is a current worker with a message
\* outstanding (workerpool.cc:180): the assert never fails.
AssertsHold == status # "aborted"

\* ready_to_exit is "true iff the worker has no significant outstanding work"
\* (workerpool.h:54), at least whenever main is outside send_to_worker.
ReadyToExitAccurate ==
    mpc = "idle" => \A w \in workers : ready_to_exit[w] => queue[w] = <<>> /\ wpc[w] # "busy"

\* A worker that join() deletes from exiting_workers is not in exited_workers too:
\* "If nothing was erased, it'll be in exited_workers now, and we'll delete it later"
\* (workerpool.cc:240).
DeletedOnce ==
    \A i \in DOMAIN exited_workers : heap[exited_workers[i]] # "deleted"

\* "Join all workers" (workerpool.h:157): no thread is left once join() has returned.
JoinWaitsForAll ==
    stage = "destroying" => \A w \in Workers : wpc[w] \in {"none", "failed", "ended"}
=============================================================================
