-------------------------- MODULE WorkerPoolProofs --------------------------
(***************************************************************************)
(* Proofs about WorkerPool, for any number of requests, workers and groups.*)
(*                                                                         *)
(* IInv is the conjunction of seven parts.  Each part has a lemma that     *)
(* shows it preserved by every step, one step of the proof per action;     *)
(* the parts lean on each other (the count needs the life cycle, the life  *)
(* cycle needs to know where main is), so every lemma assumes all of IInv. *)
(***************************************************************************)
EXTENDS WorkerPool, TLAPS

(***************************************************************************)
(* The inductive invariant behind the safety properties.                   *)
(***************************************************************************)
Dispatching == {"create", "start", "count", "store", "clear", "send"}
Leaving == {"x_find", "x_group", "x_erase", "x_exiting", "x_exited", "x_return", "ended"}
Gone == {"ended", "failed"}

\* Where main can be in each stage, and which worker it then has in hand.
MainInv ==
    /\ stage = "serving" <=> mpc \in Dispatching \cup {"idle"}
    /\ stage = "stopping" <=> mpc \in {"stop_test", "stop_signal", "rm_find", "rm_group",
                                       "rm_erase", "mark"}
    /\ stage = "destroying" => mpc \in {"reap_test", "reap_wait", "reap_pop", "done"}
    /\ stage \in {"joining", "destroying"} => workers = {}
    /\ mpc \in {"reap_test", "reap_wait", "reap_pop", "done"} => exiting_workers = {}
    /\ mpc \in Dispatching => mreq \in Requests
    /\ mpc \in Dispatching \ {"create"} => mwk \in workers
    /\ mpc \in {"stop_signal", "rm_find", "rm_group", "rm_erase", "mark", "join_wait",
                "join_erase", "reap_wait", "reap_pop"} => mwk \in Workers
    /\ mpc \in {"reap_wait", "reap_pop"} => exited_workers # <<>>

\* Life of a WorkerThread object and of its thread.
LifeInv ==
    \A w \in Workers :
        /\ w \in workers => heap[w] = "live" /\ group[w] \in Groups
        /\ stage = "serving" /\ heap[w] # "free" => w \in workers
        /\ heap[w] = "free" => wpc[w] = "none"
        /\ wpc[w] = "none" => /\ heap[w] = "free" \/ (mpc = "start" /\ mwk = w)
                              /\ queue[w] = <<>> /\ messages[w] = 0 /\ ~had_message[w]
        /\ mpc = "start" /\ mwk = w => wpc[w] = "none"
        /\ wpc[w] \notin {"none", "failed", "entry"} => had_message[w]
        /\ wpc[w] \in Leaving => stop_requested[w]
        /\ stop_requested[w] => stage # "serving"
        /\ joined[w] => wpc[w] \in Gone
        /\ heap[w] = "deleted" => wpc[w] \in Gone
        /\ mpc \in {"join_erase", "reap_pop"} /\ mwk = w => wpc[w] \in Gone

\* The count of outstanding messages, and the registers of its two updates.
CountInv ==
    /\ CountMatchesOutstanding
    /\ \A w \in Workers : Outstanding(w) <= 1
    /\ \A w \in Workers : wpc[w] \in {"h_store", "h_flag"} => wval[w] = 1
    /\ mpc \in {"start", "count", "store"} => messages[mwk] = 0
    /\ mpc = "store" => mval = 0

\* Worker w has request r: it waits in the queue, or runs.
Holds(w, r) == \/ \E i \in DOMAIN queue[w] : queue[w][i] = r
               \/ wpc[w] = "busy" /\ wmsg[w] = r

\* A request sent and not answered is in one place, with a worker of its group.
HoldInv ==
    /\ answered \subseteq sent
    /\ \A w \in Workers : wpc[w] = "busy" => wmsg[w] \in Requests
    /\ \A w \in Workers, r \in Requests :
          Holds(w, r) => r \in sent \ answered /\ group[w] = GroupOf[r]
    /\ \A v, w \in Workers, r \in Requests : Holds(v, r) /\ Holds(w, r) => v = w
    /\ mpc \in Dispatching => mreq \in sent \ answered /\ \A w \in Workers : ~Holds(w, mreq)
    /\ mpc \in Dispatching \ {"create"} => group[mwk] = GroupOf[mreq]

\* Until main starts to stop the workers, the group index mirrors `workers`.
IndexInv ==
    stage = "serving" => \A w \in Workers, g \in Groups :
                            w \in workers_by_group[g] <=> w \in workers /\ group[w] = g

\* The conjunction is preserved by every step; it implies every safety property above.
IInv == /\ TypeOK /\ MainInv /\ LifeInv /\ CountInv /\ NoLostWakeup /\ HoldInv /\ IndexInv

-----------------------------------------------------------------------------

\* When the process dies nothing but its status changes.
LEMMA DieStep ==
    ASSUME IInv, NEW how \in {"aborted", "undefined"}, Die(how)
    PROVE  IInv'
<1> USE DEF vars, mainVars, listVars, detailVars, objVars, threadVars
<1>1. TypeOK'
    BY DEF Die, IInv, TypeOK
<1>2. MainInv' /\ LifeInv' /\ NoLostWakeup' /\ IndexInv'
    BY DEF Die, IInv, MainInv, LifeInv, NoLostWakeup, IndexInv
<1>3. CountInv'
    BY DEF Die, IInv, CountInv, CountMatchesOutstanding, Outstanding, Unreported, InHand
<1>4. HoldInv'
    BY DEF Die, IInv, HoldInv, Holds
<1> QED
    BY <1>1, <1>2, <1>3, <1>4 DEF IInv

\* A sequence that was appended to is not empty.
LEMMA AppendNotEmpty ==
    ASSUME NEW S, NEW s \in Seq(S), NEW e \in S
    PROVE  Append(s, e) # <<>>
<1>1. Len(Append(s, e)) = Len(s) + 1 /\ Len(s) \in Nat /\ Len(<<>>) = 0
    OBVIOUS
<1> QED
    BY <1>1

\* What appending a request does to the requests found in a queue.
LEMMA InAppend ==
    ASSUME NEW s \in Seq(Requests), NEW e \in Requests, NEW q \in Requests
    PROVE  (\E i \in DOMAIN Append(s, e) : Append(s, e)[i] = q)
              <=> (\E i \in DOMAIN s : s[i] = q) \/ q = e
<1>1. /\ DOMAIN s = 1..Len(s) /\ Len(s) \in Nat
      /\ DOMAIN Append(s, e) = 1..(Len(s) + 1)
      /\ \A i \in 1..Len(s) : Append(s, e)[i] = s[i]
      /\ Append(s, e)[Len(s) + 1] = e
    OBVIOUS
<1>2. 1..(Len(s) + 1) = 1..Len(s) \cup {Len(s) + 1}
    BY <1>1
<1> QED
    BY <1>1, <1>2

\* The terms of Outstanding are numbers.
LEMMA OutstandingParts ==
    ASSUME TypeOK, NEW w \in Workers
    PROVE  /\ Len(queue[w]) \in Nat /\ (Len(queue[w]) = 0 => queue[w] = <<>>)
           /\ Unreported(w) \in {0, 1} /\ InHand(w) \in {0, 1}
           /\ Outstanding(w) \in Nat
<1>1. queue[w] \in Seq(Requests)
    BY DEF TypeOK
<1>2. Len(queue[w]) \in Nat /\ (Len(queue[w]) = 0 => queue[w] = <<>>)
    BY <1>1
<1>3. Unreported(w) \in {0, 1} /\ InHand(w) \in {0, 1}
    BY DEF Unreported, InHand
<1> QED
    BY <1>2, <1>3 DEF Outstanding

\* Every step keeps the types: the decrement of `messages` stays natural because the
\* register holds 1 (CountInv), and what is answered is a request (HoldInv).
LEMMA TypeStep ==
    ASSUME IInv, [Next]_vars
    PROVE  TypeOK'
<1> USE DEF vars, mainVars, listVars, detailVars, objVars, threadVars
<1>1. ASSUME NEW r \in Requests, SendToWorker(r) PROVE TypeOK'
    BY <1>1, ConstantsAssumption DEF SendToWorker, Idle, IInv, TypeOK, MainInv, Stages,
        MainPcs, WorkerPcs, Dispatching
<1>2. ASSUME NEW w \in Workers, CreateWorker(w) PROVE TypeOK'
    BY <1>2, ConstantsAssumption DEF CreateWorker, IInv, TypeOK, MainInv, Stages,
        MainPcs, WorkerPcs, Dispatching
<1>3. CASE BeginStop
    BY <1>3 DEF BeginStop, IInv, TypeOK, MainInv, Stages, MainPcs, WorkerPcs,
        Dispatching
<1>4. CASE StartWorker
    BY <1>4 DEF StartWorker, IInv, TypeOK, MainInv, Stages, MainPcs, WorkerPcs,
        Dispatching
<1>5. CASE CountLoad
    BY <1>5 DEF CountLoad, IInv, TypeOK, MainInv, Stages, MainPcs, WorkerPcs,
        Dispatching
<1>6. CASE CountStore
    BY <1>6, SMTT(30) DEF CountStore, IInv, TypeOK, MainInv, Stages, MainPcs, WorkerPcs,
        Dispatching
<1>7. CASE ClearReady
    BY <1>7 DEF ClearReady, IInv, TypeOK, MainInv, Stages, MainPcs, WorkerPcs,
        Dispatching
<1>8. CASE SendMessage
    BY <1>8 DEF SendMessage, Signalled, IInv, TypeOK, MainInv, Stages, MainPcs,
        WorkerPcs, Dispatching
<1>9. CASE StopTest
    BY <1>9 DEF StopTest, IInv, TypeOK, MainInv, Stages, MainPcs, WorkerPcs, Dispatching
<1>10. CASE StopSignal
    BY <1>10 DEF StopSignal, Signalled, IInv, TypeOK, MainInv, Stages, MainPcs,
        WorkerPcs, Dispatching
<1>11. CASE RemoveFind
    BY <1>11 DEF RemoveFind, IInv, TypeOK, MainInv, Stages, MainPcs, WorkerPcs,
        Dispatching
<1>12. CASE RemoveGroup
    BY <1>12 DEF RemoveGroup, IInv, TypeOK, MainPcs
<1>13. CASE RemoveErase
    BY <1>13 DEF RemoveErase, IInv, TypeOK, MainInv, Stages, MainPcs, WorkerPcs,
        Dispatching
<1>14. CASE MarkExiting
    BY <1>14 DEF MarkExiting, IInv, TypeOK, MainInv, Stages, MainPcs, WorkerPcs,
        Dispatching
<1>15. CASE JoinTest
    BY <1>15 DEF JoinTest, IInv, TypeOK, MainInv, Stages, MainPcs, WorkerPcs,
        Dispatching
<1>16. CASE JoinWait
    BY <1>16 DEF JoinWait, JoinReturns, IInv, TypeOK, MainInv, Stages, MainPcs,
        WorkerPcs, Dispatching
<1>17. CASE JoinErase
    BY <1>17 DEF JoinErase, IInv, TypeOK, MainInv, Stages, MainPcs, WorkerPcs,
        Dispatching
<1>18. CASE ReapTest
    BY <1>18 DEF ReapTest, IInv, TypeOK, MainInv, Stages, MainPcs, WorkerPcs,
        Dispatching
<1>19. CASE ReapWait
    BY <1>19 DEF ReapWait, JoinReturns, IInv, TypeOK, MainInv, Stages, MainPcs,
        WorkerPcs, Dispatching
<1>20. CASE ReapPop
    BY <1>20, SMTT(30) DEF ReapPop, IInv, TypeOK, MainInv, Stages, MainPcs, WorkerPcs,
        Dispatching
<1>21. ASSUME NEW w \in Workers, WaitForMessage(w) PROVE TypeOK'
    BY <1>21 DEF WaitForMessage, IInv, TypeOK, WorkerPcs
<1>22. ASSUME NEW w \in Workers, MessageHandledFind(w) PROVE TypeOK'
    BY <1>22 DEF MessageHandledFind, IInv, TypeOK, WorkerPcs
<1>23. ASSUME NEW w \in Workers, MessageHandledStore(w) PROVE TypeOK'
    BY <1>23 DEF MessageHandledStore, IInv, TypeOK, CountInv, WorkerPcs
<1>24. ASSUME NEW w \in Workers, MessageHandledFlag(w) PROVE TypeOK'
    BY <1>24 DEF MessageHandledFlag, IInv, TypeOK, WorkerPcs
<1>25. ASSUME NEW w \in Workers, ObserveStop(w) PROVE TypeOK'
    BY <1>25 DEF ObserveStop, IInv, TypeOK, WorkerPcs
<1>26. ASSUME NEW w \in Workers, Sleep(w) PROVE TypeOK'
    BY <1>26 DEF Sleep, IInv, TypeOK, WorkerPcs
<1>27. ASSUME NEW w \in Workers, SpuriousWake(w) PROVE TypeOK'
    BY <1>27 DEF SpuriousWake, IInv, TypeOK, WorkerPcs
<1>28. ASSUME NEW w \in Workers, TakeMessage(w) PROVE TypeOK'
    BY <1>28 DEF TakeMessage, IInv, TypeOK, WorkerPcs
<1>29. ASSUME NEW w \in Workers, SendResponse(w) PROVE TypeOK'
    BY <1>29 DEF SendResponse, IInv, TypeOK, HoldInv, WorkerPcs
<1>30. ASSUME NEW w \in Workers, ExitedFind(w) PROVE TypeOK'
    BY <1>30 DEF ExitedFind, IInv, TypeOK, WorkerPcs
<1>31. ASSUME NEW w \in Workers, ExitedGroup(w) PROVE TypeOK'
    BY <1>31 DEF ExitedGroup, IInv, TypeOK, WorkerPcs
<1>32. ASSUME NEW w \in Workers, ExitedErase(w) PROVE TypeOK'
    BY <1>32 DEF ExitedErase, IInv, TypeOK, WorkerPcs
<1>33. ASSUME NEW w \in Workers, ExitedUnmark(w) PROVE TypeOK'
    BY <1>33 DEF ExitedUnmark, IInv, TypeOK, WorkerPcs
<1>34. ASSUME NEW w \in Workers, ExitedPush(w) PROVE TypeOK'
    BY <1>34 DEF ExitedPush, IInv, TypeOK, WorkerPcs
<1>35. ASSUME NEW w \in Workers, ThreadReturns(w) PROVE TypeOK'
    BY <1>35 DEF ThreadReturns, IInv, TypeOK, WorkerPcs
<1>36. CASE MainFault \/ DataRace \/ \E w \in Workers : AssertFails(w) \/ WorkerFault(w)
    BY <1>36, DieStep DEF MainFault, DataRace, AssertFails, WorkerFault, IInv
<1>37. CASE UNCHANGED vars
    BY <1>37 DEF IInv, TypeOK, MainInv, Stages, MainPcs, WorkerPcs, Dispatching
<1>38. QED
    BY <1>1, <1>2, <1>3, <1>4, <1>5, <1>6, <1>7, <1>8, <1>9, <1>10, <1>11, <1>12, <1>13,
        <1>14, <1>15, <1>16, <1>17, <1>18, <1>19, <1>20, <1>21, <1>22, <1>23, <1>24,
        <1>25, <1>26, <1>27, <1>28, <1>29, <1>30, <1>31, <1>32, <1>33, <1>34, <1>35,
        <1>36, <1>37 DEF Next, MainStep, WorkerStep, Terminated

\* Every step keeps main inside the stage it is in, with the worker it works on; a
\* worker in send_to_worker's hands is not erased, since no thread leaves while
\* requests are served.
LEMMA MainInvStep ==
    ASSUME IInv, [Next]_vars
    PROVE  MainInv'
<1> USE DEF vars, mainVars, listVars, detailVars, objVars, threadVars
<1>1. ASSUME NEW r \in Requests, SendToWorker(r) PROVE MainInv'
    BY <1>1, ConstantsAssumption DEF SendToWorker, Idle, IInv, TypeOK, MainInv,
        IndexInv, Dispatching
<1>2. ASSUME NEW w \in Workers, CreateWorker(w) PROVE MainInv'
    BY <1>2 DEF CreateWorker, IInv, TypeOK, MainInv, Dispatching
<1>3. CASE BeginStop
    BY <1>3 DEF BeginStop, IInv, TypeOK, MainInv, Dispatching
<1>4. CASE StartWorker
    BY <1>4 DEF StartWorker, IInv, TypeOK, MainInv, Dispatching
<1>5. CASE CountLoad
    BY <1>5 DEF CountLoad, IInv, TypeOK, MainInv, Dispatching
<1>6. CASE CountStore
    BY <1>6 DEF CountStore, IInv, TypeOK, MainInv, Dispatching
<1>7. CASE ClearReady
    BY <1>7 DEF ClearReady, IInv, TypeOK, MainInv, Dispatching
<1>8. CASE SendMessage
    BY <1>8 DEF SendMessage, Signalled, IInv, TypeOK, MainInv, Dispatching
<1>9. CASE StopTest
    BY <1>9 DEF StopTest, IInv, TypeOK, MainInv, Dispatching
<1>10. CASE StopSignal
    BY <1>10 DEF StopSignal, Signalled, IInv, TypeOK, MainInv, Dispatching
<1>11. CASE RemoveFind
    BY <1>11 DEF RemoveFind, IInv, TypeOK, MainInv, Dispatching
<1>12. CASE RemoveGroup
    BY <1>12 DEF RemoveGroup, IInv, TypeOK, MainInv, Dispatching
<1>13. CASE RemoveErase
    BY <1>13 DEF RemoveErase, IInv, TypeOK, MainInv, Dispatching
<1>14. CASE MarkExiting
    BY <1>14 DEF MarkExiting, IInv, TypeOK, MainInv, Dispatching
<1>15. CASE JoinTest
    BY <1>15 DEF JoinTest, IInv, TypeOK, MainInv, Dispatching
<1>16. CASE JoinWait
    BY <1>16 DEF JoinWait, JoinReturns, IInv, TypeOK, MainInv, Dispatching
<1>17. CASE JoinErase
    BY <1>17 DEF JoinErase, IInv, TypeOK, MainInv, Dispatching
<1>18. CASE ReapTest
    BY <1>18 DEF ReapTest, IInv, TypeOK, MainInv, Dispatching
<1>19. CASE ReapWait
    BY <1>19 DEF ReapWait, JoinReturns, IInv, TypeOK, MainInv, Dispatching
<1>20. CASE ReapPop
    BY <1>20 DEF ReapPop, IInv, TypeOK, MainInv, Dispatching
<1>21. ASSUME NEW w \in Workers, WaitForMessage(w) PROVE MainInv'
    BY <1>21 DEF WaitForMessage, IInv, TypeOK, MainInv, Dispatching
<1>22. ASSUME NEW w \in Workers, MessageHandledFind(w) PROVE MainInv'
    BY <1>22 DEF MessageHandledFind, IInv, TypeOK, MainInv, Dispatching
<1>23. ASSUME NEW w \in Workers, MessageHandledStore(w) PROVE MainInv'
    BY <1>23 DEF MessageHandledStore, IInv, TypeOK, MainInv, Dispatching
<1>24. ASSUME NEW w \in Workers, MessageHandledFlag(w) PROVE MainInv'
    BY <1>24 DEF MessageHandledFlag, IInv, TypeOK, MainInv, Dispatching
<1>25. ASSUME NEW w \in Workers, ObserveStop(w) PROVE MainInv'
    BY <1>25 DEF ObserveStop, IInv, TypeOK, MainInv, Dispatching
<1>26. ASSUME NEW w \in Workers, Sleep(w) PROVE MainInv'
    BY <1>26 DEF Sleep, IInv, TypeOK, MainInv, Dispatching
<1>27. ASSUME NEW w \in Workers, SpuriousWake(w) PROVE MainInv'
    BY <1>27 DEF SpuriousWake, IInv, TypeOK, MainInv, Dispatching
<1>28. ASSUME NEW w \in Workers, TakeMessage(w) PROVE MainInv'
    BY <1>28 DEF TakeMessage, IInv, TypeOK, MainInv, Dispatching
<1>29. ASSUME NEW w \in Workers, SendResponse(w) PROVE MainInv'
    BY <1>29 DEF SendResponse, IInv, TypeOK, MainInv, Dispatching
<1>30. ASSUME NEW w \in Workers, ExitedFind(w) PROVE MainInv'
    BY <1>30 DEF ExitedFind, IInv, TypeOK, MainInv, Dispatching
<1>31. ASSUME NEW w \in Workers, ExitedGroup(w) PROVE MainInv'
    BY <1>31 DEF ExitedGroup, IInv, TypeOK, MainInv, Dispatching
<1>32. ASSUME NEW w \in Workers, ExitedErase(w) PROVE MainInv'
    BY <1>32 DEF ExitedErase, IInv, TypeOK, MainInv, LifeInv, Dispatching, Leaving
<1>33. ASSUME NEW w \in Workers, ExitedUnmark(w) PROVE MainInv'
    BY <1>33 DEF ExitedUnmark, IInv, TypeOK, MainInv, Dispatching
<1>34. ASSUME NEW w \in Workers, ExitedPush(w) PROVE MainInv'
  <2>1. exited_workers' # <<>>
    BY <1>34, AppendNotEmpty DEF ExitedPush, IInv, TypeOK
  <2> QED
    BY <1>34, <2>1 DEF ExitedPush, IInv, MainInv
<1>35. ASSUME NEW w \in Workers, ThreadReturns(w) PROVE MainInv'
    BY <1>35 DEF ThreadReturns, IInv, TypeOK, MainInv, Dispatching
<1>36. CASE MainFault \/ DataRace \/ \E w \in Workers : AssertFails(w) \/ WorkerFault(w)
    BY <1>36, DieStep DEF MainFault, DataRace, AssertFails, WorkerFault, IInv
<1>37. CASE UNCHANGED vars
    BY <1>37 DEF IInv, TypeOK, MainInv, Dispatching
<1>38. QED
    BY <1>1, <1>2, <1>3, <1>4, <1>5, <1>6, <1>7, <1>8, <1>9, <1>10, <1>11, <1>12, <1>13,
        <1>14, <1>15, <1>16, <1>17, <1>18, <1>19, <1>20, <1>21, <1>22, <1>23, <1>24,
        <1>25, <1>26, <1>27, <1>28, <1>29, <1>30, <1>31, <1>32, <1>33, <1>34, <1>35,
        <1>36, <1>37 DEF Next, MainStep, WorkerStep, Terminated

\* Every step keeps the life cycle of WorkerThread objects and threads.
LEMMA LifeStep ==
    ASSUME IInv, [Next]_vars
    PROVE  LifeInv'
<1> USE DEF vars, mainVars, listVars, detailVars, objVars, threadVars
<1>1. ASSUME NEW r \in Requests, SendToWorker(r) PROVE LifeInv'
    BY <1>1 DEF SendToWorker, Idle, IInv, TypeOK, MainInv, LifeInv, Dispatching,
        Leaving, Gone
<1>2. ASSUME NEW w \in Workers, CreateWorker(w) PROVE LifeInv'
    BY <1>2, ConstantsAssumption DEF CreateWorker, IInv, TypeOK, MainInv, LifeInv,
        Dispatching, Leaving, Gone
<1>3. CASE BeginStop
    BY <1>3 DEF BeginStop, IInv, TypeOK, MainInv, LifeInv, Dispatching, Leaving, Gone
<1>4. CASE StartWorker
    BY <1>4 DEF StartWorker, IInv, TypeOK, MainInv, LifeInv, Dispatching, Leaving, Gone
<1>5. CASE CountLoad
    BY <1>5 DEF CountLoad, IInv, TypeOK, MainInv, LifeInv, Dispatching, Leaving, Gone
<1>6. CASE CountStore
    BY <1>6 DEF CountStore, IInv, TypeOK, MainInv, LifeInv, Dispatching, Leaving, Gone
<1>7. CASE ClearReady
    BY <1>7 DEF ClearReady, IInv, TypeOK, MainInv, LifeInv, Dispatching, Leaving, Gone
<1>8. CASE SendMessage
    BY <1>8 DEF SendMessage, Signalled, IInv, TypeOK, MainInv, LifeInv, Dispatching,
        Leaving, Gone
<1>9. CASE StopTest
    BY <1>9 DEF StopTest, IInv, TypeOK, MainInv, LifeInv, Dispatching, Leaving, Gone
<1>10. CASE StopSignal
    BY <1>10 DEF StopSignal, Signalled, IInv, TypeOK, MainInv, LifeInv, Dispatching,
        Leaving, Gone
<1>11. CASE RemoveFind
    BY <1>11 DEF RemoveFind, IInv, TypeOK, MainInv, LifeInv, Dispatching, Leaving, Gone
<1>12. CASE RemoveGroup
    BY <1>12 DEF RemoveGroup, IInv, TypeOK, MainInv, LifeInv, Dispatching, Leaving, Gone
<1>13. CASE RemoveErase
    BY <1>13 DEF RemoveErase, IInv, TypeOK, MainInv, LifeInv, Dispatching, Leaving, Gone
<1>14. CASE MarkExiting
    BY <1>14 DEF MarkExiting, IInv, TypeOK, MainInv, LifeInv, Dispatching, Leaving, Gone
<1>15. CASE JoinTest
    BY <1>15 DEF JoinTest, IInv, TypeOK, MainInv, LifeInv, Dispatching, Leaving, Gone
<1>16. CASE JoinWait
    BY <1>16 DEF JoinWait, JoinReturns, IInv, TypeOK, MainInv, LifeInv, Dispatching,
        Leaving, Gone
<1>17. CASE JoinErase
    BY <1>17 DEF JoinErase, IInv, TypeOK, MainInv, LifeInv, Dispatching, Leaving, Gone,
        Stages
<1>18. CASE ReapTest
    BY <1>18 DEF ReapTest, IInv, TypeOK, MainInv, LifeInv, Dispatching, Leaving, Gone
<1>19. CASE ReapWait
    BY <1>19 DEF ReapWait, JoinReturns, IInv, TypeOK, MainInv, LifeInv, Dispatching,
        Leaving, Gone
<1>20. CASE ReapPop
    BY <1>20 DEF ReapPop, IInv, TypeOK, MainInv, LifeInv, Dispatching, Leaving, Gone,
        Stages
<1>21. ASSUME NEW w \in Workers, WaitForMessage(w) PROVE LifeInv'
    BY <1>21, SMTT(30) DEF WaitForMessage, IInv, TypeOK, MainInv, LifeInv, Dispatching, Leaving,
        Gone
<1>22. ASSUME NEW w \in Workers, MessageHandledFind(w) PROVE LifeInv'
    BY <1>22 DEF MessageHandledFind, IInv, TypeOK, MainInv, LifeInv, Dispatching,
        Leaving, Gone
<1>23. ASSUME NEW w \in Workers, MessageHandledStore(w) PROVE LifeInv'
    BY <1>23 DEF MessageHandledStore, IInv, TypeOK, MainInv, LifeInv, Dispatching,
        Leaving, Gone
<1>24. ASSUME NEW w \in Workers, MessageHandledFlag(w) PROVE LifeInv'
    BY <1>24, SMTT(30) DEF MessageHandledFlag, IInv, TypeOK, MainInv, LifeInv, Dispatching,
        Leaving, Gone
<1>25. ASSUME NEW w \in Workers, ObserveStop(w) PROVE LifeInv'
    BY <1>25, SMTT(30) DEF ObserveStop, IInv, TypeOK, MainInv, LifeInv, Dispatching,
        Leaving, Gone
<1>26. ASSUME NEW w \in Workers, Sleep(w) PROVE LifeInv'
    BY <1>26, SMTT(30) DEF Sleep, IInv, TypeOK, MainInv, LifeInv, Dispatching, Leaving, Gone
<1>27. ASSUME NEW w \in Workers, SpuriousWake(w) PROVE LifeInv'
    BY <1>27, SMTT(30) DEF SpuriousWake, IInv, TypeOK, MainInv, LifeInv, Dispatching, Leaving,
        Gone
<1>28. ASSUME NEW w \in Workers, TakeMessage(w) PROVE LifeInv'
    BY <1>28 DEF TakeMessage, IInv, TypeOK, MainInv, LifeInv, Dispatching, Leaving, Gone
<1>29. ASSUME NEW w \in Workers, SendResponse(w) PROVE LifeInv'
    BY <1>29 DEF SendResponse, IInv, TypeOK, MainInv, LifeInv, Dispatching, Leaving,
        Gone
<1>30. ASSUME NEW w \in Workers, ExitedFind(w) PROVE LifeInv'
    BY <1>30, SMTT(30) DEF ExitedFind, IInv, TypeOK, MainInv, LifeInv, Dispatching,
        Leaving, Gone
<1>31. ASSUME NEW w \in Workers, ExitedGroup(w) PROVE LifeInv'
    BY <1>31 DEF ExitedGroup, IInv, TypeOK, MainInv, LifeInv, Dispatching, Leaving, Gone
<1>32. ASSUME NEW w \in Workers, ExitedErase(w) PROVE LifeInv'
    BY <1>32, SMTT(30) DEF ExitedErase, IInv, TypeOK, MainInv, LifeInv, Dispatching,
        Leaving, Gone
<1>33. ASSUME NEW w \in Workers, ExitedUnmark(w) PROVE LifeInv'
    BY <1>33 DEF ExitedUnmark, IInv, TypeOK, MainInv, LifeInv, Dispatching, Leaving,
        Gone
<1>34. ASSUME NEW w \in Workers, ExitedPush(w) PROVE LifeInv'
    BY <1>34, SMTT(30) DEF ExitedPush, IInv, TypeOK, MainInv, LifeInv, Dispatching,
        Leaving, Gone
<1>35. ASSUME NEW w \in Workers, ThreadReturns(w) PROVE LifeInv'
    BY <1>35 DEF ThreadReturns, IInv, TypeOK, MainInv, LifeInv, Dispatching, Leaving,
        Gone
<1>36. CASE MainFault \/ DataRace \/ \E w \in Workers : AssertFails(w) \/ WorkerFault(w)
    BY <1>36, DieStep DEF MainFault, DataRace, AssertFails, WorkerFault, IInv
<1>37. CASE UNCHANGED vars
    BY <1>37 DEF IInv, TypeOK, MainInv, LifeInv, Dispatching, Leaving, Gone
<1>38. QED
    BY <1>1, <1>2, <1>3, <1>4, <1>5, <1>6, <1>7, <1>8, <1>9, <1>10, <1>11, <1>12, <1>13,
        <1>14, <1>15, <1>16, <1>17, <1>18, <1>19, <1>20, <1>21, <1>22, <1>23, <1>24,
        <1>25, <1>26, <1>27, <1>28, <1>29, <1>30, <1>31, <1>32, <1>33, <1>34, <1>35,
        <1>36, <1>37 DEF Next, MainStep, WorkerStep, Terminated

\* Every step keeps the count of outstanding messages exact.  Main increments only a
\* count of 0 and a worker decrements only a count of 1, so the two read-modify-write
\* sequences never overlap on one worker.
LEMMA CountStep ==
    ASSUME IInv, [Next]_vars
    PROVE  CountInv'
<1> USE DEF vars, mainVars, listVars, detailVars, objVars, threadVars
<1>0. \A v \in Workers : /\ Len(queue[v]) \in Nat /\ (Len(queue[v]) = 0 => queue[v] = <<>>)
                          /\ Unreported(v) \in {0, 1} /\ InHand(v) \in {0, 1}
                          /\ Outstanding(v) \in Nat
    BY OutstandingParts DEF IInv
<1>1. ASSUME NEW r \in Requests, SendToWorker(r) PROVE CountInv'
    BY <1>1 DEF SendToWorker, Idle, IInv, TypeOK, MainInv, CountInv,
        CountMatchesOutstanding, Outstanding, Unreported, InHand, Dispatching
<1>2. ASSUME NEW w \in Workers, CreateWorker(w) PROVE CountInv'
  <2>1. /\ mwk' = w /\ w \notin workers /\ messages[w] = 0
        /\ queue[w] = <<>> /\ wpc[w] = "none"
    BY <1>2 DEF CreateWorker, IInv, TypeOK, LifeInv
  <2>2. \A v \in Workers : Outstanding(v)' = Outstanding(v)
    BY <1>2 DEF CreateWorker, Outstanding, Unreported, InHand, IInv, MainInv, Dispatching
  <2>3. Outstanding(w) = 0
    BY <1>2, <2>1 DEF CreateWorker, Outstanding, Unreported, InHand
  <2> QED
    BY <1>2, <2>1, <2>2, <2>3
    DEF CreateWorker, IInv, TypeOK, CountInv, CountMatchesOutstanding
<1>3. CASE BeginStop
    BY <1>3 DEF BeginStop, IInv, TypeOK, MainInv, CountInv, CountMatchesOutstanding,
        Outstanding, Unreported, InHand, Dispatching
<1>4. CASE StartWorker
  <2>1. mwk \in Workers /\ wpc[mwk] = "none" /\ ~had_message[mwk]
    BY <1>4 DEF StartWorker, IInv, TypeOK, MainInv, LifeInv, Dispatching
  <2>2. \A v \in Workers : Outstanding(v)' = Outstanding(v)
    BY <1>4, <2>1 DEF StartWorker, Outstanding, Unreported, InHand, IInv, TypeOK
  <2> QED
    BY <1>4, <2>1, <2>2 DEF StartWorker, IInv, TypeOK, CountInv, CountMatchesOutstanding
<1>5. CASE CountLoad
    BY <1>5 DEF CountLoad, IInv, TypeOK, MainInv, CountInv, CountMatchesOutstanding,
        Outstanding, Unreported, InHand, Dispatching
<1>6. CASE CountStore
  <2>1. mwk \in Workers /\ mwk \in workers /\ messages[mwk] = 0 /\ mval = 0
    BY <1>6 DEF CountStore, IInv, TypeOK, MainInv, CountInv, Dispatching
  <2>2. Outstanding(mwk) = 0
    BY <2>1 DEF IInv, CountInv, CountMatchesOutstanding
  <2>3. /\ \A v \in Workers : Len(queue[v])' = Len(queue[v]) /\ Unreported(v)' = Unreported(v)
        /\ \A v \in Workers : InHand(v) = 0 /\ InHand(v)' = IF v = mwk THEN 1 ELSE 0
    BY <1>6 DEF CountStore, Unreported, InHand
  <2>4. \A v \in Workers : Outstanding(v)' = IF v = mwk THEN 1 ELSE Outstanding(v)
    BY <1>0, <2>1, <2>2, <2>3 DEF Outstanding
  <2>5. \A v \in workers : messages'[v] = Outstanding(v)'
    BY <1>6, <2>1, <2>4 DEF CountStore, IInv, TypeOK, CountInv, CountMatchesOutstanding
  <2>6. \A v \in Workers : Outstanding(v)' <= 1
    BY <2>4 DEF IInv, CountInv
  <2> QED
    BY <1>6, <2>5, <2>6 DEF CountStore, IInv, CountInv, CountMatchesOutstanding
<1>7. CASE ClearReady
    BY <1>7 DEF ClearReady, IInv, TypeOK, MainInv, CountInv, CountMatchesOutstanding,
        Outstanding, Unreported, InHand, Dispatching
<1>8. CASE SendMessage
  <2>1. mwk \in Workers /\ mwk # NoWorker /\ mreq \in Requests
    BY <1>8, ConstantsAssumption DEF SendMessage, IInv, TypeOK, MainInv, Dispatching
  <2>2. \A v \in Workers : Len(queue[v])' = IF v = mwk THEN Len(queue[v]) + 1 ELSE Len(queue[v])
    BY <1>8, <2>1 DEF SendMessage, IInv, TypeOK
  <2>3. \A v \in Workers : Unreported(v)' = Unreported(v)
    BY <1>8, <2>1 DEF SendMessage, Signalled, Unreported, IInv, TypeOK
  <2>4. \A v \in Workers : Outstanding(v)' = Outstanding(v)
    BY <1>8, <2>1, <2>2, <2>3, <1>0, ConstantsAssumption
    DEF SendMessage, Outstanding, InHand
  <2> QED
    BY <1>8, <2>1, <2>4
    DEF SendMessage, Signalled, IInv, TypeOK, CountInv, CountMatchesOutstanding
<1>9. CASE StopTest
    BY <1>9 DEF StopTest, IInv, TypeOK, MainInv, CountInv, CountMatchesOutstanding,
        Outstanding, Unreported, InHand, Dispatching
<1>10. CASE StopSignal
    BY <1>10, ZenonT(60) DEF StopSignal, Signalled, IInv, TypeOK, MainInv, CountInv,
        CountMatchesOutstanding, Outstanding, Unreported, InHand, Dispatching
<1>11. CASE RemoveFind
    BY <1>11 DEF RemoveFind, IInv, TypeOK, MainInv, CountInv, CountMatchesOutstanding,
        Outstanding, Unreported, InHand, Dispatching
<1>12. CASE RemoveGroup
    BY <1>12 DEF RemoveGroup, IInv, TypeOK, MainInv, CountInv, CountMatchesOutstanding,
        Outstanding, Unreported, InHand, Dispatching
<1>13. CASE RemoveErase
    BY <1>13 DEF RemoveErase, IInv, TypeOK, MainInv, CountInv, CountMatchesOutstanding,
        Outstanding, Unreported, InHand, Dispatching
<1>14. CASE MarkExiting
    BY <1>14 DEF MarkExiting, IInv, TypeOK, MainInv, CountInv, CountMatchesOutstanding,
        Outstanding, Unreported, InHand, Dispatching
<1>15. CASE JoinTest
    BY <1>15 DEF JoinTest, IInv, TypeOK, MainInv, CountInv, CountMatchesOutstanding,
        Outstanding, Unreported, InHand, Dispatching
<1>16. CASE JoinWait
    BY <1>16 DEF JoinWait, JoinReturns, IInv, TypeOK, MainInv, CountInv,
        CountMatchesOutstanding, Outstanding, Unreported, InHand, Dispatching
<1>17. CASE JoinErase
    BY <1>17 DEF JoinErase, IInv, TypeOK, MainInv, CountInv, CountMatchesOutstanding,
        Outstanding, Unreported, InHand, Dispatching
<1>18. CASE ReapTest
    BY <1>18 DEF ReapTest, IInv, TypeOK, MainInv, CountInv, CountMatchesOutstanding,
        Outstanding, Unreported, InHand, Dispatching
<1>19. CASE ReapWait
    BY <1>19, ZenonT(60) DEF ReapWait, JoinReturns, IInv, TypeOK, MainInv, CountInv,
        CountMatchesOutstanding, Outstanding, Unreported, InHand, Dispatching
<1>20. CASE ReapPop
    BY <1>20 DEF ReapPop, IInv, TypeOK, MainInv, CountInv, CountMatchesOutstanding,
        Outstanding, Unreported, InHand, Dispatching
<1>21. ASSUME NEW w \in Workers, WaitForMessage(w) PROVE CountInv'
    BY <1>21, ZenonT(60) DEF WaitForMessage, IInv, TypeOK, CountInv, CountMatchesOutstanding,
        Outstanding, Unreported, InHand
<1>22. ASSUME NEW w \in Workers, MessageHandledFind(w) PROVE CountInv'
  <2>1. messages[w] = 1
    BY <1>22, <1>0
    DEF MessageHandledFind, IInv, TypeOK, CountInv, CountMatchesOutstanding
  <2>2. \A v \in Workers : Outstanding(v)' = Outstanding(v)
    BY <1>22 DEF MessageHandledFind, Outstanding, Unreported, InHand, IInv, TypeOK
  <2> QED
    BY <1>22, <2>1, <2>2
    DEF MessageHandledFind, IInv, TypeOK, CountInv, CountMatchesOutstanding
<1>23. ASSUME NEW w \in Workers, MessageHandledStore(w) PROVE CountInv'
  <2>1. wval[w] = 1 /\ Unreported(w) = 1 /\ Outstanding(w) <= 1
    BY <1>23 DEF MessageHandledStore, IInv, CountInv, Unreported
  <2>2. Len(queue[w]) = 0 /\ InHand(w) = 0
    BY <1>0, <2>1 DEF Outstanding
  <2>3. /\ \A v \in Workers : Len(queue[v])' = Len(queue[v]) /\ InHand(v)' = InHand(v)
        /\ \A v \in Workers : Unreported(v)' = IF v = w THEN 0 ELSE Unreported(v)
    BY <1>23 DEF MessageHandledStore, Unreported, InHand, IInv, TypeOK
  <2>4. \A v \in Workers : Outstanding(v)' = IF v = w THEN 0 ELSE Outstanding(v)
    BY <2>2, <2>3 DEF Outstanding
  <2>5. \A v \in workers : messages'[v] = Outstanding(v)'
    BY <1>23, <2>1, <2>4
    DEF MessageHandledStore, IInv, TypeOK, CountInv, CountMatchesOutstanding
  <2>6. \A v \in Workers : Outstanding(v)' <= 1
    BY <2>4 DEF IInv, CountInv
  <2>7. mpc \in {"start", "count", "store"} => messages'[mwk] = 0
    BY <1>23, <2>1 DEF MessageHandledStore, IInv, TypeOK, CountInv
  <2> QED
    BY <1>23, <2>5, <2>6, <2>7
    DEF MessageHandledStore, IInv, TypeOK, CountInv, CountMatchesOutstanding
<1>24. ASSUME NEW w \in Workers, MessageHandledFlag(w) PROVE CountInv'
    BY <1>24, ZenonT(60) DEF MessageHandledFlag, IInv, TypeOK, CountInv, CountMatchesOutstanding,
        Outstanding, Unreported, InHand
<1>25. ASSUME NEW w \in Workers, ObserveStop(w) PROVE CountInv'
    BY <1>25, ZenonT(60) DEF ObserveStop, IInv, TypeOK, CountInv, CountMatchesOutstanding,
        Outstanding, Unreported, InHand
<1>26. ASSUME NEW w \in Workers, Sleep(w) PROVE CountInv'
    BY <1>26, ZenonT(60) DEF Sleep, IInv, TypeOK, CountInv, CountMatchesOutstanding, Outstanding,
        Unreported, InHand
<1>27. ASSUME NEW w \in Workers, SpuriousWake(w) PROVE CountInv'
    BY <1>27, ZenonT(60) DEF SpuriousWake, IInv, TypeOK, CountInv, CountMatchesOutstanding,
        Outstanding, Unreported, InHand
<1>28. ASSUME NEW w \in Workers, TakeMessage(w) PROVE CountInv'
  <2>1. \A v \in Workers : Len(queue[v])' = IF v = w THEN Len(queue[v]) - 1 ELSE Len(queue[v])
    BY <1>28 DEF TakeMessage, IInv, TypeOK
  <2>2. \A v \in Workers : Unreported(v)' = IF v = w THEN Unreported(v) + 1 ELSE Unreported(v)
    BY <1>28 DEF TakeMessage, Unreported, IInv, TypeOK
  <2>3. \A v \in Workers : Outstanding(v)' = Outstanding(v)
    BY <1>28, <2>1, <2>2, <1>0 DEF TakeMessage, Outstanding, InHand
  <2> QED
    BY <1>28, <2>3 DEF TakeMessage, IInv, TypeOK, CountInv, CountMatchesOutstanding
<1>29. ASSUME NEW w \in Workers, SendResponse(w) PROVE CountInv'
  <2>1. had_message[w]
    BY <1>29 DEF SendResponse, IInv, LifeInv
  <2>2. \A v \in Workers : Outstanding(v)' = Outstanding(v)
    BY <1>29, <2>1 DEF SendResponse, Outstanding, Unreported, InHand, IInv, TypeOK
  <2> QED
    BY <1>29, <2>2 DEF SendResponse, IInv, TypeOK, CountInv, CountMatchesOutstanding
<1>30. ASSUME NEW w \in Workers, ExitedFind(w) PROVE CountInv'
    BY <1>30, ZenonT(60) DEF ExitedFind, IInv, TypeOK, CountInv, CountMatchesOutstanding,
        Outstanding, Unreported, InHand
<1>31. ASSUME NEW w \in Workers, ExitedGroup(w) PROVE CountInv'
    BY <1>31, ZenonT(60) DEF ExitedGroup, IInv, TypeOK, CountInv, CountMatchesOutstanding,
        Outstanding, Unreported, InHand
<1>32. ASSUME NEW w \in Workers, ExitedErase(w) PROVE CountInv'
    BY <1>32, ZenonT(60) DEF ExitedErase, IInv, TypeOK, CountInv, CountMatchesOutstanding,
        Outstanding, Unreported, InHand
<1>33. ASSUME NEW w \in Workers, ExitedUnmark(w) PROVE CountInv'
    BY <1>33, ZenonT(60) DEF ExitedUnmark, IInv, TypeOK, CountInv, CountMatchesOutstanding,
        Outstanding, Unreported, InHand
<1>34. ASSUME NEW w \in Workers, ExitedPush(w) PROVE CountInv'
    BY <1>34, ZenonT(60) DEF ExitedPush, IInv, TypeOK, CountInv, CountMatchesOutstanding,
        Outstanding, Unreported, InHand
<1>35. ASSUME NEW w \in Workers, ThreadReturns(w) PROVE CountInv'
    BY <1>35, ZenonT(60) DEF ThreadReturns, IInv, TypeOK, CountInv, CountMatchesOutstanding,
        Outstanding, Unreported, InHand
<1>36. CASE MainFault \/ DataRace \/ \E w \in Workers : AssertFails(w) \/ WorkerFault(w)
    BY <1>36, DieStep DEF MainFault, DataRace, AssertFails, WorkerFault, IInv
<1>37. CASE UNCHANGED vars
    BY <1>37 DEF IInv, TypeOK, MainInv, CountInv, CountMatchesOutstanding, Outstanding,
        Unreported, InHand, Dispatching
<1>38. QED
    BY <1>1, <1>2, <1>3, <1>4, <1>5, <1>6, <1>7, <1>8, <1>9, <1>10, <1>11, <1>12, <1>13,
        <1>14, <1>15, <1>16, <1>17, <1>18, <1>19, <1>20, <1>21, <1>22, <1>23, <1>24,
        <1>25, <1>26, <1>27, <1>28, <1>29, <1>30, <1>31, <1>32, <1>33, <1>34, <1>35,
        <1>36, <1>37 DEF Next, MainStep, WorkerStep, Terminated

\* No step leaves a thread asleep with work or a stop request: the test and the wait
\* are one critical section, and every push and every stop signals.
LEMMA WakeStep ==
    ASSUME IInv, [Next]_vars
    PROVE  NoLostWakeup'
<1> USE DEF vars, mainVars, listVars, detailVars, objVars, threadVars
<1>1. ASSUME NEW r \in Requests, SendToWorker(r) PROVE NoLostWakeup'
    BY <1>1 DEF SendToWorker, Idle, IInv, TypeOK, MainInv, NoLostWakeup, LifeInv
<1>2. ASSUME NEW w \in Workers, CreateWorker(w) PROVE NoLostWakeup'
    BY <1>2 DEF CreateWorker, IInv, TypeOK, MainInv, NoLostWakeup, LifeInv
<1>3. CASE BeginStop
    BY <1>3 DEF BeginStop, IInv, TypeOK, MainInv, NoLostWakeup, LifeInv
<1>4. CASE StartWorker
    BY <1>4 DEF StartWorker, IInv, TypeOK, MainInv, NoLostWakeup, LifeInv
<1>5. CASE CountLoad
    BY <1>5 DEF CountLoad, IInv, TypeOK, MainInv, NoLostWakeup, LifeInv
<1>6. CASE CountStore
    BY <1>6 DEF CountStore, IInv, TypeOK, MainInv, NoLostWakeup, LifeInv
<1>7. CASE ClearReady
    BY <1>7 DEF ClearReady, IInv, TypeOK, MainInv, NoLostWakeup, LifeInv
<1>8. CASE SendMessage
    BY <1>8 DEF SendMessage, Signalled, IInv, TypeOK, MainInv, NoLostWakeup, LifeInv
<1>9. CASE StopTest
    BY <1>9 DEF StopTest, IInv, TypeOK, MainInv, NoLostWakeup, LifeInv
<1>10. CASE StopSignal
    BY <1>10 DEF StopSignal, Signalled, IInv, TypeOK, MainInv, NoLostWakeup, LifeInv
<1>11. CASE RemoveFind
    BY <1>11 DEF RemoveFind, IInv, TypeOK, MainInv, NoLostWakeup, LifeInv
<1>12. CASE RemoveGroup
    BY <1>12 DEF RemoveGroup, IInv, TypeOK, MainInv, NoLostWakeup, LifeInv
<1>13. CASE RemoveErase
    BY <1>13 DEF RemoveErase, IInv, TypeOK, MainInv, NoLostWakeup, LifeInv
<1>14. CASE MarkExiting
    BY <1>14 DEF MarkExiting, IInv, TypeOK, MainInv, NoLostWakeup, LifeInv
<1>15. CASE JoinTest
    BY <1>15 DEF JoinTest, IInv, TypeOK, MainInv, NoLostWakeup, LifeInv
<1>16. CASE JoinWait
    BY <1>16 DEF JoinWait, JoinReturns, IInv, TypeOK, MainInv, NoLostWakeup, LifeInv
<1>17. CASE JoinErase
    BY <1>17 DEF JoinErase, IInv, TypeOK, MainInv, NoLostWakeup, LifeInv
<1>18. CASE ReapTest
    BY <1>18 DEF ReapTest, IInv, TypeOK, MainInv, NoLostWakeup, LifeInv
<1>19. CASE ReapWait
    BY <1>19 DEF ReapWait, JoinReturns, IInv, TypeOK, MainInv, NoLostWakeup, LifeInv
<1>20. CASE ReapPop
    BY <1>20 DEF ReapPop, IInv, TypeOK, MainInv, NoLostWakeup, LifeInv
<1>21. ASSUME NEW w \in Workers, WaitForMessage(w) PROVE NoLostWakeup'
    BY <1>21 DEF WaitForMessage, IInv, TypeOK, MainInv, NoLostWakeup, LifeInv
<1>22. ASSUME NEW w \in Workers, MessageHandledFind(w) PROVE NoLostWakeup'
    BY <1>22 DEF MessageHandledFind, IInv, TypeOK, MainInv, NoLostWakeup, LifeInv
<1>23. ASSUME NEW w \in Workers, MessageHandledStore(w) PROVE NoLostWakeup'
    BY <1>23 DEF MessageHandledStore, IInv, TypeOK, MainInv, NoLostWakeup, LifeInv
<1>24. ASSUME NEW w \in Workers, MessageHandledFlag(w) PROVE NoLostWakeup'
    BY <1>24 DEF MessageHandledFlag, IInv, TypeOK, MainInv, NoLostWakeup, LifeInv
<1>25. ASSUME NEW w \in Workers, ObserveStop(w) PROVE NoLostWakeup'
    BY <1>25 DEF ObserveStop, IInv, TypeOK, MainInv, NoLostWakeup, LifeInv
<1>26. ASSUME NEW w \in Workers, Sleep(w) PROVE NoLostWakeup'
    BY <1>26 DEF Sleep, IInv, TypeOK, MainInv, NoLostWakeup, LifeInv
<1>27. ASSUME NEW w \in Workers, SpuriousWake(w) PROVE NoLostWakeup'
    BY <1>27 DEF SpuriousWake, IInv, TypeOK, MainInv, NoLostWakeup, LifeInv
<1>28. ASSUME NEW w \in Workers, TakeMessage(w) PROVE NoLostWakeup'
    BY <1>28 DEF TakeMessage, IInv, TypeOK, MainInv, NoLostWakeup, LifeInv
<1>29. ASSUME NEW w \in Workers, SendResponse(w) PROVE NoLostWakeup'
    BY <1>29 DEF SendResponse, IInv, TypeOK, MainInv, NoLostWakeup, LifeInv
<1>30. ASSUME NEW w \in Workers, ExitedFind(w) PROVE NoLostWakeup'
    BY <1>30 DEF ExitedFind, IInv, TypeOK, MainInv, NoLostWakeup, LifeInv
<1>31. ASSUME NEW w \in Workers, ExitedGroup(w) PROVE NoLostWakeup'
    BY <1>31 DEF ExitedGroup, IInv, TypeOK, MainInv, NoLostWakeup, LifeInv
<1>32. ASSUME NEW w \in Workers, ExitedErase(w) PROVE NoLostWakeup'
    BY <1>32 DEF ExitedErase, IInv, TypeOK, MainInv, NoLostWakeup, LifeInv
<1>33. ASSUME NEW w \in Workers, ExitedUnmark(w) PROVE NoLostWakeup'
    BY <1>33 DEF ExitedUnmark, IInv, TypeOK, MainInv, NoLostWakeup, LifeInv
<1>34. ASSUME NEW w \in Workers, ExitedPush(w) PROVE NoLostWakeup'
    BY <1>34 DEF ExitedPush, IInv, TypeOK, MainInv, NoLostWakeup, LifeInv
<1>35. ASSUME NEW w \in Workers, ThreadReturns(w) PROVE NoLostWakeup'
    BY <1>35 DEF ThreadReturns, IInv, TypeOK, MainInv, NoLostWakeup, LifeInv
<1>36. CASE MainFault \/ DataRace \/ \E w \in Workers : AssertFails(w) \/ WorkerFault(w)
    BY <1>36, DieStep DEF MainFault, DataRace, AssertFails, WorkerFault, IInv
<1>37. CASE UNCHANGED vars
    BY <1>37 DEF IInv, TypeOK, MainInv, NoLostWakeup, LifeInv
<1>38. QED
    BY <1>1, <1>2, <1>3, <1>4, <1>5, <1>6, <1>7, <1>8, <1>9, <1>10, <1>11, <1>12, <1>13,
        <1>14, <1>15, <1>16, <1>17, <1>18, <1>19, <1>20, <1>21, <1>22, <1>23, <1>24,
        <1>25, <1>26, <1>27, <1>28, <1>29, <1>30, <1>31, <1>32, <1>33, <1>34, <1>35,
        <1>36, <1>37 DEF Next, MainStep, WorkerStep, Terminated

\* Every step keeps each request in one place.
LEMMA HoldStep ==
    ASSUME IInv, [Next]_vars
    PROVE  HoldInv'
<1> USE DEF vars, mainVars, listVars, detailVars, objVars, threadVars
<1>0. \A v \in Workers : /\ Len(queue[v]) \in Nat /\ (Len(queue[v]) = 0 => queue[v] = <<>>)
                          /\ Unreported(v) \in {0, 1} /\ InHand(v) \in {0, 1}
                          /\ Outstanding(v) \in Nat
    BY OutstandingParts DEF IInv
<1>1. ASSUME NEW r \in Requests, SendToWorker(r) PROVE HoldInv'
  <2>1. /\ stage = "serving" /\ GroupOf[r] \in Groups /\ r \notin sent
        /\ mreq' = r /\ r \in sent'
    BY <1>1, ConstantsAssumption DEF SendToWorker
  <2>2. mpc' # "create" => mwk' \in Workers /\ group[mwk'] = GroupOf[r]
    BY <1>1, <2>1 DEF SendToWorker, Idle, IInv, TypeOK, IndexInv
  <2>3. \A v \in Workers, q \in Requests : Holds(v, q)' <=> Holds(v, q)
    BY <1>1 DEF SendToWorker, Holds
  <2>4. answered \subseteq sent
    BY DEF IInv, HoldInv
  <2> QED
    BY <1>1, <2>1, <2>2, <2>3, <2>4 DEF SendToWorker, IInv, HoldInv, Dispatching
<1>2. ASSUME NEW w \in Workers, CreateWorker(w) PROVE HoldInv'
    BY <1>2 DEF CreateWorker, IInv, TypeOK, MainInv, HoldInv, Holds, Dispatching,
        LifeInv
<1>3. CASE BeginStop
    BY <1>3 DEF BeginStop, IInv, TypeOK, MainInv, HoldInv, Holds, Dispatching
<1>4. CASE StartWorker
    BY <1>4 DEF StartWorker, IInv, TypeOK, MainInv, HoldInv, Holds, Dispatching
<1>5. CASE CountLoad
    BY <1>5 DEF CountLoad, IInv, TypeOK, MainInv, HoldInv, Holds, Dispatching
<1>6. CASE CountStore
    BY <1>6 DEF CountStore, IInv, TypeOK, MainInv, HoldInv, Holds, Dispatching
<1>7. CASE ClearReady
    BY <1>7 DEF ClearReady, IInv, TypeOK, MainInv, HoldInv, Holds, Dispatching
<1>8. CASE SendMessage
  <2>1. mwk \in Workers /\ mreq \in Requests
    BY <1>8 DEF SendMessage, IInv, TypeOK, MainInv, Dispatching
  <2>2. \A v \in Workers, q \in Requests :
            Holds(v, q)' <=> Holds(v, q) \/ (v = mwk /\ q = mreq)
    <3>1. queue[mwk] \in Seq(Requests)
      BY <2>1 DEF IInv, TypeOK
    <3>2. /\ queue'[mwk] = Append(queue[mwk], mreq)
          /\ \A v \in Workers : v # mwk => queue'[v] = queue[v]
          /\ \A v \in Workers : wpc'[v] = "busy" <=> wpc[v] = "busy"
          /\ wmsg' = wmsg
      BY <1>8, <2>1 DEF SendMessage, Signalled, IInv, TypeOK
    <3>3. ASSUME NEW q \in Requests
          PROVE  (\E i \in DOMAIN Append(queue[mwk], mreq) : Append(queue[mwk], mreq)[i] = q)
                    <=> (\E i \in DOMAIN queue[mwk] : queue[mwk][i] = q) \/ q = mreq
      BY <2>1, <3>1, InAppend
    <3>4. ASSUME NEW v \in Workers, NEW q \in Requests, v = mwk
          PROVE  Holds(v, q)' <=> Holds(v, q) \/ q = mreq
      <4>1. queue'[v] = Append(queue[v], mreq)
        BY <3>2, <3>4
      <4> QED
        BY <3>2, <3>3, <3>4, <4>1 DEF Holds
    <3>5. ASSUME NEW v \in Workers, NEW q \in Requests, v # mwk
          PROVE  Holds(v, q)' <=> Holds(v, q)
      BY <3>2, <3>5 DEF Holds
    <3> QED
      BY <3>4, <3>5
  <2>3. mreq \in sent \ answered /\ group[mwk] = GroupOf[mreq]
        /\ \A v \in Workers : ~Holds(v, mreq)
    BY <1>8 DEF SendMessage, IInv, HoldInv, Dispatching
  <2>4. \A v \in Workers : wpc'[v] = "busy" <=> wpc[v] = "busy"
    BY <1>8, <2>1 DEF SendMessage, Signalled, IInv, TypeOK
  <2> QED
    BY <1>8, <2>1, <2>2, <2>3, <2>4 DEF SendMessage, IInv, HoldInv, Dispatching
<1>9. CASE StopTest
    BY <1>9 DEF StopTest, IInv, TypeOK, MainInv, HoldInv, Holds, Dispatching
<1>10. CASE StopSignal
    BY <1>10 DEF StopSignal, Signalled, IInv, TypeOK, MainInv, HoldInv, Holds,
        Dispatching
<1>11. CASE RemoveFind
    BY <1>11 DEF RemoveFind, IInv, TypeOK, MainInv, HoldInv, Holds, Dispatching
<1>12. CASE RemoveGroup
    BY <1>12 DEF RemoveGroup, IInv, TypeOK, MainInv, HoldInv, Holds, Dispatching
<1>13. CASE RemoveErase
    BY <1>13 DEF RemoveErase, IInv, TypeOK, MainInv, HoldInv, Holds, Dispatching
<1>14. CASE MarkExiting
    BY <1>14 DEF MarkExiting, IInv, TypeOK, MainInv, HoldInv, Holds, Dispatching
<1>15. CASE JoinTest
    BY <1>15 DEF JoinTest, IInv, TypeOK, MainInv, HoldInv, Holds, Dispatching
<1>16. CASE JoinWait
    BY <1>16 DEF JoinWait, JoinReturns, IInv, TypeOK, MainInv, HoldInv, Holds,
        Dispatching
<1>17. CASE JoinErase
    BY <1>17 DEF JoinErase, IInv, TypeOK, MainInv, HoldInv, Holds, Dispatching
<1>18. CASE ReapTest
    BY <1>18 DEF ReapTest, IInv, TypeOK, MainInv, HoldInv, Holds, Dispatching
<1>19. CASE ReapWait
    BY <1>19 DEF ReapWait, JoinReturns, IInv, TypeOK, MainInv, HoldInv, Holds,
        Dispatching
<1>20. CASE ReapPop
    BY <1>20 DEF ReapPop, IInv, TypeOK, MainInv, HoldInv, Holds, Dispatching
<1>21. ASSUME NEW w \in Workers, WaitForMessage(w) PROVE HoldInv'
    BY <1>21 DEF WaitForMessage, IInv, TypeOK, HoldInv, Holds
<1>22. ASSUME NEW w \in Workers, MessageHandledFind(w) PROVE HoldInv'
    BY <1>22 DEF MessageHandledFind, IInv, TypeOK, HoldInv, Holds
<1>23. ASSUME NEW w \in Workers, MessageHandledStore(w) PROVE HoldInv'
    BY <1>23 DEF MessageHandledStore, IInv, TypeOK, HoldInv, Holds
<1>24. ASSUME NEW w \in Workers, MessageHandledFlag(w) PROVE HoldInv'
    BY <1>24 DEF MessageHandledFlag, IInv, TypeOK, HoldInv, Holds
<1>25. ASSUME NEW w \in Workers, ObserveStop(w) PROVE HoldInv'
    BY <1>25 DEF ObserveStop, IInv, TypeOK, HoldInv, Holds
<1>26. ASSUME NEW w \in Workers, Sleep(w) PROVE HoldInv'
    BY <1>26 DEF Sleep, IInv, TypeOK, HoldInv, Holds
<1>27. ASSUME NEW w \in Workers, SpuriousWake(w) PROVE HoldInv'
    BY <1>27 DEF SpuriousWake, IInv, TypeOK, HoldInv, Holds
<1>28. ASSUME NEW w \in Workers, TakeMessage(w) PROVE HoldInv'
  <2>1. /\ Head(queue[w]) \in Requests /\ Head(queue[w]) = queue[w][1]
        /\ 1 \in DOMAIN queue[w]
    BY <1>28 DEF TakeMessage, IInv, TypeOK
  <2>2. \A v \in Workers, q \in Requests : Holds(v, q)' => Holds(v, q)
    <3>1. \A i \in DOMAIN Tail(queue[w]) : i + 1 \in DOMAIN queue[w]
                                           /\ Tail(queue[w])[i] = queue[w][i + 1]
      BY <1>28 DEF TakeMessage, IInv, TypeOK
    <3> QED
      BY <1>28, <2>1, <3>1 DEF TakeMessage, Holds, IInv, TypeOK
  <2> QED
    BY <1>28, <2>1, <2>2 DEF TakeMessage, IInv, TypeOK, HoldInv
<1>29. ASSUME NEW w \in Workers, SendResponse(w) PROVE HoldInv'
  <2>0. Unreported(w) = 1 /\ Outstanding(w) <= 1
    BY <1>29 DEF SendResponse, IInv, CountInv, Unreported
  <2>1. queue[w] = <<>>
    BY <1>0, <2>0 DEF Outstanding
  <2>2. wmsg[w] \in Requests /\ Holds(w, wmsg[w])
    BY <1>29 DEF SendResponse, IInv, HoldInv, Holds
  <2>3. \A v \in Workers, q \in Requests : Holds(v, q)' <=> v # w /\ Holds(v, q)
    BY <1>29, <2>1 DEF SendResponse, Holds, IInv, TypeOK
  <2> QED
    BY <1>29, <2>2, <2>3 DEF SendResponse, IInv, TypeOK, HoldInv
<1>30. ASSUME NEW w \in Workers, ExitedFind(w) PROVE HoldInv'
    BY <1>30 DEF ExitedFind, IInv, TypeOK, HoldInv, Holds
<1>31. ASSUME NEW w \in Workers, ExitedGroup(w) PROVE HoldInv'
    BY <1>31 DEF ExitedGroup, IInv, TypeOK, HoldInv, Holds
<1>32. ASSUME NEW w \in Workers, ExitedErase(w) PROVE HoldInv'
    BY <1>32, SMTT(30) DEF ExitedErase, IInv, TypeOK, HoldInv, Holds
<1>33. ASSUME NEW w \in Workers, ExitedUnmark(w) PROVE HoldInv'
    BY <1>33 DEF ExitedUnmark, IInv, TypeOK, HoldInv, Holds
<1>34. ASSUME NEW w \in Workers, ExitedPush(w) PROVE HoldInv'
    BY <1>34, SMTT(30) DEF ExitedPush, IInv, TypeOK, HoldInv, Holds
<1>35. ASSUME NEW w \in Workers, ThreadReturns(w) PROVE HoldInv'
    BY <1>35 DEF ThreadReturns, IInv, TypeOK, HoldInv, Holds
<1>36. CASE MainFault \/ DataRace \/ \E w \in Workers : AssertFails(w) \/ WorkerFault(w)
    BY <1>36, DieStep DEF MainFault, DataRace, AssertFails, WorkerFault, IInv
<1>37. CASE UNCHANGED vars
    BY <1>37 DEF IInv, TypeOK, MainInv, HoldInv, Holds, Dispatching
<1>38. QED
    BY <1>1, <1>2, <1>3, <1>4, <1>5, <1>6, <1>7, <1>8, <1>9, <1>10, <1>11, <1>12, <1>13,
        <1>14, <1>15, <1>16, <1>17, <1>18, <1>19, <1>20, <1>21, <1>22, <1>23, <1>24,
        <1>25, <1>26, <1>27, <1>28, <1>29, <1>30, <1>31, <1>32, <1>33, <1>34, <1>35,
        <1>36, <1>37 DEF Next, MainStep, WorkerStep, Terminated

\* Every step keeps the group index in line with `workers` while requests are served.
LEMMA IndexStep ==
    ASSUME IInv, [Next]_vars
    PROVE  IndexInv'
<1> USE DEF vars, mainVars, listVars, detailVars, objVars, threadVars
<1>1. ASSUME NEW r \in Requests, SendToWorker(r) PROVE IndexInv'
    BY <1>1 DEF SendToWorker, Idle, IInv, TypeOK, MainInv, LifeInv, IndexInv,
        Dispatching, Leaving
<1>2. ASSUME NEW w \in Workers, CreateWorker(w) PROVE IndexInv'
    BY <1>2 DEF CreateWorker, IInv, TypeOK, MainInv, LifeInv, IndexInv, Dispatching,
        Leaving
<1>3. CASE BeginStop
    BY <1>3 DEF BeginStop, IInv, TypeOK, MainInv, LifeInv, IndexInv, Dispatching,
        Leaving
<1>4. CASE StartWorker
    BY <1>4 DEF StartWorker, IInv, TypeOK, MainInv, LifeInv, IndexInv, Dispatching,
        Leaving
<1>5. CASE CountLoad
    BY <1>5 DEF CountLoad, IInv, TypeOK, MainInv, LifeInv, IndexInv, Dispatching,
        Leaving
<1>6. CASE CountStore
    BY <1>6 DEF CountStore, IInv, TypeOK, MainInv, LifeInv, IndexInv, Dispatching,
        Leaving
<1>7. CASE ClearReady
    BY <1>7 DEF ClearReady, IInv, TypeOK, MainInv, LifeInv, IndexInv, Dispatching,
        Leaving
<1>8. CASE SendMessage
    BY <1>8 DEF SendMessage, Signalled, IInv, TypeOK, MainInv, LifeInv, IndexInv,
        Dispatching, Leaving
<1>9. CASE StopTest
    BY <1>9 DEF StopTest, IInv, TypeOK, MainInv, LifeInv, IndexInv, Dispatching, Leaving
<1>10. CASE StopSignal
    BY <1>10 DEF StopSignal, Signalled, IInv, TypeOK, MainInv, LifeInv, IndexInv,
        Dispatching, Leaving
<1>11. CASE RemoveFind
    BY <1>11 DEF RemoveFind, IInv, TypeOK, MainInv, LifeInv, IndexInv, Dispatching,
        Leaving
<1>12. CASE RemoveGroup
    BY <1>12 DEF RemoveGroup, IInv, TypeOK, MainInv, LifeInv, IndexInv, Dispatching,
        Leaving
<1>13. CASE RemoveErase
    BY <1>13 DEF RemoveErase, IInv, TypeOK, MainInv, LifeInv, IndexInv, Dispatching,
        Leaving
<1>14. CASE MarkExiting
    BY <1>14 DEF MarkExiting, IInv, TypeOK, MainInv, LifeInv, IndexInv, Dispatching,
        Leaving
<1>15. CASE JoinTest
    BY <1>15 DEF JoinTest, IInv, TypeOK, MainInv, LifeInv, IndexInv, Dispatching,
        Leaving
<1>16. CASE JoinWait
    BY <1>16 DEF JoinWait, JoinReturns, IInv, TypeOK, MainInv, LifeInv, IndexInv,
        Dispatching, Leaving
<1>17. CASE JoinErase
    BY <1>17 DEF JoinErase, IInv, TypeOK, MainInv, LifeInv, IndexInv, Dispatching,
        Leaving
<1>18. CASE ReapTest
    BY <1>18 DEF ReapTest, IInv, TypeOK, MainInv, LifeInv, IndexInv, Dispatching,
        Leaving
<1>19. CASE ReapWait
    BY <1>19 DEF ReapWait, JoinReturns, IInv, TypeOK, MainInv, LifeInv, IndexInv,
        Dispatching, Leaving
<1>20. CASE ReapPop
    BY <1>20 DEF ReapPop, IInv, TypeOK, MainInv, LifeInv, IndexInv, Dispatching, Leaving
<1>21. ASSUME NEW w \in Workers, WaitForMessage(w) PROVE IndexInv'
    BY <1>21 DEF WaitForMessage, IInv, TypeOK, MainInv, LifeInv, IndexInv, Dispatching,
        Leaving
<1>22. ASSUME NEW w \in Workers, MessageHandledFind(w) PROVE IndexInv'
    BY <1>22 DEF MessageHandledFind, IInv, TypeOK, MainInv, LifeInv, IndexInv,
        Dispatching, Leaving
<1>23. ASSUME NEW w \in Workers, MessageHandledStore(w) PROVE IndexInv'
    BY <1>23 DEF MessageHandledStore, IInv, TypeOK, MainInv, LifeInv, IndexInv,
        Dispatching, Leaving
<1>24. ASSUME NEW w \in Workers, MessageHandledFlag(w) PROVE IndexInv'
    BY <1>24 DEF MessageHandledFlag, IInv, TypeOK, MainInv, LifeInv, IndexInv,
        Dispatching, Leaving
<1>25. ASSUME NEW w \in Workers, ObserveStop(w) PROVE IndexInv'
    BY <1>25 DEF ObserveStop, IInv, TypeOK, MainInv, LifeInv, IndexInv, Dispatching,
        Leaving
<1>26. ASSUME NEW w \in Workers, Sleep(w) PROVE IndexInv'
    BY <1>26 DEF Sleep, IInv, TypeOK, MainInv, LifeInv, IndexInv, Dispatching, Leaving
<1>27. ASSUME NEW w \in Workers, SpuriousWake(w) PROVE IndexInv'
    BY <1>27 DEF SpuriousWake, IInv, TypeOK, MainInv, LifeInv, IndexInv, Dispatching,
        Leaving
<1>28. ASSUME NEW w \in Workers, TakeMessage(w) PROVE IndexInv'
    BY <1>28 DEF TakeMessage, IInv, TypeOK, MainInv, LifeInv, IndexInv, Dispatching,
        Leaving
<1>29. ASSUME NEW w \in Workers, SendResponse(w) PROVE IndexInv'
    BY <1>29 DEF SendResponse, IInv, TypeOK, MainInv, LifeInv, IndexInv, Dispatching,
        Leaving
<1>30. ASSUME NEW w \in Workers, ExitedFind(w) PROVE IndexInv'
    BY <1>30 DEF ExitedFind, IInv, TypeOK, MainInv, LifeInv, IndexInv, Dispatching,
        Leaving
<1>31. ASSUME NEW w \in Workers, ExitedGroup(w) PROVE IndexInv'
    BY <1>31 DEF ExitedGroup, IInv, TypeOK, MainInv, LifeInv, IndexInv, Dispatching,
        Leaving
<1>32. ASSUME NEW w \in Workers, ExitedErase(w) PROVE IndexInv'
    BY <1>32 DEF ExitedErase, IInv, TypeOK, MainInv, LifeInv, IndexInv, Dispatching,
        Leaving
<1>33. ASSUME NEW w \in Workers, ExitedUnmark(w) PROVE IndexInv'
    BY <1>33 DEF ExitedUnmark, IInv, TypeOK, MainInv, LifeInv, IndexInv, Dispatching,
        Leaving
<1>34. ASSUME NEW w \in Workers, ExitedPush(w) PROVE IndexInv'
    BY <1>34 DEF ExitedPush, IInv, TypeOK, MainInv, LifeInv, IndexInv, Dispatching,
        Leaving
<1>35. ASSUME NEW w \in Workers, ThreadReturns(w) PROVE IndexInv'
    BY <1>35 DEF ThreadReturns, IInv, TypeOK, MainInv, LifeInv, IndexInv, Dispatching,
        Leaving
<1>36. CASE MainFault \/ DataRace \/ \E w \in Workers : AssertFails(w) \/ WorkerFault(w)
    BY <1>36, DieStep DEF MainFault, DataRace, AssertFails, WorkerFault, IInv
<1>37. CASE UNCHANGED vars
    BY <1>37 DEF IInv, TypeOK, MainInv, LifeInv, IndexInv, Dispatching, Leaving
<1>38. QED
    BY <1>1, <1>2, <1>3, <1>4, <1>5, <1>6, <1>7, <1>8, <1>9, <1>10, <1>11, <1>12, <1>13,
        <1>14, <1>15, <1>16, <1>17, <1>18, <1>19, <1>20, <1>21, <1>22, <1>23, <1>24,
        <1>25, <1>26, <1>27, <1>28, <1>29, <1>30, <1>31, <1>32, <1>33, <1>34, <1>35,
        <1>36, <1>37 DEF Next, MainStep, WorkerStep, Terminated

-----------------------------------------------------------------------------
\* The pool is empty and no thread exists when the server starts.
LEMMA InitIInv == Init => IInv
<1> SUFFICES ASSUME Init PROVE IInv
    OBVIOUS
<1>1. TypeOK
    BY DEF Init, TypeOK, Stages, MainPcs, WorkerPcs
<1>2. MainInv /\ LifeInv /\ NoLostWakeup /\ IndexInv
    BY DEF Init, MainInv, LifeInv, NoLostWakeup, IndexInv, Dispatching, Leaving, Gone
<1>3. CountInv
    BY DEF Init, CountInv, CountMatchesOutstanding, Outstanding, Unreported, InHand
<1>4. HoldInv
    BY DEF Init, HoldInv, Holds, Dispatching
<1> QED
    BY <1>1, <1>2, <1>3, <1>4 DEF IInv

\* IInv holds for ever: it holds at first and every step keeps it.
THEOREM Inductive == Spec => []IInv
<1>1. IInv /\ [Next]_vars => IInv'
    BY TypeStep, MainInvStep, LifeStep, CountStep, WakeStep, HoldStep, IndexStep DEF IInv
<1> QED
    BY <1>1, InitIInv, PTL DEF Spec

\* Every variable of the pool and of its threads keeps its type.
THEOREM TypeCorrect == Spec => []TypeOK
<1>1. IInv => TypeOK
    BY DEF IInv
<1> QED
    BY <1>1, Inductive, PTL

\* `messages` is exact in spite of the lock that is not taken: no increment of
\* send_to_worker and no decrement of worker_message_handled is lost.
THEOREM CountCorrect == Spec => []CountMatchesOutstanding
<1>1. IInv => CountMatchesOutstanding
    BY DEF IInv, CountInv
<1> QED
    BY <1>1, Inductive, PTL

\* send_to_worker never gives a request to a worker that still has another.
THEOREM OneAtATime == Spec => []NeverQueuedBehind
<1>1. ASSUME IInv PROVE NeverQueuedBehind
  <2>1. ASSUME NEW w \in Workers PROVE Len(queue[w]) + Unreported(w) <= 1
    <3>1. Outstanding(w) <= 1
      BY <1>1 DEF IInv, CountInv
    <3>2. /\ Len(queue[w]) \in Nat /\ Unreported(w) \in {0, 1} /\ InHand(w) \in {0, 1}
      BY <1>1, OutstandingParts DEF IInv
    <3> QED
      BY <3>1, <3>2 DEF Outstanding
  <2> QED
    BY <2>1 DEF NeverQueuedBehind
<1> QED
    BY <1>1, Inductive, PTL

\* No worker sleeps in wait_for_message while a message or a stop waits for it.
THEOREM WakeupsArrive == Spec => []NoLostWakeup
<1>1. IInv => NoLostWakeup
    BY DEF IInv
<1> QED
    BY <1>1, Inductive, PTL

\* workers_by_group and workers agree whenever send_to_worker searches them.
THEOREM IndexCorrect == Spec => []GroupIndexMatches
<1>1. IInv => GroupIndexMatches
    BY DEF IInv, MainInv, IndexInv, GroupIndexMatches
<1> QED
    BY <1>1, Inductive, PTL

\* Neither main nor a worker is left with an iterator to an erased entry of `workers` as
\* long as requests are served: what is allocated is listed until stop() begins.
THEOREM IteratorsCorrect == Spec => []IteratorsValid
<1>1. IInv => IteratorsValid
    BY DEF IInv, TypeOK, MainInv, LifeInv, IteratorsValid, Dispatching
<1> QED
    BY <1>1, Inductive, PTL

\* join() and ~WorkerPool delete no WorkerThread whose thread still runs.
THEOREM DeleteAfterEnd == Spec => []DeletedOnlyWhenEnded
<1>1. IInv => DeletedOnlyWhenEnded
    BY DEF IInv, LifeInv, DeletedOnlyWhenEnded, Gone
<1> QED
    BY <1>1, Inductive, PTL

\* ~WorkerPool finds no current and no exiting workers once join() has returned.
THEOREM DestructorFindsNone == Spec => []NothingLeftForDestructor
<1>1. IInv => NothingLeftForDestructor
    BY DEF IInv, MainInv, NothingLeftForDestructor
<1> QED
    BY <1>1, Inductive, PTL

-----------------------------------------------------------------------------
(***************************************************************************)
(* WorkerPool implements Delivery.                                         *)
(***************************************************************************)

\* The refinement mapping of `running`.
Running == [w \in Workers |-> IF wpc[w] = "busy" THEN wmsg[w] ELSE NoRequest]

\* A step that changes neither what is sent, answered or served nor what runs is
\* invisible to Delivery.
LEMMA Stutter ==
    ASSUME sent' = sent, answered' = answered, group' = group,
           \A w \in Workers : Running'[w] = Running[w]
    PROVE  UNCHANGED Promise!dvars
<1>1. Running' = Running
    BY DEF Running
<1> QED
    BY <1>1 DEF Promise!dvars, Running

\* Every step of the pool is a step of Delivery or invisible to it: send_to_worker
\* accepts, the creation of a worker enlists, wait_for_message takes, send_response
\* answers.
LEMMA RefinementStep ==
    ASSUME IInv, [Next]_vars
    PROVE  [Promise!Next]_(Promise!dvars)
<1> USE DEF vars, mainVars, listVars, detailVars, objVars, threadVars
<1>1. ASSUME NEW r \in Requests, SendToWorker(r) PROVE [Promise!Next]_(Promise!dvars)
  <2>1. Promise!Accept(r)
    BY <1>1 DEF SendToWorker, Promise!Accept
  <2> QED
    BY <2>1 DEF Promise!Next
<1>2. ASSUME NEW w \in Workers, CreateWorker(w) PROVE [Promise!Next]_(Promise!dvars)
  <2>1. wpc[w] = "none" /\ GroupOf[mreq] \in Groups
    BY <1>2, ConstantsAssumption DEF CreateWorker, IInv, LifeInv, MainInv, Dispatching
  <2>2. Promise!Enlist(w, GroupOf[mreq])
    BY <1>2, <2>1 DEF CreateWorker, Promise!Enlist
  <2> QED
    BY <2>1, <2>2 DEF Promise!Next
<1>3. CASE BeginStop
    BY <1>3, Stutter DEF BeginStop, Running
<1>4. CASE StartWorker
  <2>1. wpc[mwk] = "none" /\ mwk \in Workers
    BY <1>4 DEF StartWorker, IInv, LifeInv, TypeOK, MainInv, Dispatching
  <2> QED
    BY <1>4, <2>1, Stutter DEF StartWorker, Running, IInv, TypeOK
<1>5. CASE CountLoad
    BY <1>5, Stutter DEF CountLoad, Running
<1>6. CASE CountStore
    BY <1>6, Stutter DEF CountStore, Running
<1>7. CASE ClearReady
    BY <1>7, Stutter DEF ClearReady, Running
<1>8. CASE SendMessage
    BY <1>8, Stutter DEF SendMessage, Signalled, Running, IInv, TypeOK
<1>9. CASE StopTest
    BY <1>9, Stutter DEF StopTest, Running
<1>10. CASE StopSignal
    BY <1>10, Stutter DEF StopSignal, Signalled, Running, IInv, TypeOK
<1>11. CASE RemoveFind
    BY <1>11, Stutter DEF RemoveFind, Running
<1>12. CASE RemoveGroup
    BY <1>12, Stutter DEF RemoveGroup, Running
<1>13. CASE RemoveErase
    BY <1>13, Stutter DEF RemoveErase, Running
<1>14. CASE MarkExiting
    BY <1>14, Stutter DEF MarkExiting, Running
<1>15. CASE JoinTest
    BY <1>15, Stutter DEF JoinTest, Running
<1>16. CASE JoinWait
    BY <1>16, Stutter DEF JoinWait, JoinReturns, Running
<1>17. CASE JoinErase
    BY <1>17, Stutter DEF JoinErase, Running
<1>18. CASE ReapTest
    BY <1>18, Stutter DEF ReapTest, Running
<1>19. CASE ReapWait
    BY <1>19, Stutter DEF ReapWait, JoinReturns, Running
<1>20. CASE ReapPop
    BY <1>20, Stutter DEF ReapPop, Running
<1>21. ASSUME NEW w \in Workers, WaitForMessage(w) PROVE [Promise!Next]_(Promise!dvars)
    BY <1>21, Stutter DEF WaitForMessage, Running, IInv, TypeOK
<1>22. ASSUME NEW w \in Workers, MessageHandledFind(w) PROVE [Promise!Next]_(Promise!dvars)
    BY <1>22, Stutter DEF MessageHandledFind, Running, IInv, TypeOK
<1>23. ASSUME NEW w \in Workers, MessageHandledStore(w) PROVE [Promise!Next]_(Promise!dvars)
    BY <1>23, Stutter DEF MessageHandledStore, Running, IInv, TypeOK
<1>24. ASSUME NEW w \in Workers, MessageHandledFlag(w) PROVE [Promise!Next]_(Promise!dvars)
    BY <1>24, Stutter DEF MessageHandledFlag, Running, IInv, TypeOK
<1>25. ASSUME NEW w \in Workers, ObserveStop(w) PROVE [Promise!Next]_(Promise!dvars)
    BY <1>25, Stutter DEF ObserveStop, Running, IInv, TypeOK
<1>26. ASSUME NEW w \in Workers, Sleep(w) PROVE [Promise!Next]_(Promise!dvars)
    BY <1>26, Stutter DEF Sleep, Running, IInv, TypeOK
<1>27. ASSUME NEW w \in Workers, SpuriousWake(w) PROVE [Promise!Next]_(Promise!dvars)
    BY <1>27, Stutter DEF SpuriousWake, Running, IInv, TypeOK
<1>28. ASSUME NEW w \in Workers, TakeMessage(w) PROVE [Promise!Next]_(Promise!dvars)
  <2>1. PICK r \in Requests : r = Head(queue[w]) /\ r = queue[w][1] /\ 1 \in DOMAIN queue[w]
    BY <1>28 DEF TakeMessage, IInv, TypeOK
  <2>2. Holds(w, r)
    BY <2>1 DEF Holds
  <2>3. r \in sent \ answered /\ group[w] = GroupOf[r]
    BY <2>1, <2>2 DEF IInv, HoldInv
  <2>4. \A v \in Workers : wpc[v] = "busy" => wmsg[v] # r
    BY <1>28, <2>1, <2>2 DEF TakeMessage, IInv, HoldInv, Holds
  <2>5. Running' = [Running EXCEPT ![w] = r]
    BY <1>28, <2>1 DEF TakeMessage, Running, IInv, TypeOK
  <2>6. Running[w] = NoRequest /\ \A v \in Workers : Running[v] # r
    BY <1>28, <2>1, <2>4, ConstantsAssumption DEF TakeMessage, Running
  <2>7. sent' = sent /\ answered' = answered /\ group' = group
    BY <1>28 DEF TakeMessage
  <2>8. Promise!Take(w, r)
    BY <2>3, <2>5, <2>6, <2>7 DEF Running, Promise!Take
  <2> QED
    BY <2>8 DEF Promise!Next
<1>29. ASSUME NEW w \in Workers, SendResponse(w) PROVE [Promise!Next]_(Promise!dvars)
  <2>1. wmsg[w] \in Requests
    BY <1>29 DEF SendResponse, IInv, HoldInv
  <2>2. Running' = [Running EXCEPT ![w] = NoRequest]
    BY <1>29 DEF SendResponse, Running, IInv, TypeOK
  <2>3. Promise!Answer(w)
    BY <1>29, <2>1, <2>2, ConstantsAssumption DEF SendResponse, Running, Promise!Answer
  <2> QED
    BY <2>3 DEF Promise!Next
<1>30. ASSUME NEW w \in Workers, ExitedFind(w) PROVE [Promise!Next]_(Promise!dvars)
    BY <1>30, Stutter DEF ExitedFind, Running, IInv, TypeOK
<1>31. ASSUME NEW w \in Workers, ExitedGroup(w) PROVE [Promise!Next]_(Promise!dvars)
    BY <1>31, Stutter DEF ExitedGroup, Running, IInv, TypeOK
<1>32. ASSUME NEW w \in Workers, ExitedErase(w) PROVE [Promise!Next]_(Promise!dvars)
    BY <1>32, Stutter DEF ExitedErase, Running, IInv, TypeOK
<1>33. ASSUME NEW w \in Workers, ExitedUnmark(w) PROVE [Promise!Next]_(Promise!dvars)
    BY <1>33, Stutter DEF ExitedUnmark, Running, IInv, TypeOK
<1>34. ASSUME NEW w \in Workers, ExitedPush(w) PROVE [Promise!Next]_(Promise!dvars)
    BY <1>34, Stutter DEF ExitedPush, Running, IInv, TypeOK
<1>35. ASSUME NEW w \in Workers, ThreadReturns(w) PROVE [Promise!Next]_(Promise!dvars)
    BY <1>35, Stutter DEF ThreadReturns, Running, IInv, TypeOK
<1>36. CASE MainFault \/ DataRace \/ \E w \in Workers : AssertFails(w) \/ WorkerFault(w)
    BY <1>36, Stutter DEF MainFault, DataRace, AssertFails, WorkerFault, Die, Running
<1>37. CASE UNCHANGED vars
    BY <1>37, Stutter DEF Running
<1>38. QED
    BY <1>1, <1>2, <1>3, <1>4, <1>5, <1>6, <1>7, <1>8, <1>9, <1>10, <1>11, <1>12, <1>13,
        <1>14, <1>15, <1>16, <1>17, <1>18, <1>19, <1>20, <1>21, <1>22, <1>23, <1>24,
        <1>25, <1>26, <1>27, <1>28, <1>29, <1>30, <1>31, <1>32, <1>33, <1>34, <1>35,
        <1>36, <1>37 DEF Next, MainStep, WorkerStep, Terminated

\* The pool, with its missing lock and its races, does what Delivery promises: a
\* request runs at most once, in a worker of its own group, one at a time per worker.
THEOREM Refinement == Spec => ImplementsDelivery
<1>1. Init => Promise!Init
    BY DEF Init, Promise!Init
<1>2. IInv /\ [Next]_vars => [Promise!Next]_(Promise!dvars)
    BY RefinementStep
<1> QED
    BY <1>1, <1>2, Inductive, PTL DEF Spec, ImplementsDelivery, Promise!Spec
=============================================================================
