---------------------------- MODULE ServerProofs ----------------------------
(***************************************************************************)
(* Proofs about Server, for any number of requests, any capacity of the    *)
(* nudge socket and of the pipes, and any number of signals.               *)
(***************************************************************************)
EXTENDS Server, SequenceTheorems, TLAPS

(***************************************************************************)
(* The inductive invariant behind NoLostNudge and ShutdownRemembered.      *)
(***************************************************************************)

\* select reported stdout only because write_buf had data, and it still has.
WriteInv ==
    /\ "write" \in ready /\ mpc \in Looping \ {"close", "select"}
          => write_buf # <<>>
    /\ mpc = "writing" => "write" \in ready

\* A request is in one place until it is dispatched, and no thread runs it before.
FreshInv ==
    /\ mpc \notin {"dispatch", "self_nudge"} => read_buf = <<>>
    /\ \A i \in DOMAIN read_buf : wpc[read_buf[i]] = "none" /\ read_buf[i] \notin unsent
    /\ \A i \in DOMAIN stdin : wpc[stdin[i]] = "none" /\ stdin[i] \notin unsent
    /\ \A i \in DOMAIN read_buf, j \in DOMAIN stdin : read_buf[i] # stdin[j]
    /\ \A i, j \in DOMAIN read_buf : read_buf[i] = read_buf[j] => i = j
    /\ \A i, j \in DOMAIN stdin : stdin[i] = stdin[j] => i = j
    /\ \A r \in unsent : wpc[r] = "none"

\* What exists at each stage of the process's life: the socket from socketpair to close,
\* a handler only between its set-up and its release, pool threads until join.
LifeInv ==
    /\ mpc \in Starting \cup {"done"}
          => \A r \in Requests : wpc[r] \notin {"queued"} \cup Unreported
    /\ mpc \in {"handlers", "listen", "release", "close_nudge"} \cup Looping \cup {"stop", "join"}
          => socket = "open"
    /\ mpc \in {"args", "socketpair", "handlers", "close_nudge", "done"}
          => handlers # "handle_sig" /\ Main \notin Held
    /\ mpc \in Starting \ {"listen"} => Held = {}
    /\ mpc \in {"join", "release", "close_nudge"} => \A r \in Requests : wpc[r] # "queued"
    /\ mpc \in {"release", "close_nudge"} => \A r \in Requests : wpc[r] \notin Unreported

IInv == TypeOK /\ WriteInv /\ FreshInv /\ LifeInv /\ NoLostNudge /\ ShutdownRemembered

\* And what ImplementsConduit needs besides.  A response is given to a request that is
\* nowhere any more on its way to being answered, so that none is given twice ...
Given(r) == /\ r \notin unsent /\ wpc[r] \notin {"queued", "running"}
            /\ \A i \in DOMAIN stdin : stdin[i] # r
            /\ \A i \in DOMAIN read_buf : read_buf[i] # r

GivenInv ==
    /\ \A i \in DOMAIN outgoing_messages : Given(outgoing_messages[i])
    /\ \A i \in DOMAIN write_buf : Given(write_buf[i])
    /\ \A i \in DOMAIN stdout : Given(stdout[i])
    /\ \A i \in DOMAIN received : Given(received[i])

\* ... and a pass round the loop has a connection from select to the end.
ConnectedInv ==
    /\ mpc \in Looping \ {"select"} => connected
    /\ mpc \in Starting => /\ ~connected /\ outgoing_messages = <<>> /\ write_buf = <<>>
                           /\ stdout = <<>> /\ received = <<>>

ChannelInv == GivenInv /\ ConnectedInv

-----------------------------------------------------------------------------

\* Facts about sequences.
LEMMA EmptyIsSeq ==
    ASSUME NEW S PROVE <<>> \in Seq(S)
    OBVIOUS

\* Appending, prefixing and dropping one of several leave a sequence with something.
LEMMA AppendNotEmpty ==
    ASSUME NEW S, NEW s \in Seq(S), NEW e \in S
    PROVE  Append(s, e) # <<>>
<1>1. Len(Append(s, e)) = Len(s) + 1 /\ Len(s) \in Nat /\ Len(<<>>) = 0
    OBVIOUS
<1> QED
    BY <1>1

\* A sequence with something in front is not empty.
LEMMA ConcatNotEmpty ==
    ASSUME NEW S, NEW s \in Seq(S), NEW u \in Seq(S), s # <<>>
    PROVE  s \o u # <<>>
<1>1. Len(s \o u) = Len(s) + Len(u) /\ Len(s) \in Nat \ {0} /\ Len(u) \in Nat
    OBVIOUS
<1>2. Len(<<>>) = 0
    OBVIOUS
<1> QED
    BY <1>1, <1>2

\* Nor is the rest of a sequence of more than one element.
LEMMA TailNotEmpty ==
    ASSUME NEW S, NEW s \in Seq(S), s # <<>>, Len(s) # 1
    PROVE  Tail(s) # <<>>
<1>1. Len(s) \in Nat \ {0} /\ Len(Tail(s)) = Len(s) - 1
    OBVIOUS
<1>2. Len(Tail(s)) # 0
    BY <1>1
<1>3. Len(<<>>) = 0
    OBVIOUS
<1> QED
    BY <1>2, <1>3

\* Every step keeps the types; a write takes from a write_buf that is not empty.
LEMMA TypeStep ==
    ASSUME IInv, [Next]_vars
    PROVE  TypeOK'
<1> USE DEF vars, loopVars, connVars, sigVars, lifeVars, clientVars,
        Starting, Looping, Ending, Held, Unreported
<1>1. CASE Select
    BY <1>1 DEF Select, Readable, IInv, TypeOK, MainPcs, Fds
<1>2. CASE SelectFails
    BY <1>2 DEF SelectFails, IInv, TypeOK, MainPcs
<1>3. CASE SkipNudge
    BY <1>3 DEF SkipNudge, IInv, TypeOK, MainPcs
<1>4. CASE ReadNudge
    BY <1>4, EmptyIsSeq DEF ReadNudge, IInv, TypeOK, MainPcs
<1>5. CASE DispatchResponses
    BY <1>5 DEF DispatchResponses, IInv, TypeOK, MainPcs
<1>6. CASE SkipRead
    BY <1>6 DEF SkipRead, IInv, TypeOK, MainPcs
<1>7. CASE ReadData
    BY <1>7, EmptyIsSeq DEF ReadData, IInv, TypeOK, MainPcs
<1>8. CASE ReadEof
    BY <1>8 DEF ReadEof, IInv, TypeOK, MainPcs
<1>9. CASE AnswerLocally
    BY <1>9 DEF AnswerLocally, IInv, TypeOK, MainPcs
<1>10. CASE SendToWorker
    BY <1>10 DEF SendToWorker, IInv, TypeOK, MainPcs
<1>11. CASE DispatchDone
    BY <1>11 DEF DispatchDone, IInv, TypeOK, MainPcs
<1>12. CASE SelfNudge
    BY <1>12 DEF SelfNudge, Nudge, IInv, TypeOK, MainPcs
<1>13. CASE BeginWrite
    BY <1>13, ZenonT(60) DEF BeginWrite, IInv, TypeOK, MainPcs
<1>14. CASE WriteSome
    BY <1>14 DEF WriteSome, IInv, TypeOK, WriteInv, MainPcs
<1>15. CASE EraseClosed
  <2>1. connected' \in BOOLEAN /\ closing' \in BOOLEAN
    BY <1>15 DEF EraseClosed
  <2>2. mpc' \in MainPcs /\ ready' \subseteq Fds /\ write_buf' \in Seq(Requests)
    BY <1>15 DEF EraseClosed, IInv, TypeOK, MainPcs
  <2> QED
    BY <1>15, <2>1, <2>2 DEF EraseClosed, IInv, TypeOK
<1>16. CASE StopWorkers
    BY <1>16 DEF StopWorkers, IInv, TypeOK, MainPcs
<1>17. CASE JoinWorkers
    BY <1>17 DEF JoinWorkers, IInv, TypeOK, MainPcs
<1>35. CASE JoinMissesWorker
    BY <1>35 DEF JoinMissesWorker, IInv, TypeOK, MainPcs
<1>18. CASE EmergencyExit
    BY <1>18 DEF EmergencyExit, IInv, TypeOK, MainPcs
<1>19. CASE ClientCloses
    BY <1>19 DEF ClientCloses, IInv, TypeOK, MainPcs
<1>20. CASE ClientReceives
    BY <1>20 DEF ClientReceives, IInv, TypeOK, MainPcs
<1>21. ASSUME NEW r \in Requests, TakeMessage(r) PROVE TypeOK'
    BY <1>21 DEF TakeMessage, IInv, TypeOK, MainPcs
<1>22. ASSUME NEW r \in Requests, QueueResponse(r) PROVE TypeOK'
    BY <1>22 DEF QueueResponse, IInv, TypeOK, MainPcs
<1>23. ASSUME NEW r \in Requests, WorkerNudge(r) PROVE TypeOK'
    BY <1>23 DEF WorkerNudge, Nudge, IInv, TypeOK, MainPcs
<1>24. ASSUME NEW r \in Requests, ClientSends(r) PROVE TypeOK'
    BY <1>24 DEF ClientSends, IInv, TypeOK, MainPcs
<1>25. ASSUME NEW t \in Requests \cup {Main}, Interrupt(t) PROVE TypeOK'
    BY <1>25 DEF Interrupt, Alive, IInv, TypeOK, MainPcs
<1>26. ASSUME NEW t \in Requests \cup {Main}, Shutdown(t) PROVE TypeOK'
  <2>1. nudge' = nudge \/ nudge' = Append(nudge, "S")
    BY <1>26 DEF Shutdown, Nudge
  <2>2. nudge \in Seq({"R", "S"}) /\ Append(nudge, "S") \in Seq({"R", "S"})
    BY DEF IInv, TypeOK
  <2>3. nudge' \in Seq({"R", "S"})
    BY <2>1, <2>2, Zenon
  <2> QED
    BY <1>26, <2>3 DEF Shutdown, IInv, TypeOK, MainPcs
<1>27. CASE ParseArgs
    BY <1>27 DEF ParseArgs, IInv, TypeOK, MainPcs
<1>28. CASE SocketPair
    BY <1>28 DEF SocketPair, IInv, TypeOK, MainPcs
<1>29. CASE SetUpHandlers
    BY <1>29 DEF SetUpHandlers, IInv, TypeOK, MainPcs
<1>30. CASE StartListening
    BY <1>30 DEF StartListening, IInv, TypeOK, MainPcs
<1>31. CASE NudgeReadFails
    BY <1>31 DEF NudgeReadFails, IInv, TypeOK, MainPcs
<1>32. CASE ReleaseHandlers
    BY <1>32 DEF ReleaseHandlers, IInv, TypeOK, MainPcs
<1>33. CASE CloseNudge
    BY <1>33 DEF CloseNudge, IInv, TypeOK, MainPcs
<1>34. CASE UNCHANGED vars
    BY <1>34 DEF IInv, TypeOK, MainPcs
<1>37. ASSUME NEW r \in Requests, MessageHandled(r) PROVE TypeOK'
    BY <1>37 DEF MessageHandled, IInv, TypeOK, MainPcs
<1>38. ASSUME NEW t \in Requests \cup {Main}, SetUpEmergency(t) PROVE TypeOK'
    BY <1>38 DEF SetUpEmergency, IInv, TypeOK, MainPcs
<1>36. QED
    BY <1>1, <1>2, <1>3, <1>4, <1>5, <1>6, <1>7, <1>8, <1>9, <1>10, <1>11, <1>12, <1>13,
        <1>14, <1>15, <1>16, <1>17, <1>18, <1>19, <1>20, <1>21, <1>22, <1>23, <1>24,
        <1>25, <1>26, <1>27, <1>28, <1>29, <1>30, <1>31, <1>32, <1>33, <1>34, <1>35,
        <1>37, <1>38
        DEF Next, MainStep, WorkerStep, HandlerStep, Terminated

\* Every step keeps write_buf filled until main has written it.
LEMMA WriteStep ==
    ASSUME IInv, [Next]_vars
    PROVE  WriteInv'
<1> USE DEF vars, loopVars, connVars, sigVars, lifeVars, clientVars,
        Starting, Looping, Ending, Held, Unreported
<1>1. CASE Select
    BY <1>1 DEF Select, Readable, IInv, TypeOK, WriteInv
<1>2. CASE SelectFails
    BY <1>2 DEF SelectFails, IInv, TypeOK, WriteInv
<1>3. CASE SkipNudge
    BY <1>3 DEF SkipNudge, IInv, TypeOK, WriteInv
<1>4. CASE ReadNudge
    BY <1>4 DEF ReadNudge, IInv, TypeOK, WriteInv
<1>5. CASE DispatchResponses
  <2>1. write_buf # <<>> => write_buf' # <<>>
    BY <1>5, ConcatNotEmpty DEF DispatchResponses, IInv, TypeOK
  <2> QED
    BY <1>5, <2>1 DEF DispatchResponses, IInv, WriteInv
<1>6. CASE SkipRead
    BY <1>6 DEF SkipRead, IInv, TypeOK, WriteInv
<1>7. CASE ReadData
    BY <1>7 DEF ReadData, IInv, TypeOK, WriteInv
<1>8. CASE ReadEof
    BY <1>8 DEF ReadEof, IInv, TypeOK, WriteInv
<1>9. CASE AnswerLocally
    BY <1>9 DEF AnswerLocally, IInv, TypeOK, WriteInv
<1>10. CASE SendToWorker
    BY <1>10 DEF SendToWorker, IInv, TypeOK, WriteInv
<1>11. CASE DispatchDone
    BY <1>11 DEF DispatchDone, IInv, TypeOK, WriteInv
<1>12. CASE SelfNudge
    BY <1>12 DEF SelfNudge, Nudge, IInv, TypeOK, WriteInv
<1>13. CASE BeginWrite
    BY <1>13 DEF BeginWrite, IInv, TypeOK, WriteInv
<1>14. CASE WriteSome
  <2>1. write_buf \in Seq(Requests) /\ write_buf # <<>>
    BY <1>14 DEF WriteSome, IInv, TypeOK, WriteInv
  <2>2. Len(write_buf) # 1 => write_buf' # <<>>
    BY <1>14, <2>1, TailNotEmpty DEF WriteSome
  <2> QED
    BY <1>14, <2>2 DEF WriteSome, IInv, WriteInv
<1>15. CASE EraseClosed
    BY <1>15 DEF EraseClosed, IInv, TypeOK, WriteInv
<1>16. CASE StopWorkers
    BY <1>16 DEF StopWorkers, IInv, TypeOK, WriteInv
<1>17. CASE JoinWorkers
    BY <1>17 DEF JoinWorkers, IInv, TypeOK, WriteInv
<1>35. CASE JoinMissesWorker
    BY <1>35 DEF JoinMissesWorker, IInv, TypeOK, WriteInv
<1>18. CASE EmergencyExit
    BY <1>18 DEF EmergencyExit, IInv, TypeOK, WriteInv
<1>19. CASE ClientCloses
    BY <1>19 DEF ClientCloses, IInv, TypeOK, WriteInv
<1>20. CASE ClientReceives
    BY <1>20 DEF ClientReceives, IInv, TypeOK, WriteInv
<1>21. ASSUME NEW r \in Requests, TakeMessage(r) PROVE WriteInv'
    BY <1>21 DEF TakeMessage, IInv, TypeOK, WriteInv
<1>22. ASSUME NEW r \in Requests, QueueResponse(r) PROVE WriteInv'
    BY <1>22 DEF QueueResponse, IInv, TypeOK, WriteInv
<1>23. ASSUME NEW r \in Requests, WorkerNudge(r) PROVE WriteInv'
    BY <1>23 DEF WorkerNudge, Nudge, IInv, TypeOK, WriteInv
<1>24. ASSUME NEW r \in Requests, ClientSends(r) PROVE WriteInv'
    BY <1>24 DEF ClientSends, IInv, TypeOK, WriteInv
<1>25. ASSUME NEW t \in Requests \cup {Main}, Interrupt(t) PROVE WriteInv'
    BY <1>25 DEF Interrupt, Alive, IInv, TypeOK, WriteInv
<1>26. ASSUME NEW t \in Requests \cup {Main}, Shutdown(t) PROVE WriteInv'
    BY <1>26 DEF Shutdown, Nudge, IInv, TypeOK, WriteInv
<1>27. CASE ParseArgs
    BY <1>27 DEF ParseArgs, IInv, TypeOK, WriteInv
<1>28. CASE SocketPair
    BY <1>28 DEF SocketPair, IInv, TypeOK, WriteInv
<1>29. CASE SetUpHandlers
    BY <1>29 DEF SetUpHandlers, IInv, TypeOK, WriteInv
<1>30. CASE StartListening
    BY <1>30 DEF StartListening, IInv, TypeOK, WriteInv
<1>31. CASE NudgeReadFails
    BY <1>31 DEF NudgeReadFails, IInv, TypeOK, WriteInv
<1>32. CASE ReleaseHandlers
    BY <1>32 DEF ReleaseHandlers, IInv, TypeOK, WriteInv
<1>33. CASE CloseNudge
    BY <1>33 DEF CloseNudge, IInv, TypeOK, WriteInv
<1>34. CASE UNCHANGED vars
    BY <1>34 DEF IInv, TypeOK, WriteInv
<1>37. ASSUME NEW r \in Requests, MessageHandled(r) PROVE WriteInv'
    BY <1>37 DEF MessageHandled, IInv, TypeOK, WriteInv
<1>38. ASSUME NEW t \in Requests \cup {Main}, SetUpEmergency(t) PROVE WriteInv'
    BY <1>38 DEF SetUpEmergency, IInv, TypeOK, WriteInv
<1>36. QED
    BY <1>1, <1>2, <1>3, <1>4, <1>5, <1>6, <1>7, <1>8, <1>9, <1>10, <1>11, <1>12, <1>13,
        <1>14, <1>15, <1>16, <1>17, <1>18, <1>19, <1>20, <1>21, <1>22, <1>23, <1>24,
        <1>25, <1>26, <1>27, <1>28, <1>29, <1>30, <1>31, <1>32, <1>33, <1>34, <1>35,
        <1>37, <1>38
        DEF Next, MainStep, WorkerStep, HandlerStep, Terminated

\* Every step keeps a request in one place until it is dispatched.
LEMMA FreshStep ==
    ASSUME IInv, [Next]_vars
    PROVE  FreshInv'
<1> USE DEF vars, loopVars, connVars, sigVars, lifeVars, clientVars,
        Starting, Looping, Ending, Held, Unreported
<1>1. CASE Select
    BY <1>1 DEF Select, Readable, IInv, TypeOK, FreshInv
<1>2. CASE SelectFails
    BY <1>2 DEF SelectFails, IInv, TypeOK, FreshInv
<1>3. CASE SkipNudge
    BY <1>3 DEF SkipNudge, IInv, TypeOK, FreshInv
<1>4. CASE ReadNudge
    BY <1>4 DEF ReadNudge, IInv, TypeOK, FreshInv
<1>5. CASE DispatchResponses
    BY <1>5 DEF DispatchResponses, IInv, TypeOK, FreshInv
<1>6. CASE SkipRead
    BY <1>6 DEF SkipRead, IInv, TypeOK, FreshInv
<1>7. CASE ReadData
    BY <1>7 DEF ReadData, IInv, TypeOK, FreshInv
<1>8. CASE ReadEof
    BY <1>8 DEF ReadEof, IInv, TypeOK, FreshInv
<1>9. CASE AnswerLocally
  <2>1. read_buf \in Seq(Requests) /\ read_buf # <<>> /\ read_buf' = Tail(read_buf)
    BY <1>9 DEF AnswerLocally, IInv, TypeOK
  <2>2. \A i \in DOMAIN read_buf' : i + 1 \in DOMAIN read_buf /\ read_buf'[i] = read_buf[i + 1]
    BY <2>1
  <2>3. \A i, j \in DOMAIN read_buf' : read_buf'[i] = read_buf'[j] => i = j
    <3>1. \A i \in DOMAIN read_buf' : i \in Nat
      BY <2>1
    <3> QED
      BY <2>2, <3>1 DEF IInv, FreshInv
  <2> QED
    BY <1>9, <2>2, <2>3 DEF AnswerLocally, IInv, FreshInv
<1>10. CASE SendToWorker
    BY <1>10, SMTT(30) DEF SendToWorker, IInv, TypeOK, FreshInv
<1>11. CASE DispatchDone
    BY <1>11 DEF DispatchDone, IInv, TypeOK, FreshInv
<1>12. CASE SelfNudge
    BY <1>12 DEF SelfNudge, Nudge, IInv, TypeOK, FreshInv
<1>13. CASE BeginWrite
    BY <1>13 DEF BeginWrite, IInv, TypeOK, FreshInv
<1>14. CASE WriteSome
    BY <1>14 DEF WriteSome, IInv, TypeOK, FreshInv
<1>15. CASE EraseClosed
    BY <1>15 DEF EraseClosed, IInv, TypeOK, FreshInv
<1>16. CASE StopWorkers
    BY <1>16 DEF StopWorkers, IInv, TypeOK, FreshInv
<1>17. CASE JoinWorkers
    BY <1>17 DEF JoinWorkers, IInv, TypeOK, FreshInv
<1>35. CASE JoinMissesWorker
    BY <1>35 DEF JoinMissesWorker, IInv, TypeOK, FreshInv
<1>18. CASE EmergencyExit
    BY <1>18 DEF EmergencyExit, IInv, TypeOK, FreshInv
<1>19. CASE ClientCloses
    BY <1>19 DEF ClientCloses, IInv, TypeOK, FreshInv
<1>20. CASE ClientReceives
    BY <1>20 DEF ClientReceives, IInv, TypeOK, FreshInv
<1>21. ASSUME NEW r \in Requests, TakeMessage(r) PROVE FreshInv'
    BY <1>21 DEF TakeMessage, IInv, TypeOK, FreshInv
<1>22. ASSUME NEW r \in Requests, QueueResponse(r) PROVE FreshInv'
    BY <1>22 DEF QueueResponse, IInv, TypeOK, FreshInv
<1>23. ASSUME NEW r \in Requests, WorkerNudge(r) PROVE FreshInv'
    BY <1>23 DEF WorkerNudge, Nudge, IInv, TypeOK, FreshInv
<1>24. ASSUME NEW r \in Requests, ClientSends(r) PROVE FreshInv'
    BY <1>24 DEF ClientSends, IInv, TypeOK, FreshInv
<1>25. ASSUME NEW t \in Requests \cup {Main}, Interrupt(t) PROVE FreshInv'
    BY <1>25 DEF Interrupt, Alive, IInv, TypeOK, FreshInv
<1>26. ASSUME NEW t \in Requests \cup {Main}, Shutdown(t) PROVE FreshInv'
    BY <1>26 DEF Shutdown, Nudge, IInv, TypeOK, FreshInv
<1>27. CASE ParseArgs
    BY <1>27 DEF ParseArgs, IInv, TypeOK, FreshInv
<1>28. CASE SocketPair
    BY <1>28 DEF SocketPair, IInv, TypeOK, FreshInv
<1>29. CASE SetUpHandlers
    BY <1>29 DEF SetUpHandlers, IInv, TypeOK, FreshInv
<1>30. CASE StartListening
    BY <1>30 DEF StartListening, IInv, TypeOK, FreshInv
<1>31. CASE NudgeReadFails
    BY <1>31 DEF NudgeReadFails, IInv, TypeOK, FreshInv
<1>32. CASE ReleaseHandlers
    BY <1>32 DEF ReleaseHandlers, IInv, TypeOK, FreshInv
<1>33. CASE CloseNudge
    BY <1>33 DEF CloseNudge, IInv, TypeOK, FreshInv
<1>34. CASE UNCHANGED vars
    BY <1>34 DEF IInv, TypeOK, FreshInv
<1>37. ASSUME NEW r \in Requests, MessageHandled(r) PROVE FreshInv'
    BY <1>37 DEF MessageHandled, IInv, TypeOK, FreshInv
<1>38. ASSUME NEW t \in Requests \cup {Main}, SetUpEmergency(t) PROVE FreshInv'
    BY <1>38 DEF SetUpEmergency, IInv, TypeOK, FreshInv
<1>36. QED
    BY <1>1, <1>2, <1>3, <1>4, <1>5, <1>6, <1>7, <1>8, <1>9, <1>10, <1>11, <1>12, <1>13,
        <1>14, <1>15, <1>16, <1>17, <1>18, <1>19, <1>20, <1>21, <1>22, <1>23, <1>24,
        <1>25, <1>26, <1>27, <1>28, <1>29, <1>30, <1>31, <1>32, <1>33, <1>34, <1>35,
        <1>37, <1>38
        DEF Next, MainStep, WorkerStep, HandlerStep, Terminated

\* Every step keeps the stages of the process apart: what is set up before the loop is
\* there throughout it, and what is taken down after join is out of everybody's reach.
LEMMA LifeStep ==
    ASSUME IInv, [Next]_vars
    PROVE  LifeInv'
<1> USE DEF vars, loopVars, connVars, sigVars, lifeVars, clientVars,
        Starting, Looping, Ending, Held, Unreported
<1>1. CASE Select
    BY <1>1 DEF Select, IInv, TypeOK, LifeInv
<1>2. CASE SelectFails
    BY <1>2 DEF SelectFails, IInv, TypeOK, LifeInv
<1>3. CASE SkipNudge
    BY <1>3 DEF SkipNudge, IInv, TypeOK, LifeInv
<1>4. CASE ReadNudge
    BY <1>4 DEF ReadNudge, IInv, TypeOK, LifeInv
<1>5. CASE DispatchResponses
    BY <1>5 DEF DispatchResponses, IInv, TypeOK, LifeInv
<1>6. CASE SkipRead
    BY <1>6 DEF SkipRead, IInv, TypeOK, LifeInv
<1>7. CASE ReadData
    BY <1>7 DEF ReadData, IInv, TypeOK, LifeInv
<1>8. CASE ReadEof
    BY <1>8 DEF ReadEof, IInv, TypeOK, LifeInv
<1>9. CASE AnswerLocally
    BY <1>9 DEF AnswerLocally, IInv, TypeOK, LifeInv
<1>10. CASE SendToWorker
    BY <1>10 DEF SendToWorker, IInv, TypeOK, LifeInv
<1>11. CASE DispatchDone
    BY <1>11 DEF DispatchDone, IInv, TypeOK, LifeInv
<1>12. CASE SelfNudge
    BY <1>12 DEF SelfNudge, Nudge, IInv, TypeOK, LifeInv
<1>13. CASE BeginWrite
    BY <1>13 DEF BeginWrite, IInv, TypeOK, LifeInv
<1>14. CASE WriteSome
    BY <1>14 DEF WriteSome, IInv, TypeOK, LifeInv
<1>15. CASE EraseClosed
    BY <1>15 DEF EraseClosed, IInv, TypeOK, LifeInv
<1>16. CASE StopWorkers
    BY <1>16 DEF StopWorkers, IInv, TypeOK, LifeInv
<1>17. CASE JoinWorkers
    BY <1>17 DEF JoinWorkers, IInv, TypeOK, LifeInv
<1>35. CASE JoinMissesWorker
    BY <1>35 DEF JoinMissesWorker, IInv, TypeOK, LifeInv
<1>18. CASE EmergencyExit
    BY <1>18 DEF EmergencyExit, IInv, TypeOK, LifeInv
<1>19. CASE ClientCloses
    BY <1>19 DEF ClientCloses, IInv, TypeOK, LifeInv
<1>20. CASE ClientReceives
    BY <1>20 DEF ClientReceives, IInv, TypeOK, LifeInv
<1>21. ASSUME NEW r \in Requests, TakeMessage(r) PROVE LifeInv'
    BY <1>21 DEF TakeMessage, IInv, TypeOK, LifeInv
<1>22. ASSUME NEW r \in Requests, QueueResponse(r) PROVE LifeInv'
    BY <1>22 DEF QueueResponse, IInv, TypeOK, LifeInv
<1>23. ASSUME NEW r \in Requests, WorkerNudge(r) PROVE LifeInv'
    BY <1>23 DEF WorkerNudge, Nudge, IInv, TypeOK, LifeInv
<1>24. ASSUME NEW r \in Requests, ClientSends(r) PROVE LifeInv'
    BY <1>24 DEF ClientSends, IInv, TypeOK, LifeInv
<1>25. ASSUME NEW t \in Requests \cup {Main}, Interrupt(t) PROVE LifeInv'
    BY <1>25 DEF Interrupt, Alive, IInv, TypeOK, LifeInv
<1>26. ASSUME NEW t \in Requests \cup {Main}, Shutdown(t) PROVE LifeInv'
    BY <1>26 DEF Shutdown, Nudge, IInv, TypeOK, LifeInv
<1>27. CASE ParseArgs
    BY <1>27 DEF ParseArgs, IInv, TypeOK, LifeInv
<1>28. CASE SocketPair
    BY <1>28 DEF SocketPair, IInv, TypeOK, LifeInv
<1>29. CASE SetUpHandlers
    BY <1>29 DEF SetUpHandlers, IInv, TypeOK, LifeInv
<1>30. CASE StartListening
    BY <1>30 DEF StartListening, IInv, TypeOK, LifeInv
<1>31. CASE NudgeReadFails
    BY <1>31 DEF NudgeReadFails, IInv, TypeOK, LifeInv
<1>32. CASE Main \notin Held /\ ReleaseHandlers
    BY <1>32 DEF ReleaseHandlers, IInv, TypeOK, LifeInv
<1>33. CASE CloseNudge
    BY <1>33 DEF CloseNudge, IInv, TypeOK, LifeInv
<1>34. CASE UNCHANGED vars
    BY <1>34 DEF IInv, LifeInv
<1>37. ASSUME NEW r \in Requests, MessageHandled(r) PROVE LifeInv'
    BY <1>37 DEF MessageHandled, IInv, TypeOK, LifeInv
<1>38. ASSUME NEW t \in Requests \cup {Main}, SetUpEmergency(t) PROVE LifeInv'
    BY <1>38 DEF SetUpEmergency, IInv, TypeOK, LifeInv
<1>36. QED
    BY <1>1, <1>2, <1>3, <1>4, <1>5, <1>6, <1>7, <1>8, <1>9, <1>10, <1>11, <1>12, <1>13,
        <1>14, <1>15, <1>16, <1>17, <1>18, <1>19, <1>20, <1>21, <1>22, <1>23, <1>24,
        <1>25, <1>26, <1>27, <1>28, <1>29, <1>30, <1>31, <1>32, <1>33, <1>34, <1>35,
        <1>37, <1>38
        DEF Next, MainStep, WorkerStep, HandlerStep, Terminated

\* Every step keeps a nudge on its way for the responses in the queue: a push is
\* followed by a byte, and the byte is read before the queue is emptied.
LEMMA NudgeStep ==
    ASSUME IInv, [Next]_vars
    PROVE  NoLostNudge'
<1> USE DEF vars, loopVars, connVars, sigVars, lifeVars, clientVars,
        Starting, Looping, Ending, Held, Unreported
<1>1. CASE Select
    BY <1>1 DEF Select, Readable, IInv, NoLostNudge, NudgeDue
<1>2. CASE SelectFails
    BY <1>2 DEF SelectFails, IInv, NoLostNudge, NudgeDue
<1>3. CASE SkipNudge
    BY <1>3 DEF SkipNudge, IInv, NoLostNudge, NudgeDue
<1>4. CASE ReadNudge
    BY <1>4 DEF ReadNudge, IInv, NoLostNudge, NudgeDue
<1>5. CASE DispatchResponses
    BY <1>5 DEF DispatchResponses, IInv, NoLostNudge, NudgeDue
<1>6. CASE SkipRead
    BY <1>6 DEF SkipRead, IInv, NoLostNudge, NudgeDue
<1>7. CASE ReadData
    BY <1>7 DEF ReadData, IInv, NoLostNudge, NudgeDue
<1>8. CASE ReadEof
    BY <1>8 DEF ReadEof, IInv, NoLostNudge, NudgeDue
<1>9. CASE AnswerLocally
    BY <1>9 DEF AnswerLocally, IInv, NoLostNudge, NudgeDue
<1>10. CASE SendToWorker
  <2>1. \A r \in Requests : wpc[r] = "nudge" => wpc'[r] = "nudge"
    BY <1>10 DEF SendToWorker, IInv, TypeOK, FreshInv
  <2> QED
    BY <1>10, <2>1 DEF SendToWorker, IInv, NoLostNudge, NudgeDue
<1>11. CASE DispatchDone
    BY <1>11 DEF DispatchDone, IInv, NoLostNudge, NudgeDue
<1>12. CASE SelfNudge
  <2>1. nudge' # <<>>
    BY <1>12, AppendNotEmpty DEF SelfNudge, Nudge, IInv, TypeOK
  <2> QED
    BY <1>12, <2>1 DEF SelfNudge, IInv, NoLostNudge, NudgeDue
<1>13. CASE BeginWrite
    BY <1>13 DEF BeginWrite, IInv, NoLostNudge, NudgeDue
<1>14. CASE WriteSome
    BY <1>14 DEF WriteSome, IInv, NoLostNudge, NudgeDue
<1>15. CASE EraseClosed
    BY <1>15 DEF EraseClosed, IInv, NoLostNudge, NudgeDue
<1>16. CASE StopWorkers
    BY <1>16 DEF StopWorkers, IInv, TypeOK, NoLostNudge, NudgeDue
<1>17. CASE JoinWorkers
    BY <1>17 DEF JoinWorkers, IInv, NoLostNudge, NudgeDue
<1>35. CASE JoinMissesWorker
    BY <1>35 DEF JoinMissesWorker, IInv, NoLostNudge, NudgeDue
<1>18. CASE EmergencyExit
    BY <1>18 DEF EmergencyExit, IInv, NoLostNudge, NudgeDue
<1>19. CASE ClientCloses
    BY <1>19 DEF ClientCloses, IInv, NoLostNudge, NudgeDue
<1>20. CASE ClientReceives
    BY <1>20 DEF ClientReceives, IInv, NoLostNudge, NudgeDue
<1>21. ASSUME NEW r \in Requests, TakeMessage(r) PROVE NoLostNudge'
    BY <1>21 DEF TakeMessage, IInv, NoLostNudge, NudgeDue
<1>22. ASSUME NEW r \in Requests, QueueResponse(r) PROVE NoLostNudge'
    BY <1>22 DEF QueueResponse, IInv, TypeOK, NoLostNudge, NudgeDue
<1>23. ASSUME NEW r \in Requests, WorkerNudge(r) PROVE NoLostNudge'
  <2>1. nudge' # <<>>
    BY <1>23, AppendNotEmpty DEF WorkerNudge, Nudge, IInv, TypeOK
  <2> QED
    BY <1>23, <2>1 DEF WorkerNudge, IInv, NoLostNudge, NudgeDue
<1>24. ASSUME NEW r \in Requests, ClientSends(r) PROVE NoLostNudge'
    BY <1>24 DEF ClientSends, IInv, NoLostNudge, NudgeDue
<1>25. ASSUME NEW t \in Requests \cup {Main}, Interrupt(t) PROVE NoLostNudge'
    BY <1>25 DEF Interrupt, Alive, IInv, NoLostNudge, NudgeDue
<1>26. ASSUME NEW t \in Requests \cup {Main}, Shutdown(t) PROVE NoLostNudge'
  <2>1. nudge' = nudge \/ nudge' # <<>>
    BY <1>26, AppendNotEmpty DEF Shutdown, Nudge, IInv, TypeOK
  <2> QED
    BY <1>26, <2>1 DEF Shutdown, IInv, NoLostNudge, NudgeDue
<1>27. CASE ParseArgs
    BY <1>27 DEF ParseArgs, IInv, NoLostNudge, NudgeDue
<1>28. CASE SocketPair
    BY <1>28 DEF SocketPair, IInv, NoLostNudge, NudgeDue
<1>29. CASE SetUpHandlers
    BY <1>29 DEF SetUpHandlers, IInv, NoLostNudge, NudgeDue
<1>30. CASE StartListening
    BY <1>30 DEF StartListening, IInv, NoLostNudge, NudgeDue
<1>31. CASE NudgeReadFails
    BY <1>31 DEF NudgeReadFails, IInv, NoLostNudge, NudgeDue
<1>32. CASE ReleaseHandlers
    BY <1>32 DEF ReleaseHandlers, IInv, NoLostNudge, NudgeDue
<1>33. CASE CloseNudge
    BY <1>33 DEF CloseNudge, IInv, NoLostNudge, NudgeDue
<1>34. CASE UNCHANGED vars
    BY <1>34 DEF IInv, NoLostNudge, NudgeDue
<1>37. ASSUME NEW r \in Requests, MessageHandled(r) PROVE NoLostNudge'
    BY <1>37 DEF MessageHandled, IInv, TypeOK, NoLostNudge, NudgeDue
<1>38. ASSUME NEW t \in Requests \cup {Main}, SetUpEmergency(t) PROVE NoLostNudge'
    BY <1>38 DEF SetUpEmergency, IInv, TypeOK, NoLostNudge, NudgeDue
<1>36. QED
    BY <1>1, <1>2, <1>3, <1>4, <1>5, <1>6, <1>7, <1>8, <1>9, <1>10, <1>11, <1>12, <1>13,
        <1>14, <1>15, <1>16, <1>17, <1>18, <1>19, <1>20, <1>21, <1>22, <1>23, <1>24,
        <1>25, <1>26, <1>27, <1>28, <1>29, <1>30, <1>31, <1>32, <1>33, <1>34, <1>35,
        <1>37, <1>38
        DEF Next, MainStep, WorkerStep, HandlerStep, Terminated

\* Every step keeps the 'S' in the socket until the loop ends: bytes are only added,
\* and the read that removes it leaves the loop.
LEMMA ShutdownStep ==
    ASSUME IInv, [Next]_vars
    PROVE  ShutdownRemembered'
<1> USE DEF vars, loopVars, connVars, sigVars, lifeVars, clientVars,
        Starting, Looping, Ending, Held, Unreported
<1>1. CASE Select
    BY <1>1 DEF Select, Readable, IInv, ShutdownRemembered
<1>2. CASE SelectFails
    BY <1>2 DEF SelectFails, IInv, ShutdownRemembered
<1>3. CASE SkipNudge
    BY <1>3 DEF SkipNudge, IInv, ShutdownRemembered
<1>4. CASE ReadNudge
    BY <1>4 DEF ReadNudge, IInv, ShutdownRemembered
<1>5. CASE DispatchResponses
    BY <1>5 DEF DispatchResponses, IInv, ShutdownRemembered
<1>6. CASE SkipRead
    BY <1>6 DEF SkipRead, IInv, ShutdownRemembered
<1>7. CASE ReadData
    BY <1>7 DEF ReadData, IInv, ShutdownRemembered
<1>8. CASE ReadEof
    BY <1>8 DEF ReadEof, IInv, ShutdownRemembered
<1>9. CASE AnswerLocally
    BY <1>9 DEF AnswerLocally, IInv, ShutdownRemembered
<1>10. CASE SendToWorker
    BY <1>10 DEF SendToWorker, IInv, ShutdownRemembered
<1>11. CASE DispatchDone
    BY <1>11 DEF DispatchDone, IInv, ShutdownRemembered
<1>12. CASE SelfNudge
  <2>1. \A i \in DOMAIN nudge : i \in DOMAIN nudge' /\ nudge'[i] = nudge[i]
    BY <1>12 DEF SelfNudge, Nudge, IInv, TypeOK
  <2> QED
    BY <1>12, <2>1 DEF SelfNudge, IInv, ShutdownRemembered
<1>13. CASE BeginWrite
    BY <1>13 DEF BeginWrite, IInv, ShutdownRemembered
<1>14. CASE WriteSome
    BY <1>14 DEF WriteSome, IInv, ShutdownRemembered
<1>15. CASE EraseClosed
    BY <1>15 DEF EraseClosed, IInv, ShutdownRemembered
<1>16. CASE StopWorkers
    BY <1>16 DEF StopWorkers, IInv, ShutdownRemembered
<1>17. CASE JoinWorkers
    BY <1>17 DEF JoinWorkers, IInv, ShutdownRemembered
<1>35. CASE JoinMissesWorker
    BY <1>35 DEF JoinMissesWorker, IInv, ShutdownRemembered
<1>18. CASE EmergencyExit
    BY <1>18 DEF EmergencyExit, IInv, ShutdownRemembered
<1>19. CASE ClientCloses
    BY <1>19 DEF ClientCloses, IInv, ShutdownRemembered
<1>20. CASE ClientReceives
    BY <1>20 DEF ClientReceives, IInv, ShutdownRemembered
<1>21. ASSUME NEW r \in Requests, TakeMessage(r) PROVE ShutdownRemembered'
    BY <1>21 DEF TakeMessage, IInv, ShutdownRemembered
<1>22. ASSUME NEW r \in Requests, QueueResponse(r) PROVE ShutdownRemembered'
    BY <1>22 DEF QueueResponse, IInv, ShutdownRemembered
<1>23. ASSUME NEW r \in Requests, WorkerNudge(r) PROVE ShutdownRemembered'
  <2>1. \A i \in DOMAIN nudge : i \in DOMAIN nudge' /\ nudge'[i] = nudge[i]
    BY <1>23 DEF WorkerNudge, Nudge, IInv, TypeOK
  <2> QED
    BY <1>23, <2>1 DEF WorkerNudge, IInv, ShutdownRemembered
<1>24. ASSUME NEW r \in Requests, ClientSends(r) PROVE ShutdownRemembered'
    BY <1>24 DEF ClientSends, IInv, ShutdownRemembered
<1>25. ASSUME NEW t \in Requests \cup {Main}, Interrupt(t) PROVE ShutdownRemembered'
    BY <1>25 DEF Interrupt, Alive, IInv, ShutdownRemembered
<1>26. ASSUME NEW t \in Requests \cup {Main}, Shutdown(t) PROVE ShutdownRemembered'
  <2>1. CASE socket = "open"
    <3>1. Len(nudge) + 1 \in DOMAIN nudge' /\ nudge'[Len(nudge) + 1] = "S"
      BY <1>26, <2>1 DEF Shutdown, Nudge, IInv, TypeOK
    <3> QED
      BY <3>1 DEF ShutdownRemembered
  <2>2. CASE socket # "open"
    <3>1. mpc \in Ending
      BY <1>26, <2>2 DEF Shutdown, IInv, TypeOK, LifeInv, MainPcs
    <3> QED
      BY <1>26, <3>1 DEF Shutdown, ShutdownRemembered
  <2> QED
    BY <2>1, <2>2
<1>27. CASE ParseArgs
    BY <1>27 DEF ParseArgs, IInv, ShutdownRemembered
<1>28. CASE SocketPair
    BY <1>28 DEF SocketPair, IInv, ShutdownRemembered
<1>29. CASE SetUpHandlers
    BY <1>29 DEF SetUpHandlers, IInv, ShutdownRemembered
<1>30. CASE StartListening
    BY <1>30 DEF StartListening, IInv, ShutdownRemembered
<1>31. CASE NudgeReadFails
    BY <1>31 DEF NudgeReadFails, IInv, ShutdownRemembered
<1>32. CASE ReleaseHandlers
    BY <1>32 DEF ReleaseHandlers, IInv, ShutdownRemembered
<1>33. CASE CloseNudge
    BY <1>33 DEF CloseNudge, IInv, ShutdownRemembered
<1>34. CASE UNCHANGED vars
    BY <1>34 DEF IInv, ShutdownRemembered
<1>37. ASSUME NEW r \in Requests, MessageHandled(r) PROVE ShutdownRemembered'
    BY <1>37 DEF MessageHandled, IInv, ShutdownRemembered
<1>38. ASSUME NEW t \in Requests \cup {Main}, SetUpEmergency(t) PROVE ShutdownRemembered'
    BY <1>38 DEF SetUpEmergency, IInv, ShutdownRemembered
<1>36. QED
    BY <1>1, <1>2, <1>3, <1>4, <1>5, <1>6, <1>7, <1>8, <1>9, <1>10, <1>11, <1>12, <1>13,
        <1>14, <1>15, <1>16, <1>17, <1>18, <1>19, <1>20, <1>21, <1>22, <1>23, <1>24,
        <1>25, <1>26, <1>27, <1>28, <1>29, <1>30, <1>31, <1>32, <1>33, <1>34, <1>35,
        <1>37, <1>38
        DEF Next, MainStep, WorkerStep, HandlerStep, Terminated

-----------------------------------------------------------------------------
\* IInv holds at first, and every step keeps it.
THEOREM Inductive == Spec => []IInv
<1>1. Init => IInv
  <2>1. ASSUME Init PROVE TypeOK
    BY <2>1, EmptyIsSeq DEF Init, TypeOK, MainPcs, Starting, Fds
  <2>2. Init => WriteInv /\ FreshInv /\ LifeInv /\ NoLostNudge /\ ShutdownRemembered
    BY DEF Init, WriteInv, FreshInv, LifeInv, NoLostNudge, ShutdownRemembered,
        Starting, Looping, Ending, Held, Unreported
  <2> QED
    BY <2>1, <2>2 DEF IInv
<1>2. IInv /\ [Next]_vars => IInv'
    BY TypeStep, WriteStep, FreshStep, LifeStep, NudgeStep, ShutdownStep DEF IInv
<1> QED
    BY <1>1, <1>2, PTL DEF Spec

\* Every variable of the main loop, the pool threads and the pipes keeps its type.
THEOREM TypeCorrect == Spec => []TypeOK
<1>1. IInv => TypeOK
    BY DEF IInv
<1> QED
    BY <1>1, Inductive, PTL

\* queue_response and dispatch_responses lose no wakeup between them: the main loop
\* never waits in select while a response sits in outgoing_messages with no byte in
\* the socket and none due.
THEOREM NudgeCorrect == Spec => []NoLostNudge
<1>1. IInv => NoLostNudge
    BY DEF IInv
<1> QED
    BY <1>1, Inductive, PTL

\* A shutdown request stays in the socket until the main loop leaves because of it.
THEOREM ShutdownCorrect == Spec => []ShutdownRemembered
<1>1. IInv => ShutdownRemembered
    BY DEF IInv
<1> QED
    BY <1>1, Inductive, PTL

\* The nudge socket is open for the workers that owe a nudge and for shutdown() on the
\* main thread, from the first signal that can be handled to the last response.
THEOREM SocketCorrect == Spec => []WritersFindSocket
<1>1. IInv => WritersFindSocket
  <2> SUFFICES ASSUME IInv, NudgeDue \/ Main \in handling \/ handlers = "handle_sig"
               PROVE  socket = "open"
    BY DEF WritersFindSocket
  <2>1. mpc \notin {"args", "socketpair", "done"}
    BY DEF IInv, TypeOK, LifeInv, NudgeDue, Starting, Held, Unreported
  <2> QED
    BY <2>1 DEF IInv, TypeOK, LifeInv, MainPcs, Starting, Looping, Ending
<1> QED
    BY <1>1, Inductive, PTL

-----------------------------------------------------------------------------
(***************************************************************************)
(* The refinement of Conduit.                                              *)
(***************************************************************************)

\* One sequence after another, as an operator that the provers leave alone, with the
\* facts about it that are needed.
Cat(s, t) == s \o t

\* Its type, length and elements.
LEMMA CatType ==
    ASSUME NEW s \in Seq(Requests), NEW t \in Seq(Requests)
    PROVE  /\ Cat(s, t) \in Seq(Requests) /\ Len(Cat(s, t)) = Len(s) + Len(t)
           /\ \A j \in 1..Len(s) : Cat(s, t)[j] = s[j]
           /\ \A j \in 1..Len(t) : Cat(s, t)[Len(s) + j] = t[j]
    BY ConcatProperties DEF Cat

\* Nothing is its unit.
LEMMA CatEmpty ==
    ASSUME NEW s \in Seq(Requests)
    PROVE  Cat(s, <<>>) = s
    BY ConcatEmptySeq DEF Cat

\* Every element comes from one of the two.
LEMMA CatElements ==
    ASSUME NEW s \in Seq(Requests), NEW t \in Seq(Requests)
    PROVE  \A i \in DOMAIN Cat(s, t) : \/ \E j \in DOMAIN s : Cat(s, t)[i] = s[j]
                                       \/ \E j \in DOMAIN t : Cat(s, t)[i] = t[j]
<1>1. PICK L \in Nat, M \in Nat : L = Len(s) /\ M = Len(t)
    OBVIOUS
<1>2. PICK u \in Seq(Requests) : u = Cat(s, t)
    BY CatType
<1>3. /\ DOMAIN s = 1..L /\ DOMAIN t = 1..M /\ DOMAIN u = 1..(L + M)
      /\ \A j \in 1..L : u[j] = s[j]
      /\ \A j \in 1..M : u[L + j] = t[j]
  <2>1. /\ Len(u) = Len(s) + Len(t) /\ \A j \in 1..Len(s) : u[j] = s[j]
        /\ \A j \in 1..Len(t) : u[Len(s) + j] = t[j]
    BY <1>2, CatType, ZenonT(60)
  <2>2. DOMAIN s = 1..L /\ DOMAIN t = 1..M /\ DOMAIN u = 1..Len(u)
    BY <1>1, <1>2
  <2> QED
    BY <1>1, <2>1, <2>2
<1>4. \A i \in 1..(L + M) : i \in 1..L \/ (i - L \in 1..M /\ L + (i - L) = i)
    OBVIOUS
<1>5. \A i \in DOMAIN u : \/ \E j \in DOMAIN s : u[i] = s[j]
                          \/ \E j \in DOMAIN t : u[i] = t[j]
    BY <1>3, <1>4
<1> QED
    BY <1>2, <1>5

\* What is put at the end ...
LEMMA CatAppend ==
    ASSUME NEW s \in Seq(Requests), NEW t \in Seq(Requests), NEW r \in Requests
    PROVE  Cat(s, Append(t, r)) = Append(Cat(s, t), r)
    BY DEF Cat

\* ... what is taken from the front ...
LEMMA CatHead ==
    ASSUME NEW s \in Seq(Requests), NEW t \in Seq(Requests), s # <<>>
    PROVE  /\ Cat(s, t) # <<>> /\ Head(Cat(s, t)) = Head(s)
           /\ Tail(Cat(s, t)) = Cat(Tail(s), t)
<1>1. Cat(s, t) # <<>>
    BY ConcatNotEmpty DEF Cat
<1>2. Head(Cat(s, t)) = Head(s)
    BY DEF Cat
<1>3. Tail(Cat(s, t)) = Cat(Tail(s), t)
    BY DEF Cat
<1> QED
    BY <1>1, <1>2, <1>3

\* ... and what moves from the second sequence to the first.
LEMMA CatShift ==
    ASSUME NEW s \in Seq(Requests), NEW t \in Seq(Requests), t # <<>>
    PROVE  Cat(Append(s, Head(t)), Tail(t)) = Cat(s, t)
    BY DEF Cat

\* The first sequence is what is left when the second is lost.
LEMMA CatFront ==
    ASSUME NEW s \in Seq(Requests), NEW t \in Seq(Requests)
    PROVE  s = SubSeq(Cat(s, t), 1, Len(s)) /\ Len(s) \in 0..Len(Cat(s, t))
<1>1. s = SubSeq(Cat(s, t), 1, Len(s))
    BY DEF Cat
<1>2. Len(Cat(s, t)) = Len(s) + Len(t)
    BY CatType
<1>3. Len(s) \in Nat /\ Len(t) \in Nat
    OBVIOUS
<1> QED
    BY <1>1, <1>2, <1>3

\* The elements of what is left without the first ...
LEMMA TailElements ==
    ASSUME NEW s \in Seq(Requests), s # <<>>
    PROVE  /\ Head(s) = s[1] /\ 1 \in DOMAIN s /\ Head(s) \in Requests
           /\ Tail(s) \in Seq(Requests)
           /\ \A i \in DOMAIN Tail(s) : i \in Nat /\ i + 1 \in DOMAIN s /\ i + 1 # 1
                                        /\ Tail(s)[i] = s[i + 1]
    BY HeadTailProperties, SMT

\* ... and with one more.
LEMMA AppendElements ==
    ASSUME NEW s \in Seq(Requests), NEW r \in Requests
    PROVE  \A i \in DOMAIN Append(s, r) : \/ i \in DOMAIN s /\ Append(s, r)[i] = s[i]
                                          \/ Append(s, r)[i] = r
    BY AppendProperties

\* A step that moves no request or response, and leaves the connection as it is.
Still ==
    /\ UNCHANGED <<unsent, stdin, read_buf, wpc>>
    /\ UNCHANGED <<outgoing_messages, write_buf, stdout, received, connected>>
    /\ mpc' \in Starting <=> mpc \in Starting
    /\ mpc' \in Looping \ {"select"} => mpc \in Looping \ {"select"} \/ connected

\* Every other step is one of these.
LEMMA StillOrNot ==
    ASSUME IInv, [Next]_vars
    PROVE  \/ Still
           \/ ParseArgs \/ SocketPair \/ StartListening
           \/ ReadData \/ AnswerLocally \/ SendToWorker \/ StopWorkers
           \/ DispatchResponses \/ WriteSome \/ EraseClosed \/ ClientReceives
           \/ \E r \in Requests : \/ TakeMessage(r) \/ QueueResponse(r) \/ WorkerNudge(r)
                                  \/ MessageHandled(r) \/ ClientSends(r)
<1> USE DEF vars, loopVars, connVars, sigVars, lifeVars, clientVars, Starting, Looping
<1>1. CASE SetUpHandlers \/ Select \/ SelectFails \/ SkipNudge \/ ReadNudge \/ NudgeReadFails
    BY <1>1 DEF SetUpHandlers, Select, SelectFails, SkipNudge, ReadNudge, NudgeReadFails, Still
<1>2. CASE SkipRead \/ ReadEof \/ DispatchDone \/ SelfNudge \/ BeginWrite
    BY <1>2 DEF SkipRead, ReadEof, DispatchDone, SelfNudge, BeginWrite, Still
<1>3. CASE JoinWorkers \/ JoinMissesWorker \/ ReleaseHandlers \/ CloseNudge
    BY <1>3 DEF JoinWorkers, JoinMissesWorker, ReleaseHandlers, CloseNudge, Still
<1>4. ASSUME NEW t \in Requests \cup {Main}, Interrupt(t) \/ Shutdown(t) \/ SetUpEmergency(t)
      PROVE  Still
    BY <1>4 DEF Interrupt, Shutdown, SetUpEmergency, Still
<1>5. CASE EmergencyExit \/ ClientCloses \/ UNCHANGED vars
    BY <1>5 DEF EmergencyExit, ClientCloses, Still
<1> QED
    BY <1>1, <1>2, <1>3, <1>4, <1>5 DEF Next, MainStep, WorkerStep, HandlerStep, Terminated

\* A request that has been given its response does not come back to be answered.
LEMMA GivenKept ==
    ASSUME IInv, [Next]_vars, NEW r \in Requests, Given(r)
    PROVE  Given(r)'
<1> USE DEF vars, loopVars, connVars, sigVars, lifeVars, clientVars
<1>0. /\ wpc \in [Requests -> {"none", "queued", "running", "nudge", "answered", "done",
                           "dropped"}]
      /\ stdin \in Seq(Requests) /\ read_buf \in Seq(Requests)
    BY DEF IInv, TypeOK
<1>1. CASE UNCHANGED <<unsent, stdin, read_buf, wpc>>
    BY <1>1 DEF Given
<1>2. CASE ReadData
  <2>1. read_buf' = Cat(read_buf, stdin) /\ DOMAIN stdin' = {} /\ UNCHANGED <<unsent, wpc>>
    BY <1>2 DEF ReadData, Cat
  <2>2. \A i \in DOMAIN read_buf' : read_buf'[i] # r
    BY <1>0, <2>1, CatElements DEF Given
  <2> QED
    BY <2>1, <2>2 DEF Given
<1>3. CASE AnswerLocally
  <2>1. read_buf # <<>> /\ read_buf' = Tail(read_buf) /\ UNCHANGED <<unsent, stdin, wpc>>
    BY <1>3 DEF AnswerLocally
  <2> QED
    BY <1>0, <2>1, TailElements DEF Given
<1>4. CASE SendToWorker
  <2>1. /\ read_buf # <<>> /\ read_buf' = Tail(read_buf) /\ UNCHANGED <<unsent, stdin>>
        /\ wpc' = [wpc EXCEPT ![Head(read_buf)] = "queued"]
    BY <1>4 DEF SendToWorker
  <2>2. r # Head(read_buf)
    BY <1>0, <2>1, TailElements DEF Given
  <2>3. wpc'[r] = wpc[r]
    BY <1>0, <2>1, <2>2
  <2> QED
    BY <1>0, <2>1, <2>3, TailElements DEF Given
<1>5. CASE StopWorkers
    BY <1>0, <1>5 DEF StopWorkers, Given
<1>6. ASSUME NEW q \in Requests, TakeMessage(q) \/ QueueResponse(q) \/ WorkerNudge(q)
                                     \/ MessageHandled(q)
      PROVE  Given(r)'
    BY <1>0, <1>6 DEF TakeMessage, QueueResponse, WorkerNudge, MessageHandled, Given
<1>7. ASSUME NEW q \in Requests, ClientSends(q) PROVE Given(r)'
  <2>1. /\ q \in unsent /\ unsent' = unsent \ {q} /\ stdin' = Append(stdin, q)
        /\ UNCHANGED <<read_buf, wpc>>
    BY <1>7 DEF ClientSends
  <2>2. q # r
    BY <2>1 DEF Given
  <2>3. \A i \in DOMAIN stdin' : stdin'[i] # r
    BY <1>0, <2>1, <2>2, AppendElements DEF Given
  <2> QED
    BY <2>1, <2>3 DEF Given
<1>8. CASE Still
    BY <1>1, <1>8 DEF Still
<1>9. CASE ParseArgs \/ SocketPair \/ StartListening \/ DispatchResponses \/ WriteSome
           \/ EraseClosed \/ ClientReceives
    BY <1>1, <1>9 DEF ParseArgs, SocketPair, StartListening, DispatchResponses, WriteSome,
                      EraseClosed, ClientReceives
<1> QED
    BY <1>2, <1>3, <1>4, <1>5, <1>6, <1>7, <1>8, <1>9, StillOrNot

\* The requests that have been given their responses.
Answered == {r \in Requests : Given(r)}

\* Every response in s is to a request that has been given its response.
Within(s, A) == \A i \in DOMAIN s : s[i] \in A

\* A step keeps the responses within the requests that have one.
LEMMA WithinNext ==
    ASSUME IInv, ChannelInv, [Next]_vars
    PROVE  /\ Within(outgoing_messages, Answered') /\ Within(write_buf, Answered')
           /\ Within(stdout, Answered') /\ Within(received, Answered')
<1>1. \A r \in Requests : Given(r) => Given(r)'
    BY GivenKept
<1>2. Answered \subseteq Answered'
    BY <1>1 DEF Answered
<1>3. /\ Within(outgoing_messages, Answered) /\ Within(write_buf, Answered)
      /\ Within(stdout, Answered) /\ Within(received, Answered)
    BY DEF IInv, TypeOK, ChannelInv, GivenInv, Within, Answered
<1> QED
    BY <1>2, <1>3 DEF Within

\* The same for two sequences, one after another ...
LEMMA WithinCat ==
    ASSUME NEW s \in Seq(Requests), NEW t \in Seq(Requests), NEW A,
           Within(s, A), Within(t, A)
    PROVE  Within(Cat(s, t), A)
    BY CatElements DEF Within

\* ... for one more response ...
LEMMA WithinAppend ==
    ASSUME NEW s \in Seq(Requests), NEW r \in Requests, NEW A, Within(s, A), r \in A
    PROVE  Within(Append(s, r), A)
    BY AppendElements DEF Within

\* ... and for one less.
LEMMA WithinTail ==
    ASSUME NEW s \in Seq(Requests), s # <<>>, NEW A, Within(s, A)
    PROVE  Within(Tail(s), A) /\ Head(s) \in A
    BY TailElements DEF Within

\* The request that the dispatcher answers itself is only in read_buf, and there once.
LEMMA AnswersOnce ==
    ASSUME IInv, AnswerLocally
    PROVE  Head(read_buf) \in Requests \ Answered /\ Head(read_buf) \in Answered'
<1> USE DEF connVars, clientVars
<1>1. /\ read_buf # <<>> /\ read_buf' = Tail(read_buf)
      /\ UNCHANGED <<unsent, stdin, wpc>> /\ read_buf \in Seq(Requests)
    BY DEF AnswerLocally, IInv, TypeOK
<1>2. PICK r \in Requests : r = Head(read_buf) /\ r = read_buf[1] /\ 1 \in DOMAIN read_buf
    BY <1>1, TailElements
<1>3. wpc[r] = "none" /\ r \notin unsent /\ \A j \in DOMAIN stdin : stdin[j] # r
    BY <1>2 DEF IInv, FreshInv
<1>4. \A i \in DOMAIN Tail(read_buf) : Tail(read_buf)[i] # r
    BY <1>1, <1>2, TailElements DEF IInv, FreshInv
<1>5. ~Given(r)
    BY <1>2 DEF Given
<1>6. Given(r)'
    BY <1>1, <1>3, <1>4 DEF Given
<1> QED
    BY <1>2, <1>5, <1>6 DEF Answered

\* The request that a worker answers is nowhere else.
LEMMA WorkerAnswersOnce ==
    ASSUME IInv, NEW r \in Requests, QueueResponse(r)
    PROVE  r \notin Answered /\ r \in Answered'
<1> USE DEF connVars, clientVars
<1>1. /\ wpc[r] = "running" /\ wpc' = [wpc EXCEPT ![r] = "nudge"]
      /\ UNCHANGED <<unsent, stdin, read_buf>> /\ wpc'[r] = "nudge"
    BY DEF QueueResponse, IInv, TypeOK
<1>2. /\ r \notin unsent /\ \A j \in DOMAIN stdin : stdin[j] # r
      /\ \A j \in DOMAIN read_buf : read_buf[j] # r
    BY <1>1 DEF IInv, FreshInv
<1>3. ~Given(r)
    BY <1>1 DEF Given
<1>4. Given(r)'
    BY <1>1, <1>2 DEF Given
<1> QED
    BY <1>3, <1>4 DEF Answered

\* Every step gives a response at most to a request that was still to be answered.
LEMMA GivenStep ==
    ASSUME IInv, ChannelInv, [Next]_vars
    PROVE  GivenInv'
<1> USE DEF vars, loopVars, connVars, sigVars, lifeVars, clientVars
<1> SUFFICES /\ Within(outgoing_messages', Answered') /\ Within(write_buf', Answered')
             /\ Within(stdout', Answered') /\ Within(received', Answered')
    BY DEF Within, Answered, GivenInv
<1>0. /\ outgoing_messages \in Seq(Requests) /\ write_buf \in Seq(Requests)
      /\ stdout \in Seq(Requests) /\ received \in Seq(Requests)
    BY DEF IInv, TypeOK
<1>1. /\ Within(outgoing_messages, Answered') /\ Within(write_buf, Answered')
      /\ Within(stdout, Answered') /\ Within(received, Answered')
    BY WithinNext
<1>2. Within(<<>>, Answered')
    BY DEF Within
<1>3. CASE UNCHANGED <<outgoing_messages, write_buf, stdout, received>>
    BY <1>1, <1>3
<1>4. CASE DispatchResponses
  <2>1. /\ write_buf' = Cat(write_buf, outgoing_messages) /\ outgoing_messages' = <<>>
        /\ UNCHANGED <<stdout, received>>
    BY <1>4 DEF DispatchResponses, Cat
  <2>2. Within(Cat(write_buf, outgoing_messages), Answered')
    BY <1>0, <1>1, WithinCat
  <2> QED
    BY <1>1, <1>2, <2>1, <2>2, Zenon
<1>5. CASE AnswerLocally
  <2>1. /\ outgoing_messages' = Append(outgoing_messages, Head(read_buf))
        /\ UNCHANGED <<write_buf, stdout, received>>
    BY <1>5 DEF AnswerLocally
  <2>2. Within(Append(outgoing_messages, Head(read_buf)), Answered')
    BY <1>0, <1>1, <1>5, AnswersOnce, WithinAppend
  <2> QED
    BY <1>1, <2>1, <2>2, Zenon
<1>6. ASSUME NEW r \in Requests, QueueResponse(r)
      PROVE  /\ Within(outgoing_messages', Answered')
             /\ UNCHANGED <<write_buf, stdout, received>>
  <2>1. /\ outgoing_messages' = Append(outgoing_messages, r)
        /\ UNCHANGED <<write_buf, stdout, received>>
    BY <1>6 DEF QueueResponse
  <2>2. Within(Append(outgoing_messages, r), Answered')
    BY <1>0, <1>1, <1>6, WorkerAnswersOnce, WithinAppend
  <2> QED
    BY <2>1, <2>2
<1>7. CASE WriteSome
  <2>1. /\ write_buf # <<>> /\ stdout' = Append(stdout, Head(write_buf))
        /\ write_buf' = Tail(write_buf) /\ UNCHANGED <<outgoing_messages, received>>
    BY <1>7 DEF WriteSome, IInv, WriteInv, Looping
  <2>2. Within(Tail(write_buf), Answered') /\ Head(write_buf) \in Answered'
    BY <1>0, <1>1, <2>1, WithinTail
  <2>3. Within(Append(stdout, Head(write_buf)), Answered')
    BY <1>0, <1>1, <2>1, <2>2, WithinAppend, TailElements
  <2> QED
    BY <1>1, <2>1, <2>2, <2>3, Zenon
<1>8. CASE EraseClosed
  <2>1. (write_buf' = write_buf \/ write_buf' = <<>>)
        /\ UNCHANGED <<outgoing_messages, stdout, received>>
    BY <1>8 DEF EraseClosed
  <2> QED
    BY <1>1, <1>2, <2>1, Zenon
<1>9. CASE ClientReceives
  <2>1. /\ stdout # <<>> /\ received' = Append(received, Head(stdout))
        /\ stdout' = Tail(stdout) /\ UNCHANGED <<outgoing_messages, write_buf>>
    BY <1>9 DEF ClientReceives
  <2>2. Within(Tail(stdout), Answered') /\ Head(stdout) \in Answered'
    BY <1>0, <1>1, <2>1, WithinTail
  <2>3. Within(Append(received, Head(stdout)), Answered')
    BY <1>0, <1>1, <2>1, <2>2, WithinAppend, TailElements
  <2> QED
    BY <1>1, <2>1, <2>2, <2>3, Zenon
<1>10. CASE \E r \in Requests : TakeMessage(r) \/ WorkerNudge(r) \/ MessageHandled(r)
                                    \/ ClientSends(r)
    BY <1>3, <1>10 DEF TakeMessage, WorkerNudge, MessageHandled, ClientSends
<1>11. CASE ParseArgs \/ SocketPair \/ StartListening \/ ReadData \/ SendToWorker \/ StopWorkers
    BY <1>3, <1>11 DEF ParseArgs, SocketPair, StartListening, ReadData, SendToWorker, StopWorkers
<1>12. CASE Still
    BY <1>3, <1>12 DEF Still
<1>13. CASE \E r \in Requests : QueueResponse(r)
  <2> PICK r \in Requests : QueueResponse(r)
    BY <1>13
  <2> QED
    BY <1>1, <1>6, Zenon
<1> QED
    BY <1>4, <1>5, <1>7, <1>8, <1>9, <1>10, <1>11, <1>12, <1>13, StillOrNot

\* Every step keeps the connection through a pass of the loop, and no response is
\* queued before there is one.
LEMMA ConnectedStep ==
    ASSUME IInv, ChannelInv, [Next]_vars
    PROVE  ConnectedInv'
<1> USE DEF vars, loopVars, connVars, sigVars, lifeVars, clientVars, Starting, Looping
<1>1. CASE Still
    BY <1>1 DEF Still, ChannelInv, ConnectedInv
<1>2. CASE ParseArgs \/ SocketPair \/ StartListening \/ StopWorkers
    BY <1>2 DEF ParseArgs, SocketPair, StartListening, StopWorkers, ChannelInv, ConnectedInv
<1>3. CASE ReadData \/ AnswerLocally \/ SendToWorker \/ DispatchResponses \/ WriteSome
           \/ EraseClosed
    BY <1>3 DEF ReadData, AnswerLocally, SendToWorker, DispatchResponses, WriteSome, EraseClosed,
                ChannelInv, ConnectedInv
<1>4. CASE ClientReceives
    BY <1>4 DEF ClientReceives, ChannelInv, ConnectedInv
<1>5. ASSUME NEW r \in Requests, QueueResponse(r) PROVE ConnectedInv'
    BY <1>5 DEF QueueResponse, ChannelInv, ConnectedInv, IInv, LifeInv, Unreported
<1>6. ASSUME NEW r \in Requests, TakeMessage(r) \/ WorkerNudge(r) \/ MessageHandled(r)
                                     \/ ClientSends(r)
      PROVE  ConnectedInv'
    BY <1>6 DEF TakeMessage, WorkerNudge, MessageHandled, ClientSends, ChannelInv, ConnectedInv
<1> QED
    BY <1>1, <1>2, <1>3, <1>4, <1>5, <1>6, StillOrNot

\* No response is given twice, and none without a connection to send it to.
THEOREM ChannelInductive == Spec => []ChannelInv
<1>1. Init => ChannelInv
    BY DEF Init, ChannelInv, GivenInv, ConnectedInv, Starting, Looping
<1>2. IInv /\ ChannelInv /\ [Next]_vars => ChannelInv'
    BY GivenStep, ConnectedStep DEF ChannelInv
<1> QED
    BY <1>1, <1>2, Inductive, PTL DEF Spec

\* What the server has queued for the connection and not yet written.
Queued == IF connected THEN Cat(write_buf, outgoing_messages) ELSE <<>>

\* What Conduit sees in flight is in the pipe or queued.
LEMMA InFlightIs ==
    /\ InFlight = Cat(stdout, Queued)
    /\ InFlight' = Cat(stdout', Queued')
    BY DEF InFlight, Queued, Cat

\* The types of all the places a response can be in.
LEMMA QueuedType ==
    ASSUME TypeOK
    PROVE  /\ stdout \in Seq(Requests) /\ write_buf \in Seq(Requests)
           /\ outgoing_messages \in Seq(Requests) /\ received \in Seq(Requests)
           /\ Queued \in Seq(Requests) /\ InFlight \in Seq(Requests)
<1>1. /\ stdout \in Seq(Requests) /\ write_buf \in Seq(Requests)
      /\ outgoing_messages \in Seq(Requests) /\ received \in Seq(Requests)
    BY DEF TypeOK
<1>2. Queued \in Seq(Requests)
    BY <1>1, CatType, EmptyIsSeq DEF Queued
<1> QED
    BY <1>1, <1>2, CatType, InFlightIs

\* A request whose response is on its way, or has arrived, is not answered again.
LEMMA NotTwice ==
    ASSUME IInv, ChannelInv, NEW r \in Requests \ Answered
    PROVE  /\ \A i \in DOMAIN InFlight : InFlight[i] # r
           /\ \A i \in DOMAIN received : received[i] # r
<1>1. /\ Within(outgoing_messages, Answered) /\ Within(write_buf, Answered)
      /\ Within(stdout, Answered) /\ Within(received, Answered)
    BY DEF IInv, TypeOK, ChannelInv, GivenInv, Within, Answered
<1>2. /\ stdout \in Seq(Requests) /\ write_buf \in Seq(Requests)
      /\ outgoing_messages \in Seq(Requests) /\ Queued \in Seq(Requests)
    BY QueuedType DEF IInv
<1>3. Within(Queued, Answered)
  <2>1. Within(<<>>, Answered)
    BY DEF Within
  <2>2. Within(Cat(write_buf, outgoing_messages), Answered)
    BY <1>1, <1>2, WithinCat
  <2> QED
    BY <2>1, <2>2 DEF Queued
<1>4. Within(InFlight, Answered)
    BY <1>1, <1>2, <1>3, WithinCat, InFlightIs
<1> QED
    BY <1>1, <1>4 DEF Within

\* queue_response, by the dispatcher or by a worker, puts the response at the end of the
\* channel, or nowhere once the connection is gone.
LEMMA PutStep ==
    ASSUME IInv, ChannelInv, NEW r \in Requests \ Answered,
           outgoing_messages' = Append(outgoing_messages, r),
           UNCHANGED <<write_buf, stdout, received, connected>>,
           mpc \notin Starting, mpc' \notin Starting
    PROVE  [Channel!Next]_(Channel!cvars)
<1>1. /\ stdout \in Seq(Requests) /\ write_buf \in Seq(Requests)
      /\ outgoing_messages \in Seq(Requests) /\ Queued \in Seq(Requests)
    BY QueuedType DEF IInv
<1>2. CASE connected
  <2>1. Queued = Cat(write_buf, outgoing_messages)
    BY <1>2 DEF Queued
  <2>2. Queued' = Append(Queued, r)
    BY <1>1, <1>2, <2>1, CatAppend DEF Queued
  <2>3. InFlight' = Append(InFlight, r)
    <3>1. InFlight' = Cat(stdout, Append(Queued, r))
      BY <2>2, InFlightIs
    <3> QED
      BY <1>1, <3>1, CatAppend, InFlightIs
  <2>4. \A i \in DOMAIN InFlight : InFlight[i] # r
    BY NotTwice
  <2>5. \A i \in DOMAIN received : received[i] # r
    BY NotTwice
  <2>6. Channel!Put(r)
    BY <1>2, <2>3, <2>4, <2>5, Zenon DEF Channel!Put
  <2> QED
    BY <2>6 DEF Channel!Next
<1>3. CASE ~connected
  <2>1. Queued = <<>> /\ Queued' = <<>>
    BY <1>3 DEF Queued
  <2>2. InFlight' = InFlight
    BY <2>1, InFlightIs
  <2> QED
    BY <2>2 DEF Channel!cvars
<1> QED
    BY <1>2, <1>3

\* The client takes the oldest response from the pipe, which is the oldest of all.
LEMMA GetStep ==
    ASSUME IInv, ClientReceives
    PROVE  Channel!Next
<1> USE DEF loopVars, connVars
<1>1. /\ stdout # <<>> /\ received' = Append(received, Head(stdout)) /\ stdout' = Tail(stdout)
      /\ UNCHANGED <<write_buf, outgoing_messages, connected, mpc>>
    BY DEF ClientReceives
<1>2. stdout \in Seq(Requests) /\ Queued \in Seq(Requests) /\ Queued' = Queued
    BY <1>1, QueuedType DEF IInv, Queued
<1>3. InFlight' = Cat(Tail(stdout), Queued) /\ InFlight = Cat(stdout, Queued)
    BY <1>1, <1>2, InFlightIs
<1>4. InFlight # <<>> /\ Head(InFlight) = Head(stdout) /\ InFlight' = Tail(InFlight)
    BY <1>1, <1>2, <1>3, CatHead
<1>5. Channel!Get
    BY <1>1, <1>4 DEF Channel!Get
<1> QED
    BY <1>5 DEF Channel!Next

\* When the connection goes, or is never made, what is left is what the pipe holds.
LEMMA CloseStep ==
    ASSUME IInv, connected \/ mpc \in Starting, ~(connected' \/ mpc' \in Starting),
           UNCHANGED <<stdout, received>>
    PROVE  Channel!Next
<1>1. stdout \in Seq(Requests) /\ Queued \in Seq(Requests) /\ Queued' = <<>>
    BY QueuedType DEF IInv, Queued
<1>2. InFlight = Cat(stdout, Queued) /\ InFlight' = stdout
    BY <1>1, InFlightIs, CatEmpty
<1>3. InFlight' = SubSeq(InFlight, 1, Len(stdout)) /\ Len(stdout) \in 0..Len(InFlight)
    BY <1>1, <1>2, CatFront
<1>4. \E n \in 0..Len(InFlight) : InFlight' = SubSeq(InFlight, 1, n)
    BY <1>3, Zenon
<1>5. Channel!Close
    BY <1>4, Zenon DEF Channel!Close
<1> QED
    BY <1>5 DEF Channel!Next

\* Every step of the server is a step of the channel, or none.
LEMMA ConduitStep ==
    ASSUME IInv, ChannelInv, [Next]_vars
    PROVE  [Channel!Next]_(Channel!cvars)
<1> USE DEF vars, loopVars, connVars, sigVars, lifeVars, clientVars
<1>0. /\ stdout \in Seq(Requests) /\ write_buf \in Seq(Requests)
      /\ outgoing_messages \in Seq(Requests) /\ received \in Seq(Requests)
    BY QueuedType DEF IInv
<1>1. CASE /\ UNCHANGED <<outgoing_messages, write_buf, stdout, received, connected>>
           /\ mpc' \in Starting <=> mpc \in Starting
  <2>1. InFlight' = InFlight
    BY <1>1 DEF InFlight
  <2> QED
    BY <1>1, <2>1 DEF Channel!cvars
<1>2. CASE DispatchResponses
  <2>1. /\ write_buf' = Cat(write_buf, outgoing_messages) /\ outgoing_messages' = <<>>
        /\ UNCHANGED <<stdout, received, connected>> /\ mpc \notin Starting /\ mpc' \notin Starting
    BY <1>2 DEF DispatchResponses, Cat, Starting
  <2>2. Queued' = Queued
    BY <1>0, <2>1, CatType, CatEmpty DEF Queued
  <2>3. InFlight' = InFlight
    BY <2>1, <2>2, InFlightIs
  <2> QED
    BY <2>1, <2>3 DEF Channel!cvars
<1>3. CASE WriteSome
  <2>1. /\ write_buf # <<>> /\ stdout' = Append(stdout, Head(write_buf))
        /\ write_buf' = Tail(write_buf) /\ UNCHANGED <<outgoing_messages, received, connected>>
        /\ mpc \notin Starting /\ mpc' \notin Starting /\ connected
    BY <1>3 DEF WriteSome, IInv, WriteInv, ChannelInv, ConnectedInv, Looping, Starting
  <2>2. PICK q \in Seq(Requests) : q = Cat(write_buf, outgoing_messages)
    BY <1>0, CatType
  <2>3. Queued = q /\ Queued' = Tail(q) /\ q # <<>> /\ Head(q) = Head(write_buf)
    BY <1>0, <2>1, <2>2, CatHead DEF Queued
  <2>4. InFlight' = Cat(Append(stdout, Head(q)), Tail(q))
    BY <2>1, <2>3, InFlightIs
  <2>5. InFlight' = InFlight
    BY <1>0, <2>2, <2>3, <2>4, CatShift, InFlightIs
  <2> QED
    BY <2>1, <2>5 DEF Channel!cvars
<1>4. CASE EraseClosed
  <2>1. /\ connected /\ mpc' \notin Starting /\ mpc \notin Starting
        /\ UNCHANGED <<outgoing_messages, stdout, received>>
    BY <1>4 DEF EraseClosed, ChannelInv, ConnectedInv, Looping, Starting
  <2>2. CASE closing
    BY <1>4, <2>1, <2>2, CloseStep DEF EraseClosed
  <2>3. CASE ~closing
    <3>1. connected' = connected /\ write_buf' = write_buf
      BY <1>4, <2>1, <2>3 DEF EraseClosed
    <3> QED
      BY <1>1, <2>1, <3>1
  <2> QED
    BY <2>2, <2>3
<1>5. CASE ClientReceives
    BY <1>5, GetStep
<1>6. CASE AnswerLocally
  <2>1. /\ outgoing_messages' = Append(outgoing_messages, Head(read_buf))
        /\ UNCHANGED <<write_buf, stdout, received, connected>>
        /\ mpc \notin Starting /\ mpc' \notin Starting
    BY <1>6 DEF AnswerLocally, Starting
  <2>2. Head(read_buf) \in Requests \ Answered
    BY <1>6, AnswersOnce
  <2> QED
    BY <2>1, <2>2, PutStep
<1>7. ASSUME NEW r \in Requests, QueueResponse(r) PROVE [Channel!Next]_(Channel!cvars)
  <2>1. /\ outgoing_messages' = Append(outgoing_messages, r)
        /\ UNCHANGED <<write_buf, stdout, received, connected>>
        /\ mpc \notin Starting /\ mpc' \notin Starting
    BY <1>7 DEF QueueResponse, IInv, LifeInv, Unreported
  <2>2. r \in Requests \ Answered
    BY <1>7, WorkerAnswersOnce
  <2> QED
    BY <2>1, <2>2, PutStep
<1>8. CASE ParseArgs \/ SocketPair \/ StartListening
  <2>1. /\ mpc \in Starting /\ ~connected
        /\ UNCHANGED <<outgoing_messages, write_buf, stdout, received>>
    BY <1>8 DEF ParseArgs, SocketPair, StartListening, ChannelInv, ConnectedInv, Starting
  <2>2. outgoing_messages = <<>> /\ write_buf = <<>> /\ stdout = <<>>
    BY <2>1 DEF ChannelInv, ConnectedInv
  <2>3. CASE ~(connected' \/ mpc' \in Starting)
    BY <2>1, <2>3, CloseStep
  <2>4. CASE connected' \/ mpc' \in Starting
    <3>1. Queued = <<>> /\ Queued' = <<>>
      BY <1>0, <2>1, <2>2, CatEmpty DEF Queued
    <3>2. InFlight' = InFlight
      BY <2>1, <3>1, InFlightIs
    <3> QED
      BY <2>1, <2>4, <3>2 DEF Channel!cvars
  <2> QED
    BY <2>3, <2>4
<1>9. CASE \E r \in Requests : TakeMessage(r) \/ WorkerNudge(r) \/ MessageHandled(r)
                                   \/ ClientSends(r)
    BY <1>1, <1>9 DEF TakeMessage, WorkerNudge, MessageHandled, ClientSends
<1>10. CASE ReadData \/ SendToWorker \/ StopWorkers
    BY <1>1, <1>10 DEF ReadData, SendToWorker, StopWorkers, Starting
<1>11. CASE Still
    BY <1>1, <1>11 DEF Still
<1> QED
    BY <1>2, <1>3, <1>4, <1>5, <1>6, <1>7, <1>8, <1>9, <1>10, <1>11, StillOrNot

\* The server is one first-in first-out channel to the client: through the queue, the
\* write buffer and the pipe no response overtakes another, comes twice or is left out
\* until the connection is closed, however the workers' pushes, their nudges, the signals
\* and the failures of select and read interleave.
THEOREM ConduitCorrect == Spec => ImplementsConduit
<1>1. Init => Channel!Init
  <2>1. ASSUME Init PROVE InFlight = <<>> /\ received = <<>> /\ mpc \in Starting
    <3>1. stdout = <<>> /\ Queued = <<>> /\ received = <<>> /\ mpc \in Starting
      BY <2>1 DEF Init, Queued, Starting
    <3> QED
      BY <3>1, CatEmpty, EmptyIsSeq, InFlightIs
  <2> QED
    BY <2>1 DEF Channel!Init
<1>2. IInv /\ ChannelInv /\ [Next]_vars => [Channel!Next]_(Channel!cvars)
    BY ConduitStep
<1> QED
    BY <1>1, <1>2, Inductive, ChannelInductive, PTL DEF Spec, ImplementsConduit, Channel!Spec
=============================================================================
