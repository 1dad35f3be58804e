-------------------------- MODULE ConnectionProofs --------------------------
(***************************************************************************)
(* Proofs about Connection, for any number of callers and closers, any     *)
(* kinds of calls and timeouts, and pipes of any capacity.                 *)
(***************************************************************************)
EXTENDS Connection, SequenceTheorems, FiniteSetTheorems, TLAPS

(***************************************************************************)
(* The inductive invariant behind them.                                    *)
(***************************************************************************)

\* Where a thread holds the lock: exactly in the middle of send, check and close.
Holding == {"write", "parse", "more", "failing", "closing"}
LockInv == \A t \in Threads : pc[t] \in Holding <=> lock = t

\* The table of callbacks: a caller is in it at most once, from its send to its answer.
TableInv ==
    /\ \A i, j \in DOMAIN pending : pending[i] = pending[j] => i = j
    /\ \A c \in Callers :
          /\ Waiting(c) => results[c] = <<>>
          /\ results[c] \in {<<>>, <<"own">>, <<"closed">>}
          /\ pc[c] = "idle" => ~Waiting(c) /\ results[c] = <<>>
          /\ pc[c] = "write" => Waiting(c)
    /\ closed => DOMAIN pending = {}

\* What the server holds at each stage of its loop.
SrvInv ==
    /\ srv = "select" => write_buf = <<>>
    /\ srv = "writing" => write_buf # <<>>
    /\ srv = "ended" => stdin = <<>> /\ working = {} /\ outgoing = <<>> /\ write_buf = <<>>

\* An id on its way was given out by send, and to the caller that the message is from.
Sound(m) == m.id < next_id /\ (m.id \in DOMAIN pending => pending[m.id] = m.from)
IdInv == /\ \A j \in DOMAIN stdin : Sound(stdin[j])
         /\ \A m \in working : Sound(m)
         /\ \A j \in DOMAIN Incoming : Sound(Incoming[j])

\* An id is in one place only, but for a length, which stands in front of its message;
\* and nowhere before the request is written.
OnceInv ==
    /\ \A j, k \in DOMAIN stdin : stdin[j].id = stdin[k].id => j = k
    /\ \A m, n \in working : m.id = n.id => m = n
    /\ \A j, k \in DOMAIN Incoming :
          j < k /\ Incoming[j].id = Incoming[k].id
              => k = j + 1 /\ Incoming[j].part = "len" /\ Incoming[k].part # "len"
    /\ \A j \in DOMAIN stdin, m \in working : stdin[j].id # m.id
    /\ \A j \in DOMAIN stdin, k \in DOMAIN Incoming : stdin[j].id # Incoming[k].id
    /\ \A m \in working, k \in DOMAIN Incoming : m.id # Incoming[k].id

Unwritten(i) == /\ \A j \in DOMAIN stdin : stdin[j].id # i
                /\ \A m \in working : m.id # i
                /\ \A j \in DOMAIN Incoming : Incoming[j].id # i

Underway(i) == \/ \E j \in DOMAIN stdin : stdin[j].id = i
               \/ \E m \in working : m.id = i
               \/ \E j \in DOMAIN Incoming : Incoming[j].id = i /\ Incoming[j].part # "len"

\* A call that waits has not been written yet, or is underway.
FlowInv ==
    \A i \in DOMAIN pending :
        /\ pc[pending[i]] = "write" => Unwritten(i)
        /\ srv # "ended" /\ pc[pending[i]] # "write" /\ Kind[pending[i]] # "get" => Underway(i)

\* As long as no worker sends a payload, what the client has to parse is lengths and
\* messages by turns, read_msg_len belongs to the message it waits for, and every
\* response has its callback.
NoPuts == \A c \in Callers : Kind[c] # "put"

Framed(s, n) ==
    /\ \A j \in 1..Len(s) : s[j].part # "raw"
    /\ \A j \in 1..(Len(s) - 1) : /\ s[j].part = "len" <=> s[j + 1].part # "len"
                                  /\ s[j].part = "len" => s[j + 1].id = s[j].id
    /\ Len(s) > 0 => /\ s[1].part = "len" <=> n = None
                     /\ n # None => s[1].id = n

\* No length without its message, at the end.
Whole(s, n) == IF Len(s) > 0 THEN s[Len(s)].part # "len" ELSE n = None

FrameInv ==
    NoPuts =>
        /\ Framed(Incoming, read_msg_len)
        /\ srv # "ended" => Whole(Incoming, read_msg_len)
        /\ ~closed => /\ \A j \in DOMAIN stdin : stdin[j].id \in DOMAIN pending
                      /\ \A m \in working : m.id \in DOMAIN pending
                      /\ \A j \in DOMAIN Incoming : Incoming[j].id \in DOMAIN pending

IInv == TypeOK /\ LockInv /\ TableInv /\ SrvInv /\ IdInv /\ OnceInv /\ FlowInv /\ FrameInv

-----------------------------------------------------------------------------

\* A response is a sequence of tokens that carry the id and the sender of its request:
\* a length and a message, a payload alone, or nothing.
LEMMA ResponseShape ==
    ASSUME NEW m \in Messages
    PROVE  /\ Response(m) \in Seq(Tokens)
           /\ Kind[m.from] = "framed" => Len(Response(m)) = 2
                 /\ Response(m)[1] = [part |-> "len", id |-> m.id, from |-> m.from]
                 /\ Response(m)[2] = [part |-> "body", id |-> m.id, from |-> m.from]
           /\ Kind[m.from] = "put" => Len(Response(m)) = 1
                 /\ Response(m)[1] = [part |-> "raw", id |-> m.id, from |-> m.from]
           /\ Kind[m.from] = "get" => Response(m) = <<>>
<1>1. Kind[m.from] \in {"framed", "put", "get"} /\ m.id \in Nat /\ m.from \in Callers
    BY ConnectionAssumption DEF Messages
<1>2. \A p \in {"len", "body", "raw"} : [part |-> p, id |-> m.id, from |-> m.from] \in Tokens
    BY <1>1 DEF Tokens
<1>3. CASE Kind[m.from] = "framed"
    BY <1>2, <1>3 DEF Response
<1>4. CASE Kind[m.from] = "put"
    BY <1>2, <1>4 DEF Response
<1>5. CASE Kind[m.from] = "get"
    BY <1>5, EmptySeq DEF Response
<1> QED
    BY <1>1, <1>3, <1>4, <1>5

-----------------------------------------------------------------------------
\* The id that Write sends is the one under which the callback was registered.
LEMMA MsgIdRegistered ==
    ASSUME TypeOK, TableInv, NEW c \in Callers, pc[c] = "write"
    PROVE  MsgId(c) \in DOMAIN pending /\ pending[MsgId(c)] = c /\ MsgId(c) \in Nat
<1>1. \E i \in DOMAIN pending : pending[i] = c
    BY DEF TableInv, Waiting
<1>2. MsgId(c) \in DOMAIN pending /\ pending[MsgId(c)] = c
    BY <1>1 DEF MsgId
<1> QED
    BY <1>2 DEF TypeOK

\* Every step keeps the types.
LEMMA TypeStep ==
    ASSUME IInv, [Next]_vars
    PROVE  TypeOK'
<1> USE DEF vars, connVars, pipeVars, srvVars, Goto
<1>0. TypeOK /\ Callers \subseteq Threads /\ Closers \subseteq Threads
    BY DEF IInv, Threads
<1>1. ASSUME NEW c \in Callers, SendClosed(c) PROVE TypeOK'
  <2>1. Append(results[c], "closed") \in Seq({"own", "other", "closed"})
    BY <1>0 DEF TypeOK
  <2> QED
    BY <1>0, <1>1, <2>1 DEF SendClosed, AfterSend, TypeOK, Pcs
<1>2. ASSUME NEW c \in Callers, Send(c) PROVE TypeOK'
  <2>1. DOMAIN pending' \subseteq 0..(next_id' - 1)
    BY <1>0, <1>2 DEF Send, TypeOK
  <2>2. \A i \in DOMAIN pending' : pending'[i] \in Callers
    BY <1>0, <1>2 DEF Send, TypeOK
  <2> QED
    BY <1>0, <1>2, <2>1, <2>2 DEF Send, TypeOK, Pcs
<1>3. ASSUME NEW c \in Callers, Write(c) PROVE TypeOK'
  <2>1. [id |-> MsgId(c), from |-> c] \in Messages
    BY <1>3, MsgIdRegistered DEF IInv, Write, Messages
  <2>2. stdin' \in Seq(Messages)
    BY <1>0, <1>3, <2>1, AppendProperties DEF Write, TypeOK
  <2> QED
    BY <1>0, <1>3, <2>2 DEF Write, AfterSend, TypeOK, Pcs
<1>4. ASSUME NEW c \in Callers, WriteFails(c) PROVE TypeOK'
    BY <1>0, <1>4 DEF WriteFails, TypeOK, Pcs
<1>5. ASSUME NEW c \in Callers, Check(c) PROVE TypeOK'
    BY <1>0, <1>5 DEF Check, TypeOK, Pcs
<1>6. ASSUME NEW c \in Callers, NeedMoreData(c) PROVE TypeOK'
    BY <1>0, <1>6 DEF NeedMoreData, TypeOK, Pcs
<1>7. ASSUME NEW c \in Callers, ReadLength(c) PROVE TypeOK'
  <2>1. Head(read_buf) \in Tokens /\ Tail(read_buf) \in Seq(Tokens)
    BY <1>0, <1>7, HeadTailProperties DEF ReadLength, TypeOK
  <2> QED
    BY <1>0, <1>7, <2>1 DEF ReadLength, TypeOK, Tokens
<1>8. ASSUME NEW c \in Callers, HandleMessage(c) PROVE TypeOK'
  <2>1. Tail(read_buf) \in Seq(Tokens)
    BY <1>0, <1>8, HeadTailProperties DEF HandleMessage, TypeOK
  <2>2. Callback \in Callers
    BY <1>0, <1>8 DEF HandleMessage, Callback, TypeOK
  <2>3. \A v \in {"own", "other"} :
            Append(results[Callback], v) \in Seq({"own", "other", "closed"})
    BY <1>0, <2>2 DEF TypeOK
  <2>4. results' \in [Callers -> Seq({"own", "other", "closed"})]
    BY <1>0, <1>8, <2>2, <2>3 DEF HandleMessage, CallBack, TypeOK
  <2>5. /\ DOMAIN pending' \subseteq 0..(next_id' - 1)
        /\ \A i \in DOMAIN pending' : pending'[i] \in Callers
    BY <1>0, <1>8 DEF HandleMessage, Restrict, TypeOK
  <2> QED
    BY <1>0, <1>8, <2>1, <2>4, <2>5 DEF HandleMessage, TypeOK, Pcs
<1>9. ASSUME NEW c \in Callers, RefuseMessage(c) PROVE TypeOK'
    BY <1>0, <1>9 DEF RefuseMessage, Fail, TypeOK, Pcs
<1>10. ASSUME NEW c \in Callers, TimeOut(c) PROVE TypeOK'
    BY <1>0, <1>10 DEF TimeOut, TypeOK, Pcs
<1>11. ASSUME NEW c \in Callers, Read(c) PROVE TypeOK'
  <2>1. PICK n \in 1..Len(stdout) : /\ read_buf' = read_buf \o SubSeq(stdout, 1, n)
                                    /\ stdout' = SubSeq(stdout, n + 1, Len(stdout))
    BY <1>11 DEF Read
  <2>2. SubSeq(stdout, 1, n) \in Seq(Tokens) /\ stdout' \in Seq(Tokens)
    BY <1>0, <2>1, SMTT(30) DEF TypeOK
  <2>3. read_buf' \in Seq(Tokens)
    BY <1>0, <2>1, <2>2, ConcatProperties DEF TypeOK
  <2> QED
    BY <1>0, <1>11, <2>2, <2>3 DEF Read, TypeOK, Pcs
<1>12. ASSUME NEW c \in Callers, ReadEof(c) PROVE TypeOK'
    BY <1>0, <1>12 DEF ReadEof, Fail, TypeOK, Pcs
<1>13. ASSUME NEW c \in Callers, ReadClosed(c) PROVE TypeOK'
    BY <1>0, <1>13 DEF ReadClosed, TypeOK, Pcs
<1>14. ASSUME NEW c \in Callers, Test(c) PROVE TypeOK'
    BY <1>0, <1>14 DEF Test, TypeOK, Pcs
<1>15. ASSUME NEW t \in Closers, Close(t) PROVE TypeOK'
    BY <1>0, <1>15 DEF Close, TypeOK, Pcs
<1>16. ASSUME NEW t \in Threads, Cleanup(t) PROVE TypeOK'
  <2>1. \A c \in Callers : Append(results[c], "closed") \in Seq({"own", "other", "closed"})
    BY <1>0 DEF TypeOK
  <2>2. results' \in [Callers -> Seq({"own", "other", "closed"})]
    BY <1>0, <1>16, <2>1 DEF Cleanup, TypeOK
  <2>3. DOMAIN pending' = {}
    BY <1>16 DEF Cleanup
  <2> QED
    BY <1>0, <1>16, <2>2, <2>3 DEF Cleanup, TypeOK, Pcs
<1>17. CASE SrvRequest
  <2>1. Head(stdin) \in Messages /\ Tail(stdin) \in Seq(Messages)
    BY <1>0, <1>17, HeadTailProperties DEF SrvRequest, TypeOK
  <2>2. outgoing \o Response(Head(stdin)) \in Seq(Tokens)
    BY <1>0, <2>1, ResponseShape, ConcatProperties DEF TypeOK
  <2> QED
    BY <1>0, <1>17, <2>1, <2>2 DEF SrvRequest, TypeOK
<1>18. CASE WorkerResponds
  <2>1. PICK m \in working : /\ working' = working \ {m}
                             /\ outgoing' = outgoing \o Response(m)
    BY <1>18 DEF WorkerResponds
  <2>2. outgoing' \in Seq(Tokens)
    BY <1>0, <2>1, ResponseShape, ConcatProperties DEF TypeOK
  <2> QED
    BY <1>0, <1>18, <2>1, <2>2 DEF WorkerResponds, TypeOK
<1>19. CASE SrvFlush
    BY <1>0, <1>19, EmptySeq DEF SrvFlush, TypeOK
<1>20. CASE SrvWrite
  <2>1. Head(write_buf) \in Tokens /\ Tail(write_buf) \in Seq(Tokens)
    BY <1>0, <1>20, HeadTailProperties DEF SrvWrite, IInv, SrvInv, TypeOK
  <2>2. stdout' \in Seq(Tokens)
    BY <1>0, <1>20, <2>1, AppendProperties DEF SrvWrite, TypeOK
  <2> QED
    BY <1>0, <1>20, <2>1, <2>2 DEF SrvWrite, TypeOK
<1>21. CASE SrvGone
    BY <1>0, <1>21, EmptySeq DEF SrvGone, TypeOK
<1>22. CASE UNCHANGED vars
    BY <1>0, <1>22 DEF TypeOK
<1> QED
    BY <1>1, <1>2, <1>3, <1>4, <1>5, <1>6, <1>7, <1>8, <1>9, <1>10, <1>11, <1>12, <1>13, <1>14,
       <1>15, <1>16, <1>17, <1>18, <1>19, <1>20, <1>21, <1>22
       DEF Next, Proceed, Select, SrvLoop, SrvEnds, SrvDies, Terminated

-----------------------------------------------------------------------------
(***************************************************************************)
(* What the client has still to parse, as one sequence.                    *)
(***************************************************************************)
\* One sequence after another, as an operator that the provers leave alone, with the
\* facts about it that are needed.
Cat(s, t) == s \o t

\* Its type, length and elements.
LEMMA CatType ==
    ASSUME NEW s \in Seq(Tokens), NEW t \in Seq(Tokens)
    PROVE  /\ Cat(s, t) \in Seq(Tokens) /\ Len(Cat(s, t)) = Len(s) + Len(t)
           /\ \A j \in 1..Len(s) : Cat(s, t)[j] = s[j]
           /\ \A j \in 1..Len(t) : Cat(s, t)[Len(s) + j] = t[j]
    BY ConcatProperties DEF Cat

\* It is associative ...
LEMMA CatAssociative ==
    ASSUME NEW s \in Seq(Tokens), NEW t \in Seq(Tokens), NEW u \in Seq(Tokens)
    PROVE  Cat(Cat(s, t), u) = Cat(s, Cat(t, u))
    BY ConcatAssociative DEF Cat

\* ... with nothing as its unit.
LEMMA CatEmpty ==
    ASSUME NEW s \in Seq(Tokens)
    PROVE  Cat(s, <<>>) = s
    BY ConcatEmptySeq DEF Cat

\* What is taken from the first sequence ...
LEMMA CatTail ==
    ASSUME NEW s \in Seq(Tokens), NEW t \in Seq(Tokens), s # <<>>
    PROVE  Tail(Cat(s, t)) = Cat(Tail(s), t)
    BY DEF Cat

\* ... and what moves from the second to the first.
LEMMA CatShift ==
    ASSUME NEW s \in Seq(Tokens), NEW t \in Seq(Tokens), t # <<>>
    PROVE  Cat(Append(s, Head(t)), Tail(t)) = Cat(s, t)
    BY DEF Cat

\* What is on its way to the client, in either grouping.
LEMMA IncomingType ==
    ASSUME TypeOK
    PROVE  /\ Incoming \in Seq(Tokens)
           /\ Incoming = Cat(Cat(Cat(read_buf, stdout), write_buf), outgoing)
           /\ Incoming = Cat(read_buf, Cat(stdout, Cat(write_buf, outgoing)))
<1>1. Incoming = Cat(Cat(Cat(read_buf, stdout), write_buf), outgoing)
    BY DEF Incoming, Cat
<1>2. /\ read_buf \in Seq(Tokens) /\ stdout \in Seq(Tokens)
      /\ write_buf \in Seq(Tokens) /\ outgoing \in Seq(Tokens)
    BY DEF TypeOK
<1>3. Cat(read_buf, stdout) \in Seq(Tokens) /\ Cat(write_buf, outgoing) \in Seq(Tokens)
    BY <1>2, CatType
<1>4. Incoming = Cat(Cat(read_buf, stdout), Cat(write_buf, outgoing))
    BY <1>1, <1>2, <1>3, CatAssociative
<1> QED
    BY <1>1, <1>2, <1>3, <1>4, CatAssociative, CatType

\* The parser looks at the oldest token of all.
LEMMA IncomingHead ==
    ASSUME TypeOK, read_buf # <<>>
    PROVE  Incoming # <<>> /\ 1 \in DOMAIN Incoming /\ Incoming[1] = Head(read_buf)
<1>1. read_buf \in Seq(Tokens) /\ Len(read_buf) \in Nat \ {0} /\ Head(read_buf) = read_buf[1]
    BY DEF TypeOK
<1>2. stdout \in Seq(Tokens) /\ write_buf \in Seq(Tokens) /\ outgoing \in Seq(Tokens)
    BY DEF TypeOK
<1>3. PICK rest \in Seq(Tokens) : Incoming = Cat(read_buf, rest)
    BY <1>2, IncomingType, CatType
<1>4. /\ Incoming \in Seq(Tokens) /\ Len(Incoming) = Len(read_buf) + Len(rest)
      /\ \A j \in 1..Len(read_buf) : Incoming[j] = read_buf[j]
    BY <1>1, <1>3, CatType, Zenon
<1>5. Len(rest) \in Nat
    BY <1>3
<1> QED
    BY <1>1, <1>4, <1>5

\* A token that is parsed leaves at the front.
LEMMA IncomingParsed ==
    ASSUME TypeOK, TypeOK', read_buf # <<>>, read_buf' = Tail(read_buf),
           UNCHANGED <<stdout, write_buf, outgoing>>
    PROVE  Incoming' = Tail(Incoming)
<1>1. read_buf \in Seq(Tokens)
    BY DEF TypeOK
<1>2. stdout \in Seq(Tokens) /\ write_buf \in Seq(Tokens) /\ outgoing \in Seq(Tokens)
    BY DEF TypeOK
<1> DEFINE rest == Cat(stdout, Cat(write_buf, outgoing))
<1>3. rest \in Seq(Tokens)
    BY <1>2, CatType
<1>4. Incoming = Cat(read_buf, rest)
    BY IncomingType
<1>5. Incoming' = Cat(read_buf', Cat(stdout', Cat(write_buf', outgoing')))
    BY SMTT(30) DEF Incoming, Cat
<1>6. Incoming' = Cat(Tail(read_buf), rest)
    BY <1>5
<1> HIDE DEF rest
<1> QED
    BY <1>1, <1>3, <1>4, <1>6, CatTail

\* A response that the server queues joins at the end.
LEMMA IncomingQueued ==
    ASSUME TypeOK, TypeOK', NEW r \in Seq(Tokens), outgoing' = outgoing \o r,
           UNCHANGED <<read_buf, stdout, write_buf>>
    PROVE  Incoming' = Incoming \o r
<1>1. /\ read_buf \in Seq(Tokens) /\ stdout \in Seq(Tokens)
      /\ write_buf \in Seq(Tokens) /\ outgoing \in Seq(Tokens)
    BY DEF TypeOK
<1> DEFINE front == Cat(Cat(read_buf, stdout), write_buf)
<1>2. front \in Seq(Tokens)
    BY <1>1, CatType
<1>3. Incoming = Cat(front, outgoing)
    BY IncomingType
<1>4. Incoming' = Cat(Cat(Cat(read_buf', stdout'), write_buf'), outgoing')
    BY DEF Incoming, Cat
<1>5. outgoing' = Cat(outgoing, r)
    BY DEF Cat
<1>6. Incoming' = Cat(front, Cat(outgoing, r))
    BY <1>4, <1>5
<1> HIDE DEF front
<1>7. Incoming' = Cat(Incoming, r)
    BY <1>1, <1>2, <1>3, <1>6, CatAssociative
<1> QED
    BY <1>7 DEF Cat

\* Nothing is reordered on the way: a read, the server's taking its responses into
\* write_buf and its writing move the border between two parts of the sequence.
LEMMA IncomingRead ==
    ASSUME TypeOK, TypeOK', NEW n \in 1..Len(stdout),
           read_buf' = read_buf \o SubSeq(stdout, 1, n),
           stdout' = SubSeq(stdout, n + 1, Len(stdout)),
           UNCHANGED <<write_buf, outgoing>>
    PROVE  Incoming' = Incoming
<1>1. read_buf \in Seq(Tokens) /\ stdout \in Seq(Tokens) /\ stdout' \in Seq(Tokens)
    BY DEF TypeOK
<1>2. SubSeq(stdout, 1, n) \in Seq(Tokens)
    BY <1>1
<1>3. SubSeq(stdout, 1, n) \o stdout' = stdout
    BY <1>1, ConcatAdjacentSubSeq, SubSeqFull
<1>4. Cat(SubSeq(stdout, 1, n), stdout') = stdout
    BY <1>3 DEF Cat
<1>5. read_buf' = Cat(read_buf, SubSeq(stdout, 1, n))
    BY DEF Cat
<1>6. Cat(read_buf', stdout') = Cat(read_buf, stdout)
  <2>1. Cat(Cat(read_buf, SubSeq(stdout, 1, n)), stdout')
        = Cat(read_buf, Cat(SubSeq(stdout, 1, n), stdout'))
    BY <1>1, <1>2, CatAssociative, ZenonT(60)
  <2> QED
    BY <1>4, <1>5, <2>1
<1>7. Incoming' = Cat(Cat(Cat(read_buf', stdout'), write_buf'), outgoing')
    BY DEF Incoming, Cat
<1> QED
    BY <1>6, <1>7, IncomingType

\* dispatch_responses moves outgoing to write_buf, which changes nothing for the client.
LEMMA IncomingFlushed ==
    ASSUME TypeOK, TypeOK', write_buf = <<>>, write_buf' = outgoing, outgoing' = <<>>,
           UNCHANGED <<read_buf, stdout>>
    PROVE  Incoming' = Incoming
<1>1. /\ read_buf \in Seq(Tokens) /\ stdout \in Seq(Tokens) /\ outgoing \in Seq(Tokens)
    BY DEF TypeOK
<1>2. Incoming = Cat(Cat(Cat(read_buf, stdout), <<>>), outgoing)
    BY IncomingType
<1>3. Incoming' = Cat(Cat(Cat(read_buf', stdout'), write_buf'), outgoing')
    BY DEF Incoming, Cat
<1>4. Incoming' = Cat(Cat(Cat(read_buf, stdout), outgoing), <<>>)
    BY <1>3
<1> QED
    BY <1>1, <1>2, <1>4, CatType, CatEmpty

\* Nor does write() change anything for it, which moves one token into the pipe.
LEMMA IncomingWritten ==
    ASSUME TypeOK, TypeOK', write_buf # <<>>, stdout' = Append(stdout, Head(write_buf)),
           write_buf' = Tail(write_buf), UNCHANGED <<read_buf, outgoing>>
    PROVE  Incoming' = Incoming
<1>1. /\ read_buf \in Seq(Tokens) /\ stdout \in Seq(Tokens) /\ write_buf \in Seq(Tokens)
      /\ stdout' \in Seq(Tokens) /\ write_buf' \in Seq(Tokens)
    BY DEF TypeOK
<1>2. Cat(stdout', write_buf') = Cat(stdout, write_buf)
    BY <1>1, CatShift
<1>3. Cat(Cat(read_buf, stdout'), write_buf') = Cat(Cat(read_buf, stdout), write_buf)
  <2>1. Cat(Cat(read_buf, stdout'), write_buf') = Cat(read_buf, Cat(stdout', write_buf'))
    BY <1>1, CatAssociative, ZenonT(60)
  <2>2. Cat(Cat(read_buf, stdout), write_buf) = Cat(read_buf, Cat(stdout, write_buf))
    BY <1>1, CatAssociative
  <2> QED
    BY <1>2, <2>1, <2>2
<1>4. Incoming' = Cat(Cat(Cat(read_buf', stdout'), write_buf'), outgoing')
    BY DEF Incoming, Cat
<1> QED
    BY <1>3, <1>4, IncomingType

\* When the server's process ends, what it had not written is cut off the end.
LEMMA IncomingCut ==
    ASSUME TypeOK, TypeOK', write_buf' = <<>>, outgoing' = <<>>, UNCHANGED <<read_buf, stdout>>
    PROVE  /\ Incoming' \in Seq(Tokens) /\ Len(Incoming') <= Len(Incoming)
           /\ \A j \in 1..Len(Incoming') : Incoming'[j] = Incoming[j]
<1>1. /\ read_buf \in Seq(Tokens) /\ stdout \in Seq(Tokens)
      /\ write_buf \in Seq(Tokens) /\ outgoing \in Seq(Tokens)
    BY DEF TypeOK
<1>2. Incoming' = Cat(Cat(Cat(read_buf', stdout'), write_buf'), outgoing')
    BY DEF Incoming, Cat
<1>3. Incoming' = Cat(read_buf, stdout)
    BY <1>1, <1>2, CatType, CatEmpty
<1>4. PICK a \in Seq(Tokens), b \in Seq(Tokens) : Incoming' = a /\ Incoming = Cat(a, b)
  <2>1. Cat(read_buf, stdout) \in Seq(Tokens) /\ Cat(write_buf, outgoing) \in Seq(Tokens)
    BY <1>1, CatType
  <2>2. Incoming = Cat(Cat(read_buf, stdout), Cat(write_buf, outgoing))
    BY <1>1, <2>1, IncomingType, CatAssociative
  <2> QED
    BY <1>3, <2>1, <2>2
<1>5. /\ Incoming' \in Seq(Tokens) /\ Len(Incoming) = Len(Incoming') + Len(b)
      /\ \A j \in 1..Len(Incoming') : Incoming[j] = Incoming'[j]
    BY <1>4, CatType, Zenon
<1>6. Len(b) \in Nat
    BY <1>4
<1> QED
    BY <1>5, <1>6

-----------------------------------------------------------------------------
\* A step that leaves alone the ids, the callbacks and what is on its way; the
\* invariants about those need to look only at the others, the loud ones.
Quiet ==
    /\ UNCHANGED <<stdin, working, pending, next_id, read_msg_len, closed>>
    /\ Incoming' = Incoming
    /\ srv' = "ended" <=> srv = "ended"
    /\ UNCHANGED results \/ \E c \in Callers : SendClosed(c)
    /\ \A c \in Callers : /\ pc'[c] = "idle" => pc[c] = "idle"
                          /\ pc'[c] = "write" => pc[c] = "write"
                          /\ srv # "ended" /\ pc[c] = "write" => pc'[c] = "write"

Loud ==
    \/ \E c \in Callers : Send(c) \/ Write(c) \/ ReadLength(c) \/ HandleMessage(c)
    \/ \E t \in Threads : Cleanup(t)
    \/ SrvRequest \/ WorkerResponds \/ SrvGone

\* Every step is one or the other.
LEMMA QuietOrLoud ==
    ASSUME IInv, [Next]_vars
    PROVE  Quiet \/ Loud
<1> USE DEF vars, connVars, pipeVars, srvVars, Goto
<1>0. /\ TypeOK /\ TypeOK' /\ Callers \subseteq Threads /\ Closers \subseteq Threads
      /\ pc \in [Threads -> Pcs] /\ Closers \cap Callers = {}
    BY TypeStep, ConnectionAssumption DEF IInv, Threads, TypeOK
<1>1. ASSUME UNCHANGED <<read_buf, stdout, write_buf, outgoing>> PROVE Incoming' = Incoming
    BY <1>1 DEF Incoming
<1>2. ASSUME NEW c \in Callers, SendClosed(c) PROVE Quiet
    BY <1>0, <1>1, <1>2 DEF SendClosed, AfterSend, Quiet
<1>3. ASSUME NEW c \in Callers, WriteFails(c) PROVE Quiet
    BY <1>0, <1>1, <1>3 DEF WriteFails, Quiet
<1>4. ASSUME NEW c \in Callers, Check(c) PROVE Quiet
    BY <1>0, <1>1, <1>4 DEF Check, Quiet
<1>5. ASSUME NEW c \in Callers, NeedMoreData(c) PROVE Quiet
    BY <1>0, <1>1, <1>5 DEF NeedMoreData, Quiet
<1>6. ASSUME NEW c \in Callers, RefuseMessage(c) PROVE Quiet
    BY <1>0, <1>1, <1>6 DEF RefuseMessage, Fail, Quiet
<1>7. ASSUME NEW c \in Callers, TimeOut(c) PROVE Quiet
    BY <1>0, <1>1, <1>7 DEF TimeOut, Quiet
<1>8. ASSUME NEW c \in Callers, Read(c) PROVE Quiet
  <2>1. Incoming' = Incoming
    BY <1>0, <1>8, IncomingRead DEF Read
  <2> QED
    BY <1>0, <1>8, <2>1 DEF Read, Quiet
<1>9. ASSUME NEW c \in Callers, ReadEof(c) PROVE Quiet
    BY <1>0, <1>1, <1>9 DEF ReadEof, Fail, Quiet
<1>10. ASSUME NEW c \in Callers, ReadClosed(c) PROVE Quiet
    BY <1>0, <1>1, <1>10 DEF ReadClosed, Quiet
<1>11. ASSUME NEW c \in Callers, Test(c) PROVE Quiet
    BY <1>0, <1>1, <1>11 DEF Test, Quiet
<1>12. ASSUME NEW t \in Closers, Close(t) PROVE Quiet
    BY <1>0, <1>1, <1>12 DEF Close, Quiet
<1>13. CASE SrvFlush
  <2>1. Incoming' = Incoming
    BY <1>0, <1>13, IncomingFlushed DEF SrvFlush, IInv, SrvInv
  <2> QED
    BY <1>13, <2>1 DEF SrvFlush, Quiet
<1>14. CASE SrvWrite
  <2>1. Incoming' = Incoming
    BY <1>0, <1>14, IncomingWritten DEF SrvWrite, IInv, SrvInv
  <2> QED
    BY <1>14, <2>1 DEF SrvWrite, Quiet
<1>15. CASE UNCHANGED vars
    BY <1>1, <1>15 DEF Quiet
<1> QED
    BY <1>2, <1>3, <1>4, <1>5, <1>6, <1>7, <1>8, <1>9, <1>10, <1>11, <1>12, <1>13, <1>14, <1>15
       DEF Next, Proceed, Select, SrvLoop, SrvEnds, SrvDies, Terminated, Loud

-----------------------------------------------------------------------------
\* The lock is held exactly by the thread that is in the middle of an operation.
LEMMA LockStep ==
    ASSUME IInv, [Next]_vars
    PROVE  LockInv'
<1> USE DEF vars, connVars, pipeVars, srvVars, Goto, Holding, LockInv
<1>0. /\ Callers \subseteq Threads /\ Closers \subseteq Threads /\ None \notin Threads
      /\ pc \in [Threads -> Pcs] /\ LockInv
    BY ConnectionAssumption DEF IInv, Threads, TypeOK
<1>1. ASSUME NEW c \in Callers, SendClosed(c) PROVE LockInv'
    BY <1>0, <1>1 DEF SendClosed, AfterSend
<1>2. ASSUME NEW c \in Callers, Send(c) PROVE LockInv'
    BY <1>0, <1>2 DEF Send
<1>3. ASSUME NEW c \in Callers, Write(c) PROVE LockInv'
    BY <1>0, <1>3 DEF Write, AfterSend
<1>4. ASSUME NEW c \in Callers, WriteFails(c) PROVE LockInv'
    BY <1>0, <1>4 DEF WriteFails
<1>5. ASSUME NEW c \in Callers, Check(c) PROVE LockInv'
    BY <1>0, <1>5 DEF Check
<1>6. ASSUME NEW c \in Callers, NeedMoreData(c) PROVE LockInv'
    BY <1>0, <1>6 DEF NeedMoreData
<1>7. ASSUME NEW c \in Callers, ReadLength(c) PROVE LockInv'
    BY <1>0, <1>7 DEF ReadLength
<1>8. ASSUME NEW c \in Callers, HandleMessage(c) PROVE LockInv'
    BY <1>0, <1>8 DEF HandleMessage
<1>9. ASSUME NEW c \in Callers, RefuseMessage(c) PROVE LockInv'
    BY <1>0, <1>9 DEF RefuseMessage, Fail
<1>10. ASSUME NEW c \in Callers, TimeOut(c) PROVE LockInv'
    BY <1>0, <1>10 DEF TimeOut
<1>11. ASSUME NEW c \in Callers, Read(c) PROVE LockInv'
    BY <1>0, <1>11 DEF Read
<1>12. ASSUME NEW c \in Callers, ReadEof(c) PROVE LockInv'
    BY <1>0, <1>12 DEF ReadEof, Fail
<1>13. ASSUME NEW c \in Callers, ReadClosed(c) PROVE LockInv'
    BY <1>0, <1>13 DEF ReadClosed
<1>14. ASSUME NEW c \in Callers, Test(c) PROVE LockInv'
    BY <1>0, <1>14 DEF Test
<1>15. ASSUME NEW t \in Closers, Close(t) PROVE LockInv'
    BY <1>0, <1>15 DEF Close
<1>16. ASSUME NEW t \in Threads, Cleanup(t) PROVE LockInv'
    BY <1>0, <1>16 DEF Cleanup
<1>17. CASE SrvRequest \/ WorkerResponds \/ SrvFlush \/ SrvWrite \/ SrvGone \/ UNCHANGED vars
    BY <1>0, <1>17 DEF SrvRequest, WorkerResponds, SrvFlush, SrvWrite, SrvGone
<1> QED
    BY <1>1, <1>2, <1>3, <1>4, <1>5, <1>6, <1>7, <1>8, <1>9, <1>10, <1>11, <1>12, <1>13, <1>14,
       <1>15, <1>16, <1>17 DEF Next, Proceed, Select, SrvLoop, SrvEnds, SrvDies, Terminated

\* What a callback is called with is the response to its own request: the id of a
\* response that has a callback was given to the thread that the response is for.
LEMMA HandledIsOwn ==
    ASSUME IInv, NEW c \in Callers, HandleMessage(c)
    PROVE  /\ Callback \in Callers /\ Waiting(Callback) /\ results[Callback] = <<>>
           /\ Head(read_buf).id \in DOMAIN pending
           /\ pending[Head(read_buf).id] = Callback
           /\ results' = [results EXCEPT ![Callback] = <<"own">>]
<1>1. /\ TypeOK /\ read_buf # <<>> /\ Head(read_buf).id \in DOMAIN pending
      /\ pending[Head(read_buf).id] = Callback
    BY DEF IInv, HandleMessage, Callback
<1>2. Callback \in Callers /\ Waiting(Callback)
    BY <1>1 DEF TypeOK, Waiting
<1>3. results[Callback] = <<>>
    BY <1>2 DEF IInv, TableInv
<1>4. Head(read_buf).from = Callback
    BY <1>1, IncomingHead DEF IInv, IdInv, Sound
<1>5. results' = [results EXCEPT ![Callback] = Append(<<>>, "own")]
    BY <1>1, <1>2, <1>3, <1>4 DEF HandleMessage, CallBack, TypeOK
<1> QED
    BY <1>1, <1>2, <1>3, <1>5

\* The table of callbacks.
LEMMA TableStep ==
    ASSUME IInv, [Next]_vars
    PROVE  TableInv'
<1> USE DEF vars, connVars, pipeVars, srvVars, Goto
<1>0. /\ Callers \subseteq Threads /\ pc \in [Threads -> Pcs] /\ TableInv
      /\ TypeOK /\ results \in [Callers -> Seq({"own", "other", "closed"})]
    BY ConnectionAssumption DEF IInv, Threads, TypeOK
<1>1. ASSUME UNCHANGED <<pending, results, closed>>,
             \A c \in Callers : /\ pc'[c] = "idle" => pc[c] = "idle"
                                /\ pc'[c] = "write" => pc[c] = "write"
      PROVE  TableInv'
    BY <1>0, <1>1 DEF TableInv, Waiting
<1>2. ASSUME NEW c \in Callers, SendClosed(c) PROVE TableInv'
  <2>1. results[c] = <<>> /\ ~Waiting(c)
    BY <1>0, <1>2 DEF SendClosed, TableInv
  <2>2. results' = [results EXCEPT ![c] = <<"closed">>]
    BY <1>0, <1>2, <2>1 DEF SendClosed
  <2>3. UNCHANGED <<pending, closed>> /\ closed /\ pc' = [pc EXCEPT ![c] = AfterSend(c)]
    BY <1>2 DEF SendClosed
  <2> QED
    BY <1>0, <2>1, <2>2, <2>3 DEF TableInv, Waiting, AfterSend
<1>3. ASSUME NEW c \in Callers, Send(c) PROVE TableInv'
  <2>1. /\ next_id \notin DOMAIN pending /\ ~closed /\ ~closed' /\ UNCHANGED results
        /\ DOMAIN pending' = DOMAIN pending \cup {next_id} /\ pending'[next_id] = c
        /\ \A i \in DOMAIN pending : pending'[i] = pending[i]
        /\ pc' = [pc EXCEPT ![c] = "write"]
    BY <1>0, <1>3 DEF Send, TypeOK
  <2>2. results[c] = <<>> /\ ~Waiting(c)
    BY <1>0, <1>3 DEF Send, TableInv
  <2>3. \A d \in Callers : Waiting(d)' <=> Waiting(d) \/ d = c
    BY <2>1 DEF Waiting
  <2>4. \A i, j \in DOMAIN pending' : pending'[i] = pending'[j] => i = j
    BY <1>0, <2>1, <2>2 DEF TableInv, Waiting
  <2>5. \A d \in Callers : /\ Waiting(d)' => results'[d] = <<>>
                           /\ results'[d] \in {<<>>, <<"own">>, <<"closed">>}
                           /\ pc'[d] = "idle" => ~Waiting(d)' /\ results'[d] = <<>>
                           /\ pc'[d] = "write" => Waiting(d)'
    BY <1>0, <2>1, <2>2, <2>3 DEF TableInv
  <2> QED
    BY <2>1, <2>4, <2>5 DEF TableInv
<1>4. ASSUME NEW c \in Callers, HandleMessage(c) PROVE TableInv'
  <2> DEFINE i == Head(read_buf).id
  <2>1. /\ Callback \in Callers /\ i \in DOMAIN pending /\ pending[i] = Callback
        /\ results' = [results EXCEPT ![Callback] = <<"own">>]
    BY <1>4, HandledIsOwn
  <2>2. /\ DOMAIN pending' = DOMAIN pending \ {i} /\ UNCHANGED closed
        /\ \A j \in DOMAIN pending' : pending'[j] = pending[j]
        /\ pc[c] = "parse" /\ pc' = [pc EXCEPT ![c] = "test"]
    BY <1>4 DEF HandleMessage, Restrict
  <2> HIDE DEF i
  <2>3. \A d \in Callers : Waiting(d)' <=> Waiting(d) /\ d # Callback
    BY <1>0, <2>1, <2>2 DEF Waiting, TableInv
  <2>4. \A d \in Callers : /\ pc'[d] = "idle" => pc[d] = "idle" /\ ~Waiting(d)
                           /\ pc'[d] = "write" => pc[d] = "write"
    BY <1>0, <2>2 DEF TableInv
  <2>5. Waiting(Callback) /\ pc[Callback] # "write"
    BY <1>0, <2>1, <2>2 DEF Waiting, IInv, LockInv, Holding
  <2> QED
    BY <1>0, <2>1, <2>2, <2>3, <2>4, <2>5 DEF TableInv
<1>5. ASSUME NEW t \in Threads, Cleanup(t) PROVE TableInv'
  <2>1. /\ pending' = <<>> /\ closed' /\ pc[t] \in {"failing", "closing"}
        /\ pc' = [pc EXCEPT ![t] = IF pc[t] = "failing" THEN "raised" ELSE "done"]
        /\ results' = [c \in Callers |-> IF Waiting(c) THEN Append(results[c], "closed")
                                                       ELSE results[c]]
    BY <1>5 DEF Cleanup, Waiting
  <2>2. DOMAIN pending' = {}
    BY <2>1
  <2>3. \A c \in Callers : ~Waiting(c)'
    BY <2>2 DEF Waiting
  <2>4. \A c \in Callers : results'[c] = IF Waiting(c) THEN <<"closed">> ELSE results[c]
  <3>1. Append(<<>>, "closed") = <<"closed">>
    OBVIOUS
  <3>2. \A c \in Callers : Waiting(c) => results[c] = <<>>
    BY <1>0 DEF TableInv
  <3> QED
    BY <2>1, <3>1, <3>2
  <2>5. \A c \in Callers : pc'[c] = "idle" => pc[c] = "idle"
    BY <1>0, <2>1
  <2>6. \A c \in Callers : pc[c] # "write" /\ pc'[c] # "write"
    BY <1>0, <2>1 DEF IInv, LockInv, Holding
  <2> QED
    BY <1>0, <2>1, <2>2, <2>3, <2>4, <2>5, <2>6 DEF TableInv
<1>6. CASE Quiet
    BY <1>1, <1>2, <1>6 DEF Quiet
<1>7. ASSUME NEW c \in Callers, Write(c) PROVE TableInv'
  <2>1. UNCHANGED <<pending, results, closed>> /\ pc' = [pc EXCEPT ![c] = AfterSend(c)]
    BY <1>7 DEF Write
  <2> QED
    BY <1>0, <1>1, <2>1 DEF AfterSend
<1>8. ASSUME NEW c \in Callers, ReadLength(c) PROVE TableInv'
    BY <1>1, <1>8 DEF ReadLength
<1>9. CASE SrvRequest \/ WorkerResponds \/ SrvGone
    BY <1>1, <1>9 DEF SrvRequest, WorkerResponds, SrvGone
<1> QED
    BY <1>3, <1>4, <1>5, <1>6, <1>7, <1>8, <1>9, QuietOrLoud DEF Loud

\* The stages of the server's loop.
LEMMA SrvStep ==
    ASSUME IInv, [Next]_vars
    PROVE  SrvInv'
<1> USE DEF vars, connVars, pipeVars, srvVars, SrvInv
<1>0. SrvInv /\ write_buf \in Seq(Tokens) /\ TypeOK
    BY DEF IInv, TypeOK
<1>1. CASE SrvRequest
    BY <1>0, <1>1 DEF SrvRequest
<1>2. CASE WorkerResponds
    BY <1>0, <1>2 DEF WorkerResponds
<1>3. CASE SrvFlush
    BY <1>0, <1>3 DEF SrvFlush
<1>4. CASE SrvWrite
  <2>1. srv = "writing" /\ write_buf' = Tail(write_buf)
        /\ srv' = IF Len(write_buf) = 1 THEN "select" ELSE "writing"
    BY <1>4 DEF SrvWrite
  <2>2. Len(Tail(write_buf)) = Len(write_buf) - 1 /\ Tail(write_buf) \in Seq(Tokens)
    BY <1>0, <2>1, HeadTailProperties
  <2>3. Len(write_buf) = 1 <=> Tail(write_buf) = <<>>
  <3>1. \A s \in Seq(Tokens) : Len(s) = 0 <=> s = <<>>
    OBVIOUS
  <3>2. Tail(write_buf) = <<>> <=> Len(Tail(write_buf)) = 0
    BY <2>2, <3>1
  <3> QED
    BY <1>0, <2>2, <3>2
  <2> QED
    BY <2>1, <2>3
<1>5. CASE SrvGone
    BY <1>0, <1>5 DEF SrvGone
<1>6. ASSUME NEW c \in Callers, Write(c) PROVE SrvInv'
    BY <1>0, <1>6 DEF Write
<1>7. CASE UNCHANGED <<srvVars, stdin>>
    BY <1>0, <1>7
<1>8. ASSUME NEW c \in Callers,
             \/ Send(c) \/ SendClosed(c) \/ WriteFails(c) \/ Check(c) \/ NeedMoreData(c)
             \/ ReadLength(c) \/ HandleMessage(c) \/ RefuseMessage(c) \/ TimeOut(c)
             \/ Read(c) \/ ReadEof(c) \/ ReadClosed(c) \/ Test(c)
      PROVE UNCHANGED <<srvVars, stdin>>
    BY <1>8 DEF Send, SendClosed, WriteFails, Check, NeedMoreData, ReadLength, HandleMessage,
                RefuseMessage, Fail, TimeOut, Read, ReadEof, ReadClosed, Test
<1>9. ASSUME NEW t \in Threads, Close(t) \/ Cleanup(t) PROVE UNCHANGED <<srvVars, stdin>>
    BY <1>9 DEF Close, Cleanup
<1> QED
    BY <1>1, <1>2, <1>3, <1>4, <1>5, <1>6, <1>7, <1>8, <1>9
       DEF Next, Proceed, Select, SrvLoop, SrvEnds, SrvDies, Terminated, Threads

-----------------------------------------------------------------------------
(***************************************************************************)
(* What each loud step does to the sequences, token by token.              *)
(***************************************************************************)
LEMMA TailTokens ==
    ASSUME NEW S, NEW s \in Seq(S), s # <<>>
    PROVE  /\ Len(s) \in Nat \ {0} /\ Head(s) = s[1] /\ s[1] \in S
           /\ DOMAIN s = 1..Len(s) /\ DOMAIN Tail(s) = 1..(Len(s) - 1)
           /\ \A j \in 1..(Len(s) - 1) : Tail(s)[j] = s[j + 1]
    BY HeadTailProperties, SMT

\* What writing a request to stdin changes: the id it carries is still pending.
LEMMA WriteStep ==
    ASSUME IInv, NEW c \in Callers, Write(c)
    PROVE  /\ Incoming' = Incoming
           /\ UNCHANGED <<pending, next_id, read_msg_len, closed, working, srv>>
           /\ MsgId(c) \in DOMAIN pending /\ pending[MsgId(c)] = c /\ pc[c] = "write"
           /\ srv # "ended"
           /\ Len(stdin) \in Nat /\ DOMAIN stdin = 1..Len(stdin)
           /\ DOMAIN stdin' = 1..(Len(stdin) + 1)
           /\ \A j \in 1..Len(stdin) : stdin'[j] = stdin[j]
           /\ stdin'[Len(stdin) + 1].id = MsgId(c) /\ stdin'[Len(stdin) + 1].from = c
           /\ pc'[c] # "write" /\ \A d \in Callers : d # c => pc'[d] = pc[d]
<1> USE DEF vars, connVars, pipeVars, srvVars, Goto
<1>1. Incoming' = Incoming
    BY DEF Write, Incoming
<1>2. MsgId(c) \in DOMAIN pending /\ pending[MsgId(c)] = c /\ MsgId(c) \in Nat
    BY MsgIdRegistered DEF IInv, Write
<1>3. stdin \in Seq(Messages) /\ [id |-> MsgId(c), from |-> c] \in Messages
    BY <1>2 DEF IInv, TypeOK, Messages
<1>4. /\ Len(stdin) \in Nat /\ DOMAIN stdin = 1..Len(stdin)
      /\ DOMAIN stdin' = 1..(Len(stdin) + 1)
      /\ \A j \in 1..Len(stdin) : stdin'[j] = stdin[j]
      /\ stdin'[Len(stdin) + 1] = [id |-> MsgId(c), from |-> c]
    BY <1>3, AppendProperties DEF Write
<1>5. c \in Threads /\ pc \in [Threads -> Pcs] /\ Callers \subseteq Threads
    BY DEF IInv, TypeOK, Threads
<1>6. pc'[c] # "write" /\ \A d \in Callers : d # c => pc'[d] = pc[d]
    BY <1>5 DEF Write, AfterSend
<1> QED
    BY <1>1, <1>2, <1>4, <1>6 DEF Write

\* What parsing changes: the first token of Incoming is gone and no request is written.
LEMMA ParseStep ==
    ASSUME IInv, [Next]_vars, NEW c \in Callers, ReadLength(c) \/ HandleMessage(c)
    PROVE  /\ UNCHANGED <<next_id, stdin, working, closed, srv>>
           /\ Len(Incoming) \in Nat \ {0} /\ Incoming[1] = Head(read_buf)
           /\ DOMAIN Incoming = 1..Len(Incoming)
           /\ Len(Incoming') = Len(Incoming) - 1
           /\ DOMAIN Incoming' = 1..(Len(Incoming) - 1)
           /\ \A j \in 1..(Len(Incoming) - 1) : Incoming'[j] = Incoming[j + 1]
           /\ pc[c] = "parse" /\ pc'[c] # "write"
           /\ \A d \in Callers : pc[d] # "write" /\ pc'[d] # "write"
<1> USE DEF vars, connVars, pipeVars, srvVars, Goto
<1>1. TypeOK /\ TypeOK' /\ read_buf # <<>> /\ read_buf' = Tail(read_buf)
      /\ UNCHANGED <<stdout, write_buf, outgoing, next_id, stdin, working, closed, srv>>
    BY TypeStep DEF IInv, ReadLength, HandleMessage
<1>2. Incoming' = Tail(Incoming)
    BY <1>1, IncomingParsed
<1>3. Incoming \in Seq(Tokens) /\ Incoming # <<>> /\ Incoming[1] = Head(read_buf)
    BY <1>1, IncomingType, IncomingHead
<1>4. c \in Threads /\ pc \in [Threads -> Pcs] /\ Callers \subseteq Threads
    BY DEF IInv, TypeOK, Threads
<1>5. pc[c] = "parse" /\ (pc' = pc \/ pc' = [pc EXCEPT ![c] = "test"])
    BY DEF ReadLength, HandleMessage
<1>6. \A d \in Callers : pc[d] # "write" /\ pc'[d] # "write"
    BY <1>4, <1>5 DEF IInv, LockInv, Holding
<1>7. /\ Len(Incoming) \in Nat \ {0} /\ DOMAIN Incoming = 1..Len(Incoming)
      /\ DOMAIN Tail(Incoming) = 1..(Len(Incoming) - 1)
      /\ \A j \in 1..(Len(Incoming) - 1) : Tail(Incoming)[j] = Incoming[j + 1]
    BY <1>3, TailTokens
<1>8. Len(Tail(Incoming)) = Len(Incoming) - 1
    BY <1>3, HeadTailProperties
<1> QED
    BY <1>1, <1>2, <1>3, <1>5, <1>6, <1>7, <1>8

\* A response that is queued: its tokens follow those on their way.
LEMMA QueueStep ==
    ASSUME TypeOK, TypeOK', NEW m \in Messages, outgoing' = outgoing \o Response(m),
           UNCHANGED <<read_buf, stdout, write_buf>>
    PROVE  /\ Len(Incoming) \in Nat /\ DOMAIN Incoming = 1..Len(Incoming)
           /\ Len(Incoming') \in Nat /\ DOMAIN Incoming' = 1..Len(Incoming')
           /\ Len(Incoming) <= Len(Incoming')
           /\ \A j \in 1..Len(Incoming) : Incoming'[j] = Incoming[j]
           /\ \A j \in 1..Len(Incoming') : j > Len(Incoming) =>
                 Incoming'[j].id = m.id /\ Incoming'[j].from = m.from
           /\ Kind[m.from] = "framed" => /\ Len(Incoming') = Len(Incoming) + 2
                                         /\ Incoming'[Len(Incoming) + 1].part = "len"
                                         /\ Incoming'[Len(Incoming) + 2].part = "body"
           /\ Kind[m.from] = "put" => /\ Len(Incoming') = Len(Incoming) + 1
                                      /\ Incoming'[Len(Incoming) + 1].part = "raw"
           /\ Kind[m.from] = "get" => Len(Incoming') = Len(Incoming)
<1>1. Incoming \in Seq(Tokens)
    BY IncomingType
<1>2. Response(m) \in Seq(Tokens)
    BY ResponseShape
<1>3. Incoming' = Incoming \o Response(m)
    BY <1>2, IncomingQueued
<1>4. Kind[m.from] \in {"framed", "put", "get"}
    BY ConnectionAssumption DEF Messages
<1>5. PICK a \in Seq(Tokens), r \in Seq(Tokens) : a = Incoming /\ r = Response(m)
    BY <1>1, <1>2
<1>6. Incoming' = Cat(a, r)
    BY <1>3, <1>5 DEF Cat
<1>7. /\ Incoming' \in Seq(Tokens) /\ Len(Incoming') = Len(a) + Len(r)
      /\ \A j \in 1..Len(a) : Incoming'[j] = a[j]
      /\ \A j \in 1..Len(r) : Incoming'[Len(a) + j] = r[j]
    BY <1>5, <1>6, CatType, ZenonT(60)
<1>8. Len(a) \in Nat /\ Len(r) \in Nat /\ DOMAIN a = 1..Len(a)
      /\ Len(Incoming') \in Nat /\ DOMAIN Incoming' = 1..Len(Incoming')
    BY <1>5, <1>7
<1>9. CASE Kind[m.from] = "framed"
  <2>1. /\ Len(r) = 2 /\ r[1] = [part |-> "len", id |-> m.id, from |-> m.from]
        /\ r[2] = [part |-> "body", id |-> m.id, from |-> m.from]
    BY <1>5, <1>9, ResponseShape, Zenon
  <2>2. /\ Incoming'[Len(a) + 1] = [part |-> "len", id |-> m.id, from |-> m.from]
        /\ Incoming'[Len(a) + 2] = [part |-> "body", id |-> m.id, from |-> m.from]
    BY <1>7, <2>1
  <2>3. \A j \in 1..Len(Incoming') : j > Len(a) => j = Len(a) + 1 \/ j = Len(a) + 2
    BY <1>7, <1>8, <2>1
  <2>4. \A j \in 1..Len(Incoming') : j > Len(a) =>
            Incoming'[j].id = m.id /\ Incoming'[j].from = m.from
    BY <2>2, <2>3
  <2> QED
    BY <1>5, <1>7, <1>8, <1>9, <2>1, <2>2, <2>4
<1>10. CASE Kind[m.from] = "put"
  <2>1. Len(r) = 1 /\ r[1] = [part |-> "raw", id |-> m.id, from |-> m.from]
    BY <1>5, <1>10, ResponseShape, Zenon
  <2>2. Incoming'[Len(a) + 1] = [part |-> "raw", id |-> m.id, from |-> m.from]
    BY <1>7, <2>1
  <2>3. \A j \in 1..Len(Incoming') : j > Len(a) => j = Len(a) + 1
    BY <1>7, <1>8, <2>1
  <2>4. \A j \in 1..Len(Incoming') : j > Len(a) =>
            Incoming'[j].id = m.id /\ Incoming'[j].from = m.from
    BY <2>2, <2>3
  <2> QED
    BY <1>5, <1>7, <1>8, <1>10, <2>1, <2>2, <2>4
<1>11. CASE Kind[m.from] = "get"
  <2>1. r = <<>>
    BY <1>5, <1>11, ResponseShape, Zenon
  <2>2. Len(r) = 0
    BY <2>1
  <2>3. \A j \in 1..Len(Incoming') : ~(j > Len(a))
    BY <1>7, <1>8, <2>2
  <2> QED
    BY <1>5, <1>7, <1>8, <1>11, <2>2, <2>3
<1> QED
    BY <1>4, <1>9, <1>10, <1>11

\* A request that the server takes from stdin: answered at once, or with a worker now.
LEMMA RequestStep ==
    ASSUME IInv, [Next]_vars, SrvRequest
    PROVE  /\ UNCHANGED <<pending, next_id, read_msg_len, closed, pc, srv>> /\ srv # "ended"
           /\ Len(stdin) \in Nat \ {0} /\ stdin[1] \in Messages
           /\ DOMAIN stdin = 1..Len(stdin) /\ DOMAIN stdin' = 1..(Len(stdin) - 1)
           /\ \A j \in 1..(Len(stdin) - 1) : stdin'[j] = stdin[j + 1]
           /\ \/ /\ Kind[stdin[1].from] = "framed" /\ working' = working
                 /\ outgoing' = outgoing \o Response(stdin[1])
                 /\ UNCHANGED <<read_buf, stdout, write_buf>>
              \/ /\ Kind[stdin[1].from] # "framed" /\ working' = working \cup {stdin[1]}
                 /\ Incoming' = Incoming
<1> USE DEF vars, connVars, pipeVars, srvVars
<1>1. stdin \in Seq(Messages) /\ stdin # <<>> /\ stdin' = Tail(stdin)
    BY DEF SrvRequest, IInv, TypeOK
<1>2. /\ Len(stdin) \in Nat \ {0} /\ Head(stdin) = stdin[1] /\ stdin[1] \in Messages
      /\ DOMAIN stdin = 1..Len(stdin) /\ DOMAIN Tail(stdin) = 1..(Len(stdin) - 1)
      /\ \A j \in 1..(Len(stdin) - 1) : Tail(stdin)[j] = stdin[j + 1]
    BY <1>1, TailTokens
<1>3. CASE Kind[Head(stdin).from] = "framed"
  <2>1. /\ UNCHANGED <<working, read_buf, stdout, write_buf>>
        /\ outgoing' = outgoing \o Response(Head(stdin))
    BY <1>3 DEF SrvRequest
  <2> QED
    BY <1>1, <1>2, <1>3, <2>1 DEF SrvRequest
<1>4. CASE Kind[Head(stdin).from] # "framed"
  <2>1. Incoming' = Incoming
    BY <1>4 DEF SrvRequest, Incoming
  <2> QED
    BY <1>1, <1>2, <1>4, <2>1 DEF SrvRequest
<1> QED
    BY <1>3, <1>4

\* When the server's process ends, a first part of the tokens is left, and no request.
LEMMA GoneStep ==
    ASSUME TypeOK, TypeOK', SrvGone
    PROVE  /\ UNCHANGED <<pending, next_id, read_msg_len, closed, pc>>
           /\ srv # "ended" /\ srv' = "ended" /\ DOMAIN stdin' = {} /\ working' = {}
           /\ Len(Incoming) \in Nat /\ DOMAIN Incoming = 1..Len(Incoming)
           /\ Len(Incoming') \in Nat /\ DOMAIN Incoming' = 1..Len(Incoming')
           /\ Len(Incoming') <= Len(Incoming) /\ DOMAIN Incoming' \subseteq DOMAIN Incoming
           /\ \A j \in 1..Len(Incoming') : Incoming'[j] = Incoming[j]
<1> USE DEF vars, connVars, pipeVars, srvVars
<1>1. /\ Incoming' \in Seq(Tokens) /\ Len(Incoming') <= Len(Incoming)
      /\ \A j \in 1..Len(Incoming') : Incoming'[j] = Incoming[j]
    BY IncomingCut DEF SrvGone
<1>2. Incoming \in Seq(Tokens)
    BY IncomingType
<1>3. /\ Len(Incoming) \in Nat /\ DOMAIN Incoming = 1..Len(Incoming)
      /\ Len(Incoming') \in Nat /\ DOMAIN Incoming' = 1..Len(Incoming')
      /\ DOMAIN Incoming' \subseteq DOMAIN Incoming
    BY <1>1, <1>2
<1> QED
    BY <1>1, <1>3 DEF SrvGone

\* Ids are numbers wherever they are.
LEMMA IdsNumbers ==
    ASSUME TypeOK
    PROVE  /\ \A j \in DOMAIN stdin : stdin[j].id \in Nat
           /\ \A m \in working : m.id \in Nat
           /\ \A j \in DOMAIN Incoming : Incoming[j].id \in Nat
<1>1. \A j \in DOMAIN stdin : stdin[j] \in Messages
    BY DEF TypeOK
<1>2. \A m \in working : m \in Messages
    BY DEF TypeOK
<1>3. \A j \in DOMAIN Incoming : Incoming[j] \in Tokens
    BY IncomingType
<1> QED
    BY <1>1, <1>2, <1>3 DEF Messages, Tokens

\* An id on its way was given out by send, and to the caller that the message is from.
LEMMA IdStep ==
    ASSUME IInv, [Next]_vars
    PROVE  IdInv'
<1> USE DEF vars, connVars, pipeVars, srvVars
<1>0. TypeOK /\ TypeOK' /\ IdInv /\ DOMAIN pending \subseteq 0..(next_id - 1) /\ next_id \in Nat
    BY TypeStep DEF IInv, TypeOK
<1>1. CASE Quiet
    BY <1>0, <1>1 DEF Quiet, IdInv, Sound
<1>2. ASSUME NEW c \in Callers, Send(c) PROVE IdInv'
  <2>1. UNCHANGED <<stdin, working>> /\ Incoming' = Incoming
    BY <1>2 DEF Send, Incoming
  <2>2. /\ \A j \in DOMAIN stdin : stdin[j].id \in Nat
        /\ \A m \in working : m.id \in Nat
        /\ \A j \in DOMAIN Incoming : Incoming[j].id \in Nat
    BY <1>0, IdsNumbers
  <2>3. ASSUME NEW i \in Nat, NEW d, i < next_id, i \in DOMAIN pending => pending[i] = d
        PROVE  i < next_id' /\ (i \in DOMAIN pending' => pending'[i] = d)
    BY <1>0, <1>2, <2>3 DEF Send
  <2>4. /\ \A j \in DOMAIN stdin : Sound(stdin[j])'
        /\ \A m \in working : Sound(m)'
        /\ \A j \in DOMAIN Incoming : Sound(Incoming[j])'
    BY <1>0, <2>1, <2>2, <2>3 DEF IdInv, Sound
  <2> QED
    BY <2>1, <2>4 DEF IdInv
<1>3. ASSUME NEW c \in Callers, Write(c) PROVE IdInv'
  <2>1. /\ Incoming' = Incoming
        /\ UNCHANGED <<pending, next_id, working>>
        /\ MsgId(c) \in DOMAIN pending /\ pending[MsgId(c)] = c
        /\ Len(stdin) \in Nat /\ DOMAIN stdin = 1..Len(stdin)
        /\ DOMAIN stdin' = 1..(Len(stdin) + 1)
        /\ \A j \in 1..Len(stdin) : stdin'[j] = stdin[j]
        /\ stdin'[Len(stdin) + 1].id = MsgId(c) /\ stdin'[Len(stdin) + 1].from = c
    BY <1>3, WriteStep
  <2>2. MsgId(c) < next_id
    BY <1>0, <2>1
  <2> QED
    BY <1>0, <2>1, <2>2 DEF IdInv, Sound
<1>4. ASSUME NEW c \in Callers, ReadLength(c) \/ HandleMessage(c) PROVE IdInv'
  <2>1. /\ UNCHANGED <<next_id, stdin, working>>
        /\ Len(Incoming) \in Nat \ {0} /\ DOMAIN Incoming = 1..Len(Incoming)
        /\ DOMAIN Incoming' = 1..(Len(Incoming) - 1)
        /\ \A j \in 1..(Len(Incoming) - 1) : Incoming'[j] = Incoming[j + 1]
    BY <1>4, ParseStep
  <2>2. /\ DOMAIN pending' \subseteq DOMAIN pending
        /\ \A i \in DOMAIN pending' : pending'[i] = pending[i]
    BY <1>4 DEF ReadLength, HandleMessage, Restrict
  <2> QED
    BY <1>0, <2>1, <2>2, SMTT(30) DEF IdInv, Sound
<1>5. ASSUME NEW t \in Threads, Cleanup(t) PROVE IdInv'
  <2>1. UNCHANGED <<stdin, working, next_id>> /\ Incoming' = Incoming /\ DOMAIN pending' = {}
    BY <1>5 DEF Cleanup, Incoming
  <2> QED
    BY <1>0, <2>1 DEF IdInv, Sound
<1>6. CASE SrvRequest
  <2>1. /\ UNCHANGED <<pending, next_id>>
        /\ Len(stdin) \in Nat \ {0} /\ stdin[1] \in Messages
        /\ DOMAIN stdin = 1..Len(stdin) /\ DOMAIN stdin' = 1..(Len(stdin) - 1)
        /\ \A j \in 1..(Len(stdin) - 1) : stdin'[j] = stdin[j + 1]
    BY <1>6, RequestStep
  <2>0. \A j \in DOMAIN stdin' : Sound(stdin[j])'
    BY <1>0, <2>1, SMTT(30) DEF IdInv, Sound
  <2>2. PICK m \in Messages : m = stdin[1]
    BY <2>1
  <2>3. Sound(m)
    BY <1>0, <2>1, <2>2 DEF IdInv
  <2>4. CASE /\ outgoing' = outgoing \o Response(m) /\ working' = working
             /\ UNCHANGED <<read_buf, stdout, write_buf>>
    <3>1. /\ DOMAIN Incoming = 1..Len(Incoming) /\ DOMAIN Incoming' = 1..Len(Incoming')
          /\ Len(Incoming) \in Nat /\ Len(Incoming') \in Nat
          /\ \A j \in 1..Len(Incoming) : Incoming'[j] = Incoming[j]
          /\ \A j \in 1..Len(Incoming') : j > Len(Incoming) =>
                Incoming'[j].id = m.id /\ Incoming'[j].from = m.from
      BY <1>0, <2>4, QueueStep
    <3>2. \A j \in DOMAIN Incoming' : Sound(Incoming[j])'
      BY <1>0, <2>1, <2>3, <3>1 DEF IdInv, Sound
    <3>3. \A n \in working' : Sound(n)'
      BY <1>0, <2>1, <2>4 DEF IdInv, Sound
    <3> QED
      BY <2>0, <3>2, <3>3 DEF IdInv
  <2>5. CASE working' = working \cup {m} /\ Incoming' = Incoming
    <3>1. \A n \in working' : Sound(n)'
      BY <1>0, <2>1, <2>3, <2>5 DEF IdInv, Sound
    <3>2. \A j \in DOMAIN Incoming' : Sound(Incoming[j])'
      BY <1>0, <2>1, <2>5 DEF IdInv, Sound
    <3> QED
      BY <2>0, <3>1, <3>2 DEF IdInv
  <2> QED
    BY <1>6, <2>2, <2>4, <2>5, RequestStep
<1>7. CASE WorkerResponds
  <2>1. PICK m \in working : /\ working' = working \ {m}
                             /\ outgoing' = outgoing \o Response(m)
                             /\ UNCHANGED <<read_buf, stdout, write_buf, stdin, pending, next_id>>
    BY <1>7 DEF WorkerResponds
  <2>2. m \in Messages /\ Sound(m)
    BY <1>0 DEF TypeOK, IdInv
  <2>3. /\ DOMAIN Incoming = 1..Len(Incoming) /\ DOMAIN Incoming' = 1..Len(Incoming')
        /\ Len(Incoming) \in Nat /\ Len(Incoming') \in Nat
        /\ \A j \in 1..Len(Incoming) : Incoming'[j] = Incoming[j]
        /\ \A j \in 1..Len(Incoming') : j > Len(Incoming) =>
              Incoming'[j].id = m.id /\ Incoming'[j].from = m.from
    BY <1>0, <2>1, <2>2, QueueStep
  <2> QED
    BY <1>0, <2>1, <2>2, <2>3 DEF IdInv, Sound
<1>8. CASE SrvGone
    BY <1>0, <1>8, GoneStep DEF IdInv, Sound
<1> QED
    BY <1>1, <1>2, <1>3, <1>4, <1>5, <1>6, <1>7, <1>8, QuietOrLoud DEF Loud

\* An id is in one place only.  A response takes the place of its request.
LEMMA OnceStep ==
    ASSUME IInv, [Next]_vars
    PROVE  OnceInv'
<1> USE DEF vars, connVars, pipeVars, srvVars
<1>0. TypeOK /\ TypeOK' /\ OnceInv
    BY TypeStep DEF IInv
<1>1. CASE Quiet
    BY <1>0, <1>1 DEF Quiet, OnceInv
<1>2. ASSUME NEW c \in Callers, Send(c) PROVE OnceInv'
  <2>1. UNCHANGED <<stdin, working>> /\ Incoming' = Incoming
    BY <1>2 DEF Send, Incoming
  <2> QED
    BY <1>0, <2>1 DEF OnceInv
<1>3. ASSUME NEW c \in Callers, Write(c) PROVE OnceInv'
  <2>1. /\ Incoming' = Incoming /\ UNCHANGED working
        /\ Len(stdin) \in Nat /\ DOMAIN stdin = 1..Len(stdin)
        /\ DOMAIN stdin' = 1..(Len(stdin) + 1)
        /\ \A j \in 1..Len(stdin) : stdin'[j] = stdin[j]
        /\ stdin'[Len(stdin) + 1].id = MsgId(c)
    BY <1>3, WriteStep
  <2>2. Unwritten(MsgId(c))
    BY <1>3, WriteStep DEF IInv, FlowInv
  <2>3. \A j, k \in DOMAIN stdin' : stdin'[j].id = stdin'[k].id => j = k
    BY <1>0, <2>1, <2>2 DEF OnceInv, Unwritten
  <2>4. \A j \in DOMAIN stdin', m \in working' : stdin'[j].id # m.id
    BY <1>0, <2>1, <2>2 DEF OnceInv, Unwritten
  <2>5. \A j \in DOMAIN stdin', k \in DOMAIN Incoming' : stdin'[j].id # Incoming'[k].id
    BY <1>0, <2>1, <2>2 DEF OnceInv, Unwritten
  <2> QED
    BY <1>0, <2>1, <2>3, <2>4, <2>5 DEF OnceInv
<1>4. ASSUME NEW c \in Callers, ReadLength(c) \/ HandleMessage(c) PROVE OnceInv'
  <2>1. /\ UNCHANGED <<stdin, working>>
        /\ Len(Incoming) \in Nat \ {0} /\ DOMAIN Incoming = 1..Len(Incoming)
        /\ DOMAIN Incoming' = 1..(Len(Incoming) - 1)
        /\ \A j \in 1..(Len(Incoming) - 1) : Incoming'[j] = Incoming[j + 1]
    BY <1>4, ParseStep
  <2>2. \A j, k \in DOMAIN Incoming' :
            j < k /\ Incoming'[j].id = Incoming'[k].id
                => k = j + 1 /\ Incoming'[j].part = "len" /\ Incoming'[k].part # "len"
    <3>1. \A j, k \in 1..(Len(Incoming) - 1) :
              j < k /\ Incoming[j + 1].id = Incoming[k + 1].id
                  => k = j + 1 /\ Incoming[j + 1].part = "len" /\ Incoming[k + 1].part # "len"
      <4>1. SUFFICES ASSUME NEW j \in 1..(Len(Incoming) - 1), NEW k \in 1..(Len(Incoming) - 1),
                            j < k, Incoming[j + 1].id = Incoming[k + 1].id
                     PROVE  k = j + 1 /\ Incoming[j + 1].part = "len"
                            /\ Incoming[k + 1].part # "len"
        OBVIOUS
      <4>2. j + 1 \in DOMAIN Incoming /\ k + 1 \in DOMAIN Incoming /\ j + 1 < k + 1
        BY <2>1, <4>1
      <4>3. k + 1 = j + 1 + 1 /\ Incoming[j + 1].part = "len" /\ Incoming[k + 1].part # "len"
        BY <1>0, <4>1, <4>2 DEF OnceInv
      <4> QED
        BY <2>1, <4>3
    <3> QED
      BY <2>1, <3>1, SMTT(30)
  <2>3. /\ \A j \in DOMAIN stdin', k \in DOMAIN Incoming' : stdin'[j].id # Incoming'[k].id
        /\ \A m \in working', k \in DOMAIN Incoming' : m.id # Incoming'[k].id
    <3>1. \A k \in DOMAIN Incoming' : k + 1 \in DOMAIN Incoming /\ Incoming'[k] = Incoming[k + 1]
      BY <2>1
    <3> QED
      BY <1>0, <2>1, <3>1 DEF OnceInv
  <2> QED
    BY <1>0, <2>1, <2>2, <2>3 DEF OnceInv
<1>5. ASSUME NEW t \in Threads, Cleanup(t) PROVE OnceInv'
  <2>1. UNCHANGED <<stdin, working>> /\ Incoming' = Incoming
    BY <1>5 DEF Cleanup, Incoming
  <2> QED
    BY <1>0, <2>1 DEF OnceInv
<1>6. ASSUME NEW m \in Messages, outgoing' = outgoing \o Response(m),
             UNCHANGED <<read_buf, stdout, write_buf>>,
             \A k \in DOMAIN Incoming : m.id # Incoming[k].id
      PROVE  \A j, k \in DOMAIN Incoming' :
                 j < k /\ Incoming'[j].id = Incoming'[k].id
                     => k = j + 1 /\ Incoming'[j].part = "len" /\ Incoming'[k].part # "len"
  <2>1. /\ Len(Incoming) \in Nat /\ DOMAIN Incoming = 1..Len(Incoming)
        /\ Len(Incoming') \in Nat /\ DOMAIN Incoming' = 1..Len(Incoming')
        /\ \A j \in 1..Len(Incoming) : Incoming'[j] = Incoming[j]
        /\ \A j \in 1..Len(Incoming') : j > Len(Incoming) => Incoming'[j].id = m.id
        /\ \/ /\ Len(Incoming') = Len(Incoming) + 2
              /\ Incoming'[Len(Incoming) + 1].part = "len"
              /\ Incoming'[Len(Incoming) + 2].part = "body"
           \/ Len(Incoming') <= Len(Incoming) + 1
  <3>1. Kind[m.from] \in {"framed", "put", "get"}
    BY ConnectionAssumption DEF Messages
  <3> QED
    BY <1>0, <1>6, <3>1, QueueStep, SMTT(30)
  <2>2. \A j, k \in 1..Len(Incoming) :
            j < k /\ Incoming[j].id = Incoming[k].id
                => k = j + 1 /\ Incoming[j].part = "len" /\ Incoming[k].part # "len"
    BY <1>0, <2>1 DEF OnceInv
  <2>3. \A j \in 1..Len(Incoming) : Incoming[j].id # m.id
    BY <1>6, <2>1
  <2>4. PICK L \in Nat, M \in Nat : L = Len(Incoming) /\ M = Len(Incoming')
    BY <2>1
  <2>. PICK a, b, x : a = Incoming /\ b = Incoming' /\ x = m.id
    OBVIOUS
  <2>5. /\ \A j, k \in 1..L : j < k /\ a[j].id = a[k].id
               => k = j + 1 /\ a[j].part = "len" /\ a[k].part # "len"
        /\ \A j \in 1..L : b[j] = a[j] /\ a[j].id # x
        /\ \A j \in 1..M : j > L => b[j].id = x
        /\ \/ M = L + 2 /\ b[L + 1].part = "len" /\ b[L + 2].part = "body"
           \/ M <= L + 1
    BY <2>1, <2>2, <2>3, <2>4
  <2>6. ASSUME NEW j \in 1..M, NEW k \in 1..M, j < k, b[j].id = b[k].id
        PROVE  k = j + 1 /\ b[j].part = "len" /\ b[k].part # "len"
    <3>1. CASE k <= L
      <4>1. j \in 1..L /\ k \in 1..L
        BY <2>6, <3>1
      <4> QED
        BY <2>5, <2>6, <4>1
    <3>2. CASE ~(k <= L)
      <4>1. b[k].id = x
        BY <2>5, <3>2
      <4>2. j > L
        <5>1. j \in 1..L => b[j].id # x
          BY <2>5
        <5> QED
          BY <2>6, <4>1, <5>1
      <4>3. j = L + 1 /\ k = L + 2 /\ M = L + 2
        BY <2>5, <2>6, <4>2
      <4> QED
        BY <2>5, <4>3
    <3> QED
      BY <3>1, <3>2
  <2>7. DOMAIN Incoming' = 1..M
    BY <2>1, <2>4
  <2> QED
    BY <2>4, <2>6, <2>7
<1>7. CASE SrvRequest
  <2>1. /\ Len(stdin) \in Nat \ {0} /\ stdin[1] \in Messages
        /\ DOMAIN stdin = 1..Len(stdin) /\ DOMAIN stdin' = 1..(Len(stdin) - 1)
        /\ \A j \in 1..(Len(stdin) - 1) : stdin'[j] = stdin[j + 1]
    BY <1>7, RequestStep
  <2>2. PICK m \in Messages : m = stdin[1]
    BY <2>1
  <2>3. /\ \A n \in working : m.id # n.id
        /\ \A k \in DOMAIN Incoming : m.id # Incoming[k].id
        /\ \A j \in DOMAIN stdin' : stdin'[j].id # m.id
    BY <1>0, <2>1, <2>2 DEF OnceInv
  <2>4. /\ \A j, k \in DOMAIN stdin' : stdin'[j].id = stdin'[k].id => j = k
        /\ \A j \in DOMAIN stdin', n \in working : stdin'[j].id # n.id
        /\ \A j \in DOMAIN stdin', k \in DOMAIN Incoming : stdin'[j].id # Incoming[k].id
    <3>1. \A j \in DOMAIN stdin' : j + 1 \in DOMAIN stdin /\ stdin'[j] = stdin[j + 1]
      BY <2>1
    <3>2. \A j, k \in DOMAIN stdin' : j + 1 = k + 1 => j = k
      BY <2>1
    <3> QED
      BY <1>0, <3>1, <3>2 DEF OnceInv
  <2>5. CASE /\ outgoing' = outgoing \o Response(m) /\ working' = working
             /\ UNCHANGED <<read_buf, stdout, write_buf>>
    <3>1. /\ DOMAIN Incoming = 1..Len(Incoming) /\ DOMAIN Incoming' = 1..Len(Incoming')
          /\ Len(Incoming) \in Nat /\ Len(Incoming') \in Nat
          /\ \A j \in 1..Len(Incoming) : Incoming'[j] = Incoming[j]
          /\ \A j \in 1..Len(Incoming') : j > Len(Incoming) => Incoming'[j].id = m.id
      BY <1>0, <2>5, QueueStep
    <3>2. \A j \in DOMAIN stdin', k \in DOMAIN Incoming' : stdin'[j].id # Incoming'[k].id
      BY <2>3, <2>4, <3>1
    <3>3. \A n \in working, k \in DOMAIN Incoming' : n.id # Incoming'[k].id
      BY <1>0, <2>3, <3>1 DEF OnceInv
    <3>4. \A j, k \in DOMAIN Incoming' :
              j < k /\ Incoming'[j].id = Incoming'[k].id
                  => k = j + 1 /\ Incoming'[j].part = "len" /\ Incoming'[k].part # "len"
      BY <1>6, <2>3, <2>5
    <3>5. \A n, o \in working' : n.id = o.id => n = o
      BY <1>0, <2>5 DEF OnceInv
    <3> QED
      BY <2>4, <2>5, <3>2, <3>3, <3>4, <3>5 DEF OnceInv
  <2>6. CASE working' = working \cup {m} /\ Incoming' = Incoming
    <3>1. \A n, o \in working' : n.id = o.id => n = o
      BY <1>0, <2>3, <2>6 DEF OnceInv
    <3>2. \A n \in working', k \in DOMAIN Incoming' : n.id # Incoming'[k].id
      BY <1>0, <2>3, <2>6 DEF OnceInv
    <3>3. \A j \in DOMAIN stdin', n \in working' : stdin'[j].id # n.id
      BY <2>3, <2>4, <2>6
    <3>4. \A j, k \in DOMAIN Incoming' :
              j < k /\ Incoming'[j].id = Incoming'[k].id
                  => k = j + 1 /\ Incoming'[j].part = "len" /\ Incoming'[k].part # "len"
      BY <1>0, <2>6 DEF OnceInv
    <3> QED
      BY <2>4, <2>6, <3>1, <3>2, <3>3, <3>4 DEF OnceInv
  <2> QED
    BY <1>7, <2>2, <2>5, <2>6, RequestStep
<1>8. CASE WorkerResponds
  <2>1. PICK m \in working : /\ working' = working \ {m}
                             /\ outgoing' = outgoing \o Response(m)
                             /\ UNCHANGED <<read_buf, stdout, write_buf, stdin>>
    BY <1>8 DEF WorkerResponds
  <2>2. /\ m \in Messages /\ \A n \in working' : n.id # m.id
        /\ \A k \in DOMAIN Incoming : m.id # Incoming[k].id
        /\ \A j \in DOMAIN stdin : stdin[j].id # m.id
    BY <1>0, <2>1 DEF TypeOK, OnceInv
  <2>3. /\ DOMAIN Incoming = 1..Len(Incoming) /\ DOMAIN Incoming' = 1..Len(Incoming')
        /\ Len(Incoming) \in Nat /\ Len(Incoming') \in Nat
        /\ \A j \in 1..Len(Incoming) : Incoming'[j] = Incoming[j]
        /\ \A j \in 1..Len(Incoming') : j > Len(Incoming) => Incoming'[j].id = m.id
    BY <1>0, <2>1, <2>2, QueueStep
  <2>4. \A j, k \in DOMAIN Incoming' :
            j < k /\ Incoming'[j].id = Incoming'[k].id
                => k = j + 1 /\ Incoming'[j].part = "len" /\ Incoming'[k].part # "len"
    BY <1>6, <2>1, <2>2
  <2>5. /\ \A j \in DOMAIN stdin', k \in DOMAIN Incoming' : stdin'[j].id # Incoming'[k].id
        /\ \A n \in working', k \in DOMAIN Incoming' : n.id # Incoming'[k].id
    <3>1. \A k \in DOMAIN Incoming' : \/ k \in DOMAIN Incoming /\ Incoming'[k] = Incoming[k]
                                      \/ Incoming'[k].id = m.id
      BY <2>3
    <3> QED
      BY <1>0, <2>1, <2>2, <3>1 DEF OnceInv
  <2> QED
    BY <1>0, <2>1, <2>4, <2>5 DEF OnceInv
<1>9. CASE SrvGone
  <2>1. /\ DOMAIN stdin' = {} /\ working' = {} /\ DOMAIN Incoming' \subseteq DOMAIN Incoming
        /\ \A j \in DOMAIN Incoming' : Incoming'[j] = Incoming[j]
    BY <1>0, <1>9, GoneStep
  <2> QED
    BY <1>0, <2>1 DEF OnceInv
<1> QED
    BY <1>1, <1>2, <1>3, <1>4, <1>5, <1>7, <1>8, <1>9, QuietOrLoud DEF Loud

\* A call that waits is written or underway: a step that takes its request or response
\* from one place puts it in the next.
LEMMA FlowStep ==
    ASSUME IInv, [Next]_vars
    PROVE  FlowInv'
<1> USE DEF vars, connVars, pipeVars, srvVars
<1>0. /\ TypeOK /\ TypeOK' /\ FlowInv /\ \A i \in DOMAIN pending : pending[i] \in Callers
      /\ pc \in [Threads -> Pcs] /\ Callers \subseteq Threads
    BY TypeStep DEF IInv, TypeOK, Threads
<1>1. CASE Quiet
  <2>1. /\ UNCHANGED <<stdin, working, pending>> /\ Incoming' = Incoming
        /\ srv' = "ended" <=> srv = "ended"
        /\ \A c \in Callers : /\ pc'[c] = "write" => pc[c] = "write"
                              /\ srv # "ended" /\ pc[c] = "write" => pc'[c] = "write"
    BY <1>1 DEF Quiet
  <2>2. \A i : (Unwritten(i)' <=> Unwritten(i)) /\ (Underway(i)' <=> Underway(i))
    BY <2>1 DEF Unwritten, Underway
  <2> QED
    BY <1>0, <2>1, <2>2 DEF FlowInv
<1>2. ASSUME NEW c \in Callers, Send(c) PROVE FlowInv'
  <2>1. UNCHANGED <<stdin, working, srv>> /\ Incoming' = Incoming
    BY <1>2 DEF Send, Incoming
  <2>2. /\ DOMAIN pending' = DOMAIN pending \cup {next_id} /\ pending'[next_id] = c
        /\ next_id \in Nat /\ next_id \notin DOMAIN pending
        /\ \A i \in DOMAIN pending : pending'[i] = pending[i]
        /\ pc' = [pc EXCEPT ![c] = "write"] /\ pc[c] = "idle"
    BY <1>0, <1>2 DEF Send, Goto, TypeOK
  <2>3. \A i : (Unwritten(i)' <=> Unwritten(i)) /\ (Underway(i)' <=> Underway(i))
    BY <2>1 DEF Unwritten, Underway
  <2>4. Unwritten(next_id)
    BY <1>0, <2>2, IdsNumbers DEF IInv, IdInv, Sound, Unwritten
  <2>5. \A i \in DOMAIN pending : pending[i] # c
    BY <2>2 DEF IInv, TableInv, Waiting
  <2>6. pc'[c] = "write" /\ \A d \in Callers : d # c => pc'[d] = pc[d]
    BY <1>0, <2>2
  <2> QED
    BY <1>0, <2>1, <2>2, <2>3, <2>4, <2>5, <2>6 DEF FlowInv
<1>3. ASSUME NEW c \in Callers, Write(c) PROVE FlowInv'
  <2>1. /\ Incoming' = Incoming /\ UNCHANGED <<pending, working, srv>>
        /\ MsgId(c) \in DOMAIN pending /\ pending[MsgId(c)] = c
        /\ Len(stdin) \in Nat /\ DOMAIN stdin = 1..Len(stdin)
        /\ DOMAIN stdin' = 1..(Len(stdin) + 1)
        /\ \A j \in 1..Len(stdin) : stdin'[j] = stdin[j]
        /\ stdin'[Len(stdin) + 1].id = MsgId(c)
        /\ pc'[c] # "write" /\ \A d \in Callers : d # c => pc'[d] = pc[d]
    BY <1>3, WriteStep
  <2>2. PICK x : x = MsgId(c) /\ x \in DOMAIN pending /\ pending[x] = c
    BY <2>1
  <2>8. Len(stdin) + 1 \in DOMAIN stdin' /\ DOMAIN stdin \subseteq DOMAIN stdin'
    BY <2>1
  <2>3. Underway(x)'
    BY <2>1, <2>2, <2>8 DEF Underway
  <2>4. \A i : Underway(i) => Underway(i)'
    BY <2>1, <2>2, <2>8 DEF Underway
  <2>5. \A j \in DOMAIN stdin' : j = Len(stdin) + 1 \/ j \in DOMAIN stdin
    BY <2>1
  <2>6. \A i : Unwritten(i) /\ i # x => Unwritten(i)'
    BY <2>1, <2>2, <2>5 DEF Unwritten
  <2>7. \A i \in DOMAIN pending : pending[i] = c => i = x
    BY <2>2 DEF IInv, TableInv
  <2> QED
    BY <1>0, <2>1, <2>2, <2>3, <2>4, <2>6, <2>7 DEF FlowInv
<1>4. ASSUME NEW c \in Callers, ReadLength(c) \/ HandleMessage(c) PROVE FlowInv'
  <2>1. /\ UNCHANGED <<stdin, working, srv>>
        /\ Len(Incoming) \in Nat \ {0} /\ Incoming[1] = Head(read_buf)
        /\ DOMAIN Incoming = 1..Len(Incoming)
        /\ DOMAIN Incoming' = 1..(Len(Incoming) - 1)
        /\ \A j \in 1..(Len(Incoming) - 1) : Incoming'[j] = Incoming[j + 1]
        /\ \A d \in Callers : pc[d] # "write" /\ pc'[d] # "write"
    BY <1>4, ParseStep
  <2>2. \A j \in DOMAIN Incoming : j # 1 => /\ j - 1 \in DOMAIN Incoming'
                                           /\ Incoming'[j - 1] = Incoming[j]
    BY <2>1
  <2>3. \A i : Underway(i) /\ (Incoming[1].id # i \/ Incoming[1].part = "len") => Underway(i)'
    <3>1. SUFFICES ASSUME NEW i, Underway(i), Incoming[1].id # i \/ Incoming[1].part = "len"
                   PROVE  Underway(i)'
      OBVIOUS
    <3>2. CASE (\E j \in DOMAIN stdin : stdin[j].id = i) \/ (\E m \in working : m.id = i)
      BY <2>1, <3>2 DEF Underway
    <3>3. CASE \E j \in DOMAIN Incoming : Incoming[j].id = i /\ Incoming[j].part # "len"
      BY <2>2, <3>1, <3>3 DEF Underway
    <3> QED
      BY <3>1, <3>2, <3>3 DEF Underway
  <2>4. CASE ReadLength(c)
    BY <1>0, <2>1, <2>3, <2>4 DEF FlowInv, ReadLength
  <2>5. CASE HandleMessage(c)
    <3>1. /\ DOMAIN pending' = DOMAIN pending \ {Incoming[1].id}
          /\ \A i \in DOMAIN pending' : pending'[i] = pending[i]
      BY <2>1, <2>5 DEF HandleMessage, Restrict
    <3> QED
      BY <1>0, <2>1, <2>3, <3>1 DEF FlowInv
  <2> QED
    BY <1>4, <2>4, <2>5
<1>5. ASSUME NEW t \in Threads, Cleanup(t) PROVE FlowInv'
  <2>1. DOMAIN pending' = {}
    BY <1>5 DEF Cleanup
  <2> QED
    BY <2>1 DEF FlowInv
<1>6. CASE SrvRequest
  <2>1. /\ UNCHANGED <<pending, pc, srv>>
        /\ Len(stdin) \in Nat \ {0} /\ stdin[1] \in Messages
        /\ DOMAIN stdin = 1..Len(stdin) /\ DOMAIN stdin' = 1..(Len(stdin) - 1)
        /\ \A j \in 1..(Len(stdin) - 1) : stdin'[j] = stdin[j + 1]
    BY <1>6, RequestStep
  <2>2. PICK m \in Messages : m = stdin[1]
    BY <2>1
  <2>3. /\ \A j \in DOMAIN stdin : j # 1 =>
               j - 1 \in DOMAIN stdin' /\ stdin'[j - 1] = stdin[j]
        /\ \A j \in DOMAIN stdin' : j + 1 \in DOMAIN stdin /\ stdin'[j] = stdin[j + 1]
        /\ 1 \in DOMAIN stdin
    <3>1. \A j \in DOMAIN stdin : j # 1 =>
              j - 1 \in 1..(Len(stdin) - 1) /\ j - 1 + 1 = j
      BY <2>1
    <3>2. \A j \in DOMAIN stdin' : j + 1 \in DOMAIN stdin
      BY <2>1
    <3>3. \A j \in DOMAIN stdin : j # 1 =>
              j - 1 \in DOMAIN stdin' /\ stdin'[j - 1] = stdin[j]
      BY <2>1, <3>1
    <3>4. \A j \in DOMAIN stdin' : stdin'[j] = stdin[j + 1]
      BY <2>1
    <3>5. 1 \in DOMAIN stdin
      BY <2>1
    <3> QED
      BY <3>2, <3>3, <3>4, <3>5
  <2>4. CASE /\ Kind[m.from] = "framed" /\ working' = working
             /\ outgoing' = outgoing \o Response(m)
             /\ UNCHANGED <<read_buf, stdout, write_buf>>
    <3>1. /\ DOMAIN Incoming = 1..Len(Incoming) /\ DOMAIN Incoming' = 1..Len(Incoming')
          /\ Len(Incoming) \in Nat /\ Len(Incoming') = Len(Incoming) + 2
          /\ \A j \in 1..Len(Incoming) : Incoming'[j] = Incoming[j]
          /\ \A j \in 1..Len(Incoming') : j > Len(Incoming) => Incoming'[j].id = m.id
          /\ Incoming'[Len(Incoming) + 2].part = "body"
      BY <1>0, <2>4, QueueStep
    <3>2. /\ Len(Incoming) + 2 \in DOMAIN Incoming'
          /\ Incoming'[Len(Incoming) + 2].id = m.id
          /\ Incoming'[Len(Incoming) + 2].part # "len"
          /\ \A j \in DOMAIN Incoming : j \in DOMAIN Incoming' /\ Incoming'[j] = Incoming[j]
          /\ \A j \in DOMAIN Incoming' : \/ j \in DOMAIN Incoming /\ Incoming'[j] = Incoming[j]
                                         \/ Incoming'[j].id = m.id
      BY <3>1
    <3>3. \A i : Underway(i) => Underway(i)'
      BY <2>2, <2>3, <2>4, <3>2, SMTT(30) DEF Underway
    <3>4. \A i : Unwritten(i) => Unwritten(i)'
      BY <2>2, <2>3, <2>4, <3>2 DEF Unwritten
    <3> QED
      BY <1>0, <2>1, <3>3, <3>4 DEF FlowInv
  <2>5. CASE working' = working \cup {m} /\ Incoming' = Incoming
    <3>1. \A i : Underway(i) => Underway(i)'
      BY <2>2, <2>3, <2>5 DEF Underway
    <3>2. \A i : Unwritten(i) => Unwritten(i)'
      BY <2>2, <2>3, <2>5 DEF Unwritten
    <3> QED
      BY <1>0, <2>1, <3>1, <3>2 DEF FlowInv
  <2> QED
    BY <1>6, <2>2, <2>4, <2>5, RequestStep
<1>7. CASE WorkerResponds
  <2>1. PICK m \in working : /\ working' = working \ {m}
                             /\ outgoing' = outgoing \o Response(m)
                             /\ UNCHANGED <<read_buf, stdout, write_buf, stdin, pending, pc, srv>>
    BY <1>7 DEF WorkerResponds
  <2>2. m \in Messages /\ Kind[m.from] \in {"framed", "put", "get"}
    BY <1>0, ConnectionAssumption DEF TypeOK, Messages
  <2>3. /\ DOMAIN Incoming = 1..Len(Incoming) /\ DOMAIN Incoming' = 1..Len(Incoming')
        /\ Len(Incoming) \in Nat /\ Len(Incoming') \in Nat /\ Len(Incoming) <= Len(Incoming')
        /\ \A j \in 1..Len(Incoming) : Incoming'[j] = Incoming[j]
        /\ \A j \in 1..Len(Incoming') : j > Len(Incoming) => Incoming'[j].id = m.id
        /\ \/ /\ Len(Incoming') = Len(Incoming) + 2
              /\ Incoming'[Len(Incoming) + 2].part = "body"
           \/ /\ Len(Incoming') = Len(Incoming) + 1
              /\ Incoming'[Len(Incoming) + 1].part = "raw"
           \/ Kind[m.from] = "get"
    BY <1>0, <2>1, <2>2, QueueStep
  <2>4. /\ \A j \in DOMAIN Incoming : j \in DOMAIN Incoming' /\ Incoming'[j] = Incoming[j]
        /\ \A j \in DOMAIN Incoming' : \/ j \in DOMAIN Incoming /\ Incoming'[j] = Incoming[j]
                                       \/ Incoming'[j].id = m.id
        /\ \/ \E j \in DOMAIN Incoming' : Incoming'[j].id = m.id /\ Incoming'[j].part # "len"
           \/ Kind[m.from] = "get"
    <3>0. PICK L \in Nat, M \in Nat : L = Len(Incoming) /\ M = Len(Incoming')
      BY <2>3
    <3>1. \A j \in DOMAIN Incoming : j \in DOMAIN Incoming' /\ Incoming'[j] = Incoming[j]
      <4>1. L <= M
        BY <2>3, <3>0
      <4>2. \A j \in 1..L : j \in 1..M
        BY <4>1
      <4>3. \A j \in 1..L : Incoming'[j] = Incoming[j]
        BY <2>3, <3>0, Zenon
      <4> QED
        BY <2>3, <3>0, <4>2, <4>3, Zenon
    <3>2. \A j \in DOMAIN Incoming' : \/ j \in DOMAIN Incoming /\ Incoming'[j] = Incoming[j]
                                      \/ Incoming'[j].id = m.id
      <4>1. \A j \in 1..M : j \in 1..L \/ j > L
        OBVIOUS
      <4>2. \A j \in 1..M : \/ j \in 1..L /\ Incoming'[j] = Incoming[j]
                            \/ Incoming'[j].id = m.id
        BY <2>3, <3>0, <4>1
      <4> QED
        BY <2>3, <3>0, <4>2
    <3>3. CASE /\ Len(Incoming') = Len(Incoming) + 2
               /\ Incoming'[Len(Incoming) + 2].part = "body"
      <4>1. Len(Incoming) + 2 \in DOMAIN Incoming' /\ Incoming'[Len(Incoming) + 2].id = m.id
        BY <2>3, <3>3
      <4> QED
        BY <3>1, <3>2, <3>3, <4>1
    <3>4. CASE /\ Len(Incoming') = Len(Incoming) + 1
               /\ Incoming'[Len(Incoming) + 1].part = "raw"
      <4>1. Len(Incoming) + 1 \in DOMAIN Incoming' /\ Incoming'[Len(Incoming) + 1].id = m.id
        BY <2>3, <3>4
      <4> QED
        BY <3>1, <3>2, <3>4, <4>1
    <3> QED
      BY <2>3, <3>1, <3>2, <3>3, <3>4
  <2>5. \A i : Underway(i) /\ (i # m.id \/ Kind[m.from] # "get") => Underway(i)'
    BY <2>1, <2>4 DEF Underway
  <2>6. \A i : Unwritten(i) => Unwritten(i)'
    BY <2>1, <2>4 DEF Unwritten
  <2>7. \A i \in DOMAIN pending : i = m.id => pending[i] = m.from
    BY DEF IInv, IdInv, Sound
  <2> QED
    BY <1>0, <2>1, <2>5, <2>6, <2>7 DEF FlowInv
<1>8. CASE SrvGone
  <2>1. /\ UNCHANGED <<pending, pc>> /\ srv' = "ended"
        /\ DOMAIN stdin' = {} /\ working' = {} /\ DOMAIN Incoming' \subseteq DOMAIN Incoming
        /\ \A j \in DOMAIN Incoming' : Incoming'[j] = Incoming[j]
    BY <1>0, <1>8, GoneStep
  <2>2. \A i : Unwritten(i) => Unwritten(i)'
    BY <2>1 DEF Unwritten
  <2> QED
    BY <1>0, <2>1, <2>2 DEF FlowInv
<1> QED
    BY <1>1, <1>2, <1>3, <1>4, <1>5, <1>6, <1>7, <1>8, QuietOrLoud DEF Loud

-----------------------------------------------------------------------------
(***************************************************************************)
(* Lengths and messages by turns: what the changes of Incoming do to it.   *)
(***************************************************************************)

\* t is s without its first token, or s and the two tokens of one more message, or the
\* beginning of s.
Shifted(s, t) == /\ Len(s) \in Nat \ {0} /\ Len(t) = Len(s) - 1
                 /\ \A j \in 1..(Len(s) - 1) : t[j] = s[j + 1]
Extended(s, t) == /\ Len(s) \in Nat /\ Len(t) = Len(s) + 2
                  /\ \A j \in 1..Len(s) : t[j] = s[j]
                  /\ t[Len(s) + 1].part = "len" /\ t[Len(s) + 2].part = "body"
                  /\ t[Len(s) + 1].id = t[Len(s) + 2].id
Begins(s, t) == /\ Len(s) \in Nat /\ Len(t) \in Nat /\ Len(t) <= Len(s)
                /\ \A j \in 1..Len(t) : t[j] = s[j]

\* A length that is read leaves the body that belongs to it first ...
LEMMA FramedLength ==
    ASSUME NEW s, NEW t, Shifted(s, t), Framed(s, None), s[1].part = "len", s[1].id # None
    PROVE  Framed(t, s[1].id) /\ (Whole(s, None) => Whole(t, s[1].id))
<1>1. PICK L \in Nat \ {0} : L = Len(s) /\ Len(t) = L - 1 /\ \A j \in 1..(L - 1) : t[j] = s[j + 1]
    BY DEF Shifted
<1>2. /\ \A j \in 1..L : s[j].part # "raw"
      /\ \A j \in 1..(L - 1) : /\ s[j].part = "len" <=> s[j + 1].part # "len"
                               /\ s[j].part = "len" => s[j + 1].id = s[j].id
    BY <1>1 DEF Framed
<1>3. \A j \in 1..(L - 1) : j + 1 \in 1..L /\ t[j].part # "raw"
    BY <1>1, <1>2
<1>4. \A j \in 1..(L - 2) : /\ t[j].part = "len" <=> t[j + 1].part # "len"
                            /\ t[j].part = "len" => t[j + 1].id = t[j].id
  <2>1. \A j \in 1..(L - 2) : j + 1 \in 1..(L - 1) /\ t[j] = s[j + 1] /\ t[j + 1] = s[j + 1 + 1]
    BY <1>1
  <2> QED
    BY <1>2, <2>1
<1>5. L - 1 > 0 => t[1].part # "len" /\ t[1].id = s[1].id
  <2>1. L - 1 > 0 => 1 \in 1..(L - 1) /\ t[1] = s[1 + 1]
    BY <1>1
  <2> QED
    BY <1>2, <2>1
<1>6. Framed(t, s[1].id)
  <2>1. (L - 1) - 1 = L - 2
    BY <1>1
  <2> QED
    BY <1>1, <1>3, <1>4, <1>5, <2>1 DEF Framed
<1>7. Whole(s, None) => Whole(t, s[1].id)
  <2>1. SUFFICES ASSUME s[L].part # "len" PROVE Whole(t, s[1].id)
    BY <1>1 DEF Whole
  <2>2. L # 1
    BY <2>1
  <2>3. L - 1 > 0 /\ L - 1 \in 1..(L - 1) /\ L - 1 + 1 = L
    BY <2>2
  <2>4. t[L - 1] = s[L]
    BY <1>1, <2>3
  <2> QED
    BY <1>1, <2>1, <2>3, <2>4 DEF Whole
<1> QED
    BY <1>6, <1>7

\* ... a body that is read leaves a length first ...
LEMMA FramedMessage ==
    ASSUME NEW s, NEW t, NEW n, Shifted(s, t), Framed(s, n), n # None
    PROVE  s[1].part # "len" /\ Framed(t, None) /\ (Whole(s, n) => Whole(t, None))
<1>1. PICK L \in Nat \ {0} : L = Len(s) /\ Len(t) = L - 1 /\ \A j \in 1..(L - 1) : t[j] = s[j + 1]
    BY DEF Shifted
<1>2. /\ \A j \in 1..L : s[j].part # "raw"
      /\ \A j \in 1..(L - 1) : /\ s[j].part = "len" <=> s[j + 1].part # "len"
                               /\ s[j].part = "len" => s[j + 1].id = s[j].id
      /\ s[1].part # "len"
    BY <1>1 DEF Framed
<1>3. \A j \in 1..(L - 1) : j + 1 \in 1..L /\ t[j].part # "raw"
    BY <1>1, <1>2
<1>4. \A j \in 1..(L - 2) : /\ t[j].part = "len" <=> t[j + 1].part # "len"
                            /\ t[j].part = "len" => t[j + 1].id = t[j].id
  <2>1. \A j \in 1..(L - 2) : j + 1 \in 1..(L - 1) /\ t[j] = s[j + 1] /\ t[j + 1] = s[j + 1 + 1]
    BY <1>1
  <2> QED
    BY <1>2, <2>1
<1>5. L - 1 > 0 => t[1].part = "len"
  <2>1. L - 1 > 0 => 1 \in 1..(L - 1) /\ t[1] = s[1 + 1]
    BY <1>1
  <2> QED
    BY <1>2, <2>1
<1>6. Framed(t, None)
  <2>1. (L - 1) - 1 = L - 2
    BY <1>1
  <2> QED
    BY <1>1, <1>3, <1>4, <1>5, <2>1 DEF Framed
<1>7. Whole(s, n) => Whole(t, None)
  <2>1. SUFFICES ASSUME s[L].part # "len" PROVE Whole(t, None)
    BY <1>1 DEF Whole
  <2>2. CASE L = 1
    BY <1>1, <2>2 DEF Whole
  <2>3. CASE L # 1
    <3>1. L - 1 > 0 /\ L - 1 \in 1..(L - 1) /\ L - 1 + 1 = L
      BY <2>3
    <3>2. t[L - 1] = s[L]
      BY <1>1, <3>1
    <3> QED
      BY <1>1, <2>1, <3>1, <3>2 DEF Whole
  <2> QED
    BY <2>2, <2>3
<1> QED
    BY <1>2, <1>6, <1>7

\* ... a whole response may be queued behind whole ones ...
LEMMA FramedQueue ==
    ASSUME NEW s, NEW t, NEW n, Extended(s, t), Framed(s, n), Whole(s, n)
    PROVE  Framed(t, n) /\ Whole(t, n)
<1>1. PICK L \in Nat : /\ L = Len(s) /\ Len(t) = L + 2
                       /\ \A j \in 1..L : t[j] = s[j]
                       /\ t[L + 1].part = "len" /\ t[L + 2].part = "body"
                       /\ t[L + 1].id = t[L + 2].id
    BY DEF Extended
<1>2. /\ \A j \in 1..L : s[j].part # "raw"
      /\ \A j \in 1..(L - 1) : /\ s[j].part = "len" <=> s[j + 1].part # "len"
                               /\ s[j].part = "len" => s[j + 1].id = s[j].id
      /\ L > 0 => (s[1].part = "len" <=> n = None) /\ (n # None => s[1].id = n)
      /\ IF L > 0 THEN s[L].part # "len" ELSE n = None
    BY <1>1 DEF Framed, Whole
<1>3. \A j \in 1..(L + 2) : j \in 1..L \/ j = L + 1 \/ j = L + 2
    BY <1>1
<1>4. \A j \in 1..(L + 2) : t[j].part # "raw"
    BY <1>1, <1>2, <1>3
<1>5. \A j \in 1..(L + 1) : /\ t[j].part = "len" <=> t[j + 1].part # "len"
                            /\ t[j].part = "len" => t[j + 1].id = t[j].id
  <2>1. SUFFICES ASSUME NEW j \in 1..(L + 1)
                 PROVE  /\ t[j].part = "len" <=> t[j + 1].part # "len"
                        /\ t[j].part = "len" => t[j + 1].id = t[j].id
    OBVIOUS
  <2>2. CASE j < L
    <3>1. j \in 1..L /\ j + 1 \in 1..L /\ j \in 1..(L - 1)
      BY <2>2
    <3> QED
      BY <1>1, <1>2, <3>1
  <2>3. CASE j = L
    <3>1. t[j] = s[L] /\ s[L].part # "len"
      BY <1>1, <1>2, <2>3
    <3> QED
      BY <1>1, <2>3, <3>1
  <2>4. CASE j = L + 1
    BY <1>1, <2>4
  <2> QED
    BY <2>2, <2>3, <2>4
<1>6. (t[1].part = "len" <=> n = None) /\ (n # None => t[1].id = n)
  <2>1. CASE L = 0
    BY <1>1, <1>2, <2>1
  <2>2. CASE L # 0
    <3>1. L > 0 /\ 1 \in 1..L
      BY <2>2
    <3> QED
      BY <1>1, <1>2, <3>1
  <2> QED
    BY <2>1, <2>2
<1>7. Framed(t, n)
  <2>1. (L + 2) - 1 = L + 1
    BY <1>1
  <2> QED
    BY <1>1, <1>4, <1>5, <1>6, <2>1 DEF Framed
<1> QED
    BY <1>1, <1>7 DEF Whole

\* ... and what is lost at the end takes nothing from the framing of the rest.
LEMMA FramedCut ==
    ASSUME NEW s, NEW t, NEW n, Begins(s, t), Framed(s, n)
    PROVE  Framed(t, n)
<1>1. PICK L \in Nat, M \in Nat : /\ L = Len(s) /\ M = Len(t) /\ M <= L
                                  /\ \A j \in 1..M : t[j] = s[j]
    BY DEF Begins
<1>2. /\ \A j \in 1..L : s[j].part # "raw"
      /\ \A j \in 1..(L - 1) : /\ s[j].part = "len" <=> s[j + 1].part # "len"
                               /\ s[j].part = "len" => s[j + 1].id = s[j].id
      /\ L > 0 => (s[1].part = "len" <=> n = None) /\ (n # None => s[1].id = n)
    BY <1>1 DEF Framed
<1>3. \A j \in 1..M : j \in 1..L
    BY <1>1
<1>4. \A j \in 1..(M - 1) : j \in 1..M /\ j + 1 \in 1..M /\ j \in 1..(L - 1)
    BY <1>1
<1>5. \A j \in 1..(M - 1) : /\ t[j].part = "len" <=> t[j + 1].part # "len"
                            /\ t[j].part = "len" => t[j + 1].id = t[j].id
    BY <1>1, <1>2, <1>4
<1>6. M > 0 => L > 0 /\ 1 \in 1..M
    BY <1>1
<1> QED
    BY <1>1, <1>2, <1>3, <1>5, <1>6 DEF Framed

\* As long as no worker sends a payload, lengths and messages come by turns.
LEMMA FrameStep ==
    ASSUME IInv, [Next]_vars
    PROVE  FrameInv'
<1> USE DEF vars, connVars, pipeVars, srvVars
<1> SUFFICES ASSUME NoPuts PROVE FrameInv'
    BY DEF FrameInv, NoPuts
<1> DEFINE Known == /\ \A j \in DOMAIN stdin : stdin[j].id \in DOMAIN pending
                    /\ \A m \in working : m.id \in DOMAIN pending
                    /\ \A j \in DOMAIN Incoming : Incoming[j].id \in DOMAIN pending
<1>0. /\ TypeOK /\ TypeOK' /\ OnceInv /\ Framed(Incoming, read_msg_len)
      /\ srv # "ended" => Whole(Incoming, read_msg_len)
      /\ ~closed => Known
    BY TypeStep DEF IInv, FrameInv
<1>00. SUFFICES /\ Framed(Incoming', read_msg_len')
                /\ srv' # "ended" => Whole(Incoming', read_msg_len')
                /\ ~closed' => Known'
    BY DEF FrameInv
<1>1. CASE Quiet
    BY <1>0, <1>1 DEF Quiet
<1>2. ASSUME NEW c \in Callers, Send(c)
      PROVE  /\ Framed(Incoming', read_msg_len')
             /\ srv' # "ended" => Whole(Incoming', read_msg_len')
             /\ ~closed' => Known'
  <2>1. /\ UNCHANGED <<stdin, working, srv, read_msg_len, closed>> /\ Incoming' = Incoming
        /\ DOMAIN pending \subseteq DOMAIN pending'
    BY <1>2 DEF Send, Incoming
  <2> QED
    BY <1>0, <2>1
<1>3. ASSUME NEW c \in Callers, Write(c)
      PROVE  /\ Framed(Incoming', read_msg_len')
             /\ srv' # "ended" => Whole(Incoming', read_msg_len')
             /\ ~closed' => Known'
  <2>1. /\ Incoming' = Incoming /\ UNCHANGED <<pending, read_msg_len, closed, working, srv>>
        /\ MsgId(c) \in DOMAIN pending
        /\ Len(stdin) \in Nat /\ DOMAIN stdin = 1..Len(stdin)
        /\ DOMAIN stdin' = 1..(Len(stdin) + 1)
        /\ \A j \in 1..Len(stdin) : stdin'[j] = stdin[j]
        /\ stdin'[Len(stdin) + 1].id = MsgId(c)
    BY <1>3, WriteStep
  <2>2. ~closed => \A j \in DOMAIN stdin' : stdin'[j].id \in DOMAIN pending
    BY <1>0, <2>1
  <2> QED
    BY <1>0, <2>1, <2>2
<1>4. ASSUME NEW c \in Callers, ReadLength(c) \/ HandleMessage(c)
      PROVE  /\ Framed(Incoming', read_msg_len')
             /\ srv' # "ended" => Whole(Incoming', read_msg_len')
             /\ ~closed' => Known'
  <2>1. /\ UNCHANGED <<stdin, working, srv, closed>>
        /\ Len(Incoming) \in Nat \ {0} /\ Incoming[1] = Head(read_buf)
        /\ DOMAIN Incoming = 1..Len(Incoming) /\ Len(Incoming') = Len(Incoming) - 1
        /\ DOMAIN Incoming' = 1..(Len(Incoming) - 1)
        /\ \A j \in 1..(Len(Incoming) - 1) : Incoming'[j] = Incoming[j + 1]
    BY <1>4, ParseStep
  <2>2. Shifted(Incoming, Incoming')
    BY <2>1 DEF Shifted
  <2>3. /\ \A j \in DOMAIN Incoming' : j + 1 \in DOMAIN Incoming /\ 1 < j + 1
                                       /\ Incoming'[j] = Incoming[j + 1]
        /\ 1 \in DOMAIN Incoming
    BY <2>1
  <2>4. CASE ReadLength(c)
    <3>1. /\ read_msg_len = None /\ Incoming[1].part = "len" /\ read_msg_len' = Incoming[1].id
          /\ UNCHANGED pending
      BY <2>1, <2>4 DEF ReadLength
    <3>2. Incoming[1].id # None
      BY <1>0, <2>3, IdsNumbers, ConnectionAssumption
    <3>3. /\ Framed(Incoming', Incoming[1].id)
          /\ Whole(Incoming, None) => Whole(Incoming', Incoming[1].id)
      BY <1>0, <2>2, <3>1, <3>2, FramedLength
    <3>4. ~closed' => Known'
      BY <1>0, <2>1, <2>3, <3>1
    <3> HIDE DEF Known
    <3> QED
      BY <1>0, <2>1, <3>1, <3>3, <3>4
  <2>5. CASE HandleMessage(c)
    <3>1. /\ read_msg_len # None /\ read_msg_len' = None
          /\ DOMAIN pending' = DOMAIN pending \ {Incoming[1].id}
      BY <2>1, <2>5 DEF HandleMessage, Restrict
    <3>2. /\ Incoming[1].part # "len" /\ Framed(Incoming', None)
          /\ Whole(Incoming, read_msg_len) => Whole(Incoming', None)
      BY <1>0, <2>2, <3>1, FramedMessage
    <3>3. /\ \A j \in DOMAIN Incoming' : Incoming'[j].id # Incoming[1].id
          /\ \A j \in DOMAIN stdin : stdin[j].id # Incoming[1].id
          /\ \A m \in working : m.id # Incoming[1].id
      BY <1>0, <2>3, <3>2 DEF OnceInv
    <3>4. ~closed' => Known'
      BY <1>0, <2>1, <2>3, <3>1, <3>3
    <3> HIDE DEF Known
    <3> QED
      BY <1>0, <2>1, <3>1, <3>2, <3>4
  <2> QED
    BY <1>4, <2>4, <2>5
<1>5. ASSUME NEW t \in Threads, Cleanup(t)
      PROVE  /\ Framed(Incoming', read_msg_len')
             /\ srv' # "ended" => Whole(Incoming', read_msg_len')
             /\ ~closed' => Known'
  <2>1. UNCHANGED <<srv, read_msg_len>> /\ Incoming' = Incoming /\ closed'
    BY <1>5 DEF Cleanup, Incoming
  <2> QED
    BY <1>0, <2>1
<1>6. ASSUME NEW m \in Messages, outgoing' = outgoing \o Response(m),
             UNCHANGED <<read_buf, stdout, write_buf, read_msg_len, pending>>,
             srv # "ended", m.id \in DOMAIN pending \/ closed
      PROVE  /\ Framed(Incoming', read_msg_len') /\ Whole(Incoming', read_msg_len')
             /\ ~closed => \A j \in DOMAIN Incoming' : Incoming'[j].id \in DOMAIN pending
  <2>1. Kind[m.from] = "framed" \/ Kind[m.from] = "get"
    BY ConnectionAssumption DEF Messages, NoPuts
  <2>2. /\ Len(Incoming) \in Nat /\ DOMAIN Incoming = 1..Len(Incoming)
        /\ Len(Incoming') \in Nat /\ DOMAIN Incoming' = 1..Len(Incoming')
        /\ Len(Incoming) <= Len(Incoming')
        /\ \A j \in 1..Len(Incoming) : Incoming'[j] = Incoming[j]
        /\ \A j \in 1..Len(Incoming') : j > Len(Incoming) => Incoming'[j].id = m.id
        /\ Kind[m.from] = "framed" => /\ Len(Incoming') = Len(Incoming) + 2
                                      /\ Incoming'[Len(Incoming) + 1].part = "len"
                                      /\ Incoming'[Len(Incoming) + 2].part = "body"
        /\ Kind[m.from] = "get" => Len(Incoming') = Len(Incoming)
    BY <1>0, <1>6, QueueStep
  <2>0. Len(Incoming) \in Nat /\ Len(Incoming') \in Nat
    BY <2>2
  <2>3. CASE Kind[m.from] = "framed"
    <3>1. /\ Len(Incoming) + 1 \in 1..Len(Incoming') /\ Len(Incoming) + 1 > Len(Incoming)
          /\ Len(Incoming) + 2 \in 1..Len(Incoming') /\ Len(Incoming) + 2 > Len(Incoming)
      BY <2>2, <2>3
    <3>2. Extended(Incoming, Incoming')
      BY <2>2, <2>3, <3>1 DEF Extended
    <3>3. Framed(Incoming', read_msg_len) /\ Whole(Incoming', read_msg_len)
      BY <1>0, <1>6, <3>2, FramedQueue
    <3>4. \A j \in 1..Len(Incoming') : j \in 1..Len(Incoming) \/ j > Len(Incoming)
      BY <2>0
    <3>5. ~closed => \A j \in 1..Len(Incoming') : Incoming'[j].id \in DOMAIN pending
      BY <1>0, <1>6, <2>2, <3>4
    <3> QED
      BY <1>6, <2>2, <3>3, <3>5
  <2>4. CASE Kind[m.from] = "get"
    <3>1. Begins(Incoming, Incoming') /\ Len(Incoming') = Len(Incoming)
      BY <2>2, <2>4 DEF Begins
    <3>2. Framed(Incoming', read_msg_len)
      BY <1>0, <3>1, FramedCut
    <3>3. Whole(Incoming', read_msg_len)
      <4>1. Len(Incoming) > 0 => Len(Incoming) \in 1..Len(Incoming)
        BY <2>0
      <4>2. Len(Incoming) > 0 => Incoming'[Len(Incoming)] = Incoming[Len(Incoming)]
        BY <2>2, <4>1
      <4> QED
        BY <1>0, <1>6, <3>1, <4>2 DEF Whole
    <3>4. ~closed => \A j \in DOMAIN Incoming' : Incoming'[j].id \in DOMAIN pending
      BY <1>0, <2>2, <3>1
    <3> QED
      BY <1>6, <3>2, <3>3, <3>4
  <2> QED
    BY <2>1, <2>3, <2>4
<1>7. ASSUME SrvRequest
      PROVE  /\ Framed(Incoming', read_msg_len')
             /\ srv' # "ended" => Whole(Incoming', read_msg_len')
             /\ ~closed' => Known'
  <2>1. /\ UNCHANGED <<pending, read_msg_len, closed, srv>> /\ srv # "ended"
        /\ Len(stdin) \in Nat \ {0} /\ stdin[1] \in Messages
        /\ DOMAIN stdin = 1..Len(stdin) /\ DOMAIN stdin' = 1..(Len(stdin) - 1)
        /\ \A j \in 1..(Len(stdin) - 1) : stdin'[j] = stdin[j + 1]
    BY <1>7, RequestStep
  <2>2. PICK m \in Messages : m = stdin[1]
    BY <2>1
  <2>3. /\ \A j \in DOMAIN stdin' : j + 1 \in DOMAIN stdin /\ stdin'[j] = stdin[j + 1]
        /\ 1 \in DOMAIN stdin
    BY <2>1
  <2>4. ~closed => m.id \in DOMAIN pending /\ \A j \in DOMAIN stdin' : stdin'[j].id \in DOMAIN pending
    BY <1>0, <2>2, <2>3
  <2>5. CASE /\ outgoing' = outgoing \o Response(m) /\ working' = working
             /\ UNCHANGED <<read_buf, stdout, write_buf>>
    <3>1. /\ Framed(Incoming', read_msg_len') /\ Whole(Incoming', read_msg_len')
          /\ ~closed => \A j \in DOMAIN Incoming' : Incoming'[j].id \in DOMAIN pending
      BY <1>6, <2>1, <2>4, <2>5
    <3> QED
      BY <1>0, <2>1, <2>4, <2>5, <3>1
  <2>6. CASE working' = working \cup {m} /\ Incoming' = Incoming
    BY <1>0, <2>1, <2>4, <2>6
  <2> QED
    BY <1>7, <2>2, <2>5, <2>6, RequestStep
<1>8. ASSUME WorkerResponds
      PROVE  /\ Framed(Incoming', read_msg_len')
             /\ srv' # "ended" => Whole(Incoming', read_msg_len')
             /\ ~closed' => Known'
  <2>1. PICK m \in working : /\ working' = working \ {m}
                             /\ outgoing' = outgoing \o Response(m)
                             /\ UNCHANGED <<read_buf, stdout, write_buf, stdin, pending, srv,
                                            read_msg_len, closed>>
                             /\ srv # "ended"
    BY <1>8 DEF WorkerResponds
  <2>2. m \in Messages /\ (~closed => m.id \in DOMAIN pending)
    BY <1>0 DEF TypeOK
  <2>3. /\ Framed(Incoming', read_msg_len') /\ Whole(Incoming', read_msg_len')
        /\ ~closed => \A j \in DOMAIN Incoming' : Incoming'[j].id \in DOMAIN pending
    BY <1>6, <2>1, <2>2
  <2> QED
    BY <1>0, <2>1, <2>3
<1>9. ASSUME SrvGone
      PROVE  /\ Framed(Incoming', read_msg_len')
             /\ srv' # "ended" => Whole(Incoming', read_msg_len')
             /\ ~closed' => Known'
  <2>1. /\ UNCHANGED <<pending, read_msg_len, closed>> /\ srv' = "ended"
        /\ DOMAIN stdin' = {} /\ working' = {}
        /\ Len(Incoming) \in Nat /\ Len(Incoming') \in Nat /\ DOMAIN Incoming' = 1..Len(Incoming')
        /\ Len(Incoming') <= Len(Incoming) /\ DOMAIN Incoming' \subseteq DOMAIN Incoming
        /\ \A j \in 1..Len(Incoming') : Incoming'[j] = Incoming[j]
    BY <1>0, <1>9, GoneStep
  <2>2. Begins(Incoming, Incoming')
    BY <2>1 DEF Begins
  <2>3. Framed(Incoming', read_msg_len)
    BY <1>0, <2>2, FramedCut
  <2> QED
    BY <1>0, <2>1, <2>3
<1> QED
    BY <1>1, <1>2, <1>3, <1>4, <1>5, <1>7, <1>8, <1>9, QuietOrLoud DEF Loud

-----------------------------------------------------------------------------
\* The connection starts with the invariant ...
LEMMA InitOK == Init => IInv
<1> SUFFICES ASSUME Init PROVE IInv
    OBVIOUS
<1>1. /\ DOMAIN pending = {} /\ DOMAIN stdin = {} /\ working = {} /\ read_msg_len = None
      /\ read_buf = <<>> /\ stdout = <<>> /\ write_buf = <<>> /\ outgoing = <<>>
    BY DEF Init
<1>2. TypeOK
  <2>1. /\ <<>> \in Seq(Tokens) /\ <<>> \in Seq(Messages)
        /\ <<>> \in Seq({"own", "other", "closed"})
    BY EmptySeq
  <2>2. pc \in [Threads -> Pcs] /\ results \in [Callers -> Seq({"own", "other", "closed"})]
    BY <2>1 DEF Init, Pcs
  <2>3. next_id \in Nat /\ DOMAIN pending \subseteq 0..(next_id - 1)
    BY <1>1 DEF Init
  <2> QED
    BY <1>1, <2>1, <2>2, <2>3 DEF Init, TypeOK
<1>3. Incoming = <<>>
  <2>1. <<>> \in Seq(Tokens)
    BY EmptySeq
  <2>2. Cat(<<>>, <<>>) = <<>>
    BY <2>1, CatEmpty
  <2> QED
    BY <1>1, <1>2, <2>2, IncomingType
<1>4. DOMAIN Incoming = {} /\ Len(Incoming) = 0
    BY <1>3
<1>5. LockInv
    BY ConnectionAssumption DEF Init, LockInv, Holding
<1>6. TableInv
    BY <1>1 DEF Init, TableInv, Waiting, Threads
<1>7. SrvInv
    BY DEF Init, SrvInv
<1>8. IdInv /\ OnceInv /\ FlowInv
    BY <1>1, <1>4 DEF IdInv, OnceInv, FlowInv
<1>9. FrameInv
    BY <1>1, <1>4 DEF FrameInv, Framed, Whole
<1> QED
    BY <1>2, <1>5, <1>6, <1>7, <1>8, <1>9 DEF IInv

\* ... and every step keeps it.
LEMMA StepOK == IInv /\ [Next]_vars => IInv'
<1> SUFFICES ASSUME IInv, [Next]_vars PROVE IInv'
    OBVIOUS
<1> QED
    BY TypeStep, LockStep, TableStep, SrvStep, IdStep, OnceStep, FlowStep, FrameStep DEF IInv

\* The inductive invariant holds in every behaviour of the client.
THEOREM Inductive == Spec => []IInv
    BY InitOK, StepOK, PTL DEF Spec

\* Every variable keeps its type.
THEOREM TypeCorrect == Spec => []TypeOK
<1>1. IInv => TypeOK
    BY DEF IInv
<1> QED
    BY <1>1, Inductive, PTL

\* A call that waits is in one place only while the server lives: its request on its way
\* there or with a worker, or its response on its way back.
LEMMA OneOrNone ==
    ASSUME IInv, NEW i \in DOMAIN pending, srv # "ended", Kind[pending[i]] # "get"
    PROVE  OnItsWay(i) = IF pc[pending[i]] = "write" THEN 0 ELSE 1
<1> DEFINE A == {j \in DOMAIN stdin : stdin[j].id = i}
           B == {m \in working : m.id = i}
           C == {j \in DOMAIN Incoming : Incoming[j].id = i /\ Incoming[j].part # "len"}
<1>1. OnItsWay(i) = Cardinality(A) + Cardinality(B) + Cardinality(C)
    BY DEF OnItsWay
<1>2. Cardinality({}) = 0 /\ \A x : Cardinality({x}) = 1
    BY FS_EmptySet, FS_Singleton
<1>3. CASE pc[pending[i]] = "write"
  <2>1. Unwritten(i)
    BY <1>3 DEF IInv, FlowInv
  <2>2. A = {} /\ B = {} /\ C = {}
    BY <2>1 DEF Unwritten
  <2> HIDE DEF A, B, C
  <2> QED
    BY <1>1, <1>2, <1>3, <2>2
<1>4. CASE pc[pending[i]] # "write"
  <2>1. Underway(i) /\ OnceInv
    BY <1>4 DEF IInv, FlowInv
  <2>2. CASE \E j \in DOMAIN stdin : stdin[j].id = i
    <3>1. PICK j \in DOMAIN stdin : stdin[j].id = i
      BY <2>2
    <3>2. A = {j} /\ B = {} /\ C = {}
      BY <2>1, <3>1 DEF OnceInv
    <3>3. Cardinality({j}) = 1
      BY <1>2
    <3> HIDE DEF A, B, C
    <3> QED
      BY <1>1, <1>2, <1>4, <3>2, <3>3
  <2>3. CASE \E m \in working : m.id = i
    <3>1. PICK m \in working : m.id = i
      BY <2>3
    <3>2. A = {} /\ B = {m} /\ C = {}
      BY <2>1, <3>1 DEF OnceInv
    <3>3. Cardinality({m}) = 1
      BY <1>2
    <3> HIDE DEF A, B, C
    <3> QED
      BY <1>1, <1>2, <1>4, <3>2, <3>3
  <2>4. CASE \E j \in DOMAIN Incoming : Incoming[j].id = i /\ Incoming[j].part # "len"
    <3>1. PICK j \in DOMAIN Incoming : Incoming[j].id = i /\ Incoming[j].part # "len"
      BY <2>4
    <3>2. Incoming \in Seq(Tokens)
      BY IncomingType DEF IInv
    <3>3. \A k \in DOMAIN Incoming : k = j \/ k < j \/ j < k
      BY <3>2
    <3>4. \A k \in C : k = j
      BY <2>1, <3>1, <3>3 DEF OnceInv
    <3>5. C = {j}
      BY <3>1, <3>4
    <3>6. A = {} /\ B = {}
      BY <2>1, <3>1 DEF OnceInv
    <3>7. Cardinality({j}) = 1
      BY <1>2
    <3> HIDE DEF A, B, C
    <3> QED
      BY <1>1, <1>2, <1>4, <3>5, <3>6, <3>7
  <2> QED
    BY <2>1, <2>2, <2>3, <2>4 DEF Underway
<1> QED
    BY <1>3, <1>4

\* Until the server has ended, whatever callers, closers and pipes do, each pending call that
\* its client has written to stdin is under way exactly once, as a request or as a response;
\* only calls that a worker answers with no bytes are left out.
THEOREM NoneForgottenCorrect == Spec => []NoneForgotten
<1>1. IInv => NoneForgotten
    BY OneOrNone DEF NoneForgotten
<1> QED
    BY <1>1, Inductive, PTL

\* Where no worker's payload comes to the client, no response is refused on an open
\* connection, whatever the threads and the pipes do.
THEOREM UnderstoodCorrect ==
    ASSUME NoPuts
    PROVE  Spec => ResponsesUnderstood
<1>1. ASSUME IInv, [Next]_vars
      PROVE  [\A c \in Callers : pc[c] = "parse" /\ pc'[c] = "failing" => closed]_vars
  <2>1. SUFFICES ASSUME NEW c \in Callers, pc[c] = "parse", pc'[c] = "failing"
                 PROVE  closed
    OBVIOUS
  <2> USE DEF vars, connVars, pipeVars, srvVars, Goto
  <2>2. pc \in [Threads -> Pcs] /\ Callers \subseteq Threads /\ Closers \subseteq Threads
    BY <1>1 DEF IInv, TypeOK, Threads
  <2>3. ASSUME NEW d \in Callers, RefuseMessage(d) PROVE closed
    <3>1. d = c /\ Unintelligible
      BY <2>1, <2>2, <2>3 DEF RefuseMessage, Fail
    <3>2. /\ Incoming # <<>> /\ 1 \in DOMAIN Incoming /\ Incoming[1] = Head(read_buf)
          /\ Incoming \in Seq(Tokens)
      BY <1>1, <3>1, IncomingHead, IncomingType DEF IInv, Unintelligible
    <3>3. Incoming[1].part # "raw" /\ (~closed => Incoming[1].id \in DOMAIN pending)
      BY <1>1, <3>2 DEF IInv, FrameInv, Framed
    <3> QED
      BY <3>1, <3>2, <3>3 DEF Unintelligible
  <2>4. ASSUME NEW d \in Callers, Send(d) \/ SendClosed(d) \/ Check(d) \/ Write(d) \/ WriteFails(d)
        PROVE FALSE
    BY <2>1, <2>2, <2>4 DEF Send, SendClosed, Check, Write, WriteFails, AfterSend
  <2>5. ASSUME NEW d \in Callers, NeedMoreData(d) \/ ReadLength(d) \/ HandleMessage(d)
                                  \/ TimeOut(d) \/ Test(d)
        PROVE FALSE
    BY <2>1, <2>2, <2>5 DEF NeedMoreData, ReadLength, HandleMessage, TimeOut, Test
  <2>6. ASSUME NEW d \in Callers, Read(d) \/ ReadEof(d) \/ ReadClosed(d)
        PROVE FALSE
    BY <2>1, <2>2, <2>6 DEF Read, ReadEof, ReadClosed, Fail
  <2>7. ASSUME NEW t \in Closers, Close(t) PROVE FALSE
    BY <2>1, <2>2, <2>7 DEF Close
  <2>8. ASSUME NEW t \in Threads, Cleanup(t) PROVE FALSE
    BY <2>1, <2>2, <2>8 DEF Cleanup
  <2>9. CASE SrvRequest \/ WorkerResponds \/ SrvFlush \/ SrvWrite \/ SrvGone \/ UNCHANGED vars
    BY <2>1, <2>9 DEF SrvRequest, WorkerResponds, SrvFlush, SrvWrite, SrvGone
  <2> QED
    BY <1>1, <2>3, <2>4, <2>5, <2>6, <2>7, <2>8, <2>9
       DEF Next, Proceed, Select, SrvLoop, SrvEnds, SrvDies, Terminated
<1> QED
    BY <1>1, Inductive, PTL DEF Spec, ResponsesUnderstood

-----------------------------------------------------------------------------
(***************************************************************************)
(* The refinement of Calls.                                                *)
(***************************************************************************)

\* What the mapping makes of a call, where the invariant holds ...
LEMMA OutcomeNow ==
    ASSUME TableInv, NEW c \in Callers
    PROVE  /\ Waiting(c) => Outcome[c] = "waiting"
           /\ ~Waiting(c) /\ results[c] = <<>> => Outcome[c] = "none"
           /\ ~Waiting(c) /\ results[c] = <<"own">> => Outcome[c] = "own"
           /\ ~Waiting(c) /\ results[c] = <<"closed">> => Outcome[c] = "closed"
<1>1. Waiting(c) => results[c] = <<>>
    BY DEF TableInv
<1>2. Len(<<"own">>) = 1 /\ Len(<<"closed">>) = 1 /\ <<"own">>[1] = "own"
      /\ <<"closed">>[1] = "closed" /\ <<"own">> # <<>> /\ <<"closed">> # <<>>
    OBVIOUS
<1>3. CASE Waiting(c)
    BY <1>1, <1>3 DEF Outcome
<1>4. CASE ~Waiting(c) /\ results[c] = <<>>
    BY <1>2, <1>4 DEF Outcome
<1>5. CASE ~Waiting(c) /\ results[c] = <<"own">>
    BY <1>2, <1>5 DEF Outcome
<1>6. CASE ~Waiting(c) /\ results[c] = <<"closed">>
    BY <1>2, <1>6 DEF Outcome
<1> QED
    BY <1>3, <1>4, <1>5, <1>6

\* ... and after a step.
LEMMA OutcomeThen ==
    ASSUME TableInv', NEW c \in Callers
    PROVE  /\ Waiting(c)' => Outcome'[c] = "waiting"
           /\ ~Waiting(c)' /\ results'[c] = <<>> => Outcome'[c] = "none"
           /\ ~Waiting(c)' /\ results'[c] = <<"own">> => Outcome'[c] = "own"
           /\ ~Waiting(c)' /\ results'[c] = <<"closed">> => Outcome'[c] = "closed"
<1>1. Waiting(c)' => results'[c] = <<>>
    BY DEF TableInv
<1>2. Len(<<"own">>) = 1 /\ Len(<<"closed">>) = 1 /\ <<"own">>[1] = "own"
      /\ <<"closed">>[1] = "closed" /\ <<"own">> # <<>> /\ <<"closed">> # <<>>
    OBVIOUS
<1>3. CASE Waiting(c)'
    BY <1>1, <1>3 DEF Outcome
<1>4. CASE ~Waiting(c)' /\ results'[c] = <<>>
    BY <1>2, <1>4 DEF Outcome
<1>5. CASE ~Waiting(c)' /\ results'[c] = <<"own">>
    BY <1>2, <1>5 DEF Outcome
<1>6. CASE ~Waiting(c)' /\ results'[c] = <<"closed">>
    BY <1>2, <1>6 DEF Outcome
<1> QED
    BY <1>3, <1>4, <1>5, <1>6

\* Every step of the connection is a step of Calls or changes nothing there: send makes
\* a call, _handle_message replies to the call whose callback it finds, and _cleanup
\* closes.
LEMMA CallsStep ==
    ASSUME IInv, IInv', [Next]_vars
    PROVE  [Promise!Next]_(Promise!avars)
<1> USE DEF vars, connVars, pipeVars, srvVars, Goto
<1>0. /\ TypeOK /\ TableInv /\ TableInv' /\ Outcome = [c \in Callers |-> Outcome[c]]
      /\ Outcome' = [c \in Callers |-> Outcome'[c]] /\ closed \in BOOLEAN
    BY SMTT(30) DEF IInv, Outcome, TypeOK
<1>1. ASSUME UNCHANGED <<pending, results, closed>> PROVE UNCHANGED Promise!avars
    BY <1>1 DEF Promise!avars, Outcome, Waiting
<1>2. ASSUME NEW c \in Callers, SendClosed(c) PROVE Promise!Call(c)
  <2>1. ~Waiting(c) /\ results[c] = <<>> /\ UNCHANGED <<pending, closed>> /\ closed
    BY <1>0, <1>2 DEF SendClosed, TableInv
  <2>2. results'[c] = <<"closed">> /\ \A d \in Callers : d # c => results'[d] = results[d]
    BY <1>0, <1>2, <2>1 DEF SendClosed, TypeOK
  <2>3. \A d \in Callers : Waiting(d)' <=> Waiting(d)
    BY <2>1 DEF Waiting
  <2>4. Outcome[c] = "none" /\ Outcome'[c] = "closed"
    BY <1>0, <2>1, <2>2, <2>3, OutcomeNow, OutcomeThen
  <2>5. \A d \in Callers : d # c => Outcome'[d] = Outcome[d]
    BY <2>2, <2>3 DEF Outcome
  <2>6. Outcome' = [Outcome EXCEPT ![c] = "closed"]
    BY <1>0, <2>4, <2>5
  <2> QED
    BY <2>1, <2>4, <2>6 DEF Promise!Call
<1>3. ASSUME NEW c \in Callers, Send(c) PROVE Promise!Call(c)
  <2>1. /\ ~Waiting(c) /\ results[c] = <<>> /\ ~closed /\ UNCHANGED <<closed, results>>
        /\ next_id \notin DOMAIN pending
        /\ DOMAIN pending' = DOMAIN pending \cup {next_id} /\ pending'[next_id] = c
        /\ \A i \in DOMAIN pending : pending'[i] = pending[i]
    BY <1>0, <1>3 DEF Send, TableInv, TypeOK
  <2>2. Waiting(c)' /\ \A d \in Callers : d # c => (Waiting(d)' <=> Waiting(d))
    BY <2>1 DEF Waiting
  <2>3. Outcome[c] = "none" /\ Outcome'[c] = "waiting"
    BY <1>0, <2>1, <2>2, OutcomeNow, OutcomeThen
  <2>4. \A d \in Callers : d # c => Outcome'[d] = Outcome[d]
    BY <2>1, <2>2 DEF Outcome
  <2>5. Outcome' = [Outcome EXCEPT ![c] = "waiting"]
    BY <1>0, <2>3, <2>4
  <2> QED
    BY <2>1, <2>3, <2>5 DEF Promise!Call
<1>4. ASSUME NEW c \in Callers, HandleMessage(c) PROVE Promise!Reply(Callback)
  <2> DEFINE i == Head(read_buf).id
  <2>1. /\ Callback \in Callers /\ Waiting(Callback) /\ results[Callback] = <<>>
        /\ i \in DOMAIN pending /\ pending[i] = Callback
        /\ results' = [results EXCEPT ![Callback] = <<"own">>]
    BY <1>4, HandledIsOwn
  <2>2. /\ DOMAIN pending' = DOMAIN pending \ {i} /\ UNCHANGED closed
        /\ \A j \in DOMAIN pending' : pending'[j] = pending[j]
    BY <1>4 DEF HandleMessage, Restrict
  <2> HIDE DEF i
  <2>3. ~closed
    BY <1>0, <2>1 DEF TableInv
  <2>4. PICK d \in Callers : d = Callback
    BY <2>1
  <2>5. ~Waiting(d)' /\ \A e \in Callers : e # d => (Waiting(e)' <=> Waiting(e))
    BY <1>0, <2>1, <2>2, <2>4 DEF Waiting, TableInv
  <2>6. results'[d] = <<"own">> /\ \A e \in Callers : e # d => results'[e] = results[e]
    BY <1>0, <2>1, <2>4 DEF TypeOK
  <2>7. Outcome[d] = "waiting" /\ Outcome'[d] = "own"
    BY <1>0, <2>1, <2>4, <2>5, <2>6, OutcomeNow, OutcomeThen
  <2>8. \A e \in Callers : e # d => Outcome'[e] = Outcome[e]
    BY <2>5, <2>6 DEF Outcome
  <2>9. Outcome' = [Outcome EXCEPT ![d] = "own"]
    BY <1>0, <2>7, <2>8
  <2> QED
    BY <2>2, <2>3, <2>4, <2>7, <2>9 DEF Promise!Reply
<1>5. ASSUME NEW t \in Threads, Cleanup(t) PROVE Promise!Close
  <2>1. /\ DOMAIN pending' = {} /\ closed'
        /\ results' = [c \in Callers |-> IF Waiting(c) THEN Append(results[c], "closed")
                                                       ELSE results[c]]
    BY <1>5 DEF Cleanup, Waiting
  <2>2. \A c \in Callers : ~Waiting(c)'
    BY <2>1 DEF Waiting
  <2>3. \A c \in Callers : /\ Waiting(c) => results'[c] = <<"closed">>
                           /\ ~Waiting(c) => results'[c] = results[c]
    <3>1. Append(<<>>, "closed") = <<"closed">>
      OBVIOUS
    <3>2. \A c \in Callers : Waiting(c) => results[c] = <<>>
      BY <1>0 DEF TableInv
    <3> QED
      BY <2>1, <3>1, <3>2
  <2>4. ASSUME NEW c \in Callers
        PROVE  Outcome'[c] = IF Outcome[c] = "waiting" THEN "closed" ELSE Outcome[c]
    <3>1. CASE Waiting(c)
      BY <1>0, <2>2, <2>3, <3>1, OutcomeNow, OutcomeThen
    <3>2. CASE ~Waiting(c)
      <4>1. results[c] \in {<<>>, <<"own">>, <<"closed">>}
        BY <1>0 DEF TableInv
      <4> QED
        BY <1>0, <2>2, <2>3, <3>2, <4>1, OutcomeNow, OutcomeThen
    <3> QED
      BY <3>1, <3>2
  <2> QED
    BY <1>0, <2>1, <2>4 DEF Promise!Close
<1>6. CASE Quiet
    BY <1>1, <1>2, <1>6 DEF Quiet, Promise!Next
<1>7. ASSUME NEW c \in Callers, Write(c) \/ ReadLength(c) PROVE UNCHANGED Promise!avars
    BY <1>1, <1>7 DEF Write, ReadLength
<1>8. CASE SrvRequest \/ WorkerResponds \/ SrvGone
    BY <1>1, <1>8 DEF SrvRequest, WorkerResponds, SrvGone
<1>9. ASSUME NEW c \in Callers, HandleMessage(c) PROVE Promise!Next
  <2>1. Callback \in Callers /\ Promise!Reply(Callback)
    BY <1>4, <1>9, HandledIsOwn
  <2> QED
    BY <2>1 DEF Promise!Next
<1> QED
    BY <1>3, <1>5, <1>6, <1>7, <1>8, <1>9, QuietOrLoud DEF Loud, Promise!Next

\* The connection keeps the promise of Calls: a call is answered once, by the response to
\* its own request or by "Connection closed", and closing answers every call that waits.
THEOREM CallsCorrect == Spec => ImplementsCalls
<1>1. Init => Promise!Init
  <2> SUFFICES ASSUME Init PROVE Promise!Init
    OBVIOUS
  <2>1. TableInv /\ ~closed /\ DOMAIN pending = {} /\ \A c \in Callers : results[c] = <<>>
    BY InitOK DEF Init, IInv
  <2>2. \A c \in Callers : Outcome[c] = "none"
    BY <2>1, OutcomeNow DEF Waiting
  <2>3. Outcome = [c \in Callers |-> Outcome[c]]
    BY DEF Outcome
  <2> QED
    BY <2>1, <2>2, <2>3 DEF Promise!Init
<1>2. IInv /\ IInv' /\ [Next]_vars => [Promise!Next]_(Promise!avars)
    BY CallsStep
<1> QED
    BY <1>1, <1>2, Inductive, PTL DEF Spec, ImplementsCalls, Promise!Spec
=============================================================================
