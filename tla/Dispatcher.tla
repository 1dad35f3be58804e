----------------------------- MODULE Dispatcher -----------------------------
(***************************************************************************)
(* XappyDispatcher (src/xappy/dispatch.cc): how the bytes that arrive on   *)
(* the connection, cut anywhere, are split into messages and routed, and   *)
(* how the answers it gives itself are framed for the client, whose parser *)
(* (clients/python/xaprun/connection.py) reads them back.                  *)
(*                                                                         *)
(* A character is a string; a target of the protocol ("Gdb/x", "Udb/x",    *)
(* "Gversion" ...) is one character here, and so is an id or a payload, so *)
(* that lengths stay small.  A conversation is what one client sends: a    *)
(* sequence of items with their separator, length prefix and body.         *)
(***************************************************************************)
EXTENDS Integers, Sequences, FiniteSets

CONSTANTS Conversations,   \* what a client may send
          MaxMsgLenLen,    \* MAX_MSG_LEN_LEN
          VersionSize,     \* characters of VERSION
          TextSize,        \* characters of the text of an error ...
          JsonSize         \* ... and of the JSON object that holds it

ASSUME DispatcherAssumption ==
    /\ Conversations \subseteq
          Seq([sep : Seq(STRING), head : Seq(STRING), body : Seq(STRING)])
    /\ MaxMsgLenLen \in Nat \ {0}
    /\ VersionSize \in Nat /\ TextSize \in Nat /\ JsonSize \in Nat

VARIABLES conv,       \* the conversation
          todo,       \* its characters that have not arrived yet
          buf,        \* Connection::read_buf
          pc,         \* "idle" in select, "scan" inside dispatch_request
          pos, found, \* locals of dispatch_request
          base,       \* characters erased from buf so far
          log,        \* what was done with each message, in order
          out         \* the characters of the answers, as passed to send_response

vars == <<conv, todo, buf, pc, pos, found, base, log, out>>

Digits == <<"0", "1", "2", "3", "4", "5", "6", "7", "8", "9">>
IsDigit(c) == \E d \in DOMAIN Digits : Digits[d] = c
DigitValue(c) == (CHOOSE d \in DOMAIN Digits : Digits[d] = c) - 1
LineEnds == {"\n", "\r"}
IsSpace(c) == c \in {" ", "\t", "\f", "VT"} \cup LineEnds

\* The characters of the first k items of conversation c.
Chars(c, k) ==
    LET f[n \in 0..k] == IF n = 0 THEN <<>>
                         ELSE f[n - 1] \o c[n].sep \o c[n].head \o c[n].body
    IN f[k]

Init == /\ conv \in Conversations
        /\ todo = Chars(conv, Len(conv))
        /\ buf = <<>> /\ pc = "idle" /\ pos = 0 /\ found = FALSE
        /\ base = 0 /\ log = <<>> /\ out = <<>>

-----------------------------------------------------------------------------
(***************************************************************************)
(* The parser.  Positions count from 0, as in the code.                    *)
(***************************************************************************)
At(p) == buf[p + 1]
Size == Len(buf)

\* The first position from p on that is not whitespace: startpos.
SkipSpace(p) == CHOOSE q \in p..Size : /\ \A i \in p..(q - 1) : IsSpace(At(i))
                                       /\ q = Size \/ ~IsSpace(At(q))

\* Where the digits of a length that starts at p end.  The limit is a position in
\* the buffer, not a number of digits.
DigitsEnd(p) ==
    LET limit == IF Size < MaxMsgLenLen THEN Size ELSE MaxMsgLenLen
    IN CHOOSE q \in p..Size : /\ \A i \in p..(q - 1) : i < limit /\ IsDigit(At(i))
                              /\ q >= limit \/ ~IsDigit(At(q))

\* Slip: the digits read so far are not multiplied by ten.
NumberSum(p, q) ==
    LET f[i \in p..q] == IF i = p THEN 0 ELSE f[i - 1] + DigitValue(At(i - 1))
    IN f[q]

\* msglen: the number written from p up to q.
Number(p, q) ==
    LET f[i \in p..q] == IF i = p THEN 0 ELSE f[i - 1] * 10 + DigitValue(At(i - 1))
    IN f[q]

\* buf.find and find_first_of: the first position from p on with a character in C,
\* or -1.
Find(C, p) == IF \E q \in p..(Size - 1) : At(q) \in C
              THEN CHOOSE q \in p..(Size - 1) : /\ At(q) \in C
                                                /\ \A i \in p..(q - 1) : At(i) \notin C
              ELSE -1

-----------------------------------------------------------------------------
(***************************************************************************)
(* build_message and route_message.                                        *)
(***************************************************************************)

\* npos, here -1, is larger than any position.
Beyond(i, end) == i = -1 \/ i >= end

\* Where route_message sends a target: a worker group, or a response of its own.
Destination(target) ==
    CASE target = <<"Gversion">> -> "version"
      [] target = <<"Gdb">> -> "search"
      [] target = <<"Udb">> -> "indexer"
      [] OTHER -> "error"

\* build_message on the body of n characters at p, and where the message is routed.
Routed(p, n) ==
    LET i == Find({" "}, p)
        j == Find({" "}, i + 1)
    IN IF Beyond(i, p + n) \/ Beyond(j, p + n)
       THEN [what |-> "fatal", id |-> <<>>, payload |-> <<>>, at |-> base + p]
       ELSE [what |-> Destination(SubSeq(buf, i + 2, j)), id |-> SubSeq(buf, p + 1, i),
             payload |-> SubSeq(buf, j + 2, p + n), at |-> base + p]

-----------------------------------------------------------------------------
(***************************************************************************)
(* The answers.                                                            *)
(***************************************************************************)

\* str(n): the last digit is found first and put last.
Str(n) ==
    LET f[m \in 0..n] == IF m < 10 THEN <<Digits[m + 1]>>
                         ELSE f[m \div 10] \o <<Digits[(m % 10) + 1]>>
    IN f[n]

Text(n) == [i \in 1..n |-> "t"]

\* Slip: neither space is counted.
FrameWithoutSpaces(id, status, payload) ==
    LET b == <<" ">> \o id \o <<" ", status>> \o payload IN Str(Len(b) - 2) \o b

\* send_msg_response: the length does not count the space that ends it.
Frame(id, status, payload) ==
    LET b == <<" ">> \o id \o <<" ", status>> \o payload IN Str(Len(b) - 1) \o b

\* send_fatal_error: no id, and the length of the text in front of the JSON.
FatalFrame == Str(TextSize + 1) \o <<" ", "F">> \o Text(JsonSize)

\* What is sent at once for a message that was routed as r; a worker answers later.
Answer(r) ==
    CASE r.what = "version" -> Frame(r.id, "S", Text(VersionSize))
      [] r.what = "error"   -> Frame(r.id, "E", Text(JsonSize))
      [] r.what = "fatal"   -> FatalFrame
      [] OTHER              -> <<>>

-----------------------------------------------------------------------------
(***************************************************************************)
(* dispatch_request, one action per way round its loop.                    *)
(***************************************************************************)

\* mainloop: n more characters arrive; while (dispatch_request()) {} begins.
Receive(n) ==
    /\ pc = "idle"
    /\ buf' = buf \o SubSeq(todo, 1, n)
    /\ todo' = SubSeq(todo, n + 1, Len(todo))
    /\ pc' = "scan" /\ pos' = 0 /\ found' = FALSE
    /\ UNCHANGED <<conv, base, log, out>>

\* Slip: what one call has found counts for the next one too.
FinishStill(startpos) ==
    /\ buf' = SubSeq(buf, startpos + 1, Size)
    /\ base' = base + startpos
    /\ pc' = IF found THEN "scan" ELSE "idle"
    /\ pos' = 0
    /\ UNCHANGED <<conv, todo, found, log, out>>

\* break: erase what was dealt with; if anything was found, mainloop calls again.
Finish(startpos) ==
    /\ buf' = SubSeq(buf, startpos + 1, Size)
    /\ base' = base + startpos
    /\ pc' = IF found THEN "scan" ELSE "idle"
    /\ pos' = 0 /\ found' = FALSE
    /\ UNCHANGED <<conv, todo, log, out>>

\* Once round the loop: the length is the digits from s up to d.  The buffer ends in the
\* separator or in the length ...
NoLength(s, d) ==
    /\ pc = "scan" /\ d >= Size
    /\ Finish(s)

\* The entry of what is skipped from s on.
Skipped(s) == [what |-> "fatal", id |-> <<>>, payload |-> <<>>, at |-> base + s]

\* Slip: npos is not told from a position.
ResyncAnywhere(s, d) ==
    /\ pc = "scan" /\ d < Size /\ At(d) # " "
    /\ pos' = Find(LineEnds, d)
    /\ log' = Append(log, Skipped(s)) /\ out' = out \o FatalFrame
    /\ UNCHANGED <<conv, todo, buf, pc, found, base>>

\* ... or no space follows: skip to the end of the line, with an error, or wait for it ...
Resync(s, d) ==
    /\ pc = "scan" /\ d < Size /\ At(d) # " "
    /\ \/ /\ Find(LineEnds, d) # -1
          /\ pos' = Find(LineEnds, d)
          /\ log' = Append(log, Skipped(s)) /\ out' = out \o FatalFrame
          /\ UNCHANGED <<conv, todo, buf, pc, found, base>>
       \/ Find(LineEnds, d) = -1 /\ Finish(s)

\* Slip: a message that ends with the buffer counts as incomplete.
WholeAndMore(d, n) == d + 1 + n < Size

\* The space at d and the n characters of the body after it have all arrived.
Whole(d, n) == d + 1 + n <= Size

\* ... or the body has not arrived yet ...
Incomplete(s, d) ==
    /\ pc = "scan" /\ d < Size /\ At(d) = " "
    /\ ~Whole(d, Number(s, d))
    /\ Finish(s)

\* ... or there is a whole message: route it.
Route(s, d) ==
    LET n == Number(s, d)
    IN /\ pc = "scan" /\ d < Size /\ At(d) = " "
       /\ Whole(d, n)
       /\ log' = Append(log, Routed(d + 1, n))
       /\ out' = out \o Answer(Routed(d + 1, n))
       /\ found' = TRUE
       /\ pos' = d + 1 + n
       /\ UNCHANGED <<conv, todo, buf, pc, base>>

Scan == \E s \in {SkipSpace(pos)} : \E d \in {DigitsEnd(s)} :
            NoLength(s, d) \/ Resync(s, d) \/ Incomplete(s, d) \/ Route(s, d)

\* Everything has arrived and been looked at.
Done == pc = "idle" /\ todo = <<>> /\ UNCHANGED vars

Next == (\E n \in 1..Len(todo) : Receive(n)) \/ Scan \/ Done

Spec == Init /\ [][Next]_vars

FairSpec == Spec /\ WF_vars(Scan)

-----------------------------------------------------------------------------
(***************************************************************************)
(* Properties.                                                             *)
(***************************************************************************)

\* Every variable of the parser keeps its type; positions stay inside the buffer, and
\* every character is in todo, in buf or erased.
TypeOK ==
    /\ conv \in Conversations
    /\ todo \in Seq(STRING) /\ buf \in Seq(STRING)
    /\ pc \in {"idle", "scan"} /\ found \in BOOLEAN
    /\ pos \in 0..Size /\ base \in Nat
    /\ base + Size + Len(todo) = Len(Chars(conv, Len(conv)))
    /\ log \in Seq([what : {"version", "search", "indexer", "error", "fatal"},
                    id : Seq(STRING), payload : Seq(STRING), at : Nat])

\* Where the body of item k is, and where it ends.
BodyEnd(k) == Len(Chars(conv, k))
BodyStart(k) == BodyEnd(k) - Len(conv[k].body)

\* Messages are routed as they were sent: none twice, none skipped, in order, at the
\* place where the client put them, to the target it named and with its id and payload,
\* wherever the stream was cut.
RoutedAsSent ==
    /\ Len(log) <= Len(conv)
    /\ \A k \in DOMAIN log :
          LET body == conv[k].body
          IN log[k] = [what |-> Destination(<<body[3]>>), id |-> <<body[1]>>,
                       payload |-> SubSeq(body, 5, Len(body)), at |-> BodyStart(k)]

\* No message waits in read_buf once it has arrived completely: when main goes back to
\* select, every complete message was routed.
RoutedPromptly ==
    pc = "idle" => \A k \in DOMAIN conv : BodyEnd(k) <= base + Size => k \in DOMAIN log

\* The number that the first n characters of s write.
Decimal(s, n) ==
    LET f[i \in 0..n] == IF i = 0 THEN 0 ELSE f[i - 1] * 10 + DigitValue(s[i])
    IN f[n]

\* A message as the client's send() writes it: the length of the body, a space, and the
\* body, which is the id, a space, the target, a space and the payload, on one line.
IsMessage(m) ==
    /\ Len(m.head) >= 2 /\ m.head[Len(m.head)] = " "
    /\ \A i \in 1..(Len(m.head) - 1) : IsDigit(m.head[i])
    /\ Decimal(m.head, Len(m.head) - 1) = Len(m.body)
    /\ Len(m.body) >= 4
    /\ m.body[1] # " " /\ m.body[2] = " " /\ m.body[3] # " " /\ m.body[4] = " "
    /\ \A i \in DOMAIN m.body : m.body[i] \notin LineEnds

\* A conversation the parser is up to: messages and nothing else, each with its length
\* within the first MaxMsgLenLen characters of what follows the message before it.
InStep ==
    \A k \in DOMAIN conv :
        /\ \A i \in DOMAIN conv[k].sep : conv[k].sep[i] = " "
        /\ Len(conv[k].sep) + Len(conv[k].head) <= MaxMsgLenLen
        /\ IsMessage(conv[k])

\* Such conversations are routed as they were sent, wherever they are cut by read().
InStepRoutedAsSent == InStep => RoutedAsSent

\* In such conversations no message waits in read_buf once it is complete.
InStepRoutedPromptly == InStep => RoutedPromptly

\* dispatch_request, and the loop of mainloop around it, end on every input.
ScanEnds == pc = "scan" ~> pc = "idle"

\* What dispatch_request and the loop of mainloop around it have left to do at most.
Left == 2 * (Size - pos) + (IF found THEN 1 ELSE 0)

\* Why they end: every time round the loop leaves less to do, or ends it.  A line that is
\* skipped is passed for good, and a message without a body is too.
ScanNearsEnd == [][pc = "scan" => pc' = "idle" \/ Left' \in 0..(Left - 1)]_vars

\* The client's check() and _handle_message on s, which begins with a response: the
\* characters up to the first space are the length, and those up to the next one the id.
Upto(s) == CHOOSE i \in DOMAIN s : s[i] = " " /\ \A j \in 1..(i - 1) : s[j] # " "
ReadLength(s) == Decimal(s, Upto(s) - 1)
ReadMessage(s) == SubSeq(s, Upto(s) + 1, Upto(s) + ReadLength(s))
ReadId(s) == LET m == ReadMessage(s) IN SubSeq(m, 1, Upto(m) - 1)
ReadRest(s) == SubSeq(s, Upto(s) + ReadLength(s) + 1, Len(s))

\* The ids a client reads from n responses, and what it has left over then.
ReadBack(n) ==
    LET f[k \in 0..n] ==
            IF k = 0 THEN [ids |-> <<>>, rest |-> out]
            ELSE LET g == f[k - 1]
                 IN [ids |-> Append(g.ids, ReadId(g.rest)), rest |-> ReadRest(g.rest)]
    IN f[n]

\* The ids of the messages among the first n of log l that are answered at once.
AnsweredIds(l, n) ==
    LET f[k \in 0..n] ==
            IF k = 0 THEN <<>>
            ELSE IF l[k].what \in {"version", "error"} THEN Append(f[k - 1], l[k].id)
            ELSE f[k - 1]
    IN f[n]

\* Until a protocol error breaks the framing, the client reads back exactly the answers
\* that were sent, each under the id of the message it answers, and nothing is left over.
AnswersReadBack ==
    (\A k \in DOMAIN log : log[k].what # "fatal") =>
        LET ids == AnsweredIds(log, Len(log))
        IN ReadBack(Len(ids)) = [ids |-> ids, rest |-> <<>>]

\* A message body may end after the target: the payload is optional (protocol.rst:14).
\* No message of a client that keeps to the protocol is answered with a protocol error.
NoProtocolError == \A k \in DOMAIN log : log[k].what # "fatal"
=============================================================================
