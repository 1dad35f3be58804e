---------------------------- MODULE MCDispatcher ----------------------------
(* Conversations for TLC. *)
EXTENDS Dispatcher

\* The length prefix that Connection.send puts before a body of up to 99 characters.
Prefix(n) == (IF n >= 10 THEN <<Digits[(n \div 10) + 1]>> ELSE <<>>)
             \o <<Digits[(n % 10) + 1], " ">>

Payload(n) == [i \in 1..n |-> "p"]

\* id, target and payload.
Body(target, n) == <<IF n = 0 THEN "i" ELSE "j", " ", target, " ">> \o Payload(n)

Item(sep, body) == [sep |-> sep, head |-> Prefix(Len(body)), body |-> body]

Spaces(n) == [i \in 1..n |-> " "]

\* Messages with at most a few spaces between them.
Items == {Item(Spaces(g), b) :
             g \in {0, 2},
             b \in {Body("Gdb", 0), Body("Gdb", 9), Body("Gversion", 0), Body("Pdb", 9)}}
PlainConversations == [1..3 -> Items]

\* Messages followed by a newline, as a person or a line-oriented client sends them.
LineConversations == {<<Item(<<>>, Body("Gdb", n)), Item(<<"\n">>, Body("Udb", n)),
                        Item(<<"\n">>, Body("Gdb", n))>> : n \in 0..9}

\* A message after many spaces.
SpacedConversations == {<<Item(Spaces(g), Body("Gdb", 0))>> : g \in 0..9}

\* A message without a payload.
BareConversations == {<<Item(<<>>, <<"i", " ", "Gversion">>)>>}

\* Anything: lines of noise, lengths too long or missing, among messages.
Noise == {[sep |-> s, head |-> h, body |-> <<>>] :
             s \in {<<>>, <<"\n">>}, h \in {<<"x", "x">>, <<"9", "9">>, <<"\t", "\r">>}}
NoisyConversations == [1..3 -> Noise \cup {Item(<<"\n">>, Body("Gdb", 0)),
                                           Item(<<" ">>, Body("Udb", 3))}]

\* Both.
AllConversations == PlainConversations \cup NoisyConversations
=============================================================================
