---------------------------- MODULE MCConnection ----------------------------
(* Instances of Connection for TLC. *)
EXTENDS Connection

\* Every call is answered by the dispatcher itself.
AllFramed == [c \in Callers |-> "framed"]

\* The callers that wait ask for the version, the others look something up in a db.
SendersGet == [c \in Callers |-> IF c \in Senders THEN "get" ELSE "framed"]

\* The first caller puts a document and the others ask for the version.
OnePut == [c \in Callers |-> IF c = CHOOSE d \in Callers : TRUE THEN "put" ELSE "framed"]

\* Every caller looks something up in a db.
AllGet == [c \in Callers |-> "get"]

\* Every sendwait has a timeout, or none has, or it is 0.
AllTimed == [c \in Callers |-> "some"]
NoneTimed == [c \in Callers |-> "none"]
ZeroTimed == [c \in Callers |-> "zero"]
=============================================================================
