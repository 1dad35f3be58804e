------------------------------- MODULE Calls -------------------------------
(***************************************************************************)
(* What a connection promises its callers, with no lock, pipes, buffers or *)
(* server in sight: a call is answered once, by the response to its own    *)
(* request or by "Connection closed"; closing the connection answers every *)
(* call that waits, and every call made afterwards, at once.               *)
(***************************************************************************)

CONSTANT Callers

VARIABLES result,   \* of each call: not made, waiting, its own response, or closed
          open

avars == <<result, open>>

Init == result = [c \in Callers |-> "none"] /\ open = TRUE

Call(c) == /\ result[c] = "none"
           /\ result' = [result EXCEPT ![c] = IF open THEN "waiting" ELSE "closed"]
           /\ UNCHANGED open

Reply(c) == /\ open /\ result[c] = "waiting"
            /\ result' = [result EXCEPT ![c] = "own"]
            /\ UNCHANGED open

Close == /\ open' = FALSE
         /\ result' = [c \in Callers |-> IF result[c] = "waiting" THEN "closed" ELSE result[c]]

Next == (\E c \in Callers : Call(c) \/ Reply(c)) \/ Close

Spec == Init /\ [][Next]_avars
=============================================================================
