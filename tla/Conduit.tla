------------------------------ MODULE Conduit ------------------------------
(***************************************************************************)
(* What the server promises about responses, with no main loop, sockets or *)
(* threads in sight: the client receives each response at most once, in    *)
(* the order in which the responses were queued and with none left out,    *)
(* until the connection is closed; then the rest may be cut off.           *)
(***************************************************************************)
EXTENDS Naturals, Sequences

CONSTANT Responses

VARIABLES inflight,   \* queued, and not received yet, oldest first
          received,   \* what the client has received
          open        \* the connection exists

cvars == <<inflight, received, open>>

Init == inflight = <<>> /\ received = <<>> /\ open = TRUE

\* A response is queued, once.
Put(r) == /\ open
          /\ r \notin {inflight[i] : i \in DOMAIN inflight}
          /\ r \notin {received[i] : i \in DOMAIN received}
          /\ inflight' = Append(inflight, r)
          /\ UNCHANGED <<received, open>>

\* The client receives the oldest response.
Get == /\ inflight # <<>>
       /\ received' = Append(received, Head(inflight))
       /\ inflight' = Tail(inflight)
       /\ UNCHANGED open

\* The connection is closed: what is not yet on its way is dropped.
Close == /\ open
         /\ open' = FALSE
         /\ \E n \in 0..Len(inflight) : inflight' = SubSeq(inflight, 1, n)
         /\ UNCHANGED received

Next == (\E r \in Responses : Put(r)) \/ Get \/ Close

Spec == Init /\ [][Next]_cvars
=============================================================================
