------------------------------ MODULE Delivery ------------------------------
(***************************************************************************)
(* What the worker pool promises to the dispatcher, with no threads, locks *)
(* or queues in sight: a request that was accepted is run at most once, by *)
(* one worker of the request's own group, a worker runs one request at a   *)
(* time, and a response is queued exactly for requests that were run.      *)
(*                                                                         *)
(* Nothing here forces an accepted request to be run: WorkerPool::stop()   *)
(* lets workers leave with messages still queued, and the process may die. *)
(***************************************************************************)
CONSTANTS Requests,    \* the messages built by the dispatcher
          Workers,     \* the worker threads
          Groups,      \* worker groups: "search", "indexer_<db>"
          GroupOf,     \* the group each request is sent to
          NoRequest,   \* not a request
          NoGroup      \* not a group

VARIABLES accepted,    \* requests handed to the pool
          running,     \* the request each worker is running, or NoRequest
          answered,    \* requests whose response was queued
          serves       \* the group each worker was made for

dvars == <<accepted, running, answered, serves>>

Init == /\ accepted = {}
        /\ running = [w \in Workers |-> NoRequest]
        /\ answered = {}
        /\ serves = [w \in Workers |-> NoGroup]

\* The pool takes over a request.
Accept(r) == /\ r \in Requests \ accepted
             /\ accepted' = accepted \cup {r}
             /\ UNCHANGED <<running, answered, serves>>

\* A worker is made for a group: only while it has nothing to run.
Enlist(w, g) == /\ running[w] = NoRequest
                /\ serves' = [serves EXCEPT ![w] = g]
                /\ UNCHANGED <<accepted, running, answered>>

\* A worker of the right group starts a request nobody has run before.
Take(w, r) == /\ running[w] = NoRequest
              /\ r \in accepted \ answered
              /\ \A v \in Workers : running[v] # r
              /\ serves[w] = GroupOf[r]
              /\ running' = [running EXCEPT ![w] = r]
              /\ UNCHANGED <<accepted, answered, serves>>

\* The worker queues the response of the request it runs.
Answer(w) == /\ running[w] # NoRequest
             /\ answered' = answered \cup {running[w]}
             /\ running' = [running EXCEPT ![w] = NoRequest]
             /\ UNCHANGED <<accepted, serves>>

Next == \/ \E r \in Requests : Accept(r)
        \/ \E w \in Workers : Answer(w)
        \/ \E w \in Workers, g \in Groups : Enlist(w, g)
        \/ \E w \in Workers, r \in Requests : Take(w, r)

Spec == Init /\ [][Next]_dvars
=============================================================================
