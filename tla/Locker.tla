------------------------------- MODULE Locker -------------------------------
(***************************************************************************)
(* Locker and ContextLocker (src/server/locker.h), as WorkerPool uses      *)
(* them: every method guards workerlist_mutex with a ContextLocker on its  *)
(* stack, and join() also opens the lock for a while and takes it again.   *)
(*                                                                         *)
(* The constructor sets locked(true) and then calls lock(), which returns  *)
(* at once because locked is true: the mutex is not touched.  Destructor   *)
(* and unlock() then unlock a mutex the thread does not own.  POSIX leaves *)
(* that undefined; a build either releases the mutex, whoever owns it      *)
(* (glibc), or returns an error and leaves it alone.                       *)
(***************************************************************************)
CONSTANTS Threads,    \* threads that call methods of the pool
          Relockers,  \* those that call join(), which unlocks and locks again
          NoThread

\* Only the main thread calls WorkerPool::join().
ASSUME RelockersAssumption ==
    /\ Relockers \subseteq Threads
    /\ \A s, t \in Relockers : s = t
    /\ NoThread \notin Threads

VARIABLES mutex,    \* owner of Locker::mutex, or NoThread
          locked,   \* ContextLocker::locked of the thread's ContextLocker
          scope     \* "outside": no ContextLocker; "held"; "open": after unlock()

vars == <<mutex, locked, scope>>

Init == /\ mutex = NoThread
        /\ locked = [t \in Threads |-> FALSE]
        /\ scope = [t \in Threads |-> "outside"]

\* ContextLocker(locker_) : locked(true) { lock(); }
Construct(t) == /\ scope[t] = "outside"
                /\ scope' = [scope EXCEPT ![t] = "held"]
                /\ locked' = [locked EXCEPT ![t] = TRUE]
                /\ UNCHANGED mutex

\* Slip: the mutex is not released.
MutexStays(t) == UNCHANGED mutex

\* pthread_mutex_unlock.
MutexUnlock(t) == \/ mutex' = NoThread
                  \/ mutex # t /\ UNCHANGED mutex

\* ContextLocker::unlock()
Unlock(t) == /\ scope[t] = "held" /\ t \in Relockers
             /\ scope' = [scope EXCEPT ![t] = "open"]
             /\ IF locked[t]
                THEN MutexUnlock(t) /\ locked' = [locked EXCEPT ![t] = FALSE]
                ELSE UNCHANGED <<mutex, locked>>

\* ContextLocker::lock(), with pthread_mutex_lock: waits until the mutex is free.
Lock(t) == /\ scope[t] = "open"
           /\ scope' = [scope EXCEPT ![t] = "held"]
           /\ IF locked[t]
              THEN UNCHANGED <<mutex, locked>>
              ELSE /\ mutex = NoThread
                   /\ mutex' = t
                   /\ locked' = [locked EXCEPT ![t] = TRUE]

\* ~ContextLocker() { unlock(); }
Destruct(t) == /\ scope[t] = "held"
               /\ scope' = [scope EXCEPT ![t] = "outside"]
               /\ IF locked[t]
                  THEN MutexUnlock(t) /\ locked' = [locked EXCEPT ![t] = FALSE]
                  ELSE UNCHANGED <<mutex, locked>>

Next == \E t \in Threads : Construct(t) \/ Unlock(t) \/ Lock(t) \/ Destruct(t)

Spec == Init /\ [][Next]_vars

-----------------------------------------------------------------------------
\* Every variable keeps its type.
TypeOK == /\ mutex \in Threads \cup {NoThread}
          /\ locked \in [Threads -> BOOLEAN]
          /\ scope \in [Threads -> {"outside", "held", "open"}]

\* Whoever waits in pthread_mutex_lock finds the mutex free: workerlist_mutex makes
\* no thread wait, ever, so that module WorkerPool can leave it out.
NeverBlocks == \A t \in Threads : scope[t] = "open" => mutex = NoThread

\* "Hold a lock while this object is in context" (locker.h:49): two threads are
\* never in the scope of a ContextLocker at once.
MutualExclusion ==
    \A s, t \in Threads : scope[s] = "held" /\ scope[t] = "held" => s = t
=============================================================================
