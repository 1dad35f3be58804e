---------------------------- MODULE LockerProofs ----------------------------
(***************************************************************************)
(* Proofs about Locker, for any number of threads.                         *)
(***************************************************************************)
EXTENDS Locker, TLAPS

\* A mutex that has an owner is owned by join() while it holds the lock; a lock that
\* is open has been released.
IInv == /\ TypeOK
        /\ mutex # NoThread => mutex \in Relockers /\ scope[mutex] = "held"
        /\ \A t \in Threads : scope[t] = "open" => t \in Relockers /\ ~locked[t]
        /\ \A t \in Threads : scope[t] = "held" => locked[t]

-----------------------------------------------------------------------------

\* pthread_mutex_unlock frees the mutex or, for a thread that does not own it,
\* may leave it with its owner.
LEMMA UnlockOutcome ==
    ASSUME TypeOK, NEW t \in Threads, MutexUnlock(t)
    PROVE  mutex' = NoThread \/ (mutex' = mutex /\ mutex # t)
    BY DEF MutexUnlock

\* IInv is kept by every step: only join() ever takes the mutex.
LEMMA IInvStep == IInv /\ [Next]_vars => IInv'
<1> SUFFICES ASSUME IInv, [Next]_vars PROVE IInv'
    OBVIOUS
<1>1. ASSUME NEW t \in Threads, Construct(t) PROVE IInv'
    BY <1>1 DEF Construct, IInv, TypeOK
<1>2. ASSUME NEW t \in Threads, Unlock(t) PROVE IInv'
  <2>1. locked[t] /\ MutexUnlock(t) /\ locked' = [locked EXCEPT ![t] = FALSE]
    BY <1>2 DEF Unlock, IInv
  <2>2. mutex' = NoThread
    BY <1>2, <2>1, UnlockOutcome, RelockersAssumption DEF Unlock, IInv
  <2> QED
    BY <1>2, <2>1, <2>2 DEF Unlock, IInv, TypeOK
<1>3. ASSUME NEW t \in Threads, Lock(t) PROVE IInv'
    BY <1>3 DEF Lock, IInv, TypeOK
<1>4. ASSUME NEW t \in Threads, Destruct(t) PROVE IInv'
  <2>1. locked[t] /\ MutexUnlock(t) /\ locked' = [locked EXCEPT ![t] = FALSE]
    BY <1>4 DEF Destruct, IInv
  <2>2. mutex' = NoThread \/ (mutex' = mutex /\ mutex # t)
    BY <2>1, UnlockOutcome DEF IInv
  <2> QED
    BY <1>4, <2>1, <2>2 DEF Destruct, IInv, TypeOK
<1>5. CASE UNCHANGED vars
    BY <1>5 DEF vars, IInv, TypeOK
<1> QED
    BY <1>1, <1>2, <1>3, <1>4, <1>5 DEF Next

\* Every variable keeps its type, and IInv holds for ever.
THEOREM Inductive == Spec => []IInv
<1>1. Init => IInv
    BY DEF Init, IInv, TypeOK
<1> QED
    BY <1>1, IInvStep, PTL DEF Spec

\* workerlist_mutex never makes a thread wait: join(), the only caller that reaches
\* pthread_mutex_lock, always finds it free.
THEOREM LockIsFree == Spec => []NeverBlocks
<1>1. IInv => NeverBlocks
    BY RelockersAssumption DEF IInv, NeverBlocks
<1> QED
    BY <1>1, Inductive, PTL
=============================================================================
