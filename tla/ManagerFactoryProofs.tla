------------------------ MODULE ManagerFactoryProofs ------------------------
(***************************************************************************)
(* TLAPS proofs about ManagerFactory, for any set of workers and keys: the *)
(* cache is only touched under the lock, and a worker never makes a second *)
(* manager for a key, however often it calls.                              *)
(***************************************************************************)
EXTENDS ManagerFactory, TLAPS

\* The lock's own state follows the workers' positions, it excludes, and only a
\* writer keeps readers parked.
LockInv ==
  /\ readers = {t \in Threads : pc[t] \in {"lookup", "runlock"}}
  /\ writers = {t \in Threads : pc[t] \in {"drain", "make", "unlock"}}
  /\ \A t, u \in writers : t = u
  /\ \A t \in Threads : pc[t] \in {"make", "unlock"} => readers = {}
  /\ \A t \in Threads : pc[t] = "parked" => writers # {}

\* A manager made for a key leaves the key cached, and a worker on its way to
\* make one has not made one for that key before.
MadeInv ==
  /\ \A t \in Threads, k \in Keys : made[t][k] <= 1
  /\ \A t \in Threads, k \in Keys : made[t][k] # 0 => rmCache[k] # None
  /\ \A t \in Threads : pc[t] = "runlock" /\ rm[t] = None => made[t][key[t]] = 0
  /\ \A t \in Threads : pc[t] \in {"lock", "drain", "make"} => made[t][key[t]] = 0

IInv == TypeOK /\ LockInv /\ MadeInv

(***************************************************************************)
(* The initial state satisfies the invariant.                              *)
(***************************************************************************)
LEMMA InitInv == Init => IInv
  BY FactoryAssumptions DEF Init, IInv, TypeOK, LockInv, MadeInv, PCs

(***************************************************************************)
(* Types are preserved by every step.                                      *)
(***************************************************************************)
LEMMA TypeStep == ASSUME TypeOK, [Next]_vars PROVE TypeOK'
<1> USE FactoryAssumptions DEF TypeOK, PCs, lock, Return
<1>1. ASSUME NEW t \in Threads, Call(t) PROVE TypeOK'
  BY <1>1 DEF Call
<1>2. ASSUME NEW t \in Threads, RLock(t) PROVE TypeOK'
  BY <1>2 DEF RLock
<1>3. ASSUME NEW t \in Threads, Lookup(t) PROVE TypeOK'
  BY <1>3 DEF Lookup
<1>4. ASSUME NEW t \in Threads, RUnlock(t) PROVE TypeOK'
  <2>1. CASE rm[t] # None
    <3>1. Return(t) /\ UNCHANGED <<rmCache, made, writers>> /\ readers' = readers \ {t}
      BY <1>4, <2>1 DEF RUnlock
    <3> QED
      BY <3>1
  <2>2. CASE rm[t] = None
    <3>1. /\ pc' = [pc EXCEPT ![t] = "lock"]
          /\ UNCHANGED <<key, rm, rmCache, made, writers>>
          /\ readers' = readers \ {t}
      BY <1>4, <2>2 DEF RUnlock
    <3>2. pc[t] = "runlock"
      BY <1>4 DEF RUnlock
    <3> QED
      BY <3>1, <3>2
  <2> QED
    BY <2>1, <2>2
<1>5. ASSUME NEW t \in Threads, Announce(t) PROVE TypeOK'
  BY <1>5 DEF Announce
<1>6. ASSUME NEW t \in Threads, Lock(t) PROVE TypeOK'
  BY <1>6 DEF Lock
<1>7. ASSUME NEW t \in Threads, Make(t) PROVE TypeOK'
  BY <1>7 DEF Make
<1>8. ASSUME NEW t \in Threads, Unlock(t) PROVE TypeOK'
  BY <1>8 DEF Unlock
<1>9. CASE UNCHANGED vars
  BY <1>9 DEF vars
<1> QED
  BY <1>1, <1>2, <1>3, <1>4, <1>5, <1>6, <1>7, <1>8, <1>9 DEF Next, InCall

(***************************************************************************)
(* The lock excludes: readers from a writer's critical section and writers *)
(* from one another.                                                       *)
(***************************************************************************)
LEMMA LockStep == ASSUME TypeOK, LockInv, [Next]_vars PROVE LockInv'
<1> USE DEF LockInv, TypeOK, PCs, lock, Return
<1>1. ASSUME NEW t \in Threads, Call(t) PROVE LockInv'
  BY <1>1 DEF Call
<1>2. ASSUME NEW t \in Threads, RLock(t) PROVE LockInv'
  BY <1>2 DEF RLock
<1>3. ASSUME NEW t \in Threads, Lookup(t) PROVE LockInv'
  BY <1>3 DEF Lookup
<1>4. ASSUME NEW t \in Threads, RUnlock(t) PROVE LockInv'
  BY <1>4 DEF RUnlock
<1>5. ASSUME NEW t \in Threads, Announce(t) PROVE LockInv'
  BY <1>5 DEF Announce
<1>6. ASSUME NEW t \in Threads, Lock(t) PROVE LockInv'
  BY <1>6 DEF Lock
<1>7. ASSUME NEW t \in Threads, Make(t) PROVE LockInv'
  BY <1>7 DEF Make
<1>8. ASSUME NEW t \in Threads, Unlock(t) PROVE LockInv'
  BY <1>8 DEF Unlock
<1>9. CASE UNCHANGED vars
  BY <1>9 DEF vars
<1> QED
  BY <1>1, <1>2, <1>3, <1>4, <1>5, <1>6, <1>7, <1>8, <1>9 DEF Next, InCall

(***************************************************************************)
(* A worker makes a manager only for a key that it found uncached, and     *)
(* what it ever made is still cached.                                      *)
(***************************************************************************)
LEMMA MadeStep == ASSUME TypeOK, MadeInv, [Next]_vars PROVE MadeInv'
<1> USE FactoryAssumptions DEF MadeInv, TypeOK, PCs, lock, Return
<1>1. ASSUME NEW t \in Threads, Call(t) PROVE MadeInv'
  BY <1>1 DEF Call
<1>2. ASSUME NEW t \in Threads, RLock(t) PROVE MadeInv'
  BY <1>2 DEF RLock
<1>3. ASSUME NEW t \in Threads, Lookup(t) PROVE MadeInv'
  BY <1>3 DEF Lookup
<1>4. ASSUME NEW t \in Threads, RUnlock(t) PROVE MadeInv'
  BY <1>4 DEF RUnlock
<1>5. ASSUME NEW t \in Threads, Announce(t) PROVE MadeInv'
  BY <1>5 DEF Announce
<1>6. ASSUME NEW t \in Threads, Lock(t) PROVE MadeInv'
  BY <1>6 DEF Lock
<1>7. ASSUME NEW t \in Threads, Make(t) PROVE MadeInv'
  BY <1>7 DEF Make
<1>8. ASSUME NEW t \in Threads, Unlock(t) PROVE MadeInv'
  BY <1>8 DEF Unlock
<1>9. CASE UNCHANGED vars
  BY <1>9 DEF vars
<1> QED
  BY <1>1, <1>2, <1>3, <1>4, <1>5, <1>6, <1>7, <1>8, <1>9 DEF Next, InCall

(***************************************************************************)
(* The inductive invariant holds in every reachable state.                 *)
(***************************************************************************)
THEOREM Invariance == Spec => []IInv
<1>1. Init => IInv
  BY InitInv
<1>2. IInv /\ [Next]_vars => IInv'
  BY TypeStep, LockStep, MadeStep DEF IInv
<1> QED
  BY <1>1, <1>2, PTL DEF Spec

(***************************************************************************)
(* Type correctness.                                                       *)
(***************************************************************************)
THEOREM TypeCorrect == Spec => []TypeOK
<1>1. IInv => TypeOK
  BY DEF IInv
<1> QED
  BY <1>1, Invariance, PTL

(***************************************************************************)
(* The cache is never written while another worker reads or writes it.     *)
(***************************************************************************)
THEOREM MapSafe == Spec => []MapGuarded
<1>1. IInv => MapGuarded
  BY DEF IInv, LockInv, MapGuarded
<1> QED
  BY <1>1, Invariance, PTL

(***************************************************************************)
(* No worker makes two managers for one key, for any number of calls.      *)
(***************************************************************************)
THEOREM MadeOnce == Spec => []OnePerWorker
<1>1. IInv => OnePerWorker
  BY DEF IInv, MadeInv, OnePerWorker
<1> QED
  BY <1>1, Invariance, PTL

(***************************************************************************)
(* Some call can always go on: who waits, waits for a writer or a reader,  *)
(* a writer waits for the readers only, and a reader for nobody.           *)
(***************************************************************************)
THEOREM NeverStandsStill == Spec => []NoStandstill
<1>1. IInv => NoStandstill
  <2> SUFFICES ASSUME IInv, NEW t \in Threads, pc[t] # "out", \A u \in Threads : ~Ready(u)
               PROVE  FALSE
    BY DEF NoStandstill
  <2>1. \A u \in Threads : pc[u] \notin {"rlock", "lookup", "runlock", "make", "unlock"}
    BY DEF Ready
  <2>2. readers = {}
    BY <2>1 DEF IInv, LockInv
  <2>3. \A u \in Threads : pc[u] # "drain"
    BY <2>2 DEF Ready
  <2>4. writers = {}
    BY <2>1, <2>3 DEF IInv, LockInv
  <2>5. \A u \in Threads : pc[u] # "lock" /\ pc[u] # "parked"
    BY <2>4 DEF Ready, IInv, LockInv
  <2>6. pc[t] \in PCs
    BY DEF IInv, TypeOK
  <2> QED
    BY <2>1, <2>3, <2>5, <2>6 DEF PCs
<1> QED
  BY <1>1, Invariance, PTL
=============================================================================
