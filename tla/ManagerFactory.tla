--------------------------- MODULE ManagerFactory ---------------------------
(***************************************************************************)
(* resourceManagerFactory.ManagerFor: the cache of resource managers, one  *)
(* per account, region and role, read under the read lock and written      *)
(* under the write lock of the factory's sync.RWMutex.  Every concurrent   *)
(* reconcile calls it.                                                     *)
(*                                                                         *)
(* The mutex is Go's: a writer first excludes the other writers, then      *)
(* announces itself, which parks the readers that come later, and waits    *)
(* for the readers that hold the lock to leave; when it unlocks, the       *)
(* parked readers hold the lock.                                           *)
(***************************************************************************)
EXTENDS Naturals

CONSTANTS
  Threads,   \* the worker goroutines
  Keys,      \* account/region/role combinations
  None       \* no key, no manager

ASSUME FactoryAssumptions == None \notin Keys /\ None \notin Threads

VARIABLES
  pc,        \* where each worker is in ManagerFor
  key,       \* rmId, the key of its call
  rmCache,   \* the manager cached for a key, named by the worker that made it
  rm,        \* the manager that the call returns
  made,      \* how many managers each worker made for each key
  readers,   \* the workers that hold the read lock
  writers    \* the worker in Lock past the writers' own mutex, or holding the lock

vars == <<pc, key, rmCache, rm, made, readers, writers>>

lock == <<readers, writers>>

Init ==
  /\ pc = [t \in Threads |-> "out"]
  /\ key = [t \in Threads |-> None]
  /\ rmCache = [k \in Keys |-> None]
  /\ rm = [t \in Threads |-> None]
  /\ made = [t \in Threads |-> [k \in Keys |-> 0]]
  /\ readers = {}
  /\ writers = {}

\* A reconcile asks for the manager of its resource's account.
Call(t) ==
  /\ pc[t] = "out"
  /\ \E k \in Keys : key' = [key EXCEPT ![t] = k]
  /\ pc' = [pc EXCEPT ![t] = "rlock"]
  /\ UNCHANGED <<rmCache, rm, made, lock>>

Return(t) ==
  /\ pc' = [pc EXCEPT ![t] = "out"]
  /\ key' = [key EXCEPT ![t] = None]
  /\ rm' = [rm EXCEPT ![t] = None]

\* Mutant: the cache is read without the lock.
MutRLock(t) ==
  /\ pc[t] = "rlock"
  /\ readers' = readers \cup {t}
  /\ pc' = [pc EXCEPT ![t] = "lookup"]
  /\ UNCHANGED <<key, rmCache, rm, made, writers>>

\* f.RLock()
RLock(t) ==
  /\ pc[t] = "rlock"
  /\ \/ /\ writers = {}
        /\ readers' = readers \cup {t}
        /\ pc' = [pc EXCEPT ![t] = "lookup"]
     \/ /\ writers # {}
        /\ pc' = [pc EXCEPT ![t] = "parked"]
        /\ UNCHANGED readers
  /\ UNCHANGED <<key, rmCache, rm, made, writers>>

\* Mutant: a missing entry is answered with something that is no manager.
MutLookup(t) ==
  /\ pc[t] = "lookup"
  /\ rm' = [rm EXCEPT ![t] = IF rmCache[key[t]] = None THEN key[t] ELSE rmCache[key[t]]]
  /\ pc' = [pc EXCEPT ![t] = "runlock"]
  /\ UNCHANGED <<key, rmCache, made, lock>>

\* rm, found := f.rmCache[rmId]
Lookup(t) ==
  /\ pc[t] = "lookup"
  /\ rm' = [rm EXCEPT ![t] = rmCache[key[t]]]
  /\ pc' = [pc EXCEPT ![t] = "runlock"]
  /\ UNCHANGED <<key, rmCache, made, lock>>

\* f.RUnlock(); a manager that was found is returned.
RUnlock(t) ==
  /\ pc[t] = "runlock"
  /\ readers' = readers \ {t}
  /\ \/ rm[t] # None /\ Return(t)
     \/ rm[t] = None /\ pc' = [pc EXCEPT ![t] = "lock"] /\ UNCHANGED <<key, rm>>
  /\ UNCHANGED <<rmCache, made, writers>>

\* f.Lock(): the writers' own mutex and the announcement to the readers.
Announce(t) ==
  /\ pc[t] = "lock"
  /\ writers = {}
  /\ writers' = {t}
  /\ pc' = [pc EXCEPT ![t] = "drain"]
  /\ UNCHANGED <<key, rmCache, rm, made, readers>>

\* The rest of Lock: the readers of before have left.
Lock(t) ==
  /\ pc[t] = "drain"
  /\ readers = {}
  /\ pc' = [pc EXCEPT ![t] = "make"]
  /\ UNCHANGED <<key, rmCache, rm, made, lock>>

\* Mutant: the new manager is returned without being cached.
MutMake(t) ==
  /\ pc[t] = "make"
  /\ rm' = [rm EXCEPT ![t] = t]
  /\ made' = [made EXCEPT ![t][key[t]] = @ + 1]
  /\ pc' = [pc EXCEPT ![t] = "unlock"]
  /\ UNCHANGED <<key, rmCache, lock>>

\* newResourceManager, which never fails, and the write of the cache: the cache
\* is not looked at again.
Make(t) ==
  /\ pc[t] = "make"
  /\ rmCache' = [rmCache EXCEPT ![key[t]] = t]
  /\ rm' = [rm EXCEPT ![t] = t]
  /\ made' = [made EXCEPT ![t][key[t]] = @ + 1]
  /\ pc' = [pc EXCEPT ![t] = "unlock"]
  /\ UNCHANGED <<key, lock>>

\* Mutant: the unlock is forgotten.
MutUnlock(t) ==
  /\ pc[t] = "unlock"
  /\ Return(t)
  /\ UNCHANGED <<rmCache, made, lock>>

\* The deferred f.Unlock(): the readers that parked hold the lock.
Unlock(t) ==
  LET parked == {u \in Threads : pc[u] = "parked"} IN
  /\ pc[t] = "unlock"
  /\ writers' = {}
  /\ readers' = readers \cup parked
  /\ pc' = [u \in Threads |-> IF u = t THEN "out"
                              ELSE IF u \in parked THEN "lookup" ELSE pc[u]]
  /\ key' = [key EXCEPT ![t] = None]
  /\ rm' = [rm EXCEPT ![t] = None]
  /\ UNCHANGED <<rmCache, made>>

InCall(t) ==
  \/ RLock(t) \/ Lookup(t) \/ RUnlock(t)
  \/ Announce(t) \/ Lock(t) \/ Make(t) \/ Unlock(t)

Next == \E t \in Threads : Call(t) \/ InCall(t)

\* The scheduler runs every goroutine that stays able to run.
Fairness == \A t \in Threads : WF_vars(InCall(t))

Spec == Init /\ [][Next]_vars /\ Fairness

-----------------------------------------------------------------------------
PCs == {"out", "rlock", "parked", "lookup", "runlock", "lock", "drain", "make", "unlock"}

\* Every variable has its type; a worker has a key exactly during a call.
TypeOK ==
  /\ pc \in [Threads -> PCs]
  /\ key \in [Threads -> Keys \cup {None}]
  /\ \A t \in Threads : key[t] = None <=> pc[t] = "out"
  /\ rmCache \in [Keys -> Threads \cup {None}]
  /\ rm \in [Threads -> Threads \cup {None}]
  /\ made \in [Threads -> [Keys -> Nat]]
  /\ readers \subseteq Threads
  /\ writers \subseteq Threads

(***************************************************************************)
(* The map is never written while another worker reads or writes it: a Go  *)
(* map that is breaks the whole process.                                   *)
(***************************************************************************)
MapGuarded ==
  \A t, u \in Threads :
    (t # u /\ pc[t] \in {"make", "unlock"}) => pc[u] \notin {"lookup", "make", "unlock"}

(***************************************************************************)
(* However often a worker calls, it makes at most one manager of its own   *)
(* for a key: the managers made for a key are bounded by the number of     *)
(* concurrent reconciles, and the cache does not grow with the calls.      *)
(***************************************************************************)
OnePerWorker == \A t \in Threads : \A k \in Keys : made[t][k] <= 1

\* A worker whose next step waits for nobody.
Ready(t) ==
  \/ pc[t] \in {"rlock", "lookup", "runlock", "make", "unlock"}
  \/ pc[t] = "lock" /\ writers = {}
  \/ pc[t] = "drain" /\ readers = {}

(***************************************************************************)
(* The calls under way never all wait for one another: readers parked      *)
(* behind a writer, writers behind it, and it for the readers before.      *)
(***************************************************************************)
NoStandstill == (\E t \in Threads : pc[t] # "out") => \E t \in Threads : Ready(t)

(***************************************************************************)
(* Every call returns: readers and writers do not lock one another out.    *)
(***************************************************************************)
CallsReturn == \A t \in Threads : pc[t] = "rlock" ~> pc[t] = "out"

(***************************************************************************)
(* What the comment of ManagerFor says of the key: it avoids creating      *)
(* multiple resource managers for the same combination.  A manager that    *)
(* was made is never replaced by another.                                  *)
(***************************************************************************)
OneManagerPerKey == [][\A k \in Keys : rmCache[k] # None => rmCache'[k] = rmCache[k]]_vars
=============================================================================
