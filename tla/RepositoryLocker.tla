-------------------------- MODULE RepositoryLocker --------------------------
(***************************************************************************)
(* internals/Lockutil.go: a bank of reference-counted mutexes, one per git *)
(* material while somebody needs it.  Every handler that touches a         *)
(* material's directory does                                               *)
(*                                                                         *)
(*     l := locker.LeaseLocker(id); l.Mutex.Lock()                         *)
(*     defer func() { l.Mutex.Unlock(); locker.ReturnLocker(id) }()        *)
(*                                                                         *)
(* so a panic of the handler leaves in the same order.  LeaseLocker and    *)
(* ReturnLocker hold RepositoryLocker.Mutex for their whole body, which is *)
(* therefore one step.  A RepositoryLock is a heap object: it has an       *)
(* identity, and the object may be one that an earlier, now unreachable,   *)
(* RepositoryLock occupied.                                                *)
(***************************************************************************)
EXTENDS Integers, FiniteSets

CONSTANTS
    Procs,  \* goroutines
    Ids,    \* git_material ids
    Locks,  \* addresses of RepositoryLock objects
    Nil     \* the nil pointer, and "no goroutine"

ASSUME LockerAssumption ==
    /\ IsFiniteSet(Procs)
    /\ Nil \notin Procs \cup Ids \cup Locks

VARIABLES
    Bank,     \* RepositoryLocker.Bank: material id -> *RepositoryLock
    counter,  \* RepositoryLock.counter of each object
    owner,    \* RepositoryLock.Mutex of each object: who holds it
    pc,       \* where each goroutine is in the protocol above
    req,      \* the RepositoryId it passed
    ref       \* the pointer LeaseLocker returned to it

vars == <<Bank, counter, owner, pc, req, ref>>

-----------------------------------------------------------------------------

Init ==
    /\ Bank = [m \in Ids |-> Nil]
    /\ counter = [l \in Locks |-> 0]
    /\ owner = [l \in Locks |-> Nil]
    /\ pc = [p \in Procs |-> "idle"]
    /\ req = [p \in Procs |-> Nil]
    /\ ref = [p \in Procs |-> Nil]

\* An address a new RepositoryLock may be given: nothing points to it.
Fresh(l) ==
    /\ \A m \in Ids : Bank[m] # l
    /\ \A p \in Procs : ref[p] # l

\* Broken variant of LeaseLocker: a material without a lock gets none.
LeaseLockerNoCreate(p, m) ==
    /\ pc[p] = "idle"
    /\ counter' = IF Bank[m] = Nil THEN counter ELSE [counter EXCEPT ![Bank[m]] = @ + 1]
    /\ ref' = [ref EXCEPT ![p] = Bank[m]]
    /\ pc' = [pc EXCEPT ![p] = "leased"]
    /\ req' = [req EXCEPT ![p] = m]
    /\ UNCHANGED <<Bank, owner>>

\* LeaseLocker(m) of goroutine p: find or create the lock of m, count the lease.
LeaseLocker(p, m) ==
    /\ pc[p] = "idle"
    /\ \E l \in Locks :
          \/ /\ Bank[m] = l
             /\ counter' = [counter EXCEPT ![l] = @ + 1]
             /\ ref' = [ref EXCEPT ![p] = l]
             /\ UNCHANGED <<Bank, owner>>
          \/ /\ Bank[m] = Nil
             /\ Fresh(l)
             /\ Bank' = [Bank EXCEPT ![m] = l]
             /\ counter' = [counter EXCEPT ![l] = 1]
             /\ owner' = [owner EXCEPT ![l] = Nil]
             /\ ref' = [ref EXCEPT ![p] = l]
    /\ pc' = [pc EXCEPT ![p] = "leased"]
    /\ req' = [req EXCEPT ![p] = m]

\* Broken variant of LockMutex: it does not wait.
LockMutexNoWait(p) ==
    /\ pc[p] = "leased"
    /\ owner' = [owner EXCEPT ![ref[p]] = p]
    /\ pc' = [pc EXCEPT ![p] = "critical"]
    /\ UNCHANGED <<Bank, counter, req, ref>>

\* repoLock.Mutex.Lock() returns: the mutex was free.
LockMutex(p) ==
    /\ pc[p] = "leased"
    /\ owner[ref[p]] = Nil
    /\ owner' = [owner EXCEPT ![ref[p]] = p]
    /\ pc' = [pc EXCEPT ![p] = "critical"]
    /\ UNCHANGED <<Bank, counter, req, ref>>

\* Broken variant of UnlockMutex: the unlock is forgotten.
UnlockMutexForgotten(p) ==
    /\ pc[p] = "critical"
    /\ pc' = [pc EXCEPT ![p] = "unlocked"]
    /\ UNCHANGED <<Bank, counter, owner, req, ref>>

\* repoLock.Mutex.Unlock(), the first deferred call.
UnlockMutex(p) ==
    /\ pc[p] = "critical"
    /\ owner' = [owner EXCEPT ![ref[p]] = Nil]
    /\ pc' = [pc EXCEPT ![p] = "unlocked"]
    /\ UNCHANGED <<Bank, counter, req, ref>>

\* Broken variant of LastLease: any return deletes the lock.
AnyLease(l) == TRUE

\* The lease being returned is the last one of l.
LastLease(l) == counter[l] = 1

\* ReturnLocker(id), the second one: drop the lease through the bank, and the
\* lock from the bank with its last lease.  The goroutine forgets the pointer.
ReturnLocker(p) ==
    /\ pc[p] = "unlocked"
    /\ LET m == req[p]
           l == Bank[m]
       IN /\ counter' = [counter EXCEPT ![l] = @ - 1]
          /\ Bank' = IF LastLease(l) THEN [Bank EXCEPT ![m] = Nil] ELSE Bank
    /\ pc' = [pc EXCEPT ![p] = "idle"]
    /\ req' = [req EXCEPT ![p] = Nil]
    /\ ref' = [ref EXCEPT ![p] = Nil]
    /\ UNCHANGED owner

Next ==
    \E p \in Procs :
        \/ \E m \in Ids : LeaseLocker(p, m)
        \/ LockMutex(p)
        \/ UnlockMutex(p)
        \/ ReturnLocker(p)

\* A critical section ends and its deferred calls run; sync.Mutex hands the
\* mutex to a goroutine that has waited long enough (its starvation mode).
Fairness ==
    \A p \in Procs :
        /\ SF_vars(LockMutex(p))
        /\ WF_vars(UnlockMutex(p))
        /\ WF_vars(ReturnLocker(p))

SafeSpec == Init /\ [][Next]_vars

Spec == SafeSpec /\ Fairness

-----------------------------------------------------------------------------

TypeOK ==
    /\ Bank \in [Ids -> Locks \cup {Nil}]
    /\ counter \in [Locks -> Int]
    /\ owner \in [Locks -> Procs \cup {Nil}]
    /\ pc \in [Procs -> {"idle", "leased", "critical", "unlocked"}]
    /\ \A p \in Procs :
          IF pc[p] = "idle" THEN req[p] = Nil /\ ref[p] = Nil
                            ELSE req[p] \in Ids /\ ref[p] \in Locks
    /\ DOMAIN req = Procs
    /\ DOMAIN ref = Procs

\* The goroutines that hold a pointer to l and have not returned it.
Leases(l) == {p \in Procs : ref[p] = l}

\* MutualExclusion: two handlers never work on one material at the same time
\* (what every Lease/Lock pair in RepoManages.go and Watcher.go is for).
MutualExclusion ==
    \A p, q \in Procs :
        pc[p] = "critical" /\ pc[q] = "critical" /\ req[p] = req[q] => p = q

\* The lease count of a lock in the bank is the number of goroutines that hold
\* it, and a lock is in the bank exactly as long as somebody does: ReturnLocker
\* neither deletes a lock in use nor leaks one nobody uses (Lockutil.go:54-58).
LeaseCount ==
    /\ \A m \in Ids, l \in Locks : Bank[m] = l =>
          counter[l] = Cardinality(Leases(l)) /\ counter[l] > 0
    /\ \A p \in Procs : pc[p] # "idle" => Bank[req[p]] = ref[p]

\* No object is the lock of two materials, and whoever is in its critical
\* section owns the mutex it leased.
BankInjective ==
    \A m, n \in Ids : Bank[m] # Nil /\ Bank[m] = Bank[n] => m = n

CriticalOwnsMutex == \A p \in Procs : pc[p] = "critical" => owner[ref[p]] = p

\* LockerInv: the inductive invariant behind MutualExclusion.  A lock object
\* that is leased is the only one its material has had since the first of the
\* present leases, so two handlers of one material compete for one mutex.
LockerInv ==
    /\ TypeOK
    /\ BankInjective
    /\ LeaseCount
    /\ CriticalOwnsMutex

\* LockStable: while a goroutine holds a lease on a material, the bank keeps
\* answering with the same lock object for it (an action property).
LockStable ==
    [][\A m \in Ids :
          (\E p \in Procs : req[p] = m /\ req'[p] = m) => Bank'[m] = Bank[m]]_vars

\* WaiterServed: a handler that leased a lock gets to run.
WaiterServed == \A p \in Procs : pc[p] = "leased" ~> pc[p] = "critical"

-----------------------------------------------------------------------------
(* The mutex of a material that the callers see. *)

stageBar == [p \in Procs |-> CASE pc[p] = "leased"   -> "waiting"
                               [] pc[p] = "critical" -> "in"
                               [] OTHER              -> "out"]

onBar == [p \in Procs |-> IF pc[p] \in {"leased", "critical"} THEN {req[p]} ELSE {}]

Mutex == INSTANCE MaterialMutex WITH stage <- stageBar, on <- onBar

\* The bank of locks implements one mutex per material, fairness included.
ImplementsMutex == Mutex!Spec

=============================================================================
