----------------------- MODULE RepositoryLockerProofs -----------------------
(***************************************************************************)
(* Proofs about RepositoryLocker, for every set of goroutines, materials   *)
(* and lock addresses: the inductive invariant LockerInv, and from it type *)
(* correctness, mutual exclusion, the lease count, the stability of a      *)
(* leased lock and the refinement of MaterialMutex (safety part).          *)
(***************************************************************************)
EXTENDS RepositoryLocker, FiniteSetTheorems, TLAPS

-----------------------------------------------------------------------------
(* The leases of a lock object, and how a step changes their number. *)

LEMMA LeasesFinite ==
    ASSUME NEW l
    PROVE  IsFiniteSet(Leases(l)) /\ Cardinality(Leases(l)) \in Nat
  <1>1. Leases(l) \subseteq Procs /\ IsFiniteSet(Procs)
    BY LockerAssumption DEF Leases
  <1>2. IsFiniteSet(Leases(l))
    BY <1>1, FS_Subset
  <1> QED
    BY <1>2, FS_CardinalityType

\* A goroutine without a pointer that gets one to l adds one lease to l.
LEMMA LeaseGained ==
    ASSUME TypeOK, NEW p \in Procs, NEW l \in Locks,
           ref[p] = Nil, ref' = [ref EXCEPT ![p] = l]
    PROVE  /\ Cardinality(Leases(l)') = Cardinality(Leases(l)) + 1
           /\ \A k \in Locks : k # l => Leases(k)' = Leases(k)
  <1> USE LockerAssumption DEF TypeOK
  <1>1. p \notin Leases(l)
    BY DEF Leases
  <1>2. Leases(l)' = Leases(l) \cup {p}
    BY DEF Leases
  <1>3. Cardinality(Leases(l) \cup {p}) = Cardinality(Leases(l)) + 1
    BY <1>1, LeasesFinite, FS_AddElement
  <1>4. \A k \in Locks : k # l => Leases(k)' = Leases(k)
    BY DEF Leases
  <1> QED
    BY <1>2, <1>3, <1>4

\* A goroutine that forgets its pointer to l takes one lease off l.
LEMMA LeaseLost ==
    ASSUME TypeOK, NEW p \in Procs, NEW l \in Locks,
           ref[p] = l, ref' = [ref EXCEPT ![p] = Nil]
    PROVE  /\ Cardinality(Leases(l)') = Cardinality(Leases(l)) - 1
           /\ \A k \in Locks : k # l => Leases(k)' = Leases(k)
           /\ Cardinality(Leases(l)) = 1 => Leases(l) = {p}
  <1> USE LockerAssumption DEF TypeOK
  <1>1. p \in Leases(l)
    BY DEF Leases
  <1>2. Leases(l)' = Leases(l) \ {p}
    BY DEF Leases
  <1>3. /\ IsFiniteSet(Leases(l) \ {p})
        /\ Cardinality(Leases(l) \ {p}) = Cardinality(Leases(l)) - 1
    BY <1>1, LeasesFinite, FS_RemoveElement
  <1>4. \A k \in Locks : k # l => Leases(k)' = Leases(k)
    BY DEF Leases
  <1>5. Cardinality(Leases(l)) = 1 => Leases(l) = {p}
    <2> SUFFICES ASSUME Cardinality(Leases(l)) = 1
                 PROVE  Leases(l) = {p}
      OBVIOUS
    <2>1. Cardinality(Leases(l) \ {p}) = 0
      BY <1>3
    <2>2. Leases(l) \ {p} = {}
      BY <1>3, <2>1, FS_EmptySet
    <2> QED
      BY <1>1, <2>2
  <1> QED
    BY <1>2, <1>3, <1>4, <1>5

-----------------------------------------------------------------------------
(* LockerInv is inductive: one lemma per action. *)

LEMMA InitLockerInv == Init => LockerInv
  BY LockerAssumption
  DEF Init, LockerInv, TypeOK, BankInjective, LeaseCount, CriticalOwnsMutex

LEMMA LeaseLockerStep ==
    ASSUME LockerInv, NEW p \in Procs, NEW m \in Ids, LeaseLocker(p, m)
    PROVE  LockerInv'
  <1> USE LockerAssumption DEF LockerInv
  <1>1. ref[p] = Nil /\ req[p] = Nil /\ pc[p] = "idle"
    BY DEF LeaseLocker, TypeOK
  <1>2. CASE Bank[m] \in Locks
    <2>1. PICK l \in Locks :
             /\ Bank[m] = l
             /\ Bank' = Bank /\ owner' = owner
             /\ counter' = [counter EXCEPT ![l] = @ + 1]
             /\ ref' = [ref EXCEPT ![p] = l]
      BY <1>2 DEF LeaseLocker
    <2>11. /\ pc' = [pc EXCEPT ![p] = "leased"]
          /\ req' = [req EXCEPT ![p] = m]
      BY DEF LeaseLocker
    <2>2. TypeOK'
      BY <2>1, <2>11 DEF TypeOK
    <2>3. BankInjective'
      BY <2>1 DEF BankInjective
    <2>4. CriticalOwnsMutex'
      BY <2>1, <2>11 DEF CriticalOwnsMutex, TypeOK
    <2>5. /\ Cardinality(Leases(l)') = Cardinality(Leases(l)) + 1
          /\ \A k \in Locks : k # l => Leases(k)' = Leases(k)
      BY <1>1, <2>1, LeaseGained
    <2>6. \A n \in Ids, k \in Locks : Bank'[n] = k =>
             counter'[k] = Cardinality(Leases(k)') /\ counter'[k] > 0
      <3> SUFFICES ASSUME NEW n \in Ids, NEW k \in Locks, Bank[n] = k
                   PROVE  counter'[k] = Cardinality(Leases(k)') /\ counter'[k] > 0
        BY <2>1
      <3>1. counter[k] = Cardinality(Leases(k)) /\ counter[k] > 0 /\ counter[k] \in Int
        BY DEF LeaseCount, TypeOK
      <3>2. CASE k = l
        BY <2>1, <2>5, <3>1, <3>2 DEF TypeOK
      <3>3. CASE k # l
        BY <2>1, <2>5, <3>1, <3>3 DEF TypeOK
      <3> QED
        BY <3>2, <3>3
    <2>7. \A q \in Procs : pc'[q] # "idle" => Bank'[req'[q]] = ref'[q]
      BY <2>1, <2>11 DEF LeaseCount, TypeOK
    <2>8. LeaseCount'
      BY <2>6, <2>7 DEF LeaseCount
    <2> QED
      BY <2>2, <2>3, <2>4, <2>8
  <1>3. CASE Bank[m] = Nil
    <2>1. PICK l \in Locks :
             /\ Fresh(l)
             /\ Bank' = [Bank EXCEPT ![m] = l]
             /\ counter' = [counter EXCEPT ![l] = 1]
             /\ owner' = [owner EXCEPT ![l] = Nil]
             /\ ref' = [ref EXCEPT ![p] = l]
      BY <1>3 DEF LeaseLocker
    <2>2. /\ pc' = [pc EXCEPT ![p] = "leased"]
          /\ req' = [req EXCEPT ![p] = m]
      BY DEF LeaseLocker
    <2>3. l # Nil /\ (\A n \in Ids : Bank[n] # l) /\ (\A q \in Procs : ref[q] # l)
      BY <2>1 DEF Fresh
    <2>4. TypeOK'
      BY <2>1, <2>2 DEF TypeOK
    <2>5. BankInjective'
      BY <2>1, <2>3 DEF BankInjective, TypeOK
    <2>6. CriticalOwnsMutex'
      BY <2>1, <2>2, <2>3 DEF CriticalOwnsMutex, TypeOK
    <2>7. /\ Cardinality(Leases(l)') = 1
          /\ \A k \in Locks : k # l => Leases(k)' = Leases(k)
      <3>1. Leases(l) = {}
        BY <2>3 DEF Leases
      <3>2. Cardinality(Leases(l)) = 0
        BY <3>1, FS_EmptySet
      <3>3. /\ Cardinality(Leases(l)') = Cardinality(Leases(l)) + 1
            /\ \A k \in Locks : k # l => Leases(k)' = Leases(k)
        BY <1>1, <2>1, LeaseGained
      <3> QED
        BY <3>2, <3>3
    <2>8. \A n \in Ids, k \in Locks : Bank'[n] = k =>
             counter'[k] = Cardinality(Leases(k)') /\ counter'[k] > 0
      <3> SUFFICES ASSUME NEW n \in Ids, NEW k \in Locks, Bank'[n] = k
                   PROVE  counter'[k] = Cardinality(Leases(k)') /\ counter'[k] > 0
        OBVIOUS
      <3>1. CASE k = l
        BY <2>1, <2>7, <3>1 DEF TypeOK
      <3>2. CASE k # l
        <4>1. Bank[n] = k
          BY <2>1, <3>2 DEF TypeOK
        <4>2. counter[k] = Cardinality(Leases(k)) /\ counter[k] > 0
          BY <4>1 DEF LeaseCount
        <4>3. counter'[k] = counter[k] /\ Leases(k)' = Leases(k)
          BY <2>1, <2>7, <3>2 DEF TypeOK
        <4> QED
          BY <4>2, <4>3
      <3> QED
        BY <3>1, <3>2
    <2>9. \A q \in Procs : pc'[q] # "idle" => Bank'[req'[q]] = ref'[q]
      BY <1>3, <2>1, <2>2 DEF LeaseCount, TypeOK
    <2>10. LeaseCount'
      BY <2>8, <2>9 DEF LeaseCount
    <2> QED
      BY <2>4, <2>5, <2>6, <2>10
  <1> QED
    BY <1>2, <1>3 DEF TypeOK

LEMMA LockMutexStep ==
    ASSUME LockerInv, NEW p \in Procs, LockMutex(p)
    PROVE  LockerInv'
  <1> USE LockerAssumption DEF LockerInv
  <1>1. TypeOK'
    BY DEF LockMutex, TypeOK
  <1>2. BankInjective'
    BY DEF LockMutex, BankInjective
  <1>3. LeaseCount'
    BY DEF LockMutex, LeaseCount, TypeOK, Leases
  <1>4. CriticalOwnsMutex'
    BY DEF LockMutex, CriticalOwnsMutex, TypeOK
  <1> QED
    BY <1>1, <1>2, <1>3, <1>4

LEMMA UnlockMutexStep ==
    ASSUME LockerInv, NEW p \in Procs, UnlockMutex(p)
    PROVE  LockerInv'
  <1> USE LockerAssumption DEF LockerInv
  <1>1. TypeOK'
    BY DEF UnlockMutex, TypeOK
  <1>2. BankInjective'
    BY DEF UnlockMutex, BankInjective
  <1>3. LeaseCount'
    BY DEF UnlockMutex, LeaseCount, TypeOK, Leases
  <1>4. CriticalOwnsMutex'
    \* another goroutine in its critical section owns another mutex
    BY DEF UnlockMutex, CriticalOwnsMutex, TypeOK
  <1> QED
    BY <1>1, <1>2, <1>3, <1>4

LEMMA ReturnLockerStep ==
    ASSUME LockerInv, NEW p \in Procs, ReturnLocker(p)
    PROVE  LockerInv'
  <1> USE LockerAssumption DEF LockerInv
  <1>1. PICK m \in Ids, l \in Locks :
           /\ m = req[p] /\ l = ref[p] /\ l = Bank[m]
           /\ counter' = [counter EXCEPT ![l] = @ - 1]
           /\ Bank' = IF counter[l] = 1 THEN [Bank EXCEPT ![m] = Nil] ELSE Bank
    BY DEF ReturnLocker, LastLease, TypeOK, LeaseCount
  <1>2. /\ pc[p] = "unlocked" /\ owner' = owner
        /\ pc' = [pc EXCEPT ![p] = "idle"]
        /\ req' = [req EXCEPT ![p] = Nil]
        /\ ref' = [ref EXCEPT ![p] = Nil]
    BY DEF ReturnLocker
  <1>3. TypeOK'
    BY <1>1, <1>2 DEF TypeOK
  <1>4. BankInjective'
    BY <1>1 DEF BankInjective, TypeOK
  <1>5. CriticalOwnsMutex'
    BY <1>2 DEF CriticalOwnsMutex, TypeOK
  <1>6. counter[l] = Cardinality(Leases(l)) /\ counter[l] > 0
    BY <1>1 DEF LeaseCount
  <1>7. /\ Cardinality(Leases(l)') = Cardinality(Leases(l)) - 1
        /\ \A k \in Locks : k # l => Leases(k)' = Leases(k)
        /\ Cardinality(Leases(l)) = 1 => Leases(l) = {p}
    BY <1>1, <1>2, LeaseLost
  <1>8. \A n \in Ids, k \in Locks : Bank'[n] = k =>
           counter'[k] = Cardinality(Leases(k)') /\ counter'[k] > 0
    <2> SUFFICES ASSUME NEW n \in Ids, NEW k \in Locks, Bank'[n] = k
                 PROVE  counter'[k] = Cardinality(Leases(k)') /\ counter'[k] > 0
      OBVIOUS
    <2>1. Bank[n] = k
      BY <1>1 DEF TypeOK
    <2>2. counter[k] = Cardinality(Leases(k)) /\ counter[k] > 0 /\ counter[k] \in Int
      BY <2>1 DEF LeaseCount, TypeOK
    <2>3. CASE k = l
      \* then the bank still holds l after the step: p was not its last lease
      <3>1. counter[l] # 1
        BY <1>1, <2>1, <2>3 DEF BankInjective, TypeOK
      <3> QED
        BY <1>1, <1>7, <2>2, <2>3, <3>1 DEF TypeOK
    <2>4. CASE k # l
      BY <1>1, <1>7, <2>2, <2>4 DEF TypeOK
    <2> QED
      BY <2>3, <2>4
  <1>9. \A q \in Procs : pc'[q] # "idle" => Bank'[req'[q]] = ref'[q]
    <2> SUFFICES ASSUME NEW q \in Procs, pc'[q] # "idle"
                 PROVE  Bank'[req'[q]] = ref'[q]
      OBVIOUS
    <2>1. q # p /\ pc[q] # "idle" /\ req'[q] = req[q] /\ ref'[q] = ref[q]
      BY <1>2 DEF TypeOK
    <2>2. Bank[req[q]] = ref[q] /\ req[q] \in Ids
      BY <2>1 DEF LeaseCount, TypeOK
    <2>3. CASE req[q] = m /\ counter[l] = 1
      <3>1. q \in Leases(l) /\ Leases(l) = {p}
        BY <1>1, <1>6, <1>7, <2>2, <2>3 DEF Leases
      <3> QED
        BY <2>1, <3>1
    <2>4. CASE ~(req[q] = m /\ counter[l] = 1)
      BY <1>1, <2>1, <2>2, <2>4 DEF TypeOK
    <2> QED
      BY <2>3, <2>4
  <1>10. LeaseCount'
    BY <1>8, <1>9 DEF LeaseCount
  <1> QED
    BY <1>3, <1>4, <1>5, <1>10

LEMMA StutterStep ==
    ASSUME LockerInv, UNCHANGED vars
    PROVE  LockerInv'
  BY DEF LockerInv, TypeOK, BankInjective, LeaseCount, Leases, CriticalOwnsMutex, vars

LEMMA LockerInvStep == LockerInv /\ [Next]_vars => LockerInv'
  <1> SUFFICES ASSUME LockerInv, [Next]_vars
               PROVE  LockerInv'
    OBVIOUS
  <1>1. CASE UNCHANGED vars
    BY <1>1, StutterStep
  <1>2. ASSUME NEW p \in Procs, NEW m \in Ids, LeaseLocker(p, m)
        PROVE  LockerInv'
    BY <1>2, LeaseLockerStep
  <1>3. ASSUME NEW p \in Procs, LockMutex(p)
        PROVE  LockerInv'
    BY <1>3, LockMutexStep
  <1>4. ASSUME NEW p \in Procs, UnlockMutex(p)
        PROVE  LockerInv'
    BY <1>4, UnlockMutexStep
  <1>5. ASSUME NEW p \in Procs, ReturnLocker(p)
        PROVE  LockerInv'
    BY <1>5, ReturnLockerStep
  <1> QED
    BY <1>1, <1>2, <1>3, <1>4, <1>5 DEF Next

-----------------------------------------------------------------------------
(* The theorems. *)

\* LockerInv holds in every reachable state.
THEOREM LockerInvariant == SafeSpec => []LockerInv
  BY InitLockerInv, LockerInvStep, PTL DEF SafeSpec

\* Every variable keeps its type; a goroutine has a pointer exactly while it
\* is between LeaseLocker and ReturnLocker.
THEOREM TypeCorrect == SafeSpec => []TypeOK
  <1>1. LockerInv => TypeOK
    BY DEF LockerInv
  <1> QED
    BY <1>1, LockerInvariant, PTL

\* ReturnLocker never deletes a lock in use and never leaves an unused one, so
\* its counter access never meets a missing entry (Lockutil.go:54-58).
THEOREM LeasesCounted == SafeSpec => []LeaseCount
  <1>1. LockerInv => LeaseCount
    BY DEF LockerInv
  <1> QED
    BY <1>1, LockerInvariant, PTL

\* Two goroutines that are in the critical section of one material own the
\* mutex of the same lock object, hence are one goroutine.
THEOREM MutexPerMaterial == SafeSpec => []MutualExclusion
  <1>1. LockerInv => MutualExclusion
    <2> SUFFICES ASSUME LockerInv,
                        NEW p \in Procs, NEW q \in Procs,
                        pc[p] = "critical", pc[q] = "critical", req[p] = req[q]
                 PROVE  p = q
      BY DEF MutualExclusion
    <2>1. Bank[req[p]] = ref[p] /\ Bank[req[q]] = ref[q]
      BY DEF LockerInv, LeaseCount
    <2>2. owner[ref[p]] = p /\ owner[ref[q]] = q
      BY DEF LockerInv, CriticalOwnsMutex
    <2> QED
      BY <2>1, <2>2
  <1> QED
    BY <1>1, LockerInvariant, PTL

\* A lock that is leased before and after a step stays its material's lock.
THEOREM LeasedLockStable == SafeSpec => LockStable
  <1>1. LockerInv /\ LockerInv' /\ [Next]_vars =>
           [\A m \in Ids : (\E p \in Procs : req[p] = m /\ req'[p] = m)
                              => Bank'[m] = Bank[m]]_vars
    <2> SUFFICES ASSUME LockerInv, LockerInv', Next,
                        NEW m \in Ids, NEW p \in Procs, req[p] = m, req'[p] = m
                 PROVE  Bank'[m] = Bank[m]
      OBVIOUS
    <2>1. pc[p] # "idle" /\ pc'[p] # "idle"
      BY LockerAssumption DEF LockerInv, TypeOK
    <2>2. Bank[m] = ref[p] /\ Bank'[m] = ref'[p]
      BY <2>1 DEF LockerInv, LeaseCount
    <2>3. ref'[p] = ref[p]
      BY <2>1 DEF Next, LeaseLocker, LockMutex, UnlockMutex, ReturnLocker, LockerInv, TypeOK
    <2> QED
      BY <2>2, <2>3
  <1> QED
    BY <1>1, LockerInvariant, LockerInvStep, PTL DEF SafeSpec, LockStable

-----------------------------------------------------------------------------
(* Refinement of MaterialMutex. *)

LEMMA InitMutex == Init => Mutex!Init
  BY DEF Init, Mutex!Init, stageBar, onBar

LEMMA MutexStep == LockerInv /\ LockerInv' /\ [Next]_vars => [Mutex!Next]_(Mutex!vars)
  <1> SUFFICES ASSUME LockerInv, LockerInv', [Next]_vars
               PROVE  [Mutex!Next]_(Mutex!vars)
    OBVIOUS
  <1> USE LockerAssumption
  <1>1. TypeOK
    BY DEF LockerInv
  <1>2. CASE UNCHANGED vars
    BY <1>2 DEF vars, Mutex!vars, stageBar, onBar
  <1>3. ASSUME NEW p \in Procs, NEW m \in Ids, LeaseLocker(p, m)
        PROVE  Mutex!Request(p, m)
    <2>1. /\ pc[p] = "idle"
          /\ pc' = [pc EXCEPT ![p] = "leased"]
          /\ req' = [req EXCEPT ![p] = m]
      BY <1>3 DEF LeaseLocker
    <2> QED
      BY <1>1, <2>1 DEF TypeOK, Mutex!Request, stageBar, onBar
  <1>4. ASSUME NEW p \in Procs, LockMutex(p)
        PROVE  Mutex!Enter(p)
    <2>1. /\ pc[p] = "leased" /\ owner[ref[p]] = Nil
          /\ pc' = [pc EXCEPT ![p] = "critical"]
          /\ req' = req
      BY <1>4 DEF LockMutex
    <2>2. /\ stageBar[p] = "waiting" /\ onBar[p] = {req[p]}
          /\ stageBar' = [stageBar EXCEPT ![p] = "in"]
          /\ onBar' = onBar
      BY <1>1, <2>1 DEF TypeOK, stageBar, onBar
    <2>3. Mutex!Free(req[p])
      <3> SUFFICES ASSUME NEW q \in Procs, stageBar[q] = "in", req[p] \in onBar[q]
                   PROVE  FALSE
        BY DEF Mutex!Free
      <3>1. pc[q] = "critical" /\ req[q] = req[p]
        BY DEF stageBar, onBar
      <3>2. ref[q] = ref[p]
        BY <2>1, <3>1 DEF LockerInv, LeaseCount
      <3>3. owner[ref[q]] = q
        BY <3>1 DEF LockerInv, CriticalOwnsMutex
      <3> QED
        BY <2>1, <3>2, <3>3
    <2> QED
      BY <2>2, <2>3 DEF Mutex!Enter
  <1>5. ASSUME NEW p \in Procs, UnlockMutex(p)
        PROVE  Mutex!Leave(p)
    <2>1. /\ pc[p] = "critical"
          /\ pc' = [pc EXCEPT ![p] = "unlocked"]
          /\ req' = req
      BY <1>5 DEF UnlockMutex
    <2> QED
      BY <1>1, <2>1 DEF TypeOK, Mutex!Leave, stageBar, onBar
  <1>6. ASSUME NEW p \in Procs, ReturnLocker(p)
        PROVE  UNCHANGED Mutex!vars
    <2>1. /\ pc[p] = "unlocked"
          /\ pc' = [pc EXCEPT ![p] = "idle"]
          /\ req' = [req EXCEPT ![p] = Nil]
      BY <1>6 DEF ReturnLocker
    <2> QED
      BY <1>1, <2>1 DEF TypeOK, Mutex!vars, stageBar, onBar
  <1> QED
    BY <1>2, <1>3, <1>4, <1>5, <1>6 DEF Next, Mutex!Next

\* The bank of reference-counted locks is one mutex per material: every step
\* of the code is a step of MaterialMutex or leaves its state alone.
THEOREM ImplementsMutexSafety == SafeSpec => Mutex!SafeSpec
  BY InitMutex, MutexStep, LockerInvariant, PTL DEF SafeSpec, Mutex!SafeSpec

=============================================================================
