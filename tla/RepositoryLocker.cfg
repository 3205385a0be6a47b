CONSTANTS
    Procs = {p1, p2, p3, p4}
    Ids = {m1, m2}
    Locks = {l1, l2, l3, l4}
    Nil = Nil
SPECIFICATION Spec
INVARIANTS TypeOK LockerInv MutualExclusion LeaseCount
PROPERTIES LockStable WaiterServed ImplementsMutex
