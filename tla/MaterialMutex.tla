---------------------------- MODULE MaterialMutex ----------------------------
(***************************************************************************)
(* What the callers of internals.RepositoryLocker rely on: one mutual      *)
(* exclusion lock per git material.  A handler asks for the lock of one    *)
(* material, waits, runs alone for that material, and leaves.  Handlers of *)
(* different materials do not exclude each other.  RepositoryLocker        *)
(* implements this module; the modules of the handlers are written over it.*)
(***************************************************************************)

CONSTANTS
    Procs,  \* goroutines that run a handler (poll workers, RPC handlers)
    Ids     \* git_material ids

VARIABLES
    stage,  \* where each goroutine is: "out", "waiting", "in"
    on      \* the set of materials a goroutine waits for or works on

vars == <<stage, on>>

Init ==
    /\ stage = [p \in Procs |-> "out"]
    /\ on = [p \in Procs |-> {}]

\* Nobody is in the critical section of material m.
Free(m) == \A p \in Procs : stage[p] = "in" => m \notin on[p]

\* A handler asks for the lock of m.
Request(p, m) ==
    /\ stage[p] = "out"
    /\ stage' = [stage EXCEPT ![p] = "waiting"]
    /\ on' = [on EXCEPT ![p] = {m}]

\* The lock of the material p waits for is granted to p.
Enter(p) ==
    /\ stage[p] = "waiting"
    /\ \A m \in on[p] : Free(m)
    /\ stage' = [stage EXCEPT ![p] = "in"]
    /\ UNCHANGED on

\* The handler of p is done with its material.
Leave(p) ==
    /\ stage[p] = "in"
    /\ stage' = [stage EXCEPT ![p] = "out"]
    /\ on' = [on EXCEPT ![p] = {}]

Next ==
    \E p \in Procs :
        \/ \E m \in Ids : Request(p, m)
        \/ Enter(p)
        \/ Leave(p)

\* A handler leaves once it is in; a waiter whose lock is free again and again
\* is let in.
Fairness ==
    \A p \in Procs : SF_vars(Enter(p)) /\ WF_vars(Leave(p))

SafeSpec == Init /\ [][Next]_vars

Spec == SafeSpec /\ Fairness

=============================================================================
