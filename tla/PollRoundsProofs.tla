-------------------------- MODULE PollRoundsProofs --------------------------
(***************************************************************************)
(* Proofs about PollRounds, for any number of materials, workers, callers  *)
(* and keys and any set of faults: the state is well formed and the        *)
(* handlers keep the lock discipline (TypeCorrect), rounds of polls do not *)
(* overlap (OnePollEachAlways), and two goroutines never work on one       *)
(* material (OneInAlways).                                                 *)
(***************************************************************************)
EXTENDS PollRounds, TLAPS

-----------------------------------------------------------------------------
(* The inductive invariant. *)

\* Labels at which a handler uses the key it has read.
WithKey == {"row", "fetch", "hung", "helper", "wipe", "key", "fill", "config"}

\* What the locals j of goroutine h have to do with each other: workers only
\* poll, all but saves have a material, and a key is read before it is used.
Sound(h, j) ==
    /\ j.at = "idle" <=> j.op = "none"
    /\ j.mat = None <=> j.op \in {"none", "save"}
    /\ h \in Workers => j.op \in {"none", "poll"}
    /\ j.at \in WithKey \/ j.op = "save" => j.key \in Keys

BoundsOK ==
    checkedOut \subseteq Materials /\ happened \subseteq Faults /\ calls \in 0..MaxCalls

\* OnePollEach alone is not inductive: that a worker which becomes idle has no
\* material, and one which has none is idle, is Sound.
IInv == TypeOK /\ OnePollEach /\ \A h \in Procs : Sound(h, job[h])

-----------------------------------------------------------------------------
(* The initial states. *)

LEMMA InitIInv == Init => IInv
  <1> SUFFICES ASSUME Init PROVE IInv
    OBVIOUS
  <1> USE RoundsAssumption, KeyAssumption
  <1>1. \A h \in Procs : job[h] = Idle /\ stage[h] = "out" /\ on[h] = {}
    BY DEF Init, Mutex!Init
  <1>2. Idle \in Job /\ \A h \in Procs : Sound(h, Idle)
    BY DEF Idle, Job, Sound, WithKey
  <1>3. TypeOK
    <2>1. SshOK
      BY DEF Init, SshInit, SshOK
    <2>2. job \in [Procs -> Job]
      BY <1>2 DEF Init
    <2>3. \A h \in Procs : job[h].op = "none" /\ job[h].at = "idle" /\ job[h].mat = None
      BY <1>1 DEF Idle
    <2>4. \A h \in Procs : LockedAsCalled(h)
      BY <1>1, <2>3 DEF LockedAsCalled, At
    <2>5. stage \in [Procs -> {"out", "waiting", "in"}] /\ on \in [Procs -> SUBSET Materials]
      BY DEF Init, Mutex!Init
    <2> QED
      BY <2>1, <2>2, <2>4, <2>5 DEF Init, TypeOK
  <1>4. OnePollEach
    BY <1>1 DEF Init, OnePollEach, At, Procs, Idle
  <1> QED
    BY <1>1, <1>2, <1>3, <1>4 DEF IInv

-----------------------------------------------------------------------------
(* What steps have in common. *)

\* A fault is one of those that may happen, and calls stay.
LEMMA FaultBounds ==
    ASSUME IInv, NEW kind, Fault(kind), UNCHANGED checkedOut
    PROVE  BoundsOK'
  BY DEF IInv, TypeOK, Fault, BoundsOK

\* Who is not concerned keeps the lock as it should.
LEMMA SameLock ==
    ASSUME NEW g, LockedAsCalled(g),
           job'[g] = job[g], stage'[g] = stage[g], on'[g] = on[g]
    PROVE  LockedAsCalled(g)'
  BY DEF LockedAsCalled, At

\* A handler with the lock, or a save, goes on.
LEMMA GoesOn ==
    ASSUME IInv, NEW h \in Procs, NEW j \in Job,
           job[h].at \notin {"idle", "lock"}, j.at \notin {"idle", "lock"},
           j.op = job[h].op, j.mat = job[h].mat, Sound(h, j),
           Become(h, j), UNCHANGED <<locks, round>>, SshOK', BoundsOK'
    PROVE  IInv'
  <1> USE DEF IInv, TypeOK, At, Become
  <1>1. job' \in [Procs -> Job] /\ job'[h] = j
    OBVIOUS
  <1>2. \A g \in Procs : g # h => job'[g] = job[g]
    OBVIOUS
  <1>3. /\ \A g \in Procs : LockedAsCalled(g)'
        /\ stage' \in [Procs -> {"out", "waiting", "in"}] /\ on' \in [Procs -> SUBSET Materials]
    <2>1. LockedAsCalled(h)'
      BY <1>1 DEF LockedAsCalled, locks
    <2>2. \A g \in Procs : g # h => stage'[g] = stage[g] /\ on'[g] = on[g]
      BY DEF locks
    <2>3. \A g \in Procs : g # h => LockedAsCalled(g)'
      BY <1>2, <2>2, SameLock
    <2>4. stage' \in [Procs -> {"out", "waiting", "in"}] /\ on' \in [Procs -> SUBSET Materials]
      BY DEF locks
    <2> QED
      BY <2>1, <2>3, <2>4
  <1>4. TypeOK'
    BY <1>1, <1>3 DEF BoundsOK, round
  <1>5. OnePollEach'
    <2>1. \A w \in Workers : w \in Procs /\ job'[w].mat = job[w].mat /\ (At(w, "idle") <=> At(w, "idle")')
      BY <1>1, <1>2 DEF Procs
    <2> QED
      BY <2>1 DEF OnePollEach, round
  <1>6. \A g \in Procs : Sound(g, job'[g])
    BY <1>1, <1>2
  <1> QED
    BY <1>4, <1>5, <1>6

\* A handler returns, with the lock if it has one.
LEMMA Leaves ==
    ASSUME IInv, NEW h \in Procs, job[h].at \notin {"idle", "lock"}, Become(h, Idle),
           IF job[h].op = "save" THEN UNCHANGED locks ELSE Mutex!Leave(h),
           UNCHANGED round, UNCHANGED sshVars, BoundsOK'
    PROVE  IInv'
  <1> USE DEF IInv, TypeOK, At, Become
  <1>0. Idle \in Job /\ Sound(h, Idle)
    BY RoundsAssumption DEF Idle, Job, Sound, WithKey
  <1>1. job' \in [Procs -> Job] /\ job'[h] = Idle
    BY <1>0
  <1>2. \A g \in Procs : g # h => job'[g] = job[g]
    OBVIOUS
  <1>3. /\ \A g \in Procs : LockedAsCalled(g)'
        /\ stage' \in [Procs -> {"out", "waiting", "in"}] /\ on' \in [Procs -> SUBSET Materials]
    <2>1. LockedAsCalled(h)'
      <3>1. CASE job[h].op = "save"
        BY <1>1, <3>1 DEF LockedAsCalled, locks, Idle, Sound
      <3>2. CASE job[h].op # "save"
        BY <1>1, <3>2 DEF LockedAsCalled, Mutex!Leave, Idle
      <3> QED
        BY <3>1, <3>2
    <2>2. \A g \in Procs : g # h => stage'[g] = stage[g] /\ on'[g] = on[g]
      BY DEF locks, Mutex!Leave
    <2>3. \A g \in Procs : g # h => LockedAsCalled(g)'
      BY <1>2, <2>2, SameLock
    <2>4. stage' \in [Procs -> {"out", "waiting", "in"}] /\ on' \in [Procs -> SUBSET Materials]
      BY DEF locks, Mutex!Leave
    <2> QED
      BY <2>1, <2>3, <2>4
  <1>4. SshOK'
    BY DEF SshOK, sshVars
  <1>5. TypeOK'
    BY <1>1, <1>3, <1>4 DEF BoundsOK, round
  <1>6. OnePollEach'
    <2>1. \A w \in Workers : w \in Procs /\ (job'[w].mat = job[w].mat \/ job'[w].mat = None)
      BY <1>1, <1>2 DEF Procs, Idle
    <2>2. \A w \in Workers : At(w, "idle") => At(w, "idle")'
      BY <1>1, <1>2 DEF Procs, Idle
    <2>3. None \notin queue
      BY RoundsAssumption
    <2> QED
      BY <2>1, <2>2, <2>3 DEF OnePollEach, round
  <1>7. \A g \in Procs : Sound(g, job'[g])
    BY <1>0, <1>1, <1>2
  <1> QED
    BY <1>5, <1>6, <1>7

\* A worker or caller asks for the lock of material m, or a save begins.
LEMMA Begins ==
    ASSUME IInv, NEW h \in Procs, NEW j \in Job, job[h].at = "idle", Become(h, j),
           Sound(h, j), j.at # "idle",
           IF j.op = "save" THEN j.at # "lock" /\ UNCHANGED locks
                            ELSE j.at = "lock" /\ Mutex!Request(h, j.mat),
           IF h \in Workers THEN j.mat \in queue /\ queue' = queue \ {j.mat} /\ watch = "wait"
                            ELSE UNCHANGED queue,
           UNCHANGED <<sshVars, watch>>, BoundsOK'
    PROVE  IInv'
  <1> USE DEF IInv, TypeOK, At, Become
  <1>1. job' \in [Procs -> Job] /\ job'[h] = j
    OBVIOUS
  <1>2. \A g \in Procs : g # h => job'[g] = job[g]
    OBVIOUS
  <1>3. /\ \A g \in Procs : LockedAsCalled(g)'
        /\ stage' \in [Procs -> {"out", "waiting", "in"}] /\ on' \in [Procs -> SUBSET Materials]
    <2>1. LockedAsCalled(h)'
      <3>1. CASE j.op = "save"
        BY <1>1, <3>1 DEF LockedAsCalled, locks, Sound
      <3>2. CASE j.op # "save"
        BY <1>1, <3>2 DEF LockedAsCalled, Mutex!Request, Sound
      <3> QED
        BY <3>1, <3>2
    <2>2. \A g \in Procs : g # h => stage'[g] = stage[g] /\ on'[g] = on[g]
      BY DEF locks, Mutex!Request
    <2>3. \A g \in Procs : g # h => LockedAsCalled(g)'
      BY <1>2, <2>2, SameLock
    <2>4. stage' \in [Procs -> {"out", "waiting", "in"}] /\ on' \in [Procs -> SUBSET Materials]
      <3>1. CASE j.op = "save"
        BY <3>1 DEF locks
      <3>2. CASE j.op # "save"
        <4>1. j.mat \in Materials
          BY <3>2 DEF Sound, Job
        <4> QED
          BY <3>2, <4>1 DEF Mutex!Request
      <3> QED
        BY <3>1, <3>2
    <2> QED
      BY <2>1, <2>3, <2>4
  <1>4. SshOK'
    BY DEF SshOK, sshVars
  <1>5. TypeOK'
    BY <1>1, <1>3, <1>4 DEF BoundsOK
  <1>6. OnePollEach'
    <2>1. CASE h \in Workers
      <3>1. \A w \in Workers : w # h => job'[w] = job[w]
        BY <1>2 DEF Procs
      <3>2. watch' = "wait" /\ j.mat \in queue /\ queue' = queue \ {j.mat}
        BY <2>1
      <3>3. \A w \in Workers : job[w].mat # j.mat
        BY <3>2 DEF OnePollEach
      <3> QED
        BY <1>1, <3>1, <3>2, <3>3 DEF OnePollEach
    <2>2. CASE h \notin Workers
      <3>1. \A w \in Workers : job'[w] = job[w]
        BY <1>2, <2>2 DEF Procs
      <3> QED
        BY <2>2, <3>1 DEF OnePollEach
    <2> QED
      BY <2>1, <2>2
  <1>7. \A g \in Procs : Sound(g, job'[g])
    BY <1>1, <1>2
  <1> QED
    BY <1>5, <1>6, <1>7

\* The lock is granted to a goroutine that waits.
LEMMA Enters ==
    ASSUME IInv, NEW h \in Procs, NEW j \in Job, job[h].at = "lock", Become(h, j),
           Sound(h, j), j.at \notin {"idle", "lock"}, j.op = job[h].op, j.mat = job[h].mat,
           Mutex!Enter(h), UNCHANGED <<sshVars, round>>, BoundsOK'
    PROVE  IInv'
  <1> USE DEF IInv, TypeOK, At, Become
  <1>1. job' \in [Procs -> Job] /\ job'[h] = j
    OBVIOUS
  <1>2. \A g \in Procs : g # h => job'[g] = job[g]
    OBVIOUS
  <1>3. /\ \A g \in Procs : LockedAsCalled(g)'
        /\ stage' \in [Procs -> {"out", "waiting", "in"}] /\ on' \in [Procs -> SUBSET Materials]
    <2>1. LockedAsCalled(h)'
      <3>1. stage[h] = "waiting" /\ job[h].op # "save" /\ stage'[h] = "in" /\ on' = on
        BY DEF LockedAsCalled, Mutex!Enter
      <3> QED
        BY <1>1, <3>1 DEF LockedAsCalled
    <2>2. \A g \in Procs : g # h => stage'[g] = stage[g] /\ on'[g] = on[g]
      BY DEF Mutex!Enter
    <2>3. \A g \in Procs : g # h => LockedAsCalled(g)'
      BY <1>2, <2>2, SameLock
    <2>4. stage' \in [Procs -> {"out", "waiting", "in"}] /\ on' \in [Procs -> SUBSET Materials]
      BY DEF Mutex!Enter
    <2> QED
      BY <2>1, <2>3, <2>4
  <1>4. SshOK'
    BY DEF SshOK, sshVars
  <1>5. TypeOK'
    BY <1>1, <1>3, <1>4 DEF BoundsOK, round
  <1>6. OnePollEach'
    <2>1. \A w \in Workers : w \in Procs /\ job'[w].mat = job[w].mat /\ (At(w, "idle") <=> At(w, "idle")')
      BY <1>1, <1>2 DEF Procs
    <2> QED
      BY <2>1 DEF OnePollEach, round
  <1>7. \A g \in Procs : Sound(g, job'[g])
    BY <1>1, <1>2
  <1> QED
    BY <1>5, <1>6, <1>7

-----------------------------------------------------------------------------
(* The steps. *)

\* A step of Watch, a tick of cron among them, moves no handler.
LEMMA WatchSteps ==
    ASSUME IInv, Tick \/ WatchStep
    PROVE  IInv'
  <1> USE DEF IInv, TypeOK
  <1>1. UNCHANGED <<sshVars, locks, job>> /\ BoundsOK'
    BY FaultBounds
       DEF Tick, WatchStep, WatchFails, WatchPanics, Submit, RoundEnds, bounds, BoundsOK
  <1>2. watch' \in {"off", "list", "wait"} /\ queue' \subseteq Materials
    BY DEF Tick, WatchStep, WatchFails, WatchPanics, Submit, RoundEnds
  <1>3. TypeOK'
    <2>1. SshOK'
      BY <1>1 DEF SshOK, sshVars
    <2>2. \A h \in Procs : LockedAsCalled(h)'
      BY <1>1, SameLock DEF locks
    <2> QED
      BY <1>1, <1>2, <2>1, <2>2 DEF locks, BoundsOK
  <1>4. OnePollEach'
    <2>1. CASE Submit
      <3>1. \A w \in Workers : w \in Procs /\ job[w].at = "idle"
        BY <2>1 DEF Submit, OnePollEach, Procs, At
      <3>2. \A w \in Workers : job[w].mat = None
        BY <3>1 DEF Sound
      <3> QED
        BY <1>1, <2>1, <3>2, RoundsAssumption DEF Submit, OnePollEach
    <2>2. CASE ~Submit
      <3>1. /\ queue' = queue
            /\ watch' # "wait" => queue = {} /\ \A w \in Workers : At(w, "idle")
        BY <2>2
           DEF Tick, WatchStep, WatchFails, WatchPanics, RoundEnds, OnePollEach
      <3> QED
        BY <1>1, <3>1 DEF OnePollEach, At
    <2> QED
      BY <2>1, <2>2
  <1> QED
    BY <1>1, <1>3, <1>4

\* A worker takes a poll from the queue.
LEMMA WorkStep ==
    ASSUME IInv, Work
    PROVE  IInv'
  <1> DEFINE w == CHOOSE v \in Workers : At(v, "idle")
             j(m) == [Idle EXCEPT !.op = "poll", !.at = "lock", !.mat = m]
  <1>1. w \in Workers /\ At(w, "idle")
    BY DEF Work
  <1>2. PICK m \in queue : /\ queue' = queue \ {m}
                           /\ Mutex!Request(w, m)
                           /\ Become(w, j(m))
    BY DEF Work
  <1> HIDE DEF w
  <1>3. m \in Materials /\ m # None
    BY RoundsAssumption DEF IInv, TypeOK
  <1>4. j(m) \in Job /\ j(m).op = "poll" /\ j(m).at = "lock" /\ j(m).mat = m
    BY <1>3 DEF Idle, Job
  <1>5. Sound(w, j(m))
    BY <1>3, <1>4 DEF Sound, WithKey
  <1>6. watch = "wait"
    BY DEF IInv, OnePollEach
  <1>7. BoundsOK' /\ UNCHANGED <<sshVars, watch>>
    BY DEF IInv, TypeOK, BoundsOK, Work, bounds
  <1> QED
    BY <1>1, <1>2, <1>4, <1>5, <1>6, <1>7, Begins DEF Procs, At

\* A call comes in.
LEMMA CallStep ==
    ASSUME IInv, NEW h \in Callers, NEW op \in {"poll", "checkout", "release"},
           NEW m \in Materials, Call(h, op, m)
    PROVE  IInv'
  <1> DEFINE j == [Idle EXCEPT !.op = op, !.at = "lock", !.mat = m]
  <1>1. m # None
    BY RoundsAssumption DEF IInv, TypeOK
  <1>2. j \in Job /\ j.op = op /\ j.at = "lock" /\ j.mat = m
    BY <1>1 DEF Idle, Job
  <1>3. Become(h, j) /\ Mutex!Request(h, m) /\ UNCHANGED <<sshVars, round>> /\ At(h, "idle")
    BY DEF Call, Called
  <1> HIDE DEF j
  <1>4. h \in Procs /\ h \notin Workers
    BY RoundsAssumption DEF Procs
  <1>5. Sound(h, j)
    BY <1>1, <1>2, <1>4 DEF Sound, WithKey
  <1>6. BoundsOK'
    BY RoundsAssumption DEF IInv, TypeOK, BoundsOK, Call, Called
  <1> QED
    BY <1>2, <1>3, <1>4, <1>5, <1>6, Begins DEF At, round

\* A save comes in.
LEMMA SaveCallStep ==
    ASSUME IInv, NEW h \in Callers, NEW k \in Keys, SaveCall(h, k)
    PROVE  IInv'
  <1> DEFINE j == [Idle EXCEPT !.op = "save", !.at = "row", !.key = k]
  <1>1. j \in Job /\ j.op = "save" /\ j.at = "row" /\ j.mat = None /\ j.key = k
    BY DEF Idle, Job
  <1>2. Become(h, j) /\ UNCHANGED <<sshVars, locks, round>> /\ At(h, "idle")
    BY DEF SaveCall, Called
  <1> HIDE DEF j
  <1>3. h \in Procs /\ h \notin Workers
    BY RoundsAssumption DEF Procs
  <1>4. Sound(h, j)
    BY <1>1, <1>3 DEF Sound, WithKey
  <1>5. BoundsOK'
    BY RoundsAssumption DEF IInv, TypeOK, BoundsOK, SaveCall, Called
  <1> QED
    BY <1>1, <1>2, <1>3, <1>4, <1>5, Begins DEF At, round

\* What a handler becomes on its way is sound if it keeps call and material, and
\* has the key where it needs it.
LEMMA StaysSound ==
    ASSUME IInv, NEW h \in Procs, NEW j \in Job,
           job[h].at # "idle", j.at # "idle", j.op = job[h].op, j.mat = job[h].mat,
           \/ j.key = job[h].key /\ (j.at \in WithKey => job[h].at \in WithKey)
           \/ j.key \in Keys
    PROVE  Sound(h, j)
  BY DEF IInv, Sound

\* The handler ends, having had the lock before.
LEMMA EndStep ==
    ASSUME IInv, NEW h \in Procs, NEW ok \in BOOLEAN, job[h].at \notin {"idle", "lock"},
           End(h, ok), UNCHANGED <<locks, round>>, SshOK', BoundsOK'
    PROVE  IInv'
  <1> DEFINE j == [job[h] EXCEPT !.at = "end", !.ok = ok]
  <1>1. job[h] \in Job
    BY DEF IInv, TypeOK
  <1>2. j \in Job /\ j.op = job[h].op /\ j.mat = job[h].mat /\ j.at = "end" /\ j.key = job[h].key
    BY <1>1 DEF Job
  <1>3. Become(h, j)
    BY DEF End
  <1> HIDE DEF j
  <1>4. Sound(h, j)
    BY <1>2, StaysSound DEF WithKey
  <1> QED
    BY <1>2, <1>3, <1>4, GoesOn

\* The handler goes to another place, having had the lock before.
LEMMA GotoStep ==
    ASSUME IInv, NEW h \in Procs, job[h].at \notin {"idle", "lock"},
           NEW at \in {"row", "fetch", "hung", "helper", "wipe", "key", "fill", "config", "walk"},
           at = "walk" \/ job[h].at \in WithKey,
           Goto(h, at), UNCHANGED <<locks, round>>, SshOK', BoundsOK'
    PROVE  IInv'
  <1> DEFINE j == [job[h] EXCEPT !.at = at]
  <1>1. job[h] \in Job
    BY DEF IInv, TypeOK
  <1>2. j \in Job /\ j.op = job[h].op /\ j.mat = job[h].mat /\ j.at = at /\ j.key = job[h].key
    BY <1>1 DEF Job
  <1>3. Become(h, j)
    BY DEF Goto
  <1> HIDE DEF j
  <1>4. Sound(h, j)
    BY <1>2, StaysSound DEF WithKey
  <1> QED
    BY <1>2, <1>3, <1>4, GoesOn

\* The lock is granted, and perhaps the material not found.
LEMMA LockStep ==
    ASSUME IInv, NEW h \in Procs, Lock(h) \/ LockFails(h)
    PROVE  IInv'
  <1>1. job[h] \in Job /\ job[h].at = "lock" /\ provider \in Keys
    BY DEF IInv, TypeOK, SshOK, Lock, LockFails, At
  <1>2. Mutex!Enter(h) /\ UNCHANGED <<sshVars, round>>
    BY DEF Lock, LockFails
  <1>3. BoundsOK'
    BY FaultBounds DEF IInv, TypeOK, BoundsOK, Lock, LockFails, bounds
  <1>4. ASSUME NEW j \in Job, Become(h, j), j.op = job[h].op, j.mat = job[h].mat,
               j.at \notin {"idle", "lock"},
               (j.key = job[h].key /\ j.at \notin WithKey) \/ j.key \in Keys
        PROVE  IInv'
    <2>1. Sound(h, j)
      BY <1>1, <1>4, StaysSound
    <2> QED
      BY <1>1, <1>2, <1>3, <1>4, <2>1, Enters
  <1>5. CASE LockFails(h)
    <2> DEFINE j == [job[h] EXCEPT !.at = "end", !.ok = FALSE]
    <2>1. /\ j \in Job /\ Become(h, j) /\ j.op = job[h].op /\ j.mat = job[h].mat
          /\ j.at = "end" /\ j.key = job[h].key
      BY <1>1, <1>5 DEF LockFails, End, Job
    <2> HIDE DEF j
    <2> QED
      BY <1>4, <2>1 DEF WithKey
  <1>6. ASSUME NEW to \in {"fetch", "wipe"}, Become(h, [job[h] EXCEPT !.at = to, !.key = provider])
        PROVE  IInv'
    <2> DEFINE j == [job[h] EXCEPT !.at = to, !.key = provider]
    <2>1. /\ j \in Job /\ j.op = job[h].op /\ j.mat = job[h].mat
          /\ j.at = to /\ j.key = provider
      BY <1>1 DEF Job
    <2>2. Become(h, j)
      BY <1>6
    <2> HIDE DEF j
    <2> QED
      BY <1>1, <1>4, <2>1, <2>2
  <1>7. CASE Lock(h) /\ job[h].op \in {"poll", "checkout"}
    BY <1>6, <1>7 DEF Lock
  <1>8. CASE Lock(h) /\ job[h].op = "release"
    <2> DEFINE j == [job[h] EXCEPT !.at = "walk"]
    <2>1. Become(h, j)
      BY <1>8 DEF Lock, Goto
    <2>2. /\ j \in Job /\ j.op = job[h].op /\ j.mat = job[h].mat
          /\ j.at = "walk" /\ j.key = job[h].key
      BY <1>1 DEF Job
    <2> HIDE DEF j
    <2> QED
      BY <1>4, <2>1, <2>2 DEF WithKey
  <1>9. job[h].op \in {"poll", "checkout", "release"}
    <2>1. job[h].op # "none"
      BY <1>1 DEF IInv, Sound
    <2>2. job[h].op # "save"
      BY <1>1, <1>2 DEF IInv, TypeOK, LockedAsCalled, Mutex!Enter
    <2> QED
      BY <1>1, <2>1, <2>2 DEF Job
  <1> QED
    BY <1>5, <1>7, <1>8, <1>9

\* A fetch has failed: the poll's first leads to the key, others to the end.
LEMMA FailedStep ==
    ASSUME IInv, NEW h \in Procs, job[h].at \in {"fetch", "hung"},
           Failed(h), UNCHANGED <<sshVars, locks, round>>, BoundsOK'
    PROVE  IInv'
  <1>1. SshOK' /\ job[h] \in Job
    BY DEF IInv, TypeOK, SshOK, sshVars
  <1>2. CASE job[h].op = "poll" /\ ~job[h].again
    <2> DEFINE j == [job[h] EXCEPT !.at = "key", !.again = TRUE]
    <2>1. Become(h, j)
      BY <1>2 DEF Failed
    <2>2. /\ j \in Job /\ j.op = job[h].op /\ j.mat = job[h].mat
          /\ j.at = "key" /\ j.key = job[h].key
      BY <1>1 DEF Job
    <2> HIDE DEF j
    <2>3. Sound(h, j)
      BY <2>2, StaysSound DEF WithKey
    <2> QED
      BY <1>1, <2>1, <2>2, <2>3, GoesOn
  <1>3. CASE ~(job[h].op = "poll" /\ ~job[h].again)
    BY <1>1, <1>3, EndStep DEF Failed
  <1> QED
    BY <1>2, <1>3

\* Git: the fetch ends, fails, hangs or is killed.
LEMMA FetchSteps ==
    ASSUME IInv, NEW h \in Procs, Fetch(h) \/ FetchFails(h) \/ Hang(h) \/ Expire(h)
    PROVE  IInv'
  <1>1. job[h].at \in {"fetch", "hung"} /\ UNCHANGED <<sshVars, locks, round>>
    BY DEF Fetch, FetchFails, Hang, Expire, At
  <1>2. SshOK'
    BY <1>1 DEF IInv, TypeOK, SshOK, sshVars
  <1>3. BoundsOK'
    BY FaultBounds DEF IInv, TypeOK, BoundsOK, Fetch, FetchFails, Hang, Expire, bounds
  <1>4. CASE Fetch(h) /\ LogsIn(job[h].mat)
    BY <1>1, <1>2, <1>3, <1>4, EndStep DEF Fetch
  <1>5. CASE Hang(h)
    <2>1. PICK to \in {"hung", "helper"} : Goto(h, to)
      BY <1>5 DEF Hang
    <2>2. job[h].at \in WithKey
      BY <1>1 DEF WithKey
    <2> QED
      BY <1>1, <1>2, <1>3, <2>1, <2>2, GotoStep
  <1>6. CASE (Fetch(h) /\ ~LogsIn(job[h].mat)) \/ FetchFails(h) \/ Expire(h)
    <2>1. Failed(h)
      BY <1>6 DEF Fetch, FetchFails, Expire
    <2> QED
      BY <1>1, <1>3, <2>1, FailedStep
  <1> QED
    BY <1>4, <1>5, <1>6

\* The steps that write the provider's row, its key file or a repository's
\* configuration.
LEMMA KeySteps ==
    ASSUME IInv, NEW h \in Procs,
           SaveRow(h) \/ Wipe(h) \/ OpenKey(h) \/ FillKey(h) \/ Configure(h)
    PROVE  IInv'
  <1>1. /\ job[h].at \in {"row", "wipe", "key", "fill", "config"}
        /\ UNCHANGED <<locks, checkedOut, round, bounds>>
    BY DEF SaveRow, Wipe, OpenKey, FillKey, Configure, At
  <1>2. job[h].at \in WithKey /\ job[h].key \in Keys /\ job[h].at \notin {"idle", "lock"}
    BY <1>1 DEF IInv, Sound, WithKey
  <1>3. BoundsOK'
    BY <1>1 DEF IInv, TypeOK, BoundsOK, bounds
  <1>4. SshOK
    BY DEF IInv, TypeOK
  <1>5. SshOK'
    <2>1. CASE SaveRow(h)
      BY <1>2, <1>4, <2>1 DEF SaveRow, UpdateProvider, SshOK
    <2>2. CASE Wipe(h)
      BY <1>4, <2>2 DEF Wipe, RemoveRepository, SshOK
    <2>3. CASE OpenKey(h)
      BY <1>4, <2>3 DEF OpenKey, GetOrCreateKeyFile, OpenKeyFile, SshOK
    <2>4. CASE FillKey(h)
      BY <1>2, <1>4, <2>4 DEF FillKey, FillKeyFile, SshOK
    <2>5. CASE Configure(h)
      BY <1>4, <2>5 DEF Configure, ConfigureSshCommand, SshOK
    <2> QED
      BY <2>1, <2>2, <2>3, <2>4, <2>5
  <1>6. CASE End(h, TRUE)
    BY <1>1, <1>2, <1>3, <1>5, <1>6, EndStep
  <1>7. CASE ~End(h, TRUE)
    <2>1. PICK to \in {"key", "fill", "config", "fetch"} : Goto(h, to)
      BY <1>7 DEF SaveRow, Wipe, OpenKey, GetOrCreateKeyFile, FillKey, Configure
    <2> QED
      BY <1>1, <1>2, <1>3, <1>5, <2>1, GotoStep
  <1> QED
    BY <1>6, <1>7

\* The other ways a handler comes to its end.
LEMMA EndSteps ==
    ASSUME IInv, NEW h \in Procs,
           SaveRowFails(h) \/ FillFails(h) \/ WalkDone(h) \/ WalkExpires(h)
    PROVE  IInv'
  <1>1. job[h].at \in {"row", "fill", "walk"} /\ UNCHANGED <<sshVars, locks, round>>
    BY DEF SaveRowFails, FillFails, WalkDone, WalkExpires, At
  <1>2. \E ok \in BOOLEAN : End(h, ok)
    BY DEF SaveRowFails, FillFails, WalkDone, WalkExpires
  <1>3. SshOK'
    BY <1>1 DEF IInv, TypeOK, SshOK, sshVars
  <1>4. BoundsOK'
    BY FaultBounds
       DEF IInv, TypeOK, BoundsOK, SaveRowFails, FillFails, WalkDone, WalkExpires, bounds
  <1> QED
    BY <1>1, <1>2, <1>3, <1>4, EndStep

\* A handler returns, or its poll panics.
LEMMA ReturnSteps ==
    ASSUME IInv, NEW h \in Procs, Return(h) \/ ReturnUnsaved(h) \/ PollPanics(h)
    PROVE  IInv'
  <1>1. /\ job[h].at \in {"end", "fetch"} /\ Become(h, Idle)
        /\ UNCHANGED <<sshVars, round>>
    BY DEF Return, ReturnUnsaved, Leave, PollPanics, At
  <1>2. BoundsOK'
    <2>1. CASE Return(h)
      <3>1. job[h].mat \in Materials \cup {None} /\ (job[h].mat = None => job[h].op = "save")
        BY <1>1 DEF IInv, TypeOK, Job, Sound
      <3> QED
        BY <2>1, <3>1 DEF IInv, TypeOK, BoundsOK, Return, Status, bounds
    <2>2. CASE ReturnUnsaved(h) \/ PollPanics(h)
      BY <2>2, FaultBounds DEF ReturnUnsaved, PollPanics
    <2> QED
      BY <2>1, <2>2
  <1>3. IF job[h].op = "save" THEN UNCHANGED locks ELSE Mutex!Leave(h)
    <2>1. CASE Return(h) \/ ReturnUnsaved(h)
      BY <2>1 DEF Return, ReturnUnsaved, Leave
    <2>2. CASE PollPanics(h)
      BY <2>2 DEF PollPanics, IInv, Sound
    <2> QED
      BY <2>1, <2>2
  <1> QED
    BY <1>1, <1>2, <1>3, Leaves

\* The key file is lost, or the process restarts.
LEMMA FaultSteps ==
    ASSUME IInv, KeyFlushed \/ Crash
    PROVE  IInv'
  <1>1. BoundsOK'
    BY FaultBounds DEF KeyFlushed, Crash
  <1>2. SshOK'
    BY DEF IInv, TypeOK, SshOK, KeyFlushed, Flush, Crash, sshVars
  <1>3. CASE KeyFlushed
    <2>1. UNCHANGED <<locks, round, job>>
      BY <1>3 DEF KeyFlushed
    <2>2. \A h \in Procs : LockedAsCalled(h)'
      BY <2>1, SameLock DEF IInv, TypeOK, locks
    <2> QED
      BY <1>1, <1>2, <2>1, <2>2
         DEF IInv, TypeOK, OnePollEach, At, BoundsOK, locks, round
  <1>4. CASE Crash
    <2>1. \A h \in Procs : job'[h] = Idle /\ stage'[h] = "out" /\ on'[h] = {}
      BY <1>4 DEF Crash
    <2>2. Idle \in Job /\ \A h \in Procs : Sound(h, Idle)
      BY RoundsAssumption DEF Idle, Job, Sound, WithKey
    <2>3. \A h \in Procs : job'[h].op = "none" /\ job'[h].at = "idle" /\ job'[h].mat = None
      BY <2>1 DEF Idle
    <2>4. \A h \in Procs : LockedAsCalled(h)'
      BY <2>1, <2>3 DEF LockedAsCalled, At
    <2>5. TypeOK'
      BY <1>1, <1>2, <1>4, <2>2, <2>4 DEF Crash, TypeOK, BoundsOK
    <2>6. OnePollEach'
      BY <1>4, <2>3 DEF Crash, OnePollEach, At, Procs
    <2> QED
      BY <2>1, <2>2, <2>5, <2>6 DEF IInv
  <1> QED
    BY <1>3, <1>4

LEMMA NextIInv == IInv /\ [Next]_vars => IInv'
  <1> SUFFICES ASSUME IInv, [Next]_vars PROVE IInv'
    OBVIOUS
  <1>1. CASE UNCHANGED vars
    <2>1. UNCHANGED <<sshVars, locks, checkedOut, round, job, happened, calls>>
      BY <1>1 DEF vars, bounds
    <2>2. \A h \in Procs : LockedAsCalled(h)'
      BY <2>1, SameLock DEF IInv, TypeOK, locks
    <2> QED
      BY <2>1, <2>2 DEF IInv, TypeOK, SshOK, OnePollEach, At, sshVars, locks, round
  <1>2. ASSUME NEW h \in Procs, Lock(h) \/ Progress(h) \/ Hang(h) \/ WalkDone(h) \/ PollPanics(h)
        PROVE  IInv'
    BY <1>2, LockStep, FetchSteps, KeySteps, EndSteps, ReturnSteps DEF Progress
  <1> QED
    BY <1>1, <1>2, WatchSteps, WorkStep, CallStep, SaveCallStep, FaultSteps DEF Next

-----------------------------------------------------------------------------
(* The theorems. *)

\* The inductive invariant holds always.
THEOREM RoundsInvariant == SafeSpec => []IInv
  BY InitIInv, NextIInv, PTL DEF SafeSpec

\* The state is well formed, and a handler has the lock of its material from
\* its first step to its return, also if it fails, panics or is cut short.
THEOREM TypeCorrect == Spec => []TypeOK
  <1>1. IInv => TypeOK
    BY DEF IInv
  <1> QED
    BY <1>1, RoundsInvariant, PTL DEF Spec

\* Cron never has two polls of a material at once, for any number of workers:
\* SkipIfStillRunning and StopWait keep the rounds apart.
THEOREM OnePollEachAlways == Spec => []OnePollEach
  <1>1. IInv => OnePollEach
    BY DEF IInv
  <1> QED
    BY <1>1, RoundsInvariant, PTL DEF Spec

-----------------------------------------------------------------------------
(* The lock. *)

\* Two goroutines in the critical section of one material are one.
OneIn ==
    \A g, h \in Procs :
        stage[g] = "in" /\ stage[h] = "in" /\ on[g] \cap on[h] # {} => g = h

\* What handlers do with the locks are steps of MaterialMutex, unless the
\* process dies.
LEMMA LocksAreMutex ==
    ASSUME IInv, [Next]_vars
    PROVE  [Mutex!Next]_<<stage, on>> \/ \A h \in Procs : stage'[h] = "out"
  <1> SUFFICES ASSUME ~UNCHANGED <<stage, on>>, ~Crash PROVE Mutex!Next
    BY DEF Crash
  <1>1. CASE Work
    BY <1>1 DEF Work, Mutex!Next, Procs, IInv, TypeOK
  <1>2. ASSUME NEW h \in Callers, NEW op, NEW m \in Materials, Call(h, op, m) PROVE Mutex!Next
    BY <1>2 DEF Call, Mutex!Next, Procs
  <1>3. ASSUME NEW h \in Procs,
               Lock(h) \/ LockFails(h) \/ Return(h) \/ ReturnUnsaved(h) \/ PollPanics(h)
        PROVE  Mutex!Next
    BY <1>3 DEF Lock, LockFails, Return, ReturnUnsaved, Leave, PollPanics, Mutex!Next, locks
  <1>4. ASSUME NEW h \in Procs, Progress(h) \/ Hang(h) \/ WalkDone(h),
               ~LockFails(h), ~Return(h), ~ReturnUnsaved(h)
        PROVE  UNCHANGED locks
    BY <1>4 DEF Progress, SaveRow, SaveRowFails, Fetch, FetchFails, Expire, Wipe, OpenKey,
                FillKey, FillFails, Configure, WalkExpires, Hang, WalkDone
  <1>5. ASSUME NEW h, NEW k, SaveCall(h, k) PROVE UNCHANGED locks
    BY <1>5 DEF SaveCall
  <1>6. ASSUME Tick \/ WatchStep \/ KeyFlushed \/ UNCHANGED vars PROVE UNCHANGED locks
    BY <1>6 DEF Tick, WatchStep, WatchFails, WatchPanics, Submit, RoundEnds, KeyFlushed, vars
  <1> QED
    BY <1>1, <1>2, <1>3, <1>4, <1>5, <1>6 DEF Next, locks

\* No two goroutines ever work in the repository of one material.
THEOREM OneInAlways == Spec => []OneIn
  <1>1. Init => OneIn
    BY DEF Init, Mutex!Init, OneIn
  <1>2. IInv /\ OneIn /\ [Next]_vars => OneIn'
    <2> SUFFICES ASSUME IInv, OneIn, [Next]_vars PROVE OneIn'
      OBVIOUS
    <2>1. stage \in [Procs -> {"out", "waiting", "in"}] /\ on \in [Procs -> SUBSET Materials]
      BY DEF IInv, TypeOK
    <2>2. CASE UNCHANGED <<stage, on>>
      BY <2>2 DEF OneIn
    <2>3. CASE \A h \in Procs : stage'[h] = "out"
      BY <2>3 DEF OneIn
    <2>4. ASSUME NEW p \in Procs, NEW m \in Materials, Mutex!Request(p, m) PROVE OneIn'
      BY <2>1, <2>4 DEF OneIn, Mutex!Request
    <2>5. ASSUME NEW p \in Procs, Mutex!Enter(p) PROVE OneIn'
      BY <2>1, <2>5 DEF OneIn, Mutex!Enter, Mutex!Free
    <2>6. ASSUME NEW p \in Procs, Mutex!Leave(p) PROVE OneIn'
      BY <2>1, <2>6 DEF OneIn, Mutex!Leave
    <2> QED
      BY <2>2, <2>3, <2>4, <2>5, <2>6, LocksAreMutex DEF Mutex!Next
  <1> QED
    BY <1>1, <1>2, RoundsInvariant, PTL DEF Spec, SafeSpec

=============================================================================
