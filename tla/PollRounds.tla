----------------------------- MODULE PollRounds -----------------------------
(***************************************************************************)
(* The rounds of polls: cron starts Watch every few minutes, but not while *)
(* the last one runs; Watch hands one poll per material to a pool of       *)
(* workers and waits for all of them.  RPCs run beside it, take the same   *)
(* locks, and write the same ssh key file (module SshKeys) as the polls.   *)
(* A git command may hang; a deadline, if there is one, kills it.          *)
(*                                                                         *)
(* What a poll does between fetch and return is module GitWatcher; its     *)
(* fairness, that polls of a checked out material come again and again and *)
(* end, is what EveryMaterialPolled shows here.  Every material has a      *)
(* pipeline that follows it, and none is deleted (MaterialCheckout).       *)
(***************************************************************************)
EXTENDS SshKeys, Naturals, FiniteSets

CONSTANTS
    Workers,     \* the pool's workers: POLL_WORKER of them
    Callers,     \* goroutines of RPCs
    None,        \* no material, no key
    Deadline,    \* CLI_CMD_TIMEOUT_GLOBAL_SECONDS > 0
    Calls,       \* RPCs that happen: subset of {"poll", "checkout", "release", "save"}
    Faults,      \* what may go wrong, each at most once: subset of FaultKinds
    MaxFails,    \* bound: faults
    MaxCalls     \* bound: RPCs

Procs == Workers \cup Callers

\* fetch: git fetch fails.  hang: it does not end.  helper: nor do its children,
\* which keep its output open.  db: a query fails.  disk: the key cannot be
\* written.  flush: the key file is gone.  panic: in Watch or in a poll.  crash: the
\* process dies and starts again.
FaultKinds == {"fetch", "hang", "helper", "db", "disk", "flush", "panic", "crash"}

ASSUME RoundsAssumption ==
    /\ Workers \cap Callers = {}
    /\ None \notin Materials \cup Keys
    /\ Deadline \in BOOLEAN
    /\ Calls \subseteq {"poll", "checkout", "release", "save"}
    /\ Faults \subseteq FaultKinds
    /\ MaxFails \in Nat /\ MaxCalls \in Nat

VARIABLES
    stage, on,   \* the materials' locks, see MaterialMutex
    watch,       \* Watch: "off", "list", "wait" for the pool
    checkedOut,  \* materials with CheckoutStatus, which is all FindActive lists
    queue,       \* materials whose polls wait for a worker
    job,         \* local variables of each goroutine
    happened,    \* kinds of faults so far
    calls        \* RPCs so far

locks == <<stage, on>>
round == <<watch, queue>>
bounds == <<happened, calls>>
vars == <<sshVars, locks, checkedOut, round, job, bounds>>

Mutex == INSTANCE MaterialMutex WITH Procs <- Procs, Ids <- Materials

-----------------------------------------------------------------------------

\* mat: the material.  key: the provider's key as the goroutine read it.
\* again: whether the fetch is the repeated one.  ok: how it ends.
Idle == [op |-> "none", at |-> "idle", mat |-> None, key |-> None, again |-> FALSE, ok |-> FALSE]

Job == [op: {"none", "poll", "checkout", "release", "save"},
        at: {"idle", "lock", "fetch", "hung", "helper", "wipe", "key", "fill", "config",
             "walk", "row", "end"},
        mat: Materials \cup {None}, key: Keys \cup {None}, again: BOOLEAN, ok: BOOLEAN]

Become(h, j) == job' = [job EXCEPT ![h] = j]
Goto(h, at) == Become(h, [job[h] EXCEPT !.at = at])
End(h, ok) == Become(h, [job[h] EXCEPT !.at = "end", !.ok = ok])

At(h, at) == job[h].at = at

Fault(kind) ==
    /\ kind \in Faults \ happened
    /\ Cardinality(happened) < MaxFails
    /\ happened' = happened \cup {kind}
    /\ UNCHANGED calls

Init ==
    /\ SshInit
    /\ Mutex!Init
    /\ checkedOut \in SUBSET Materials
    /\ watch = "off" /\ queue = {}
    /\ job = [h \in Procs |-> Idle]
    /\ happened = {} /\ calls = 0

-----------------------------------------------------------------------------
(* Watch. *)

\* The cron entry fires and SkipIfStillRunning lets it through.
Tick ==
    /\ watch = "off"
    /\ watch' = "list"
    /\ UNCHANGED <<sshVars, locks, checkedOut, queue, job, bounds>>

\* FindActive fails and Watch returns.
WatchFails ==
    /\ watch = "list" /\ Fault("db")
    /\ watch' = "off"
    /\ UNCHANGED <<sshVars, locks, checkedOut, queue, job>>

\* Broken variant of WatchPanics: Recover outside of SkipIfStillRunning, which
\* then never gets its token back.
PanicSkipsForEver ==
    /\ watch = "list" /\ Fault("panic")
    /\ watch' = "skipped"
    /\ UNCHANGED <<sshVars, locks, checkedOut, queue, job>>

\* Watch panics.  cron.Recover is inside of SkipIfStillRunning.
WatchPanics ==
    /\ watch = "list" /\ Fault("panic")
    /\ watch' = "off"
    /\ UNCHANGED <<sshVars, locks, checkedOut, queue, job>>

\* FindActive, and RunOnWorker submits a poll of each material it lists.
Submit ==
    /\ watch = "list"
    /\ watch' = "wait" /\ queue' = checkedOut
    /\ UNCHANGED <<sshVars, locks, checkedOut, job, bounds>>

\* Broken variant of RoundEnds: it waits for the queue only.
RoundEndsEarly ==
    /\ watch = "wait" /\ queue = {}
    /\ watch' = "off"
    /\ UNCHANGED <<sshVars, locks, checkedOut, queue, job, bounds>>

\* StopWait returns when nothing is queued and no worker is at work.
RoundEnds ==
    /\ watch = "wait" /\ queue = {} /\ \A w \in Workers : At(w, "idle")
    /\ watch' = "off"
    /\ UNCHANGED <<sshVars, locks, checkedOut, queue, job, bounds>>

\* A worker that is ready, one is as good as another, gets a poll and asks for
\* the material's lock.
Work ==
    /\ \E w \in Workers : At(w, "idle")
    /\ LET w == CHOOSE v \in Workers : At(v, "idle")
       IN \E m \in queue :
             /\ queue' = queue \ {m}
             /\ Mutex!Request(w, m)
             /\ Become(w, [Idle EXCEPT !.op = "poll", !.at = "lock", !.mat = m])
    /\ UNCHANGED <<sshVars, checkedOut, watch, bounds>>

-----------------------------------------------------------------------------
(* RPCs: RefreshGitMaterial ("poll"), ResetRepo and the like ("checkout"),  *)
(* GetReleaseChanges ("release"), SaveGitProvider ("save").                 *)

Called(h, op) ==
    /\ h \in Callers /\ At(h, "idle") /\ op \in Calls
    /\ calls < MaxCalls
    /\ calls' = calls + 1
    /\ UNCHANGED happened

\* GetReleaseChanges refuses a material that is not checked out.
Call(h, op, m) ==
    /\ op # "save" /\ Called(h, op)
    /\ op = "release" => m \in checkedOut
    /\ Mutex!Request(h, m)
    /\ Become(h, [Idle EXCEPT !.op = op, !.at = "lock", !.mat = m])
    /\ UNCHANGED <<sshVars, checkedOut, round>>

SaveCall(h, k) ==
    /\ Called(h, "save")
    /\ Become(h, [Idle EXCEPT !.op = "save", !.at = "row", !.key = k])
    /\ UNCHANGED <<sshVars, locks, checkedOut, round>>

\* The provider exists, as its materials do: its row is updated.
SaveRow(h) ==
    /\ At(h, "row")
    /\ UpdateProvider(job[h].key)
    /\ Goto(h, "key")
    /\ UNCHANGED <<locks, checkedOut, round, bounds>>

SaveRowFails(h) ==
    /\ At(h, "row") /\ Fault("db")
    /\ End(h, FALSE)
    /\ UNCHANGED <<sshVars, locks, checkedOut, round>>

-----------------------------------------------------------------------------
(* With the lock. *)

\* The lock is granted.  A poll and a checkout read the provider only now.
Lock(h) ==
    /\ At(h, "lock")
    /\ Mutex!Enter(h)
    /\ CASE job[h].op = "poll"     -> Become(h, [job[h] EXCEPT !.at = "fetch", !.key = provider])
         [] job[h].op = "checkout" -> Become(h, [job[h] EXCEPT !.at = "wipe", !.key = provider])
         [] job[h].op = "release"  -> Goto(h, "walk")
    /\ UNCHANGED <<sshVars, checkedOut, round, bounds>>

\* FindById of the poll fails, or GetById of the checkout.
LockFails(h) ==
    /\ At(h, "lock") /\ job[h].op \in {"poll", "checkout"} /\ Fault("db")
    /\ Mutex!Enter(h)
    /\ End(h, FALSE)
    /\ UNCHANGED <<sshVars, checkedOut, round>>

\* Where a failed fetch leads: a poll writes the key and fetches once more, a
\* checkout gives up.
Failed(h) ==
    IF job[h].op = "poll" /\ ~job[h].again
    THEN Become(h, [job[h] EXCEPT !.at = "key", !.again = TRUE])
    ELSE End(h, FALSE)

\* git fetch ends.
Fetch(h) ==
    /\ At(h, "fetch")
    /\ IF LogsIn(job[h].mat) THEN End(h, TRUE) ELSE Failed(h)
    /\ UNCHANGED <<sshVars, locks, checkedOut, round, bounds>>

FetchFails(h) ==
    /\ At(h, "fetch") /\ Fault("fetch")
    /\ Failed(h)
    /\ UNCHANGED <<sshVars, locks, checkedOut, round>>

\* It does not end.
Hang(h) ==
    /\ At(h, "fetch")
    /\ \E kind \in {"hang", "helper"} :
          Fault(kind) /\ Goto(h, IF kind = "hang" THEN "hung" ELSE "helper")
    /\ UNCHANGED <<sshVars, locks, checkedOut, round>>

\* The command's context expires: git is killed, and CombinedOutput returns.  It
\* does not if a child of git has the output open.
Expire(h) ==
    /\ Deadline /\ At(h, "hung")
    /\ Failed(h)
    /\ UNCHANGED <<sshVars, locks, checkedOut, round, bounds>>

\* InitRepoAndGetSshPrivateKeyPath: RemoveAll and init.
Wipe(h) ==
    /\ At(h, "wipe")
    /\ RemoveRepository(job[h].mat)
    /\ Goto(h, "key")
    /\ UNCHANGED <<locks, checkedOut, round, bounds>>

\* CreateOrUpdateSshPrivateKeyOnDisk of a save,
\* CreateSshFileIfNotExistsAndConfigureSshCommand of a poll or checkout.
OpenKey(h) ==
    /\ At(h, "key")
    /\ IF job[h].op = "save" THEN OpenKeyFile /\ Goto(h, "fill")
       ELSE GetOrCreateKeyFile(Goto(h, "config"), Goto(h, "fill"))
    /\ UNCHANGED <<locks, checkedOut, round, bounds>>

FillKey(h) ==
    /\ At(h, "fill")
    /\ FillKeyFile(job[h].key)
    /\ IF job[h].op = "save" THEN End(h, TRUE) ELSE Goto(h, "config")
    /\ UNCHANGED <<locks, checkedOut, round, bounds>>

\* WriteFile fails after it has truncated the file.
FillFails(h) ==
    /\ At(h, "fill") /\ Fault("disk")
    /\ End(h, FALSE)
    /\ UNCHANGED <<sshVars, locks, checkedOut, round>>

Configure(h) ==
    /\ At(h, "config")
    /\ ConfigureSshCommand(job[h].mat)
    /\ Goto(h, "fetch")
    /\ UNCHANGED <<locks, checkedOut, round, bounds>>

\* RunWithTimeout: go-git walks the history in a goroutine of its own, which may
\* be done in time.
WalkDone(h) ==
    /\ At(h, "walk")
    /\ End(h, TRUE)
    /\ UNCHANGED <<sshVars, locks, checkedOut, round, bounds>>

\* Broken variant of WalkExpires: RunWithTimeout does not look at the context.
WalkUnlimited(h) == At(h, "walk") /\ UNCHANGED vars

\* The context is done first: the handler returns an error, and the goroutine is
\* left behind, to walk on and then to wait for ever for a receiver.
WalkExpires(h) ==
    /\ At(h, "walk")
    /\ End(h, FALSE)
    /\ UNCHANGED <<sshVars, locks, checkedOut, round, bounds>>

\* What a handler that ends leaves as CheckoutStatus, if it has read its rows: a
\* checkout, whether it was one; a poll, that it is checked out if it fetched.
Status(h) ==
    IF job[h].op \notin {"poll", "checkout"} \/ job[h].key = None THEN checkedOut
    ELSE IF job[h].ok THEN checkedOut \cup {job[h].mat}
    ELSE IF job[h].op = "checkout" THEN checkedOut \ {job[h].mat}
    ELSE checkedOut

\* The deferred unlock.
Leave(h) ==
    /\ At(h, "end")
    /\ Become(h, Idle)
    /\ IF job[h].op = "save" THEN UNCHANGED locks ELSE Mutex!Leave(h)

\* Broken variant of Return: the lock is kept if the handler failed.
ReturnOkOnly(h) ==
    /\ At(h, "end")
    /\ Become(h, Idle)
    /\ IF job[h].op = "save" \/ ~job[h].ok THEN UNCHANGED locks ELSE Mutex!Leave(h)
    /\ checkedOut' = Status(h)
    /\ UNCHANGED <<sshVars, round, bounds>>

\* The material's row is written, and the handler returns.
Return(h) ==
    /\ Leave(h)
    /\ checkedOut' = Status(h)
    /\ UNCHANGED <<sshVars, round, bounds>>

\* The row is not written.
ReturnUnsaved(h) ==
    /\ Leave(h) /\ job[h].op \in {"poll", "checkout"} /\ Fault("db")
    /\ UNCHANGED <<sshVars, checkedOut, round>>

\* A poll of a worker panics: the deferred unlock runs, and handlePanic.
PollPanics(h) ==
    /\ h \in Workers /\ At(h, "fetch") /\ Fault("panic")
    /\ Become(h, Idle)
    /\ Mutex!Leave(h)
    /\ UNCHANGED <<sshVars, checkedOut, round>>

-----------------------------------------------------------------------------

KeyFlushed ==
    /\ Fault("flush") /\ Flush
    /\ UNCHANGED <<locks, checkedOut, round, job>>

\* The process dies and starts again; rows and files stay.
Crash ==
    /\ Fault("crash")
    /\ stage' = [h \in Procs |-> "out"]
    /\ on' = [h \in Procs |-> {}]
    /\ watch' = "off" /\ queue' = {}
    /\ job' = [h \in Procs |-> Idle]
    /\ UNCHANGED <<sshVars, checkedOut>>

WatchStep == WatchFails \/ WatchPanics \/ Submit \/ RoundEnds

\* What a goroutine does next; whether go-git's walk ends is not up to it.
Progress(h) ==
    \/ SaveRow(h) \/ SaveRowFails(h)
    \/ LockFails(h)
    \/ Fetch(h) \/ FetchFails(h) \/ Expire(h)
    \/ Wipe(h) \/ OpenKey(h) \/ FillKey(h) \/ FillFails(h) \/ Configure(h)
    \/ WalkExpires(h)
    \/ Return(h) \/ ReturnUnsaved(h)

Next ==
    \/ Tick \/ WatchStep \/ Work
    \/ \E h \in Callers :
          \/ \E op \in {"poll", "checkout", "release"}, m \in Materials : Call(h, op, m)
          \/ \E k \in Keys : SaveCall(h, k)
    \/ \E h \in Procs : Lock(h) \/ Progress(h) \/ Hang(h) \/ WalkDone(h) \/ PollPanics(h)
    \/ KeyFlushed \/ Crash

SafeSpec == Init /\ [][Next]_vars

\* Cron fires again and again; the pool hands out polls; a goroutine that can go
\* on does, and gets a lock that is free again and again (sync.Mutex is fair).
Fairness ==
    /\ WF_vars(Tick) /\ WF_vars(WatchStep) /\ WF_vars(Work)
    /\ \A h \in Procs : SF_vars(Lock(h)) /\ WF_vars(Progress(h))

Spec == SafeSpec /\ Fairness

-----------------------------------------------------------------------------
(* Properties. *)

\* A goroutine has the lock of its material from its first step to its return.
LockedAsCalled(h) ==
    /\ stage[h] = IF job[h].op = "save" \/ At(h, "idle") THEN "out"
                  ELSE IF At(h, "lock") THEN "waiting" ELSE "in"
    /\ on[h] = IF job[h].mat = None THEN {} ELSE {job[h].mat}

\* The state is well formed, and the handlers keep the lock discipline.
TypeOK ==
    /\ SshOK
    /\ checkedOut \subseteq Materials
    /\ watch \in {"off", "list", "wait"} /\ queue \subseteq Materials
    /\ job \in [Procs -> Job]
    /\ stage \in [Procs -> {"out", "waiting", "in"}] /\ on \in [Procs -> SUBSET Materials]
    /\ \A h \in Procs : LockedAsCalled(h)
    /\ happened \subseteq Faults /\ calls \in 0..MaxCalls

\* Cron never has two polls of a material at once, one queued or waiting while
\* the other runs: rounds do not overlap, however slow the polls are
\* (SkipIfStillRunning, Watcher.go:77, and StopWait, Watcher.go:151).
OnePollEach ==
    /\ watch # "wait" => queue = {} /\ \A w \in Workers : At(w, "idle")
    /\ \A w \in Workers :
          /\ job[w].mat \notin queue
          /\ \A v \in Workers \ {w} : job[w].mat = job[v].mat => job[w].mat = None

\* A git command that never ends: it has no deadline, or it was killed and a
\* child keeps its output open.
Stuck == \E h \in Procs : At(h, "helper") \/ (At(h, "hung") /\ ~Deadline)

\* Every material that stays checked out is polled again and again, whatever
\* other handlers do, also after a panic or failing query in Watch or a poll and
\* after a restart.  (A checkout that fails ends the polls of its material until
\* somebody checks it out or refreshes it: FindActive, GitMaterial.go:92.)  One
\* stuck command ends that for all materials: its poll ends no round, and cron
\* skips all others.
EveryMaterialPolled ==
    []~Stuck => \A m \in Materials :
        <>[](m \in checkedOut) => []<>(\E w \in Workers : job[w].mat = m /\ At(w, "end"))

\* Every RPC is answered, however long go-git walks and whoever has the lock
\* (RunWithTimeout, GitContextUtils.go:69).
EveryCallReturns ==
    []~Stuck => \A h \in Callers : [](~At(h, "idle") => <>At(h, "idle"))

\* Once saves have stopped with the right key in the row, polls succeed for good:
\* also if two saves left another key in the file, one was cut short, handlers
\* wrote keys they had read before, or the file was lost ("creating and single
\* retrying in this case", Watcher.go:198).
KeyHeals ==
    []~Stuck /\ <>[](provider = Good /\ \A h \in Callers : job[h].op # "save") =>
        <>[](\A w \in Workers : At(w, "end") => job[w].ok)

=============================================================================
