----------------------------- MODULE GitWatcher -----------------------------
(***************************************************************************)
(* One git material and the ci_pipeline_material rows that follow its      *)
(* branches: how new commits get from the remote into refs/remotes/origin, *)
(* into LastSeenHash and CommitHistory, and onto NEW_CI_MATERIAL_TOPIC.    *)
(*                                                                         *)
(* The handlers are the poll of the watcher (cron, RefreshGitMaterial and  *)
(* GetCommitInfoForTag), GetLatestCommitForBranch, a checkout (ResetRepo,  *)
(* ReloadAll), all under the material's lock, and SavePipelineMaterial,    *)
(* which takes no lock.  A crash loses the handlers and the lock; rows,    *)
(* refs and published messages stay.                                       *)
(*                                                                         *)
(* Commits are numbers, 0 is "no hash" or "no ref".  Histories are linear  *)
(* (every commit has at most one parent), pipelines are of type            *)
(* BRANCH_FIXED, the others are skipped by the poll.                       *)
(***************************************************************************)
EXTENDS Integers, Sequences, FiniteSets

CONSTANTS
    Handlers,      \* goroutines
    Cron,          \* the one of them that only runs the polls of Watch
    Pipelines,     \* ci_pipeline_material ids
    Branches,      \* branch names
    Absent,        \* no row, and none to write
    Ops,           \* operations that happen: subset of {"poll", "latest", "checkout", "save"}
    UseGitCli,     \* Configuration.UseGitCli: GitCliManager, else GoGitSDKManager
    HistoryCount,  \* Configuration.GitHistoryCount
    FirstCommits,  \* commits of every branch before the first step
    MaxCommits,    \* bound: commits ever made
    Faults,        \* what may go wrong: subset of FaultKinds
    Ssh,           \* GitProvider.AuthMode = SSH: the poll retries a fetch once
    Excluded,      \* commits the material's FilterPattern excludes
    MaxForced,     \* bound: forced pushes
    MaxFails,      \* bound: faults
    MaxCrashes     \* bound: restarts of the process

Commits == 1..MaxCommits

\* fetch: git fetch fails and moves no ref.  partial: it fails, having moved
\* some.  publish: a message is not published.  db: a query fails.  context:
\* the caller of an RPC goes away.
FaultKinds == {"fetch", "partial", "publish", "db", "context"}

ASSUME WatcherAssumption ==
    /\ Cron \in Handlers
    /\ HistoryCount \in Nat \ {0}
    /\ MaxCommits \in Nat /\ FirstCommits \in 1..MaxCommits
    /\ Ops \subseteq {"poll", "latest", "checkout", "save"}
    /\ Excluded \subseteq Commits
    /\ {UseGitCli, Ssh} \subseteq BOOLEAN
    /\ Faults \subseteq FaultKinds
    /\ MaxForced \in Nat /\ MaxFails \in Nat /\ MaxCrashes \in Nat

VARIABLES
    stage, on,     \* the material's lock, see MaterialMutex
    made,          \* the commits made so far are 1..made
    log,           \* each of them and its ancestors, newest first
    remote,        \* branch heads at the remote
    refs,          \* refs/remotes/origin of the checkout on disk
    row,           \* table ci_pipeline_material
    checkedOut,    \* CheckoutStatus of the material's row
    job,           \* local variables of each handler
    pubs,          \* messages published, per pipeline and commit
    forced,        \* forced pushes so far
    happened,      \* kinds of faults so far, each at most once
    crashes        \* restarts so far

vars == <<stage, on, made, log, remote, refs, row, checkedOut, job, pubs,
          forced, happened, crashes>>
env == <<made, log, remote, forced>>
faults == <<happened, crashes>>

Material == "material"
Mutex == INSTANCE MaterialMutex WITH Procs <- Handlers, Ids <- {Material}

-----------------------------------------------------------------------------
(* Reading the repository. *)

\* A ci_pipeline_material row: last is LastSeenHash, hist CommitHistory.
Row == [value: Branches, active: BOOLEAN, last: 0..MaxCommits,
        hist: Seq(Commits), errored: BOOLEAN]

ASSUME AbsentAssumption == Absent \notin Row

\* The parent of commit c, 0 if it has none.
Parent(c) == IF Len(log[c]) > 1 THEN log[c][2] ELSE 0

InLog(c, d) == \E i \in DOMAIN log[d] : log[d][i] = c

AtMost(n, s) == SubSeq(s, 1, IF Len(s) < n THEN Len(s) ELSE n)

\* git log d..: what a log s has and that of d has not, which is a prefix of s.
AheadOf(d, s) == SubSeq(s, 1, Cardinality({i \in DOMAIN s : ~InLog(s[i], d)}))

\* Broken variant of Before: it loses one commit.
BeforeButOne(c, s) ==
    LET at == {i \in DOMAIN s : s[i] = c}
    IN IF at = {} THEN s ELSE SubSeq(s, 1, (CHOOSE i \in at : TRUE) - 2)

\* The commits of s in front of c.
Before(c, s) ==
    LET at == {i \in DOMAIN s : s[i] = c}
    IN IF at = {} THEN s ELSE SubSeq(s, 1, (CHOOSE i \in at : TRUE) - 1)

\* GetCommitIterator: what the iterator yields.  go-git walks the branch; the
\* cli asks for from^..branch, which is an error if from has no parent.
IteratorFails(b, from) ==
    \/ refs[b] = 0
    \/ UseGitCli /\ from # 0 /\ Parent(from) = 0

Iterated(b, from) ==
    IF UseGitCli /\ from # 0
    THEN AtMost(HistoryCount, AheadOf(Parent(from), log[refs[b]]))
    ELSE log[refs[b]]

\* ChangesSinceByRepository(branch, from, "", fetchCount).
ChangesSince(b, from) == AtMost(HistoryCount, Before(from, Iterated(b, from)))

\* Broken variants of AppendOldCommitsFromHistory: the old commits first, and
\* no limit.
OldCommitsFirst(new, hist) == AtMost(HistoryCount, hist \o new)
AllCommits(new, hist) == new \o hist

AppendOldCommitsFromHistory(new, hist) == AtMost(HistoryCount, new \o hist)

-----------------------------------------------------------------------------
(* The rows. *)

Saved(p) == row[p] # Absent
Active(p) == Saved(p) /\ row[p].active

\* Update of CiPipelineMaterialRepository writes all columns but an empty
\* commit_history (UpdateNotNull), on rows that exist.
Written(old, new) ==
    IF old = Absent THEN Absent
    ELSE [new EXCEPT !.hist = IF @ = <<>> THEN old.hist ELSE @]

\* The rows of a list to be written.
Rows(out) == {p \in Pipelines : out[p] # Absent}

\* Broken variant of UpdateRows: nothing is written.
UpdateNoRows(out) == UNCHANGED row

UpdateRows(out) ==
    row' = [p \in Pipelines |-> IF p \in Rows(out) THEN Written(row[p], out[p]) ELSE row[p]]

-----------------------------------------------------------------------------
(* The handlers' local state. *)

NoOne == [p \in Pipelines |-> Absent]
Idle == [op |-> "none", at |-> "idle", todo |-> {}, out |-> NoOne]

Fault(kind) ==
    /\ kind \in Faults \ happened
    /\ Cardinality(happened) < MaxFails
    /\ happened' = happened \cup {kind}

Become(h, j) == job' = [job EXCEPT ![h] = j]

\* Broken variant of TakeLock: it does not wait.
TakeLockNoWait(h) ==
    /\ stage[h] = "waiting"
    /\ stage' = [stage EXCEPT ![h] = "in"]
    /\ UNCHANGED on

\* repoLock.Mutex.Lock() returns.
TakeLock(h) == Mutex!Enter(h)

\* Broken variant of Finish: the lock is not released.
FinishLocked(h) == Become(h, Idle) /\ UNCHANGED <<stage, on>>

\* Return from a handler: the lock is released and the locals are gone.
Finish(h) ==
    /\ Become(h, Idle)
    /\ IF job[h].op = "save" THEN UNCHANGED <<stage, on>> ELSE Mutex!Leave(h)

Init ==
    /\ Mutex!Init
    /\ made = FirstCommits
    /\ log = [c \in 0..MaxCommits |->
                 IF c <= FirstCommits THEN [i \in 1..c |-> c + 1 - i] ELSE <<>>]
    /\ remote = [b \in Branches |-> FirstCommits]
    /\ refs = remote /\ checkedOut = TRUE
    /\ row \in [Pipelines -> {Absent} \cup
                  {[value |-> b, active |-> TRUE, last |-> FirstCommits, errored |-> FALSE,
                    hist |-> AtMost(HistoryCount, log[FirstCommits])] : b \in Branches}]
    /\ job = [h \in Handlers |-> Idle]
    /\ pubs = [p \in Pipelines |-> [c \in Commits |-> 0]]
    /\ forced = 0 /\ happened = {} /\ crashes = 0

CountForced(must) ==
    IF must THEN forced < MaxForced /\ forced' = forced + 1 ELSE UNCHANGED forced

\* Somebody pushes a new commit to branch b, by force if it is not on its head.
Push(b) ==
    /\ made < MaxCommits
    /\ made' = made + 1
    /\ \E c \in 1..made :
          /\ CountForced(c # remote[b])
          /\ log' = [log EXCEPT ![made + 1] = <<made + 1>> \o log[c]]
    /\ remote' = [remote EXCEPT ![b] = made + 1]
    /\ UNCHANGED <<stage, on, refs, row, checkedOut, job, pubs, faults>>

\* Somebody moves branch b to a commit that exists.
Reset(b) ==
    /\ CountForced(TRUE)
    /\ \E c \in 1..made : c # remote[b] /\ remote' = [remote EXCEPT ![b] = c]
    /\ UNCHANGED <<stage, on, made, log, refs, row, checkedOut, job, pubs, faults>>

-----------------------------------------------------------------------------
(* git fetch, and what it leaves in refs r. *)

\* Broken variant of FetchOk: the report may be wrong.
FetchUnreported(r) == {[refs |-> remote, updated |-> u] : u \in BOOLEAN}

\* It brings r to the remote's heads, and reports an update if one of them, or
\* another ref or tag, changed.
FetchOk(r) == {[refs |-> remote, updated |-> u] : u \in {r # remote, TRUE}}

\* It fails, if the fault is "partial" after it moved some refs.
FetchErr(kind, r) ==
    {[b \in Branches |-> IF b \in moved THEN remote[b] ELSE r[b]]
        : moved \in IF kind = "partial" THEN SUBSET Branches ELSE {{}}}

\* A handler's fetch fails.
FetchFails(kind) == kind \in {"fetch", "partial"} /\ Fault(kind) /\ refs' \in FetchErr(kind, refs)

\* The calls that take the material's lock first.  Watch skips a material that is
\* not checked out (FindActive) or that no pipeline follows, RefreshGitMaterial
\* does not; GetLatestCommitForBranch is asked by a pipeline, and refuses.
Call(h, op) ==
    /\ op \in Ops
    /\ h = Cron => op = "poll"
    /\ h = Cron \/ op = "latest" => checkedOut /\ \E p \in Pipelines : Active(p)
    /\ job[h].at = "idle"
    /\ Mutex!Request(h, Material)
    /\ Become(h, [Idle EXCEPT !.op = op, !.at = "lock"])
    /\ UNCHANGED <<env, refs, row, checkedOut, pubs, faults>>

-----------------------------------------------------------------------------
(* The poll: pollAndUpdateGitMaterial. *)

\* Lock and FetchAndUpdateMaterial.  A failed fetch is repeated once for SSH,
\* and after "git remote prune" if a ref could not be locked; the result of the
\* second one replaces that of the first.
PollFetch(h) ==
    /\ job[h].op = "poll" /\ job[h].at = "lock"
    /\ TakeLock(h)
    /\ LET fetched(results) == \E f \in results :
              /\ refs' = f.refs
              /\ Become(h, [job[h] EXCEPT !.at = IF f.updated THEN "list" ELSE "done"])
       IN \/ fetched(FetchOk(refs)) /\ UNCHANGED happened
          \/ \E kind \in {"fetch", "partial"} :
                /\ Fault(kind)
                /\ \E r \in FetchErr(kind, refs) :
                      \/ (Ssh \/ kind = "partial") /\ fetched(FetchOk(r))
                      \/ /\ refs' \in IF Ssh THEN FetchErr(kind, r) ELSE {r}
                         /\ Become(h, [job[h] EXCEPT !.at = "failed"])
    /\ UNCHANGED <<env, row, checkedOut, pubs, crashes>>

\* What the poll makes of row r: the row with the new commits, or r.
Polled(r) ==
    LET new == ChangesSince(r.value, r.last)
    IN IF IteratorFails(r.value, r.last) \/ new = <<>> THEN r
       ELSE IF new[1] = r.last THEN r
       ELSE [r EXCEPT !.last = new[1], !.errored = FALSE,
                      !.hist = AppendOldCommitsFromHistory(new, r.hist)]

\* Broken variant of PollList: the rows are written before they are announced.
PollListAndSave(h) ==
    /\ job[h].op = "poll" /\ job[h].at = "list"
    /\ LET new == {p \in Pipelines : Active(p) /\ Polled(row[p]).last # row[p].last}
           out == [p \in Pipelines |-> IF p \in new THEN Polled(row[p]) ELSE Absent]
       IN /\ UpdateRows(out)
          /\ Become(h, [job[h] EXCEPT !.at = "notify", !.todo = new, !.out = out])
    /\ UNCHANGED <<stage, on, env, refs, checkedOut, pubs, faults>>

\* FindByGitMaterialId and the loop over the rows.  Errored of a row whose
\* branch cannot be read stays in memory: the Update for the errored rows is
\* handed the updated ones once more (Watcher.go:302).
PollList(h) ==
    /\ job[h].op = "poll" /\ job[h].at = "list"
    /\ LET new == {p \in Pipelines : Active(p) /\ Polled(row[p]).last # row[p].last}
           out == [p \in Pipelines |-> IF p \in new THEN Polled(row[p]) ELSE Absent]
       IN Become(h, [job[h] EXCEPT !.at = "notify", !.todo = new, !.out = out])
    /\ UNCHANGED <<stage, on, env, refs, row, checkedOut, pubs, faults>>

\* NotifyForMaterialUpdate: one message; a failure is logged and forgotten.
PollNotify(h, p) ==
    /\ job[h].at = "notify" /\ p \in job[h].todo
    /\ Become(h, [job[h] EXCEPT !.todo = @ \ {p}])
    /\ LET c == job[h].out[p].last
       IN \/ /\ c \notin Excluded
             /\ pubs' = [pubs EXCEPT ![p][c] = IF @ = 2 THEN 2 ELSE @ + 1]
             /\ UNCHANGED happened
          \/ c \in Excluded /\ UNCHANGED <<pubs, happened>>
          \/ Fault("publish") /\ UNCHANGED pubs
    /\ UNCHANGED <<stage, on, env, refs, row, checkedOut, crashes>>

\* Only then the rows are written, and a failure of that is logged too.
PollSave(h) ==
    /\ job[h].at = "notify" /\ job[h].todo = {}
    /\ \/ UpdateRows(job[h].out) /\ UNCHANGED happened
       \/ Fault("db") /\ UNCHANGED row
    /\ Become(h, [job[h] EXCEPT !.at = "done", !.out = NoOne])
    /\ UNCHANGED <<stage, on, env, refs, checkedOut, pubs, crashes>>

\* The material's row is written, for a poll that fetched as checked out, and the
\* lock released.
Return(h) ==
    /\ job[h].at \in {"done", "unlisted", "failed"}
    /\ Finish(h)
    /\ checkedOut' = (checkedOut \/ (job[h].op = "poll" /\ job[h].at # "failed"))
    /\ UNCHANGED <<env, refs, row, pubs, faults>>

\* A poll's write of the material's row fails.
ReturnUnsaved(h) ==
    /\ job[h].op = "poll" /\ job[h].at \in {"done", "unlisted", "failed"}
    /\ Fault("db")
    /\ Finish(h)
    /\ UNCHANGED <<env, refs, row, checkedOut, pubs, crashes>>

-----------------------------------------------------------------------------
(* GetLatestCommitForBranch and a checkout; both end in                    *)
(* updatePipelineMaterialCommit for the active rows of the material.       *)

\* A fetch, and the material's row as checked out, which may fail; nothing is
\* written if the fetch failed.
LatestFetch(h) ==
    /\ job[h].op = "latest" /\ job[h].at = "lock"
    /\ TakeLock(h)
    /\ \/ /\ refs' = remote /\ checkedOut' = TRUE
          /\ Become(h, [job[h] EXCEPT !.at = "list"])
          /\ UNCHANGED happened
       \/ /\ \/ \E kind \in FaultKinds : FetchFails(kind)
             \/ Fault("db") /\ refs' = remote
          /\ Become(h, [job[h] EXCEPT !.at = "failed"])
          /\ UNCHANGED checkedOut
    /\ UNCHANGED <<env, row, pubs, crashes>>

\* checkoutMaterial: Add first removes the directory ...
CheckoutWipe(h) ==
    /\ job[h].op = "checkout" /\ job[h].at = "lock"
    /\ TakeLock(h)
    /\ refs' = [b \in Branches |-> 0]
    /\ Become(h, [job[h] EXCEPT !.at = "fetch"])
    /\ UNCHANGED <<env, row, checkedOut, pubs, faults>>

\* ... then fetches into a new one, and writes to the material's row whether that
\* went well.  The pipelines' rows are updated even if it did not, but not if the
\* caller's context is gone or the material's row cannot be written.
CheckoutFetch(h) ==
    /\ job[h].at = "fetch"
    /\ \/ /\ \/ refs' = remote /\ checkedOut' = TRUE /\ UNCHANGED happened
             \/ checkedOut' = FALSE /\ \E kind \in FaultKinds : FetchFails(kind)
          /\ Become(h, [job[h] EXCEPT !.at = "list"])
       \/ /\ \E kind \in {"context", "db"} : Fault(kind)
          /\ refs' \in {refs, remote}
          /\ Become(h, [job[h] EXCEPT !.at = "failed"])
          /\ UNCHANGED checkedOut
    /\ UNCHANGED <<stage, on, env, row, pubs, crashes>>

\* FindByGitMaterialId.
ListActive(h) ==
    /\ job[h].op \in {"latest", "checkout"} /\ job[h].at = "list"
    /\ Become(h, [job[h] EXCEPT !.at = "commits", !.todo = {p \in Pipelines : Active(p)}])
    /\ UNCHANGED <<stage, on, env, refs, row, checkedOut, pubs, faults>>

\* One round of updatePipelineMaterialCommit: the row is read again, and reset
\* to the head of its branch as it is on disk now.
Refreshed(r) ==
    IF IteratorFails(r.value, 0) THEN [r EXCEPT !.last = 0, !.errored = TRUE]
    ELSE LET commits == ChangesSince(r.value, 0)
         IN [r EXCEPT !.last = commits[1], !.hist = commits, !.errored = FALSE]

CommitRead(h, p) ==
    /\ job[h].at = "commits" /\ p \in job[h].todo
    /\ IF Active(p)
       THEN Become(h, [job[h] EXCEPT !.todo = @ \ {p}, !.out[p] = Refreshed(row[p])])
       ELSE Become(h, [job[h] EXCEPT !.at = "failed"])
    /\ UNCHANGED <<stage, on, env, refs, row, checkedOut, pubs, faults>>

\* The query for the row's material fails: the row is left out.
CommitSkip(h, p) ==
    /\ job[h].at = "commits" /\ p \in job[h].todo /\ Active(p)
    /\ Fault("db")
    /\ Become(h, [job[h] EXCEPT !.todo = @ \ {p}])
    /\ UNCHANGED <<stage, on, env, refs, row, checkedOut, pubs, crashes>>

CommitWrite(h) ==
    /\ job[h].at = "commits" /\ job[h].todo = {}
    /\ UpdateRows(job[h].out)
    /\ Become(h, [job[h] EXCEPT !.at = "done", !.out = NoOne])
    /\ UNCHANGED <<stage, on, env, refs, checkedOut, pubs, faults>>

\* A query fails, or the caller of an RPC goes away: the handler returns.
Abort(h) ==
    /\ \/ job[h].at \in {"list", "commits", "insert", "update"} /\ Fault("db")
       \/ job[h].at = "commits" /\ Fault("context")
    /\ Become(h, [job[h] EXCEPT !.at = IF job[h].op = "poll" THEN "unlisted" ELSE "failed",
                                !.todo = {}, !.out = NoOne])
    /\ UNCHANGED <<stage, on, env, refs, row, checkedOut, pubs, crashes>>

-----------------------------------------------------------------------------
(* SavePipelineMaterial, of one row; without the lock. *)

\* The request has no LastSeenHash and no CommitHistory.
SaveCall(h, p) ==
    /\ "save" \in Ops
    /\ h # Cron
    /\ job[h].at = "idle"
    /\ \E b \in Branches, a \in BOOLEAN :
          Become(h, [Idle EXCEPT
             !.op = "save", !.at = IF Saved(p) THEN "update" ELSE "insert",
             !.out[p] = [value |-> b, active |-> a, last |-> 0, hist |-> <<>>,
                         errored |-> FALSE]])
    /\ UNCHANGED <<stage, on, env, refs, row, checkedOut, pubs, faults>>

\* Then updatePipelineMaterialCommit, unless an existing row is deactivated.
SaveUpdate(h) ==
    /\ job[h].at = "update"
    /\ UpdateRows(job[h].out)
    /\ LET live == {p \in Rows(job[h].out) : job[h].out[p].active}
       IN Become(h, [job[h] EXCEPT !.at = "commits", !.todo = live, !.out = NoOne])
    /\ UNCHANGED <<stage, on, env, refs, checkedOut, pubs, faults>>

\* An insert of a row that meanwhile exists fails.
SaveInsert(h) ==
    /\ job[h].at = "insert"
    /\ IF \E p \in Rows(job[h].out) : Saved(p)
       THEN /\ Become(h, [job[h] EXCEPT !.at = "failed", !.out = NoOne])
            /\ UNCHANGED row
       ELSE /\ row' = [p \in Pipelines |-> IF p \in Rows(job[h].out) THEN job[h].out[p] ELSE row[p]]
            /\ Become(h, [job[h] EXCEPT !.at = "commits", !.todo = Rows(job[h].out),
                                        !.out = NoOne])
    /\ UNCHANGED <<stage, on, env, refs, checkedOut, pubs, faults>>

-----------------------------------------------------------------------------

\* The process dies and starts again.
Crash ==
    /\ crashes < MaxCrashes
    /\ crashes' = crashes + 1
    /\ stage' = [h \in Handlers |-> "out"]
    /\ on' = [h \in Handlers |-> {}]
    /\ job' = [h \in Handlers |-> Idle]
    /\ UNCHANGED <<env, refs, row, checkedOut, pubs, happened>>

PollStep(h) ==
    \/ PollFetch(h)
    \/ PollList(h)
    \/ \E p \in Pipelines : PollNotify(h, p)
    \/ PollSave(h)

LatestStep(h) == LatestFetch(h)

CheckoutStep(h) == CheckoutWipe(h) \/ CheckoutFetch(h)

CommitStep(h) ==
    \/ ListActive(h)
    \/ \E p \in Pipelines : CommitRead(h, p) \/ CommitSkip(h, p)
    \/ CommitWrite(h)

SaveStep(h) == SaveUpdate(h) \/ SaveInsert(h)

Step(h) ==
    \/ PollStep(h) \/ LatestStep(h) \/ CheckoutStep(h) \/ CommitStep(h) \/ SaveStep(h)
    \/ Abort(h)
    \/ Return(h) \/ ReturnUnsaved(h)

Next ==
    \/ \E b \in Branches : Push(b) \/ Reset(b)
    \/ \E h \in Handlers :
          \/ \E op \in {"poll", "latest", "checkout"} : Call(h, op)
          \/ \E p \in Pipelines : SaveCall(h, p)
          \/ Step(h)
    \/ Crash

SafeSpec == Init /\ [][Next]_vars

\* The cron job polls again and again, as long as FindActive lists the material,
\* and a handler that runs goes on; a goroutine that waits for the lock gets it
\* (sync.Mutex is fair).
Fairness ==
    /\ WF_vars(Call(Cron, "poll"))
    /\ \A h \in Handlers :
          /\ SF_vars(PollFetch(h) \/ LatestFetch(h) \/ CheckoutWipe(h))
          /\ WF_vars(Step(h))

Spec == SafeSpec /\ Fairness

-----------------------------------------------------------------------------
(* Properties. *)

Job == [op: {"none", "poll", "latest", "checkout", "save"},
        at: {"idle", "lock", "list", "notify", "fetch", "commits", "insert", "update",
             "done", "unlisted", "failed"},
        todo: SUBSET Pipelines,
        out: [Pipelines -> Row \cup {Absent}]]

\* A handler has the lock from its fetch to its return, SavePipelineMaterial
\* never, and nobody else waits or works.
LockedAsCalled(h) ==
    stage[h] = IF job[h].op = "save" \/ job[h].at = "idle" THEN "out"
               ELSE IF job[h].at = "lock" THEN "waiting" ELSE "in"

GitOK ==
    /\ made \in Commits
    /\ log \in [0..MaxCommits -> Seq(Commits)]
    /\ \A c \in 1..made : log[c] # <<>>
    /\ remote \in [Branches -> 1..made]
    /\ refs \in [Branches -> 0..made]

TablesOK ==
    /\ row \in [Pipelines -> Row \cup {Absent}]
    /\ checkedOut \in BOOLEAN
    /\ pubs \in [Pipelines -> [Commits -> 0..2]]

HandlersOK ==
    /\ job \in [Handlers -> Job]
    /\ stage \in [Handlers -> {"out", "waiting", "in"}]
    /\ on \in [Handlers -> SUBSET {Material}]
    /\ \A h \in Handlers : LockedAsCalled(h)

BoundsOK == forced \in 0..MaxForced /\ happened \subseteq Faults /\ crashes \in 0..MaxCrashes

\* The state is well formed, and the handlers keep the lock discipline.
TypeOK == GitOK /\ TablesOK /\ HandlersOK /\ BoundsOK

Headed(r) == r.last # 0 => r.hist # <<>> /\ r.hist[1] = r.last

\* The columns LastSeenHash and CommitHistory, written by three handlers with
\* and without the lock, never come apart: the history starts with the hash.
HistoryHead == \A p \in Pipelines : Saved(p) => Headed(row[p])

\* CommitHistory is the log of the branch as of LastSeenHash, up to
\* HistoryCount commits ("last five commit", CiPipelineMaterial.go:37), as long
\* as nobody pushes by force and no fetch failed.
HistoryIsLog ==
    forced = 0 /\ happened \cap {"fetch", "partial"} = {} => \A p \in Pipelines : Saved(p) /\ row[p].last # 0 =>
        row[p].hist = AtMost(HistoryCount, log[row[p].last])

\* A commit that was pushed under the system's eyes and is not excluded.
New(c) == c \in Commits \ Excluded /\ c > FirstCommits

\* A commit the row has seen has been announced, whatever crashed, if only polls
\* write the row and messages are published: they go out before the row is
\* written (Watcher.go:291-295).
Announced ==
    "publish" \notin happened => \A p \in Pipelines :
        Saved(p) /\ New(row[p].last) => pubs[p][row[p].last] > 0

\* "refresh repo. and notify all pipeline for changes" (RepoManages.go:818):
\* when a poll returns success, every pipeline's head has been announced, if
\* nothing worse went wrong so far than a fetch that did nothing.
RefreshNotifiesAll ==
    crashes = 0 /\ happened \subseteq {"fetch"} => \A h \in Handlers : job[h].op = "poll" /\ job[h].at = "done" =>
        \A p \in Pipelines : Active(p) =>
            LET head == refs[row[p].value] IN New(head) => pubs[p][head] > 0

\* No pipeline is told twice about one commit, so no commit is built twice, as
\* long as branches only grow, no fetch failed, and no restart and no failed
\* query kept a row that was announced from being written.
NoRepeat ==
    forced = 0 /\ crashes = 0 /\ happened \cap {"fetch", "partial", "db"} = {} =>
        \A p \in Pipelines, c \in Commits : pubs[p][c] <= 1

\* A message names the head a branch has on disk at that moment: nobody fetches
\* or wipes the repository between the listing and the message.
PublishedIsHead ==
    [][\A p \in Pipelines, c \in Commits :
          pubs'[p][c] # pubs[p][c] => \E b \in Branches : refs[b] = c]_vars

\* What SavePipelineMaterial stored as branch and activity of a row stays until
\* the next SavePipelineMaterial ("SavePipelineMaterial saves pipeline
\* material", GrpcHandler.go).
SavedStays ==
    [][\A p \in Pipelines : Saved(p) =>
          \/ row'[p].value = row[p].value /\ row'[p].active = row[p].active
          \/ \E h \in Handlers : job[h].at = "update" /\ job'[h].at = "commits"]_vars

\* Once pushes stop, every pipeline's row ends at the head of its branch, if the
\* material stays checked out from some time on.  (After a checkout that failed,
\* cron does not poll until somebody checks the material out or refreshes it.)
Converges ==
    <>[]checkedOut => <>[](\A p \in Pipelines : Active(p) => row[p].last = remote[row[p].value])

=============================================================================
