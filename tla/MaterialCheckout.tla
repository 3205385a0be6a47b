-------------------------- MODULE MaterialCheckout --------------------------
(***************************************************************************)
(* One row of table git_material and the directories on the volume that    *)
(* hold its checkout, with every handler that writes either.               *)
(*                                                                         *)
(* MaterialRepository.Update writes all columns of the row it is given, so *)
(* a handler that read the row before another one wrote it takes the other *)
(* write back.  The poll reads the row under the material's lock; AddRepo, *)
(* UpdateRepo, ResetRepo, ReloadAllRepo, GetLatestCommitForBranch and the  *)
(* webhook handler read (UpdateRepo also writes) it without.  The checkout *)
(* directory of a material is determined by its url.                       *)
(***************************************************************************)
EXTENDS Naturals, FiniteSets

CONSTANTS
    Handlers,    \* goroutines
    Cron,        \* the one of them that only runs the polls of Watch
    Urls,        \* urls of the material, and the directories of these urls
    None,        \* no row, no directory, empty CheckoutLocation
    Ops,         \* operations that happen, subset of OpKinds
    UseGitCli,   \* Configuration.UseGitCli
    Faults,      \* what may go wrong, subset of FaultKinds
    MaxFails,    \* bound: faults
    MaxCrashes,  \* bound: restarts
    MaxErrors    \* bound: LastFetchErrorCount is not followed further

OpKinds == {"poll", "add", "update", "reset", "latest", "webhook"}

\* disk: IsSpaceAvailableOnDisk says no.  fetch: git fetch or git init fails.
\* context: the caller of an RPC goes away.  provider: no credentials.
\* db: a query on git_material fails.
FaultKinds == {"disk", "fetch", "context", "provider", "db"}

ASSUME CheckoutAssumption ==
    /\ Cron \in Handlers
    /\ None \notin Urls
    /\ Ops \subseteq OpKinds
    /\ UseGitCli \in BOOLEAN
    /\ Faults \subseteq FaultKinds
    /\ MaxFails \in Nat /\ MaxCrashes \in Nat /\ MaxErrors \in Nat \ {0}

VARIABLES
    stage, on,     \* the material's lock, see MaterialMutex
    row,           \* the git_material row
    dir,           \* the directory of each url
    job,           \* local variables of each handler
    happened,      \* kinds of faults so far, each at most once
    crashes        \* restarts so far

vars == <<stage, on, row, dir, job, happened, crashes>>
faults == <<happened, crashes>>

Material == "material"
Mutex == INSTANCE MaterialMutex WITH Procs <- Handlers, Ids <- {Material}

\* url, deleted; loc is CheckoutLocation, checkedOut CheckoutStatus, fetched
\* FetchStatus, errors LastFetchErrorCount.
Row == [url: Urls, deleted: BOOLEAN, loc: Urls \cup {None}, checkedOut: BOOLEAN,
        fetched: BOOLEAN, errors: 0..MaxErrors]

\* A repository: the url of its remote origin, and whether it was fetched.
Repo == [origin: Urls, full: BOOLEAN]

ASSUME NoneAssumption == None \notin Row \cup Repo

NewRow(u) == [url |-> u, deleted |-> FALSE, loc |-> None, checkedOut |-> FALSE,
              fetched |-> FALSE, errors |-> 0]

\* Broken variant of Found: the deleted rows, too.
FoundAny(r) == r # None

\* What FindById and FindAll find: a row that is not deleted.
Found(r) == r # None /\ ~r.deleted
Live == Found(row)

-----------------------------------------------------------------------------

Idle == [op |-> "none", at |-> "idle", mat |-> None]

Init ==
    /\ Mutex!Init
    /\ \E u \in Urls :
          \/ /\ row = None
             /\ dir = [d \in Urls |-> None]
          \/ /\ row = [NewRow(u) EXCEPT !.loc = u, !.checkedOut = TRUE]
             /\ dir = [d \in Urls |-> IF d = u THEN [origin |-> u, full |-> TRUE] ELSE None]
    /\ job = [h \in Handlers |-> Idle]
    /\ happened = {} /\ crashes = 0

Fault(kind) ==
    /\ kind \in Faults \ happened
    /\ Cardinality(happened) < MaxFails
    /\ happened' = happened \cup {kind}

Become(h, j) == job' = [job EXCEPT ![h] = j]
Goto(h, l) == Become(h, [job[h] EXCEPT !.at = l])

\* A handler that holds the lock and is at l.
Holds(h, l) == stage[h] = "in" /\ job[h].at = l

\* Read the row outside the lock, as far as it is not deleted, then ask for
\* the lock (with the row as it was then).
CallWith(h, op, mat, l) ==
    /\ op \in Ops
    /\ h = Cron => op = "poll"
    /\ job[h].at = "idle"
    /\ Mutex!Request(h, Material)
    /\ Become(h, [op |-> op, at |-> l, mat |-> mat])

\* PollAndUpdateGitMaterial: Watch polls what FindActive returned, that is rows
\* that are checked out; RefreshGitMaterial any id.
PollCall(h) ==
    /\ h = Cron => Live /\ row.checkedOut
    /\ CallWith(h, "poll", None, "open")
    /\ UNCHANGED <<row, dir, faults>>

\* ResetRepo, and ReloadAllRepo for this row.
ResetCall(h) ==
    /\ Live
    /\ CallWith(h, "reset", row, "checkout")
    /\ UNCHANGED <<row, dir, faults>>

\* GetLatestCommitForBranch.
LatestCall(h) ==
    /\ Live /\ row.checkedOut
    /\ CallWith(h, "latest", row, "open")
    /\ UNCHANGED <<row, dir, faults>>

\* addRepo saves a new row first.
AddCall(h) ==
    /\ row = None
    /\ \E u \in Urls : row' = NewRow(u)
    /\ CallWith(h, "add", row', "checkout")
    /\ UNCHANGED <<dir, faults>>

\* UpdateRepo reads the row ...
UpdateCall(h) ==
    /\ "update" \in Ops
    /\ h # Cron
    /\ job[h].at = "idle"
    /\ Live
    /\ \E u \in Urls, d \in BOOLEAN :
          Become(h, [op |-> "update", at |-> "change",
                     mat |-> [row EXCEPT !.url = u, !.deleted = d, !.checkedOut = FALSE]])
    /\ UNCHANGED <<stage, on, row, dir, faults>>

\* ... writes it, and only then asks for the lock.
UpdateChange(h) ==
    /\ job[h].at = "change"
    /\ \/ /\ row' = job[h].mat
          /\ Mutex!Request(h, Material)
          /\ Goto(h, "clean")
          /\ UNCHANGED happened
       \/ /\ Fault("db")
          /\ Become(h, Idle)
          /\ UNCHANGED <<stage, on, row>>
    /\ UNCHANGED <<dir, crashes>>

\* A webhook that matched the material writes LastFetchTime into the row it
\* read, without the lock.
WebhookRead(h) ==
    /\ "webhook" \in Ops
    /\ h # Cron
    /\ job[h].at = "idle"
    /\ Live
    /\ Become(h, [op |-> "webhook", at |-> "stamp", mat |-> row])
    /\ UNCHANGED <<stage, on, row, dir, faults>>

WebhookWrite(h) ==
    /\ job[h].at = "stamp"
    /\ row' = job[h].mat
    /\ Become(h, Idle)
    /\ UNCHANGED <<stage, on, dir, faults>>

-----------------------------------------------------------------------------
(* Under the lock. *)

\* repoLock.Mutex.Lock() returns.
TakeLock(h) ==
    /\ Mutex!Enter(h)
    /\ UNCHANGED <<row, dir, job, faults>>

\* Broken variant of Return: the lock is not released.
ReturnLocked(h) ==
    /\ Holds(h, "return")
    /\ Become(h, Idle)
    /\ UNCHANGED <<stage, on, row, dir, faults>>

\* The deferred Unlock and ReturnLocker.
Return(h) ==
    /\ Holds(h, "return")
    /\ Mutex!Leave(h)
    /\ Become(h, Idle)
    /\ UNCHANGED <<row, dir, faults>>

\* Broken variant of Opens: no repository is made.
OpensExisting(loc) == loc # None /\ dir[loc] # None

\* openNewRepo(loc, url): go-git makes a repository where there is none; the
\* cli variant of OpenRepoPlain reports no error for a missing one, so git
\* fetch fails on it.
Opens(loc) == loc # None /\ (dir[loc] # None \/ ~UseGitCli)

Opened(loc, url) ==
    IF dir[loc] = None THEN [dir EXCEPT ![loc] = [origin |-> url, full |-> FALSE]] ELSE dir

\* RepositoryManager.Fetch into d.loc for the url of d.
FetchSucceeds(m) ==
    /\ Opens(m.loc)
    /\ dir' = [Opened(m.loc, m.url) EXCEPT ![m.loc].full = TRUE]
    /\ UNCHANGED happened

FetchFails(m) ==
    \/ ~Opens(m.loc) /\ UNCHANGED <<dir, happened>>
    \/ Fault("disk") /\ UNCHANGED dir
    \/ Opens(m.loc) /\ Fault("fetch") /\ dir' = Opened(m.loc, m.url)

\* The poll reads the row under the lock and keeps the result in it.
PollFetch(h) ==
    /\ Holds(h, "open") /\ job[h].op = "poll"
    /\ IF ~Live THEN Goto(h, "return") /\ UNCHANGED <<dir, happened>>
       ELSE \/ /\ FetchSucceeds(row)
               /\ Become(h, [job[h] EXCEPT !.at = "write",
                     !.mat = [row EXCEPT !.checkedOut = TRUE, !.fetched = TRUE, !.errors = 0]])
            \/ /\ FetchFails(row) \/ (Fault("provider") /\ UNCHANGED dir)
               /\ Become(h, [job[h] EXCEPT !.at = "write",
                     !.mat = [row EXCEPT !.fetched = FALSE,
                                         !.errors = IF @ = MaxErrors THEN @ ELSE @ + 1]])
            \/ Fault("db") /\ Goto(h, "return") /\ UNCHANGED dir
    /\ UNCHANGED <<stage, on, row, crashes>>

\* GetLatestCommitForBranch fetches for the row it read before, with empty
\* credentials if it cannot find them; it does not write the row if that fails.
LatestFetch(h) ==
    /\ Holds(h, "open") /\ job[h].op = "latest"
    /\ \/ /\ FetchSucceeds(job[h].mat)
          /\ Become(h, [job[h] EXCEPT !.at = "write", !.mat.checkedOut = TRUE])
       \/ FetchFails(job[h].mat) /\ Goto(h, "return")
    /\ UNCHANGED <<stage, on, row, crashes>>

\* materialRepository.Update at the end of a poll, a checkout, a latest.
Write(h) ==
    /\ Holds(h, "write")
    /\ \/ row' = job[h].mat /\ UNCHANGED happened
       \/ Fault("db") /\ UNCHANGED row
    /\ Goto(h, "return")
    /\ UNCHANGED <<stage, on, dir, crashes>>

\* Broken variant of Abandoned: the directory of the new url.
AbandonedNew(m) == m.url

\* UpdateRepo cleans the directory it found in the row, then reads the row
\* again to check it out.
Abandoned(m) == m.loc

UpdateClean(h) ==
    /\ Holds(h, "clean")
    /\ dir' = [d \in Urls |-> IF d = Abandoned(job[h].mat) THEN None ELSE dir[d]]
    /\ Goto(h, IF job[h].mat.deleted THEN "return" ELSE "reread")
    /\ UNCHANGED <<stage, on, row, faults>>

UpdateReread(h) ==
    /\ Holds(h, "reread")
    /\ \/ Live /\ Become(h, [job[h] EXCEPT !.at = "checkout", !.mat = row]) /\ UNCHANGED happened
       \/ ~Live /\ Goto(h, "return") /\ UNCHANGED happened
       \/ Fault("db") /\ Goto(h, "return")
    /\ UNCHANGED <<stage, on, row, dir, crashes>>

\* checkoutMaterial: remove the directory of the url ...
CheckoutWipe(h) ==
    /\ Holds(h, "checkout")
    /\ \/ /\ dir' = [dir EXCEPT ![job[h].mat.url] = None]
          /\ Goto(h, "init")
          /\ UNCHANGED happened
       \/ Fault("provider") /\ Goto(h, "return") /\ UNCHANGED dir
    /\ UNCHANGED <<stage, on, row, crashes>>

\* Broken variant of NotCheckedOut: the status stays.
StillCheckedOut(m) == m

\* The row of a checkout that worked, and of one that did not.
CheckedOut(m) == [m EXCEPT !.loc = m.url, !.checkedOut = TRUE]
NotCheckedOut(m) == [m EXCEPT !.checkedOut = FALSE]

\* ... git init ...
CheckoutInit(h) ==
    /\ Holds(h, "init")
    /\ LET m == job[h].mat IN
       \/ /\ dir' = [dir EXCEPT ![m.url] = [origin |-> m.url, full |-> FALSE]]
          /\ Goto(h, "fetch")
          /\ UNCHANGED happened
       \/ /\ Fault("disk") \/ Fault("fetch")
          /\ Become(h, [job[h] EXCEPT !.at = "write", !.mat = NotCheckedOut(m)])
          /\ UNCHANGED dir
       \/ /\ Fault("context")
          /\ Goto(h, "return")
          /\ UNCHANGED dir
    /\ UNCHANGED <<stage, on, row, crashes>>

\* ... git fetch.  If the context is gone, before it or after, the row stays as
\* it is.
CheckoutFetch(h) ==
    /\ Holds(h, "fetch")
    /\ LET m == job[h].mat IN
       \/ /\ dir' = [dir EXCEPT ![m.url].full = TRUE]
          /\ Become(h, [job[h] EXCEPT !.at = "write", !.mat = CheckedOut(m)])
          /\ UNCHANGED happened
       \/ /\ Fault("fetch")
          /\ Become(h, [job[h] EXCEPT !.at = "write", !.mat = NotCheckedOut(m)])
          /\ UNCHANGED dir
       \/ /\ Fault("context")
          /\ Goto(h, "return")
          /\ dir' \in {dir, [dir EXCEPT ![m.url].full = TRUE]}
    /\ UNCHANGED <<stage, on, row, crashes>>

\* The process dies and starts again; the row and the directories stay.
Crash ==
    /\ crashes < MaxCrashes
    /\ crashes' = crashes + 1
    /\ stage' = [h \in Handlers |-> "out"]
    /\ on' = [h \in Handlers |-> {}]
    /\ job' = [h \in Handlers |-> Idle]
    /\ UNCHANGED <<row, dir, happened>>

Calls(h) ==
    \/ PollCall(h) \/ ResetCall(h) \/ LatestCall(h) \/ AddCall(h) \/ UpdateCall(h)
    \/ WebhookRead(h)

Step(h) ==
    \/ UpdateChange(h) \/ WebhookWrite(h)
    \/ PollFetch(h) \/ LatestFetch(h) \/ Write(h)
    \/ UpdateClean(h) \/ UpdateReread(h)
    \/ CheckoutWipe(h) \/ CheckoutInit(h) \/ CheckoutFetch(h)
    \/ Return(h)

Next == (\E h \in Handlers : Calls(h) \/ TakeLock(h) \/ Step(h)) \/ Crash

SafeSpec == Init /\ [][Next]_vars

\* Cron polls whenever it may, handlers run on, the lock is fair.
Fairness ==
    /\ WF_vars(PollCall(Cron))
    /\ \A h \in Handlers : SF_vars(TakeLock(h)) /\ WF_vars(Step(h))

Spec == SafeSpec /\ Fairness

-----------------------------------------------------------------------------
(* Properties. *)

JobOK(h) ==
    /\ job[h].op \in OpKinds \cup {"none"}
    /\ job[h].mat \in Row \cup {None}
    /\ job[h].at \in {"idle", "open", "checkout", "change", "clean", "reread", "stamp",
                     "init", "fetch", "write", "return"}
    /\ stage[h] # "out" => job[h].at \notin {"idle", "change", "stamp"}
    /\ job[h].at \in {"init", "fetch", "write", "reread", "return"} => stage[h] = "in"

TypeOK ==
    /\ row \in Row \cup {None}
    /\ \A d \in Urls : dir[d] \in Repo \cup {None}
    /\ \A h \in Handlers : JobOK(h)
    /\ happened \subseteq Faults /\ crashes \in 0..MaxCrashes

Quiet == \A h \in Handlers : job[h].at = "idle"

\* A row that says it is deleted stays so once the handlers that were running
\* at the deletion are gone, whatever fails: nobody revives it from then on.
Removed == row # None /\ row.deleted
DeletionFinal == [](Quiet /\ Removed => []Removed)

\* CheckoutStatus tells the truth, as long as nobody edits the material, dies or
\* goes away in the middle and the row can be written: whenever the lock is
\* free, a row that is checked out has a fetched repository of its url at its
\* CheckoutLocation, whatever stale row a handler may still be about to write
\* (RepoManages.go:373-381, Watcher.go:311-318).
StatusTruth ==
    /\ crashes = 0 /\ happened \cap {"context", "db"} = {}
    /\ \A h \in Handlers : stage[h] # "in"
    /\ Live /\ row.checkedOut
    =>
        row.loc # None /\ dir[row.loc] = [origin |-> row.url, full |-> TRUE]

\* At rest there is no directory on the volume but that of a material's
\* current CheckoutLocation, and none of a deleted material, if nothing fails
\* and only one RPC at a time changes the material.
NoOrphans ==
    Quiet /\ happened = {} /\ crashes = 0 => \A d \in Urls : dir[d] # None => Live /\ d = row.loc

Broken == Live /\ row.checkedOut /\ (dir[row.loc] = None \/ ~dir[row.loc].full)

\* "Creates a new repo if it doesn't already exist" (RepositoryManager.go:39):
\* a checked out material whose directory got lost is repaired by the polls.
Heals == Broken ~> ~Broken

=============================================================================
