-------------------------- MODULE GitWatcherProofs --------------------------
(***************************************************************************)
(* Proofs about GitWatcher: its state stays well formed and its handlers   *)
(* keep the lock discipline (TypeCorrect), LastSeenHash and CommitHistory  *)
(* stay together (HistoryHeadAlways), and a row that polls wrote has been  *)
(* announced, across crashes (AnnouncedByPolls).                           *)
(***************************************************************************)
EXTENDS GitWatcher, SequenceTheorems, FiniteSetTheorems, TLAPS

-----------------------------------------------------------------------------
(* The helpers on sequences. *)

\* A prefix of a sequence of commits is one, and keeps the first commit.
LEMMA PrefixSeq ==
    ASSUME NEW s \in Seq(Commits), NEW n \in 0..Len(s)
    PROVE  /\ SubSeq(s, 1, n) \in Seq(Commits)
           /\ Len(SubSeq(s, 1, n)) = n
           /\ n > 0 => SubSeq(s, 1, n)[1] = s[1]
  <1>1. \A i \in 1..n : s[i] \in Commits
    OBVIOUS
  <1>2. Len(s) \in Nat
    OBVIOUS
  <1> QED
    BY <1>1, <1>2, SubSeqProperties

\* AtMost cuts a history, and cuts the newest commit off none.
LEMMA AtMostSeq ==
    ASSUME NEW s \in Seq(Commits)
    PROVE  /\ AtMost(HistoryCount, s) \in Seq(Commits)
           /\ s # <<>> => /\ AtMost(HistoryCount, s) # <<>>
                          /\ AtMost(HistoryCount, s)[1] = s[1]
  <1> DEFINE n == IF Len(s) < HistoryCount THEN Len(s) ELSE HistoryCount
  <1>1. n \in 0..Len(s) /\ (s # <<>> => n > 0)
    BY WatcherAssumption, EmptySeq
  <1>2. AtMost(HistoryCount, s) = SubSeq(s, 1, n)
    BY DEF AtMost
  <1> HIDE DEF n
  <1>3. /\ SubSeq(s, 1, n) \in Seq(Commits)
        /\ Len(SubSeq(s, 1, n)) = n
        /\ n > 0 => SubSeq(s, 1, n)[1] = s[1]
    BY <1>1, PrefixSeq
  <1>4. Len(<<>>) = 0
    BY EmptySeq
  <1> QED
    BY <1>1, <1>2, <1>3, <1>4

\* Before cuts a history.
LEMMA BeforeSeq ==
    ASSUME NEW s \in Seq(Commits), NEW c
    PROVE  /\ Before(c, s) \in Seq(Commits)
           /\ (\A i \in DOMAIN s : s[i] # c) => Before(c, s) = s
  <1> DEFINE at == {i \in DOMAIN s : s[i] = c}
             k  == CHOOSE i \in at : TRUE
  <1>1. CASE at = {}
    BY <1>1 DEF Before
  <1>2. CASE at # {}
    <2>1. k \in at
      BY <1>2
    <2>2. k \in 1..Len(s) /\ Len(s) \in Nat
      BY <2>1, LenProperties
    <2>3. Before(c, s) = SubSeq(s, 1, k - 1)
      BY <1>2 DEF Before
    <2> HIDE DEF k
    <2>4. SubSeq(s, 1, k - 1) \in Seq(Commits)
      BY <2>2, PrefixSeq
    <2> QED
      BY <2>1, <2>3, <2>4
  <1> QED
    BY <1>1, <1>2

\* AheadOf cuts a history.
LEMMA AheadOfSeq ==
    ASSUME NEW s \in Seq(Commits), NEW d
    PROVE  AheadOf(d, s) \in Seq(Commits)
  <1> DEFINE ahead == {i \in DOMAIN s : ~InLog(s[i], d)}
  <1>0. Len(s) \in Nat
    OBVIOUS
  <1>1. IsFiniteSet(1..Len(s)) /\ Cardinality(1..Len(s)) = Len(s)
    <2>1. 1 \in Int /\ Len(s) \in Int
      BY <1>0
    <2>2. /\ IsFiniteSet(1..Len(s))
          /\ Cardinality(1..Len(s)) = IF 1 > Len(s) THEN 0 ELSE Len(s) - 1 + 1
      BY <2>1, FS_Interval
    <2> QED
      BY <1>0, <2>2
  <1>2. ahead \subseteq 1..Len(s)
    BY LenProperties
  <1>3. Cardinality(ahead) \in 0..Len(s)
    BY <1>0, <1>1, <1>2, FS_Subset, FS_CardinalityType
  <1>4. AheadOf(d, s) = SubSeq(s, 1, Cardinality(ahead))
    BY DEF AheadOf
  <1> HIDE DEF ahead
  <1> QED
    BY <1>3, <1>4, PrefixSeq

-----------------------------------------------------------------------------
(* The rows the handlers compute. *)

\* ChangesSince yields commits, and at least one for a branch that is on disk.
LEMMA ChangesSinceSeq ==
    ASSUME GitOK, NEW b \in Branches, NEW from
    PROVE  /\ ChangesSince(b, from) \in Seq(Commits)
           /\ ~IteratorFails(b, 0) => ChangesSince(b, 0) # <<>>
  <1>1. log[refs[b]] \in Seq(Commits)
    <2>1. made \in 1..MaxCommits /\ refs[b] \in 0..made /\ MaxCommits \in Nat
      BY WatcherAssumption DEF GitOK, Commits
    <2>2. refs[b] \in 0..MaxCommits
      BY <2>1
    <2> QED
      BY <2>2 DEF GitOK
  <1>2. Iterated(b, from) \in Seq(Commits)
    BY <1>1, AtMostSeq, AheadOfSeq DEF Iterated
  <1>3. ChangesSince(b, from) \in Seq(Commits)
    BY <1>2, BeforeSeq, AtMostSeq DEF ChangesSince
  <1>4. ASSUME ~IteratorFails(b, 0)
        PROVE  ChangesSince(b, 0) # <<>>
    <2>1. Iterated(b, 0) = log[refs[b]]
      BY DEF Iterated
    <2>2. log[refs[b]] # <<>>
      BY <1>4 DEF IteratorFails, GitOK
    <2>3. \A i \in DOMAIN log[refs[b]] : log[refs[b]][i] # 0
      <3>1. \A i \in 1..Len(log[refs[b]]) : log[refs[b]][i] \in Commits
        BY <1>1, ElementOfSeq
      <3> QED
        BY <1>1, <3>1, LenProperties DEF Commits
    <2>4. Before(0, log[refs[b]]) = log[refs[b]]
      BY <1>1, <2>3, BeforeSeq
    <2> QED
      BY <1>1, <2>1, <2>2, <2>4, AtMostSeq DEF ChangesSince
  <1> QED
    BY <1>3, <1>4

\* The first of a list of commits is a commit.
LEMMA FirstCommit ==
    ASSUME NEW s \in Seq(Commits), s # <<>>
    PROVE  s[1] \in Commits /\ s[1] \in 0..MaxCommits /\ s[1] # 0
  <1>1. 1 \in 1..Len(s)
    BY EmptySeq
  <1>2. s[1] \in Commits
    BY <1>1, ElementOfSeq
  <1> QED
    BY <1>2, WatcherAssumption DEF Commits

\* A poll makes a row of a row, and its history starts with its hash.
LEMMA PolledRow ==
    ASSUME GitOK, NEW r \in Row
    PROVE  Polled(r) \in Row /\ (Headed(r) => Headed(Polled(r)))
  <1> DEFINE new  == ChangesSince(r.value, r.last)
             hist == AppendOldCommitsFromHistory(new, r.hist)
  <1>1. new \in Seq(Commits)
    BY ChangesSinceSeq DEF Row
  <1>2. CASE new # <<>>
    <2>1. new[1] \in 0..MaxCommits
      BY <1>1, <1>2, FirstCommit
    <2>2. r.hist \in Seq(Commits)
      BY DEF Row
    <2>3. /\ new \o r.hist \in Seq(Commits)
          /\ new \o r.hist # <<>>
          /\ (new \o r.hist)[1] = new[1]
      <3> HIDE DEF new
      <3>1. Len(new) >= 1 /\ Len(new) \in Nat /\ Len(r.hist) \in Nat
        BY <1>1, <1>2, <2>2, EmptySeq, LenProperties
      <3>2. /\ new \o r.hist \in Seq(Commits)
            /\ Len(new \o r.hist) = Len(new) + Len(r.hist)
            /\ (new \o r.hist)[1] = new[1]
        BY <1>1, <2>2, <3>1, ConcatProperties
      <3> QED
        BY <3>1, <3>2, EmptySeq
    <2>4. hist \in Seq(Commits) /\ hist # <<>> /\ hist[1] = new[1]
      BY <2>3, AtMostSeq DEF AppendOldCommitsFromHistory
    <2>5. \/ Polled(r) = r
          \/ Polled(r) = [r EXCEPT !.last = new[1], !.errored = FALSE, !.hist = hist]
      BY DEF Polled
    <2> HIDE DEF new, hist
    <2> QED
      BY <2>1, <2>4, <2>5 DEF Row, Headed
  <1>3. CASE new = <<>>
    BY <1>3 DEF Polled
  <1> QED
    BY <1>2, <1>3

\* So does the refresh after a checkout.
LEMMA RefreshedRow ==
    ASSUME GitOK, NEW r \in Row
    PROVE  Refreshed(r) \in Row /\ Headed(Refreshed(r))
  <1> DEFINE commits == ChangesSince(r.value, 0)
  <1>1. r.value \in Branches
    BY DEF Row
  <1>2. CASE IteratorFails(r.value, 0)
    <2>1. 0 \in 0..MaxCommits
      BY WatcherAssumption
    <2>2. Refreshed(r) = [r EXCEPT !.last = 0, !.errored = TRUE]
      BY <1>2 DEF Refreshed
    <2> QED
      BY <2>1, <2>2 DEF Row, Headed
  <1>3. CASE ~IteratorFails(r.value, 0)
    <2>1. commits \in Seq(Commits) /\ commits # <<>>
      BY <1>1, <1>3, ChangesSinceSeq
    <2>2. commits[1] \in 0..MaxCommits
      BY <2>1, FirstCommit
    <2>3. Refreshed(r) = [r EXCEPT !.last = commits[1], !.hist = commits, !.errored = FALSE]
      BY <1>3 DEF Refreshed
    <2> HIDE DEF commits
    <2> QED
      BY <2>1, <2>2, <2>3 DEF Row, Headed
  <1> QED
    BY <1>2, <1>3

\* UpdateRows leaves a table of rows.
LEMMA UpdateRowsTable ==
    ASSUME TablesOK, NEW out \in [Pipelines -> Row \cup {Absent}], UpdateRows(out)
    PROVE  /\ row' \in [Pipelines -> Row \cup {Absent}]
           /\ (\A p \in Rows(out) : Headed(out[p])) /\ HistoryHead => HistoryHead'
  <1>1. \A p \in Pipelines : row[p] \in Row \cup {Absent} /\ out[p] \in Row \cup {Absent}
    BY DEF TablesOK
  <1>2. \A p \in Pipelines : row'[p] = IF p \in Rows(out) THEN Written(row[p], out[p]) ELSE row[p]
    BY DEF UpdateRows
  <1>3. ASSUME NEW old \in Row \cup {Absent}, NEW new \in Row
        PROVE  /\ Written(old, new) \in Row \cup {Absent}
               /\ old = Absent => Written(old, new) = Absent
               /\ old # Absent /\ Headed(old) /\ Headed(new) => Headed(Written(old, new))
    BY <1>3 DEF Written, Row, Headed
  <1>4. \A p \in Pipelines : row'[p] \in Row \cup {Absent}
    BY <1>1, <1>2, <1>3 DEF Rows
  <1>5. row' \in [Pipelines -> Row \cup {Absent}]
    BY <1>4 DEF UpdateRows
  <1>6. ASSUME \A p \in Rows(out) : Headed(out[p]), HistoryHead
        PROVE  HistoryHead'
    BY <1>1, <1>2, <1>3, <1>6 DEF HistoryHead, Saved, Rows
  <1> QED
    BY <1>5, <1>6

-----------------------------------------------------------------------------
(* How a handler's step changes the handlers. *)

\* Where a handler works: with the lock, unless it is SavePipelineMaterial.
AtWork(j) == j.at \notin {"idle", "lock"}

\* A handler at work goes on.
LEMMA WorkStep ==
    ASSUME HandlersOK, NEW h \in Handlers, NEW j \in Job,
           Become(h, j), UNCHANGED <<stage, on>>,
           j.op = job[h].op, AtWork(job[h]), AtWork(j)
    PROVE  HandlersOK'
  <1>1. job' \in [Handlers -> Job]
    BY DEF HandlersOK, Become
  <1>2. LockedAsCalled(h)'
    BY DEF HandlersOK, Become, LockedAsCalled, AtWork
  <1>3. ASSUME NEW g \in Handlers, g # h
        PROVE  LockedAsCalled(g)'
    BY <1>3 DEF HandlersOK, Become, LockedAsCalled
  <1> QED
    BY <1>1, <1>2, <1>3 DEF HandlersOK

\* A handler gets the lock.
LEMMA EnterStep ==
    ASSUME HandlersOK, NEW h \in Handlers, NEW j \in Job,
           Become(h, j), TakeLock(h), job[h].at = "lock",
           j.op = job[h].op, AtWork(j)
    PROVE  HandlersOK'
  <1> USE DEF TakeLock, Mutex!Enter
  <1>1. job' \in [Handlers -> Job] /\ stage' \in [Handlers -> {"out", "waiting", "in"}]
    BY DEF HandlersOK, Become
  <1>2. LockedAsCalled(h)'
    BY DEF HandlersOK, Become, LockedAsCalled, AtWork
  <1>3. ASSUME NEW g \in Handlers, g # h
        PROVE  LockedAsCalled(g)'
    BY <1>3 DEF HandlersOK, Become, LockedAsCalled
  <1> QED
    BY <1>1, <1>2, <1>3 DEF HandlersOK

LEMMA IdleJob == Idle \in Job
  BY DEF Idle, Job, NoOne

\* A handler starts.
LEMMA StartStep ==
    ASSUME HandlersOK, NEW h \in Handlers, NEW j \in Job, Become(h, j),
           job[h].at = "idle",
           \/ j.op # "save" /\ j.at = "lock" /\ Mutex!Request(h, Material)
           \/ j.op = "save" /\ AtWork(j) /\ UNCHANGED <<stage, on>>
    PROVE  HandlersOK'
  <1> USE DEF Mutex!Request
  <1>1. /\ job' \in [Handlers -> Job] /\ stage' \in [Handlers -> {"out", "waiting", "in"}]
        /\ on' \in [Handlers -> SUBSET {Material}]
    BY DEF HandlersOK, Become
  <1>2. LockedAsCalled(h)'
    BY DEF HandlersOK, Become, LockedAsCalled, AtWork
  <1>3. ASSUME NEW g \in Handlers, g # h
        PROVE  LockedAsCalled(g)'
    BY <1>3 DEF HandlersOK, Become, LockedAsCalled
  <1> QED
    BY <1>1, <1>2, <1>3 DEF HandlersOK

\* A handler returns.
LEMMA FinishStep ==
    ASSUME HandlersOK, NEW h \in Handlers, Finish(h), AtWork(job[h])
    PROVE  HandlersOK'
  <1> USE IdleJob DEF Finish, Mutex!Leave
  <1>1. /\ job' \in [Handlers -> Job] /\ stage' \in [Handlers -> {"out", "waiting", "in"}]
        /\ on' \in [Handlers -> SUBSET {Material}]
    BY DEF HandlersOK, Become
  <1>2. LockedAsCalled(h)'
    BY DEF HandlersOK, Become, LockedAsCalled, AtWork, Idle
  <1>3. ASSUME NEW g \in Handlers, g # h
        PROVE  LockedAsCalled(g)'
    BY <1>3 DEF HandlersOK, Become, LockedAsCalled
  <1> QED
    BY <1>1, <1>2, <1>3 DEF HandlersOK

-----------------------------------------------------------------------------
(* The inductive invariant: HistoryHead also holds of the rows a handler has *)
(* computed and not yet written.                                             *)

OutHeaded == \A h \in Handlers : \A p \in Rows(job[h].out) : Headed(job[h].out[p])

WatcherInv == TypeOK /\ HistoryHead /\ OutHeaded

LEMMA OutStep ==
    ASSUME HandlersOK, OutHeaded, NEW h \in Handlers, NEW j, Become(h, j),
           \A p \in Rows(j.out) : Headed(j.out[p])
    PROVE  OutHeaded'
  BY DEF HandlersOK, OutHeaded, Become, Rows

LEMMA FaultBounds ==
    ASSUME BoundsOK, NEW kind, Fault(kind)
    PROVE  happened' \subseteq Faults
  BY DEF BoundsOK, Fault

LEMMA SameGit ==
    ASSUME GitOK, UNCHANGED <<made, log, remote>>, refs' \in [Branches -> 0..made]
    PROVE  GitOK'
  BY DEF GitOK

LEMMA SameTables ==
    ASSUME TablesOK, HistoryHead, UNCHANGED <<row, checkedOut, pubs>>
    PROVE  TablesOK' /\ HistoryHead'
  BY DEF TablesOK, HistoryHead, Saved

LEMMA SameRows ==
    ASSUME TablesOK, HistoryHead, UNCHANGED <<row, pubs>>, checkedOut' \in BOOLEAN
    PROVE  TablesOK' /\ HistoryHead'
  BY DEF TablesOK, HistoryHead, Saved

LEMMA RemoteRefs ==
    ASSUME GitOK
    PROVE  remote \in [Branches -> 0..made] /\ refs \in [Branches -> 0..made]
  BY DEF GitOK, Commits

LEMMA FetchErrRefs ==
    ASSUME GitOK, NEW kind, NEW r \in [Branches -> 0..made], NEW f \in FetchErr(kind, r)
    PROVE  f \in [Branches -> 0..made]
  BY RemoteRefs DEF FetchErr

\* The job of a handler after a step that leaves its rows alone.
LEMMA MovedJob ==
    ASSUME HandlersOK, NEW h \in Handlers,
           NEW at \in {"list", "notify", "fetch", "commits", "done", "failed"}
    PROVE  LET j == [job[h] EXCEPT !.at = at]
           IN /\ j \in Job
              /\ j.op = job[h].op /\ j.out = job[h].out
              /\ AtWork(j)
  <1>1. job[h] \in Job
    BY DEF HandlersOK
  <1>2. [job[h] EXCEPT !.at = at] \in Job
    BY <1>1 DEF Job
  <1>3. /\ [job[h] EXCEPT !.at = at].op = job[h].op
        /\ [job[h] EXCEPT !.at = at].out = job[h].out
        /\ [job[h] EXCEPT !.at = at].at = at
    BY <1>1 DEF Job
  <1> QED
    BY <1>2, <1>3 DEF AtWork

LEMMA PollFetchStep ==
    ASSUME WatcherInv, NEW h \in Handlers, PollFetch(h)
    PROVE  WatcherInv'
  <1> USE DEF WatcherInv, TypeOK
  <1>1. /\ UNCHANGED <<made, log, remote, forced, row, checkedOut, pubs, crashes>>
        /\ TakeLock(h) /\ job[h].at = "lock"
    BY DEF PollFetch, env
  <1>2. \E at \in {"list", "done", "failed"} : Become(h, [job[h] EXCEPT !.at = at])
    BY DEF PollFetch
  <1>3. refs' \in [Branches -> 0..made]
    <2>1. \A r : \A f \in FetchOk(r) : f.refs \in [Branches -> 0..made]
      BY RemoteRefs DEF FetchOk
    <2> QED
      BY <2>1, RemoteRefs, FetchErrRefs DEF PollFetch
  <1>4. happened' \subseteq Faults
    BY FaultBounds DEF PollFetch, BoundsOK
  <1>5. PICK at \in {"list", "done", "failed"} : Become(h, [job[h] EXCEPT !.at = at])
    BY <1>2
  <1>6. /\ [job[h] EXCEPT !.at = at] \in Job
        /\ [job[h] EXCEPT !.at = at].op = job[h].op
        /\ [job[h] EXCEPT !.at = at].out = job[h].out
        /\ AtWork([job[h] EXCEPT !.at = at])
    BY MovedJob
  <1>7. HandlersOK'
    BY <1>1, <1>5, <1>6, EnterStep
  <1>8. OutHeaded'
    BY <1>5, <1>6, OutStep DEF OutHeaded
  <1> QED
    BY <1>1, <1>3, <1>4, <1>7, <1>8, SameGit, SameTables DEF BoundsOK

LEMMA PollListStep ==
    ASSUME WatcherInv, NEW h \in Handlers, PollList(h)
    PROVE  WatcherInv'
  <1> USE DEF WatcherInv, TypeOK
  <1> DEFINE new == {p \in Pipelines : Active(p) /\ Polled(row[p]).last # row[p].last}
             out == [p \in Pipelines |-> IF p \in new THEN Polled(row[p]) ELSE Absent]
             j   == [job[h] EXCEPT !.at = "notify", !.todo = new, !.out = out]
  <1>1. /\ Become(h, j) /\ job[h].at = "list"
        /\ UNCHANGED <<stage, on, made, log, remote, forced, refs, row, checkedOut, pubs, happened, crashes>>
    BY DEF PollList, env, faults
  <1>2. \A p \in new : Polled(row[p]) \in Row /\ Headed(Polled(row[p]))
    <2> TAKE p \in new
    <2>1. row[p] \in Row /\ Headed(row[p])
      BY DEF TablesOK, HistoryHead, Active, Saved
    <2> QED
      BY <2>1, PolledRow
  <1> HIDE DEF new
  <1>3. new \subseteq Pipelines
    BY DEF new
  <1>4. out \in [Pipelines -> Row \cup {Absent}] /\ \A p \in Rows(out) : Headed(out[p])
    BY <1>2 DEF Rows
  <1> HIDE DEF out
  <1>5. job[h] \in Job
    BY DEF HandlersOK
  <1>6. j \in Job /\ j.op = job[h].op /\ j.out = out /\ j.at = "notify"
    BY <1>3, <1>4, <1>5 DEF Job
  <1> HIDE DEF j
  <1>7. HandlersOK'
    BY <1>1, <1>6, WorkStep DEF AtWork
  <1>8. OutHeaded'
    BY <1>1, <1>4, <1>6, OutStep
  <1> QED
    BY <1>1, <1>7, <1>8, SameGit, SameTables, RemoteRefs DEF BoundsOK

LEMMA PollNotifyStep ==
    ASSUME WatcherInv, NEW h \in Handlers, NEW p \in Pipelines, PollNotify(h, p)
    PROVE  WatcherInv'
  <1> USE DEF WatcherInv, TypeOK
  <1> DEFINE j == [job[h] EXCEPT !.todo = @ \ {p}]
  <1>1. /\ Become(h, j) /\ job[h].at = "notify"
        /\ UNCHANGED <<stage, on, made, log, remote, forced, refs, row, checkedOut, crashes>>
    BY DEF PollNotify, env
  <1>2. job[h] \in Job
    BY DEF HandlersOK
  <1>3. j \in Job /\ j.op = job[h].op /\ j.out = job[h].out /\ j.at = job[h].at
    BY <1>2 DEF Job
  <1> HIDE DEF j
  <1>4. HandlersOK'
    BY <1>1, <1>3, WorkStep DEF AtWork
  <1>5. OutHeaded'
    BY <1>1, <1>3, OutStep DEF OutHeaded
  <1>6. happened' \subseteq Faults
    BY FaultBounds DEF PollNotify, BoundsOK
  <1>7. pubs' \in [Pipelines -> [Commits -> 0..2]]
    BY DEF PollNotify, TablesOK
  <1>8. TablesOK' /\ HistoryHead'
    BY <1>1, <1>7 DEF TablesOK, HistoryHead, Saved
  <1> QED
    BY <1>1, <1>4, <1>5, <1>6, <1>8, SameGit, RemoteRefs DEF BoundsOK

\* A handler that has nothing to write any more.
LEMMA EmptiedJob ==
    ASSUME HandlersOK, NEW h \in Handlers, NEW at \in {"commits", "done", "unlisted", "failed"},
           NEW todo \in SUBSET Pipelines
    PROVE  LET j == [job[h] EXCEPT !.at = at, !.todo = todo, !.out = NoOne]
               k == [job[h] EXCEPT !.at = at, !.out = NoOne]
           IN /\ j \in Job /\ j.op = job[h].op /\ AtWork(j) /\ Rows(j.out) = {}
              /\ k \in Job /\ k.op = job[h].op /\ AtWork(k) /\ Rows(k.out) = {}
  <1>1. job[h] \in Job
    BY DEF HandlersOK
  <1>2. NoOne \in [Pipelines -> Row \cup {Absent}] /\ Rows(NoOne) = {}
    BY DEF NoOne, Rows
  <1> DEFINE j == [job[h] EXCEPT !.at = at, !.todo = todo, !.out = NoOne]
             k == [job[h] EXCEPT !.at = at, !.out = NoOne]
  <1>3. j \in Job /\ k \in Job
    BY <1>1, <1>2 DEF Job
  <1>4. /\ j.op = job[h].op /\ j.at = at /\ j.out = NoOne
        /\ k.op = job[h].op /\ k.at = at /\ k.out = NoOne
    BY <1>1 DEF Job
  <1> QED
    BY <1>2, <1>3, <1>4 DEF AtWork

\* The rows a handler has computed are rows.
LEMMA JobRows ==
    ASSUME WatcherInv, NEW h \in Handlers
    PROVE  /\ job[h].out \in [Pipelines -> Row \cup {Absent}]
           /\ \A p \in Rows(job[h].out) : Headed(job[h].out[p])
  <1>1. job[h] \in Job
    BY DEF WatcherInv, TypeOK, HandlersOK
  <1> QED
    BY <1>1 DEF WatcherInv, OutHeaded, Job

LEMMA PollSaveStep ==
    ASSUME WatcherInv, NEW h \in Handlers, PollSave(h)
    PROVE  WatcherInv'
  <1> USE DEF WatcherInv, TypeOK
  <1> DEFINE j == [job[h] EXCEPT !.at = "done", !.out = NoOne]
  <1>1. /\ Become(h, j) /\ job[h].at = "notify"
        /\ UNCHANGED <<stage, on, made, log, remote, forced, refs, checkedOut, pubs, crashes>>
    BY DEF PollSave, env
  <1>2. j \in Job /\ j.op = job[h].op /\ AtWork(j) /\ Rows(j.out) = {}
    BY EmptiedJob
  <1> HIDE DEF j
  <1>3. HandlersOK'
    BY <1>1, <1>2, WorkStep DEF AtWork
  <1>4. OutHeaded'
    BY <1>1, <1>2, OutStep
  <1>5. happened' \subseteq Faults
    BY FaultBounds DEF PollSave, BoundsOK
  <1>6. TablesOK' /\ HistoryHead'
    BY <1>1, JobRows, UpdateRowsTable, SameTables DEF PollSave, TablesOK
  <1> QED
    BY <1>1, <1>3, <1>4, <1>5, <1>6, SameGit, RemoteRefs DEF BoundsOK

LEMMA ReturnStep ==
    ASSUME WatcherInv, NEW h \in Handlers, Return(h) \/ ReturnUnsaved(h)
    PROVE  WatcherInv'
  <1> USE DEF WatcherInv, TypeOK
  <1>1. /\ Finish(h) /\ job[h].at \in {"done", "unlisted", "failed"}
        /\ UNCHANGED <<made, log, remote, forced, refs, row, pubs, crashes>>
    BY DEF Return, ReturnUnsaved, env, faults
  <1>2. HandlersOK'
    BY <1>1, FinishStep DEF AtWork
  <1>3. OutHeaded'
    <2>1. Rows(Idle.out) = {}
      BY DEF Idle, NoOne, Rows
    <2> QED
      BY <1>1, <2>1, OutStep DEF Finish
  <1>4. happened' \subseteq Faults
    BY FaultBounds DEF Return, ReturnUnsaved, faults, BoundsOK
  <1>5. checkedOut' \in BOOLEAN
    BY DEF Return, ReturnUnsaved, TablesOK
  <1> QED
    BY <1>1, <1>2, <1>3, <1>4, <1>5, SameGit, SameRows, RemoteRefs DEF BoundsOK

LEMMA CallStep ==
    ASSUME WatcherInv, NEW h \in Handlers, NEW op \in {"poll", "latest", "checkout"}, Call(h, op)
    PROVE  WatcherInv'
  <1> USE DEF WatcherInv, TypeOK
  <1> DEFINE j == [Idle EXCEPT !.op = op, !.at = "lock"]
  <1>1. /\ Become(h, j) /\ job[h].at = "idle" /\ Mutex!Request(h, Material)
        /\ UNCHANGED <<made, log, remote, forced, refs, row, checkedOut, pubs, happened, crashes>>
    BY DEF Call, env, faults
  <1>2. j \in Job /\ j.op # "save" /\ j.at = "lock"
    BY IdleJob DEF Job, Idle
  <1>3. Rows(j.out) = {}
    BY DEF Idle, NoOne, Rows
  <1> HIDE DEF j
  <1>4. HandlersOK'
    BY <1>1, <1>2, StartStep
  <1>5. OutHeaded'
    BY <1>1, <1>3, OutStep
  <1> QED
    BY <1>1, <1>4, <1>5, SameGit, SameTables, RemoteRefs DEF BoundsOK

LEMMA LatestFetchStep ==
    ASSUME WatcherInv, NEW h \in Handlers, LatestFetch(h)
    PROVE  WatcherInv'
  <1> USE DEF WatcherInv, TypeOK
  <1>1. /\ UNCHANGED <<made, log, remote, forced, row, pubs, crashes>>
        /\ TakeLock(h) /\ job[h].at = "lock"
    BY DEF LatestFetch, env
  <1>2. PICK at \in {"list", "failed"} : Become(h, [job[h] EXCEPT !.at = at])
    BY DEF LatestFetch
  <1>3. refs' \in [Branches -> 0..made]
    BY RemoteRefs, FetchErrRefs DEF LatestFetch, FetchFails
  <1>4. happened' \subseteq Faults
    BY FaultBounds DEF LatestFetch, FetchFails, BoundsOK
  <1>5. /\ [job[h] EXCEPT !.at = at] \in Job
        /\ [job[h] EXCEPT !.at = at].op = job[h].op
        /\ [job[h] EXCEPT !.at = at].out = job[h].out
        /\ AtWork([job[h] EXCEPT !.at = at])
    BY MovedJob
  <1>6. HandlersOK'
    BY <1>1, <1>2, <1>5, EnterStep
  <1>7. OutHeaded'
    BY <1>2, <1>5, OutStep DEF OutHeaded
  <1>8. checkedOut' \in BOOLEAN
    BY DEF LatestFetch, TablesOK
  <1> QED
    BY <1>1, <1>3, <1>4, <1>6, <1>7, <1>8, SameGit, SameRows DEF BoundsOK

LEMMA CheckoutWipeStep ==
    ASSUME WatcherInv, NEW h \in Handlers, CheckoutWipe(h)
    PROVE  WatcherInv'
  <1> USE DEF WatcherInv, TypeOK
  <1> DEFINE j == [job[h] EXCEPT !.at = "fetch"]
  <1>1. /\ UNCHANGED <<made, log, remote, forced, row, checkedOut, pubs, happened, crashes>>
        /\ TakeLock(h) /\ job[h].at = "lock" /\ Become(h, j)
    BY DEF CheckoutWipe, env, faults
  <1>2. refs' \in [Branches -> 0..made]
    <2>1. 0 \in 0..made
      BY DEF GitOK, Commits
    <2> QED
      BY <2>1 DEF CheckoutWipe
  <1>3. j \in Job /\ j.op = job[h].op /\ j.out = job[h].out /\ AtWork(j)
    BY MovedJob
  <1> HIDE DEF j
  <1>4. HandlersOK'
    BY <1>1, <1>3, EnterStep
  <1>5. OutHeaded'
    BY <1>1, <1>3, OutStep DEF OutHeaded
  <1> QED
    BY <1>1, <1>2, <1>4, <1>5, SameGit, SameTables DEF BoundsOK

LEMMA CheckoutFetchStep ==
    ASSUME WatcherInv, NEW h \in Handlers, CheckoutFetch(h)
    PROVE  WatcherInv'
  <1> USE DEF WatcherInv, TypeOK
  <1>1. /\ UNCHANGED <<stage, on, made, log, remote, forced, row, pubs, crashes>>
        /\ job[h].at = "fetch"
    BY DEF CheckoutFetch, env
  <1>2. PICK at \in {"list", "failed"} : Become(h, [job[h] EXCEPT !.at = at])
    BY DEF CheckoutFetch
  <1>3. refs' \in [Branches -> 0..made]
    BY RemoteRefs, FetchErrRefs DEF CheckoutFetch, FetchFails
  <1>4. happened' \subseteq Faults
    BY FaultBounds DEF CheckoutFetch, FetchFails, BoundsOK
  <1>5. /\ [job[h] EXCEPT !.at = at] \in Job
        /\ [job[h] EXCEPT !.at = at].op = job[h].op
        /\ [job[h] EXCEPT !.at = at].out = job[h].out
        /\ AtWork([job[h] EXCEPT !.at = at])
    BY MovedJob
  <1>6. HandlersOK'
    BY <1>1, <1>2, <1>5, WorkStep DEF AtWork
  <1>7. OutHeaded'
    BY <1>2, <1>5, OutStep DEF OutHeaded
  <1>8. checkedOut' \in BOOLEAN
    BY DEF CheckoutFetch, TablesOK
  <1> QED
    BY <1>1, <1>3, <1>4, <1>6, <1>7, <1>8, SameGit, SameRows DEF BoundsOK

LEMMA ListActiveStep ==
    ASSUME WatcherInv, NEW h \in Handlers, ListActive(h)
    PROVE  WatcherInv'
  <1> USE DEF WatcherInv, TypeOK
  <1> DEFINE live == {p \in Pipelines : Active(p)}
             j    == [job[h] EXCEPT !.at = "commits", !.todo = live]
  <1>1. /\ Become(h, j) /\ job[h].at = "list"
        /\ UNCHANGED <<stage, on, made, log, remote, forced, refs, row, checkedOut, pubs, happened, crashes>>
    BY DEF ListActive, env, faults
  <1>2. job[h] \in Job
    BY DEF HandlersOK
  <1>3. live \subseteq Pipelines
    OBVIOUS
  <1> HIDE DEF live
  <1>4. j \in Job /\ j.op = job[h].op /\ j.out = job[h].out /\ j.at = "commits"
    BY <1>2, <1>3 DEF Job
  <1> HIDE DEF j
  <1>5. HandlersOK'
    BY <1>1, <1>4, WorkStep DEF AtWork
  <1>6. OutHeaded'
    BY <1>1, <1>4, OutStep DEF OutHeaded
  <1> QED
    BY <1>1, <1>5, <1>6, SameGit, SameTables, RemoteRefs DEF BoundsOK

LEMMA CommitReadStep ==
    ASSUME WatcherInv, NEW h \in Handlers, NEW p \in Pipelines, CommitRead(h, p)
    PROVE  WatcherInv'
  <1> USE DEF WatcherInv, TypeOK
  <1>1. /\ job[h].at = "commits" /\ job[h] \in Job
        /\ UNCHANGED <<stage, on, made, log, remote, forced, refs, row, checkedOut, pubs, happened, crashes>>
    BY DEF CommitRead, env, faults, HandlersOK
  <1>2. ASSUME Active(p)
        PROVE  HandlersOK' /\ OutHeaded'
    <2> DEFINE r == Refreshed(row[p])
               j == [job[h] EXCEPT !.todo = @ \ {p}, !.out[p] = r]
    <2>1. Become(h, j)
      BY <1>2 DEF CommitRead
    <2>2. r \in Row /\ Headed(r)
      BY <1>2, RefreshedRow DEF TablesOK, Active, Saved
    <2> HIDE DEF r
    <2>3. /\ j \in Job /\ j.op = job[h].op /\ j.at = "commits"
          /\ j.out = [job[h].out EXCEPT ![p] = r]
      BY <1>1, <2>2 DEF Job
    <2> HIDE DEF j
    <2>4. \A q \in Rows(j.out) : Headed(j.out[q])
      BY <2>2, <2>3, JobRows DEF Rows
    <2> QED
      BY <1>1, <2>1, <2>3, <2>4, WorkStep, OutStep DEF AtWork
  <1>3. ASSUME ~Active(p)
        PROVE  HandlersOK' /\ OutHeaded'
    <2> DEFINE j == [job[h] EXCEPT !.at = "failed"]
    <2>1. Become(h, j)
      BY <1>3 DEF CommitRead
    <2>2. j \in Job /\ j.op = job[h].op /\ j.out = job[h].out /\ AtWork(j)
      BY MovedJob
    <2> HIDE DEF j
    <2> QED
      BY <1>1, <2>1, <2>2, WorkStep, OutStep DEF AtWork, OutHeaded
  <1>4. HandlersOK' /\ OutHeaded'
    BY <1>2, <1>3
  <1> QED
    BY <1>1, <1>4, SameGit, SameTables, RemoteRefs DEF BoundsOK

LEMMA CommitSkipStep ==
    ASSUME WatcherInv, NEW h \in Handlers, NEW p \in Pipelines, CommitSkip(h, p)
    PROVE  WatcherInv'
  <1> USE DEF WatcherInv, TypeOK
  <1> DEFINE j == [job[h] EXCEPT !.todo = @ \ {p}]
  <1>1. /\ Become(h, j) /\ job[h].at = "commits" /\ job[h] \in Job
        /\ UNCHANGED <<stage, on, made, log, remote, forced, refs, row, checkedOut, pubs, crashes>>
    BY DEF CommitSkip, env, HandlersOK
  <1>2. j \in Job /\ j.op = job[h].op /\ j.at = "commits" /\ j.out = job[h].out
    BY <1>1 DEF Job
  <1> HIDE DEF j
  <1>3. HandlersOK' /\ OutHeaded'
    BY <1>1, <1>2, WorkStep, OutStep DEF AtWork, OutHeaded
  <1>4. happened' \subseteq Faults
    BY FaultBounds DEF CommitSkip, BoundsOK
  <1> QED
    BY <1>1, <1>3, <1>4, SameGit, SameTables, RemoteRefs DEF BoundsOK

LEMMA CommitWriteStep ==
    ASSUME WatcherInv, NEW h \in Handlers, CommitWrite(h)
    PROVE  WatcherInv'
  <1> USE DEF WatcherInv, TypeOK
  <1> DEFINE j == [job[h] EXCEPT !.at = "done", !.out = NoOne]
  <1>1. /\ Become(h, j) /\ job[h].at = "commits" /\ UpdateRows(job[h].out)
        /\ UNCHANGED <<stage, on, made, log, remote, forced, refs, checkedOut, pubs, happened, crashes>>
    BY DEF CommitWrite, env, faults
  <1>2. j \in Job /\ j.op = job[h].op /\ AtWork(j) /\ Rows(j.out) = {}
    BY EmptiedJob
  <1> HIDE DEF j
  <1>3. HandlersOK' /\ OutHeaded'
    BY <1>1, <1>2, WorkStep, OutStep DEF AtWork
  <1>4. TablesOK' /\ HistoryHead'
    BY <1>1, JobRows, UpdateRowsTable DEF TablesOK
  <1> QED
    BY <1>1, <1>3, <1>4, SameGit, RemoteRefs DEF BoundsOK

LEMMA AbortStep ==
    ASSUME WatcherInv, NEW h \in Handlers, Abort(h)
    PROVE  WatcherInv'
  <1> USE DEF WatcherInv, TypeOK
  <1> DEFINE at == IF job[h].op = "poll" THEN "unlisted" ELSE "failed"
             j  == [job[h] EXCEPT !.at = at, !.todo = {}, !.out = NoOne]
  <1>1. /\ Become(h, j) /\ job[h].at \in {"list", "commits", "insert", "update"}
        /\ UNCHANGED <<stage, on, made, log, remote, forced, refs, row, checkedOut, pubs, crashes>>
    BY DEF Abort, env
  <1>2. j \in Job /\ j.op = job[h].op /\ AtWork(j) /\ Rows(j.out) = {}
    <2>1. at \in {"unlisted", "failed"}
      OBVIOUS
    <2> HIDE DEF at
    <2> QED
      BY <2>1, EmptiedJob, ZenonT(30)
  <1> HIDE DEF j
  <1>3. HandlersOK' /\ OutHeaded'
    BY <1>1, <1>2, WorkStep, OutStep DEF AtWork
  <1>4. happened' \subseteq Faults
    BY FaultBounds DEF Abort, BoundsOK
  <1> QED
    BY <1>1, <1>3, <1>4, SameGit, SameTables, RemoteRefs DEF BoundsOK

LEMMA SaveCallStep ==
    ASSUME WatcherInv, NEW h \in Handlers, NEW p \in Pipelines, SaveCall(h, p)
    PROVE  WatcherInv'
  <1> USE DEF WatcherInv, TypeOK
  <1>1. /\ job[h].at = "idle"
        /\ UNCHANGED <<stage, on, made, log, remote, forced, refs, row, checkedOut, pubs, happened, crashes>>
    BY DEF SaveCall, env, faults
  <1> DEFINE r(b, a)     == [value |-> b, active |-> a, last |-> 0, hist |-> <<>>,
                             errored |-> FALSE]
             j(at, b, a) == [Idle EXCEPT !.op = "save", !.at = at, !.out[p] = r(b, a)]
  <1>2. PICK b \in Branches, a \in BOOLEAN, at \in {"update", "insert"} : Become(h, j(at, b, a))
    BY DEF SaveCall
  <1>3. r(b, a) \in Row /\ Headed(r(b, a))
    <2>1. 0 \in 0..MaxCommits /\ <<>> \in Seq(Commits)
      BY WatcherAssumption
    <2> QED
      BY <2>1 DEF Row, Headed
  <1> HIDE DEF r
  <1>4. /\ j(at, b, a) \in Job /\ j(at, b, a).op = "save" /\ j(at, b, a).at = at
        /\ j(at, b, a).out = [NoOne EXCEPT ![p] = r(b, a)]
    BY <1>3, IdleJob DEF Idle, Job
  <1> HIDE DEF j
  <1>5. \A q \in Rows(j(at, b, a).out) : Headed(j(at, b, a).out[q])
    BY <1>3, <1>4 DEF Rows, NoOne
  <1>6. HandlersOK' /\ OutHeaded'
    BY <1>1, <1>2, <1>4, <1>5, StartStep, OutStep DEF AtWork
  <1> QED
    BY <1>1, <1>6, SameGit, SameTables, RemoteRefs DEF BoundsOK

LEMMA SaveUpdateStep ==
    ASSUME WatcherInv, NEW h \in Handlers, SaveUpdate(h)
    PROVE  WatcherInv'
  <1> USE DEF WatcherInv, TypeOK
  <1> DEFINE live == {p \in Rows(job[h].out) : job[h].out[p].active}
             j    == [job[h] EXCEPT !.at = "commits", !.todo = live, !.out = NoOne]
  <1>1. /\ Become(h, j) /\ job[h].at = "update" /\ UpdateRows(job[h].out)
        /\ UNCHANGED <<stage, on, made, log, remote, forced, refs, checkedOut, pubs, happened, crashes>>
    BY DEF SaveUpdate, env, faults
  <1>2. live \in SUBSET Pipelines
    BY DEF Rows
  <1>3. j \in Job /\ j.op = job[h].op /\ AtWork(j) /\ Rows(j.out) = {}
    BY <1>2, EmptiedJob
  <1> HIDE DEF j
  <1>4. HandlersOK' /\ OutHeaded'
    BY <1>1, <1>3, WorkStep, OutStep DEF AtWork
  <1>5. TablesOK' /\ HistoryHead'
    BY <1>1, JobRows, UpdateRowsTable DEF TablesOK
  <1> QED
    BY <1>1, <1>4, <1>5, SameGit, RemoteRefs DEF BoundsOK

LEMMA SaveInsertStep ==
    ASSUME WatcherInv, NEW h \in Handlers, SaveInsert(h)
    PROVE  WatcherInv'
  <1> USE DEF WatcherInv, TypeOK
  <1> DEFINE inserts == ~ \E p \in Rows(job[h].out) : Saved(p)
  <1>1. /\ job[h].at = "insert"
        /\ UNCHANGED <<stage, on, made, log, remote, forced, refs, checkedOut, pubs, happened, crashes>>
    BY DEF SaveInsert, env, faults
  <1>2. HandlersOK' /\ OutHeaded'
    <2>1. PICK at \in {"commits", "failed"}, todo \in SUBSET Pipelines :
             \/ Become(h, [job[h] EXCEPT !.at = at, !.todo = todo, !.out = NoOne])
             \/ Become(h, [job[h] EXCEPT !.at = at, !.out = NoOne])
      <3>1. Rows(job[h].out) \in SUBSET Pipelines
        BY DEF Rows
      <3> QED
        BY <3>1 DEF SaveInsert
    <2> DEFINE j == [job[h] EXCEPT !.at = at, !.todo = todo, !.out = NoOne]
               k == [job[h] EXCEPT !.at = at, !.out = NoOne]
    <2>2. /\ j \in Job /\ j.op = job[h].op /\ AtWork(j) /\ Rows(j.out) = {}
          /\ k \in Job /\ k.op = job[h].op /\ AtWork(k) /\ Rows(k.out) = {}
      BY EmptiedJob, ZenonT(30)
    <2>3. Become(h, j) \/ Become(h, k)
      BY <2>1
    <2> HIDE DEF j, k
    <2> QED
      BY <1>1, <2>2, <2>3, WorkStep, OutStep DEF AtWork
  <1>3. TablesOK' /\ HistoryHead'
    <2>1. CASE inserts
      BY <1>1, <2>1, JobRows DEF SaveInsert, TablesOK, HistoryHead, Saved, Rows
    <2>2. CASE ~inserts
      BY <1>1, <2>2, SameTables DEF SaveInsert
    <2> QED
      BY <2>1, <2>2
  <1> QED
    BY <1>1, <1>2, <1>3, SameGit, RemoteRefs DEF BoundsOK

LEMMA CrashStep ==
    ASSUME WatcherInv, Crash
    PROVE  WatcherInv'
  <1> USE DEF WatcherInv, TypeOK
  <1>1. /\ job' = [h \in Handlers |-> Idle] /\ stage' = [h \in Handlers |-> "out"]
        /\ on' = [h \in Handlers |-> {}]
        /\ UNCHANGED <<made, log, remote, forced, refs, row, checkedOut, pubs, happened>>
    BY DEF Crash, env
  <1>2. HandlersOK'
    BY <1>1, IdleJob DEF HandlersOK, LockedAsCalled, Idle
  <1>3. OutHeaded'
    BY <1>1 DEF OutHeaded, Rows, Idle, NoOne
  <1>4. BoundsOK'
    BY <1>1, WatcherAssumption DEF Crash, BoundsOK
  <1> QED
    BY <1>1, <1>2, <1>3, <1>4, SameGit, SameTables, RemoteRefs

\* The environment: pushes and moved branches.
LEMMA ForceBounds ==
    ASSUME BoundsOK, NEW must \in BOOLEAN, CountForced(must)
    PROVE  forced' \in 0..MaxForced
  BY WatcherAssumption DEF BoundsOK, CountForced

LEMMA PushStep ==
    ASSUME WatcherInv, NEW b \in Branches, Push(b)
    PROVE  WatcherInv'
  <1> USE DEF WatcherInv, TypeOK
  <1>1. /\ made' = made + 1 /\ made < MaxCommits
        /\ remote' = [remote EXCEPT ![b] = made + 1]
        /\ UNCHANGED <<stage, on, refs, row, checkedOut, job, pubs, happened, crashes>>
    BY DEF Push, faults
  <1>2. PICK c \in 1..made : log' = [log EXCEPT ![made + 1] = <<made + 1>> \o log[c]]
    BY DEF Push
  <1>3. made \in 1..MaxCommits /\ made + 1 \in 1..MaxCommits /\ MaxCommits \in Nat
    BY <1>1, WatcherAssumption DEF GitOK, Commits
  <1>4. log[c] \in Seq(Commits)
    <2>1. c \in 0..MaxCommits
      BY <1>3
    <2> QED
      BY <2>1 DEF GitOK
  <1> DEFINE new == <<made + 1>> \o log[c]
  <1>5. new \in Seq(Commits) /\ new # <<>>
    <2>1. <<made + 1>> \in Seq(Commits) /\ Len(<<made + 1>>) = 1
      BY <1>3 DEF Commits
    <2>2. new \in Seq(Commits) /\ Len(new) = 1 + Len(log[c]) /\ Len(log[c]) \in Nat
      BY <1>4, <2>1, ConcatProperties, LenProperties
    <2> HIDE DEF new
    <2> QED
      BY <2>2, EmptySeq
  <1>6. log' = [log EXCEPT ![made + 1] = new]
    BY <1>2
  <1> HIDE DEF new
  <1>7. GitOK'
    <2>1. made' \in Commits /\ refs' \in [Branches -> 0..made'] /\ remote' \in [Branches -> 1..made']
      <3>1. made' \in Commits /\ made' = made + 1 /\ refs' = refs
        BY <1>1, <1>3 DEF Commits
      <3>2. 1..made \subseteq 1..made' /\ 0..made \subseteq 0..made' /\ made + 1 \in 1..made'
        BY <1>3, <3>1
      <3>3. refs \in [Branches -> 0..made] /\ remote \in [Branches -> 1..made]
        BY DEF GitOK
      <3>4. refs' \in [Branches -> 0..made']
        BY <3>1, <3>2, <3>3
      <3>5. remote' \in [Branches -> 1..made']
        BY <1>1, <3>2, <3>3
      <3> QED
        BY <3>1, <3>4, <3>5
    <2>2. log' \in [0..MaxCommits -> Seq(Commits)]
      BY <1>5, <1>6 DEF GitOK
    <2>3. ASSUME NEW d \in 1..made'
          PROVE  log'[d] # <<>>
      <3>1. d \in 0..MaxCommits /\ made + 1 \in 0..MaxCommits /\ (d # made + 1 => d \in 1..made)
        BY <1>1, <1>3
      <3> QED
        BY <1>5, <1>6, <3>1 DEF GitOK
    <2> QED
      BY <2>1, <2>2, <2>3 DEF GitOK
  <1>8. HandlersOK' /\ OutHeaded'
    BY <1>1 DEF HandlersOK, LockedAsCalled, OutHeaded
  <1>9. BoundsOK'
    <2>1. PICK d \in 1..made : CountForced(d # remote[b])
      BY DEF Push
    <2>2. (d # remote[b]) \in BOOLEAN
      OBVIOUS
    <2>3. forced' \in 0..MaxForced
      BY <2>1, <2>2, ForceBounds
    <2> QED
      BY <1>1, <2>3 DEF BoundsOK
  <1> QED
    BY <1>1, <1>7, <1>8, <1>9, SameTables

LEMMA ResetStep ==
    ASSUME WatcherInv, NEW b \in Branches, Reset(b)
    PROVE  WatcherInv'
  <1> USE DEF WatcherInv, TypeOK
  <1>1. UNCHANGED <<stage, on, made, log, refs, row, checkedOut, job, pubs, happened, crashes>>
    BY DEF Reset, faults
  <1>2. GitOK'
    BY <1>1 DEF Reset, GitOK
  <1>3. HandlersOK' /\ OutHeaded'
    BY <1>1 DEF HandlersOK, LockedAsCalled, OutHeaded
  <1>4. BoundsOK'
    <2>1. forced' \in 0..MaxForced
      BY ForceBounds DEF Reset
    <2> QED
      BY <1>1, <2>1 DEF BoundsOK
  <1> QED
    BY <1>1, <1>2, <1>3, <1>4, SameTables

-----------------------------------------------------------------------------

LEMMA InitInv ==
    ASSUME Init
    PROVE  WatcherInv
  <1> DEFINE chain(c) == IF c <= FirstCommits THEN [i \in 1..c |-> c + 1 - i] ELSE <<>>
  <1>1. /\ FirstCommits \in 1..MaxCommits /\ MaxCommits \in Nat
        /\ made = FirstCommits /\ log = [c \in 0..MaxCommits |-> chain(c)]
    BY WatcherAssumption DEF Init
  <1>2. ASSUME NEW c \in 0..MaxCommits
        PROVE  chain(c) \in Seq(Commits)
    <2>1. CASE c <= FirstCommits
      <3>1. [i \in 1..c |-> c + 1 - i] \in [1..c -> Commits] /\ c \in Nat
        BY <1>1, <2>1 DEF Commits
      <3> QED
        BY <2>1, <3>1
    <2>2. CASE ~(c <= FirstCommits)
      BY <2>2
    <2> QED
      BY <2>1, <2>2
  <1>3. log \in [0..MaxCommits -> Seq(Commits)]
    BY <1>1, <1>2
  <1>4. ASSUME NEW c \in 1..made
        PROVE  log[c] # <<>> /\ log[c][1] = c
    <2>1. log[c] = [i \in 1..c |-> c + 1 - i] /\ c \in Nat /\ 1 \in 1..c
      BY <1>1
    <2>2. Len(log[c]) = c /\ log[c][1] = c
      BY <2>1
    <2> QED
      BY <2>1, <2>2, EmptySeq
  <1> HIDE DEF chain
  <1>5. remote \in [Branches -> 1..made] /\ refs \in [Branches -> 0..made]
    BY <1>1 DEF Init
  <1>6. GitOK
    BY <1>1, <1>3, <1>4, <1>5 DEF GitOK, Commits
  <1> DEFINE hist == AtMost(HistoryCount, log[FirstCommits])
             first(b) == [value |-> b, active |-> TRUE, last |-> FirstCommits, errored |-> FALSE,
                          hist |-> hist]
  <1>7. row \in [Pipelines -> {Absent} \cup {first(b) : b \in Branches}]
    BY DEF Init
  <1>8. row \in [Pipelines -> Row \cup {Absent}] /\ HistoryHead
    <2>1. log[FirstCommits] \in Seq(Commits)
      BY <1>1, <1>3
    <2>2. log[FirstCommits] # <<>> /\ log[FirstCommits][1] = FirstCommits
      BY <1>1, <1>4
    <2>3. hist \in Seq(Commits) /\ hist # <<>> /\ hist[1] = FirstCommits
      BY <2>1, <2>2, AtMostSeq
    <2> HIDE DEF hist
    <2>4. ASSUME NEW b \in Branches
          PROVE  first(b) \in Row /\ Headed(first(b))
      <3>1. FirstCommits \in 0..MaxCommits
        BY <1>1
      <3> QED
        BY <2>3, <3>1 DEF Row, Headed
    <2> HIDE DEF first
    <2> QED
      BY <1>7, <2>4 DEF HistoryHead, Saved
  <1>9. TablesOK
    BY <1>8 DEF Init, TablesOK
  <1>10. HandlersOK
    BY IdleJob DEF Init, Mutex!Init, HandlersOK, LockedAsCalled, Idle
  <1>11. OutHeaded
    BY DEF Init, OutHeaded, Rows, Idle, NoOne
  <1>12. BoundsOK
    BY WatcherAssumption DEF Init, BoundsOK
  <1> QED
    BY <1>6, <1>8, <1>9, <1>10, <1>11, <1>12 DEF WatcherInv, TypeOK

LEMMA NextInv ==
    ASSUME WatcherInv, [Next]_vars
    PROVE  WatcherInv'
  <1>1. CASE UNCHANGED vars
    BY <1>1 DEF vars, WatcherInv, TypeOK, GitOK, TablesOK, HandlersOK, BoundsOK, LockedAsCalled,
                HistoryHead, Saved, OutHeaded
  <1>2. CASE Crash
    BY <1>2, CrashStep
  <1>3. ASSUME NEW b \in Branches, Push(b) \/ Reset(b)
        PROVE  WatcherInv'
    BY <1>3, PushStep, ResetStep
  <1>4. ASSUME NEW h \in Handlers, Step(h)
        PROVE  WatcherInv'
    BY <1>4, PollFetchStep, PollListStep, PollNotifyStep, PollSaveStep, ReturnStep,
       LatestFetchStep, CheckoutWipeStep, CheckoutFetchStep, ListActiveStep,
       CommitReadStep, CommitSkipStep, CommitWriteStep, AbortStep, SaveUpdateStep, SaveInsertStep
    DEF Step, PollStep, LatestStep, CheckoutStep, CommitStep, SaveStep
  <1>5. ASSUME NEW h \in Handlers,
               \/ \E op \in {"poll", "latest", "checkout"} : Call(h, op)
               \/ \E p \in Pipelines : SaveCall(h, p)
        PROVE  WatcherInv'
    BY <1>5, CallStep, SaveCallStep
  <1> QED
    BY <1>1, <1>2, <1>3, <1>4, <1>5 DEF Next

\* Every reachable state satisfies the inductive invariant, for any numbers of
\* handlers, pipelines, branches and commits and any faults.
THEOREM WatcherInvariant == SafeSpec => []WatcherInv
  <1>1. Init => WatcherInv
    BY InitInv
  <1>2. WatcherInv /\ [Next]_vars => WatcherInv'
    BY NextInv
  <1> QED
    BY <1>1, <1>2, PTL DEF SafeSpec

\* The state stays well formed and every handler that reads or writes the
\* checkout holds the material's lock (Watcher.go:159-164, RepoManages.go:329).
THEOREM TypeCorrect == SafeSpec => []TypeOK
  <1>1. WatcherInv => TypeOK
    BY DEF WatcherInv
  <1> QED
    BY <1>1, WatcherInvariant, PTL

\* LastSeenHash is the first commit of CommitHistory in every saved row, in
\* whatever order polls, checkouts and saves interleave, fail and die.
THEOREM HistoryHeadAlways == SafeSpec => []HistoryHead
  <1>1. WatcherInv => HistoryHead
    BY DEF WatcherInv
  <1> QED
    BY <1>1, WatcherInvariant, PTL

-----------------------------------------------------------------------------
(* Where only polls write the rows, what a row has seen has been announced:  *)
(* the same must hold of the rows a poll has announced and not yet written.  *)

PollsOnly ==
    \A h \in Handlers :
        /\ job[h].op \in {"none", "poll"}
        /\ job[h].at \in {"idle", "lock", "list", "notify", "done", "unlisted", "failed"}

\* Commit c has been announced to pipeline p, if it has to be.
Told(p, c) == "publish" \notin happened /\ New(c) => pubs[p][c] > 0

OutTold == \A h \in Handlers : \A p \in Rows(job[h].out) \ job[h].todo : Told(p, job[h].out[p].last)

RowsTold == \A p \in Pipelines : Saved(p) => Told(p, row[p].last)

ToldInv == PollsOnly /\ OutTold /\ RowsTold

\* Nothing is forgotten.
LEMMA StaysTold ==
    ASSUME NEW p, NEW c, Told(p, c),
           happened \subseteq happened', New(c) => pubs'[p][c] >= pubs[p][c] /\ pubs[p][c] \in Nat
                                                   /\ pubs'[p][c] \in Nat
    PROVE  Told(p, c)'
  BY DEF Told, New, Commits

LEMMA FaultGrows ==
    ASSUME NEW kind, Fault(kind)
    PROVE  happened \subseteq happened'
  BY DEF Fault

\* A step of h that announces no row and writes none.
LEMMA ToldStep ==
    ASSUME HandlersOK, TablesOK, ToldInv, NEW h \in Handlers, NEW j, Become(h, j),
           UNCHANGED <<row, pubs>>, happened \subseteq happened',
           j.op \in {"none", "poll"},
           j.at \in {"idle", "lock", "list", "notify", "done", "unlisted", "failed"},
           \A p \in Rows(j.out) \ j.todo :
              p \in Rows(job[h].out) \ job[h].todo /\ j.out[p] = job[h].out[p]
    PROVE  ToldInv'
  <1>1. job'[h] = j /\ \A g \in Handlers : g # h => job'[g] = job[g]
    BY DEF HandlersOK, Become
  <1>2. PollsOnly'
    BY <1>1 DEF ToldInv, PollsOnly
  <1>3. \A p \in Pipelines : \A c : Told(p, c) => Told(p, c)'
    BY DEF Told, New
  <1>4. RowsTold'
    BY <1>3 DEF ToldInv, RowsTold, Saved
  <1>5. OutTold'
    BY <1>1, <1>3 DEF ToldInv, OutTold, Rows
  <1> QED
    BY <1>2, <1>4, <1>5 DEF ToldInv

LEMMA ToldNotify ==
    ASSUME HandlersOK, TablesOK, ToldInv,
           NEW h \in Handlers, NEW p \in Pipelines, PollNotify(h, p)
    PROVE  ToldInv'
  <1> DEFINE j == [job[h] EXCEPT !.todo = @ \ {p}]
             c == job[h].out[p].last
  <1>1. /\ Become(h, j) /\ p \in job[h].todo
        /\ UNCHANGED row
    BY DEF PollNotify
  <1>2. job[h] \in Job
    BY DEF HandlersOK
  <1>3. j.op = job[h].op /\ j.at = job[h].at /\ j.out = job[h].out /\ j.todo = job[h].todo \ {p}
    BY <1>2 DEF Job
  <1> HIDE DEF j
  <1>4. job'[h] = j /\ \A g \in Handlers : g # h => job'[g] = job[g]
    BY <1>1 DEF HandlersOK, Become
  <1>5. PollsOnly'
    BY <1>3, <1>4 DEF ToldInv, PollsOnly
  <1>6. happened \subseteq happened'
    BY FaultGrows DEF PollNotify
  <1>7. \A q \in Pipelines, d \in Commits : /\ pubs'[q][d] >= pubs[q][d] /\ pubs[q][d] \in Nat
                                            /\ pubs'[q][d] \in Nat
    <2>1. pubs \in [Pipelines -> [Commits -> 0..2]]
      BY DEF TablesOK
    <2>2. CASE pubs' = [pubs EXCEPT ![p][c] = IF @ = 2 THEN 2 ELSE @ + 1]
      <3> HIDE DEF c
      <3> QED
        BY <2>1, <2>2
    <2>3. CASE UNCHANGED pubs
      BY <2>1, <2>3
    <2> QED
      BY <2>2, <2>3 DEF PollNotify
  <1>8. \A q \in Pipelines : \A d : Told(q, d) => Told(q, d)'
    BY <1>6, <1>7, StaysTold DEF New
  <1>9. "publish" \notin happened' /\ New(c) => pubs'[p][c] > 0
    <2>1. SUFFICES ASSUME "publish" \notin happened', New(c)
                   PROVE  pubs'[p][c] > 0
      OBVIOUS
    <2>2. c \in Commits /\ c \notin Excluded
      BY <2>1 DEF New
    <2>3. ~Fault("publish")
      BY <2>1 DEF Fault
    <2>4. pubs' = [pubs EXCEPT ![p][c] = IF @ = 2 THEN 2 ELSE @ + 1]
      BY <2>2, <2>3 DEF PollNotify
    <2>5. pubs \in [Pipelines -> [Commits -> 0..2]]
      BY DEF TablesOK
    <2> HIDE DEF c
    <2> QED
      BY <2>2, <2>4, <2>5
  <1>10. RowsTold'
    BY <1>1, <1>8 DEF ToldInv, RowsTold, Saved
  <1>11. ASSUME NEW g \in Handlers, NEW q \in Rows(job'[g].out) \ job'[g].todo
         PROVE  Told(q, job[g].out[q].last)'
    <2>1. q \in Pipelines
      BY DEF Rows
    <2>2. CASE g = h /\ q = p
      BY <1>3, <1>4, <1>9, <2>2 DEF Told
    <2>3. CASE g # h \/ q # p
      <3>1. job'[g].out = job[g].out /\ q \in Rows(job[g].out) \ job[g].todo
        BY <1>3, <1>4, <2>3
      <3> QED
        BY <1>8, <2>1, <3>1 DEF ToldInv, OutTold, Told
    <2> QED
      BY <2>2, <2>3
  <1>12. OutTold'
    BY <1>11 DEF OutTold, Rows, Told
  <1> QED
    BY <1>5, <1>10, <1>12 DEF ToldInv

LEMMA ToldSave ==
    ASSUME HandlersOK, TablesOK, ToldInv, NEW h \in Handlers, PollSave(h)
    PROVE  ToldInv'
  <1> DEFINE j == [job[h] EXCEPT !.at = "done", !.out = NoOne]
  <1>1. Become(h, j) /\ UNCHANGED pubs /\ job[h].todo = {} /\ job[h] \in Job
    BY DEF PollSave, HandlersOK
  <1>2. j.op = job[h].op /\ j.at = "done" /\ j.out = NoOne
    BY <1>1 DEF Job
  <1>3. Rows(NoOne) = {}
    BY DEF Rows, NoOne
  <1> HIDE DEF j
  <1>4. job'[h] = j /\ \A g \in Handlers : g # h => job'[g] = job[g]
    BY <1>1 DEF HandlersOK, Become
  <1>5. PollsOnly'
    BY <1>2, <1>4 DEF ToldInv, PollsOnly
  <1>6. happened \subseteq happened'
    BY FaultGrows DEF PollSave
  <1>7. \A p \in Pipelines : \A c : Told(p, c) => Told(p, c)'
    BY <1>1, <1>6 DEF Told, New
  <1>8. OutTold'
    BY <1>2, <1>3, <1>4, <1>7 DEF ToldInv, OutTold, Rows
  <1>9. ASSUME NEW p \in Pipelines, row'[p] # Absent
        PROVE  Told(p, row[p].last)'
    <2>1. CASE row'[p] = row[p]
      BY <1>7, <1>9, <2>1 DEF ToldInv, RowsTold, Saved, Told
    <2>2. CASE row'[p] # row[p]
      <3>1. UpdateRows(job[h].out)
        BY <2>2 DEF PollSave
      <3>2. p \in Rows(job[h].out) /\ row'[p] = Written(row[p], job[h].out[p])
        BY <2>2, <3>1 DEF UpdateRows
      <3>3. job[h].out[p] \in Row
        BY <1>1, <3>2 DEF Job, Rows
      <3>4. row'[p].last = job[h].out[p].last
        BY <1>9, <3>2, <3>3 DEF Written, Row
      <3> QED
        BY <1>1, <1>7, <3>2, <3>4 DEF ToldInv, OutTold, Told
    <2> QED
      BY <2>1, <2>2
  <1>10. RowsTold'
    BY <1>9 DEF RowsTold, Saved, Told
  <1> QED
    BY <1>5, <1>8, <1>10 DEF ToldInv

LEMMA ToldMoves ==
    ASSUME HandlersOK, TablesOK, ToldInv, NEW h \in Handlers,
           PollFetch(h) \/ PollList(h) \/ Abort(h) \/ Return(h) \/ ReturnUnsaved(h)
    PROVE  ToldInv'
  <1>1. job[h] \in Job /\ job[h].op \in {"none", "poll"}
    BY DEF HandlersOK, ToldInv, PollsOnly
  <1>2. Rows(NoOne) = {}
    BY DEF Rows, NoOne
  <1>3. CASE PollFetch(h)
    <2>1. PICK at \in {"list", "done", "failed"} : Become(h, [job[h] EXCEPT !.at = at])
      BY <1>3 DEF PollFetch
    <2>2. happened \subseteq happened' /\ UNCHANGED <<row, pubs>>
      BY <1>3, FaultGrows DEF PollFetch
    <2> DEFINE j == [job[h] EXCEPT !.at = at]
    <2>3. j.op = job[h].op /\ j.at = at /\ j.out = job[h].out /\ j.todo = job[h].todo
      BY <1>1 DEF Job
    <2>4. Become(h, j)
      BY <2>1
    <2> HIDE DEF j
    <2> QED
      BY <1>1, <2>2, <2>3, <2>4, ToldStep
  <1>4. CASE PollList(h)
    <2> DEFINE new == {p \in Pipelines : Active(p) /\ Polled(row[p]).last # row[p].last}
               out == [p \in Pipelines |-> IF p \in new THEN Polled(row[p]) ELSE Absent]
               j   == [job[h] EXCEPT !.at = "notify", !.todo = new, !.out = out]
    <2>1. Become(h, j) /\ UNCHANGED <<row, pubs, happened>>
      BY <1>4 DEF PollList, faults
    <2>2. j.op = job[h].op /\ j.at = "notify" /\ j.out = out /\ j.todo = new
      BY <1>1 DEF Job
    <2>3. Rows(out) \subseteq new
      BY DEF Rows
    <2> HIDE DEF j, new, out
    <2> QED
      BY <1>1, <2>1, <2>2, <2>3, ToldStep
  <1>5. CASE Abort(h)
    <2> DEFINE at == IF job[h].op = "poll" THEN "unlisted" ELSE "failed"
               j  == [job[h] EXCEPT !.at = at, !.todo = {}, !.out = NoOne]
    <2>1. Become(h, j) /\ UNCHANGED <<row, pubs>> /\ happened \subseteq happened'
      BY <1>5, FaultGrows DEF Abort
    <2>2. j.op = job[h].op /\ j.at \in {"unlisted", "failed"} /\ j.out = NoOne
      BY <1>1 DEF Job
    <2> HIDE DEF j
    <2> QED
      BY <1>1, <1>2, <2>1, <2>2, ToldStep
  <1>6. CASE Return(h) \/ ReturnUnsaved(h)
    <2>1. Become(h, Idle) /\ UNCHANGED <<row, pubs>> /\ happened \subseteq happened'
      BY <1>6, FaultGrows DEF Return, ReturnUnsaved, Finish, faults
    <2>2. Idle.op = "none" /\ Idle.at = "idle" /\ Idle.out = NoOne
      BY DEF Idle
    <2> QED
      BY <1>2, <2>1, <2>2, ToldStep
  <1> QED
    BY <1>3, <1>4, <1>5, <1>6

LEMMA ToldNext ==
    ASSUME Ops = {"poll"}, WatcherInv, ToldInv, [Next]_vars
    PROVE  ToldInv'
  <1>1. HandlersOK /\ TablesOK
    BY DEF WatcherInv, TypeOK
  <1>2. CASE UNCHANGED <<row, job, pubs, happened>>
    BY <1>2 DEF ToldInv, PollsOnly, OutTold, RowsTold, Told, New, Rows, Saved
  <1>3. CASE Crash
    <2>1. job' = [h \in Handlers |-> Idle] /\ UNCHANGED <<row, pubs, happened>>
      BY <1>3 DEF Crash
    <2>2. PollsOnly' /\ OutTold'
      BY <2>1 DEF PollsOnly, OutTold, Rows, Idle, NoOne
    <2>3. RowsTold'
      BY <2>1 DEF ToldInv, RowsTold, Told, New, Saved
    <2> QED
      BY <2>2, <2>3 DEF ToldInv
  <1>4. ASSUME NEW h \in Handlers, NEW op, Call(h, op)
        PROVE  ToldInv'
    <2>1. /\ Become(h, [Idle EXCEPT !.op = op, !.at = "lock"]) /\ op = "poll"
          /\ UNCHANGED <<row, pubs, happened>>
      BY <1>4 DEF Call, faults
    <2> DEFINE j == [Idle EXCEPT !.op = op, !.at = "lock"]
    <2>2. j.op = "poll" /\ j.at = "lock" /\ Rows(j.out) = {}
      BY <2>1 DEF Idle, NoOne, Rows
    <2>3. Become(h, j)
      BY <2>1
    <2> HIDE DEF j
    <2> QED
      BY <1>1, <2>1, <2>2, <2>3, ToldStep
  <1>5. ASSUME NEW h \in Handlers, Step(h)
        PROVE  ToldInv'
    <2>1. /\ job[h].op \in {"none", "poll"}
          /\ job[h].at \in {"idle", "lock", "list", "notify", "done", "unlisted", "failed"}
      BY DEF ToldInv, PollsOnly
    <2>2. CASE PollStep(h)
      BY <1>1, <2>2, ToldMoves, ToldNotify, ToldSave DEF PollStep
    <2>3. CASE Abort(h) \/ Return(h) \/ ReturnUnsaved(h)
      BY <1>1, <2>3, ToldMoves
    <2>4. ~LatestStep(h) /\ ~CheckoutStep(h) /\ ~SaveStep(h) /\ ~CommitStep(h)
      BY <2>1 DEF LatestStep, LatestFetch, CheckoutStep, CheckoutWipe, CheckoutFetch, SaveStep,
                  SaveUpdate, SaveInsert, CommitStep, ListActive, CommitRead, CommitSkip, CommitWrite
    <2> QED
      BY <1>5, <2>2, <2>3, <2>4 DEF Step
  <1>6. ASSUME NEW b \in Branches, Push(b) \/ Reset(b)
        PROVE  ToldInv'
    BY <1>2, <1>6 DEF Push, Reset, faults
  <1>7. ~(\E h \in Handlers, p \in Pipelines : SaveCall(h, p))
    BY DEF SaveCall
  <1> QED
    BY <1>2, <1>3, <1>4, <1>5, <1>6, <1>7 DEF Next, vars, faults

LEMMA ToldInit ==
    ASSUME Init
    PROVE  ToldInv
  <1>1. PollsOnly /\ OutTold
    BY DEF Init, PollsOnly, OutTold, Rows, Idle, NoOne
  <1> DEFINE first(b) == [value |-> b, active |-> TRUE, last |-> FirstCommits, errored |-> FALSE,
                          hist |-> AtMost(HistoryCount, log[FirstCommits])]
  <1>2. \A p \in Pipelines : Saved(p) => row[p].last = FirstCommits
    <2>1. row \in [Pipelines -> {Absent} \cup {first(b) : b \in Branches}]
      BY DEF Init
    <2>2. \A b \in Branches : first(b).last = FirstCommits
      OBVIOUS
    <2> HIDE DEF first
    <2> QED
      BY <2>1, <2>2 DEF Saved
  <1>3. RowsTold
    BY <1>2, WatcherAssumption DEF RowsTold, Told, New
  <1> QED
    BY <1>1, <1>3 DEF ToldInv

\* A pipeline whose row moved to a new commit has been told of that commit, for
\* any number of polls and any crashes, as the message goes out before the row
\* is written (Watcher.go:291-295); needed: nothing but polls writes the rows.
THEOREM AnnouncedByPolls ==
    ASSUME Ops = {"poll"}
    PROVE  SafeSpec => []Announced
  <1>1. Init => ToldInv
    BY ToldInit
  <1>2. WatcherInv /\ ToldInv /\ [Next]_vars => ToldInv'
    BY ToldNext
  <1>3. ToldInv => Announced
    BY DEF ToldInv, RowsTold, Told, Announced
  <1> QED
    BY <1>1, <1>2, <1>3, WatcherInvariant, PTL DEF SafeSpec

=============================================================================
