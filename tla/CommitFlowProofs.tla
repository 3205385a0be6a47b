-------------------------- MODULE CommitFlowProofs --------------------------
(***************************************************************************)
(* Further proofs about GitWatcher, of what becomes of a commit: a message *)
(* names a branch's head on disk (PublishedHeads), histories are logs      *)
(* (HistoriesAreLogs), no commit is announced twice (NoRepeats), and a     *)
(* poll that returns has announced every head (RefreshesNotify).           *)
(*                                                                         *)
(* All of them rest on the shape of the commits' logs, on the material's   *)
(* lock, and on what ChangesSince finds in a log.                          *)
(***************************************************************************)
EXTENDS GitWatcherProofs

-----------------------------------------------------------------------------
(* The logs.  A commit's log starts with it, counts down, and goes on from   *)
(* each of its commits as the log of that commit.                            *)

Chain(c) ==
    /\ log[c][1] = c
    /\ \A i \in 1..Len(log[c]) : log[c][i] \in 1..c
    /\ \A i, j \in 1..Len(log[c]) : i < j => log[c][j] < log[c][i]
    /\ \A i \in 1..Len(log[c]) :
          /\ Len(log[log[c][i]]) = Len(log[c]) - i + 1
          /\ \A k \in 1..(Len(log[c]) - i + 1) : log[log[c][i]][k] = log[c][i + k - 1]

LogOK == log[0] = <<>> /\ \A c \in 1..made : Chain(c)

\* What GitOK says of one log.
LEMMA LogSeq ==
    ASSUME GitOK, NEW c \in 0..made
    PROVE  /\ log[c] \in Seq(Commits) /\ Len(log[c]) \in Nat
           /\ DOMAIN log[c] = 1..Len(log[c])
           /\ made \in Nat /\ made <= MaxCommits
           /\ c # 0 => Len(log[c]) >= 1
  <1>1. made \in 1..MaxCommits /\ MaxCommits \in Nat
    BY WatcherAssumption DEF GitOK, Commits
  <1>2. log[c] \in Seq(Commits)
    <2>1. c \in 0..MaxCommits
      BY <1>1
    <2> QED
      BY <2>1 DEF GitOK
  <1>3. Len(log[c]) \in Nat /\ DOMAIN log[c] = 1..Len(log[c])
    BY <1>2, LenProperties
  <1>4. c # 0 => Len(log[c]) >= 1
    <2>1. c # 0 => log[c] # <<>>
      BY <1>1 DEF GitOK
    <2> QED
      BY <1>2, <2>1, EmptySeq
  <1> QED
    BY <1>1, <1>2, <1>3, <1>4

LEMMA InitLog ==
    ASSUME Init
    PROVE  LogOK
  <1>1. /\ FirstCommits \in 1..MaxCommits /\ MaxCommits \in Nat /\ made = FirstCommits
        /\ log = [c \in 0..MaxCommits |->
                    IF c <= FirstCommits THEN [i \in 1..c |-> c + 1 - i] ELSE <<>>]
    BY WatcherAssumption DEF Init
  <1>2. ASSUME NEW c \in 0..made
        PROVE  /\ log[c] = [i \in 1..c |-> c + 1 - i] /\ c \in Nat
               /\ Len(log[c]) = c
    <2>1. log[c] = [i \in 1..c |-> c + 1 - i] /\ c \in Nat
      BY <1>1
    <2>2. Len([i \in 1..c |-> c + 1 - i]) = c
      BY <2>1
    <2> QED
      BY <2>1, <2>2
  <1>3. ASSUME NEW c \in 1..made
        PROVE  Chain(c)
    <2>1. /\ \A i \in 1..c : log[c][i] = c + 1 - i
          /\ Len(log[c]) = c /\ c \in Nat /\ c >= 1
      BY <1>1, <1>2
    <2>2. ASSUME NEW i \in 1..c
          PROVE  /\ Len(log[c + 1 - i]) = c - i + 1
                 /\ \A k \in 1..(c - i + 1) : log[c + 1 - i][k] = log[c][i + k - 1]
      <3>1. c + 1 - i \in 0..made
        BY <1>1, <2>1
      <3>2. /\ Len(log[c + 1 - i]) = c + 1 - i
            /\ \A k \in 1..(c + 1 - i) : log[c + 1 - i][k] = (c + 1 - i) + 1 - k
        BY <1>2, <3>1
      <3>3. Len(log[c + 1 - i]) = c - i + 1
        BY <2>1, <3>2
      <3>4. ASSUME NEW k \in 1..(c - i + 1)
            PROVE  log[c + 1 - i][k] = log[c][i + k - 1]
        <4>1. k \in 1..(c + 1 - i) /\ i + k - 1 \in 1..c
          BY <2>1
        <4>2. log[c + 1 - i][k] = (c + 1 - i) + 1 - k
          BY <3>2, <4>1
        <4>3. log[c][i + k - 1] = c + 1 - (i + k - 1)
          BY <2>1, <4>1
        <4> QED
          BY <2>1, <4>2, <4>3
      <3> QED
        BY <3>3, <3>4
    <2>3. \A i \in 1..c : log[c][i] \in 1..c
      BY <2>1
    <2>4. \A i, j \in 1..c : i < j => log[c][j] < log[c][i]
      BY <2>1
    <2>5. log[c][1] = c
      BY <2>1
    <2>6. \A i \in 1..c : /\ Len(log[log[c][i]]) = c - i + 1
                          /\ \A k \in 1..(c - i + 1) : log[log[c][i]][k] = log[c][i + k - 1]
      BY <2>1, <2>2
    <2> QED
      BY <2>1, <2>3, <2>4, <2>5, <2>6 DEF Chain
  <1>4. log[0] = <<>>
    BY <1>1, <1>2
  <1> QED
    BY <1>3, <1>4 DEF LogOK

\* A push adds one log and changes no other.
LEMMA PushLog ==
    ASSUME GitOK, LogOK, NEW b \in Branches, Push(b)
    PROVE  /\ LogOK'
           /\ \A c \in 0..made : log'[c] = log[c]
           /\ \E c \in 1..made, m \in Nat :
                 /\ m = made + 1 /\ made' = m
                 /\ CountForced(c # remote[b])
                 /\ \A d \in 1..made : InLog(d, c) => InLog(d, m)'
                 /\ InLog(m, m)'
                 /\ Len(log'[m]) > 1
  <1>1. made' = made + 1 /\ made < MaxCommits /\ made \in Nat /\ MaxCommits \in Nat /\ made >= 1
    BY WatcherAssumption DEF Push, GitOK, Commits
  <1> PICK m \in Nat : m = made + 1
    BY <1>1
  <1>2. PICK c \in 1..made : /\ CountForced(c # remote[b])
                             /\ log' = [log EXCEPT ![made + 1] = <<made + 1>> \o log[c]]
    BY DEF Push
  <1> DEFINE n   == Len(log[c])
             new == <<m>> \o log[c]
  <1>3. log[c] \in Seq(Commits) /\ n \in Nat /\ n >= 1 /\ Chain(c) /\ DOMAIN log[c] = 1..n
    BY <1>1, LogSeq DEF LogOK
  <1>4. /\ Len(new) = n + 1 /\ new[1] = m
        /\ \A i \in 1..n : new[i + 1] = log[c][i]
        /\ DOMAIN new = 1..(n + 1)
    <2>1. <<m>> \in Seq(Commits) /\ Len(<<m>>) = 1
      BY <1>1 DEF Commits
    <2>2. /\ new \in Seq(Commits) /\ Len(new) = 1 + n
          /\ \A i \in 1..(1 + n) : new[i] = IF i <= 1 THEN <<m>>[i] ELSE log[c][i - 1]
      BY <1>3, <2>1, ConcatProperties
    <2> HIDE DEF new, n
    <2>3. DOMAIN new = 1..(n + 1)
      BY <1>3, <2>2, LenProperties
    <2>4. \A i \in 1..n : new[i + 1] = log[c][i]
      BY <1>3, <2>2
    <2>5. new[1] = m
      BY <1>3, <2>2
    <2> QED
      BY <1>3, <2>2, <2>3, <2>4, <2>5
  <1>5. log'[m] = new /\ \A d \in 0..made : log'[d] = log[d]
    <2>1. log \in [0..MaxCommits -> Seq(Commits)] /\ m \in 0..MaxCommits
          /\ 0..made \subseteq 0..MaxCommits /\ m \notin 0..made
      BY <1>1 DEF GitOK
    <2> HIDE DEF new
    <2> QED
      BY <1>2, <2>1 DEF new
  <1> HIDE DEF new
  <1>6. ASSUME NEW d \in 1..made
        PROVE  Chain(d)'
    <2>1. Chain(d) /\ log'[d] = log[d] /\ d \in Nat
      BY <1>5 DEF LogOK
    <2>2. \A i \in 1..Len(log[d]) : log'[log[d][i]] = log[log[d][i]]
      BY <1>1, <1>5, <2>1 DEF Chain
    <2>3. \A i \in 1..Len(log[d]) :
             /\ Len(log'[log[d][i]]) = Len(log[d]) - i + 1
             /\ \A k \in 1..(Len(log[d]) - i + 1) : log'[log[d][i]][k] = log[d][i + k - 1]
      BY <2>1, <2>2 DEF Chain
    <2>4. /\ log[d][1] = d
          /\ \A i \in 1..Len(log[d]) : log[d][i] \in 1..d
          /\ \A i, j \in 1..Len(log[d]) : i < j => log[d][j] < log[d][i]
      BY <2>1 DEF Chain
    <2> QED
      BY <2>1, <2>3, <2>4 DEF Chain
  <1>7. Chain(m)'
    <2>1. Len(log[c]) \in Nat /\ \A i \in 1..n : log[c][i] \in 1..c /\ c \in 1..made
      BY <1>3 DEF Chain
    <2>2. log'[m][1] = m
      BY <1>4, <1>5
    <2>3. \A i \in 1..(n + 1) : i = 1 \/ (i - 1 \in 1..n /\ new[i] = log[c][i - 1])
      BY <1>3, <1>4
    <2>4. \A i \in 1..(n + 1) : new[i] \in 1..m
      <3> SUFFICES ASSUME NEW i \in 1..(n + 1)
                   PROVE  new[i] \in 1..m
        OBVIOUS
      <3>1. CASE i = 1
        BY <1>1, <1>4, <3>1
      <3>2. CASE i # 1
        <4>1. new[i] \in 1..c /\ c \in 1..made
          BY <2>1, <2>3, <3>2
        <4> QED
          BY <1>1, <4>1
      <3> QED
        BY <3>1, <3>2
    <2>5. \A i, j \in 1..(n + 1) : i < j => new[j] < new[i]
      <3> SUFFICES ASSUME NEW i \in 1..(n + 1), NEW j \in 1..(n + 1), i < j
                   PROVE  new[j] < new[i]
        OBVIOUS
      <3>1. j - 1 \in 1..n /\ new[j] = log[c][j - 1]
        BY <1>3, <2>3
      <3>2. CASE i = 1
        <4>1. new[j] \in 1..c /\ c \in 1..made
          BY <2>1, <3>1
        <4> QED
          BY <1>1, <1>4, <3>2, <4>1
      <3>3. CASE i # 1
        <4>1. i - 1 \in 1..n /\ new[i] = log[c][i - 1] /\ i - 1 < j - 1
          BY <1>3, <2>3, <3>3
        <4>2. \A k, l \in 1..n : k < l => log[c][l] < log[c][k]
          BY <1>3 DEF Chain
        <4> HIDE DEF n
        <4> QED
          BY <3>1, <4>1, <4>2
      <3> QED
        BY <3>2, <3>3
    <2>6. ASSUME NEW i \in 1..(n + 1)
          PROVE  /\ Len(log'[new[i]]) = n + 1 - i + 1
                 /\ \A k \in 1..(n + 1 - i + 1) : log'[new[i]][k] = new[i + k - 1]
      <3>1. CASE i = 1
        BY <1>3, <1>4, <1>5, <3>1
      <3>2. CASE i # 1
        <4>1. i - 1 \in 1..n /\ new[i] = log[c][i - 1]
          BY <2>3, <3>2
        <4>2. log'[new[i]] = log[log[c][i - 1]]
          BY <1>1, <1>5, <2>1, <4>1
        <4>3. /\ Len(log[log[c][i - 1]]) = n - (i - 1) + 1
              /\ \A k \in 1..(n - (i - 1) + 1) : log[log[c][i - 1]][k] = log[c][(i - 1) + k - 1]
          BY <1>3, <4>1 DEF Chain
        <4>4. ASSUME NEW k \in 1..(n + 1 - i + 1)
              PROVE  log'[new[i]][k] = new[i + k - 1]
          <5>1. k \in 1..(n - (i - 1) + 1) /\ (i - 1) + k - 1 \in 1..n
                /\ ((i - 1) + k - 1) + 1 = i + k - 1
            BY <1>3, <4>1
          <5>2. new[i + k - 1] = log[c][(i - 1) + k - 1]
            BY <1>4, <5>1
          <5> QED
            BY <4>2, <4>3, <5>1, <5>2
        <4> QED
          BY <1>3, <4>1, <4>2, <4>3, <4>4
      <3> QED
        BY <3>1, <3>2
    <2>7. log'[m] = new /\ Len(new) = n + 1
      BY <1>4, <1>5
    <2> QED
      BY <2>2, <2>4, <2>5, <2>6, <2>7 DEF Chain
  <1>8. LogOK'
    <2>1. \A d \in 1..(m) : d \in 1..made \/ d = m
      BY <1>1
    <2>2. log'[0] = <<>>
      BY <1>1, <1>5 DEF LogOK
    <2> QED
      BY <1>1, <1>6, <1>7, <2>1, <2>2 DEF LogOK
  <1>9. ASSUME NEW d \in 1..made, InLog(d, c)
        PROVE  InLog(d, m)'
    <2>1. PICK i \in 1..n : log[c][i] = d
      BY <1>3, <1>9 DEF InLog
    <2>2. i + 1 \in 1..(n + 1) /\ new[i + 1] = d
      BY <1>3, <1>4, <2>1
    <2> QED
      BY <1>4, <1>5, <2>2 DEF InLog
  <1>10. InLog(m, m)'
    <2>1. 1 \in 1..(n + 1)
      BY <1>3
    <2> QED
      BY <1>4, <1>5, <2>1 DEF InLog
  <1>11. Len(log'[m]) > 1
    BY <1>3, <1>4, <1>5
  <1> QED
    BY <1>1, <1>2, <1>5, <1>8, <1>9, <1>10, <1>11

-----------------------------------------------------------------------------
(* The material's lock: who has it is alone.                                 *)

LockOK ==
    /\ \A h \in Handlers : stage[h] # "out" => on[h] = {Material}
    /\ \A g, h \in Handlers : stage[g] = "in" /\ stage[h] = "in" => g = h

\* A handler returns, its write of the material's row done or not.
Returns(h) == Return(h) \/ ReturnUnsaved(h)

\* What a step does to the lock.
LEMMA LockMoves ==
    ASSUME [Next]_vars
    PROVE  \/ UNCHANGED <<stage, on>>
           \/ \E h \in Handlers : Mutex!Request(h, Material) \/ Mutex!Enter(h) \/ Mutex!Leave(h)
           \/ stage' = [h \in Handlers |-> "out"] /\ on' = [h \in Handlers |-> {}]
  <1>1. CASE UNCHANGED vars \/ Crash
    BY <1>1 DEF vars, Crash
  <1>2. CASE \E b \in Branches : Push(b) \/ Reset(b)
    BY <1>2 DEF Push, Reset
  <1>3. ASSUME NEW h \in Handlers,
               \/ \E op \in {"poll", "latest", "checkout"} : Call(h, op)
               \/ \E p \in Pipelines : SaveCall(h, p)
               \/ Abort(h) \/ SaveStep(h) \/ CommitStep(h)
               \/ PollStep(h) \/ LatestStep(h) \/ CheckoutStep(h)
        PROVE  \/ UNCHANGED <<stage, on>>
               \/ Mutex!Request(h, Material) \/ Mutex!Enter(h)
    BY <1>3 DEF Call, SaveCall, Abort, SaveStep, SaveUpdate, SaveInsert, CommitStep, ListActive,
         CommitRead, CommitSkip, CommitWrite, PollStep, PollFetch, PollList, PollNotify, PollSave,
         LatestStep, LatestFetch, CheckoutStep, CheckoutWipe, CheckoutFetch, TakeLock
  <1>4. ASSUME NEW h \in Handlers, Returns(h)
        PROVE  UNCHANGED <<stage, on>> \/ Mutex!Leave(h)
    BY <1>4 DEF Returns, Return, ReturnUnsaved, Finish
  <1> QED
    BY <1>1, <1>2, <1>3, <1>4 DEF Next, Step, Returns

LEMMA LockNext ==
    ASSUME HandlersOK, LockOK, [Next]_vars
    PROVE  LockOK'
  <1>1. stage \in [Handlers -> {"out", "waiting", "in"}] /\ on \in [Handlers -> SUBSET {Material}]
    BY DEF HandlersOK
  <1>2. ASSUME NEW h \in Handlers, Mutex!Request(h, Material)
        PROVE  LockOK'
    BY <1>1, <1>2 DEF LockOK, Mutex!Request
  <1>3. ASSUME NEW h \in Handlers, Mutex!Enter(h)
        PROVE  LockOK'
    <2>1. on[h] = {Material} /\ \A g \in Handlers : stage[g] = "in" => Material \notin on[g]
      BY <1>3 DEF LockOK, Mutex!Enter, Mutex!Free
    <2>2. \A g \in Handlers : stage[g] # "in"
      BY <2>1 DEF LockOK
    <2> QED
      BY <1>1, <1>3, <2>2 DEF LockOK, Mutex!Enter
  <1>4. ASSUME NEW h \in Handlers, Mutex!Leave(h)
        PROVE  LockOK'
    BY <1>1, <1>4 DEF LockOK, Mutex!Leave
  <1>5. CASE UNCHANGED <<stage, on>>
    BY <1>5 DEF LockOK
  <1>6. CASE stage' = [h \in Handlers |-> "out"] /\ on' = [h \in Handlers |-> {}]
    BY <1>6 DEF LockOK
  <1> QED
    BY <1>2, <1>3, <1>4, <1>5, <1>6, LockMoves

\* Nobody else has the lock when a handler takes it or has it.
LEMMA Alone ==
    ASSUME LockOK, NEW h \in Handlers, TakeLock(h) \/ stage[h] = "in"
    PROVE  \A g \in Handlers : g # h => stage[g] # "in"
  <1>1. CASE TakeLock(h)
    BY <1>1 DEF LockOK, TakeLock, Mutex!Enter, Mutex!Free
  <1>2. CASE stage[h] = "in"
    BY <1>2 DEF LockOK
  <1> QED
    BY <1>1, <1>2

-----------------------------------------------------------------------------
(* What the handlers' steps do to their local variables.                     *)

\* Which operation is where, and where nothing has been computed.
Labelled(j) ==
    /\ j.at = "notify" => j.op = "poll"
    /\ j.at = "fetch" => j.op = "checkout"
    /\ j.at = "commits" => j.op # "poll"
    /\ j.at = "list" => j.op # "save"
    /\ j.at \in {"insert", "update"} => j.op = "save"
    /\ j.at \in {"idle", "lock", "list", "fetch", "done"} => Rows(j.out) = {}

LabelsOK == \A h \in Handlers : Labelled(job[h])

\* All other handlers stay where they are.
OthersStay(h) == \A g \in Handlers : g # h => job'[g] = job[g]

LEMMA Becomes ==
    ASSUME HandlersOK, NEW h \in Handlers, NEW j, Become(h, j)
    PROVE  job'[h] = j /\ OthersStay(h)
  BY DEF HandlersOK, Become, OthersStay

LEMMA NoRows == Rows(NoOne) = {} /\ Rows(Idle.out) = {}
  BY DEF Rows, NoOne, Idle

\* A handler fetches, or wipes the checkout: nobody else has the lock.
Fetches(h) == PollFetch(h) \/ LatestFetch(h) \/ CheckoutWipe(h) \/ CheckoutFetch(h)

LEMMA FetchEffect ==
    ASSUME HandlersOK, LockOK, LabelsOK, NEW h \in Handlers, Fetches(h)
    PROVE  /\ UNCHANGED <<made, log, remote, forced, row, pubs, crashes>>
           /\ happened \subseteq happened'
           /\ job[h].at \in {"lock", "fetch"}
           /\ job'[h].op = job[h].op /\ job'[h].out = job[h].out /\ job'[h].todo = job[h].todo
           /\ job'[h].at \in {"list", "done", "failed", "fetch"}
           /\ job'[h].at = "fetch" => job[h].op = "checkout"
           /\ job[h].op # "save"
           /\ OthersStay(h)
           /\ \A g \in Handlers : g # h => stage[g] # "in"
  <1>1. job[h] \in Job
    BY DEF HandlersOK
  <1>2. UNCHANGED <<made, log, remote, forced, row, pubs, crashes>>
    BY DEF Fetches, PollFetch, LatestFetch, CheckoutWipe, CheckoutFetch, env, faults
  <1>3. happened \subseteq happened'
    BY DEF Fetches, PollFetch, LatestFetch, CheckoutWipe, CheckoutFetch, faults, FetchFails, Fault
  <1>4. PICK at \in {"list", "done", "failed", "fetch"} :
           Become(h, [job[h] EXCEPT !.at = at]) /\ (at = "fetch" => job[h].op = "checkout")
    BY DEF Fetches, PollFetch, LatestFetch, CheckoutWipe, CheckoutFetch
  <1>5. job'[h] = [job[h] EXCEPT !.at = at] /\ OthersStay(h)
    BY <1>4, Becomes
  <1>6. /\ job'[h].op = job[h].op /\ job'[h].out = job[h].out /\ job'[h].todo = job[h].todo
        /\ job'[h].at = at
    BY <1>1, <1>5 DEF Job
  <1>7. /\ job[h].at \in {"lock", "fetch"} /\ job[h].op # "save"
        /\ TakeLock(h) \/ job[h].at = "fetch"
    BY DEF Fetches, PollFetch, LatestFetch, CheckoutWipe, CheckoutFetch, LabelsOK, Labelled
  <1>8. job[h].at = "fetch" => stage[h] = "in"
    BY <1>7 DEF HandlersOK, LockedAsCalled
  <1>9. \A g \in Handlers : g # h => stage[g] # "in"
    BY <1>7, <1>8, Alone
  <1> QED
    BY <1>2, <1>3, <1>4, <1>5, <1>6, <1>7, <1>9

\* A handler gives up or returns.
LEMMA EndEffect ==
    ASSUME HandlersOK, NEW h \in Handlers, Abort(h) \/ Returns(h)
    PROVE  /\ UNCHANGED <<made, log, remote, forced, refs, row, pubs, crashes>>
           /\ happened \subseteq happened'
           /\ job'[h].at \in {"unlisted", "failed", "idle"} /\ Rows(job'[h].out) = {} /\ job'[h].todo = {}
           /\ job'[h].op \in {job[h].op, "none"}
           /\ job[h].at \in {"list", "commits", "insert", "update", "done", "unlisted",
                            "failed"}
           /\ job[h].at \in {"done", "unlisted", "failed"} \/ happened' \cap {"db", "context"} # {}
           /\ OthersStay(h)
  <1>1. job[h] \in Job
    BY DEF HandlersOK
  <1>2. CASE Abort(h)
    <2> DEFINE at == IF job[h].op = "poll" THEN "unlisted" ELSE "failed"
    <2>1. Become(h, [job[h] EXCEPT !.at = at, !.todo = {}, !.out = NoOne])
      BY <1>2 DEF Abort
    <2>2. job'[h] = [job[h] EXCEPT !.at = at, !.todo = {}, !.out = NoOne] /\ OthersStay(h)
      BY <2>1, Becomes
    <2>3. /\ job'[h].at \in {"unlisted", "failed"} /\ job'[h].out = NoOne /\ job'[h].todo = {}
          /\ job'[h].op = job[h].op
      BY <1>1, <2>2 DEF Job
    <2>4. /\ UNCHANGED <<made, log, remote, forced, refs, row, pubs, crashes>>
          /\ job[h].at \in {"list", "commits", "insert", "update"} /\ happened \subseteq happened'
          /\ happened' \cap {"db", "context"} # {}
      BY <1>2 DEF Abort, env, Fault
    <2> QED
      BY <2>2, <2>3, <2>4, NoRows
  <1>3. CASE Returns(h)
    <2>1. /\ Become(h, Idle) /\ job[h].at \in {"done", "unlisted", "failed"}
          /\ happened \subseteq happened'
      BY <1>3, FaultGrows DEF Returns, Return, ReturnUnsaved, Finish, faults
    <2>2. job'[h] = Idle /\ OthersStay(h)
      BY <2>1, Becomes
    <2>3. Idle.at = "idle" /\ Idle.op = "none" /\ Idle.todo = {} /\ Rows(Idle.out) = {}
      BY NoRows DEF Idle
    <2> QED
      BY <1>3, <2>1, <2>2, <2>3 DEF Returns, Return, ReturnUnsaved, env, faults
  <1> QED
    BY <1>2, <1>3

\* A handler is called.
LEMMA CallEffect ==
    ASSUME HandlersOK, NEW h \in Handlers, NEW op \in {"poll", "latest", "checkout"}, Call(h, op)
    PROVE  /\ UNCHANGED <<made, log, remote, forced, refs, row, pubs, happened, crashes>>
           /\ job[h].at = "idle" /\ op \in Ops
           /\ job'[h].op = op /\ job'[h].at = "lock" /\ Rows(job'[h].out) = {}
           /\ OthersStay(h)
  <1>1. Become(h, [Idle EXCEPT !.op = op, !.at = "lock"]) /\ job[h].at = "idle" /\ op \in Ops
    BY DEF Call
  <1>2. job'[h] = [Idle EXCEPT !.op = op, !.at = "lock"] /\ OthersStay(h)
    BY <1>1, Becomes
  <1>3. job'[h].op = op /\ job'[h].at = "lock" /\ job'[h].out = Idle.out
    BY <1>2 DEF Idle
  <1> QED
    BY <1>1, <1>2, <1>3, NoRows DEF Call, env, faults

\* The rows a poll finds at a new commit.
NewlySeen == {p \in Pipelines : Active(p) /\ Polled(row[p]).last # row[p].last}

\* A poll lists the rows.
LEMMA PollListEffect ==
    ASSUME WatcherInv, NEW h \in Handlers, PollList(h)
    PROVE  /\ UNCHANGED <<made, log, remote, forced, refs, row, pubs, happened, crashes>>
           /\ job[h].op = "poll" /\ job[h].at = "list"
           /\ job'[h].op = "poll" /\ job'[h].at = "notify"
           /\ job'[h].todo = NewlySeen /\ Rows(job'[h].out) = NewlySeen
           /\ \A p \in NewlySeen : job'[h].out[p] = Polled(row[p])
           /\ OthersStay(h)
  <1> DEFINE out == [p \in Pipelines |-> IF p \in NewlySeen THEN Polled(row[p]) ELSE Absent]
             j   == [job[h] EXCEPT !.at = "notify", !.todo = NewlySeen, !.out = out]
  <1>1. job[h] \in Job /\ HandlersOK
    BY DEF WatcherInv, TypeOK, HandlersOK
  <1>2. /\ Become(h, j) /\ job[h].op = "poll" /\ job[h].at = "list"
        /\ UNCHANGED <<made, log, remote, forced, refs, row, pubs, happened, crashes>>
    BY DEF PollList, NewlySeen, env, faults
  <1>3. \A p \in NewlySeen : Polled(row[p]) # Absent
    <2> TAKE p \in NewlySeen
    <2>1. row[p] \in Row
      BY DEF NewlySeen, Active, Saved, WatcherInv, TypeOK, TablesOK
    <2> QED
      BY <2>1, PolledRow, AbsentAssumption DEF WatcherInv, TypeOK
  <1>4. NewlySeen \subseteq Pipelines
    BY DEF NewlySeen
  <1>5. Rows(out) = NewlySeen /\ \A p \in NewlySeen : out[p] = Polled(row[p])
    BY <1>3, <1>4 DEF Rows
  <1> HIDE DEF out
  <1>6. j.op = job[h].op /\ j.at = "notify" /\ j.todo = NewlySeen /\ j.out = out
    BY <1>1 DEF Job
  <1> HIDE DEF j
  <1>7. job'[h] = j /\ OthersStay(h)
    BY <1>1, <1>2, Becomes
  <1> QED
    BY <1>2, <1>5, <1>6, <1>7

\* A checkout or GetLatestCommitForBranch lists the rows.
LEMMA ListActiveEffect ==
    ASSUME HandlersOK, LabelsOK, NEW h \in Handlers, ListActive(h)
    PROVE  /\ UNCHANGED <<made, log, remote, forced, refs, row, pubs, happened, crashes>>
           /\ job[h].op \in {"latest", "checkout"} /\ job[h].at = "list"
           /\ job'[h].op = job[h].op /\ job'[h].at = "commits"
           /\ job'[h].todo = {p \in Pipelines : Active(p)} /\ Rows(job'[h].out) = {}
           /\ OthersStay(h)
  <1> DEFINE j == [job[h] EXCEPT !.at = "commits", !.todo = {p \in Pipelines : Active(p)}]
  <1>1. /\ Become(h, j) /\ job[h].op \in {"latest", "checkout"} /\ job[h].at = "list"
        /\ UNCHANGED <<made, log, remote, forced, refs, row, pubs, happened, crashes>>
    BY DEF ListActive, env, faults
  <1>2. job[h] \in Job /\ Rows(job[h].out) = {}
    BY <1>1 DEF HandlersOK, LabelsOK, Labelled
  <1>3. /\ j.op = job[h].op /\ j.at = "commits" /\ j.todo = {p \in Pipelines : Active(p)}
        /\ j.out = job[h].out
    BY <1>2 DEF Job
  <1> HIDE DEF j
  <1>4. job'[h] = j /\ OthersStay(h)
    BY <1>1, Becomes
  <1> QED
    BY <1>1, <1>2, <1>3, <1>4

\* A poll announces a row, or fails to.
LEMMA NotifyEffect ==
    ASSUME HandlersOK, TablesOK, NEW h \in Handlers, NEW p \in Pipelines, PollNotify(h, p)
    PROVE  /\ UNCHANGED <<made, log, remote, forced, refs, row, crashes>>
           /\ happened \subseteq happened'
           /\ job[h].at = "notify" /\ p \in job[h].todo
           /\ job'[h].op = job[h].op /\ job'[h].at = "notify"
           /\ job'[h].todo = job[h].todo \ {p} /\ job'[h].out = job[h].out
           /\ \A q \in Pipelines, c \in Commits :
                 /\ pubs'[q][c] \in {pubs[q][c], pubs[q][c] + 1} /\ pubs[q][c] \in Nat
                 /\ pubs'[q][c] # pubs[q][c] => q = p /\ c = job[h].out[p].last
           /\ \A c \in Commits \ Excluded :
                 c = job[h].out[p].last /\ "publish" \notin happened' => pubs'[p][c] > 0
           /\ OthersStay(h)
  <1> DEFINE j == [job[h] EXCEPT !.todo = @ \ {p}]
             d == job[h].out[p].last
  <1>1. /\ Become(h, j) /\ job[h].at = "notify" /\ p \in job[h].todo
        /\ UNCHANGED <<made, log, remote, forced, refs, row, crashes>>
    BY DEF PollNotify, env
  <1>2. job[h] \in Job
    BY DEF HandlersOK
  <1>3. /\ j.op = job[h].op /\ j.at = job[h].at /\ j.todo = job[h].todo \ {p}
        /\ j.out = job[h].out
    BY <1>2 DEF Job
  <1> HIDE DEF j
  <1>4. job'[h] = j /\ OthersStay(h)
    BY <1>1, Becomes
  <1>5. happened \subseteq happened'
    BY DEF PollNotify, Fault
  <1>6. pubs \in [Pipelines -> [Commits -> 0..2]]
    BY DEF TablesOK
  <1> DEFINE counted == pubs' = [pubs EXCEPT ![p][d] = IF @ = 2 THEN 2 ELSE @ + 1]
  <1>7. /\ counted \/ UNCHANGED pubs
        /\ d \in Excluded \/ counted \/ "publish" \in happened'
    BY DEF PollNotify, Fault
  <1> HIDE DEF d
  <1>8. ASSUME NEW q \in Pipelines, NEW c \in Commits
        PROVE  /\ pubs'[q][c] \in {pubs[q][c], pubs[q][c] + 1} /\ pubs[q][c] \in Nat
               /\ pubs'[q][c] # pubs[q][c] => q = p /\ c = d
    BY <1>6, <1>7
  <1>9. ASSUME NEW c \in Commits \ Excluded, c = d, "publish" \notin happened'
        PROVE  pubs'[p][c] > 0
    BY <1>6, <1>7, <1>9
  <1> QED
    BY <1>1, <1>3, <1>4, <1>5, <1>8, <1>9 DEF d

\* A handler writes the rows it has computed, or fails to.
LEMMA WriteEffect ==
    ASSUME HandlersOK, NEW h \in Handlers, PollSave(h) \/ CommitWrite(h)
    PROVE  /\ UNCHANGED <<made, log, remote, forced, refs, pubs, crashes>>
           /\ happened \subseteq happened'
           /\ job[h].at \in {"notify", "commits"} /\ job[h].todo = {}
           /\ job'[h].op = job[h].op /\ job'[h].at = "done"
           /\ job'[h].todo = {} /\ Rows(job'[h].out) = {}
           /\ \/ \A p \in Pipelines :
                    row'[p] = IF p \in Rows(job[h].out) THEN Written(row[p], job[h].out[p]) ELSE row[p]
              \/ UNCHANGED row /\ "db" \in happened' /\ job[h].at = "notify"
           /\ OthersStay(h)
  <1> DEFINE j == [job[h] EXCEPT !.at = "done", !.out = NoOne]
  <1>1. /\ Become(h, j) /\ job[h].at \in {"notify", "commits"} /\ job[h].todo = {}
        /\ UNCHANGED <<made, log, remote, forced, refs, pubs, crashes>>
    BY DEF PollSave, CommitWrite, env, faults
  <1>2. job[h] \in Job
    BY DEF HandlersOK
  <1>3. j.op = job[h].op /\ j.at = "done" /\ j.todo = job[h].todo /\ j.out = NoOne
    BY <1>2 DEF Job
  <1> HIDE DEF j
  <1>4. job'[h] = j /\ OthersStay(h)
    BY <1>1, Becomes
  <1>5. /\ happened \subseteq happened'
        /\ \/ UpdateRows(job[h].out)
           \/ UNCHANGED row /\ "db" \in happened' /\ job[h].at = "notify"
    BY DEF PollSave, CommitWrite, Fault, faults
  <1> QED
    BY <1>1, <1>3, <1>4, <1>5, NoRows DEF UpdateRows

\* A handler computes the row it will write, or leaves it out.
LEMMA CommitEffect ==
    ASSUME HandlersOK, NEW h \in Handlers, NEW p \in Pipelines, CommitRead(h, p) \/ CommitSkip(h, p)
    PROVE  /\ UNCHANGED <<made, log, remote, forced, refs, row, pubs, crashes>>
           /\ happened \subseteq happened'
           /\ job[h].at = "commits" /\ p \in job[h].todo
           /\ job'[h].op = job[h].op
           /\ \A q \in Pipelines : q # p => job'[h].out[q] = job[h].out[q]
           /\ \/ /\ job'[h].at = "commits" /\ job'[h].todo = job[h].todo \ {p}
                 /\ Active(p) /\ job'[h].out[p] = Refreshed(row[p])
              \/ /\ job'[h].at = "commits" /\ job'[h].todo = job[h].todo \ {p}
                 /\ job'[h].out[p] = job[h].out[p] /\ "db" \in happened'
              \/ /\ job'[h].at = "failed" /\ job'[h].out[p] = job[h].out[p]
                 /\ job'[h].todo = job[h].todo /\ ~Active(p)
           /\ OthersStay(h)
  <1>1. job[h] \in Job
    BY DEF HandlersOK
  <1>2. /\ UNCHANGED <<made, log, remote, forced, refs, row, pubs, crashes>>
        /\ happened \subseteq happened'
        /\ job[h].at = "commits" /\ p \in job[h].todo
    BY DEF CommitRead, CommitSkip, env, faults, Fault
  <1> DEFINE read == [job[h] EXCEPT !.todo = @ \ {p}, !.out[p] = Refreshed(row[p])]
             gone == [job[h] EXCEPT !.at = "failed"]
             skip == [job[h] EXCEPT !.todo = @ \ {p}]
  <1>3. /\ read.op = job[h].op /\ read.at = job[h].at /\ read.todo = job[h].todo \ {p}
        /\ read.out[p] = Refreshed(row[p])
        /\ \A q \in Pipelines : q # p => read.out[q] = job[h].out[q]
    BY <1>1 DEF Job
  <1>4. /\ gone.op = job[h].op /\ gone.at = "failed" /\ gone.out = job[h].out
        /\ gone.todo = job[h].todo
    BY <1>1 DEF Job
  <1>5. /\ skip.op = job[h].op /\ skip.at = job[h].at /\ skip.todo = job[h].todo \ {p}
        /\ skip.out = job[h].out
    BY <1>1 DEF Job
  <1>6. \/ Become(h, read) /\ Active(p)
        \/ Become(h, gone) /\ ~Active(p)
        \/ Become(h, skip) /\ "db" \in happened'
    BY DEF CommitRead, CommitSkip, Fault
  <1> HIDE DEF read, gone, skip
  <1>7. \/ job'[h] = read /\ Active(p) /\ OthersStay(h)
        \/ job'[h] = gone /\ ~Active(p) /\ OthersStay(h)
        \/ job'[h] = skip /\ "db" \in happened' /\ OthersStay(h)
    BY <1>6, Becomes
  <1> QED
    BY <1>2, <1>3, <1>4, <1>5, <1>7

\* SavePipelineMaterial starts, writes its row, or finds that it cannot.
LEMMA SaveEffect ==
    ASSUME HandlersOK, LabelsOK, NEW h \in Handlers,
           (\E p \in Pipelines : SaveCall(h, p)) \/ SaveUpdate(h) \/ SaveInsert(h)
    PROVE  /\ UNCHANGED <<made, log, remote, forced, refs, pubs, happened, crashes>>
           /\ job'[h].op = "save" /\ job'[h].at \in {"insert", "update", "commits", "failed"}
           /\ OthersStay(h)
           /\ "save" \in Ops \/ job[h].op = "save"
  <1>1. job[h] \in Job
    BY DEF HandlersOK
  <1>2. UNCHANGED <<made, log, remote, forced, refs, pubs, happened, crashes>>
    BY DEF SaveCall, SaveUpdate, SaveInsert, env, faults
  <1>3. ASSUME NEW p \in Pipelines, SaveCall(h, p)
        PROVE  /\ job'[h].op = "save" /\ job'[h].at \in {"insert", "update"} /\ OthersStay(h)
               /\ "save" \in Ops
    <2>1. PICK at \in {"insert", "update"}, b \in Branches, a \in BOOLEAN :
             Become(h, [Idle EXCEPT !.op = "save", !.at = at,
                          !.out[p] = [value |-> b, active |-> a, last |-> 0, hist |-> <<>>,
                                      errored |-> FALSE]])
      BY <1>3 DEF SaveCall
    <2> DEFINE j == [Idle EXCEPT !.op = "save", !.at = at,
                          !.out[p] = [value |-> b, active |-> a, last |-> 0, hist |-> <<>>,
                                      errored |-> FALSE]]
    <2>2. j.op = "save" /\ j.at = at
      BY DEF Idle
    <2>3. Become(h, j)
      BY <2>1
    <2> HIDE DEF j
    <2>4. job'[h] = j /\ OthersStay(h)
      BY <2>3, Becomes
    <2> QED
      BY <1>3, <2>2, <2>4 DEF SaveCall
  <1>4. ASSUME SaveUpdate(h) \/ SaveInsert(h)
        PROVE  /\ job'[h].op = "save" /\ job'[h].at \in {"commits", "failed"} /\ OthersStay(h)
               /\ job[h].op = "save"
    <2>1. job[h].op = "save"
      BY <1>4 DEF SaveUpdate, SaveInsert, LabelsOK, Labelled
    <2> DEFINE j(at, todo) == [job[h] EXCEPT !.at = at, !.todo = todo, !.out = NoOne]
               k(at) == [job[h] EXCEPT !.at = at, !.out = NoOne]
    <2>2. \/ \E todo : Become(h, j("commits", todo))
          \/ Become(h, k("failed"))
      BY <1>4 DEF SaveUpdate, SaveInsert
    <2>3. \A at, todo : j(at, todo).op = job[h].op /\ j(at, todo).at = at
      BY <1>1 DEF Job
    <2>4. \A at : k(at).op = job[h].op /\ k(at).at = at
      BY <1>1 DEF Job
    <2> HIDE DEF j, k
    <2>5. CASE \E todo : Become(h, j("commits", todo))
      <3>1. PICK todo : Become(h, j("commits", todo))
        BY <2>5
      <3>2. job'[h] = j("commits", todo) /\ OthersStay(h)
        BY <3>1, Becomes
      <3> QED
        BY <2>1, <2>3, <3>2
    <2>6. CASE Become(h, k("failed"))
      <3>1. job'[h] = k("failed") /\ OthersStay(h)
        BY <2>6, Becomes
      <3> QED
        BY <2>1, <2>4, <3>1
    <2> QED
      BY <2>2, <2>5, <2>6
  <1> QED
    BY <1>2, <1>3, <1>4

-----------------------------------------------------------------------------
(* What a step can be.                                                       *)

\* The steps of a handler, by what they do.
LEMMA Steps ==
    ASSUME [Next]_vars
    PROVE  \/ \E b \in Branches : Push(b) \/ Reset(b)
           \/ \E h \in Handlers :
                 \/ Fetches(h) \/ Abort(h) \/ Returns(h)
                 \/ \E op \in {"poll", "latest", "checkout"} : Call(h, op)
                 \/ PollList(h) \/ ListActive(h)
                 \/ \E p \in Pipelines : PollNotify(h, p)
                 \/ PollSave(h) \/ CommitWrite(h)
                 \/ \E p \in Pipelines : CommitRead(h, p) \/ CommitSkip(h, p)
                 \/ (\E p \in Pipelines : SaveCall(h, p)) \/ SaveUpdate(h) \/ SaveInsert(h)
           \/ Crash
           \/ UNCHANGED vars
  BY DEF Next, Step, PollStep, LatestStep, CheckoutStep, CommitStep, SaveStep, Fetches, Returns

LEMMA LabelsNext ==
    ASSUME WatcherInv, LockOK, LabelsOK, [Next]_vars
    PROVE  LabelsOK'
  <1>1. HandlersOK /\ TablesOK
    BY DEF WatcherInv, TypeOK
  <1>2. ASSUME NEW h \in Handlers, OthersStay(h), Labelled(job'[h])
        PROVE  LabelsOK'
    BY <1>2 DEF LabelsOK, OthersStay, Labelled, Rows
  <1>3. CASE UNCHANGED job
    BY <1>3 DEF LabelsOK, Labelled, Rows
  <1>4. CASE Crash
    <2>1. \A h \in Handlers : job'[h] = Idle
      BY <1>4 DEF Crash
    <2>2. Labelled(Idle)
      BY NoRows DEF Labelled, Idle
    <2> QED
      BY <2>1, <2>2 DEF LabelsOK, Labelled, Rows
  <1>5. ASSUME NEW b \in Branches, Push(b) \/ Reset(b)
        PROVE  LabelsOK'
    BY <1>3, <1>5 DEF Push, Reset
  <1>6. ASSUME NEW h \in Handlers,
               \/ Fetches(h) \/ Abort(h) \/ Returns(h)
               \/ \E op \in {"poll", "latest", "checkout"} : Call(h, op)
               \/ PollList(h) \/ ListActive(h)
               \/ \E p \in Pipelines : PollNotify(h, p)
               \/ PollSave(h) \/ CommitWrite(h)
               \/ \E p \in Pipelines : CommitRead(h, p) \/ CommitSkip(h, p)
               \/ (\E p \in Pipelines : SaveCall(h, p)) \/ SaveUpdate(h) \/ SaveInsert(h)
        PROVE  LabelsOK'
    <2>1. Labelled(job[h])
      BY DEF LabelsOK
    <2>2. CASE Fetches(h)
      <3>1. Rows(job[h].out) = {}
        BY <1>1, <2>1, <2>2, FetchEffect DEF Labelled
      <3> QED
        BY <1>1, <1>2, <2>2, <3>1, FetchEffect DEF Labelled
    <2>3. CASE Abort(h) \/ Returns(h)
      BY <1>1, <1>2, <2>3, EndEffect DEF Labelled
    <2>4. CASE \E op \in {"poll", "latest", "checkout"} : Call(h, op)
      BY <1>1, <1>2, <2>4, CallEffect DEF Labelled
    <2>5. CASE PollList(h)
      BY <1>2, <2>5, PollListEffect DEF Labelled
    <2>6. CASE ListActive(h)
      BY <1>1, <1>2, <2>6, ListActiveEffect DEF Labelled
    <2>7. CASE \E p \in Pipelines : PollNotify(h, p)
      BY <1>1, <1>2, <2>1, <2>7, NotifyEffect DEF Labelled
    <2>8. CASE PollSave(h) \/ CommitWrite(h)
      BY <1>1, <1>2, <2>8, WriteEffect DEF Labelled
    <2>9. CASE \E p \in Pipelines : CommitRead(h, p) \/ CommitSkip(h, p)
      BY <1>1, <1>2, <2>1, <2>9, CommitEffect DEF Labelled
    <2>10. CASE (\E p \in Pipelines : SaveCall(h, p)) \/ SaveUpdate(h) \/ SaveInsert(h)
      BY <1>1, <1>2, <2>10, SaveEffect DEF Labelled
    <2> QED
      BY <1>6, <2>2, <2>3, <2>4, <2>5, <2>6, <2>7, <2>8, <2>9, <2>10
  <1> QED
    BY <1>3, <1>4, <1>5, <1>6, Steps DEF vars

-----------------------------------------------------------------------------
(* What ChangesSince yields: a prefix of the branch's log.                   *)

\* t is a prefix of s.
Cut(t, s) ==
    /\ t \in Seq(Commits) /\ Len(t) <= Len(s)
    /\ \A i \in 1..Len(t) : t[i] = s[i]

\* SubSeq cuts.
LEMMA SubSeqCut ==
    ASSUME NEW s \in Seq(Commits), NEW n \in 0..Len(s)
    PROVE  Cut(SubSeq(s, 1, n), s) /\ Len(SubSeq(s, 1, n)) = n
  <1>1. Len(s) \in Nat /\ \A i \in 1..Len(s) : s[i] \in Commits
    OBVIOUS
  <1>2. /\ SubSeq(s, 1, n) \in Seq(Commits) /\ Len(SubSeq(s, 1, n)) = n
        /\ \A i \in 1..n : SubSeq(s, 1, n)[i] = s[i]
    BY <1>1, PrefixSeq, SubSeqProperties
  <1> QED
    BY <1>1, <1>2 DEF Cut

\* Two cuts of one length are the same.
LEMMA SameCut ==
    ASSUME NEW s, NEW t, NEW u, Cut(t, s), Cut(u, s), Len(t) = Len(u)
    PROVE  t = u
  <1>1. t \in Seq(Commits) /\ u \in Seq(Commits) /\ \A i \in 1..Len(t) : t[i] = u[i]
    BY DEF Cut
  <1> QED
    BY <1>1, SeqEqual

LEMMA AtMostCut ==
    ASSUME NEW s \in Seq(Commits)
    PROVE  /\ Cut(AtMost(HistoryCount, s), s)
           /\ Len(AtMost(HistoryCount, s)) = IF Len(s) < HistoryCount THEN Len(s) ELSE HistoryCount
  <1> DEFINE n == IF Len(s) < HistoryCount THEN Len(s) ELSE HistoryCount
  <1>1. n \in 0..Len(s)
    BY WatcherAssumption
  <1>2. AtMost(HistoryCount, s) = SubSeq(s, 1, n)
    BY DEF AtMost
  <1> HIDE DEF n
  <1>3. Cut(SubSeq(s, 1, n), s) /\ Len(SubSeq(s, 1, n)) = n
    BY <1>1, SubSeqCut
  <1> QED
    BY <1>2, <1>3 DEF n

\* Before cuts where the commit is, if it is there once.
LEMMA BeforeCut ==
    ASSUME NEW s \in Seq(Commits), NEW c
    PROVE  /\ Cut(Before(c, s), s)
           /\ (\A i \in 1..Len(s) : s[i] # c) => Before(c, s) = s
           /\ \A k \in 1..Len(s) :
                 s[k] = c /\ (\A i \in 1..Len(s) : s[i] = c => i = k) => Len(Before(c, s)) = k - 1
           /\ s # <<>> /\ s[1] # c => Before(c, s) # <<>>
  <1> DEFINE at == {i \in DOMAIN s : s[i] = c}
             k  == CHOOSE i \in at : TRUE
  <1>0. DOMAIN s = 1..Len(s) /\ Len(s) \in Nat
    BY LenProperties
  <1>1. CASE at = {}
    <2>1. Before(c, s) = s /\ \A i \in 1..Len(s) : s[i] # c
      BY <1>0, <1>1 DEF Before
    <2>2. Cut(s, s)
      BY <1>0 DEF Cut
    <2> QED
      BY <2>1, <2>2
  <1>2. CASE at # {}
    <2>1. k \in at
      BY <1>2
    <2>2. k \in 1..Len(s) /\ s[k] = c /\ Before(c, s) = SubSeq(s, 1, k - 1)
      BY <1>0, <1>2, <2>1 DEF Before
    <2> HIDE DEF k
    <2>3. Cut(SubSeq(s, 1, k - 1), s) /\ Len(SubSeq(s, 1, k - 1)) = k - 1
      BY <1>0, <2>2, SubSeqCut
    <2>4. s[1] # c => Before(c, s) # <<>>
      <3>1. s[1] # c => k # 1
        BY <2>2
      <3>2. k # 1 => k - 1 # 0
        BY <1>0, <2>2
      <3> QED
        BY <2>2, <2>3, <3>1, <3>2, EmptySeq
    <2> QED
      BY <2>2, <2>3, <2>4
  <1> QED
    BY <1>1, <1>2

\* AheadOf cuts.
LEMMA AheadOfCut ==
    ASSUME NEW s \in Seq(Commits), NEW d
    PROVE  /\ Cut(AheadOf(d, s), s)
           /\ Len(AheadOf(d, s)) = Cardinality({i \in DOMAIN s : ~InLog(s[i], d)})
  <1> DEFINE ahead == {i \in DOMAIN s : ~InLog(s[i], d)}
  <1>0. Len(s) \in Nat /\ DOMAIN s = 1..Len(s)
    BY LenProperties
  <1>1. IsFiniteSet(1..Len(s)) /\ Cardinality(1..Len(s)) = Len(s)
    <2>1. 1 \in Int /\ Len(s) \in Int
      BY <1>0
    <2>2. /\ IsFiniteSet(1..Len(s))
          /\ Cardinality(1..Len(s)) = IF 1 > Len(s) THEN 0 ELSE Len(s) - 1 + 1
      BY <2>1, FS_Interval
    <2> QED
      BY <1>0, <2>2
  <1>2. Cardinality(ahead) \in 0..Len(s)
    BY <1>0, <1>1, FS_Subset, FS_CardinalityType
  <1>3. AheadOf(d, s) = SubSeq(s, 1, Cardinality(ahead))
    BY DEF AheadOf
  <1> HIDE DEF ahead
  <1>4. Cut(AheadOf(d, s), s) /\ Len(AheadOf(d, s)) = Cardinality(ahead)
    BY <1>2, <1>3, SubSeqCut
  <1> QED
    BY <1>4 DEF ahead

LEMMA CutOfCut ==
    ASSUME NEW s \in Seq(Commits), NEW t, NEW u, Cut(t, s), Cut(u, t)
    PROVE  Cut(u, s)
  <1>1. /\ Len(s) \in Nat /\ t \in Seq(Commits) /\ u \in Seq(Commits)
        /\ Len(t) \in Nat /\ Len(u) \in Nat
    BY DEF Cut
  <1> QED
    BY <1>1 DEF Cut

LEMMA ChangesCut ==
    ASSUME GitOK, NEW b \in Branches, NEW from
    PROVE  /\ Cut(Iterated(b, from), log[refs[b]])
           /\ Cut(ChangesSince(b, from), log[refs[b]])
  <1>1. log[refs[b]] \in Seq(Commits)
    BY LogSeq, RemoteRefs
  <1>2. Cut(Iterated(b, from), log[refs[b]])
    <2>1. Cut(AheadOf(Parent(from), log[refs[b]]), log[refs[b]])
      BY <1>1, AheadOfCut
    <2>2. AheadOf(Parent(from), log[refs[b]]) \in Seq(Commits)
      BY <2>1 DEF Cut
    <2>3. Cut(AtMost(HistoryCount, AheadOf(Parent(from), log[refs[b]])), log[refs[b]])
      BY <1>1, <2>1, <2>2, AtMostCut, CutOfCut
    <2>4. Cut(log[refs[b]], log[refs[b]])
      BY <1>1 DEF Cut
    <2> QED
      BY <2>3, <2>4 DEF Iterated
  <1>3. Iterated(b, from) \in Seq(Commits)
    BY <1>2 DEF Cut
  <1>4. /\ Cut(Before(from, Iterated(b, from)), log[refs[b]])
        /\ Before(from, Iterated(b, from)) \in Seq(Commits)
    BY <1>1, <1>2, <1>3, BeforeCut, CutOfCut DEF Cut
  <1> QED
    BY <1>1, <1>2, <1>4, AtMostCut, CutOfCut DEF ChangesSince

\* The first change is the head of the branch.
LEMMA ChangesHead ==
    ASSUME GitOK, LogOK, NEW b \in Branches, NEW from, ChangesSince(b, from) # <<>>
    PROVE  refs[b] \in 1..made /\ ChangesSince(b, from)[1] = refs[b]
  <1>1. refs[b] \in 0..made /\ log[refs[b]] \in Seq(Commits)
    BY LogSeq, RemoteRefs
  <1> DEFINE new == ChangesSince(b, from)
  <1>2. new \in Seq(Commits) /\ Len(new) <= Len(log[refs[b]]) /\ \A i \in 1..Len(new) : new[i] = log[refs[b]][i]
    BY ChangesCut DEF Cut
  <1> HIDE DEF new
  <1>3. Len(new) >= 1 /\ Len(new) \in Nat
    BY <1>2, EmptySeq DEF new
  <1>4. new[1] = log[refs[b]][1] /\ Len(log[refs[b]]) >= 1
    BY <1>1, <1>2, <1>3
  <1>5. refs[b] # 0
    BY <1>4, EmptySeq DEF LogOK
  <1>6. refs[b] \in 1..made
    BY <1>1, <1>5, LogSeq
  <1> QED
    BY <1>4, <1>6 DEF LogOK, Chain, new

\* A row that moves on moves to the head of its branch.
LEMMA PolledHead ==
    ASSUME GitOK, LogOK, NEW r \in Row
    PROVE  /\ Polled(r).value = r.value /\ Polled(r).active = r.active
           /\ Polled(r).last # r.last =>
                 /\ refs[r.value] \in 1..made
                 /\ Polled(r).last = refs[r.value]
                 /\ Polled(r).hist = AppendOldCommitsFromHistory(ChangesSince(r.value, r.last), r.hist)
                 /\ ~IteratorFails(r.value, r.last)
  <1> DEFINE new  == ChangesSince(r.value, r.last)
             hist == AppendOldCommitsFromHistory(new, r.hist)
  <1>1. r.value \in Branches
    BY DEF Row
  <1>2. \/ Polled(r) = r
        \/ /\ Polled(r) = [r EXCEPT !.last = new[1], !.errored = FALSE, !.hist = hist]
           /\ new # <<>> /\ ~IteratorFails(r.value, r.last)
    BY DEF Polled
  <1>3. new # <<>> => refs[r.value] \in 1..made /\ new[1] = refs[r.value]
    BY <1>1, ChangesHead
  <1> HIDE DEF new, hist
  <1>4. CASE Polled(r) = r
    BY <1>4
  <1>5. CASE /\ Polled(r) = [r EXCEPT !.last = new[1], !.errored = FALSE, !.hist = hist]
             /\ new # <<>> /\ ~IteratorFails(r.value, r.last)
    <2>1. /\ Polled(r).value = r.value /\ Polled(r).active = r.active
          /\ Polled(r).last = new[1] /\ Polled(r).hist = hist
      BY <1>5 DEF Row
    <2> QED
      BY <1>3, <1>5, <2>1 DEF new, hist
  <1> QED
    BY <1>2, <1>4, <1>5

-----------------------------------------------------------------------------
(* Messages name heads.                                                      *)

\* What a poll is about to announce is the head its branch has on disk.
Heading(j) ==
    j.at = "notify" =>
        /\ j.todo \subseteq Rows(j.out)
        /\ \A p \in Rows(j.out) : /\ j.out[p].value \in Branches
                                  /\ j.out[p].last = refs[j.out[p].value]
                                  /\ refs[j.out[p].value] \in 1..made

HeadsOK == \A h \in Handlers : Heading(job[h])

FlowInv == LogOK /\ LockOK /\ LabelsOK /\ HeadsOK

LEMMA HeadsNext ==
    ASSUME WatcherInv, FlowInv, [Next]_vars
    PROVE  HeadsOK'
  <1>1. HandlersOK /\ TablesOK /\ GitOK /\ LockOK /\ LabelsOK /\ LogOK /\ HeadsOK
    BY DEF WatcherInv, TypeOK, FlowInv
  <1>2. ASSUME NEW h \in Handlers, OthersStay(h), refs' = refs, made' = made, Heading(job[h])'
        PROVE  HeadsOK'
    <2>1. ASSUME NEW g \in Handlers, g # h
          PROVE  Heading(job[g])'
      <3>1. job'[g] = job[g] /\ Heading(job[g])
        BY <1>1, <1>2, <2>1 DEF OthersStay, HeadsOK
      <3> QED
        BY <1>2, <3>1 DEF Heading, Rows
    <2> QED
      BY <1>2, <2>1 DEF HeadsOK
  <1>3. CASE UNCHANGED <<job, refs, made>>
    BY <1>1, <1>3 DEF HeadsOK, Heading, Rows
  <1>4. CASE Crash
    <2>1. \A h \in Handlers : job'[h].at # "notify"
      BY <1>4 DEF Crash, Idle
    <2> QED
      BY <2>1 DEF HeadsOK, Heading
  <1>5. ASSUME NEW b \in Branches, Push(b) \/ Reset(b)
        PROVE  HeadsOK'
    <2>1. UNCHANGED <<job, refs>> /\ 1..made \subseteq 1..made'
      <3>1. made \in Nat
        BY <1>1, WatcherAssumption DEF GitOK, Commits
      <3>2. UNCHANGED <<job, refs>> /\ (made' = made \/ made' = made + 1)
        BY <1>5 DEF Push, Reset
      <3> QED
        BY <3>1, <3>2
    <2> QED
      BY <1>1, <2>1 DEF HeadsOK, Heading, Rows
  <1>6. ASSUME NEW h \in Handlers,
               \/ Fetches(h) \/ Abort(h) \/ Returns(h)
               \/ \E op \in {"poll", "latest", "checkout"} : Call(h, op)
               \/ PollList(h) \/ ListActive(h)
               \/ \E p \in Pipelines : PollNotify(h, p)
               \/ PollSave(h) \/ CommitWrite(h)
               \/ \E p \in Pipelines : CommitRead(h, p) \/ CommitSkip(h, p)
               \/ (\E p \in Pipelines : SaveCall(h, p)) \/ SaveUpdate(h) \/ SaveInsert(h)
        PROVE  HeadsOK'
    <2>1. Heading(job[h])
      BY <1>1 DEF HeadsOK
    <2>2. CASE Fetches(h)
      <3>1. ASSUME NEW g \in Handlers
            PROVE  job'[g].at # "notify"
        <4>1. CASE g = h
          BY <1>1, <2>2, <4>1, FetchEffect
        <4>2. CASE g # h
          <5>1. job'[g] = job[g] /\ stage[g] # "in"
            BY <1>1, <2>2, <4>2, FetchEffect DEF OthersStay
          <5>2. job[g].at = "notify" => stage[g] = "in"
            BY <1>1 DEF HandlersOK, LockedAsCalled, LabelsOK, Labelled
          <5> QED
            BY <5>1, <5>2
        <4> QED
          BY <4>1, <4>2
      <3> QED
        BY <3>1 DEF HeadsOK, Heading
    <2>3. CASE Abort(h) \/ Returns(h)
      BY <1>1, <1>2, <2>3, EndEffect DEF Heading
    <2>4. CASE \E op \in {"poll", "latest", "checkout"} : Call(h, op)
      BY <1>1, <1>2, <2>4, CallEffect DEF Heading
    <2>5. CASE PollList(h)
      <3>1. ASSUME NEW p \in NewlySeen
            PROVE  LET r == Polled(row[p])
                   IN r.value \in Branches /\ r.last = refs[r.value] /\ refs[r.value] \in 1..made
        <4>1. row[p] \in Row /\ row[p].value \in Branches /\ Polled(row[p]).last # row[p].last
          BY <1>1 DEF NewlySeen, Active, Saved, TablesOK, Row
        <4> QED
          BY <1>1, <4>1, PolledHead
      <3>2. /\ UNCHANGED <<refs, made>> /\ OthersStay(h)
            /\ job'[h].todo = NewlySeen /\ Rows(job'[h].out) = NewlySeen
            /\ \A p \in NewlySeen : job'[h].out[p] = Polled(row[p])
        BY <2>5, PollListEffect
      <3>3. Heading(job[h])'
        <4>1. \A p \in Rows(job'[h].out) :
                 /\ job'[h].out[p].value \in Branches
                 /\ job'[h].out[p].last = refs'[job'[h].out[p].value]
                 /\ refs'[job'[h].out[p].value] \in 1..made'
          BY <3>1, <3>2
        <4> QED
          BY <3>2, <4>1 DEF Heading, Rows
      <3> QED
        BY <1>2, <3>2, <3>3
    <2>6. CASE ListActive(h)
      BY <1>1, <1>2, <2>6, ListActiveEffect DEF Heading
    <2>7. CASE \E p \in Pipelines : PollNotify(h, p)
      <3>1. PICK p \in Pipelines : PollNotify(h, p)
        BY <2>7
      <3>2. /\ UNCHANGED <<refs, made>> /\ OthersStay(h) /\ job[h].at = "notify"
            /\ job'[h].todo = job[h].todo \ {p} /\ job'[h].out = job[h].out
        BY <1>1, <3>1, NotifyEffect
      <3>3. Heading(job[h])'
        BY <2>1, <3>2 DEF Heading, Rows
      <3> QED
        BY <1>2, <3>2, <3>3
    <2>8. CASE PollSave(h) \/ CommitWrite(h)
      BY <1>1, <1>2, <2>8, WriteEffect DEF Heading
    <2>9. CASE \E p \in Pipelines : CommitRead(h, p) \/ CommitSkip(h, p)
      <3>1. UNCHANGED <<refs, made>> /\ OthersStay(h) /\ job'[h].at # "notify"
        BY <1>1, <2>9, CommitEffect
      <3> QED
        BY <1>2, <3>1 DEF Heading
    <2>10. CASE (\E p \in Pipelines : SaveCall(h, p)) \/ SaveUpdate(h) \/ SaveInsert(h)
      <3>1. UNCHANGED <<refs, made>> /\ OthersStay(h) /\ job'[h].at # "notify"
        BY <1>1, <2>10, SaveEffect
      <3> QED
        BY <1>2, <3>1 DEF Heading
    <2> QED
      BY <1>6, <2>2, <2>3, <2>4, <2>5, <2>6, <2>7, <2>8, <2>9, <2>10
  <1> QED
    BY <1>3, <1>4, <1>5, <1>6, Steps DEF vars

\* Only a push changes a log.
LEMMA LogNext ==
    ASSUME WatcherInv, FlowInv, [Next]_vars
    PROVE  LogOK'
  <1>1. CASE \E b \in Branches : Push(b)
    BY <1>1, PushLog DEF WatcherInv, TypeOK, FlowInv
  <1>2. CASE UNCHANGED <<log, made>>
    <2>1. log' = log /\ made' = made
      BY <1>2
    <2>2. ASSUME NEW c
          PROVE  Chain(c)' <=> Chain(c)
      BY <2>1 DEF Chain
    <2> QED
      BY <2>1, <2>2 DEF FlowInv, LogOK
  <1>3. (\E b \in Branches : Push(b)) \/ UNCHANGED <<log, made>>
    <2>1. HandlersOK /\ TablesOK /\ LockOK /\ LabelsOK
      BY DEF WatcherInv, TypeOK, FlowInv
    <2>2. ASSUME NEW b \in Branches, Reset(b)
          PROVE  UNCHANGED <<log, made>>
      BY <2>2 DEF Reset
    <2> QED
      BY <2>1, <2>2, Steps, FetchEffect, EndEffect, CallEffect, PollListEffect, ListActiveEffect,
         NotifyEffect, WriteEffect, CommitEffect, SaveEffect DEF Crash, env, vars
  <1> QED
    BY <1>1, <1>2, <1>3

\* Logs count down, the lock excludes, and a poll announces heads: always.
THEOREM FlowInvariant == SafeSpec => [](WatcherInv /\ FlowInv)
  <1>1. ASSUME Init
        PROVE  FlowInv
    <2>1. \A h \in Handlers : job[h] = Idle /\ stage[h] = "out"
      BY <1>1 DEF Init, Mutex!Init
    <2>2. LockOK
      BY <2>1 DEF LockOK
    <2>3. Labelled(Idle) /\ Heading(Idle)
      BY NoRows DEF Labelled, Heading, Idle
    <2> QED
      BY <1>1, <2>1, <2>2, <2>3, InitLog DEF FlowInv, LabelsOK, HeadsOK
  <1>2. WatcherInv /\ FlowInv /\ [Next]_vars => FlowInv'
    <2> SUFFICES ASSUME WatcherInv, FlowInv, [Next]_vars
                 PROVE  FlowInv'
      OBVIOUS
    <2>1. LockOK' /\ LabelsOK'
      BY LockNext, LabelsNext DEF WatcherInv, TypeOK, FlowInv
    <2> QED
      BY <2>1, HeadsNext, LogNext DEF FlowInv
  <1> QED
    BY <1>1, <1>2, WatcherInvariant, PTL DEF SafeSpec

\* Messages are published by polls only.
LEMMA OnlyPolls ==
    ASSUME [Next]_vars
    PROVE  pubs' = pubs \/ \E h \in Handlers, p \in Pipelines : PollNotify(h, p)
  <1>1. (\E b \in Branches : Push(b) \/ Reset(b)) \/ Crash \/ UNCHANGED vars => pubs' = pubs
    BY DEF Push, Reset, Crash, vars
  <1>2. ASSUME NEW h \in Handlers, Fetches(h)
        PROVE  pubs' = pubs
    BY <1>2 DEF Fetches, PollFetch, LatestFetch, CheckoutWipe, CheckoutFetch
  <1>3. ASSUME NEW h \in Handlers,
               \/ Abort(h) \/ Returns(h) \/ PollList(h) \/ ListActive(h)
               \/ \E op \in {"poll", "latest", "checkout"} : Call(h, op)
        PROVE  pubs' = pubs
    BY <1>3 DEF Abort, Returns, Return, ReturnUnsaved, PollList, ListActive, Call
  <1>4. ASSUME NEW h \in Handlers,
               \/ PollSave(h) \/ CommitWrite(h)
               \/ \E p \in Pipelines : CommitRead(h, p) \/ CommitSkip(h, p)
        PROVE  pubs' = pubs
    BY <1>4 DEF PollSave, CommitWrite, CommitRead, CommitSkip
  <1>5. ASSUME NEW h \in Handlers,
               (\E p \in Pipelines : SaveCall(h, p)) \/ SaveUpdate(h) \/ SaveInsert(h)
        PROVE  pubs' = pubs
    BY <1>5 DEF SaveCall, SaveUpdate, SaveInsert
  <1> QED
    BY <1>1, <1>2, <1>3, <1>4, <1>5, Steps

\* A message names the head a branch has on disk when it is sent: the lock keeps
\* others from fetching or wiping the checkout between the listing and the
\* message (Watcher.go:159, 291), whatever fails and whoever saves rows.
THEOREM PublishedHeads == SafeSpec => PublishedIsHead
  <1> DEFINE Names == \A p \in Pipelines, c \in Commits :
                         pubs'[p][c] # pubs[p][c] => \E b \in Branches : refs[b] = c
  <1>1. ASSUME WatcherInv, FlowInv, [Next]_vars
        PROVE  Names
    <2>1. SUFFICES ASSUME NEW p \in Pipelines, NEW c \in Commits, pubs'[p][c] # pubs[p][c]
                   PROVE  \E b \in Branches : refs[b] = c
      OBVIOUS
    <2>2. PICK h \in Handlers, q \in Pipelines : PollNotify(h, q)
      BY <1>1, <2>1, OnlyPolls
    <2>3. job[h].at = "notify" /\ q \in job[h].todo /\ p = q /\ c = job[h].out[q].last
      BY <1>1, <2>1, <2>2, NotifyEffect DEF WatcherInv, TypeOK
    <2>4. Heading(job[h])
      BY <1>1 DEF FlowInv, HeadsOK
    <2> QED
      BY <2>3, <2>4 DEF Heading
  <1>2. WatcherInv /\ FlowInv /\ [Next]_vars => [Names]_vars
    BY <1>1
  <1> QED
    BY <1>2, FlowInvariant, PTL DEF SafeSpec, PublishedIsHead

-----------------------------------------------------------------------------
(* Without SavePipelineMaterial.  The rows there are of a pipeline, in the   *)
(* table and in a handler's hands, come from one another.                    *)

NoSaves == \A h \in Handlers : job[h].op # "save"

Held(p) ==
    {r \in Row : \/ Saved(p) /\ r = row[p]
                 \/ \E h \in Handlers : p \in Rows(job[h].out) /\ r = job[h].out[p]}

LEMMA NoSavesNext ==
    ASSUME "save" \notin Ops, WatcherInv, FlowInv, NoSaves, [Next]_vars
    PROVE  NoSaves'
  <1>1. HandlersOK /\ TablesOK /\ LockOK /\ LabelsOK
    BY DEF WatcherInv, TypeOK, FlowInv
  <1>2. ASSUME NEW h \in Handlers, OthersStay(h), job'[h].op # "save"
        PROVE  NoSaves'
    BY <1>2 DEF NoSaves, OthersStay
  <1>3. CASE UNCHANGED job \/ Crash
    BY <1>3 DEF NoSaves, Crash, Idle
  <1>4. ASSUME NEW b \in Branches, Push(b) \/ Reset(b)
        PROVE  UNCHANGED job
    BY <1>4 DEF Push, Reset
  <1>5. ASSUME NEW h \in Handlers
        PROVE  job[h].op # "save"
    BY DEF NoSaves
  <1> QED
    BY <1>1, <1>2, <1>3, <1>4, <1>5, Steps, FetchEffect, EndEffect, CallEffect, PollListEffect,
       ListActiveEffect, NotifyEffect, WriteEffect, CommitEffect, SaveEffect DEF vars

\* Where a new row comes from.
LEMMA HeldNext ==
    ASSUME "save" \notin Ops, WatcherInv, FlowInv, NoSaves, [Next]_vars,
           NEW p \in Pipelines, NEW r \in Held(p)'
    PROVE  \/ r \in Held(p)
           \/ \E h \in Handlers :
                 /\ PollSave(h) \/ CommitWrite(h)
                 /\ p \in Rows(job[h].out) /\ r = Written(row[p], job[h].out[p]) /\ Saved(p)
           \/ \E h \in Handlers : PollList(h) /\ p \in NewlySeen /\ r = Polled(row[p])
           \/ \E h \in Handlers : CommitRead(h, p) /\ Active(p) /\ r = Refreshed(row[p])
  <1>1. HandlersOK /\ TablesOK /\ LockOK /\ LabelsOK
    BY DEF WatcherInv, TypeOK, FlowInv
  <1>2. /\ r \in Row
        /\ \/ row'[p] # Absent /\ r = row'[p]
           \/ \E h \in Handlers : p \in Rows(job'[h].out) /\ r = job'[h].out[p]
    BY DEF Held, Saved, Rows
  <1>3. CASE UNCHANGED <<row, job>>
    BY <1>2, <1>3 DEF Held, Saved, Rows
  <1>4. CASE Crash
    <2>1. row' = row /\ \A h \in Handlers : Rows(job'[h].out) = {}
      BY <1>4, NoRows DEF Crash
    <2> QED
      BY <1>2, <2>1 DEF Held, Saved
  \* a step that writes no row
  <1>5. ASSUME NEW h \in Handlers, OthersStay(h), row' = row
        PROVE  r \in Held(p) \/ (p \in Rows(job'[h].out) /\ r = job'[h].out[p])
    BY <1>2, <1>5 DEF Held, Saved, OthersStay
  <1>6. ASSUME NEW h \in Handlers,
               \/ Fetches(h) \/ Abort(h) \/ Returns(h) \/ ListActive(h)
               \/ \E op \in {"poll", "latest", "checkout"} : Call(h, op)
               \/ \E q \in Pipelines : PollNotify(h, q)
        PROVE  r \in Held(p)
    <2>1. row' = row /\ OthersStay(h) /\ (Rows(job'[h].out) = {} \/ job'[h].out = job[h].out)
      BY <1>1, <1>6, FetchEffect, EndEffect, CallEffect, ListActiveEffect, NotifyEffect
    <2> QED
      BY <1>2, <1>5, <2>1 DEF Held, Rows
  <1>7. ASSUME NEW h \in Handlers, PollList(h)
        PROVE  r \in Held(p) \/ (p \in NewlySeen /\ r = Polled(row[p]))
    BY <1>5, <1>7, PollListEffect
  <1>8. ASSUME NEW h \in Handlers, PollSave(h) \/ CommitWrite(h)
        PROVE  \/ r \in Held(p)
               \/ p \in Rows(job[h].out) /\ r = Written(row[p], job[h].out[p]) /\ Saved(p)
    <2>1. /\ Rows(job'[h].out) = {} /\ OthersStay(h)
          /\ \/ row'[p] = row[p]
             \/ p \in Rows(job[h].out) /\ row'[p] = Written(row[p], job[h].out[p])
      BY <1>1, <1>8, WriteEffect
    <2>2. row'[p] # Absent /\ row'[p] = Written(row[p], job[h].out[p]) => Saved(p)
      BY DEF Written, Saved
    <2>3. CASE row'[p] # Absent /\ r = row'[p]
      BY <1>2, <2>1, <2>2, <2>3 DEF Held, Saved
    <2>4. CASE \E g \in Handlers : p \in Rows(job'[g].out) /\ r = job'[g].out[p]
      BY <1>2, <2>1, <2>4 DEF Held, OthersStay
    <2> QED
      BY <1>2, <2>3, <2>4
  <1>9. ASSUME NEW h \in Handlers, NEW q \in Pipelines, CommitRead(h, q) \/ CommitSkip(h, q)
        PROVE  \/ r \in Held(p)
               \/ CommitRead(h, p) /\ Active(p) /\ r = Refreshed(row[p])
    <2>1. row' = row /\ OthersStay(h)
      BY <1>1, <1>9, CommitEffect
    <2>2. CASE p # q
      <3>1. job'[h].out[p] = job[h].out[p]
        BY <1>1, <1>9, <2>2, CommitEffect
      <3> QED
        BY <1>2, <1>5, <2>1, <3>1 DEF Held, Rows
    <2>3. CASE p = q /\ job'[h].out[p] = job[h].out[p]
      BY <1>2, <1>5, <2>1, <2>3 DEF Held, Rows
    <2>4. CASE p = q /\ job'[h].out[p] # job[h].out[p]
      <3>1. CommitRead(h, p)
        <4>1. CASE CommitSkip(h, q)
          <5>1. Become(h, [job[h] EXCEPT !.todo = @ \ {q}]) /\ job[h] \in Job
            BY <1>1, <4>1 DEF CommitSkip, HandlersOK
          <5>2. job'[h] = [job[h] EXCEPT !.todo = @ \ {q}]
            BY <1>1, <5>1, Becomes
          <5>3. job'[h].out = job[h].out
            BY <5>1, <5>2 DEF Job
          <5> QED
            BY <2>4, <5>3
        <4> QED
          BY <1>9, <2>4, <4>1
      <3>2. Active(p) /\ job'[h].out[p] = Refreshed(row[p])
        BY <1>1, <1>9, <2>4, CommitEffect
      <3> QED
        BY <1>5, <2>1, <3>1, <3>2
    <2> QED
      BY <2>2, <2>3, <2>4
  <1>10. ASSUME NEW h \in Handlers
         PROVE  ~(\E q \in Pipelines : SaveCall(h, q)) /\ ~SaveUpdate(h) /\ ~SaveInsert(h)
    BY <1>1 DEF SaveCall, SaveUpdate, SaveInsert, NoSaves, LabelsOK, Labelled
  <1>11. ASSUME NEW b \in Branches, Push(b) \/ Reset(b)
         PROVE  UNCHANGED <<row, job>>
    BY <1>11 DEF Push, Reset
  <1> QED
    BY <1>3, <1>4, <1>6, <1>7, <1>8, <1>9, <1>10, <1>11, Steps DEF vars

LEMMA WrittenRow ==
    ASSUME NEW old \in Row, NEW new \in Row
    PROVE  /\ Written(old, new) \in Row
           /\ Written(old, new).value = new.value /\ Written(old, new).active = new.active
           /\ Written(old, new).last = new.last
           /\ Written(old, new).hist = IF new.hist = <<>> THEN old.hist ELSE new.hist
  BY AbsentAssumption DEF Written, Row

LEMMA HeldRows ==
    ASSUME WatcherInv, NEW p \in Pipelines
    PROVE  /\ Saved(p) => row[p] \in Row /\ row[p] \in Held(p)
           /\ \A h \in Handlers : p \in Rows(job[h].out) =>
                 job[h].out[p] \in Row /\ job[h].out[p] \in Held(p)
  <1>1. Saved(p) => row[p] \in Row
    BY DEF WatcherInv, TypeOK, TablesOK, Saved
  <1>2. ASSUME NEW h \in Handlers, p \in Rows(job[h].out)
        PROVE  job[h].out[p] \in Row
    <2>1. job[h].out \in [Pipelines -> Row \cup {Absent}]
      BY JobRows
    <2> QED
      BY <1>2, <2>1 DEF Rows
  <1> QED
    BY <1>1, <1>2 DEF Held

\* The row after a checkout is the branch as it is on disk.
LEMMA RefreshedHead ==
    ASSUME GitOK, LogOK, NEW r \in Row
    PROVE  /\ Refreshed(r).value = r.value /\ Refreshed(r).active = r.active
           /\ refs[r.value] = 0 => Refreshed(r).last = 0
           /\ refs[r.value] # 0 =>
                 /\ refs[r.value] \in 1..made
                 /\ Refreshed(r).last = refs[r.value]
                 /\ Refreshed(r).hist = AtMost(HistoryCount, log[refs[r.value]])
  <1> DEFINE commits == ChangesSince(r.value, 0)
  <1>1. r.value \in Branches /\ refs[r.value] \in 0..made
    BY RemoteRefs DEF Row
  <1>2. CASE refs[r.value] = 0
    <2>1. Refreshed(r) = [r EXCEPT !.last = 0, !.errored = TRUE]
      BY <1>2 DEF Refreshed, IteratorFails
    <2> QED
      BY <1>2, <2>1 DEF Row
  <1>3. CASE refs[r.value] # 0
    <2>1. ~IteratorFails(r.value, 0)
      BY <1>3 DEF IteratorFails
    <2>2. Refreshed(r) = [r EXCEPT !.last = commits[1], !.hist = commits, !.errored = FALSE]
      BY <2>1 DEF Refreshed
    <2>3. commits # <<>>
      BY <1>1, <2>1, ChangesSinceSeq
    <2>4. refs[r.value] \in 1..made /\ commits[1] = refs[r.value]
      BY <1>1, <2>3, ChangesHead
    <2>5. commits = AtMost(HistoryCount, log[refs[r.value]])
      <3>1. log[refs[r.value]] \in Seq(Commits) /\ Iterated(r.value, 0) = log[refs[r.value]]
        BY <1>1, LogSeq DEF Iterated
      <3>2. \A i \in 1..Len(log[refs[r.value]]) : log[refs[r.value]][i] # 0
        <4>1. \A i \in 1..Len(log[refs[r.value]]) : log[refs[r.value]][i] \in Commits
          BY <3>1, ElementOfSeq
        <4> QED
          BY <4>1 DEF Commits
      <3>3. Before(0, log[refs[r.value]]) = log[refs[r.value]]
        BY <3>1, <3>2, BeforeCut
      <3> QED
        BY <3>1, <3>3 DEF ChangesSince
    <2> HIDE DEF commits
    <2>6. /\ Refreshed(r).value = r.value /\ Refreshed(r).active = r.active
          /\ Refreshed(r).last = commits[1] /\ Refreshed(r).hist = commits
      BY <2>2 DEF Row
    <2> QED
      BY <1>3, <2>4, <2>5, <2>6
  <1> QED
    BY <1>2, <1>3

\* A pipeline's rows are all of its one branch and activity.
Kept ==
    \A p \in Pipelines : \A r \in Held(p) :
        Saved(p) /\ r.value = row[p].value /\ r.active = row[p].active

LEMMA KeptNext ==
    ASSUME "save" \notin Ops, WatcherInv, FlowInv, NoSaves, Kept, [Next]_vars
    PROVE  /\ Kept'
           /\ \A p \in Pipelines : Saved(p) => row'[p].value = row[p].value
                                               /\ row'[p].active = row[p].active
           /\ \A p \in Pipelines : Saved(p)' <=> Saved(p)
  <1>1. HandlersOK /\ TablesOK /\ LockOK /\ LabelsOK /\ GitOK /\ LogOK /\ WatcherInv'
    BY NextInv DEF WatcherInv, TypeOK, FlowInv
  <1>2. ASSUME NEW p \in Pipelines, NEW r \in Held(p)'
        PROVE  Saved(p) /\ r.value = row[p].value /\ r.active = row[p].active
    <2>1. CASE r \in Held(p)
      BY <2>1 DEF Kept
    <2>2. ASSUME NEW h \in Handlers, p \in Rows(job[h].out),
                 r = Written(row[p], job[h].out[p]), Saved(p)
          PROVE  r.value = row[p].value /\ r.active = row[p].active
      <3>1. row[p] \in Row /\ job[h].out[p] \in Row /\ job[h].out[p] \in Held(p)
        BY <2>2, HeldRows
      <3> QED
        BY <2>2, <3>1, WrittenRow DEF Kept
    <2>3. ASSUME Active(p), r = Polled(row[p]) \/ r = Refreshed(row[p])
          PROVE  Saved(p) /\ r.value = row[p].value /\ r.active = row[p].active
      <3>1. Saved(p) /\ row[p] \in Row
        BY <2>3, HeldRows DEF Active
      <3> QED
        BY <1>1, <2>3, <3>1, PolledHead, RefreshedHead
    <2> QED
      BY <2>1, <2>2, <2>3, HeldNext DEF NewlySeen
  <1>3. ASSUME NEW p \in Pipelines, Saved(p)
        PROVE  Saved(p)'
    <2>1. row[p] \in Row
      BY <1>3, HeldRows
    <2>2. \/ row'[p] = row[p]
          \/ \E h \in Handlers : p \in Rows(job[h].out) /\ row'[p] = Written(row[p], job[h].out[p])
      <3>1. ASSUME NEW b \in Branches, Push(b) \/ Reset(b)
            PROVE  UNCHANGED row
        BY <3>1 DEF Push, Reset
      <3>2. ASSUME NEW h \in Handlers
            PROVE  ~(\E q \in Pipelines : SaveCall(h, q)) /\ ~SaveUpdate(h) /\ ~SaveInsert(h)
        BY <1>1 DEF SaveCall, SaveUpdate, SaveInsert, NoSaves, LabelsOK, Labelled
      <3> QED
        BY <1>1, <3>1, <3>2, Steps, FetchEffect, EndEffect, CallEffect, PollListEffect,
           ListActiveEffect, NotifyEffect, WriteEffect, CommitEffect DEF vars, Crash
    <2>3. CASE row'[p] = row[p]
      BY <1>3, <2>3 DEF Saved
    <2>4. ASSUME NEW h \in Handlers, p \in Rows(job[h].out),
                 row'[p] = Written(row[p], job[h].out[p])
          PROVE  Saved(p)'
      <3>1. row'[p] \in Row
        BY <2>1, <2>4, HeldRows, WrittenRow
      <3> QED
        BY <3>1, AbsentAssumption DEF Saved
    <2> QED
      BY <2>2, <2>3, <2>4
  <1>4. ASSUME NEW p \in Pipelines, Saved(p)'
        PROVE  row'[p] \in Held(p)'
    <2>1. row'[p] \in Row
      BY <1>1, <1>4 DEF WatcherInv, TypeOK, TablesOK, Saved
    <2> QED
      BY <1>4, <2>1 DEF Held
  <1>5. \A p \in Pipelines : Saved(p)' <=> Saved(p)
    BY <1>2, <1>3, <1>4
  <1>6. \A p \in Pipelines : Saved(p) => row'[p].value = row[p].value /\ row'[p].active = row[p].active
    BY <1>2, <1>3, <1>4
  <1>7. Kept'
    <2>1. ASSUME NEW p \in Pipelines, NEW r \in Held(p)'
          PROVE  Saved(p)' /\ r.value = row'[p].value /\ r.active = row'[p].active
      BY <1>2, <1>5, <1>6
    <2> QED
      BY <2>1 DEF Kept
  <1> QED
    BY <1>5, <1>6, <1>7

-----------------------------------------------------------------------------
(* As long as nobody pushes by force, what was seen stays on its branch.     *)

Follows(r) ==
    r.last # 0 => /\ InLog(r.last, remote[r.value])
                  /\ refs[r.value] # 0 => InLog(r.last, refs[r.value])

Growing ==
    forced = 0 =>
        /\ \A b \in Branches : refs[b] # 0 => InLog(refs[b], remote[b])
        /\ \A p \in Pipelines : \A r \in Held(p) : Follows(r)

LEMMA InOwnLog ==
    ASSUME GitOK, LogOK, NEW c \in 1..made
    PROVE  InLog(c, c)
  <1>1. Len(log[c]) >= 1 /\ DOMAIN log[c] = 1..Len(log[c]) /\ Len(log[c]) \in Nat
    <2>1. c \in 0..made /\ c # 0
      BY LogSeq
    <2> QED
      BY <2>1, LogSeq
  <1>2. 1 \in DOMAIN log[c] /\ log[c][1] = c
    BY <1>1 DEF LogOK, Chain
  <1> QED
    BY <1>2 DEF InLog

\* A fetch or a wipe leaves of each ref what it was, what the remote has, or
\* nothing.
LEMMA FetchRefs ==
    ASSUME GitOK, NEW h \in Handlers, Fetches(h), NEW b \in Branches
    PROVE  /\ refs'[b] \in {0, refs[b], remote[b]}
           /\ PollFetch(h) => refs'[b] \in {refs[b], remote[b]}
  <1>1. ASSUME NEW kind, NEW r \in [Branches -> 0..made], r[b] \in {refs[b], remote[b]},
               NEW f \in FetchErr(kind, r)
        PROVE  f[b] \in {refs[b], remote[b]} /\ f \in [Branches -> 0..made]
    BY <1>1, RemoteRefs DEF FetchErr
  <1>2. refs \in [Branches -> 0..made]
    BY RemoteRefs
  <1>3. CASE PollFetch(h)
    <2>1. \A r : \A f \in FetchOk(r) : f.refs = remote
      BY DEF FetchOk
    <2>2. \/ \E r : \E f \in FetchOk(r) : refs' = f.refs
          \/ \E kind \in {"fetch", "partial"} : \E r \in FetchErr(kind, refs) :
                refs' \in FetchErr(kind, r) \/ refs' = r
      BY <1>3 DEF PollFetch
    <2> QED
      BY <1>1, <1>2, <2>1, <2>2
  <1>4. CASE LatestFetch(h) \/ CheckoutFetch(h)
    <2>1. refs' \in {refs, remote} \/ \E kind : refs' \in FetchErr(kind, refs)
      BY <1>4 DEF LatestFetch, CheckoutFetch, FetchFails
    <2> QED
      BY <1>1, <1>2, <2>1
  <1>5. CASE CheckoutWipe(h)
    BY <1>5 DEF CheckoutWipe, PollFetch
  <1> QED
    BY <1>3, <1>4, <1>5 DEF Fetches

\* What a step does to the commits and refs.
LEMMA GitMoves ==
    ASSUME WatcherInv, FlowInv, [Next]_vars
    PROVE  \/ \E b \in Branches : (Push(b) \/ Reset(b)) /\ UNCHANGED <<refs, row, job>>
           \/ /\ UNCHANGED <<made, log, remote, forced>>
              /\ refs' = refs \/ \E h \in Handlers : Fetches(h)
  <1>1. HandlersOK /\ TablesOK /\ LockOK /\ LabelsOK
    BY DEF WatcherInv, TypeOK, FlowInv
  <1>2. ASSUME NEW b \in Branches, Push(b) \/ Reset(b)
        PROVE  UNCHANGED <<refs, row, job>>
    BY <1>2 DEF Push, Reset
  <1> QED
    BY <1>1, <1>2, Steps, FetchEffect, EndEffect, CallEffect, PollListEffect, ListActiveEffect,
       NotifyEffect, WriteEffect, CommitEffect, SaveEffect DEF Crash, env, vars

\* A push that is not forced keeps on every branch what is there.
LEMMA PushKeeps ==
    ASSUME WatcherInv, FlowInv, NEW b \in Branches, Push(b), forced' = 0,
           NEW d, NEW a \in Branches, InLog(d, remote[a])
    PROVE  InLog(d, remote[a])'
  <1>1. GitOK /\ LogOK /\ forced \in Nat
    BY DEF WatcherInv, TypeOK, BoundsOK, FlowInv
  <1>2. PICK c \in 1..made, m \in Nat :
           /\ m = made + 1 /\ made' = m
           /\ CountForced(c # remote[b])
           /\ \A k \in 1..made : InLog(k, c) => InLog(k, m)'
    BY <1>1, PushLog
  <1>3. \A k \in 0..made : log'[k] = log[k]
    BY <1>1, PushLog
  <1>4. c = remote[b] /\ forced = 0
    BY <1>1, <1>2 DEF CountForced
  <1>5. remote' = [remote EXCEPT ![b] = m]
    BY <1>2 DEF Push
  <1>6. remote \in [Branches -> 1..made] /\ refs \in [Branches -> 0..made] /\ made \in Nat
    <2>1. made \in 1..MaxCommits
      BY <1>1 DEF GitOK, Commits
    <2> QED
      BY <1>1, <2>1, WatcherAssumption DEF GitOK
  <1>7. CASE a # b
    <2>1. remote'[a] = remote[a] /\ remote[a] \in 0..made
      BY <1>5, <1>6, <1>7
    <2>2. InLog(d, remote[a]) <=> \E i \in DOMAIN log[remote[a]] : log[remote[a]][i] = d
      BY DEF InLog
    <2> QED
      BY <1>3, <2>1, <2>2 DEF InLog
  <1>8. CASE a = b
    <2>1. d \in 1..made
      <3>1. PICK i \in DOMAIN log[remote[b]] : log[remote[b]][i] = d
        BY <1>8 DEF InLog
      <3>2. i \in 1..Len(log[remote[b]]) /\ Chain(remote[b]) /\ remote[b] \in 1..made
        BY <1>1, <1>6, <3>1, LogSeq DEF LogOK
      <3>3. log[remote[b]][i] \in 1..remote[b]
        BY <3>2 DEF Chain
      <3> QED
        BY <1>6, <3>1, <3>2, <3>3
    <2>2. InLog(d, m)'
      BY <1>2, <1>4, <1>8, <2>1
    <2>3. remote'[b] = m
      BY <1>5, <1>6
    <2> QED
      BY <1>8, <2>2, <2>3 DEF InLog
  <1> QED
    BY <1>7, <1>8

LEMMA GrowingPush ==
    ASSUME WatcherInv, FlowInv, Growing, NEW b \in Branches, Push(b), UNCHANGED <<refs, row, job>>
    PROVE  Growing'
  <1> SUFFICES ASSUME forced' = 0
               PROVE  /\ \A a \in Branches : refs'[a] # 0 => InLog(refs[a], remote[a])'
                      /\ \A p \in Pipelines : \A r \in Held(p)' : Follows(r)'
    BY DEF Growing
  <1>1. GitOK /\ LogOK /\ forced \in Nat
    BY DEF WatcherInv, TypeOK, BoundsOK, FlowInv
  <1>2. PICK c \in 1..made, m \in Nat :
           /\ m = made + 1 /\ made' = m
           /\ CountForced(c # remote[b])
           /\ \A d \in 1..made : InLog(d, c) => InLog(d, m)'
    BY <1>1, PushLog
  <1>3. \A d \in 0..made : log'[d] = log[d]
    BY <1>1, PushLog
  <1>4. c = remote[b] /\ forced = 0
    BY <1>1, <1>2 DEF CountForced
  <1>5. remote \in [Branches -> 1..made] /\ refs \in [Branches -> 0..made] /\ made \in Nat
    BY <1>1, WatcherAssumption DEF GitOK, Commits
  <1>6. ASSUME NEW d, NEW a \in Branches, InLog(d, remote[a])
        PROVE  InLog(d, remote[a])'
    BY <1>6, PushKeeps
  <1>7. \A a \in Branches : refs'[a] # 0 => InLog(refs[a], remote[a])'
    <2> SUFFICES ASSUME NEW a \in Branches, refs'[a] # 0
                 PROVE  InLog(refs[a], remote[a])'
      OBVIOUS
    <2>1. InLog(refs[a], remote[a]) /\ refs'[a] = refs[a]
      BY <1>4 DEF Growing
    <2> DEFINE d == refs[a]
    <2>2. InLog(d, remote[a])
      BY <2>1
    <2>3. PICK e : e = refs[a]
      OBVIOUS
    <2>4. InLog(e, remote[a])'
      BY <1>6, <2>2, <2>3
    <2> QED
      BY <2>1, <2>3, <2>4 DEF InLog
  <1>8. ASSUME NEW p \in Pipelines, NEW r \in Held(p)'
         PROVE  Follows(r)'
    <2>1. r \in Held(p)
      BY DEF Held, Saved, Rows
    <2>2. Follows(r) /\ r.value \in Branches
      BY <1>4, <2>1 DEF Growing, Held, Row
    <2>3. r.last # 0 => InLog(r.last, remote[r.value])'
      BY <1>6, <2>2 DEF Follows
    <2>4. r.last # 0 /\ refs'[r.value] # 0 => InLog(r.last, refs[r.value])'
      <3>1. refs'[r.value] = refs[r.value] /\ refs[r.value] \in 0..made
        BY <1>5, <2>2
      <3> QED
        BY <1>3, <2>2, <3>1 DEF Follows, InLog
    <2> QED
      BY <2>3, <2>4 DEF Follows
  <1> QED
    BY <1>7, <1>8

LEMMA GrowingNext ==
    ASSUME "save" \notin Ops, WatcherInv, FlowInv, NoSaves, Growing, [Next]_vars
    PROVE  Growing'
  <1>1. GitOK /\ LogOK /\ forced \in Nat /\ TablesOK /\ HandlersOK
    BY DEF WatcherInv, TypeOK, BoundsOK, FlowInv
  <1>2. CASE \E b \in Branches : Push(b) /\ UNCHANGED <<refs, row, job>>
    BY <1>2, GrowingPush
  <1>3. CASE \E b \in Branches : Reset(b)
    <2>1. forced' = forced + 1
      BY <1>3 DEF Reset, CountForced
    <2> QED
      BY <1>1, <2>1 DEF Growing
  <1>4. CASE /\ UNCHANGED <<made, log, remote, forced>>
             /\ refs' = refs \/ \E h \in Handlers : Fetches(h)
    <2> SUFFICES ASSUME forced = 0
                 PROVE  /\ \A a \in Branches : refs'[a] # 0 => InLog(refs[a], remote[a])'
                        /\ \A p \in Pipelines : \A r \in Held(p)' : Follows(r)'
      BY <1>4 DEF Growing
    <2>1. \A d, e : InLog(d, e)' <=> InLog(d, e)
      BY <1>4 DEF InLog
    <2>2. \A b \in Branches : refs'[b] \in {0, refs[b], remote[b]} /\ remote[b] \in 1..made
      BY <1>1, <1>4, FetchRefs DEF GitOK
    <2>3. \A b \in Branches : InLog(remote[b], remote[b])
      BY <1>1, <2>2, InOwnLog
    <2>4. \A a \in Branches : refs'[a] # 0 => InLog(refs[a], remote[a])'
      <3> SUFFICES ASSUME NEW a \in Branches, refs'[a] # 0
                   PROVE  InLog(refs[a], remote[a])'
        OBVIOUS
      <3>1. PICK d : d = refs'[a]
        OBVIOUS
      <3>2. InLog(d, remote[a])
        BY <2>2, <2>3, <3>1 DEF Growing
      <3> QED
        BY <1>4, <3>1, <3>2 DEF InLog
    \* a row that follows its branch does so after the step
    <2>5. ASSUME NEW r \in Row, Follows(r)
          PROVE  Follows(r)'
      <3>1. r.value \in Branches
        BY DEF Row
      <3>2. r.last # 0 => InLog(r.last, remote[r.value])
        BY <2>5 DEF Follows
      <3>3. r.last # 0 /\ refs'[r.value] # 0 => InLog(r.last, refs[r.value])'
        <4> SUFFICES ASSUME r.last # 0, refs'[r.value] # 0
                     PROVE  InLog(r.last, refs[r.value])'
          OBVIOUS
        <4>1. PICK e : e = refs'[r.value]
          OBVIOUS
        <4>2. InLog(r.last, e)
          BY <2>2, <2>5, <3>1, <3>2, <4>1 DEF Follows
        <4> QED
          BY <1>4, <4>1, <4>2 DEF InLog
      <3> QED
        BY <1>4, <3>2, <3>3 DEF Follows, InLog
    <2>6. ASSUME NEW r \in Row, r.last \in {0, refs[r.value]}
          PROVE  Follows(r)
      <3>1. r.value \in Branches /\ refs[r.value] \in 0..made
        BY RemoteRefs, <1>1 DEF Row
      <3>2. refs[r.value] # 0 => InLog(refs[r.value], refs[r.value])
        BY <1>1, <3>1, InOwnLog
      <3>3. refs[r.value] # 0 => InLog(refs[r.value], remote[r.value])
        BY <3>1 DEF Growing
      <3> QED
        BY <2>6, <3>2, <3>3 DEF Follows
    <2>7. ASSUME NEW p \in Pipelines, NEW r \in Held(p)'
          PROVE  Follows(r)'
      <3>1. r \in Row
        BY DEF Held
      <3>2. CASE r \in Held(p)
        BY <2>5, <3>1, <3>2 DEF Growing
      <3>3. ASSUME NEW h \in Handlers, p \in Rows(job[h].out),
                   r = Written(row[p], job[h].out[p]), Saved(p)
            PROVE  Follows(r)
        <4>1. /\ row[p] \in Row /\ job[h].out[p] \in Row /\ job[h].out[p] \in Held(p)
          BY <3>3, HeldRows DEF WatcherInv
        <4>2. Follows(job[h].out[p]) /\ r.value = job[h].out[p].value /\ r.last = job[h].out[p].last
          BY <3>3, <4>1, WrittenRow DEF Growing
        <4> QED
          BY <4>2 DEF Follows
      <3>4. ASSUME p \in NewlySeen, r = Polled(row[p])
            PROVE  Follows(r)
        <4>1. row[p] \in Row /\ Polled(row[p]).last # row[p].last
          BY <3>4, HeldRows DEF NewlySeen, Active
        <4> QED
          BY <1>1, <2>6, <3>1, <3>4, <4>1, PolledHead
      <3>5. ASSUME Active(p), r = Refreshed(row[p])
            PROVE  Follows(r)
        <4>1. row[p] \in Row
          BY <3>5, HeldRows DEF Active
        <4>2. r.last \in {0, refs[r.value]}
          BY <1>1, <3>5, <4>1, RefreshedHead
        <4> QED
          BY <2>6, <3>1, <4>2
      <3> QED
        BY <2>5, <3>1, <3>2, <3>3, <3>4, <3>5, HeldNext
    <2> QED
      BY <2>4, <2>7
  <1> QED
    BY <1>2, <1>3, <1>4, GitMoves

-----------------------------------------------------------------------------
(* As long as no fetch fails either, CommitHistory is the branch's log.      *)

\* The changes since a commit of the branch are the commits in front of it, for
\* both git managers: the cli asks for from^.. and drops from again.
LEMMA ChangesExact ==
    ASSUME GitOK, LogOK, NEW b \in Branches, refs[b] \in 1..made,
           NEW k \in 1..Len(log[refs[b]]), NEW from, from = log[refs[b]][k],
           ~IteratorFails(b, from)
    PROVE  Len(ChangesSince(b, from)) = IF k - 1 < HistoryCount THEN k - 1 ELSE HistoryCount
  <1> DEFINE s  == log[refs[b]]
             it == Iterated(b, from)
  <1>1. /\ s \in Seq(Commits) /\ Len(s) \in Nat /\ DOMAIN s = 1..Len(s) /\ k \in Nat
        /\ made \in Nat /\ refs[b] \in 0..made
    BY LogSeq DEF GitOK
  <1>2. /\ \A i \in 1..Len(s) : s[i] \in 1..refs[b]
        /\ \A i, j \in 1..Len(s) : i < j => s[j] < s[i]
        /\ Len(log[from]) = Len(s) - k + 1
        /\ \A i \in 1..(Len(s) - k + 1) : log[from][i] = s[k + i - 1]
    BY DEF LogOK, Chain
  <1>3. from \in 1..made /\ from # 0
    BY <1>1, <1>2
  <1>4. HistoryCount \in Nat \ {0}
    BY WatcherAssumption
  <1>5. /\ Cut(it, s) /\ it \in Seq(Commits) /\ Len(it) \in Nat
        /\ Cut(Before(from, it), it)
        /\ Before(from, it) \in Seq(Commits)
    <2>1. Cut(it, s)
      BY ChangesCut
    <2>2. it \in Seq(Commits)
      BY <2>1 DEF Cut
    <2>3. Cut(Before(from, it), it)
      BY <2>2, BeforeCut
    <2> QED
      BY <2>1, <2>2, <2>3 DEF Cut
  <1>6. \A i \in 1..Len(it) : i \in 1..Len(s) /\ it[i] = s[i]
    BY <1>1, <1>5 DEF Cut
  <1> HIDE DEF s, it
  <1>7. \A i \in 1..Len(it) : it[i] = from => i = k
    <2> SUFFICES ASSUME NEW i \in 1..Len(it), it[i] = from, i # k
                 PROVE  FALSE
      OBVIOUS
    <2>1. i \in 1..Len(s) /\ s[i] = s[k] /\ (i < k \/ k < i)
      BY <1>1, <1>6 DEF s
    <2>2. s[i] \in Int /\ s[k] \in Int /\ k \in 1..Len(s)
      BY <1>2, <2>1 DEF s
    <2> QED
      BY <1>2, <2>1, <2>2
  <1>8. CASE k <= Len(it)
    <2>1. k \in 1..Len(it) /\ it[k] = from
      BY <1>1, <1>6, <1>8 DEF s
    <2>2. Len(Before(from, it)) = k - 1
      BY <1>5, <1>7, <2>1, BeforeCut
    <2> QED
      BY <1>5, <2>2, AtMostCut DEF ChangesSince, it
  <1>9. CASE Len(it) < k
    <2>1. \A i \in 1..Len(it) : it[i] # from
      BY <1>1, <1>5, <1>7, <1>9
    <2>2. Before(from, it) = it
      BY <1>5, <2>1, BeforeCut
    \* the iterator itself stopped at the limit
    <2>3. Len(it) = HistoryCount /\ HistoryCount <= k - 1
      <3>1. UseGitCli
        <4>1. ~UseGitCli => it = s
          BY DEF it, s, Iterated
        <4>2. k <= Len(s)
          BY DEF s
        <4> QED
          BY <1>1, <1>9, <4>1, <4>2
      <3>2. Parent(from) # 0
        BY <1>3, <3>1 DEF IteratorFails
      <3>3. k + 1 \in 1..Len(s) /\ Parent(from) = s[k + 1]
        <4>1. Len(log[from]) > 1 /\ Parent(from) = log[from][2]
          BY <3>2 DEF Parent
        <4>2. Len(s) - k + 1 > 1 /\ 2 \in 1..(Len(s) - k + 1)
          BY <1>1, <1>2, <4>1
        <4>3. log[from][2] = s[k + 2 - 1]
          BY <1>2, <4>2
        <4> QED
          BY <1>1, <4>1, <4>2, <4>3
      <3>4. /\ Parent(from) \in 0..made
            /\ Len(log[Parent(from)]) = Len(s) - k
            /\ \A i \in 1..(Len(s) - k) : log[Parent(from)][i] = s[k + i]
            /\ DOMAIN log[Parent(from)] = 1..(Len(s) - k)
        <4>1. /\ Len(log[s[k + 1]]) = Len(s) - (k + 1) + 1
              /\ \A i \in 1..(Len(s) - (k + 1) + 1) : log[s[k + 1]][i] = s[(k + 1) + i - 1]
          BY <3>3 DEF LogOK, Chain, s
        <4>2. Parent(from) \in 0..made
          <5>1. s[k + 1] \in 1..refs[b] /\ refs[b] \in 0..made
            BY <1>1, <1>2, <3>3
          <5> QED
            BY <1>1, <3>3, <5>1
        <4>3. DOMAIN log[Parent(from)] = 1..Len(log[Parent(from)])
          BY <4>2, LogSeq
        <4>4. Len(s) - (k + 1) + 1 = Len(s) - k
          BY <1>1
        <4>5. ASSUME NEW i \in 1..(Len(s) - k)
              PROVE  log[s[k + 1]][i] = s[k + i]
          <5>1. (k + 1) + i - 1 = k + i /\ i \in 1..(Len(s) - (k + 1) + 1)
            BY <1>1
          <5> QED
            BY <4>1, <5>1
        <4>6. Len(log[Parent(from)]) = Len(s) - k
          BY <3>3, <4>1, <4>4
        <4> QED
          BY <3>3, <4>2, <4>3, <4>5, <4>6
      <3>5. {i \in DOMAIN s : ~InLog(s[i], Parent(from))} = 1..k
        <4>1. ASSUME NEW i \in 1..Len(s), i <= k
              PROVE  ~InLog(s[i], Parent(from))
          <5> SUFFICES ASSUME NEW j \in 1..(Len(s) - k), s[k + j] = s[i]
                       PROVE  FALSE
            BY <3>4 DEF InLog
          <5>1. k + j \in 1..Len(s) /\ i < k + j
            BY <1>1, <4>1
          <5>2. s[i] \in Int /\ s[k + j] \in Int /\ s[k + j] < s[i]
            BY <1>2, <5>1
          <5> QED
            BY <5>2
        <4>2. ASSUME NEW i \in 1..Len(s), k < i
              PROVE  InLog(s[i], Parent(from))
          <5>1. i - k \in 1..(Len(s) - k) /\ k + (i - k) = i
            BY <1>1, <4>2
          <5> QED
            BY <3>4, <5>1 DEF InLog
        <4>3. k \in 1..Len(s)
          BY DEF s
        <4> QED
          BY <1>1, <4>1, <4>2, <4>3
      <3>6. Cardinality(1..k) = k
        <4>1. Cardinality(1..k) = IF 1 > k THEN 0 ELSE k - 1 + 1
          BY <1>1, FS_Interval
        <4>2. k >= 1
          OBVIOUS
        <4> QED
          BY <1>1, <4>1, <4>2
      <3>7. AheadOf(Parent(from), s) \in Seq(Commits) /\ Len(AheadOf(Parent(from), s)) = k
        BY <1>1, <3>5, <3>6, AheadOfCut DEF Cut
      <3>8. it = AtMost(HistoryCount, AheadOf(Parent(from), s))
        BY <1>3, <3>1 DEF it, s, Iterated
      <3>9. Len(it) = IF k < HistoryCount THEN k ELSE HistoryCount
        BY <3>7, <3>8, AtMostCut
      <3> QED
        BY <1>1, <1>4, <1>9, <3>9
    <2>4. Len(AtMost(HistoryCount, it)) = HistoryCount
      BY <1>4, <1>5, <2>3, AtMostCut
    <2> QED
      BY <1>1, <1>4, <2>2, <2>3, <2>4 DEF ChangesSince, it
  <1> QED
    BY <1>1, <1>5, <1>8, <1>9

\* The row is the log of its last commit.
Exact(r) == r.last \in 1..made /\ r.hist = AtMost(HistoryCount, log[r.last])

\* The new commits in front of the old history are the history of the new head.
LEMMA PolledExact ==
    ASSUME GitOK, LogOK, NEW r \in Row, Exact(r), Polled(r).last # r.last,
           InLog(r.last, refs[r.value])
    PROVE  Exact(Polled(r))
  <1> DEFINE s   == log[refs[r.value]]
             new == ChangesSince(r.value, r.last)
             n   == Len(s)
  <1>1. /\ refs[r.value] \in 1..made /\ r.value \in Branches
        /\ Polled(r).last = refs[r.value]
        /\ Polled(r).hist = AppendOldCommitsFromHistory(new, r.hist)
        /\ ~IteratorFails(r.value, r.last)
    BY PolledHead DEF Row
  <1>2. s \in Seq(Commits) /\ n \in Nat /\ DOMAIN s = 1..n /\ refs[r.value] \in 0..made
    BY <1>1, LogSeq DEF GitOK
  <1>3. PICK k \in 1..n : s[k] = r.last
    BY <1>2 DEF InLog
  <1>4. /\ Cut(new, s) /\ new \in Seq(Commits) /\ Len(new) \in Nat
        /\ Len(new) = IF k - 1 < HistoryCount THEN k - 1 ELSE HistoryCount
    <2>1. Cut(new, s)
      BY <1>1, ChangesCut
    <2>2. Len(new) = IF k - 1 < HistoryCount THEN k - 1 ELSE HistoryCount
      BY <1>1, <1>3, ChangesExact
    <2>3. new \in Seq(Commits)
      BY <2>1 DEF Cut
    <2> QED
      BY <2>1, <2>2, <2>3, LenProperties
  <1>5. /\ Len(log[r.last]) = n - k + 1
        /\ \A i \in 1..(n - k + 1) : log[r.last][i] = s[k + i - 1]
    <2>1. Chain(refs[r.value])
      BY <1>1 DEF LogOK
    <2> QED
      BY <1>3, <2>1 DEF Chain
  <1>6. /\ Cut(r.hist, log[r.last]) /\ r.hist \in Seq(Commits) /\ Len(r.hist) \in Nat
        /\ Len(r.hist) = IF n - k + 1 < HistoryCount THEN n - k + 1 ELSE HistoryCount
    <2>1. r.last \in 0..made /\ r.hist = AtMost(HistoryCount, log[r.last])
      BY DEF Exact
    <2>2. log[r.last] \in Seq(Commits)
      BY <2>1, LogSeq
    <2>3. /\ Cut(r.hist, log[r.last])
          /\ Len(r.hist) = IF n - k + 1 < HistoryCount THEN n - k + 1 ELSE HistoryCount
      BY <1>5, <2>1, <2>2, AtMostCut
    <2>4. r.hist \in Seq(Commits)
      BY <2>3 DEF Cut
    <2>5. Len(r.hist) \in Nat
      BY <2>4, LenProperties
    <2> QED
      BY <2>3, <2>4, <2>5
  <1> DEFINE all == new \o r.hist
             cut == AtMost(HistoryCount, all)
  <1> HIDE DEF s, new, n
  <1>7. /\ all \in Seq(Commits) /\ Len(all) = Len(new) + Len(r.hist)
        /\ \A i \in 1..(Len(new) + Len(r.hist)) :
              all[i] = IF i <= Len(new) THEN new[i] ELSE r.hist[i - Len(new)]
    BY <1>4, <1>6, ConcatProperties
  <1>8. HistoryCount \in Nat \ {0} /\ k \in Nat /\ k >= 1 /\ k <= n
    BY <1>2, <1>3, WatcherAssumption
  <1> HIDE DEF all
  <1>9. /\ cut \in Seq(Commits) /\ Cut(cut, all)
        /\ Len(cut) = IF Len(all) < HistoryCount THEN Len(all) ELSE HistoryCount
    BY <1>7, AtMostCut DEF Cut
  <1>10. Len(cut) = IF n < HistoryCount THEN n ELSE HistoryCount
    BY <1>2, <1>4, <1>6, <1>7, <1>8, <1>9
  <1>11. \A i \in 1..Len(cut) : cut[i] = s[i]
    <2> SUFFICES ASSUME NEW i \in 1..Len(cut)
                 PROVE  cut[i] = s[i]
      OBVIOUS
    <2>1. /\ i \in Nat /\ i >= 1 /\ i <= HistoryCount /\ i \in 1..(Len(new) + Len(r.hist))
          /\ cut[i] = all[i]
      BY <1>4, <1>6, <1>7, <1>8, <1>9 DEF Cut
    <2>2. CASE i <= Len(new)
      <3>1. i \in 1..Len(new) /\ all[i] = new[i]
        BY <1>4, <1>7, <2>1, <2>2
      <3>2. new[i] = s[i]
        BY <1>4, <3>1 DEF Cut
      <3> QED
        BY <2>1, <3>1, <3>2
    <2>3. CASE Len(new) < i
      <3>1. Len(new) = k - 1
        BY <1>4, <1>8, <2>1, <2>3
      <3> DEFINE j == i - Len(new)
      <3>2. j \in 1..Len(r.hist) /\ all[i] = r.hist[j] /\ j \in 1..(n - k + 1) /\ k + j - 1 = i
        BY <1>2, <1>4, <1>6, <1>7, <1>8, <2>1, <2>3, <3>1
      <3>3. r.hist[j] = log[r.last][j] /\ log[r.last][j] = s[k + j - 1]
        BY <1>5, <1>6, <3>2 DEF Cut
      <3> QED
        BY <2>1, <3>2, <3>3
    <2> QED
      BY <1>4, <2>1, <2>2, <2>3
  <1>12. Cut(cut, s)
    BY <1>2, <1>8, <1>9, <1>10, <1>11 DEF Cut
  <1>13. Cut(AtMost(HistoryCount, s), s) /\ Len(AtMost(HistoryCount, s)) = Len(cut)
    BY <1>2, <1>10, AtMostCut DEF n
  <1>14. cut = AtMost(HistoryCount, s)
    BY <1>12, <1>13, SameCut
  <1> QED
    BY <1>1, <1>14 DEF Exact, AppendOldCommitsFromHistory, cut, all, new, s

Steady == forced = 0 /\ happened \cap {"fetch", "partial"} = {}

Reading(j) == j.at \in {"list", "notify", "commits"}

SteadyInv ==
    Steady =>
        /\ \A p \in Pipelines : \A r \in Held(p) : Exact(r)
        /\ \A h \in Handlers : Reading(job[h]) => \A b \in Branches : refs[b] # 0

\* After a fetch that did not fail, what is read is what the remote has.
LEMMA FetchLists ==
    ASSUME HandlersOK, NEW h \in Handlers, Fetches(h), job'[h].at = "list",
           happened' \cap {"fetch", "partial"} = {}
    PROVE  refs' = remote
  <1>1. job[h] \in Job
    BY DEF HandlersOK
  <1>2. CASE PollFetch(h)
    <2>1. \A kind \in {"fetch", "partial"} : ~Fault(kind)
      BY DEF Fault
    <2>2. \E f \in FetchOk(refs) : refs' = f.refs
      BY <1>2, <2>1 DEF PollFetch
    <2> QED
      BY <2>2 DEF FetchOk
  <1>3. \A kind : ~FetchFails(kind)
    BY DEF FetchFails, Fault
  <1>4. CASE LatestFetch(h)
    BY <1>3, <1>4 DEF LatestFetch
  <1>5. CASE CheckoutWipe(h)
    <2>1. job'[h] = [job[h] EXCEPT !.at = "fetch"]
      BY <1>5, Becomes DEF CheckoutWipe
    <2> QED
      BY <1>1, <2>1 DEF Job
  <1>6. CASE CheckoutFetch(h)
    <2>1. Become(h, [job[h] EXCEPT !.at = "failed"]) => job'[h].at = "failed"
      BY <1>1, Becomes DEF Job
    <2> QED
      BY <1>3, <1>6, <2>1 DEF CheckoutFetch
  <1> QED
    BY <1>2, <1>4, <1>5, <1>6 DEF Fetches

\* Who reads the checkout has the lock, so a fetch leaves nobody else reading.
LEMMA ReadersAlone ==
    ASSUME "save" \notin Ops, WatcherInv, FlowInv, NoSaves, NEW h \in Handlers, Fetches(h)
    PROVE  \A g \in Handlers : g # h => ~Reading(job'[g])
  <1> SUFFICES ASSUME NEW g \in Handlers, g # h
               PROVE  ~Reading(job'[g])
    OBVIOUS
  <1>1. HandlersOK /\ LockOK /\ LabelsOK
    BY DEF WatcherInv, TypeOK, FlowInv
  <1>2. job'[g] = job[g] /\ stage[g] # "in"
    BY <1>1, FetchEffect DEF OthersStay
  <1>3. job[g].op # "save"
    BY DEF NoSaves
  <1> QED
    BY <1>1, <1>2, <1>3 DEF HandlersOK, LockedAsCalled, Reading

\* A handler that is not fetching reads only after it has read.
LEMMA ReadingMoves ==
    ASSUME "save" \notin Ops, WatcherInv, FlowInv, NoSaves, [Next]_vars,
           NEW g \in Handlers, Reading(job'[g])
    PROVE  \/ Reading(job[g]) /\ refs' = refs
           \/ Fetches(g) /\ job'[g].at = "list"
  <1>1. HandlersOK /\ TablesOK /\ LockOK /\ LabelsOK
    BY DEF WatcherInv, TypeOK, FlowInv
  <1>2. CASE UNCHANGED <<job, refs>>
    BY <1>2
  <1>3. CASE Crash
    <2>1. job'[g].at = "idle"
      BY <1>3 DEF Crash, Idle
    <2> QED
      BY <2>1 DEF Reading
  <1>4. ASSUME NEW h \in Handlers, Fetches(h)
        PROVE  Fetches(g) /\ job'[g].at = "list"
    <2>1. g = h
      BY <1>4, ReadersAlone
    <2> QED
      BY <1>1, <1>4, <2>1, FetchEffect DEF Reading
  <1>5. ASSUME NEW h \in Handlers, OthersStay(h), refs' = refs, Reading(job'[h]) => Reading(job[h])
        PROVE  Reading(job[g]) /\ refs' = refs
    BY <1>5 DEF OthersStay
  <1>6. ASSUME NEW h \in Handlers,
               \/ Abort(h) \/ Returns(h)
               \/ \E op \in {"poll", "latest", "checkout"} : Call(h, op)
               \/ PollList(h) \/ ListActive(h)
               \/ \E p \in Pipelines : PollNotify(h, p)
               \/ PollSave(h) \/ CommitWrite(h)
               \/ \E p \in Pipelines : CommitRead(h, p) \/ CommitSkip(h, p)
        PROVE  OthersStay(h) /\ refs' = refs /\ (Reading(job'[h]) => Reading(job[h]))
    BY <1>1, <1>6, EndEffect, CallEffect, PollListEffect, ListActiveEffect, NotifyEffect,
       WriteEffect, CommitEffect DEF Reading
  <1>7. ASSUME NEW h \in Handlers
        PROVE  ~(\E q \in Pipelines : SaveCall(h, q)) /\ ~SaveUpdate(h) /\ ~SaveInsert(h)
    BY <1>1 DEF SaveCall, SaveUpdate, SaveInsert, NoSaves, LabelsOK, Labelled
  <1>8. ASSUME NEW b \in Branches, Push(b) \/ Reset(b)
        PROVE  UNCHANGED <<job, refs>>
    BY <1>8 DEF Push, Reset
  <1> QED
    BY <1>2, <1>3, <1>4, <1>5, <1>6, <1>7, <1>8, Steps DEF vars

\* Faults, forced pushes and restarts are counted.
LEMMA CountsGrow ==
    ASSUME WatcherInv, FlowInv, [Next]_vars
    PROVE  /\ happened \subseteq happened'
           /\ forced' = 0 => forced = 0
           /\ crashes' = 0 => crashes = 0 /\ ~Crash
  <1>1. HandlersOK /\ TablesOK /\ LockOK /\ LabelsOK /\ forced \in Nat /\ crashes \in Nat
    BY DEF WatcherInv, TypeOK, FlowInv, BoundsOK
  <1>2. ASSUME NEW b \in Branches, Push(b) \/ Reset(b)
        PROVE  UNCHANGED <<happened, crashes>> /\ (forced' = forced \/ forced' = forced + 1)
    BY <1>2 DEF Push, Reset, faults, CountForced
  <1>3. CASE Crash
    BY <1>1, <1>3 DEF Crash, env
  <1>4. CASE UNCHANGED <<happened, crashes, forced>>
    <2>1. ~Crash
      BY <1>1, <1>4 DEF Crash
    <2> QED
      BY <1>4, <2>1
  <1>5. ASSUME happened \subseteq happened', UNCHANGED crashes, forced' \in {forced, forced + 1}
        PROVE  /\ forced' = 0 => forced = 0
               /\ crashes' = 0 => crashes = 0 /\ ~Crash
    BY <1>1, <1>5 DEF Crash
  <1> QED
    BY <1>1, <1>2, <1>3, <1>4, <1>5, Steps, FetchEffect, EndEffect, CallEffect, PollListEffect,
       ListActiveEffect, NotifyEffect, WriteEffect, CommitEffect, SaveEffect DEF vars

\* Logs stay.
LEMMA LogsStay ==
    ASSUME WatcherInv, FlowInv, [Next]_vars
    PROVE  \A c \in 0..made : log'[c] = log[c] /\ c \in 0..made'
  <1>1. GitOK /\ LogOK /\ made \in Nat
    BY WatcherAssumption DEF WatcherInv, TypeOK, FlowInv, GitOK, Commits
  <1>2. ASSUME NEW b \in Branches, Push(b)
        PROVE  made' = made + 1 /\ \A c \in 0..made : log'[c] = log[c]
    BY <1>1, <1>2, PushLog DEF Push
  <1>3. ASSUME NEW b \in Branches, Reset(b)
        PROVE  UNCHANGED <<made, log>>
    BY <1>3 DEF Reset
  <1> QED
    BY <1>1, <1>2, <1>3, GitMoves

LEMMA SteadyNext ==
    ASSUME "save" \notin Ops, WatcherInv, FlowInv, NoSaves, Growing, SteadyInv, [Next]_vars
    PROVE  SteadyInv'
  <1> SUFFICES ASSUME Steady'
               PROVE  /\ \A p \in Pipelines : \A r \in Held(p)' : Exact(r)'
                      /\ \A h \in Handlers : Reading(job'[h]) => \A b \in Branches : refs'[b] # 0
    BY DEF SteadyInv, Reading
  <1>1. GitOK /\ LogOK /\ TablesOK /\ HandlersOK
    BY DEF WatcherInv, TypeOK, FlowInv
  <1>2. Steady /\ forced = 0 /\ happened' \cap {"fetch", "partial"} = {}
    BY CountsGrow DEF Steady
  <1>3. ASSUME NEW h \in Handlers, Reading(job'[h]), NEW b \in Branches
        PROVE  refs'[b] # 0
    <2>1. CASE Reading(job[h]) /\ refs' = refs
      BY <1>2, <2>1 DEF SteadyInv
    <2>2. CASE Fetches(h) /\ job'[h].at = "list"
      <3>1. refs'[b] = remote[b]
        BY <1>1, <1>2, <2>2, FetchLists
      <3> QED
        BY <1>1, <3>1 DEF GitOK
    <2> QED
      BY <1>3, <2>1, <2>2, ReadingMoves
  <1>4. ASSUME NEW p \in Pipelines, NEW r \in Held(p)'
        PROVE  Exact(r)'
    <2>1. CASE r \in Held(p)
      <3>1. Exact(r)
        BY <1>2, <2>1 DEF SteadyInv
      <3>2. r.last \in 0..made /\ r.last # 0
        BY <3>1 DEF Exact
      <3>3. log'[r.last] = log[r.last] /\ r.last \in 0..made' /\ r.last # 0
        BY <3>2, LogsStay
      <3>4. r.last \in 1..made'
        BY <3>2, <3>3
      <3> QED
        BY <3>1, <3>3, <3>4 DEF Exact, AtMost
    <2>2. ASSUME Exact(r), UNCHANGED <<made, log>>
          PROVE  Exact(r)'
      BY <2>2 DEF Exact, AtMost
    <2>3. ASSUME NEW h \in Handlers, PollSave(h) \/ CommitWrite(h), p \in Rows(job[h].out),
                 r = Written(row[p], job[h].out[p]), Saved(p)
          PROVE  Exact(r)'
      <3>1. /\ row[p] \in Row /\ job[h].out[p] \in Row /\ job[h].out[p] \in Held(p)
        BY <2>3, HeldRows
      <3>2. Exact(job[h].out[p])
        BY <1>2, <3>1 DEF SteadyInv
      <3>3. job[h].out[p].hist # <<>>
        <4>1. /\ job[h].out[p].last \in 0..made /\ job[h].out[p].last # 0
              /\ job[h].out[p].last \in 1..made
          BY <3>2 DEF Exact
        <4>2. log[job[h].out[p].last] \in Seq(Commits) /\ log[job[h].out[p].last] # <<>>
          BY <1>1, <4>1, LogSeq DEF GitOK
        <4> QED
          BY <3>2, <4>2, AtMostSeq DEF Exact
      <3>4. Exact(r)
        BY <2>3, <3>1, <3>2, <3>3, WrittenRow DEF Exact
      <3> QED
        BY <1>1, <2>2, <2>3, <3>4, WriteEffect
    <2>4. ASSUME NEW h \in Handlers, PollList(h), p \in NewlySeen, r = Polled(row[p])
          PROVE  Exact(r)'
      <3>1. UNCHANGED <<made, log>> /\ Reading(job[h])
        BY <2>4, PollListEffect DEF Reading
      <3>2. row[p] \in Row /\ row[p] \in Held(p) /\ Polled(row[p]).last # row[p].last
        BY <2>4, HeldRows DEF NewlySeen, Active
      <3>3. Exact(row[p]) /\ row[p].value \in Branches /\ refs[row[p].value] # 0
        BY <1>2, <3>1, <3>2 DEF SteadyInv, Row
      <3>4. InLog(row[p].last, refs[row[p].value])
        <4>1. Follows(row[p]) /\ row[p].last # 0
          BY <1>2, <3>2, <3>3 DEF Growing, Exact
        <4> QED
          BY <3>3, <4>1 DEF Follows
      <3>5. Exact(r)
        BY <1>1, <2>4, <3>2, <3>3, <3>4, PolledExact
      <3> QED
        BY <2>2, <3>1, <3>5
    <2>5. ASSUME NEW h \in Handlers, CommitRead(h, p), Active(p), r = Refreshed(row[p])
          PROVE  Exact(r)'
      <3>1. UNCHANGED <<made, log>> /\ Reading(job[h])
        BY <1>1, <2>5, CommitEffect DEF Reading
      <3>2. row[p] \in Row /\ row[p].value \in Branches
        BY <2>5, HeldRows DEF Active, Row
      <3>3. refs[row[p].value] # 0
        BY <1>2, <3>1, <3>2 DEF SteadyInv
      <3>4. Exact(r)
        BY <1>1, <2>5, <3>2, <3>3, RefreshedHead DEF Exact
      <3> QED
        BY <2>2, <3>1, <3>4
    <2> QED
      BY <2>1, <2>3, <2>4, <2>5, HeldNext
  <1> QED
    BY <1>3, <1>4

\* In the beginning the rows are as of the commits that are there.
LEMMA InitRows ==
    ASSUME Init
    PROVE  /\ \A p \in Pipelines : \A r \in Held(p) :
                 /\ Saved(p) /\ r = row[p] /\ r.value \in Branches
                 /\ r.last = FirstCommits /\ r.hist = AtMost(HistoryCount, log[FirstCommits])
           /\ \A p \in Pipelines : Saved(p) => row[p].last = FirstCommits
  <1> DEFINE first(b) == [value |-> b, active |-> TRUE, last |-> FirstCommits, errored |-> FALSE,
                          hist |-> AtMost(HistoryCount, log[FirstCommits])]
  <1>1. row \in [Pipelines -> {Absent} \cup {first(b) : b \in Branches}]
    BY DEF Init
  <1>2. \A h \in Handlers : Rows(job[h].out) = {}
    BY NoRows DEF Init
  <1>3. \A b \in Branches : /\ first(b).value = b /\ first(b).last = FirstCommits
                            /\ first(b).hist = AtMost(HistoryCount, log[FirstCommits])
    OBVIOUS
  <1> HIDE DEF first
  <1> QED
    BY <1>1, <1>2, <1>3 DEF Held, Saved

\* The invariants of a system without SavePipelineMaterial.
PathInv == NoSaves /\ Kept /\ Growing /\ SteadyInv

LEMMA PathInit ==
    ASSUME Init
    PROVE  PathInv
  <1>1. WatcherInv /\ LogOK
    BY InitInv, InitLog
  <1>2. /\ FirstCommits \in 1..made /\ GitOK
        /\ \A b \in Branches : refs[b] = FirstCommits /\ remote[b] = FirstCommits
    BY <1>1, WatcherAssumption DEF Init, WatcherInv, TypeOK
  <1>3. InLog(FirstCommits, FirstCommits)
    BY <1>1, <1>2, InOwnLog
  <1>4. NoSaves
    BY DEF Init, NoSaves, Idle
  <1>5. Kept
    BY InitRows DEF Kept
  <1>6. Growing
    BY <1>2, <1>3, InitRows DEF Growing, Follows
  <1>7. SteadyInv
    <2>1. \A p \in Pipelines : \A r \in Held(p) : Exact(r)
      BY <1>2, InitRows DEF Exact
    <2>2. \A h \in Handlers : ~Reading(job[h])
      BY DEF Init, Reading, Idle
    <2> QED
      BY <2>1, <2>2 DEF SteadyInv
  <1> QED
    BY <1>4, <1>5, <1>6, <1>7 DEF PathInv

THEOREM PathInvariant ==
    ASSUME "save" \notin Ops
    PROVE  SafeSpec => []PathInv
  <1>1. WatcherInv /\ FlowInv /\ PathInv /\ [Next]_vars => PathInv'
    BY NoSavesNext, KeptNext, GrowingNext, SteadyNext DEF PathInv
  <1> QED
    BY <1>1, PathInit, FlowInvariant, PTL DEF SafeSpec

\* CommitHistory is the log of the branch as of LastSeenHash up to its limit, so
\* none of the polls, for which a branch's new commits are put in front of the
\* old history (Watcher.go:262), loses or repeats a commit, with both git
\* managers, and across restarts and failed queries, as long as only polls and
\* checkouts write the row.
THEOREM HistoriesAreLogs ==
    ASSUME "save" \notin Ops
    PROVE  SafeSpec => []HistoryIsLog
  <1>1. WatcherInv /\ PathInv => HistoryIsLog
    <2> SUFFICES ASSUME WatcherInv, PathInv, Steady,
                        NEW p \in Pipelines, Saved(p)
                 PROVE  row[p].hist = AtMost(HistoryCount, log[row[p].last])
      BY DEF HistoryIsLog, Steady
    <2>1. row[p] \in Held(p)
      BY HeldRows
    <2> QED
      BY <2>1 DEF PathInv, SteadyInv, Exact
  <1> QED
    BY <1>1, PathInvariant, WatcherInvariant, PTL

-----------------------------------------------------------------------------
(* No commit is announced twice: what was announced is in the row, or in the *)
(* row that the poll at work has yet to write.                               *)

Calm == forced = 0 /\ crashes = 0 /\ happened \cap {"fetch", "partial", "db"} = {}

\* Handler h has announced commit c for p and not yet written it.
Pending(h, p, c) ==
    job[h].at = "notify" /\ p \in Rows(job[h].out) \ job[h].todo /\ c = job[h].out[p].last

Seen(p, c) == Saved(p) /\ (c <= row[p].last \/ \E h \in Handlers : Pending(h, p, c))

CalmInv ==
    Calm =>
        /\ \A h \in Handlers : job[h].at = "notify" =>
              \A p \in Rows(job[h].out) : job[h].out[p].last # row[p].last
        /\ \A h \in Handlers : job[h].at = "commits" =>
              \A p \in Rows(job[h].out) : job[h].out[p].last = refs[job[h].out[p].value]
        /\ \A p \in Pipelines, c \in Commits :
              pubs[p][c] <= 1 /\ (pubs[p][c] > 0 => Seen(p, c))

LEMMA OneReader ==
    ASSUME WatcherInv, FlowInv, NoSaves,
           NEW g \in Handlers, NEW h \in Handlers, Reading(job[g]), Reading(job[h])
    PROVE  g = h
  <1>1. stage[g] = "in" /\ stage[h] = "in"
    BY DEF WatcherInv, TypeOK, HandlersOK, LockedAsCalled, NoSaves, Reading
  <1> QED
    BY <1>1 DEF FlowInv, LockOK

\* A commit of a log is not newer than its head.
LEMMA LogBelow ==
    ASSUME GitOK, LogOK, NEW c \in 1..made, NEW d, InLog(d, c)
    PROVE  d \in 1..c
  <1>1. PICK i \in DOMAIN log[c] : log[c][i] = d
    BY DEF InLog
  <1>2. c \in 0..made
    BY LogSeq
  <1>3. i \in 1..Len(log[c])
    BY <1>1, <1>2, LogSeq
  <1> QED
    BY <1>1, <1>3 DEF LogOK, Chain

\* The head of its branch on disk is not older than a row.
LEMMA RowBehind ==
    ASSUME WatcherInv, FlowInv, PathInv, Calm, NEW p \in Pipelines, NEW r \in Held(p),
           refs[r.value] # 0
    PROVE  /\ row[p].last \in 1..refs[r.value] /\ refs[r.value] \in 1..made
           /\ r.value = row[p].value
  <1>1. GitOK /\ LogOK /\ Saved(p) /\ r.value = row[p].value /\ r \in Row
    BY DEF WatcherInv, TypeOK, FlowInv, PathInv, Kept, Held
  <1>2. row[p] \in Held(p) /\ row[p] \in Row
    BY <1>1, HeldRows
  <1>3. Follows(row[p]) /\ row[p].last # 0
    <2>1. row[p].last \in 1..made
      BY <1>2 DEF Calm, Steady, PathInv, SteadyInv, Exact
    <2> QED
      BY <1>2, <2>1 DEF Calm, PathInv, Growing
  <1>4. refs[r.value] \in 0..made
    BY <1>1, RemoteRefs DEF Row
  <1>5. refs[r.value] \in 1..made
    BY <1>4, <1>1, LogSeq
  <1> QED
    BY <1>1, <1>3, <1>5, LogBelow DEF Follows

\* A step that announces nothing and writes no row.
LEMMA CalmStep ==
    ASSUME WatcherInv, FlowInv, PathInv, CalmInv, Calm,
           NEW h \in Handlers, OthersStay(h), UNCHANGED <<row, pubs>>,
           job'[h].at = "notify" => \A p \in Rows(job'[h].out) : job'[h].out[p].last # row[p].last,
           \A g \in Handlers : job'[g].at = "commits" =>
              \A p \in Rows(job'[g].out) : job'[g].out[p].last = refs'[job'[g].out[p].value],
           job[h].at # "notify"
    PROVE  CalmInv'
  <1>1. \A g \in Handlers, p \in Pipelines, c \in Commits : Pending(g, p, c) => Pending(g, p, c)'
    BY DEF Pending, OthersStay, Rows
  <1>2. \A p \in Pipelines, c \in Commits : Seen(p, c) => Seen(p, c)'
    BY <1>1 DEF Seen, Saved
  <1>3. \A g \in Handlers : job'[g].at = "notify" =>
           \A p \in Rows(job'[g].out) : job'[g].out[p].last # row'[p].last
    BY DEF CalmInv, OthersStay, Rows
  <1>4. \A p \in Pipelines, c \in Commits :
           pubs'[p][c] <= 1 /\ (pubs'[p][c] > 0 => Seen(p, c)')
    BY <1>2 DEF CalmInv
  <1> QED
    BY <1>3, <1>4 DEF CalmInv, Rows

LEMMA CalmNotify ==
    ASSUME WatcherInv, FlowInv, PathInv, CalmInv, Calm,
           NEW h \in Handlers, NEW p \in Pipelines, PollNotify(h, p)
    PROVE  CalmInv'
  <1>1. HandlersOK /\ TablesOK /\ GitOK /\ LogOK
    BY DEF WatcherInv, TypeOK, FlowInv
  <1> DEFINE d == job[h].out[p].last
  <1>2. /\ UNCHANGED <<refs, row>> /\ job[h].at = "notify" /\ p \in job[h].todo
        /\ job'[h].at = "notify" /\ job'[h].todo = job[h].todo \ {p} /\ job'[h].out = job[h].out
        /\ OthersStay(h)
    BY <1>1, NotifyEffect
  <1>3. \A q \in Pipelines, c \in Commits :
           /\ pubs'[q][c] \in {pubs[q][c], pubs[q][c] + 1} /\ pubs[q][c] \in Nat
           /\ pubs'[q][c] # pubs[q][c] => q = p /\ c = d
    BY <1>1, NotifyEffect
  <1>4. /\ p \in Rows(job[h].out) /\ job[h].out[p] \in Held(p) /\ Saved(p)
        /\ d = refs[job[h].out[p].value] /\ d \in 1..made /\ job[h].out[p] \in Row
    <2>1. Heading(job[h])
      BY DEF FlowInv, HeadsOK
    <2>2. p \in Rows(job[h].out)
      BY <1>2, <2>1 DEF Heading
    <2> QED
      BY <1>2, <2>1, <2>2, HeldRows DEF Heading, PathInv, Kept
  <1>5. made \in Nat /\ made <= MaxCommits /\ MaxCommits \in Nat
    BY <1>1, WatcherAssumption DEF GitOK, Commits
  <1>6. row[p].last \in 1..d /\ row[p].last # d
    <2>1. refs[job[h].out[p].value] # 0
      BY <1>4
    <2> QED
      BY <1>2, <1>4, <2>1, RowBehind DEF CalmInv
  <1>7. ~Seen(p, d)
    <2>1. ASSUME NEW g \in Handlers, Pending(g, p, d)
          PROVE  FALSE
      <3>1. g = h
        BY <1>2, <2>1, OneReader DEF Pending, Reading, PathInv
      <3> QED
        BY <1>2, <2>1, <3>1 DEF Pending
    <2>2. ~(d <= row[p].last)
      BY <1>4, <1>5, <1>6
    <2> QED
      BY <2>1, <2>2 DEF Seen
  <1>8. d \in Commits
    BY <1>4, <1>5 DEF Commits
  <1>9. pubs[p][d] = 0
    BY <1>1, <1>7, <1>8 DEF CalmInv, TablesOK
  <1>10. \A q \in Pipelines, c \in Commits : pubs'[q][c] <= 1
    BY <1>3, <1>9 DEF CalmInv
  <1>11. \A g \in Handlers, q \in Pipelines, c \in Commits : Pending(g, q, c) => Pending(g, q, c)'
    BY <1>2 DEF Pending, OthersStay, Rows
  <1>12. \A q \in Pipelines, c \in Commits : Seen(q, c) => Seen(q, c)'
    BY <1>2, <1>11 DEF Seen, Saved
  <1>13. Seen(p, d)'
    <2>1. Pending(h, p, d)'
      BY <1>2, <1>4 DEF Pending, Rows
    <2> QED
      BY <1>2, <1>4, <2>1 DEF Seen, Saved
  <1>14. \A q \in Pipelines, c \in Commits : pubs'[q][c] > 0 => Seen(q, c)'
    <2> SUFFICES ASSUME NEW q \in Pipelines, NEW c \in Commits, pubs'[q][c] > 0
                 PROVE  Seen(q, c)'
      OBVIOUS
    <2>1. CASE q = p /\ c = d
      <3>1. PICK e : e = d
        OBVIOUS
      <3>2. d' = d
        BY <1>2
      <3> HIDE DEF d
      <3> QED
        BY <1>13, <2>1, <3>2
    <2>2. CASE pubs'[q][c] = pubs[q][c]
      BY <1>12, <2>2 DEF CalmInv
    <2> QED
      BY <1>3, <2>1, <2>2
  <1>15. \A g \in Handlers : job'[g].at = "notify" =>
            \A q \in Rows(job'[g].out) : job'[g].out[q].last # row'[q].last
    BY <1>2 DEF CalmInv, OthersStay
  <1>16. \A g \in Handlers : job'[g].at = "commits" =>
            \A q \in Rows(job'[g].out) : job'[g].out[q].last = refs'[job'[g].out[q].value]
    BY <1>2 DEF CalmInv, OthersStay
  <1> QED
    BY <1>10, <1>14, <1>15, <1>16 DEF CalmInv, Rows

LEMMA CalmWrite ==
    ASSUME "save" \notin Ops, WatcherInv, FlowInv, PathInv, CalmInv, Calm, [Next]_vars, Calm',
           NEW h \in Handlers, PollSave(h) \/ CommitWrite(h)
    PROVE  CalmInv'
  <1>1. HandlersOK /\ TablesOK /\ GitOK /\ LogOK /\ NoSaves
    BY DEF WatcherInv, TypeOK, FlowInv, PathInv
  <1>2. /\ UNCHANGED <<refs, pubs, made>> /\ job[h].at \in {"notify", "commits"}
        /\ job[h].todo = {} /\ job'[h].at = "done" /\ OthersStay(h)
        /\ \A p \in Pipelines :
              row'[p] = IF p \in Rows(job[h].out) THEN Written(row[p], job[h].out[p]) ELSE row[p]
    <2>1. "db" \notin happened'
      BY DEF Calm
    <2> QED
      BY <1>1, <2>1, WriteEffect
  <1>3. ASSUME NEW g \in Handlers
        PROVE  ~Reading(job'[g])
    <2>1. CASE g = h
      BY <1>2, <2>1 DEF Reading
    <2>2. CASE g # h
      <3>1. job'[g] = job[g] /\ Reading(job[h])
        BY <1>2, <2>2 DEF OthersStay, Reading
      <3> QED
        BY <1>1, <2>2, <3>1, OneReader
    <2> QED
      BY <2>1, <2>2
  \* the rows that are written move on to the head of their branch
  <1>4. ASSUME NEW p \in Pipelines, p \in Rows(job[h].out)
        PROVE  /\ Saved(p) /\ row[p].last <= row'[p].last
               /\ row'[p].last = job[h].out[p].last
    <2>1. job[h].out[p] \in Held(p) /\ job[h].out[p] \in Row /\ Saved(p) /\ row[p] \in Row
      BY <1>4, HeldRows DEF PathInv, Kept
    <2>2. row'[p].last = job[h].out[p].last
      BY <1>2, <1>4, <2>1, WrittenRow
    <2>3. job[h].out[p].last = refs[job[h].out[p].value]
      <3>1. job[h].at = "notify" => Heading(job[h])
        BY DEF FlowInv, HeadsOK
      <3> QED
        BY <1>2, <1>4, <3>1 DEF Heading, CalmInv
    <2>4. refs[job[h].out[p].value] # 0
      BY <1>2, <2>1 DEF Calm, Steady, PathInv, SteadyInv, Reading, Row
    <2>5. row[p].last \in 1..refs[job[h].out[p].value] /\ refs[job[h].out[p].value] \in 1..made
      BY <2>1, <2>4, RowBehind
    <2> QED
      BY <1>1, <2>1, <2>2, <2>3, <2>5, LogSeq
  <1>5. ASSUME NEW p \in Pipelines, NEW c \in Commits, Seen(p, c)
        PROVE  Seen(p, c)'
    <2>1. Saved(p)'
      BY <1>5, KeptNext DEF Seen, PathInv
    <2>2. c \in Nat /\ Saved(p) /\ row[p] \in Row /\ row[p].last \in Nat
      BY <1>5, HeldRows DEF Seen, Commits, Row
    <2>3. CASE c <= row[p].last /\ p \in Rows(job[h].out)
      <3>1. job[h].out[p] \in Row /\ row'[p].last = job[h].out[p].last /\ row[p].last <= row'[p].last
        BY <1>4, <2>3, HeldRows
      <3>2. c <= row'[p].last
        BY <2>2, <2>3, <3>1 DEF Row
      <3> QED
        BY <2>1, <3>2 DEF Seen
    <2>4. CASE c <= row[p].last /\ p \notin Rows(job[h].out)
      BY <1>2, <2>1, <2>4 DEF Seen
    <2>5. ASSUME NEW g \in Handlers, Pending(g, p, c)
          PROVE  Seen(p, c)'
      <3>1. g = h
        BY <1>1, <1>2, <2>5, OneReader DEF Pending, Reading
      <3>2. p \in Rows(job[h].out) /\ c = job[h].out[p].last
        BY <2>5, <3>1 DEF Pending
      <3>3. row'[p].last = c
        BY <1>4, <3>2
      <3> QED
        BY <2>1, <2>2, <3>3 DEF Seen
    <2> QED
      BY <1>5, <2>3, <2>4, <2>5 DEF Seen
  <1>6. \A p \in Pipelines, c \in Commits :
           pubs'[p][c] <= 1 /\ (pubs'[p][c] > 0 => Seen(p, c)')
    BY <1>2, <1>5 DEF CalmInv
  <1> QED
    BY <1>3, <1>6 DEF CalmInv, Reading, Rows

LEMMA CalmNext ==
    ASSUME "save" \notin Ops, WatcherInv, FlowInv, PathInv, CalmInv, [Next]_vars
    PROVE  CalmInv'
  <1> SUFFICES ASSUME Calm'
               PROVE  CalmInv'
    BY DEF CalmInv
  <1>1. HandlersOK /\ TablesOK /\ LockOK /\ LabelsOK /\ GitOK /\ LogOK /\ NoSaves
    BY DEF WatcherInv, TypeOK, FlowInv, PathInv
  <1>2. Calm /\ ~Crash
    BY CountsGrow DEF Calm
  <1>3. CASE UNCHANGED <<row, job, pubs, refs>>
    BY <1>2, <1>3 DEF CalmInv, Seen, Pending, Saved, Rows
  <1>4. ASSUME NEW b \in Branches, Push(b) \/ Reset(b)
        PROVE  UNCHANGED <<row, job, pubs, refs>>
    BY <1>4 DEF Push, Reset
  <1>5. ASSUME NEW h \in Handlers,
               \/ Fetches(h) \/ Abort(h) \/ Returns(h)
               \/ \E op \in {"poll", "latest", "checkout"} : Call(h, op)
               \/ PollList(h) \/ ListActive(h)
               \/ \E p \in Pipelines : PollNotify(h, p)
               \/ PollSave(h) \/ CommitWrite(h)
               \/ \E p \in Pipelines : CommitRead(h, p) \/ CommitSkip(h, p)
        PROVE  CalmInv'
    <2>1. ASSUME NEW g \in Handlers, refs' = refs, job'[g] = job[g], job'[g].at = "commits"
          PROVE  \A p \in Rows(job'[g].out) : job'[g].out[p].last = refs'[job'[g].out[p].value]
      BY <1>2, <2>1 DEF CalmInv, Rows
    <2>2. CASE Fetches(h)
      <3>1. /\ OthersStay(h) /\ UNCHANGED <<row, pubs>> /\ job[h].at # "notify"
            /\ job'[h].at \notin {"notify", "commits"}
        BY <1>1, <2>2, FetchEffect
      <3>2. \A g \in Handlers : job'[g].at # "commits"
        BY <2>2, <3>1, ReadersAlone DEF Reading, PathInv
      <3> QED
        BY <1>2, <3>1, <3>2, CalmStep
    <2>3. CASE \/ Abort(h) \/ Returns(h) \/ ListActive(h)
               \/ \E op \in {"poll", "latest", "checkout"} : Call(h, op)
      <3>1. /\ OthersStay(h) /\ UNCHANGED <<row, pubs, refs>> /\ job[h].at # "notify"
            /\ job'[h].at # "notify" /\ Rows(job'[h].out) = {}
        BY <1>1, <2>3, EndEffect, CallEffect, ListActiveEffect
      <3>2. ASSUME NEW g \in Handlers, job'[g].at = "commits", NEW p \in Rows(job'[g].out)
            PROVE  job'[g].out[p].last = refs'[job'[g].out[p].value]
        BY <2>1, <3>1, <3>2 DEF OthersStay
      <3> QED
        BY <1>2, <3>1, <3>2, CalmStep
    <2>4. CASE PollList(h)
      <3>1. /\ OthersStay(h) /\ UNCHANGED <<row, pubs, refs>> /\ job[h].at # "notify"
            /\ job'[h].at = "notify" /\ Rows(job'[h].out) = NewlySeen
            /\ \A p \in NewlySeen : job'[h].out[p] = Polled(row[p])
        BY <2>4, PollListEffect
      <3>2. ASSUME NEW g \in Handlers, job'[g].at = "commits", NEW p \in Rows(job'[g].out)
            PROVE  job'[g].out[p].last = refs'[job'[g].out[p].value]
        BY <2>1, <3>1, <3>2 DEF OthersStay
      <3>3. \A p \in Rows(job'[h].out) : job'[h].out[p].last # row[p].last
        BY <3>1 DEF NewlySeen
      <3> QED
        BY <1>2, <3>1, <3>2, <3>3, CalmStep
    <2>5. CASE \E p \in Pipelines : CommitRead(h, p) \/ CommitSkip(h, p)
      <3>1. PICK p \in Pipelines : CommitRead(h, p) \/ CommitSkip(h, p)
        BY <2>5
      <3>2. /\ OthersStay(h) /\ UNCHANGED <<row, pubs, refs>> /\ job[h].at = "commits"
            /\ job'[h].at # "notify"
            /\ \A q \in Pipelines : q # p => job'[h].out[q] = job[h].out[q]
            /\ \/ job'[h].out[p] = job[h].out[p]
               \/ Active(p) /\ job'[h].out[p] = Refreshed(row[p])
        BY <1>1, <3>1, CommitEffect
      <3>3. ASSUME NEW q \in Rows(job'[h].out)
            PROVE  job'[h].out[q].last = refs[job'[h].out[q].value]
        <4>1. CASE job'[h].out[q] = job[h].out[q]
          <5>1. q \in Rows(job[h].out)
            BY <4>1 DEF Rows
          <5> QED
            BY <1>2, <3>2, <4>1, <5>1 DEF CalmInv
        <4>2. CASE q = p /\ Active(p) /\ job'[h].out[p] = Refreshed(row[p])
          <5>1. row[p] \in Row
            BY <4>2, HeldRows DEF Active
          <5>2. Refreshed(row[p]).last = refs[Refreshed(row[p]).value]
            BY <1>1, <5>1, RefreshedHead
          <5> QED
            BY <4>2, <5>2
        <4> QED
          BY <3>2, <4>1, <4>2 DEF Rows
      <3>4. ASSUME NEW g \in Handlers, job'[g].at = "commits", NEW q \in Rows(job'[g].out)
            PROVE  job'[g].out[q].last = refs'[job'[g].out[q].value]
        <4>1. CASE g = h
          BY <3>2, <3>3, <3>4, <4>1
        <4>2. CASE g # h
          BY <2>1, <3>2, <3>4, <4>2 DEF OthersStay
        <4> QED
          BY <4>1, <4>2
      <3>5. job[h].at # "notify"
        BY <3>2
      <3> QED
        BY <1>2, <3>2, <3>4, <3>5, CalmStep
    <2>6. CASE \E p \in Pipelines : PollNotify(h, p)
      BY <1>2, <2>6, CalmNotify
    <2>7. CASE PollSave(h) \/ CommitWrite(h)
      BY <1>2, <2>7, CalmWrite
    <2> QED
      BY <1>5, <2>2, <2>3, <2>4, <2>5, <2>6, <2>7
  <1>6. ASSUME NEW h \in Handlers
        PROVE  ~(\E q \in Pipelines : SaveCall(h, q)) /\ ~SaveUpdate(h) /\ ~SaveInsert(h)
    BY <1>1 DEF SaveCall, SaveUpdate, SaveInsert, NoSaves, LabelsOK, Labelled
  <1> QED
    BY <1>2, <1>3, <1>4, <1>5, <1>6, Steps DEF vars

\* No pipeline is told twice about one commit, however polls,
\* GetLatestCommitForBranch and checkouts interleave and whatever messages are
\* lost, as long as branches only grow and nothing keeps a poll from writing
\* what it has announced (Watcher.go:291-295).
THEOREM NoRepeats ==
    ASSUME "save" \notin Ops
    PROVE  SafeSpec => []NoRepeat
  <1>1. Init => CalmInv
    <2> SUFFICES ASSUME Init
                 PROVE  CalmInv
      OBVIOUS
    <2>1. \A h \in Handlers : job[h].at = "idle"
      BY DEF Init, Idle
    <2>2. \A p \in Pipelines, c \in Commits : pubs[p][c] = 0
      BY DEF Init
    <2> QED
      BY <2>1, <2>2 DEF CalmInv
  <1>2. WatcherInv /\ FlowInv /\ PathInv /\ CalmInv /\ [Next]_vars => CalmInv'
    BY CalmNext
  <1>3. CalmInv => NoRepeat
    BY DEF CalmInv, Calm, NoRepeat
  <1> QED
    BY <1>1, <1>2, <1>3, FlowInvariant, PathInvariant, PTL DEF SafeSpec

-----------------------------------------------------------------------------
(* Where only polls run, a poll that returns has announced every head.       *)

\* The git cli reads a row's new commits if its last one has a parent.
Deep ==
    /\ \A c \in 2..made : Len(log[c]) > 1
    /\ forced = 0 =>
          /\ \A b \in Branches : remote[b] >= FirstCommits /\ refs[b] >= FirstCommits
          /\ \A p \in Pipelines : \A r \in Held(p) : r.last >= FirstCommits

\* Only the branches' first commit of all has none.
LEMMA DeepInit ==
    ASSUME Init
    PROVE  Deep
  <1>1. /\ FirstCommits \in 1..MaxCommits /\ MaxCommits \in Nat /\ made = FirstCommits
        /\ \A b \in Branches : remote[b] = FirstCommits /\ refs[b] = FirstCommits
        /\ log = [c \in 0..MaxCommits |->
                    IF c <= FirstCommits THEN [i \in 1..c |-> c + 1 - i] ELSE <<>>]
    BY WatcherAssumption DEF Init
  <1>2. ASSUME NEW c \in 2..made
        PROVE  Len(log[c]) > 1
    <2>0. c \in 0..MaxCommits /\ c <= FirstCommits
      BY <1>1
    <2>1. log[c] = [i \in 1..c |-> c + 1 - i]
      BY <1>1, <2>0
    <2>2. c \in Nat /\ c > 1
      BY <2>0
    <2>3. Len([i \in 1..c |-> c + 1 - i]) = c
      BY <2>2
    <2>4. Len(log[c]) = c
      BY <2>1, <2>3, Zenon
    <2> QED
      BY <2>2, <2>4
  <1>3. \A p \in Pipelines : \A r \in Held(p) : r.last >= FirstCommits
    <2> SUFFICES ASSUME NEW p \in Pipelines, NEW r \in Held(p)
                 PROVE  r.last >= FirstCommits
      OBVIOUS
    <2>1. r.last = FirstCommits
      BY InitRows, Zenon
    <2> QED
      BY <1>1, <2>1
  <1>4. \A b \in Branches : remote[b] >= FirstCommits /\ refs[b] >= FirstCommits
    <2>1. FirstCommits >= FirstCommits
      BY <1>1
    <2> QED
      BY <1>1, <2>1, Zenon
  <1> QED
    BY <1>2, <1>3, <1>4 DEF Deep

LEMMA DeepNext ==
    ASSUME Ops = {"poll"}, WatcherInv, FlowInv, PathInv, ToldInv, Deep, [Next]_vars
    PROVE  Deep'
  <1>1. GitOK /\ LogOK /\ HandlersOK /\ forced \in Nat /\ made \in Nat /\ FirstCommits \in Nat
        /\ FirstCommits >= 1
    BY WatcherAssumption DEF WatcherInv, TypeOK, FlowInv, BoundsOK, GitOK, Commits
  <1>2. \A h \in Handlers : Fetches(h) => PollFetch(h)
    BY DEF ToldInv, PollsOnly, Fetches, LatestFetch, CheckoutWipe, CheckoutFetch
  <1>3. \A c \in 2..made' : Len(log'[c]) > 1
    <2>1. ASSUME NEW b \in Branches, Push(b)
          PROVE  \A c \in 2..made' : Len(log'[c]) > 1
      <3>1. PICK m \in Nat : m = made + 1 /\ made' = m /\ Len(log'[m]) > 1
        BY <1>1, <2>1, PushLog
      <3>2. \A c \in 0..made : log'[c] = log[c]
        BY <1>1, <2>1, PushLog
      <3>3. \A c \in 2..m : c = m \/ (c \in 2..made /\ c \in 0..made)
        BY <1>1, <3>1
      <3> QED
        BY <3>1, <3>2, <3>3 DEF Deep
    <2>2. ASSUME NEW b \in Branches, Reset(b)
          PROVE  UNCHANGED <<made, log>>
      BY <2>2 DEF Reset
    <2> QED
      BY <2>1, <2>2, GitMoves DEF Deep
  <1> SUFFICES ASSUME forced' = 0
               PROVE  /\ \A b \in Branches : remote'[b] >= FirstCommits /\ refs'[b] >= FirstCommits
                      /\ \A p \in Pipelines : \A r \in Held(p)' : r.last >= FirstCommits
    BY <1>3 DEF Deep
  <1>4. forced = 0
    BY CountsGrow
  <1>5. \A b \in Branches : /\ remote[b] \in 1..made /\ refs[b] \in 0..made
                            /\ remote[b] >= FirstCommits /\ refs[b] >= FirstCommits
    BY <1>1, <1>4 DEF Deep, GitOK
  <1>6. \A b \in Branches : remote'[b] >= FirstCommits /\ refs'[b] >= FirstCommits
    <2>1. ASSUME NEW b \in Branches, Push(b)
          PROVE  \A a \in Branches : remote'[a] >= FirstCommits /\ refs'[a] >= FirstCommits
      <3>1. remote' = [remote EXCEPT ![b] = made + 1] /\ refs' = refs
        BY <2>1 DEF Push
      <3>2. made + 1 >= FirstCommits
        BY <1>1, <1>5
      <3> QED
        BY <1>1, <1>5, <3>1, <3>2 DEF GitOK
    <2>2. ASSUME NEW b \in Branches, Reset(b)
          PROVE  FALSE
      BY <1>1, <1>4, <2>2 DEF Reset, CountForced
    <2>3. CASE UNCHANGED remote /\ (refs' = refs \/ \E h \in Handlers : Fetches(h))
      BY <1>1, <1>2, <1>5, <2>3, FetchRefs
    <2> QED
      BY <2>1, <2>2, <2>3, GitMoves
  <1>7. ASSUME NEW p \in Pipelines, NEW r \in Held(p)'
        PROVE  r.last >= FirstCommits
    <2>1. CASE r \in Held(p)
      BY <1>4, <2>1 DEF Deep
    <2>2. ASSUME NEW h \in Handlers, p \in Rows(job[h].out),
                 r = Written(row[p], job[h].out[p]), Saved(p)
          PROVE  r.last >= FirstCommits
      <3>1. row[p] \in Row /\ job[h].out[p] \in Row /\ job[h].out[p] \in Held(p)
        BY <2>2, HeldRows
      <3> QED
        BY <1>4, <2>2, <3>1, WrittenRow DEF Deep
    <2>3. ASSUME p \in NewlySeen, r = Polled(row[p])
          PROVE  r.last >= FirstCommits
      <3>1. row[p] \in Row /\ row[p].value \in Branches /\ Polled(row[p]).last # row[p].last
        BY <2>3, HeldRows DEF NewlySeen, Active, Row
      <3>2. r.last = refs[row[p].value]
        BY <1>1, <2>3, <3>1, PolledHead
      <3> QED
        BY <1>5, <3>1, <3>2
    <2>4. \A h \in Handlers : ~CommitRead(h, p)
      BY DEF ToldInv, PollsOnly, CommitRead
    <2>5. "save" \notin Ops /\ NoSaves
      BY DEF PathInv
    <2> QED
      BY <2>1, <2>2, <2>3, <2>4, <2>5, HeldNext
  <1> QED
    BY <1>6, <1>7

\* A poll finds a head that its row has not.
LEMMA PolledMoves ==
    ASSUME GitOK, LogOK, NEW r \in Row, refs[r.value] \in 1..made, refs[r.value] # r.last,
           ~IteratorFails(r.value, r.last),
           UseGitCli => InLog(r.last, refs[r.value])
    PROVE  Polled(r).last = refs[r.value]
  <1> DEFINE s   == log[refs[r.value]]
             new == ChangesSince(r.value, r.last)
  <1>1. /\ s \in Seq(Commits) /\ Len(s) \in Nat /\ DOMAIN s = 1..Len(s)
        /\ s # <<>> /\ s[1] = refs[r.value] /\ r.value \in Branches
    <2>1. refs[r.value] \in 0..made
      BY LogSeq
    <2> QED
      BY <2>1, LogSeq DEF GitOK, LogOK, Chain, Row
  <1>2. new \in Seq(Commits)
    BY <1>1, ChangesSinceSeq
  <1>3. new # <<>>
    <2>1. CASE UseGitCli
      <3>1. PICK k \in 1..Len(s) : s[k] = r.last
        BY <1>1, <2>1 DEF InLog
      <3>2. k # 1 /\ k \in Nat
        BY <1>1, <3>1
      <3>3. Len(new) = IF k - 1 < HistoryCount THEN k - 1 ELSE HistoryCount
        BY <1>1, <3>1, ChangesExact
      <3>4. Len(new) # 0
        BY <3>2, <3>3, WatcherAssumption
      <3> QED
        BY <1>2, <3>4, EmptySeq
    <2>2. CASE ~UseGitCli
      <3>1. Iterated(r.value, r.last) = s
        BY <2>2 DEF Iterated
      <3>2. Before(r.last, s) # <<>> /\ Before(r.last, s) \in Seq(Commits)
        BY <1>1, BeforeCut DEF Cut
      <3> QED
        BY <3>1, <3>2, AtMostSeq DEF ChangesSince
    <2> QED
      BY <2>1, <2>2
  <1>4. new[1] = refs[r.value]
    BY <1>1, <1>3, ChangesHead
  <1>5. Polled(r) = [r EXCEPT !.last = new[1], !.errored = FALSE,
                              !.hist = AppendOldCommitsFromHistory(new, r.hist)]
    BY <1>3, <1>4 DEF Polled
  <1> HIDE DEF new
  <1> QED
    BY <1>4, <1>5 DEF Row

\* What may go wrong: a fetch that does nothing.
Sound == crashes = 0 /\ happened \subseteq {"fetch"}

Heard(p) == New(refs[row[p].value]) => pubs[p][refs[row[p].value]] > 0

HeardInv ==
    Sound => \A p \in Pipelines : Active(p) =>
        \/ Heard(p)
        \/ \E h \in Handlers : \/ job[h].at = "list"
                               \/ job[h].at = "notify" /\ p \in job[h].todo

\* A poll that finds nothing to list has not moved a ref.
LEMMA PollFetchKeeps ==
    ASSUME GitOK, HandlersOK, NEW h \in Handlers, PollFetch(h), Sound', job'[h].at # "list"
    PROVE  \A b \in Branches : refs'[b] = refs[b]
  <1>1. job[h] \in Job /\ refs \in [Branches -> 0..made]
    BY RemoteRefs DEF HandlersOK
  <1>2. ~Fault("partial")
    BY DEF Sound, Fault
  <1>3. \A r \in [Branches -> 0..made] : \A f \in FetchErr("fetch", r) :
           f \in [Branches -> 0..made] /\ \A b \in Branches : f[b] = r[b]
    BY DEF FetchErr
  <1>4. ~Become(h, [job[h] EXCEPT !.at = "list"])
    <2>1. ASSUME Become(h, [job[h] EXCEPT !.at = "list"])
          PROVE  FALSE
      <3>1. job'[h] = [job[h] EXCEPT !.at = "list"]
        BY <2>1, Becomes
      <3> QED
        BY <1>1, <3>1 DEF Job
    <2> QED
      BY <2>1
  <1>5. \A r \in [Branches -> 0..made] : \A f \in FetchOk(r) :
           ~f.updated => \A b \in Branches : f.refs[b] = r[b]
    <2> SUFFICES ASSUME NEW r \in [Branches -> 0..made], NEW f \in FetchOk(r), ~f.updated
                 PROVE  f.refs = r
      OBVIOUS
    <2>1. PICK u \in {r # remote, TRUE} : f = [refs |-> remote, updated |-> u]
      BY DEF FetchOk
    <2>2. f.refs = remote /\ f.updated = u
      BY <2>1
    <2>3. u = (r # remote)
      BY <2>1, <2>2
    <2>4. ~(r # remote)
      BY <2>2, <2>3
    <2> QED
      BY <2>2, <2>4
  <1>6. \/ \E f \in FetchOk(refs) : refs' = f.refs /\ ~f.updated
        \/ \E r \in FetchErr("fetch", refs) :
              \/ \E f \in FetchOk(r) : refs' = f.refs /\ ~f.updated
              \/ refs' \in FetchErr("fetch", r) \/ refs' = r
    BY <1>2, <1>4 DEF PollFetch
  <1> QED
    BY <1>1, <1>3, <1>5, <1>6

\* A step of h that writes no row, moves no ref, and does not end its listing.
LEMMA HeardStep ==
    ASSUME TablesOK, GitOK, HeardInv, Sound, NEW h \in Handlers, OthersStay(h), UNCHANGED <<row, pubs>>,
           \A b \in Branches : refs'[b] = refs[b],
           job[h].at \notin {"list", "notify"}
    PROVE  HeardInv'
  <1> SUFFICES ASSUME NEW p \in Pipelines, Active(p)'
               PROVE  \/ Heard(p)'
                      \/ \E g \in Handlers : \/ job'[g].at = "list"
                                             \/ job'[g].at = "notify" /\ p \in job'[g].todo
    BY DEF HeardInv
  <1>1. Active(p)
    BY DEF Active, Saved
  <1>2. CASE Heard(p)
    <2>1. row[p].value \in Branches
      BY <1>1 DEF Active, Saved, TablesOK, Row
    <2>2. refs'[row[p].value] = refs[row[p].value]
      BY <2>1
    <2> QED
      BY <1>2, <2>2 DEF Heard, New
  <1>3. CASE \E g \in Handlers : \/ job[g].at = "list"
                                 \/ job[g].at = "notify" /\ p \in job[g].todo
    BY <1>3 DEF OthersStay
  <1> QED
    BY <1>1, <1>2, <1>3 DEF HeardInv

LEMMA HeardList ==
    ASSUME Ops = {"poll"}, UseGitCli => MaxForced = 0 /\ FirstCommits > 1,
           WatcherInv, FlowInv, PathInv, ToldInv, Deep, Sound,
           NEW h \in Handlers, PollList(h)
    PROVE  HeardInv'
  <1>1. GitOK /\ LogOK /\ TablesOK /\ BoundsOK
    BY DEF WatcherInv, TypeOK, FlowInv
  <1>2. /\ UNCHANGED <<refs, row, pubs>> /\ job'[h].at = "notify" /\ job'[h].todo = NewlySeen
    BY PollListEffect
  <1>3. ASSUME NEW p \in Pipelines, Active(p), p \notin NewlySeen
        PROVE  Heard(p)
    <2> DEFINE r == row[p]
               c == refs[r.value]
    <2>1. r \in Row /\ r \in Held(p) /\ r.value \in Branches /\ c \in 0..made /\ Saved(p)
          /\ r.last \in 0..MaxCommits
      BY <1>1, <1>3, HeldRows, RemoteRefs DEF Active, Row
    <2>2. Polled(r).last = r.last
      BY <1>3 DEF NewlySeen
    <2>3. SUFFICES ASSUME New(c)
                   PROVE  pubs[p][c] > 0
      BY DEF Heard
    <2>4. c \in 1..made
      <3>1. c # 0
        BY <2>3 DEF New, Commits
      <3> QED
        BY <1>1, <2>1, <3>1, LogSeq
    <2>5. c = r.last
      <3> SUFFICES ASSUME c # r.last
                   PROVE  FALSE
        OBVIOUS
      <3>1. CASE ~UseGitCli
        <4>1. ~IteratorFails(r.value, r.last)
          BY <2>4, <3>1 DEF IteratorFails
        <4> QED
          BY <1>1, <2>1, <2>2, <2>4, <3>1, <4>1, PolledMoves
      <3>2. CASE UseGitCli
        <4>1. forced = 0 /\ FirstCommits > 1 /\ FirstCommits \in Nat
          BY <1>1, <3>2, WatcherAssumption DEF BoundsOK
        <4>2. r.last >= FirstCommits /\ Follows(r)
          BY <2>1, <4>1 DEF Deep, PathInv, Growing
        <4>3. r.last # 0 /\ r.last > 1 /\ r.last \in Nat
          BY <2>1, <4>1, <4>2, WatcherAssumption
        <4>4. InLog(r.last, c)
          BY <2>4, <4>2, <4>3 DEF Follows
        <4>5. r.last \in 2..made
          <5>1. r.last \in 1..c
            BY <1>1, <2>4, <4>4, LogBelow
          <5>2. made \in Nat
            BY <1>1, <2>1, LogSeq
          <5> QED
            BY <2>4, <4>3, <5>1, <5>2
        <4>6. Len(log[r.last]) > 1 /\ Len(log[r.last]) \in Nat /\ r.last \in 0..made
          <5>1. r.last \in 0..made
            BY <4>5
          <5> QED
            BY <1>1, <4>5, <5>1, LogSeq DEF Deep
        <4>7. Parent(r.last) # 0
          <5>1. 2 \in 1..Len(log[r.last])
            BY <4>6
          <5>2. log[r.last][2] \in 1..r.last
            BY <4>5, <5>1 DEF FlowInv, LogOK, Chain
          <5> QED
            BY <4>6, <5>2 DEF Parent
        <4>8. ~IteratorFails(r.value, r.last)
          BY <2>4, <4>7 DEF IteratorFails
        <4> QED
          BY <1>1, <2>1, <2>2, <2>4, <4>4, <4>8, PolledMoves
      <3> QED
        BY <3>1, <3>2
    <2>6. Told(p, r.last)
      BY <2>1 DEF ToldInv, RowsTold
    <2>7. "publish" \notin happened
      BY DEF Sound
    <2> QED
      BY <2>3, <2>5, <2>6, <2>7 DEF Told
  <1> SUFFICES ASSUME NEW p \in Pipelines, Active(p)'
               PROVE  Heard(p)' \/ p \in job'[h].todo
    BY <1>2 DEF HeardInv
  <1>4. Active(p)
    BY <1>2 DEF Active, Saved
  <1> QED
    BY <1>2, <1>3, <1>4 DEF Heard, New

LEMMA HeardNotify ==
    ASSUME WatcherInv, FlowInv, PathInv, HeardInv, Sound, Sound',
           NEW h \in Handlers, NEW p \in Pipelines, PollNotify(h, p)
    PROVE  HeardInv'
  <1>1. HandlersOK /\ TablesOK /\ GitOK
    BY DEF WatcherInv, TypeOK
  <1> DEFINE d == job[h].out[p].last
  <1>2. /\ UNCHANGED <<refs, row>> /\ job[h].at = "notify" /\ p \in job[h].todo
        /\ job'[h].at = "notify" /\ job'[h].todo = job[h].todo \ {p}
        /\ OthersStay(h)
    BY <1>1, NotifyEffect
  <1>3. \A q \in Pipelines, c \in Commits :
           pubs'[q][c] \in {pubs[q][c], pubs[q][c] + 1} /\ pubs[q][c] \in Nat
    BY <1>1, NotifyEffect
  <1>4. \A c \in Commits \ Excluded : c = d => pubs'[p][c] > 0
    <2>1. "publish" \notin happened'
      BY DEF Sound
    <2> QED
      BY <1>1, <2>1, NotifyEffect
  <1>5. d = refs[row[p].value]
    <2>1. Heading(job[h])
      BY DEF FlowInv, HeadsOK
    <2>2. p \in Rows(job[h].out) /\ d = refs[job[h].out[p].value]
      BY <1>2, <2>1 DEF Heading
    <2>3. job[h].out[p] \in Held(p)
      BY <2>2, HeldRows
    <2>4. job[h].out[p].value = row[p].value
      BY <2>3 DEF PathInv, Kept
    <2> QED
      BY <2>2, <2>4
  <1> SUFFICES ASSUME NEW q \in Pipelines, Active(q)'
               PROVE  \/ Heard(q)'
                      \/ \E g \in Handlers : \/ job'[g].at = "list"
                                             \/ job'[g].at = "notify" /\ q \in job'[g].todo
    BY DEF HeardInv
  <1>6. Active(q)
    BY <1>2 DEF Active, Saved
  <1>7. CASE q = p
    <2>1. PICK c : c = refs[row[p].value]
      OBVIOUS
    <2>2. New(c) => pubs'[p][c] > 0
      BY <1>4, <1>5, <2>1 DEF New
    <2>3. refs'[row'[p].value] = c
      BY <1>2, <2>1
    <2> QED
      BY <1>7, <2>2, <2>3 DEF Heard, New
  <1>8. CASE q # p /\ Heard(q)
    <2>1. PICK c : c = refs[row[q].value]
      OBVIOUS
    <2>2. New(c) => pubs'[q][c] > 0
      BY <1>3, <1>8, <2>1 DEF New, Heard
    <2>3. refs'[row'[q].value] = c
      BY <1>2, <2>1
    <2> QED
      BY <2>2, <2>3 DEF Heard, New
  <1>9. ASSUME q # p, NEW g \in Handlers, \/ job[g].at = "list"
                                          \/ job[g].at = "notify" /\ q \in job[g].todo
        PROVE  \/ job'[g].at = "list"
               \/ job'[g].at = "notify" /\ q \in job'[g].todo
    BY <1>2, <1>9 DEF OthersStay
  <1> QED
    BY <1>6, <1>7, <1>8, <1>9 DEF HeardInv

LEMMA HeardNext ==
    ASSUME Ops = {"poll"}, UseGitCli => MaxForced = 0 /\ FirstCommits > 1,
           WatcherInv, FlowInv, PathInv, ToldInv, Deep, HeardInv, [Next]_vars
    PROVE  HeardInv'
  <1> SUFFICES ASSUME Sound'
               PROVE  HeardInv'
    BY DEF HeardInv
  <1>1. HandlersOK /\ TablesOK /\ GitOK /\ LockOK /\ LabelsOK
    BY DEF WatcherInv, TypeOK, FlowInv
  <1>2. Sound /\ ~Crash
    BY CountsGrow DEF Sound
  <1>3. CASE UNCHANGED <<row, job, pubs, refs>>
    BY <1>2, <1>3 DEF HeardInv, Heard, New, Active, Saved
  <1>4. ASSUME NEW b \in Branches, Push(b) \/ Reset(b)
        PROVE  UNCHANGED <<row, job, pubs, refs>>
    BY <1>4 DEF Push, Reset
  <1>5. ASSUME NEW h \in Handlers
        PROVE  /\ Fetches(h) => PollFetch(h)
               /\ ~ListActive(h) /\ ~CommitWrite(h)
               /\ ~(\E p \in Pipelines : CommitRead(h, p) \/ CommitSkip(h, p))
               /\ ~(\E q \in Pipelines : SaveCall(h, q)) /\ ~SaveUpdate(h) /\ ~SaveInsert(h)
    BY DEF ToldInv, PollsOnly, Fetches, LatestFetch, CheckoutWipe, CheckoutFetch, ListActive,
           CommitWrite, CommitRead, CommitSkip, SaveCall, SaveUpdate, SaveInsert
  <1>6. ASSUME NEW h \in Handlers, PollFetch(h)
        PROVE  HeardInv'
    <2>1. OthersStay(h) /\ UNCHANGED <<row, pubs>> /\ job[h].at \in {"lock", "fetch"}
      BY <1>1, <1>6, FetchEffect DEF Fetches
    <2>2. CASE job'[h].at = "list"
      BY <2>2 DEF HeardInv
    <2>3. CASE job'[h].at # "list"
      <3>1. \A b \in Branches : refs'[b] = refs[b]
        BY <1>1, <1>6, <2>3, PollFetchKeeps
      <3> QED
        BY <1>1, <1>2, <2>1, <3>1, HeardStep
    <2> QED
      BY <2>2, <2>3
  <1>7. ASSUME NEW h \in Handlers,
               \/ Abort(h) \/ Returns(h)
               \/ \E op \in {"poll", "latest", "checkout"} : Call(h, op)
        PROVE  HeardInv'
    <2>1. /\ OthersStay(h) /\ UNCHANGED <<row, pubs, refs>>
          /\ job[h].at \notin {"list", "notify"} \/ happened' \cap {"db", "context"} # {}
      BY <1>1, <1>7, EndEffect, CallEffect
    <2>2. job[h].at \notin {"list", "notify"}
      BY <2>1 DEF Sound
    <2> QED
      BY <1>1, <1>2, <2>1, <2>2, HeardStep
  <1>8. ASSUME NEW h \in Handlers, PollSave(h)
        PROVE  HeardInv'
    <2>1. /\ UNCHANGED <<refs, pubs>> /\ job[h].at = "notify" /\ job[h].todo = {}
      BY <1>1, <1>8, WriteEffect DEF PollSave
    <2> SUFFICES ASSUME NEW p \in Pipelines, Active(p)'
                 PROVE  Heard(p)'
      BY DEF HeardInv
    <2>2. Active(p) /\ row'[p].value = row[p].value
      BY KeptNext DEF Active, PathInv
    <2>3. Heard(p)
      <3>1. ASSUME NEW g \in Handlers, \/ job[g].at = "list"
                                       \/ job[g].at = "notify" /\ p \in job[g].todo
            PROVE  FALSE
        <4>1. g = h
          BY <2>1, <3>1, OneReader DEF Reading, PathInv
        <4> QED
          BY <2>1, <3>1, <4>1
      <3> QED
        BY <1>2, <2>2, <3>1 DEF HeardInv
    <2> QED
      BY <2>1, <2>2, <2>3 DEF Heard, New
  <1> QED
    BY <1>2, <1>3, <1>4, <1>5, <1>6, <1>7, <1>8, HeardList, HeardNotify, Steps DEF vars

\* When a poll returns success, the head of every pipeline's branch has been
\* announced ("refresh repo. and notify all pipeline for changes",
\* RepoManages.go:818), if nothing worse happened than fetches that failed and
\* moved nothing.  The git cli must be spared branches that were forced back to
\* a commit without a parent: a row there never finds new ones.
THEOREM RefreshesNotify ==
    ASSUME Ops = {"poll"}, UseGitCli => MaxForced = 0 /\ FirstCommits > 1
    PROVE  SafeSpec => []RefreshNotifiesAll
  <1>1. Init => ToldInv /\ Deep /\ HeardInv
    <2>1. ASSUME Init
          PROVE  HeardInv
      <3>1. \A b \in Branches : refs[b] = FirstCommits
        BY <2>1 DEF Init
      <3>2. ASSUME NEW p \in Pipelines, Active(p)
            PROVE  Heard(p)
        <4>1. row[p].value \in Branches
          <5>1. WatcherInv
            BY <2>1, InitInv
          <5> QED
            BY <3>2, <5>1 DEF WatcherInv, TypeOK, TablesOK, Active, Saved, Row
        <4> QED
          BY <3>1, <4>1, WatcherAssumption DEF Heard, New
      <3> QED
        BY <3>2 DEF HeardInv
    <2> QED
      BY <2>1, ToldInit, DeepInit
  <1>2. WatcherInv /\ FlowInv /\ PathInv /\ ToldInv /\ Deep /\ HeardInv /\ [Next]_vars
           => ToldInv' /\ Deep' /\ HeardInv'
    BY ToldNext, DeepNext, HeardNext
  <1>3. WatcherInv /\ FlowInv /\ PathInv /\ HeardInv => RefreshNotifiesAll
    <2> SUFFICES ASSUME WatcherInv, FlowInv, PathInv, HeardInv, Sound,
                        NEW h \in Handlers, job[h].op = "poll", job[h].at = "done",
                        NEW p \in Pipelines, Active(p)
                 PROVE  Heard(p)
      BY DEF RefreshNotifiesAll, Sound, Heard
    <2>1. ASSUME NEW g \in Handlers, job[g].at \in {"list", "notify"}
          PROVE  FALSE
      <3>1. stage[g] = "in" /\ stage[h] = "in"
        BY <2>1 DEF WatcherInv, TypeOK, HandlersOK, LockedAsCalled, PathInv, NoSaves
      <3> QED
        BY <2>1, <3>1 DEF FlowInv, LockOK
    <2> QED
      BY <2>1 DEF HeardInv
  <1>4. "save" \notin Ops
    OBVIOUS
  <1> QED
    BY <1>1, <1>2, <1>3, <1>4, FlowInvariant, PathInvariant, PTL DEF SafeSpec

=============================================================================
