----------------------- MODULE PipelineQueriesProofs -----------------------
(***************************************************************************)
(* Proofs about PipelineQueries: the loop of PathMatcher is what its       *)
(* reference says (LastRuleDecides), messages and lists have the commits   *)
(* that the rules include (RulesHoldAlways), the answers from the rows and *)
(* from the repository are one after GetLatestCommitForBranch              *)
(* (HeadsAgreeAlways), and what is listed is found (ListedAreFoundAlways). *)
(*                                                                         *)
(* Loops are recursive functions here, and what they compute is proved by  *)
(* induction over the number of rounds, as the set of those that are right *)
(* (NatSteps).  The invariants: BroughtInv says what                       *)
(* GetLatestCommitForBranch has brought up to date, RemoteInv that commits *)
(* stay on the remote's branches, and DiskInv that those of a row are on   *)
(* disk, or the row is marked as errored, or a checkout has yet to set it, *)
(* GoneInv that all rows are in one of the latter cases while the material *)
(* is not checked out.                                                     *)
(***************************************************************************)
EXTENDS PipelineQueries, CommitFlowProofs, WellFoundedInduction

-----------------------------------------------------------------------------
(* Induction over the natural numbers, with a set instead of a predicate.    *)

LEMMA LeastNat ==
    ASSUME NEW T \in SUBSET Nat, T # {}
    PROVE  \E n \in T : \A m \in T : n <= m
  <1> DEFINE R == OpToRel(<, Nat)
  <1>1. IsWellFoundedOn(R, Nat)
    BY NatLessThanWellFounded
  <1>2. \A m, n \in Nat : m < n => <<m, n>> \in R
    BY DEF OpToRel
  <1> HIDE DEF R
  <1>3. PICK n \in T : \A m \in T : ~(<<m, n>> \in R)
    BY <1>1, WFMin
  <1>4. \A m \in T : ~(m < n)
    BY <1>2, <1>3, Zenon
  <1>5. \A m \in T : m \in Nat /\ n \in Nat
    OBVIOUS
  <1> QED
    BY <1>4, <1>5

LEMMA NatSteps ==
    ASSUME NEW T, 0 \in T, \A n \in Nat : n \in T => n + 1 \in T
    PROVE  Nat \subseteq T
  <1> SUFFICES ASSUME Nat \ T # {}
               PROVE  FALSE
    OBVIOUS
  <1>1. PICK n \in Nat \ T : \A m \in Nat \ T : n <= m
    BY LeastNat
  <1>2. n # 0 /\ n - 1 \in Nat /\ n - 1 \in T
    BY <1>1
  <1> QED
    BY <1>1, <1>2

-----------------------------------------------------------------------------
(* PathMatcher.                                                              *)

\* One round of its loop, with i filters left and the verdicts of the later
\* rounds.
Round(filters, paths, verdict, i) ==
    IF i = 0 THEN FALSE
    ELSE IF Matched(filters[i], paths) THEN filters[i].exclude
    ELSE IF i = 1 THEN ~filters[1].exclude
    ELSE verdict[i - 1]

\* The loop tries the filters from the last to the first, and ends at the first
\* hit: for every list of filters the last one that matches decides, and where
\* none does the opposite of the first.
THEOREM LastRuleDecides ==
    ASSUME NEW S, NEW filters \in Seq(S), NEW paths
    PROVE  PathMatcher(filters, paths) = LastMatchDecides(filters, paths)
  <1> DEFINE n      == Len(filters)
             at(i)  == {k \in 1..i : Matched(filters[k], paths)}
             last(i) == CHOOSE k \in at(i) : \A j \in at(i) : j <= k
             Decided == [i \in 0..n |->
                           IF i = 0 THEN FALSE
                           ELSE IF at(i) = {} THEN ~filters[1].exclude
                           ELSE filters[last(i)].exclude]
             V == CHOOSE v : v = [i \in 0..n |-> Round(filters, paths, v, i)]
  <1>1. n \in Nat /\ DOMAIN filters = 1..n /\ (filters = <<>> <=> n = 0)
    BY LenProperties, EmptySeq
  <1>2. PathMatcher(filters, paths) = V[n]
    BY Zenon DEF PathMatcher, Round
  <1>3. ASSUME NEW i \in 0..n
        PROVE  Decided[i] = Round(filters, paths, Decided, i)
    <2>1. CASE i = 0
      BY <2>1 DEF Round
    <2>2. CASE i # 0 /\ Matched(filters[i], paths)
      <3>1. i \in at(i) /\ \A j \in at(i) : j <= i
        BY <1>1, <2>2
      <3>2. last(i) = i
        <4>1. last(i) \in at(i) /\ \A j \in at(i) : j <= last(i)
          BY <3>1
        <4>2. i <= last(i) /\ last(i) <= i /\ last(i) \in 1..i
          BY <3>1, <4>1
        <4> HIDE DEF last, at
        <4> QED
          BY <1>1, <4>2
      <3>3. at(i) # {}
        BY <3>1
      <3> HIDE DEF last, at
      <3> QED
        BY <2>2, <3>2, <3>3 DEF Round
    <2>3. CASE i # 0 /\ ~Matched(filters[i], paths)
      <3>1. at(i) = at(i - 1)
        BY <1>1, <2>3
      <3>2. i = 1 => at(i) = {}
        BY <2>3
      <3>3. i # 1 => i - 1 \in 0..n /\ i - 1 # 0
        BY <1>1, <2>3
      <3>4. last(i) = last(i - 1)
        BY <3>1
      <3> HIDE DEF last, at
      <3> QED
        BY <2>3, <3>1, <3>2, <3>3, <3>4 DEF Round
    <2> QED
      BY <2>1, <2>2, <2>3
  <1>4. V = [i \in 0..n |-> Round(filters, paths, V, i)]
    <2>1. Decided = [i \in 0..n |-> Round(filters, paths, Decided, i)]
      BY <1>3
    <2> HIDE DEF Decided
    <2> QED
      BY <2>1
  <1>5. \A i \in 0..n : V[i] = Decided[i]
    <2> DEFINE T == {i \in Nat : i \in 0..n => V[i] = Decided[i]}
    <2> HIDE DEF V, Decided
    <2>1. \A i \in 0..n : V[i] = Round(filters, paths, V, i)
      BY <1>4
    <2>2. 0 \in T
      <3>1. 0 \in 0..n
        BY <1>1
      <3> QED
        BY <1>3, <2>1, <3>1 DEF Round
    <2>3. ASSUME NEW i \in Nat, i \in T
          PROVE  i + 1 \in T
      <3> SUFFICES ASSUME i + 1 \in 0..n
                   PROVE  V[i + 1] = Decided[i + 1]
        OBVIOUS
      <3>1. V[i] = Decided[i] /\ (i + 1) - 1 = i
        BY <1>1, <2>3
      <3>2. Round(filters, paths, V, i + 1) = Round(filters, paths, Decided, i + 1)
        BY <3>1 DEF Round
      <3> QED
        BY <1>3, <2>1, <3>2
    <2>4. Nat \subseteq T
      <3> HIDE DEF T
      <3> QED
        BY <2>2, <2>3, NatSteps
    <2> QED
      BY <1>1, <2>4
  <1>6. V[n] = Decided[n]
    <2>1. n \in 0..n
      BY <1>1
    <2> HIDE DEF V, Decided
    <2> QED
      BY <1>5, <2>1
  <1>7. Decided[n] = LastMatchDecides(filters, paths)
    <2>1. at(n) = {i \in DOMAIN filters : Matched(filters[i], paths)}
      BY <1>1
    <2>2. last(n) = CHOOSE i \in at(n) : \A j \in at(n) : j <= i
      OBVIOUS
    <2>3. Decided[n] = IF n = 0 THEN FALSE
                       ELSE IF at(n) = {} THEN ~filters[1].exclude
                       ELSE filters[last(n)].exclude
      <3>1. n \in 0..n
        BY <1>1
      <3> QED
        BY <3>1
    <2>4. n = 0 => at(n) = {}
      BY <1>1
    <2> PICK all : all = {i \in DOMAIN filters : Matched(filters[i], paths)}
      OBVIOUS
    <2>5. LastMatchDecides(filters, paths) =
            IF all = {} THEN filters # <<>> /\ ~filters[1].exclude
            ELSE filters[CHOOSE i \in all : \A j \in all : j <= i].exclude
      BY DEF LastMatchDecides
    <2>6. at(n) = all
      BY <2>1
    <2> HIDE DEF at
    <2>7. last(n) = CHOOSE i \in all : \A j \in all : j <= i
      BY <2>6, Zenon
    <2> HIDE DEF last, Decided, n
    <2>8. CASE all # {}
      BY <2>3, <2>4, <2>5, <2>6, <2>7, <2>8
    <2>9. CASE all = {} /\ n = 0
      <3>1. filters = <<>> /\ Decided[n] = FALSE
        BY <1>1, <2>3, <2>9
      <3>2. LastMatchDecides(filters, paths) = FALSE
        BY <2>5, <2>9, <3>1
      <3> QED
        BY <3>1, <3>2
    <2>10. CASE all = {} /\ n # 0
      <3>1. filters # <<>> /\ Decided[n] = ~filters[1].exclude
        BY <1>1, <2>3, <2>6, <2>10
      <3>2. LastMatchDecides(filters, paths) = ~filters[1].exclude
        BY <2>5, <2>10, <3>1, Zenon
      <3> QED
        BY <3>1, <3>2
    <2> QED
      BY <2>8, <2>9, <2>10
  <1> QED
    BY <1>2, <1>6, <1>7

-----------------------------------------------------------------------------
(* The loop of FetchChanges.                                                 *)

\* What a round of it does with the commits it has.
Shows(c, showAll) == showAll \/ Rules = <<>> \/ ~Listed(c).excluded

Rounded(hist, showAll, answer, i) ==
    IF i = 0 THEN <<>>
    ELSE IF Shows(hist[i], showAll) THEN Append(answer[i - 1], Listed(hist[i]))
    ELSE answer[i - 1]

\* The commits of an answer.
CommitsOf(answer) == {answer[i].commit : i \in DOMAIN answer}

LEMMA AppendCommits ==
    ASSUME NEW S, NEW answer \in Seq(S), NEW l \in S
    PROVE  Append(answer, l) \in Seq(S) /\ CommitsOf(Append(answer, l)) = CommitsOf(answer) \cup {l.commit}
  <1> DEFINE n == Len(answer)
  <1>1. n \in Nat /\ DOMAIN answer = 1..n
    BY LenProperties
  <1>2. /\ Append(answer, l) \in Seq(S) /\ Len(Append(answer, l)) = n + 1
        /\ \A i \in 1..n : Append(answer, l)[i] = answer[i]
        /\ Append(answer, l)[n + 1] = l
    BY AppendProperties
  <1> PICK longer : longer = Append(answer, l)
    OBVIOUS
  <1>3. DOMAIN longer = 1..(n + 1)
    BY <1>2, LenProperties
  <1> HIDE DEF n
  <1>4. 1..(n + 1) = 1..n \cup {n + 1}
    BY <1>1
  <1>5. {longer[i].commit : i \in 1..(n + 1)} = {answer[i].commit : i \in 1..n} \cup {l.commit}
    BY <1>2, <1>4
  <1> QED
    BY <1>1, <1>2, <1>3, <1>5 DEF CommitsOf

\* The answer are the commits that it shows.
LEMMA FilteredCommits ==
    ASSUME NEW hist \in Seq(Commits), NEW showAll
    PROVE  CommitsOf(FilterCommits(hist, showAll)) =
             {hist[i] : i \in {i \in DOMAIN hist : Shows(hist[i], showAll)}}
  <1> DEFINE n    == Len(hist)
             L    == {Listed(c) : c \in Commits}
             V    == CHOOSE v : v = [i \in 0..n |-> Rounded(hist, showAll, v, i)]
             Ends(m) == \E f \in [0..m -> Seq(L)] :
                           \A i \in 0..m : f[i] = Rounded(hist, showAll, f, i)
             T    == {m \in Nat : m <= n => Ends(m)}
  <1>1. n \in Nat /\ DOMAIN hist = 1..n /\ \A i \in 1..n : hist[i] \in Commits /\ Listed(hist[i]) \in L
    BY LenProperties, ElementOfSeq
  <1>2. FilterCommits(hist, showAll) = V[n]
    BY Zenon DEF FilterCommits, Rounded, Shows
  <1>3. 0 \in T
    <2>1. [i \in 0..0 |-> <<>>] \in [0..0 -> Seq(L)]
      BY EmptySeq
    <2>2. \A i \in 0..0 : [j \in 0..0 |-> <<>>][i] = Rounded(hist, showAll, [j \in 0..0 |-> <<>>], i)
      BY DEF Rounded
    <2>3. Ends(0)
      BY <2>1, <2>2
    <2> HIDE DEF Ends
    <2> QED
      BY <2>3
  <1>4. ASSUME NEW m \in Nat, m \in T
        PROVE  m + 1 \in T
    <2> SUFFICES ASSUME m + 1 <= n
                 PROVE  Ends(m + 1)
      <3> HIDE DEF Ends
      <3> QED
        OBVIOUS
    <2>0. Ends(m)
      <3> HIDE DEF Ends
      <3> QED
        BY <1>1, <1>4
    <2>1. PICK f \in [0..m -> Seq(L)] : \A i \in 0..m : f[i] = Rounded(hist, showAll, f, i)
      BY <2>0
    <2> DEFINE next == Rounded(hist, showAll, f, m + 1)
               g    == [i \in 0..(m + 1) |-> IF i = m + 1 THEN next ELSE f[i]]
    <2>2. next \in Seq(L)
      <3>1. m + 1 \in 1..n /\ m \in 0..m /\ (m + 1) - 1 = m /\ m + 1 # 0
        BY <1>1
      <3>2. f[m] \in Seq(L) /\ Listed(hist[m + 1]) \in L
        BY <1>1, <3>1
      <3>3. Append(f[m], Listed(hist[m + 1])) \in Seq(L)
        BY <3>2, AppendProperties
      <3> HIDE DEF L, n
      <3> QED
        BY <3>1, <3>2, <3>3 DEF Rounded
    <2> HIDE DEF next, L, n
    <2>3. g \in [0..(m + 1) -> Seq(L)]
      BY <2>2
    <2>4. \A i \in 0..m : g[i] = f[i]
      OBVIOUS
    <2>5. \A i \in 0..(m + 1) : i # 0 => i - 1 \in 0..m
      OBVIOUS
    <2>6. g[m + 1] = next
      OBVIOUS
    <2> HIDE DEF g
    <2>7. \A i \in 0..(m + 1) : Rounded(hist, showAll, g, i) = Rounded(hist, showAll, f, i)
      BY <2>4, <2>5 DEF Rounded
    <2>8. \A i \in 0..(m + 1) : i \in 0..m \/ i = m + 1
      OBVIOUS
    <2>9. \A i \in 0..(m + 1) : g[i] = Rounded(hist, showAll, g, i)
      BY <2>1, <2>4, <2>6, <2>7, <2>8 DEF next
    <2> QED
      BY <2>3, <2>9
  <1>5. PICK f \in [0..n -> Seq(L)] : \A i \in 0..n : f[i] = Rounded(hist, showAll, f, i)
    <2>1. n \in T
      <3> HIDE DEF T
      <3> QED
        BY <1>1, <1>3, <1>4, NatSteps
    <2>2. Ends(n)
      <3> HIDE DEF Ends
      <3> QED
        BY <1>1, <2>1
    <2> QED
      BY <2>2
  <1>6. V = [i \in 0..n |-> Rounded(hist, showAll, V, i)]
    <2>1. f = [i \in 0..n |-> Rounded(hist, showAll, f, i)]
      BY <1>5
    <2> QED
      BY <2>1
  <1> DEFINE shown(m) == {hist[i] : i \in {i \in 1..m : Shows(hist[i], showAll)}}
             Right(m) == V[m] \in Seq(L) /\ CommitsOf(V[m]) = shown(m)
             U == {m \in Nat : m <= n => Right(m)}
  <1>7. \A i \in 0..n : V[i] = Rounded(hist, showAll, V, i)
    <2> HIDE DEF V
    <2> QED
      BY <1>6
  <1> HIDE DEF V, L
  <1>8. 0 \in U
    <2>1. V[0] = <<>>
      <3>1. 0 \in 0..n
        BY <1>1
      <3> QED
        BY <1>7, <3>1 DEF Rounded
    <2>2. <<>> \in Seq(L) /\ DOMAIN <<>> = {}
      BY EmptySeq
    <2>3. CommitsOf(<<>>) = {} /\ shown(0) = {}
      BY <2>2 DEF CommitsOf
    <2> QED
      BY <2>1, <2>2, <2>3
  <1>9. ASSUME NEW m \in Nat, m \in U
        PROVE  m + 1 \in U
    <2> SUFFICES ASSUME m + 1 <= n
                 PROVE  Right(m + 1)
      <3> HIDE DEF Right
      <3> QED
        OBVIOUS
    <2>1. m + 1 \in 1..n /\ m + 1 \in 0..n /\ (m + 1) - 1 = m /\ m <= n /\ m + 1 # 0
      BY <1>1
    <2>2. V[m] \in Seq(L) /\ CommitsOf(V[m]) = shown(m)
      <3>1. Right(m)
        <4> HIDE DEF Right
        <4> QED
          BY <1>9, <2>1
      <3> QED
        BY <3>1
    <2>3. V[m + 1] = IF Shows(hist[m + 1], showAll) THEN Append(V[m], Listed(hist[m + 1])) ELSE V[m]
      BY <1>7, <2>1 DEF Rounded
    <2>4. Listed(hist[m + 1]) \in L /\ Listed(hist[m + 1]).commit = hist[m + 1]
      BY <1>1, <2>1 DEF Listed
    <2>5. 1..(m + 1) = 1..m \cup {m + 1}
      OBVIOUS
    <2>6. CASE Shows(hist[m + 1], showAll)
      <3>1. shown(m + 1) = shown(m) \cup {hist[m + 1]}
        BY <2>5, <2>6
      <3> HIDE DEF shown
      <3> PICK l \in L : l = Listed(hist[m + 1]) /\ l.commit = hist[m + 1]
        BY <2>4
      <3>2. V[m + 1] = Append(V[m], l)
        BY <2>3, <2>6
      <3>3. Append(V[m], l) \in Seq(L) /\ CommitsOf(Append(V[m], l)) = CommitsOf(V[m]) \cup {l.commit}
        BY <2>2, AppendCommits
      <3>4. CommitsOf(V[m + 1]) = shown(m + 1)
        BY <2>2, <3>1, <3>2, <3>3
      <3> QED
        BY <3>2, <3>3, <3>4
    <2>7. CASE ~Shows(hist[m + 1], showAll)
      <3>1. shown(m + 1) = shown(m)
        BY <2>5, <2>7
      <3> HIDE DEF shown
      <3> QED
        BY <2>2, <2>3, <2>7, <3>1
    <2> QED
      BY <2>6, <2>7
  <1>10. n \in U
    <2> HIDE DEF U
    <2> QED
      BY <1>1, <1>8, <1>9, NatSteps
  <1>11. CommitsOf(V[n]) = shown(n)
    <2> HIDE DEF shown
    <2> QED
      BY <1>1, <1>10
  <1> QED
    BY <1>1, <1>2, <1>11

-----------------------------------------------------------------------------
(* The rules decide what is announced and what is listed.                    *)

\* Nothing is announced that is excluded: inductive as it is.
OnlyConcerned == \A p \in Pipelines, c \in Commits : pubs[p][c] > 0 => c \notin Excluded

LEMMA ConcernedNext ==
    ASSUME WatcherInv, FlowInv, OnlyConcerned, [Next]_vars
    PROVE  OnlyConcerned'
  <1> USE DEF WatcherInv, TypeOK, FlowInv
  <1>1. ASSUME NEW h \in Handlers, NEW p \in Pipelines, PollNotify(h, p)
        PROVE  OnlyConcerned'
    <2>1. pubs \in [Pipelines -> [Commits -> 0..2]]
      BY DEF TablesOK
    <2> PICK c : c = job[h].out[p].last
      OBVIOUS
    <2>2. \/ pubs' = [pubs EXCEPT ![p][c] = IF @ = 2 THEN 2 ELSE @ + 1] /\ c \notin Excluded
          \/ UNCHANGED pubs
      BY <1>1 DEF PollNotify
    <2>3. ASSUME NEW q \in Pipelines, NEW d \in Commits, pubs'[q][d] # pubs[q][d]
          PROVE  d \notin Excluded
      <3>1. q = p /\ d = c /\ c \notin Excluded
        BY <2>1, <2>2, <2>3
      <3> QED
        BY <3>1
    <2> QED
      BY <2>3 DEF OnlyConcerned
  <1>2. ASSUME UNCHANGED pubs
        PROVE  OnlyConcerned'
    BY <1>2 DEF OnlyConcerned
  <1>3. ASSUME NEW h \in Handlers, Fetches(h) \/ Abort(h) \/ Returns(h)
        PROVE  UNCHANGED pubs
    BY <1>3, FetchEffect, EndEffect
  <1>4. ASSUME NEW h \in Handlers, NEW op \in {"poll", "latest", "checkout"}, Call(h, op)
        PROVE  UNCHANGED pubs
    BY <1>4, CallEffect
  <1>5. ASSUME NEW h \in Handlers, PollList(h) \/ ListActive(h) \/ PollSave(h) \/ CommitWrite(h)
        PROVE  UNCHANGED pubs
    BY <1>5, PollListEffect, ListActiveEffect, WriteEffect
  <1>6. ASSUME NEW h \in Handlers, NEW p \in Pipelines, CommitRead(h, p) \/ CommitSkip(h, p)
        PROVE  UNCHANGED pubs
    BY <1>6, CommitEffect
  <1>7. ASSUME NEW h \in Handlers, (\E p \in Pipelines : SaveCall(h, p)) \/ SaveUpdate(h) \/ SaveInsert(h)
        PROVE  UNCHANGED pubs
    BY <1>7, SaveEffect
  <1>8. CASE (\E b \in Branches : Push(b) \/ Reset(b)) \/ Crash \/ UNCHANGED vars
    BY <1>2, <1>8 DEF Push, Reset, Crash, vars
  <1> HIDE DEF WatcherInv, TypeOK, FlowInv
  <1> QED
    BY <1>1, <1>2, <1>3, <1>4, <1>5, <1>6, <1>7, <1>8, Steps

\* Which commits concern a pipeline is what the last matching rule says.
LEMMA ConcernedCommits ==
    ASSUME NEW c \in Commits
    PROVE  /\ c \in Excluded <=> LastMatchDecides(Rules, FileStats(c))
           /\ Shows(c, FALSE) <=> ~LastMatchDecides(Rules, FileStats(c))
  <1>1. PathMatcher(Rules, FileStats(c)) = LastMatchDecides(Rules, FileStats(c))
    BY LastRuleDecides, QueriesAssumption
  <1>2. c \in ExcludedBy(Rules) <=> LastMatchDecides(Rules, FileStats(c))
    BY <1>1 DEF ExcludedBy
  <1>3. Rules = <<>> => ~LastMatchDecides(Rules, FileStats(c))
    <2>1. DOMAIN <<>> = {}
      BY EmptySeq
    <2> QED
      BY <2>1 DEF LastMatchDecides
  <1>4. Listed(c).excluded <=> c \in ExcludedBy(Rules)
    BY DEF Listed
  <1> QED
    BY <1>2, <1>3, <1>4, QueriesAssumption DEF Shows

LEMMA ListsByRules ==
    ASSUME TablesOK, NEW p \in Pipelines
    PROVE  CommitsOf(FetchChanges(p, FALSE).commits) =
             {c \in ListedCommits(p) : ~LastMatchDecides(Rules, FileStats(c))}
  <1>1. ListedCommits(p) = CommitsOf(FetchChanges(p, TRUE).commits)
    BY DEF ListedCommits, CommitsOf
  <1>2. CommitsOf(<<>>) = {}
    BY EmptySeq DEF CommitsOf
  <1>3. CASE ~Active(p) \/ row[p].errored \/ row[p].hist = <<>>
    <2>1. FetchChanges(p, FALSE).commits = <<>> /\ FetchChanges(p, TRUE).commits = <<>>
      BY <1>3 DEF FetchChanges, FetchGitCommitsForBranchFixPipeline, Failed
    <2> QED
      BY <1>1, <1>2, <2>1
  <1>4. CASE ~(~Active(p) \/ row[p].errored \/ row[p].hist = <<>>)
    <2> PICK hist : hist = row[p].hist
      OBVIOUS
    <2>1. /\ FetchChanges(p, FALSE).commits = FilterCommits(hist, FALSE)
          /\ FetchChanges(p, TRUE).commits = FilterCommits(hist, TRUE)
      BY <1>4 DEF FetchChanges, FetchGitCommitsForBranchFixPipeline
    <2>2. row[p] \in Row
      BY <1>4 DEF TablesOK, Active, Saved
    <2>3. hist \in Seq(Commits) /\ \A i \in DOMAIN hist : hist[i] \in Commits
      BY <2>2, ElementOfSeq, LenProperties DEF Row
    <2>4. CommitsOf(FilterCommits(hist, FALSE)) =
            {hist[i] : i \in {i \in DOMAIN hist : Shows(hist[i], FALSE)}}
      BY <2>3, FilteredCommits
    <2>5. CommitsOf(FilterCommits(hist, TRUE)) = {hist[i] : i \in DOMAIN hist}
      <3>1. {i \in DOMAIN hist : Shows(hist[i], TRUE)} = DOMAIN hist
        BY DEF Shows
      <3> QED
        BY <2>3, <3>1, FilteredCommits
    <2>6. \A i \in DOMAIN hist : Shows(hist[i], FALSE) <=> ~LastMatchDecides(Rules, FileStats(hist[i]))
      BY <2>3, ConcernedCommits
    <2>7. {hist[i] : i \in {i \in DOMAIN hist : Shows(hist[i], FALSE)}} =
            {c \in {hist[i] : i \in DOMAIN hist} : ~LastMatchDecides(Rules, FileStats(c))}
      BY <2>6
    <2> QED
      BY <1>1, <2>1, <2>4, <2>5, <2>7
  <1> QED
    BY <1>3, <1>4

\* The rules of a material hold wherever they are asked: a message is published
\* only of a commit that the last matching rule includes (Watcher.go:324), and
\* FetchChanges lists without showAll those of the row that it includes
\* (RepoManages.go:520), for every list of rules and all files of the commits.
THEOREM RulesHoldAlways == SafeSpec => []RulesHold
  <1>1. Init => OnlyConcerned
    BY DEF Init, OnlyConcerned
  <1>2. WatcherInv /\ FlowInv /\ OnlyConcerned /\ [Next]_vars => OnlyConcerned'
    BY ConcernedNext
  <1>3. WatcherInv /\ OnlyConcerned => RulesHold
    <2> SUFFICES ASSUME WatcherInv, OnlyConcerned, NEW p \in Pipelines
                 PROVE  /\ \A c \in Commits : pubs[p][c] > 0 => ~LastMatchDecides(Rules, FileStats(c))
                        /\ CommitsOf(FetchChanges(p, FALSE).commits) =
                             {c \in ListedCommits(p) : ~LastMatchDecides(Rules, FileStats(c))}
      BY DEF RulesHold, CommitsOf
    <2>1. TablesOK
      BY DEF WatcherInv, TypeOK
    <2> QED
      BY <2>1, ListsByRules, ConcernedCommits DEF OnlyConcerned
  <1> QED
    BY <1>1, <1>2, <1>3, FlowInvariant, PTL DEF SafeSpec

-----------------------------------------------------------------------------
(* Without SavePipelineMaterial, whoever works has the lock.                 *)

\* The steps of a handler there.
Works(h) ==
    \/ Fetches(h) \/ Abort(h) \/ Returns(h)
    \/ \E op \in {"poll", "latest", "checkout"} : Call(h, op)
    \/ PollList(h) \/ ListActive(h)
    \/ \E p \in Pipelines : PollNotify(h, p)
    \/ PollSave(h) \/ CommitWrite(h)
    \/ \E p \in Pipelines : CommitRead(h, p) \/ CommitSkip(h, p)

LEMMA WorkSteps ==
    ASSUME WatcherInv, FlowInv, NoSaves, "save" \notin Ops, [Next]_vars
    PROVE  \/ \E h \in Handlers : Works(h)
           \/ \E b \in Branches : Push(b) \/ Reset(b)
           \/ Crash
           \/ UNCHANGED vars
  <1>1. ASSUME NEW h \in Handlers
        PROVE  ~(\E q \in Pipelines : SaveCall(h, q)) /\ ~SaveUpdate(h) /\ ~SaveInsert(h)
    BY DEF SaveCall, SaveUpdate, SaveInsert, NoSaves, FlowInv, LabelsOK, Labelled
  <1> QED
    BY <1>1, Steps DEF Works

\* Nobody moves a ref or writes a row behind the back of a handler at work.
LEMMA OthersWait ==
    ASSUME WatcherInv, FlowInv, NoSaves, NEW g \in Handlers, NEW h \in Handlers, g # h,
           AtWork(job[g]), Works(h)
    PROVE  job'[g] = job[g] /\ UNCHANGED <<made, log, remote, refs, row>>
  <1>1. HandlersOK /\ TablesOK /\ LockOK /\ LabelsOK /\ WatcherInv
    BY DEF WatcherInv, TypeOK, FlowInv
  <1>2. \A k \in Handlers : AtWork(job[k]) => stage[k] = "in"
    BY <1>1 DEF HandlersOK, LockedAsCalled, NoSaves, AtWork
  <1>3. stage[g] = "in" /\ stage[h] # "in" /\ ~AtWork(job[h])
    BY <1>1, <1>2 DEF LockOK
  <1>4. ~Fetches(h)
    BY <1>1, <1>3, FetchEffect
  <1>5. ~(PollSave(h) \/ CommitWrite(h))
    BY <1>3 DEF PollSave, CommitWrite, AtWork
  <1>6. CASE Abort(h) \/ Returns(h)
    BY <1>1, <1>6, EndEffect DEF OthersStay
  <1>7. ASSUME NEW op \in {"poll", "latest", "checkout"}, Call(h, op)
        PROVE  job'[g] = job[g] /\ UNCHANGED <<made, log, remote, refs, row>>
    BY <1>1, <1>7, CallEffect DEF OthersStay
  <1>8. ~(PollList(h) \/ ListActive(h) \/ \E p \in Pipelines : PollNotify(h, p))
    BY <1>3 DEF PollList, ListActive, PollNotify, AtWork
  <1>9. ~(\E p \in Pipelines : CommitRead(h, p) \/ CommitSkip(h, p))
    BY <1>3 DEF CommitRead, CommitSkip, AtWork
  <1> QED
    BY <1>4, <1>5, <1>6, <1>7, <1>8, <1>9 DEF Works

-----------------------------------------------------------------------------
(* Rows and repository agree after GetLatestCommitForBranch.                 *)

\* The row is at the head of its branch.
AtHead(r) == r.last = refs[r.value]

\* What GetLatestCommitForBranch has brought up to date.
Brought(h) ==
    job[h].op = "latest" =>
        /\ job[h].at = "commits" => \A p \in Pipelines : Active(p) =>
              \/ p \in job[h].todo
              \/ /\ p \in Rows(job[h].out) /\ AtHead(job[h].out[p])
                 /\ job[h].out[p].value = row[p].value
        /\ job[h].at = "done" => \A p \in Pipelines : Active(p) => AtHead(row[p])

BroughtInv == "db" \notin happened => \A h \in Handlers : Brought(h)

LEMMA RefreshedAtHead ==
    ASSUME GitOK, LogOK, NEW r \in Row
    PROVE  AtHead(Refreshed(r)) /\ Refreshed(r).value = r.value
  <1>1. refs[r.value] = 0 \/ refs[r.value] # 0
    OBVIOUS
  <1> QED
    BY <1>1, RefreshedHead DEF AtHead

LEMMA BroughtNext ==
    ASSUME "save" \notin Ops, WatcherInv, FlowInv, NoSaves, Kept, BroughtInv, [Next]_vars
    PROVE  BroughtInv'
  <1> SUFFICES ASSUME "db" \notin happened', NEW g \in Handlers, job'[g].op = "latest",
                      job'[g].at \in {"commits", "done"}
               PROVE  Brought(g)'
    BY DEF BroughtInv, Brought
  <1>1. GitOK /\ LogOK /\ HandlersOK /\ TablesOK /\ LockOK /\ LabelsOK
    BY DEF WatcherInv, TypeOK, FlowInv
  <1>2. Brought(g) /\ "db" \notin happened
    BY CountsGrow DEF BroughtInv
  <1>3. \A p \in Pipelines : Active(p)' => Active(p) /\ Saved(p) /\ row'[p].value = row[p].value
    BY KeptNext DEF Active
  <1>4. ASSUME UNCHANGED <<refs, row>>, job'[g] = job[g]
        PROVE  Brought(g)'
    BY <1>2, <1>4 DEF Brought, Active, Saved, AtHead, Rows
  <1>5. CASE (\E b \in Branches : Push(b) \/ Reset(b)) \/ UNCHANGED vars
    BY <1>4, <1>5 DEF Push, Reset, vars
  <1>6. CASE Crash
    BY <1>6 DEF Crash, Idle
  <1>7. ASSUME NEW h \in Handlers, Works(h), h # g
        PROVE  Brought(g)'
    <2>1. job'[g] = job[g]
      BY <1>1, <1>7, FetchEffect, EndEffect, CallEffect, PollListEffect, ListActiveEffect,
         NotifyEffect, WriteEffect, CommitEffect DEF Works, OthersStay, WatcherInv
    <2> QED
      BY <1>4, <1>7, <2>1, OthersWait DEF AtWork
  <1>8. ASSUME Fetches(g)
        PROVE  FALSE
    <2>1. job[g].op = "latest" /\ job'[g].at = "done"
      BY <1>1, <1>8, FetchEffect
    <2>2. LatestFetch(g)
      BY <1>1, <1>8, <2>1 DEF Fetches, PollFetch, CheckoutWipe, CheckoutFetch, LabelsOK, Labelled
    <2>3. PICK at \in {"list", "failed"} : Become(g, [job[g] EXCEPT !.at = at])
      BY <2>2 DEF LatestFetch
    <2>4. job'[g] = [job[g] EXCEPT !.at = at] /\ job[g] \in Job
      BY <1>1, <2>3, Becomes DEF HandlersOK
    <2> QED
      BY <2>1, <2>4 DEF Job
  <1>9. ASSUME Abort(g) \/ Returns(g) \/ PollList(g)
               \/ (\E op \in {"poll", "latest", "checkout"} : Call(g, op))
               \/ (\E p \in Pipelines : PollNotify(g, p))
        PROVE  FALSE
    BY <1>1, <1>9, EndEffect, CallEffect, PollListEffect, NotifyEffect DEF WatcherInv
  <1>10. CASE ListActive(g)
    <2>1. job'[g].at = "commits" /\ job'[g].todo = {p \in Pipelines : Active(p)}
      BY <1>1, <1>10, ListActiveEffect
    <2> QED
      BY <1>3, <2>1 DEF Brought
  <1>11. CASE PollSave(g) \/ CommitWrite(g)
    <2>1. job[g].op = "latest" /\ job'[g].at = "done" /\ job[g].todo = {} /\ refs' = refs
          /\ job[g].at = "commits"
      BY <1>1, <1>11, WriteEffect DEF LabelsOK, Labelled
    <2>2. \A p \in Pipelines :
             row'[p] = IF p \in Rows(job[g].out) THEN Written(row[p], job[g].out[p]) ELSE row[p]
      BY <1>1, <1>11, <2>1, WriteEffect
    <2>3. ASSUME NEW p \in Pipelines, Active(p)'
          PROVE  AtHead(row[p])'
      <3>1. /\ p \in Rows(job[g].out) /\ AtHead(job[g].out[p]) /\ row[p] \in Row
            /\ job[g].out[p] \in Row
        BY <1>2, <1>3, <2>1, <2>3, HeldRows DEF Brought, Active
      <3>2. row'[p] = Written(row[p], job[g].out[p])
        BY <2>2, <3>1
      <3>3. row'[p].last = job[g].out[p].last /\ row'[p].value = job[g].out[p].value
        BY <3>1, <3>2, WrittenRow
      <3> QED
        BY <2>1, <3>1, <3>3 DEF AtHead
    <2> QED
      BY <2>1, <2>3 DEF Brought
  <1>12. ASSUME NEW q \in Pipelines, CommitRead(g, q) \/ CommitSkip(g, q)
         PROVE  Brought(g)'
    <2>1. /\ job[g].op = "latest" /\ job[g].at = "commits" /\ UNCHANGED <<refs, row>>
          /\ job'[g].at = "commits" /\ job'[g].todo = job[g].todo \ {q}
          /\ job'[g].out[q] = Refreshed(row[q]) /\ Active(q)
          /\ \A p \in Pipelines : p # q => job'[g].out[p] = job[g].out[p]
      BY <1>1, <1>12, CommitEffect
    <2>2. ASSUME NEW p \in Pipelines, Active(p)'
          PROVE  \/ p \in job'[g].todo
                 \/ /\ p \in Rows(job'[g].out) /\ AtHead(job'[g].out[p])
                    /\ job'[g].out[p].value = row'[p].value
      <3>1. CASE p = q
        <4>1. row[p] \in Row /\ Refreshed(row[p]) \in Row /\ Refreshed(row[p]) # Absent
          BY <1>1, <2>1, <3>1, HeldRows, RefreshedRow, AbsentAssumption DEF Active
        <4>2. AtHead(Refreshed(row[p])) /\ Refreshed(row[p]).value = row[p].value
          BY <1>1, <4>1, RefreshedAtHead
        <4>3. job'[g].out[p] = Refreshed(row[p])
          BY <2>1, <3>1
        <4>4. p \in Rows(job'[g].out)
          BY <4>1, <4>3 DEF Rows
        <4>5. AtHead(job'[g].out[p])
          BY <4>2, <4>3
        <4> QED
          BY <2>1, <4>2, <4>3, <4>4, <4>5
      <3>2. CASE p # q
        <4>1. job'[g].out[p] = job[g].out[p] /\ Active(p)
          BY <1>3, <2>1, <2>2, <3>2
        <4>2. \/ p \in job[g].todo
              \/ /\ p \in Rows(job[g].out) /\ AtHead(job[g].out[p])
                 /\ job[g].out[p].value = row[p].value
          BY <1>2, <2>1, <4>1 DEF Brought
        <4>3. p \in Rows(job[g].out) => p \in Rows(job'[g].out)
          BY <4>1 DEF Rows
        <4>4. AtHead(job[g].out[p]) => AtHead(job'[g].out[p])
          BY <4>1
        <4> QED
          BY <2>1, <3>2, <4>1, <4>2, <4>3, <4>4
      <3> QED
        BY <3>1, <3>2
    <2>3. job'[g].at # "done" /\ refs' = refs
      BY <2>1
    <2> QED
      BY <2>2, <2>3 DEF Brought, AtHead
  <1>13. ASSUME Works(g)
         PROVE  Brought(g)'
    <2>1. ~Fetches(g) /\ ~(Abort(g) \/ Returns(g) \/ PollList(g)
                           \/ (\E op \in {"poll", "latest", "checkout"} : Call(g, op))
                           \/ (\E p \in Pipelines : PollNotify(g, p)))
      BY <1>8, <1>9
    <2> QED
      BY <1>10, <1>11, <1>12, <1>13, <2>1 DEF Works
  <1> QED
    BY <1>5, <1>6, <1>7, <1>13, WorkSteps

\* What GetLatestCommitForBranch answers is the head on disk, none without one.
LEMMA LatestIsHead ==
    ASSUME GitOK, LogOK, NEW b \in Branches
    PROVE  LatestCommit(b) = refs[b]
  <1>1. refs[b] \in 0..made
    BY RemoteRefs
  <1>2. IteratorFails(b, 0) <=> refs[b] = 0
    BY DEF IteratorFails
  <1>3. CASE refs[b] = 0
    BY <1>2, <1>3 DEF LatestCommit, None
  <1>4. CASE refs[b] # 0
    <2>1. refs[b] \in 1..made /\ Iterated(b, 0) = log[refs[b]]
      BY <1>1, <1>4, LogSeq DEF Iterated
    <2>2. /\ log[refs[b]] \in Seq(Commits) /\ Len(log[refs[b]]) \in Nat
          /\ Len(log[refs[b]]) >= 1 /\ log[refs[b]][1] = refs[b]
      BY <1>1, <1>4, <2>1, LogSeq DEF LogOK, Chain
    <2>3. AtMost(1, log[refs[b]])[1] = log[refs[b]][1]
      <3>1. (IF Len(log[refs[b]]) < 1 THEN Len(log[refs[b]]) ELSE 1) = 1
        BY <2>2
      <3>2. AtMost(1, log[refs[b]]) = SubSeq(log[refs[b]], 1, 1)
        BY <3>1 DEF AtMost
      <3>3. 1 \in 0..Len(log[refs[b]]) /\ 1 > 0
        BY <2>2
      <3> QED
        BY <2>2, <3>2, <3>3, PrefixSeq
    <2> QED
      BY <1>2, <1>4, <2>1, <2>2, <2>3 DEF LatestCommit
  <1> QED
    BY <1>3, <1>4

\* Where nothing failed the material is checked out.
LEMMA StatusNext ==
    ASSUME WatcherInv, FlowInv, happened = {} => checkedOut, [Next]_vars
    PROVE  happened' = {} => checkedOut'
  <1>1. happened' = {} => happened = {}
    BY CountsGrow
  <1>2. ASSUME NEW h \in Handlers, CheckoutFetch(h), happened' = {}
        PROVE  checkedOut'
    BY <1>2 DEF CheckoutFetch, FetchFails, Fault
  <1>3. ASSUME NEW h \in Handlers, LatestFetch(h) \/ Return(h), checkedOut
        PROVE  checkedOut'
    BY <1>3 DEF LatestFetch, Return
  <1>4. ASSUME NEW h \in Handlers, Step(h), ~CheckoutFetch(h), ~LatestFetch(h), ~Return(h)
        PROVE  UNCHANGED checkedOut
    BY <1>4 DEF Step, PollStep, PollFetch, PollList, PollNotify, PollSave, LatestStep, CheckoutStep,
         CheckoutWipe, CommitStep, ListActive, CommitRead, CommitSkip, CommitWrite, SaveStep,
         SaveUpdate, SaveInsert, Abort, ReturnUnsaved
  <1>5. CASE \/ \E b \in Branches : Push(b) \/ Reset(b)
             \/ \E h \in Handlers : \/ \E op \in {"poll", "latest", "checkout"} : Call(h, op)
                                   \/ \E p \in Pipelines : SaveCall(h, p)
             \/ Crash \/ UNCHANGED vars
    BY <1>1, <1>5 DEF Push, Reset, Call, SaveCall, Crash, vars
  <1> QED
    BY <1>1, <1>2, <1>3, <1>4, <1>5 DEF Next

\* When GetLatestCommitForBranch returns, its answer, which it takes from the
\* repository, and the heads of GetHeadForPipelineMaterials, which come from the
\* rows, are one (RepoManages.go:702, 444): the lock is held from the fetch to
\* the last row, so what the rows were set to is still what is on disk.
THEOREM HeadsAgreeAlways ==
    ASSUME "save" \notin Ops
    PROVE  SafeSpec => []HeadsAgree
  <1> DEFINE StatusInv == happened = {} => checkedOut
  <1>1. Init => BroughtInv /\ StatusInv
    BY DEF Init, BroughtInv, Brought, Idle
  <1>2. /\ WatcherInv /\ FlowInv /\ PathInv /\ BroughtInv /\ StatusInv /\ [Next]_vars
             => BroughtInv' /\ StatusInv'
    BY BroughtNext, StatusNext DEF PathInv
  <1>3. WatcherInv /\ FlowInv /\ BroughtInv /\ StatusInv => HeadsAgree
    <2> SUFFICES ASSUME WatcherInv, FlowInv, BroughtInv, checkedOut, happened = {}, NEW h \in Handlers,
                        job[h].op = "latest", job[h].at = "done",
                        NEW p \in Pipelines, Active(p)
                 PROVE  GetCommitMetadata(Bean(p).id, [branch |-> Bean(p).value]) = {Bean(p).commit}
      BY DEF HeadsAgree, GetHeadForPipelineMaterials
    <2>1. GitOK /\ LogOK /\ row[p] \in Row
      BY HeldRows DEF WatcherInv, TypeOK, FlowInv, Active
    <2>2. row[p].last = refs[row[p].value] /\ row[p].value \in Branches
      BY <2>1 DEF BroughtInv, Brought, AtHead, Row
    <2>3. Bean(p).id = p /\ Bean(p).value = row[p].value /\ Bean(p).commit = row[p].last
      BY DEF Bean
    <2> PICK b \in Branches : b = row[p].value
      BY <2>2
    <2>4. GetCommitMetadata(p, [branch |-> b]) = {LatestCommit(b)}
      <3>1. "branch" \in DOMAIN [branch |-> b] /\ [branch |-> b].branch = b
        OBVIOUS
      <3> QED
        BY <3>1 DEF GetCommitMetadata
    <2> QED
      BY <2>1, <2>2, <2>3, <2>4, LatestIsHead
  <1> QED
    BY <1>1, <1>2, <1>3, FlowInvariant, PathInvariant, PTL DEF SafeSpec

-----------------------------------------------------------------------------
(* Where the commits of a history are.                                       *)

\* All commits of a history are in the logs of the heads.
Within(r, heads) == \A i \in DOMAIN r.hist : InLog(r.hist[i], heads[r.value])

LEMMA InLogFurther ==
    ASSUME GitOK, LogOK, NEW e \in 1..made, NEW d, InLog(d, e), NEW c, InLog(c, d)
    PROVE  InLog(c, e)
  <1>1. /\ Chain(e) /\ DOMAIN log[e] = 1..Len(log[e]) /\ Len(log[e]) \in Nat
        /\ made \in Nat
    BY LogSeq DEF LogOK
  <1>2. PICK i \in 1..Len(log[e]) : log[e][i] = d
    BY <1>1 DEF InLog
  <1>3. /\ d \in 1..made
        /\ Len(log[d]) = Len(log[e]) - i + 1
        /\ \A k \in 1..(Len(log[e]) - i + 1) : log[d][k] = log[e][i + k - 1]
    <2>1. /\ log[e][i] \in 1..e
          /\ Len(log[log[e][i]]) = Len(log[e]) - i + 1
          /\ \A k \in 1..(Len(log[e]) - i + 1) : log[log[e][i]][k] = log[e][i + k - 1]
      BY <1>1 DEF Chain
    <2>2. 1..e \subseteq 1..made
      BY <1>1
    <2> QED
      BY <1>2, <2>1, <2>2
  <1>4. DOMAIN log[d] = 1..Len(log[d])
    <2>1. d \in 0..made
      BY <1>1, <1>3
    <2> QED
      BY <2>1, LogSeq
  <1>5. PICK k \in 1..(Len(log[e]) - i + 1) : log[d][k] = c
    BY <1>3, <1>4 DEF InLog
  <1>6. i + k - 1 \in 1..Len(log[e]) /\ log[e][i + k - 1] = c
    BY <1>1, <1>3, <1>5
  <1> QED
    BY <1>1, <1>6 DEF InLog

\* What is cut off a log is in it.
LEMMA CutInLog ==
    ASSUME GitOK, NEW d \in 1..made, NEW s, Cut(s, log[d])
    PROVE  \A i \in DOMAIN s : InLog(s[i], d)
  <1>1. Len(s) \in Nat /\ DOMAIN s = 1..Len(s) /\ Len(s) <= Len(log[d])
    BY LenProperties DEF Cut
  <1>2. Len(log[d]) \in Nat /\ DOMAIN log[d] = 1..Len(log[d])
    BY LogSeq
  <1>3. \A i \in 1..Len(s) : i \in 1..Len(log[d]) /\ log[d][i] = s[i]
    BY <1>1, <1>2 DEF Cut
  <1> QED
    BY <1>1, <1>2, <1>3 DEF InLog

\* A poll makes the history of what the branch has and what it was.
LEMMA PolledWithin ==
    ASSUME GitOK, LogOK, NEW r \in Row, Polled(r).last # r.last,
           NEW e \in 1..made, InLog(refs[r.value], e),
           \A i \in DOMAIN r.hist : InLog(r.hist[i], e)
    PROVE  /\ \A i \in DOMAIN Polled(r).hist : InLog(Polled(r).hist[i], e)
           /\ Polled(r).hist # <<>>
  <1> PICK new : new = ChangesSince(r.value, r.last)
    OBVIOUS
  <1> DEFINE all == new \o r.hist
             m   == Len(new)
             n   == Len(r.hist)
  <1>1. /\ refs[r.value] \in 1..made /\ r.value \in Branches
        /\ Polled(r).hist = AtMost(HistoryCount, all)
    BY PolledHead DEF AppendOldCommitsFromHistory, Row
  <1>2. /\ Cut(new, log[refs[r.value]]) /\ new \in Seq(Commits)
        /\ \A i \in DOMAIN new : InLog(new[i], e)
    <2>1. Cut(new, log[refs[r.value]])
      BY <1>1, ChangesCut
    <2>2. \A i \in DOMAIN new : InLog(new[i], refs[r.value])
      BY <1>1, <2>1, CutInLog
    <2>3. \A i \in DOMAIN new : InLog(new[i], e)
      BY <2>2, InLogFurther
    <2> QED
      BY <2>1, <2>3 DEF Cut
  <1>3. new # <<>>
    <2>1. new = <<>> => Polled(r) = r
      BY DEF Polled
    <2> QED
      BY <2>1
  <1>4. r.hist \in Seq(Commits)
    BY DEF Row
  <1>5. /\ m \in Nat /\ n \in Nat /\ DOMAIN new = 1..m /\ DOMAIN r.hist = 1..n /\ m # 0
    BY <1>2, <1>3, <1>4, LenProperties, EmptySeq
  <1>6. /\ all \in Seq(Commits) /\ Len(all) = m + n
        /\ \A i \in 1..(m + n) : all[i] = IF i <= m THEN new[i] ELSE r.hist[i - m]
    BY <1>2, <1>4, ConcatProperties
  <1> HIDE DEF m, n
  <1> HIDE DEF all
  <1>7. ASSUME NEW i \in 1..(m + n)
        PROVE  InLog(all[i], e)
    <2>1. CASE i <= m
      <3>1. i \in 1..m /\ all[i] = new[i]
        BY <1>5, <1>6, <2>1
      <3> QED
        BY <1>2, <1>5, <3>1
    <2>2. CASE ~(i <= m)
      <3>1. i - m \in 1..n /\ all[i] = r.hist[i - m]
        BY <1>5, <1>6, <2>2
      <3> QED
        BY <1>5, <3>1
    <2> QED
      BY <2>1, <2>2
  <1>8. all # <<>>
    BY <1>5, <1>6, EmptySeq
  <1> PICK hist : hist = AtMost(HistoryCount, all)
    OBVIOUS
  <1>9. Cut(hist, all) /\ hist # <<>>
    BY <1>6, <1>8, AtMostCut, AtMostSeq
  <1>10. Len(hist) \in Nat /\ DOMAIN hist = 1..Len(hist) /\ Len(hist) <= m + n
    BY <1>6, <1>9, LenProperties DEF Cut
  <1>11. \A i \in DOMAIN hist : i \in 1..(m + n) /\ hist[i] = all[i]
    BY <1>5, <1>9, <1>10 DEF Cut
  <1> QED
    BY <1>1, <1>7, <1>9, <1>11

\* A checkout makes the history of what the branch has.
LEMMA RefreshedWithin ==
    ASSUME GitOK, LogOK, NEW r \in Row
    PROVE  \/ refs[r.value] = 0 /\ Refreshed(r).errored /\ Refreshed(r).hist = r.hist
           \/ /\ refs[r.value] \in 1..made
              /\ Refreshed(r).hist # <<>>
              /\ \A i \in DOMAIN Refreshed(r).hist : InLog(Refreshed(r).hist[i], refs[r.value])
  <1>1. IteratorFails(r.value, 0) <=> refs[r.value] = 0
    BY DEF IteratorFails
  <1>2. CASE refs[r.value] = 0
    <2>1. Refreshed(r) = [r EXCEPT !.last = 0, !.errored = TRUE]
      BY <1>1, <1>2 DEF Refreshed
    <2>2. Refreshed(r).errored /\ Refreshed(r).hist = r.hist
      BY <2>1 DEF Row
    <2> QED
      BY <1>2, <2>2
  <1>3. CASE refs[r.value] # 0
    <2> PICK hist : hist = Refreshed(r).hist
      OBVIOUS
    <2>1. refs[r.value] \in 1..made /\ hist = AtMost(HistoryCount, log[refs[r.value]])
      BY <1>3, RefreshedHead
    <2>2. log[refs[r.value]] \in Seq(Commits) /\ log[refs[r.value]] # <<>>
      <3>1. refs[r.value] \in 0..made
        BY <2>1, LogSeq
      <3> QED
        BY <2>1, <3>1, LogSeq DEF GitOK
    <2>3. Cut(hist, log[refs[r.value]]) /\ hist # <<>>
      BY <2>1, <2>2, AtMostCut, AtMostSeq
    <2>4. \A i \in DOMAIN hist : InLog(hist[i], refs[r.value])
      BY <2>1, <2>3, CutInLog
    <2> QED
      BY <2>1, <2>3, <2>4
  <1> QED
    BY <1>2, <1>3

\* As long as nobody pushes by force, a commit that a row once had stays on the
\* remote's branch.
RemoteInv == forced = 0 => \A p \in Pipelines : \A r \in Held(p) : Within(r, remote)

LEMMA RemoteNext ==
    ASSUME "save" \notin Ops, WatcherInv, FlowInv, NoSaves, Kept, Growing, RemoteInv, [Next]_vars
    PROVE  RemoteInv'
  <1>1. GitOK /\ LogOK /\ forced \in Nat /\ TablesOK /\ HandlersOK
    BY DEF WatcherInv, TypeOK, BoundsOK, FlowInv
  <1>2. ASSUME NEW b \in Branches, Push(b), UNCHANGED <<refs, row, job>>
        PROVE  RemoteInv'
    <2> SUFFICES ASSUME forced' = 0, NEW p \in Pipelines, NEW r \in Held(p)', NEW i \in DOMAIN r.hist
                 PROVE  InLog(r.hist[i], remote[r.value])'
      BY DEF RemoteInv, Within
    <2>1. r \in Held(p) /\ r.value \in Branches
      BY <1>2 DEF Held, Saved, Rows, Row
    <2>2. forced = 0
      BY CountsGrow
    <2> PICK a \in Branches : a = r.value
      BY <2>1
    <2> PICK c : c = r.hist[i]
      OBVIOUS
    <2>3. InLog(c, remote[a])
      BY <2>1, <2>2 DEF RemoteInv, Within
    <2> QED
      BY <1>2, <2>3, PushKeeps
  <1>3. CASE \E b \in Branches : Reset(b)
    <2>1. forced' = forced + 1
      BY <1>3 DEF Reset, CountForced
    <2> QED
      BY <1>1, <2>1 DEF RemoteInv
  <1>4. CASE UNCHANGED <<made, log, remote, forced>>
    <2> SUFFICES ASSUME forced = 0, NEW p \in Pipelines, NEW r \in Held(p)'
                 PROVE  Within(r, remote)
      BY <1>4 DEF RemoteInv, Within, InLog
    <2>1. \A q \in Held(p) : Within(q, remote) /\ q.value = row[p].value /\ Saved(p)
      BY DEF RemoteInv, Kept
    <2>2. Saved(p) => /\ row[p] \in Row /\ row[p].value \in Branches /\ Within(row[p], remote)
                      /\ remote[row[p].value] \in 1..made
      BY <1>1, <2>1, HeldRows DEF Row, GitOK
    <2>3. ASSUME NEW h \in Handlers, p \in Rows(job[h].out),
                 r = Written(row[p], job[h].out[p]), Saved(p)
          PROVE  Within(r, remote)
      <3>1. /\ row[p] \in Row /\ job[h].out[p] \in Row /\ job[h].out[p] \in Held(p)
        BY <2>3, HeldRows
      <3>2. /\ Within(job[h].out[p], remote) /\ job[h].out[p].value = row[p].value
            /\ Within(row[p], remote)
        BY <2>1, <2>2, <3>1
      <3>3. r.value = row[p].value /\ r.hist \in {row[p].hist, job[h].out[p].hist}
        BY <2>3, <3>1, <3>2, WrittenRow
      <3> QED
        BY <3>2, <3>3 DEF Within
    <2>4. ASSUME p \in NewlySeen, r = Polled(row[p])
          PROVE  Within(r, remote)
      <3>1. row[p] \in Row /\ Polled(row[p]).last # row[p].last /\ Saved(p)
        BY <2>4, HeldRows DEF NewlySeen, Active
      <3>2. refs[row[p].value] # 0 /\ r.value = row[p].value
        BY <1>1, <2>4, <3>1, PolledHead
      <3>3. InLog(refs[row[p].value], remote[row[p].value])
        BY <2>2, <3>1, <3>2 DEF Growing
      <3>4. \A i \in DOMAIN r.hist : InLog(r.hist[i], remote[row[p].value])
        BY <1>1, <2>2, <2>4, <3>1, <3>3, PolledWithin DEF Within
      <3> QED
        BY <3>2, <3>4 DEF Within
    <2>5. ASSUME Active(p), r = Refreshed(row[p])
          PROVE  Within(r, remote)
      <3>1. row[p] \in Row /\ Saved(p)
        BY <2>5, HeldRows DEF Active
      <3>2. r.value = row[p].value
        BY <1>1, <2>5, <3>1, RefreshedHead
      <3>3. CASE refs[row[p].value] = 0 /\ r.hist = row[p].hist
        BY <2>2, <3>1, <3>2, <3>3 DEF Within
      <3>4. CASE /\ refs[row[p].value] \in 1..made
                 /\ \A i \in DOMAIN r.hist : InLog(r.hist[i], refs[row[p].value])
        <4>1. InLog(refs[row[p].value], remote[row[p].value])
          BY <1>1, <2>2, <3>1, <3>4 DEF Growing
        <4>2. \A i \in DOMAIN r.hist : InLog(r.hist[i], remote[row[p].value])
          BY <1>1, <2>2, <3>1, <3>4, <4>1, InLogFurther
        <4> QED
          BY <3>2, <4>2 DEF Within
      <3> QED
        BY <1>1, <2>5, <3>1, <3>3, <3>4, RefreshedWithin
    <2> QED
      BY <2>1, <2>3, <2>4, <2>5, HeldNext
  <1> QED
    BY <1>2, <1>3, <1>4, GitMoves

LEMMA RemoteInit ==
    ASSUME Init
    PROVE  RemoteInv
  <1>1. GitOK /\ LogOK /\ made = FirstCommits /\ remote = [b \in Branches |-> FirstCommits]
    BY InitInv, InitLog DEF WatcherInv, TypeOK, Init
  <1>2. FirstCommits \in 1..made /\ FirstCommits \in 0..made
    BY <1>1, WatcherAssumption
  <1> SUFFICES ASSUME NEW p \in Pipelines, NEW r \in Held(p)
               PROVE  Within(r, remote)
    BY DEF RemoteInv
  <1>3. r.value \in Branches /\ r.hist = AtMost(HistoryCount, log[FirstCommits])
    BY InitRows
  <1>4. log[FirstCommits] \in Seq(Commits)
    BY <1>1, <1>2, LogSeq
  <1>5. \A i \in DOMAIN r.hist : InLog(r.hist[i], FirstCommits)
    BY <1>1, <1>2, <1>3, <1>4, AtMostCut, CutInLog
  <1> QED
    BY <1>1, <1>3, <1>5 DEF Within

-----------------------------------------------------------------------------
(* What FetchChanges lists is in the checkout.                               *)

\* What FetchChanges lists of the row is on disk.
OnDisk(r) == ~r.errored => Within(r, refs)

\* A checkout has yet to set the row.
Rereads(h, p) ==
    \/ job[h].at = "fetch"
    \/ job[h].op = "checkout" /\ job[h].at = "list"
    \/ job[h].at = "commits" /\ (p \in job[h].todo \/ p \in Rows(job[h].out))

\* What a handler will write is good too, what a poll reads is on disk even of
\* errored rows, and no row that a checkout has yet to read goes away.
Ready(h) ==
    /\ job[h].at \in {"notify", "commits"} => \A p \in Rows(job[h].out) :
          OnDisk(job[h].out[p]) /\ (job[h].out[p].hist = <<>> => job[h].out[p].errored)
    /\ job[h].at = "list" /\ job[h].op = "poll" =>
          \A p \in Pipelines : Active(p) => Within(row[p], refs)
    /\ job[h].at = "commits" => \A p \in job[h].todo : Active(p)

DiskInv ==
    Quiet =>
        /\ \A h \in Handlers : Ready(h)
        /\ \A p \in Pipelines : Active(p) => OnDisk(row[p]) \/ \E h \in Handlers : Rereads(h, p)

\* A checkout that has fetched goes on to the rows, or gives up.
LEMMA CheckoutMoves ==
    ASSUME HandlersOK, NEW h \in Handlers, CheckoutFetch(h)
    PROVE  /\ job'[h].at \in {"list", "failed"}
           /\ happened' \subseteq {"fetch"} => job'[h].at = "list"
  <1>1. job[h] \in Job
    BY DEF HandlersOK
  <1>2. PICK at \in {"list", "failed"} :
           /\ Become(h, [job[h] EXCEPT !.at = at])
           /\ happened' \subseteq {"fetch"} => at = "list"
    BY DEF CheckoutFetch, Fault
  <1>3. job'[h] = [job[h] EXCEPT !.at = at]
    BY <1>2, Becomes
  <1> QED
    BY <1>1, <1>2, <1>3 DEF Job

\* A fetch that fails without moving a ref, or succeeds.
LEMMA QuietFetch ==
    ASSUME GitOK, HandlersOK, LockOK, LabelsOK, NEW h \in Handlers, Fetches(h), happened' \subseteq {"fetch"}
    PROVE  \/ job'[h].at = "fetch"
           \/ /\ refs' = remote \/ \A b \in Branches : refs'[b] = refs[b]
              /\ job[h].op = "poll" /\ job'[h].at = "list" => refs' = remote
              /\ job[h].at = "fetch" => job[h].op = "checkout" /\ job'[h].at = "list"
  <1>1. job[h] \in Job /\ refs \in [Branches -> 0..made]
    BY RemoteRefs DEF HandlersOK
  <1>2. ~Fault("partial") /\ ~Fault("context")
    BY DEF Fault
  <1>3. \A r \in [Branches -> 0..made] : \A f \in FetchErr("fetch", r) :
           f \in [Branches -> 0..made] /\ \A b \in Branches : f[b] = r[b]
    BY DEF FetchErr
  <1>4. \A r : \A f \in FetchOk(r) : f.refs = remote
    BY DEF FetchOk
  <1>5. \A at : Become(h, [job[h] EXCEPT !.at = at]) => job'[h].at = at
    <2> SUFFICES ASSUME NEW at, Become(h, [job[h] EXCEPT !.at = at])
                 PROVE  job'[h].at = at
      OBVIOUS
    <2>1. job'[h] = [job[h] EXCEPT !.at = at]
      BY Becomes
    <2> QED
      BY <1>1, <2>1 DEF Job
  <1>6. CASE PollFetch(h)
    <2>1. \/ refs' = remote
          \/ \E r \in FetchErr("fetch", refs) :
                /\ refs' \in FetchErr("fetch", r) \/ refs' = r
                /\ Become(h, [job[h] EXCEPT !.at = "failed"])
      <3>1. \/ \E f \in FetchOk(refs) : refs' = f.refs
            \/ \E kind \in {"fetch", "partial"} : Fault(kind) /\ \E r \in FetchErr(kind, refs) :
                  \/ \E f \in FetchOk(r) : refs' = f.refs
                  \/ /\ refs' \in FetchErr(kind, r) \/ refs' = r
                     /\ Become(h, [job[h] EXCEPT !.at = "failed"])
        BY <1>6 DEF PollFetch
      <3> QED
        BY <1>2, <1>4, <3>1
    <2>2. job[h].at = "lock"
      BY <1>6 DEF PollFetch
    <2>3. CASE refs' = remote
      BY <2>2, <2>3
    <2>4. CASE refs' # remote
      <3>1. PICK r \in FetchErr("fetch", refs) :
                /\ refs' \in FetchErr("fetch", r) \/ refs' = r
                /\ Become(h, [job[h] EXCEPT !.at = "failed"])
        BY <2>1, <2>4
      <3>2. job'[h].at = "failed" /\ \A b \in Branches : refs'[b] = refs[b]
        BY <1>1, <1>3, <1>5, <3>1
      <3> QED
        BY <2>2, <3>2
    <2> QED
      BY <2>3, <2>4
  <1>7. \A kind : FetchFails(kind) => \A b \in Branches : refs'[b] = refs[b]
    BY <1>1, <1>2, <1>3 DEF FetchFails
  <1>8. CASE LatestFetch(h)
    BY <1>7, <1>8 DEF LatestFetch
  <1>9. CASE CheckoutWipe(h)
    BY <1>5, <1>9 DEF CheckoutWipe
  <1>10. CASE CheckoutFetch(h)
    <2>1. job[h].at = "fetch" /\ job[h].op = "checkout"
      BY <1>10 DEF CheckoutFetch, LabelsOK, Labelled
    <2>2. job'[h].at = "list"
      BY <1>10, CheckoutMoves
    <2>3. refs' = remote \/ \A b \in Branches : refs'[b] = refs[b]
      BY <1>2, <1>7, <1>10 DEF CheckoutFetch
    <2> QED
      BY <2>1, <2>2, <2>3
  <1> QED
    BY <1>6, <1>8, <1>9, <1>10 DEF Fetches

\* A row stays on disk where its branch's head stays, or becomes the remote's.
LEMMA StaysOnDisk ==
    ASSUME GitOK, NEW r \in Row, UNCHANGED log,
           \/ \A b \in Branches : refs'[b] = refs[b]
           \/ refs' = remote /\ Within(r, remote)
    PROVE  /\ OnDisk(r) => OnDisk(r)'
           /\ Within(r, refs) => Within(r, refs)'
  <1>1. r.value \in Branches
    BY DEF Row
  <1> PICK d : d = refs'[r.value]
    OBVIOUS
  <1>2. ASSUME Within(r, refs) \/ (refs' = remote /\ Within(r, remote))
        PROVE  Within(r, refs)'
    <2>1. \A i \in DOMAIN r.hist : InLog(r.hist[i], d)
      BY <1>1, <1>2 DEF Within
    <2> QED
      BY <2>1 DEF Within, InLog
  <1> QED
    BY <1>2 DEF OnDisk

\* What a poll makes of a row, and what a checkout makes of it.
LEMMA ComputedOnDisk ==
    ASSUME GitOK, LogOK, NEW r \in Row
    PROVE  /\ OnDisk(Refreshed(r)) /\ (Refreshed(r).hist = <<>> => Refreshed(r).errored)
           /\ Within(r, refs) /\ Polled(r).last # r.last =>
                 OnDisk(Polled(r)) /\ Polled(r).hist # <<>>
  <1>1. r.value \in Branches
    BY DEF Row
  <1>2. Refreshed(r).value = r.value /\ Polled(r).value = r.value
    BY RefreshedHead, PolledHead
  <1>3. OnDisk(Refreshed(r)) /\ (Refreshed(r).hist = <<>> => Refreshed(r).errored)
    BY <1>2, RefreshedWithin DEF OnDisk, Within
  <1>4. ASSUME Within(r, refs), Polled(r).last # r.last
        PROVE  OnDisk(Polled(r)) /\ Polled(r).hist # <<>>
    <2>1. refs[r.value] \in 1..made
      BY <1>4, PolledHead
    <2>2. InLog(refs[r.value], refs[r.value])
      BY <2>1, InOwnLog
    <2>3. /\ \A i \in DOMAIN Polled(r).hist : InLog(Polled(r).hist[i], refs[r.value])
          /\ Polled(r).hist # <<>>
      BY <1>4, <2>1, <2>2, PolledWithin DEF Within
    <2> QED
      BY <1>2, <2>3 DEF OnDisk, Within
  <1> QED
    BY <1>3, <1>4

LEMMA QuietBack ==
    ASSUME WatcherInv, FlowInv, [Next]_vars, Quiet'
    PROVE  Quiet /\ happened' \subseteq {"fetch"} /\ ~Crash
  BY CountsGrow DEF Quiet

\* A checkout's rows are still there when it reads them.
LEMMA ReadyNext ==
    ASSUME "save" \notin Ops, WatcherInv, FlowInv, NoSaves, Kept, RemoteInv, DiskInv,
           Quiet', [Next]_vars, NEW h \in Handlers, Works(h)
    PROVE  Ready(h)'
  <1>1. GitOK /\ LogOK /\ HandlersOK /\ TablesOK /\ LockOK /\ LabelsOK
    BY DEF WatcherInv, TypeOK, FlowInv
  <1>2. Quiet /\ happened' \subseteq {"fetch"} /\ Ready(h) /\ forced = 0
    BY QuietBack DEF DiskInv, Quiet
  <1>3. \A p \in Pipelines : Active(p) => Active(p)'
    BY KeptNext DEF Active
  <1>4. CASE Fetches(h)
    <2>1. /\ row' = row /\ UNCHANGED <<log, remote>> /\ job'[h].op = job[h].op
          /\ job'[h].at \in {"list", "done", "failed", "fetch"}
      BY <1>1, <1>4, FetchEffect
    <2>2. ASSUME job'[h].at = "list", job'[h].op = "poll", NEW p \in Pipelines, Active(p)'
          PROVE  Within(row[p], refs)'
      <3>1. refs' = remote
        BY <1>1, <1>2, <1>4, <2>1, <2>2, QuietFetch
      <3>2. row[p] \in Row /\ row[p] \in Held(p)
        BY <2>1, <2>2, HeldRows DEF Active, Saved
      <3>3. Within(row[p], remote)
        BY <1>2, <3>2 DEF RemoteInv
      <3>4. \A i \in DOMAIN row[p].hist : InLog(row[p].hist[i], refs[row[p].value])'
        BY <2>1, <3>1, <3>3 DEF Within, InLog
      <3> QED
        BY <2>1, <3>4 DEF Within
    <2> QED
      BY <2>1, <2>2 DEF Ready
  <1>5. CASE Abort(h) \/ Returns(h)
    <2>1. job'[h].at \in {"unlisted", "failed", "idle"}
      BY <1>1, <1>5, EndEffect
    <2> QED
      BY <2>1 DEF Ready
  <1>6. ASSUME NEW op \in {"poll", "latest", "checkout"}, Call(h, op)
        PROVE  Ready(h)'
    <2>1. job'[h].at = "lock"
      BY <1>1, <1>6, CallEffect
    <2> QED
      BY <2>1 DEF Ready
  <1>7. CASE PollList(h)
    <2>1. /\ UNCHANGED <<log, refs, row>> /\ job[h].at = "list" /\ job[h].op = "poll"
          /\ job'[h].at = "notify" /\ Rows(job'[h].out) = NewlySeen
          /\ \A p \in NewlySeen : job'[h].out[p] = Polled(row[p])
      BY <1>7, PollListEffect
    <2>2. ASSUME NEW p \in NewlySeen
          PROVE  OnDisk(job'[h].out[p]) /\ job'[h].out[p].hist # <<>>
      <3>1. p \in Pipelines /\ Active(p) /\ row[p] \in Row /\ Polled(row[p]).last # row[p].last
        BY HeldRows DEF NewlySeen, Active
      <3>2. Within(row[p], refs)
        BY <1>2, <2>1, <3>1 DEF Ready
      <3>3. OnDisk(Polled(row[p])) /\ Polled(row[p]).hist # <<>>
        BY <1>1, <3>1, <3>2, ComputedOnDisk
      <3> QED
        BY <2>1, <3>3
    <2> QED
      BY <2>1, <2>2 DEF Ready, OnDisk, Within, InLog
  <1>8. CASE ListActive(h)
    <2>1. /\ UNCHANGED <<log, refs, row>> /\ job'[h].at = "commits" /\ Rows(job'[h].out) = {}
          /\ job'[h].todo = {p \in Pipelines : Active(p)}
      BY <1>1, <1>8, ListActiveEffect
    <2> QED
      BY <1>3, <2>1 DEF Ready
  <1>9. ASSUME NEW p \in Pipelines, PollNotify(h, p)
        PROVE  Ready(h)'
    <2>1. /\ UNCHANGED <<log, refs, row>> /\ job'[h].at = "notify" /\ job[h].at = "notify"
          /\ job'[h].out = job[h].out
      BY <1>1, <1>9, NotifyEffect
    <2> QED
      BY <1>2, <2>1 DEF Ready, OnDisk, Within, InLog
  <1>10. CASE PollSave(h) \/ CommitWrite(h)
    <2>1. job'[h].at = "done"
      BY <1>1, <1>10, WriteEffect
    <2> QED
      BY <2>1 DEF Ready
  <1>11. ASSUME NEW q \in Pipelines, CommitRead(h, q) \/ CommitSkip(h, q)
         PROVE  Ready(h)'
    <2>1. /\ UNCHANGED <<log, refs, row>> /\ job[h].at = "commits"
          /\ \A p \in Pipelines : p # q => job'[h].out[p] = job[h].out[p]
          /\ \/ /\ job'[h].at = "commits" /\ job'[h].todo = job[h].todo \ {q}
                /\ Active(q) /\ job'[h].out[q] = Refreshed(row[q])
             \/ job'[h].at = "failed"
      BY <1>1, <1>2, <1>11, CommitEffect
    <2>2. CASE job'[h].at = "failed"
      BY <2>2 DEF Ready
    <2>3. CASE job'[h].at # "failed"
      <3>1. ASSUME NEW p \in Rows(job'[h].out)
            PROVE  OnDisk(job'[h].out[p]) /\ (job'[h].out[p].hist = <<>> => job'[h].out[p].errored)
        <4>1. CASE p = q
          <5>1. row[p] \in Row
            BY <2>1, <2>3, <4>1, HeldRows DEF Active
          <5> QED
            BY <1>1, <2>1, <2>3, <4>1, <5>1, ComputedOnDisk
        <4>2. CASE p # q
          <5>1. p \in Rows(job[h].out) /\ job'[h].out[p] = job[h].out[p]
            BY <2>1, <3>1, <4>2 DEF Rows
          <5> QED
            BY <1>2, <2>1, <5>1 DEF Ready
        <4> QED
          BY <4>1, <4>2
      <3>2. \A p \in job'[h].todo : Active(p)'
        <4>1. job[h] \in Job
          BY <1>1 DEF HandlersOK
        <4>2. \A p \in job[h].todo : Active(p) /\ p \in Pipelines
          BY <1>2, <2>1, <4>1 DEF Ready, Job
        <4> QED
          BY <1>3, <2>1, <2>3, <4>2
      <3> QED
        BY <2>1, <2>3, <3>1, <3>2 DEF Ready, OnDisk, Within, InLog
    <2> QED
      BY <2>2, <2>3
  <1> QED
    BY <1>4, <1>5, <1>6, <1>7, <1>8, <1>9, <1>10, <1>11 DEF Works

\* A handler's step leaves its row on disk, or reads it again.
LEMMA RowStep ==
    ASSUME "save" \notin Ops, WatcherInv, FlowInv, NoSaves, Kept, RemoteInv, DiskInv,
           Quiet', [Next]_vars, NEW h \in Handlers, Works(h), NEW p \in Pipelines, Active(p),
           OnDisk(row[p]) \/ Rereads(h, p)
    PROVE  OnDisk(row[p])' \/ Rereads(h, p)'
  <1>1. GitOK /\ LogOK /\ HandlersOK /\ TablesOK /\ LockOK /\ LabelsOK
    BY DEF WatcherInv, TypeOK, FlowInv
  <1>2. Quiet /\ happened' \subseteq {"fetch"} /\ Ready(h) /\ forced = 0
    BY QuietBack DEF DiskInv, Quiet
  <1>3. row[p] \in Row /\ row[p] \in Held(p) /\ Saved(p)
    BY HeldRows DEF Active
  <1>4. CASE Fetches(h)
    <2>1. /\ row' = row /\ UNCHANGED log /\ job[h].at \in {"lock", "fetch"}
          /\ job'[h].op = job[h].op
      BY <1>1, <1>4, FetchEffect
    <2>2. CASE job'[h].at = "fetch"
      BY <2>2 DEF Rereads
    <2>3. CASE job[h].at = "fetch" /\ job'[h].at # "fetch"
      <3>1. job'[h].op = "checkout" /\ job'[h].at = "list"
        BY <1>1, <1>2, <1>4, <2>1, <2>3, QuietFetch
      <3> QED
        BY <3>1 DEF Rereads
    <2>4. CASE job[h].at # "fetch" /\ job'[h].at # "fetch"
      <3>1. OnDisk(row[p])
        BY <2>1, <2>4 DEF Rereads
      <3>2. refs' = remote \/ \A b \in Branches : refs'[b] = refs[b]
        BY <1>1, <1>2, <1>4, <2>4, QuietFetch
      <3>3. Within(row[p], remote)
        BY <1>2, <1>3 DEF RemoteInv
      <3> PICK r \in Row : r = row[p]
        BY <1>3
      <3>4. OnDisk(r)'
        BY <1>1, <2>1, <3>1, <3>2, <3>3, StaysOnDisk
      <3> QED
        BY <2>1, <3>4 DEF OnDisk, Within
    <2> QED
      BY <2>2, <2>3, <2>4
  \* steps that leave refs and rows alone
  <1>5. ASSUME UNCHANGED <<log, refs, row>>, Rereads(h, p) => Rereads(h, p)'
        PROVE  OnDisk(row[p])' \/ Rereads(h, p)'
    BY <1>5 DEF OnDisk, Within, InLog
  <1>6. CASE Abort(h) \/ Returns(h)
    <2>1. UNCHANGED <<log, refs, row>> /\ job[h].at \in {"done", "unlisted", "failed"}
      BY <1>1, <1>2, <1>6, EndEffect
    <2> QED
      BY <1>5, <2>1 DEF Rereads
  <1>7. ASSUME NEW op \in {"poll", "latest", "checkout"}, Call(h, op)
        PROVE  OnDisk(row[p])' \/ Rereads(h, p)'
    <2>1. UNCHANGED <<log, refs, row>> /\ job[h].at = "idle"
      BY <1>1, <1>7, CallEffect
    <2> QED
      BY <1>5, <2>1 DEF Rereads
  <1>8. CASE PollList(h)
    <2>1. UNCHANGED <<log, refs, row>> /\ job[h].at = "list" /\ job[h].op = "poll"
      BY <1>8, PollListEffect
    <2> QED
      BY <1>5, <2>1 DEF Rereads
  <1>9. CASE ListActive(h)
    <2>1. /\ UNCHANGED <<log, refs, row>> /\ job'[h].at = "commits"
          /\ job'[h].todo = {q \in Pipelines : Active(q)}
      BY <1>1, <1>9, ListActiveEffect
    <2>2. Rereads(h, p)'
      BY <2>1 DEF Rereads
    <2> QED
      BY <2>2
  <1>10. ASSUME NEW q \in Pipelines, PollNotify(h, q)
         PROVE  OnDisk(row[p])' \/ Rereads(h, p)'
    <2>1. UNCHANGED <<log, refs, row>> /\ job[h].at = "notify"
      BY <1>1, <1>10, NotifyEffect
    <2> QED
      BY <1>5, <2>1 DEF Rereads
  <1>11. CASE PollSave(h) \/ CommitWrite(h)
    <2>1. /\ UNCHANGED <<log, refs>> /\ job[h].at \in {"notify", "commits"} /\ job[h].todo = {}
          /\ row'[p] = IF p \in Rows(job[h].out) THEN Written(row[p], job[h].out[p]) ELSE row[p]
      BY <1>1, <1>2, <1>11, WriteEffect
    <2>2. CASE p \notin Rows(job[h].out)
      <3>1. OnDisk(row[p]) /\ row'[p] = row[p]
        BY <2>1, <2>2 DEF Rereads
      <3> QED
        BY <2>1, <3>1 DEF OnDisk, Within, InLog
    <2>3. CASE p \in Rows(job[h].out)
      <3> PICK old \in Row, new \in Row : old = row[p] /\ new = job[h].out[p]
        BY <1>3, <2>3, HeldRows
      <3>1. OnDisk(new) /\ (new.hist = <<>> => new.errored)
        BY <1>2, <2>1, <2>3 DEF Ready
      <3>2. row'[p] = Written(old, new)
        BY <2>1, <2>3
      <3>3. /\ Written(old, new).value = new.value /\ Written(old, new).errored = new.errored
            /\ Written(old, new).hist = IF new.hist = <<>> THEN old.hist ELSE new.hist
        <4>1. Written(old, new) = [new EXCEPT !.hist = IF @ = <<>> THEN old.hist ELSE @]
          BY AbsentAssumption DEF Written
        <4> QED
          BY <4>1 DEF Row
      <3>4. row'[p].errored = new.errored /\ row'[p].value = new.value
            /\ (~new.errored => row'[p].hist = new.hist)
        BY <3>1, <3>2, <3>3
      <3>5. ASSUME ~row'[p].errored
            PROVE  Within(row[p], refs)'
        <4>1. \A i \in DOMAIN new.hist : InLog(new.hist[i], refs[new.value])
          BY <3>1, <3>4, <3>5 DEF OnDisk, Within
        <4>2. row'[p].hist = new.hist /\ row'[p].value = new.value
          BY <3>4, <3>5
        <4>3. \A i \in DOMAIN new.hist : InLog(new.hist[i], refs[new.value])'
          BY <2>1, <4>1 DEF InLog
        <4> QED
          BY <4>2, <4>3 DEF Within
      <3> QED
        BY <3>5 DEF OnDisk
    <2> QED
      BY <2>2, <2>3
  <1>12. ASSUME NEW q \in Pipelines, CommitRead(h, q) \/ CommitSkip(h, q)
         PROVE  OnDisk(row[p])' \/ Rereads(h, p)'
    <2>1. /\ UNCHANGED <<log, refs, row>> /\ job[h].at = "commits" /\ q \in job[h].todo
          /\ \A o \in Pipelines : o # q => job'[h].out[o] = job[h].out[o]
          /\ \/ /\ job'[h].at = "commits" /\ job'[h].todo = job[h].todo \ {q}
                /\ Active(q) /\ job'[h].out[q] = Refreshed(row[q])
             \/ job'[h].at = "failed" /\ ~Active(q)
      BY <1>1, <1>2, <1>12, CommitEffect
    <2>2. Active(q)
      BY <1>2, <2>1 DEF Ready
    <2>3. q \in Rows(job'[h].out)
      <3>1. row[q] \in Row
        BY <2>2, HeldRows DEF Active
      <3>2. Refreshed(row[q]) # Absent
        BY <1>1, <3>1, RefreshedRow, AbsentAssumption
      <3> QED
        BY <2>1, <2>2, <3>2 DEF Rows
    <2>4. ASSUME Rereads(h, p)
          PROVE  Rereads(h, p)'
      <3>1. p \in job[h].todo \/ p \in Rows(job[h].out)
        BY <2>1, <2>4 DEF Rereads
      <3>2. CASE p = q
        BY <2>1, <2>2, <2>3, <3>2 DEF Rereads
      <3>3. CASE p # q
        <4>1. p \in job'[h].todo \/ p \in Rows(job'[h].out)
          BY <2>1, <2>2, <3>1, <3>3 DEF Rows
        <4> QED
          BY <2>1, <2>2, <4>1 DEF Rereads
      <3> QED
        BY <3>2, <3>3
    <2> QED
      BY <1>5, <2>1, <2>4
  <1> QED
    BY <1>4, <1>6, <1>7, <1>8, <1>9, <1>10, <1>11, <1>12 DEF Works

LEMMA DiskNext ==
    ASSUME "save" \notin Ops, WatcherInv, FlowInv, NoSaves, Kept, RemoteInv, DiskInv, [Next]_vars
    PROVE  DiskInv'
  <1> SUFFICES ASSUME Quiet'
               PROVE  /\ \A h \in Handlers : Ready(h)'
                      /\ \A p \in Pipelines : Active(p)' =>
                            OnDisk(row[p])' \/ \E h \in Handlers : Rereads(h, p)'
    BY DEF DiskInv
  <1>1. GitOK /\ LogOK /\ HandlersOK /\ TablesOK /\ LockOK /\ LabelsOK
    BY DEF WatcherInv, TypeOK, FlowInv
  <1>2. /\ Quiet /\ ~Crash
        /\ \A h \in Handlers : Ready(h)
        /\ \A p \in Pipelines : Active(p) => OnDisk(row[p]) \/ \E h \in Handlers : Rereads(h, p)
    BY QuietBack DEF DiskInv
  <1>3. \A p \in Pipelines : Active(p)' <=> Active(p)
    BY KeptNext DEF Active
  \* what does not change for a handler that does not move
  <1>4. ASSUME NEW g \in Handlers, job'[g] = job[g], UNCHANGED <<refs, row>>,
               \A b \in Branches : \A c : InLog(c, refs[b])' <=> InLog(c, refs[b])
        PROVE  Ready(g)'
    <2>1. ASSUME NEW r \in Row
          PROVE  /\ Within(r, refs)' <=> Within(r, refs)
                 /\ OnDisk(r)' <=> OnDisk(r)
      BY <1>4 DEF Within, OnDisk, Row
    <2>2. ASSUME job[g].at \in {"notify", "commits"}, NEW p \in Rows(job[g].out)
          PROVE  OnDisk(job[g].out[p])' /\ (job[g].out[p].hist = <<>> => job[g].out[p].errored)
      <3> PICK r \in Row : r = job[g].out[p]
        BY HeldRows DEF Rows
      <3>1. OnDisk(r) /\ (r.hist = <<>> => r.errored)
        BY <1>2, <2>2 DEF Ready
      <3>2. OnDisk(r)'
        BY <2>1, <3>1
      <3> QED
        BY <1>4, <3>1, <3>2 DEF OnDisk, Within
    <2>3. ASSUME job[g].at = "list", job[g].op = "poll", NEW p \in Pipelines, Active(p)
          PROVE  Within(row[p], refs)'
      <3> PICK r \in Row : r = row[p]
        BY <2>3, HeldRows DEF Active
      <3>1. Within(r, refs)
        BY <1>2, <2>3 DEF Ready
      <3>2. Within(r, refs)'
        BY <2>1, <3>1
      <3> QED
        BY <1>4, <3>2 DEF Within
    <2>4. job[g].at = "commits" => \A p \in job[g].todo : Active(p)
      BY <1>2 DEF Ready
    <2> QED
      BY <1>3, <1>4, <2>2, <2>3, <2>4 DEF Ready, Rows, Active, Saved
  <1>5. ASSUME UNCHANGED <<refs, row, job>>,
               \A b \in Branches : \A c : InLog(c, refs[b])' <=> InLog(c, refs[b])
        PROVE  DiskInv'
    <2>1. \A h \in Handlers : Ready(h)'
      BY <1>4, <1>5
    <2>2. ASSUME NEW p \in Pipelines, Active(p)'
          PROVE  OnDisk(row[p])' \/ \E h \in Handlers : Rereads(h, p)'
      <3>1. OnDisk(row[p]) \/ \E h \in Handlers : Rereads(h, p)
        BY <1>2, <1>3, <2>2
      <3>2. OnDisk(row[p]) => OnDisk(row[p])'
        <4> PICK r \in Row : r = row[p]
          BY <1>3, <2>2, HeldRows DEF Active
        <4>1. OnDisk(r) => OnDisk(r)'
          BY <1>5 DEF OnDisk, Within, Row
        <4> QED
          BY <1>5, <4>1 DEF OnDisk, Within
      <3>3. \A h \in Handlers : Rereads(h, p) => Rereads(h, p)'
        BY <1>5 DEF Rereads, Rows
      <3> QED
        BY <3>1, <3>2, <3>3
    <2> QED
      BY <2>1, <2>2 DEF DiskInv
  <1>6. CASE \E b \in Branches : Push(b) \/ Reset(b)
    <2>1. PICK b \in Branches : Push(b) \/ Reset(b)
      BY <1>6
    <2>2. UNCHANGED <<refs, row, job>>
      BY <2>1 DEF Push, Reset
    <2>3. \A c \in 0..made : log'[c] = log[c]
      BY LogsStay
    <2>4. \A a \in Branches : refs[a] \in 0..made
      BY <1>1, RemoteRefs
    <2>5. \A a \in Branches : \A c : InLog(c, refs[a])' <=> InLog(c, refs[a])
      BY <2>2, <2>3, <2>4 DEF InLog
    <2> QED
      BY <1>5, <2>2, <2>5 DEF DiskInv
  <1>7. CASE UNCHANGED vars
    <2>1. UNCHANGED <<refs, row, job>> /\ \A b \in Branches : \A c : InLog(c, refs[b])' <=> InLog(c, refs[b])
      BY <1>7 DEF vars, InLog
    <2> QED
      BY <1>5, <2>1 DEF DiskInv
  <1>8. ASSUME NEW h \in Handlers, Works(h)
        PROVE  DiskInv'
    <2>1. OthersStay(h)
      BY <1>1, <1>8, FetchEffect, EndEffect, CallEffect, PollListEffect, ListActiveEffect,
         NotifyEffect, WriteEffect, CommitEffect DEF Works, WatcherInv
    <2>2. ASSUME NEW g \in Handlers, g # h
          PROVE  Ready(g)'
      <3>1. job'[g] = job[g]
        BY <2>1, <2>2 DEF OthersStay
      <3>2. CASE AtWork(job[g])
        <4>1. UNCHANGED <<refs, row, log>>
          BY <1>8, <2>2, <3>2, OthersWait
        <4>2. \A b \in Branches : \A c : InLog(c, refs[b])' <=> InLog(c, refs[b])
          BY <4>1 DEF InLog
        <4> QED
          BY <1>4, <3>1, <4>1, <4>2
      <3>3. CASE ~AtWork(job[g])
        BY <3>1, <3>3 DEF Ready, AtWork
      <3> QED
        BY <3>2, <3>3
    <2>3. \A g \in Handlers : Ready(g)'
      BY <1>8, <2>2, ReadyNext
    <2>4. ASSUME NEW p \in Pipelines, Active(p)'
          PROVE  OnDisk(row[p])' \/ \E g \in Handlers : Rereads(g, p)'
      <3>1. Active(p) /\ (OnDisk(row[p]) \/ \E g \in Handlers : Rereads(g, p))
        BY <1>2, <1>3, <2>4
      <3>2. CASE OnDisk(row[p]) \/ Rereads(h, p)
        BY <1>8, <3>1, <3>2, RowStep
      <3>3. ASSUME NEW g \in Handlers, g # h, Rereads(g, p)
            PROVE  Rereads(g, p)'
        BY <2>1, <3>3 DEF OthersStay, Rereads, Rows
      <3> QED
        BY <3>1, <3>2, <3>3
    <2> QED
      BY <2>3, <2>4 DEF DiskInv
  <1> QED
    BY <1>2, <1>6, <1>7, <1>8, WorkSteps DEF DiskInv

-----------------------------------------------------------------------------
(* A material that is not checked out: nothing is on disk, and no row lists. *)

Blank(heads) == \A b \in Branches : heads[b] = 0

\* No branch is on disk, and every row is marked as errored or a checkout has
\* yet to mark it.
Gone ==
    /\ Blank(refs)
    /\ \A p \in Pipelines : Active(p) => row[p].errored \/ \E h \in Handlers : Rereads(h, p)
    /\ \A h \in Handlers : job[h].at = "commits" =>
          \A p \in Rows(job[h].out) : job[h].out[p].errored

\* A poll has fetched, and sets the material's status when it returns.
Restores(h) == job[h].op = "poll" /\ job[h].at \in {"list", "notify", "done"}

GoneInv ==
    Quiet =>
        /\ \A h \in Handlers : job[h].at = "fetch" => Blank(refs)
        /\ checkedOut \/ Gone \/ \E h \in Handlers : Restores(h)

\* A fetch that fails without moving a ref leaves nothing where nothing was.
LEMMA BlankFetch ==
    ASSUME GitOK, HandlersOK, NEW h \in Handlers, happened' \subseteq {"fetch"},
           PollFetch(h) \/ LatestFetch(h) \/ CheckoutFetch(h), Blank(refs)
    PROVE  \/ Blank(refs')
           \/ job[h].op = "poll" /\ job'[h].at \in {"list", "done"}
           \/ checkedOut'
  <1>1. job[h] \in Job /\ refs \in [Branches -> 0..made]
    BY RemoteRefs DEF HandlersOK
  <1>2. \A kind : Fault(kind) => kind = "fetch"
    BY DEF Fault
  <1>3. \A r : Blank(r) => \A f \in FetchErr("fetch", r) : Blank(f)
    BY DEF FetchErr, Blank
  <1>4. \A kind : FetchFails(kind) => Blank(refs')
    BY <1>2, <1>3 DEF FetchFails
  <1>5. CASE PollFetch(h)
    <2>1. \/ \E at \in {"list", "done"} : Become(h, [job[h] EXCEPT !.at = at])
          \/ \E r \in FetchErr("fetch", refs) : refs' \in FetchErr("fetch", r) \/ refs' = r
      <3> DEFINE fetched(results) == \E f \in results :
                    /\ refs' = f.refs
                    /\ Become(h, [job[h] EXCEPT !.at = IF f.updated THEN "list" ELSE "done"])
      <3>1. \A results : fetched(results) =>
               \E at \in {"list", "done"} : Become(h, [job[h] EXCEPT !.at = at])
        OBVIOUS
      <3>2. \/ fetched(FetchOk(refs))
            \/ \E kind \in {"fetch", "partial"} : Fault(kind) /\ \E r \in FetchErr(kind, refs) :
                  fetched(FetchOk(r)) \/ refs' \in FetchErr(kind, r) \/ refs' = r
        BY <1>5 DEF PollFetch
      <3> HIDE DEF fetched
      <3> QED
        BY <1>2, <3>1, <3>2
    <2>2. CASE \E r \in FetchErr("fetch", refs) : refs' \in FetchErr("fetch", r) \/ refs' = r
      BY <1>3, <2>2
    <2>3. ASSUME NEW at \in {"list", "done"}, Become(h, [job[h] EXCEPT !.at = at])
          PROVE  job'[h].at = at
      <3>1. job'[h] = [job[h] EXCEPT !.at = at]
        BY <2>3, Becomes
      <3> QED
        BY <1>1, <3>1 DEF Job
    <2> QED
      BY <1>5, <2>1, <2>2, <2>3 DEF PollFetch
  <1>6. CASE LatestFetch(h)
    BY <1>2, <1>4, <1>6 DEF LatestFetch
  <1>7. CASE CheckoutFetch(h)
    BY <1>2, <1>4, <1>7 DEF CheckoutFetch
  <1> QED
    BY <1>5, <1>6, <1>7

\* Nothing comes back while one handler goes on.
LEMMA GoneStays ==
    ASSUME Gone, NEW h \in Handlers, OthersStay(h), Blank(refs'),
           \A p \in Pipelines : Active(p)' => Active(p),
           \A p \in Pipelines : Active(p)' =>
              \/ Rereads(h, p)'
              \/ row'[p].errored
              \/ row'[p] = row[p] /\ ~Rereads(h, p),
           job'[h].at = "commits" => \A p \in Rows(job'[h].out) : job'[h].out[p].errored
    PROVE  Gone'
  <1>1. \A g \in Handlers : g # h => job'[g] = job[g]
    BY DEF OthersStay
  <1>2. \A g \in Handlers : \A p : g # h /\ Rereads(g, p) => Rereads(g, p)'
    BY <1>1 DEF Rereads, Rows
  <1>3. ASSUME NEW p \in Pipelines, Active(p)'
        PROVE  row'[p].errored \/ \E g \in Handlers : Rereads(g, p)'
    <2>1. row[p].errored \/ \E g \in Handlers : Rereads(g, p)
      BY <1>3 DEF Gone
    <2> QED
      BY <1>2, <1>3, <2>1
  <1>4. \A g \in Handlers : job'[g].at = "commits" =>
           \A p \in Rows(job'[g].out) : job'[g].out[p].errored
    BY <1>1 DEF Gone
  <1>5. Blank(refs)'
    BY DEF Blank
  <1> QED
    BY <1>3, <1>4, <1>5 DEF Gone, Rows

\* What a handler at work leaves of it.
LEMMA GoneStep ==
    ASSUME "save" \notin Ops, WatcherInv, FlowInv, NoSaves, Kept, DiskInv, GoneInv,
           Quiet', [Next]_vars, NEW h \in Handlers, Works(h), ~checkedOut',
           ~(\E g \in Handlers : Restores(g)')
    PROVE  Gone'
  <1>1. GitOK /\ LogOK /\ HandlersOK /\ TablesOK /\ LockOK /\ LabelsOK
    BY DEF WatcherInv, TypeOK, FlowInv
  <1>2. Quiet /\ happened' \subseteq {"fetch"} /\ Ready(h)
    BY QuietBack DEF DiskInv
  <1>3. \A p \in Pipelines : Active(p)' => Active(p)
    BY KeptNext DEF Active
  <1>4. OthersStay(h)
    BY <1>1, FetchEffect, EndEffect, CallEffect, PollListEffect, ListActiveEffect,
       NotifyEffect, WriteEffect, CommitEffect DEF Works, WatcherInv
  <1>5. \A g \in Handlers : g # h => ~Restores(g)
    BY <1>4 DEF OthersStay, Restores
  <1>6. \A kind : Fault(kind) => kind = "fetch"
    BY <1>2 DEF Fault
  \* before the step, too, unless it is the one that clears the status
  <1>7. ASSUME ~checkedOut, ~Restores(h)
        PROVE  Gone
    BY <1>2, <1>5, <1>7 DEF GoneInv
  <1>8. CASE Fetches(h)
    <2>1. /\ row' = row /\ job[h].at \in {"lock", "fetch"} /\ ~Restores(h)
          /\ job'[h].op = job[h].op /\ job'[h].out = job[h].out
          /\ job'[h].at \in {"list", "done", "failed", "fetch"}
          /\ \A g \in Handlers : g # h => stage[g] # "in"
      BY <1>1, <1>8, FetchEffect DEF Restores
    <2>2. \A g \in Handlers : g # h => ~AtWork(job[g]) /\ job'[g] = job[g]
      BY <1>1, <1>4, <2>1 DEF HandlersOK, LockedAsCalled, NoSaves, AtWork, OthersStay
    <2>3. CASE CheckoutWipe(h)
      <3>1. Blank(refs)'
        BY <2>3 DEF CheckoutWipe, Blank
      <3>2. job'[h].at = "fetch"
        <4>1. job'[h] = [job[h] EXCEPT !.at = "fetch"] /\ job[h] \in Job
          BY <1>1, <2>3, Becomes DEF CheckoutWipe, HandlersOK
        <4> QED
          BY <4>1 DEF Job
      <3>3. \A p : Rereads(h, p)'
        BY <3>2 DEF Rereads
      <3>4. \A g \in Handlers : job'[g].at # "commits"
        BY <2>2, <3>2 DEF AtWork
      <3> QED
        BY <3>1, <3>3, <3>4 DEF Gone
    <2>4. CASE CheckoutFetch(h)
      <3>1. job[h].at = "fetch" /\ job[h].op = "checkout" /\ Blank(refs)
        BY <1>1, <1>2, <2>4 DEF CheckoutFetch, LabelsOK, Labelled, GoneInv
      <3>2. Blank(refs')
        BY <1>1, <1>2, <2>4, <3>1, BlankFetch
      <3>3. job'[h].at = "list"
        BY <1>1, <1>2, <2>4, CheckoutMoves
      <3>4. \A p : Rereads(h, p)'
        BY <2>1, <3>1, <3>3 DEF Rereads
      <3>5. \A g \in Handlers : job'[g].at # "commits"
        BY <2>2, <3>3 DEF AtWork
      <3> QED
        BY <3>2, <3>4, <3>5 DEF Gone, Blank
    <2>5. CASE PollFetch(h) \/ LatestFetch(h)
      <3>1. UNCHANGED checkedOut
        BY <2>5 DEF PollFetch, LatestFetch
      <3>2. Gone
        BY <1>7, <2>1, <3>1
      <3>3. Blank(refs')
        BY <1>1, <1>2, <2>1, <2>5, <3>2, BlankFetch DEF Gone, Restores
      <3>4. job'[h].at \in {"list", "done", "failed"}
        <4>1. job[h].op # "checkout"
        BY <2>5 DEF PollFetch, LatestFetch
      <4> QED
        BY <1>1, <1>8, <2>1, <4>1, FetchEffect
      <3>5. \A p : ~Rereads(h, p)
        BY <2>1, <2>5 DEF Rereads, PollFetch, LatestFetch
      <3> QED
        BY <1>3, <1>4, <2>1, <3>2, <3>3, <3>4, <3>5, GoneStays
    <2> QED
      BY <1>8, <2>3, <2>4, <2>5 DEF Fetches
  <1>9. CASE Abort(h) \/ Returns(h)
    <2>1. /\ UNCHANGED <<refs, row>> /\ job[h].at \in {"done", "unlisted", "failed"}
          /\ job'[h].at # "commits"
      BY <1>1, <1>2, <1>9, EndEffect
    <2>2. ~checkedOut /\ ~Restores(h)
      BY <1>1, <1>6, <1>9, <2>1 DEF Abort, Returns, Return, ReturnUnsaved, Restores, TablesOK
    <2>3. Gone
      BY <1>7, <2>2
    <2>4. \A p : ~Rereads(h, p)
      BY <2>1 DEF Rereads
    <2> QED
      BY <1>3, <1>4, <2>1, <2>3, <2>4, GoneStays DEF Gone
  <1>10. ASSUME NEW op \in {"poll", "latest", "checkout"}, Call(h, op)
         PROVE  Gone'
    <2>1. /\ UNCHANGED <<refs, row, checkedOut>> /\ job[h].at = "idle" /\ job'[h].at = "lock"
      BY <1>1, <1>10, CallEffect DEF Call
    <2>2. Gone /\ \A p : ~Rereads(h, p)
      BY <1>7, <2>1 DEF Restores, Rereads
    <2> QED
      BY <1>3, <1>4, <2>1, <2>2, GoneStays DEF Gone
  \* a poll that lists, announces or writes has fetched
  <1>11. CASE PollList(h) \/ (\E p \in Pipelines : PollNotify(h, p)) \/ PollSave(h)
    <2>1. job'[h].op = "poll" /\ job'[h].at \in {"notify", "done"}
      BY <1>1, <1>11, PollListEffect, NotifyEffect, WriteEffect
      DEF WatcherInv, PollNotify, PollSave, LabelsOK, Labelled
    <2> QED
      BY <2>1 DEF Restores
  <1>12. CASE ListActive(h)
    <2>1. /\ UNCHANGED <<refs, row, checkedOut>> /\ job[h].op \in {"latest", "checkout"}
          /\ job'[h].at = "commits" /\ Rows(job'[h].out) = {}
          /\ job'[h].todo = {p \in Pipelines : Active(p)}
      BY <1>1, <1>12, ListActiveEffect DEF ListActive
    <2>2. Gone
      BY <1>7, <2>1 DEF Restores
    <2>3. \A p \in Pipelines : Active(p)' => Rereads(h, p)'
      BY <1>3, <2>1 DEF Rereads
    <2> QED
      BY <1>3, <1>4, <2>1, <2>2, <2>3, GoneStays DEF Gone
  <1>13. CASE CommitWrite(h)
    <2>1. /\ UNCHANGED <<refs, checkedOut>> /\ job[h].at = "commits" /\ job[h].todo = {}
          /\ job'[h].at = "done"
          /\ \A p \in Pipelines :
                row'[p] = IF p \in Rows(job[h].out) THEN Written(row[p], job[h].out[p]) ELSE row[p]
      BY <1>1, <1>2, <1>13, WriteEffect DEF CommitWrite
    <2>2. Gone
      BY <1>7, <2>1 DEF Restores
    <2>3. ASSUME NEW p \in Pipelines, Active(p)'
          PROVE  row'[p].errored \/ (row'[p] = row[p] /\ ~Rereads(h, p))
      <3>1. CASE p \in Rows(job[h].out)
        <4>1. row[p] \in Row /\ job[h].out[p] \in Row /\ job[h].out[p].errored
          BY <1>3, <2>1, <2>2, <2>3, <3>1, HeldRows DEF Gone, Active
        <4>2. row'[p] = Written(row[p], job[h].out[p]) /\ row[p] # Absent
          BY <2>1, <3>1, <4>1, AbsentAssumption
        <4>3. Written(row[p], job[h].out[p]).errored = job[h].out[p].errored
          BY <4>1, <4>2 DEF Written, Row
        <4> QED
          BY <4>1, <4>2, <4>3
      <3>2. CASE p \notin Rows(job[h].out)
        BY <2>1, <3>2 DEF Rereads
      <3> QED
        BY <3>1, <3>2
    <2> QED
      BY <1>3, <1>4, <2>1, <2>2, <2>3, GoneStays DEF Gone
  <1>14. ASSUME NEW q \in Pipelines, CommitRead(h, q) \/ CommitSkip(h, q)
         PROVE  Gone'
    <2>0. UNCHANGED checkedOut
      BY <1>14 DEF CommitRead, CommitSkip
    <2>1. /\ UNCHANGED <<refs, row>> /\ job[h].at = "commits" /\ q \in job[h].todo
          /\ \A o \in Pipelines : o # q => job'[h].out[o] = job[h].out[o]
          /\ \/ /\ job'[h].at = "commits" /\ job'[h].todo = job[h].todo \ {q}
                /\ Active(q) /\ job'[h].out[q] = Refreshed(row[q])
             \/ job'[h].at = "failed" /\ ~Active(q)
      BY <1>1, <1>2, <1>14, CommitEffect
    <2>2. Gone /\ Active(q)
      BY <1>2, <1>7, <2>0, <2>1 DEF Restores, Ready
    <2>3. /\ job'[h].at = "commits" /\ job'[h].todo = job[h].todo \ {q}
          /\ job'[h].out[q] = Refreshed(row[q])
      BY <2>1, <2>2
    <2>4. row[q] \in Row
      BY <2>2, HeldRows DEF Active
    <2>5. Refreshed(row[q]).errored /\ Refreshed(row[q]) # Absent
      <3>1. refs[row[q].value] = 0
        BY <2>2, <2>4 DEF Gone, Blank, Row
      <3>2. Refreshed(row[q]) = [row[q] EXCEPT !.last = 0, !.errored = TRUE]
        BY <3>1 DEF Refreshed, IteratorFails
      <3> QED
        BY <1>1, <2>4, <3>2, RefreshedRow, AbsentAssumption DEF Row
    <2>6. \A p \in Rows(job'[h].out) : job'[h].out[p].errored
      BY <2>1, <2>2, <2>3, <2>5 DEF Gone, Rows
    <2>7. \A p \in Pipelines : Rereads(h, p) => Rereads(h, p)'
      BY <2>1, <2>2, <2>3, <2>5 DEF Rereads, Rows
    <2> QED
      BY <1>3, <1>4, <2>1, <2>2, <2>6, <2>7, GoneStays DEF Gone
  <1> QED
    BY <1>8, <1>9, <1>10, <1>11, <1>12, <1>13, <1>14 DEF Works

LEMMA GoneNext ==
    ASSUME "save" \notin Ops, WatcherInv, FlowInv, NoSaves, Kept, DiskInv, GoneInv, [Next]_vars
    PROVE  GoneInv'
  <1> SUFFICES ASSUME Quiet'
               PROVE  /\ \A h \in Handlers : job'[h].at = "fetch" => Blank(refs')
                      /\ checkedOut' \/ Gone' \/ \E h \in Handlers : Restores(h)'
    BY DEF GoneInv, Blank
  <1>1. HandlersOK /\ TablesOK /\ LockOK /\ LabelsOK
    BY DEF WatcherInv, TypeOK, FlowInv
  <1>2. Quiet /\ ~Crash
    BY QuietBack
  <1>3. CASE (\E b \in Branches : Push(b) \/ Reset(b)) \/ UNCHANGED vars
    <2>1. UNCHANGED <<refs, row, checkedOut, job>>
      BY <1>3 DEF Push, Reset, vars
    <2> QED
      BY <1>2, <2>1 DEF GoneInv, Gone, Blank, Restores, Rereads, Rows, Active, Saved
  <1>4. ASSUME NEW h \in Handlers, Works(h)
        PROVE  /\ \A g \in Handlers : job'[g].at = "fetch" => Blank(refs')
               /\ checkedOut' \/ Gone' \/ \E g \in Handlers : Restores(g)'
    <2>1. ASSUME NEW g \in Handlers, g # h, job'[g].at = "fetch"
          PROVE  Blank(refs')
      <3>1. job[g].at = "fetch"
        BY <1>1, <1>4, <2>1, FetchEffect, EndEffect, CallEffect, PollListEffect, ListActiveEffect,
           NotifyEffect, WriteEffect, CommitEffect DEF Works, OthersStay, WatcherInv
      <3>2. refs' = refs
        BY <1>4, <2>1, <3>1, OthersWait DEF AtWork
      <3> QED
        BY <1>2, <3>1, <3>2 DEF GoneInv
    <2>2. ASSUME job'[h].at = "fetch"
          PROVE  Blank(refs')
      <3>1. Fetches(h)
        BY <1>1, <1>4, <2>2, EndEffect, CallEffect, PollListEffect, ListActiveEffect,
           NotifyEffect, WriteEffect, CommitEffect DEF Works, WatcherInv
      <3>2. CheckoutWipe(h)
        BY <1>1, <2>2, <3>1, FetchEffect, CheckoutMoves DEF Fetches, PollFetch, LatestFetch
      <3> QED
        BY <3>2 DEF CheckoutWipe, Blank
    <2>3. checkedOut' \/ Gone' \/ \E g \in Handlers : Restores(g)'
      BY <1>4, GoneStep
    <2> QED
      BY <2>1, <2>2, <2>3
  <1> QED
    BY <1>2, <1>3, <1>4, WorkSteps

\* A commit that FetchChanges lists is found when its metadata is asked for, by
\* hash or on its pipeline's branch (RepoManages.go:620, 711), whenever nobody
\* has the lock: checkouts wipe the directory, and fetches into it fail, but a
\* row that has lost its commits is marked as errored before the lock is
\* released, and everything is there again before a poll clears the mark.
THEOREM ListedAreFoundAlways ==
    ASSUME "save" \notin Ops
    PROVE  SafeSpec => []ListedAreFound
  <1>1. Init => RemoteInv /\ DiskInv /\ GoneInv
    <2> SUFFICES ASSUME Init
                 PROVE  RemoteInv /\ DiskInv /\ GoneInv
      OBVIOUS
    <2>1. /\ RemoteInv /\ refs = remote /\ checkedOut /\ forced = 0
          /\ \A h \in Handlers : job[h].at = "idle"
      BY RemoteInit DEF Init, Idle
    <2>2. \A h \in Handlers : Ready(h)
      BY <2>1 DEF Ready
    <2>3. ASSUME NEW p \in Pipelines, Active(p)
          PROVE  OnDisk(row[p])
      <3>1. row[p] \in Held(p)
        BY <2>3, InitInv, HeldRows DEF Active
      <3> QED
        BY <2>1, <3>1 DEF RemoteInv, OnDisk
    <2> QED
      BY <2>1, <2>2, <2>3 DEF DiskInv, GoneInv
  <1>2. /\ WatcherInv /\ FlowInv /\ PathInv /\ RemoteInv /\ DiskInv /\ GoneInv /\ [Next]_vars
             => RemoteInv' /\ DiskInv' /\ GoneInv'
    BY RemoteNext, DiskNext, GoneNext DEF PathInv
  <1>3. WatcherInv /\ FlowInv /\ PathInv /\ DiskInv /\ GoneInv => ListedAreFound
    <2> SUFFICES ASSUME WatcherInv, FlowInv, PathInv, DiskInv, GoneInv, Quiet, LockFree,
                        NEW p \in Pipelines, NEW c \in ListedCommits(p)
                 PROVE  /\ None \notin GetCommitMetadata(p, [hash |-> c])
                        /\ None \notin GetCommitMetadataForPipelineMaterial(p, c)
      BY DEF ListedAreFound
    <2>1. HandlersOK /\ TablesOK /\ LockOK /\ LabelsOK /\ GitOK /\ LogOK /\ NoSaves
      BY DEF WatcherInv, TypeOK, FlowInv, PathInv
    <2>2. \A h \in Handlers : ~AtWork(job[h])
      <3>1. \A h \in Handlers : stage[h] # "in"
        BY <2>1 DEF LockFree, Mutex!Free, LockOK
      <3> QED
        BY <2>1, <3>1 DEF HandlersOK, LockedAsCalled, NoSaves, AtWork
    <2>3. Active(p) /\ ~row[p].errored /\ row[p].hist # <<>>
      <3>1. \/ FetchChanges(p, TRUE).commits = <<>>
            \/ Active(p) /\ ~row[p].errored /\ row[p].hist # <<>>
        BY DEF FetchChanges, FetchGitCommitsForBranchFixPipeline, Failed
      <3>2. DOMAIN <<>> = {}
        BY EmptySeq
      <3> QED
        BY <3>1, <3>2 DEF ListedCommits
    <2>4. row[p] \in Row /\ row[p].hist \in Seq(Commits) /\ row[p].value \in Branches
      BY <2>3, HeldRows DEF Active, Row
    <2>5. PICK i \in DOMAIN row[p].hist : row[p].hist[i] = c
      <3>1. FetchChanges(p, TRUE).commits = FilterCommits(row[p].hist, TRUE)
        BY <2>3 DEF FetchChanges, FetchGitCommitsForBranchFixPipeline
      <3>2. ListedCommits(p) = CommitsOf(FilterCommits(row[p].hist, TRUE))
        BY <3>1 DEF ListedCommits, CommitsOf
      <3> PICK hist \in Seq(Commits) : hist = row[p].hist
        BY <2>4
      <3>3. c \in {hist[i] : i \in {i \in DOMAIN hist : Shows(hist[i], TRUE)}}
        BY <3>2, FilteredCommits
      <3> QED
        BY <3>3
    <2>6. c # None
      <3>1. c \in Commits
        BY <2>4, <2>5, ElementOfSeq, LenProperties
      <3> QED
        BY <3>1 DEF Commits, None
    <2>7. InLog(c, refs[row[p].value])
      <3>1. \A h \in Handlers : ~Rereads(h, p)
        BY <2>2 DEF Rereads, AtWork
      <3>2. OnDisk(row[p])
        BY <2>3, <3>1 DEF DiskInv
      <3> QED
        BY <2>3, <2>5, <3>2 DEF OnDisk, Within
    <2>8. Shown(c) = {c}
      BY <2>4, <2>7 DEF Shown
    <2>9. ~IteratorFails(row[p].value, 0)
      <3>1. refs[row[p].value] # 0
        <4>1. log[0] = <<>> /\ DOMAIN <<>> = {}
          BY <2>1, EmptySeq DEF LogOK
        <4> QED
          BY <2>7, <4>1 DEF InLog
      <3> QED
        BY <3>1 DEF IteratorFails
    <2>0. checkedOut
      BY <2>2, <2>3 DEF GoneInv, Gone, Rereads, Restores, AtWork
    <2>10. None \notin GetCommitMetadata(p, [hash |-> c])
      <3>1. "branch" \notin DOMAIN [hash |-> c] /\ [hash |-> c].hash = c
        OBVIOUS
      <3> QED
        BY <2>0, <2>3, <2>6, <2>8, <3>1 DEF GetCommitMetadata
    <2>11. None \notin GetCommitMetadataForPipelineMaterial(p, c)
      BY <2>0, <2>3, <2>6, <2>7, <2>8, <2>9 DEF GetCommitMetadataForPipelineMaterial
    <2> QED
      BY <2>10, <2>11
  <1> QED
    BY <1>1, <1>2, <1>3, FlowInvariant, PathInvariant, PTL DEF SafeSpec

=============================================================================
