-------------------------- MODULE PipelineQueries --------------------------
(***************************************************************************)
(* What the API answers about the branches of GitWatcher: the changes of a *)
(* pipeline, its head, and the metadata of a commit.  The queries change   *)
(* nothing; those that read the repository hold the material's lock, the   *)
(* others read the tables at any moment.  There are no tags.               *)
(***************************************************************************)
EXTENDS GitWatcher, PathRules

CONSTANTS
    Rules,             \* FilterPattern of the material, a sequence of filters
    Files,             \* the paths each commit changes
    EnableFileStats    \* Configuration.EnableFileStats

\* "No commit", which is what a query answers that finds none or fails.
None == 0

\* git diff of a commit and its parent, for the file statistics: the cli fails
\* at the first commit.
Comparable(c) == ~UseGitCli \/ c # 1

\* GetCommitStats.
FileStats(c) == Changed(Files[c], EnableFileStats, Comparable(c))

\* The commits that PathMatcher excludes.
ExcludedBy(rules) == {c \in Commits : PathMatcher(rules, FileStats(c))}

ASSUME QueriesAssumption ==
    /\ EnableFileStats \in BOOLEAN
    /\ DOMAIN Files = Commits
    /\ Rules \in Seq(Filter(UNION {Rules[i].matches : i \in DOMAIN Rules}))
    /\ Excluded = ExcludedBy(Rules)

-----------------------------------------------------------------------------
(* Queries of the tables. *)

\* The answer of FetchChanges: the commits with their flag "excluded", or why
\* there are none.
Failed(why) == [error |-> why, commits |-> <<>>]

Listed(c) == [commit |-> c, excluded |-> c \in ExcludedBy(Rules)]

\* The loop over the commits of a row.
FilterCommits(hist, showAll) ==
    LET Shows(l) == showAll \/ Rules = <<>> \/ ~l.excluded
        Answer[i \in 0..Len(hist)] ==      \* after i commits
          IF i = 0 THEN <<>>
          ELSE IF Shows(Listed(hist[i])) THEN Append(Answer[i - 1], Listed(hist[i]))
          ELSE Answer[i - 1]
    IN Answer[Len(hist)]

\* FetchChanges of a pipeline of type BRANCH_FIXED.  An empty commit_history
\* is no JSON.
FetchGitCommitsForBranchFixPipeline(r, showAll) ==
    IF r.errored THEN Failed(IF checkedOut THEN "branch" ELSE "repo")
    ELSE IF r.hist = <<>> THEN Failed("history")
    ELSE [error |-> "none", commits |-> FilterCommits(r.hist, showAll)]

\* Broken variants of FetchChanges: it lists the history of an errored row, and
\* all commits whatever showAll says.
FetchChangesAnyway(p, showAll) ==
    IF ~Active(p) THEN Failed("no row")
    ELSE [error |-> "none", commits |-> [i \in DOMAIN row[p].hist |-> Listed(row[p].hist[i])]]

FetchChangesAll(p, showAll) ==
    IF ~Active(p) THEN Failed("no row") ELSE FetchGitCommitsForBranchFixPipeline(row[p], TRUE)

FetchChanges(p, showAll) ==
    IF ~Active(p) THEN Failed("no row") ELSE FetchGitCommitsForBranchFixPipeline(row[p], showAll)

\* materialTOMaterialBeanConverter.
Bean(p) == [id |-> p, value |-> row[p].value, commit |-> row[p].last]

\* GetHeadForPipelineMaterials: those of the active rows, without the others.
GetHeadForPipelineMaterials(ids) == {Bean(p) : p \in {p \in ids : Active(p)}}

-----------------------------------------------------------------------------
(* Queries of the repository, with the material's lock. *)

\* Nobody is between Lock and Unlock: a query may be.
LockFree == Mutex!Free(Material)

\* What git shows of a hash: it has the commits its refs lead to, and perhaps
\* others it once had.
Shown(c) == IF \E b \in Branches : InLog(c, refs[b]) THEN {c} ELSE {c, None}

\* The answer of GetLatestCommitForBranch, ChangesSinceByRepository(.., 1).
LatestCommit(b) == IF IteratorFails(b, 0) THEN None ELSE AtMost(1, Iterated(b, 0))[1]

\* GetCommitMetadata of a request with a branch, which GitWatcher's LatestFetch
\* begins with, or with a hash; of a material that is not checked out there is none.
GetCommitMetadata(p, request) ==
    IF ~Active(p) \/ ~checkedOut THEN {None}
    ELSE IF "branch" \in DOMAIN request THEN {LatestCommit(request.branch)}
    ELSE Shown(request.hash)

\* GetCommitMetadataForPipelineMaterial: go-git looks for the commit on the
\* pipeline's branch, the cli runs "git log <hash> -n 1" and asks for no branch.
GetCommitMetadataForPipelineMaterial(p, c) ==
    IF ~Active(p) \/ ~checkedOut THEN {None}
    ELSE IF UseGitCli THEN Shown(c)
    ELSE IF IteratorFails(row[p].value, 0) THEN {None}
    ELSE {IF InLog(c, refs[row[p].value]) THEN c ELSE None}

-----------------------------------------------------------------------------
(* Properties. *)

\* No query of the database fails, no process dies, and nobody pushes by force.
Quiet == forced = 0 /\ crashes = 0 /\ happened \subseteq {"fetch"}

ListedCommits(p) ==
    LET commits == FetchChanges(p, TRUE).commits IN {commits[i].commit : i \in DOMAIN commits}

\* A commit that FetchChanges lists is found when its metadata is asked for next
\* (RepoManages.go:620, 711), although the lists and the checkout status are in two
\* tables, written one after the other, and the commits in a directory that
\* checkouts wipe and failing fetches leave empty.
ListedAreFound ==
    Quiet /\ LockFree => \A p \in Pipelines : \A c \in ListedCommits(p) :
        /\ None \notin GetCommitMetadata(p, [hash |-> c])
        /\ None \notin GetCommitMetadataForPipelineMaterial(p, c)

\* GetLatestCommitForBranch, which answers from the repository, and
\* GetHeadForPipelineMaterials, which answers from the rows, agree when the
\* first one returns, if nothing failed.
HeadsAgree ==
    Quiet /\ happened = {} => \A h \in Handlers :
        job[h].op = "latest" /\ job[h].at = "done" =>
            \A m \in GetHeadForPipelineMaterials(Pipelines) :
                GetCommitMetadata(m.id, [branch |-> m.value]) = {m.commit}

\* What the message bus is told of and what FetchChanges lists without showAll
\* are the commits that the last matching rule includes, in both places.
RulesHold ==
    \A p \in Pipelines :
        LET answer == FetchChanges(p, FALSE)
            concerned(c) == ~LastMatchDecides(Rules, FileStats(c))
        IN /\ \A c \in Commits : pubs[p][c] > 0 => concerned(c)
           /\ {answer.commits[i].commit : i \in DOMAIN answer.commits} =
                 {c \in ListedCommits(p) : concerned(c)}

=============================================================================
