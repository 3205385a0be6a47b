----------------------------- MODULE ReleaseDiff -----------------------------
(***************************************************************************)
(* The commits of a release: those that the new commit has and the old one *)
(* has not.  computeDiff is the variant for go-git: it walks back from the *)
(* new commit along commits with one parent, up to a merge base with the   *)
(* old commit or to a commit with more parents, which it puts on a stack.  *)
(* LogMergeBase is the variant for the git cli.                            *)
(*                                                                         *)
(* The stack is a set here: any of its elements may be treated next.       *)
(***************************************************************************)
EXTENDS Naturals, FiniteSets

CONSTANTS
    Commit,     \* commits
    Histories   \* bound: what the commits' parents may be

ASSUME HistoriesAssumption == Histories \subseteq [Commit -> SUBSET Commit]

VARIABLES
    parents,    \* the repository
    old, new,   \* the arguments
    processed,  \* commits found
    stack,      \* commits to look at
    pc,         \* where computeDiff is
    src,        \* commit that the present walk starts from
    at,         \* commit that the walk is at
    diff        \* commits of the walk

arguments == <<parents, old, new>>
walk == <<src, at, diff>>
vars == <<arguments, processed, stack, pc, walk>>

-----------------------------------------------------------------------------
(* Histories. *)

\* With a commit, its parents are in S.
Closed(S) == \A c \in S : parents[c] \subseteq S

\* c and everything before it.
Ancestors(c) == {a \in Commit : \A S \in SUBSET Commit : c \in S /\ Closed(S) => a \in S}

\* No commit is before itself.
Acyclic == \A a, b \in Commit : a \in Ancestors(b) /\ b \in Ancestors(a) => a = b

\* MergeBase of go-git: the common ancestors that are before no other one.
MergeBase(a, b) ==
    LET common == Ancestors(a) \cap Ancestors(b)
    IN {c \in common : \A d \in common : c \in Ancestors(d) => c = d}

-----------------------------------------------------------------------------
Init ==
    /\ parents \in Histories /\ Acyclic
    /\ old \in Commit /\ new \in Commit
    /\ processed = {} /\ stack = {}
    /\ pc = "start"
    /\ src = new /\ at = new /\ diff = {}

\* The parents of the new commit come first.
Start ==
    /\ pc = "start"
    /\ stack' = parents[new] \ {old}
    /\ processed' = {new}
    /\ pc' = "loop"
    /\ UNCHANGED <<arguments, walk>>

\* Broken variant of Known: without the merge base.
KnownButBase(c) == c \in processed \/ c = old

\* c was treated before, or the old commit has it.
Known(c) == c \in processed \/ c = old \/ c \in MergeBase(c, old)

\* Broken variant of Popped: c stays on the stack.
NotPopped(c) == stack

Popped(c) == stack \ {c}

Discard ==
    /\ pc = "loop"
    /\ \E c \in stack : Known(c) /\ stack' = Popped(c)
    /\ UNCHANGED <<arguments, processed, pc, walk>>

\* Broken variant of StartWalk: the commit is taken from the stack before.
StartWalkPopped ==
    /\ pc = "loop"
    /\ \E c \in stack : ~Known(c) /\ src' = c /\ at' = c /\ stack' = Popped(c)
    /\ diff' = {}
    /\ pc' = "walk"
    /\ UNCHANGED <<arguments, processed>>

\* Call of getDiffTillBranchingOrDest.
StartWalk ==
    /\ pc = "loop"
    /\ \E c \in stack : ~Known(c) /\ src' = c /\ at' = c
    /\ diff' = {}
    /\ pc' = "walk"
    /\ UNCHANGED <<arguments, processed, stack>>

\* The walk goes on to the only parent.
Walk ==
    /\ pc = "walk"
    /\ \E p \in parents[at] :
          /\ parents[at] = {p} /\ p \notin MergeBase(src, old)
          /\ at' = p /\ diff' = diff \cup {p}
    /\ UNCHANGED <<arguments, processed, stack, pc, src>>

\* What follows a walk: the parents of a merge that are not on the stack.
Found(ps) == processed' = processed \cup diff \cup {src} /\ stack' = Popped(src) \cup (ps \ stack)

\* The walk has come to what the old commit has.
Arrive ==
    /\ pc = "walk"
    /\ \E p \in parents[at] : parents[at] = {p} /\ p \in MergeBase(src, old)
    /\ Found({})
    /\ pc' = "loop"
    /\ UNCHANGED <<arguments, walk>>

\* The walk has come to a merge or to a first commit.
Branch ==
    /\ pc = "walk"
    /\ \A p \in parents[at] : parents[at] # {p}
    /\ Found(parents[at])
    /\ pc' = "loop"
    /\ UNCHANGED <<arguments, walk>>

Return ==
    /\ pc = "loop" /\ stack = {}
    /\ pc' = "done"
    /\ UNCHANGED <<arguments, processed, stack, walk>>

Next == Start \/ Discard \/ StartWalk \/ Walk \/ Arrive \/ Branch \/ Return

\* computeDiff runs alone and goes on.
Fairness == WF_vars(Next)

SafeSpec == Init /\ [][Next]_vars
Spec == SafeSpec /\ Fairness

-----------------------------------------------------------------------------
(* The variant for the git cli. *)

\* Broken variant of LogMergeBase: git log old...new.
LogMergeBaseTo(o, n) ==
    (Ancestors(o) \ Ancestors(n)) \cup (Ancestors(n) \ Ancestors(o))

\* git log old...new^: what one of the two commits has.  Used for an n with one
\* parent; new^ of a merge is its first parent.
LogMergeBase(o, n) ==
    LET p == CHOOSE q \in parents[n] : TRUE
    IN (Ancestors(o) \ Ancestors(p)) \cup (Ancestors(p) \ Ancestors(o))

-----------------------------------------------------------------------------
(* Properties. *)

\* Commits are commits, and the walk starts at a commit of the stack.
TypeOK ==
    /\ parents \in [Commit -> SUBSET Commit]
    /\ old \in Commit /\ new \in Commit
    /\ processed \subseteq Commit /\ stack \subseteq Commit
    /\ pc \in {"start", "loop", "walk", "done"}
    /\ src \in Commit /\ at \in Commit /\ diff \subseteq Commit
    /\ pc = "walk" => src \in stack

\* The changes of a release.
Changes == {new} \cup (Ancestors(new) \ Ancestors(old))

\* computeDiff returns the new commit and all that is in its history and not in
\* the old commit's, whatever merges there are (RepositoryManagerAnalytics.go:54).
ChangesExact == pc = "done" => processed = Changes

\* The two variants agree but for the new commit itself, if that is no merge and
\* comes after the old one.
CliAgrees ==
    pc = "done" => \A p \in Commit :
        parents[new] = {p} /\ old \in Ancestors(p) => LogMergeBase(old, new) = processed \ {new}

\* computeDiff ends, although it may come to a commit from many sides.
Terminates == <>(pc = "done")

=============================================================================
