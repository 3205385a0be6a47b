-------------------------- MODULE ReleaseDiffProofs --------------------------
(***************************************************************************)
(* computeDiff returns exactly the changes of a release, in every history: *)
(* an invariant of its loop says that the parents of what is processed are *)
(* processed, on the stack or known to the old commit, and one of its      *)
(* walks that a walk has left nothing out between its start and where it   *)
(* is. The cli's variant is compared with it at the end.                   *)
(***************************************************************************)
EXTENDS ReleaseDiff, TLAPS

\* What is processed is a change, and nothing is left out that is not on the stack.
LoopInv ==
    /\ processed \subseteq Changes
    /\ stack \subseteq Ancestors(new)
    /\ pc # "start" => new \in processed
    /\ \A c \in processed : parents[c] \subseteq processed \cup stack \cup Ancestors(old)
    /\ pc = "done" => stack = {}

Seen == diff \cup {src}

\* What the walk has seen is new, and everything before its start is seen or before
\* the commit it is at.
WalkInv ==
    pc = "walk" =>
        /\ at \in Seen
        /\ Seen \subseteq Ancestors(src)
        /\ Seen \cap Ancestors(old) = {}
        /\ Ancestors(src) \subseteq Seen \cup Ancestors(at)
        /\ \A c \in Seen \ {at} : parents[c] \subseteq Seen

DiffInv == TypeOK /\ Acyclic /\ LoopInv /\ WalkInv

-----------------------------------------------------------------------------
(* Facts about histories. *)

LEMMA AncestorsBasic ==
    ASSUME NEW c \in Commit
    PROVE  c \in Ancestors(c) /\ Ancestors(c) \subseteq Commit
  BY DEF Ancestors

\* Ancestors(c) is the smallest closed set with c.
LEMMA AncestorsSmallest ==
    ASSUME NEW c \in Commit, NEW S \in SUBSET Commit, c \in S, Closed(S)
    PROVE  Ancestors(c) \subseteq S
  BY DEF Ancestors

LEMMA AncestorsClosed ==
    ASSUME TypeOK, NEW c \in Commit
    PROVE  Closed(Ancestors(c))
<1>1. SUFFICES ASSUME NEW a \in Ancestors(c), NEW b \in parents[a]
               PROVE  b \in Ancestors(c)
  BY DEF Closed
<1>2. a \in Commit /\ b \in Commit
  BY DEF Ancestors, TypeOK
<1>3. ASSUME NEW S \in SUBSET Commit, c \in S, Closed(S)
      PROVE  b \in S
  <2>1. a \in S
    BY <1>3 DEF Ancestors
  <2>2. QED
    BY <2>1, <1>3 DEF Closed
<1>4. QED
  BY <1>2, <1>3 DEF Ancestors

LEMMA AncestorsTransitive ==
    ASSUME TypeOK, NEW c \in Commit, NEW a \in Ancestors(c)
    PROVE  Ancestors(a) \subseteq Ancestors(c)
  BY AncestorsClosed, AncestorsSmallest, AncestorsBasic

\* The history of a commit is the commit and its parents' history.
LEMMA AncestorsOfParent ==
    ASSUME TypeOK, NEW c \in Commit, NEW p \in Commit, parents[c] = {p}
    PROVE  Ancestors(c) \subseteq {c} \cup Ancestors(p)
<1>1. Closed({c} \cup Ancestors(p))
  BY AncestorsClosed, AncestorsBasic DEF Closed
<1>2. QED
  BY <1>1, AncestorsSmallest, AncestorsBasic

\* A common ancestor that is not behind another is a merge base.
LEMMA KnownIsOld ==
    ASSUME TypeOK, Acyclic, NEW c \in Commit, c \in Ancestors(old)
    PROVE  c \in MergeBase(c, old)
  BY AncestorsBasic DEF TypeOK, Acyclic, MergeBase

\* The operators of histories depend on the parents only.
LEMMA HistoryUnchanged ==
    ASSUME UNCHANGED arguments
    PROVE  /\ \A c \in Commit : Ancestors(c)' = Ancestors(c)
           /\ Changes' = Changes /\ Acyclic' = Acyclic
  BY DEF arguments, Ancestors, Closed, Changes, Acyclic

-----------------------------------------------------------------------------
(* The invariant. *)

LEMMA InitOK == Init => DiffInv
<1>1. SUFFICES ASSUME Init PROVE DiffInv
  OBVIOUS
<1>2. TypeOK /\ Acyclic
  BY <1>1, HistoriesAssumption DEF Init, TypeOK
<1>3. LoopInv /\ WalkInv
  BY <1>1 DEF Init, LoopInv, WalkInv
<1>4. QED
  BY <1>2, <1>3 DEF DiffInv

LEMMA StartStep ==
    ASSUME DiffInv, Start
    PROVE  LoopInv'
<1>1. new \in Commit /\ old \in Commit /\ new \in Ancestors(new) /\ old \in Ancestors(old)
  BY AncestorsBasic DEF DiffInv, TypeOK
<1>2. parents[new] \subseteq Ancestors(new)
  BY <1>1, AncestorsClosed DEF DiffInv, Closed
<1>3. /\ Ancestors(new)' = Ancestors(new) /\ Ancestors(old)' = Ancestors(old)
      /\ Changes' = Changes
  BY <1>1, HistoryUnchanged DEF Start, arguments
<1>4. processed' = {new} /\ stack' = parents[new] \ {old} /\ pc' = "loop"
      /\ parents' = parents /\ old' = old /\ new' = new
  BY DEF Start, arguments
<1>5. processed' \subseteq Changes'
  BY <1>3, <1>4 DEF Changes
<1>6. QED
  BY <1>1, <1>2, <1>3, <1>4, <1>5 DEF LoopInv

\* What is known needs no walk: it is processed, or the old commit has it.
LEMMA DiscardStep ==
    ASSUME DiffInv, Discard
    PROVE  LoopInv'
<1>1. PICK c \in stack : Known(c) /\ stack' = stack \ {c}
  BY DEF Discard, Popped
<1>2. old \in Commit /\ new \in Commit /\ old \in Ancestors(old)
  BY AncestorsBasic DEF DiffInv, TypeOK
<1>3. c \in processed \cup Ancestors(old)
  BY <1>1, <1>2 DEF Known, MergeBase
<1>4. /\ Ancestors(new)' = Ancestors(new) /\ Ancestors(old)' = Ancestors(old)
      /\ Changes' = Changes
  BY <1>2, HistoryUnchanged DEF Discard, arguments
<1>5. processed' = processed /\ pc = "loop" /\ pc' = "loop"
      /\ parents' = parents /\ old' = old /\ new' = new
  BY DEF Discard, arguments
<1>6. QED
  BY <1>1, <1>3, <1>4, <1>5 DEF LoopInv, DiffInv

LEMMA StartWalkStep ==
    ASSUME DiffInv, StartWalk
    PROVE  WalkInv'
<1>1. PICK c \in stack : ~Known(c) /\ src' = c /\ at' = c
  BY DEF StartWalk
<1>2. diff' = {} /\ parents' = parents /\ old' = old /\ c \in Commit /\ old \in Commit
  BY <1>1 DEF StartWalk, arguments, DiffInv, TypeOK
<1>3. c \notin Ancestors(old)
  BY <1>1, <1>2, KnownIsOld DEF Known, DiffInv
<1>4. Ancestors(c)' = Ancestors(c) /\ Ancestors(old)' = Ancestors(old)
  BY <1>2, HistoryUnchanged DEF StartWalk
<1>5. Ancestors(src)' = Ancestors(c) /\ Ancestors(at)' = Ancestors(c)
  BY <1>1, <1>2 DEF Ancestors, Closed
<1>6. c \in Ancestors(c)
  BY <1>2, AncestorsBasic
<1>7. Seen' = {c}
  BY <1>1, <1>2 DEF Seen
<1>8. QED
  BY <1>1, <1>3, <1>4, <1>5, <1>6, <1>7 DEF WalkInv

\* A parent that the old commit has is a merge base: all that is before the walk's
\* start and not before the parent was seen, and the old commit has none of it.
LEMMA WalkIntoOld ==
    ASSUME DiffInv, pc = "walk", NEW p \in Commit, parents[at] = {p}, p \in Ancestors(old)
    PROVE  p \in MergeBase(src, old)
<1>1. src \in Commit /\ at \in Commit /\ old \in Commit /\ TypeOK /\ Acyclic
  BY DEF DiffInv, TypeOK
<1>2. Ancestors(src) \subseteq Seen \cup Ancestors(p)
  BY <1>1, AncestorsOfParent DEF DiffInv, WalkInv
<1>3. p \in Ancestors(src)
  <2>1. at \in Ancestors(src)
    BY DEF DiffInv, WalkInv
  <2>2. QED
    BY <1>1, <2>1, AncestorsClosed DEF Closed
<1>4. ASSUME NEW d \in Ancestors(src) \cap Ancestors(old), p \in Ancestors(d)
      PROVE  p = d
  <2>1. d \in Ancestors(p)
    BY <1>2, <1>4 DEF DiffInv, WalkInv
  <2>2. QED
    BY <1>1, <1>4, <2>1, AncestorsBasic DEF Acyclic
<1>5. QED
  BY <1>3, <1>4 DEF MergeBase

LEMMA WalkStep ==
    ASSUME DiffInv, Walk
    PROVE  WalkInv'
<1>1. PICK p \in parents[at] :
          parents[at] = {p} /\ p \notin MergeBase(src, old) /\ at' = p /\ diff' = diff \cup {p}
  BY DEF Walk
<1>2. /\ src \in Commit /\ at \in Commit /\ old \in Commit /\ p \in Commit
      /\ TypeOK /\ Acyclic /\ pc = "walk"
  BY <1>1 DEF DiffInv, TypeOK, Walk
<1>3. parents' = parents /\ old' = old /\ src' = src
  BY DEF Walk, arguments
<1>4. /\ Ancestors(src)' = Ancestors(src) /\ Ancestors(old)' = Ancestors(old)
      /\ Ancestors(at)' = Ancestors(p)
  BY <1>1, <1>3 DEF Ancestors, Closed
<1>5. p \notin Ancestors(old)
  BY <1>1, <1>2, WalkIntoOld
<1>6. Ancestors(src) \subseteq Seen \cup Ancestors(p)
  BY <1>1, <1>2, AncestorsOfParent DEF DiffInv, WalkInv
<1>7. p \in Ancestors(src)
  BY <1>1, <1>2, AncestorsClosed DEF Closed, DiffInv, WalkInv
<1>8. Seen' = Seen \cup {p}
  BY <1>1, <1>3 DEF Seen
<1>9. \A c \in Seen' \ {p} : parents[c] \subseteq Seen'
  BY <1>1, <1>2, <1>8 DEF DiffInv, WalkInv
<1>10. QED
  BY <1>1, <1>2, <1>3, <1>4, <1>5, <1>6, <1>7, <1>8, <1>9 DEF DiffInv, WalkInv

\* A walk may end where the parents that it leaves are on the stack or the old
\* commit's.
LEMMA FoundStep ==
    ASSUME DiffInv, pc = "walk", UNCHANGED arguments, pc' = "loop",
           NEW ps \in SUBSET parents[at], Found(ps),
           parents[at] \subseteq ps \cup Ancestors(old)
    PROVE  LoopInv'
<1>1. /\ src \in Commit /\ at \in Commit /\ old \in Commit /\ new \in Commit
      /\ TypeOK /\ src \in stack
  BY DEF DiffInv, TypeOK
<1>2. processed' = processed \cup Seen /\ stack' = (stack \ {src}) \cup (ps \ stack)
  BY DEF Found, Popped, Seen
<1>3. /\ parents' = parents /\ old' = old /\ new' = new
      /\ Ancestors(new)' = Ancestors(new) /\ Ancestors(old)' = Ancestors(old)
      /\ Changes' = Changes
  BY <1>1, HistoryUnchanged DEF arguments
<1>4. Seen \subseteq Ancestors(new)
  <2>1. Ancestors(src) \subseteq Ancestors(new)
    BY <1>1, AncestorsTransitive DEF DiffInv, LoopInv
  <2>2. QED
    BY <2>1 DEF DiffInv, WalkInv
<1>5. processed' \subseteq Changes'
  BY <1>2, <1>3, <1>4 DEF Changes, DiffInv, LoopInv, WalkInv
<1>6. stack' \subseteq Ancestors(new)'
  <2>1. at \in Ancestors(new)
    BY <1>4 DEF DiffInv, WalkInv
  <2>2. ps \subseteq Ancestors(new)
    BY <1>1, <2>1, AncestorsClosed DEF Closed
  <2>3. QED
    BY <1>2, <1>3, <2>2 DEF DiffInv, LoopInv
<1>7. ASSUME NEW c \in processed'
      PROVE  parents'[c] \subseteq processed' \cup stack' \cup Ancestors(old)'
  <2>1. stack \cup ps \subseteq processed' \cup stack'
    BY <1>2 DEF Seen
  <2>2. CASE c \in processed
    BY <1>2, <1>3, <2>1, <2>2 DEF DiffInv, LoopInv
  <2>3. CASE c = at
    BY <1>3, <2>1, <2>3
  <2>4. CASE c \in Seen \ {at}
    BY <1>2, <1>3, <2>4 DEF DiffInv, WalkInv
  <2>5. QED
    BY <1>2, <2>2, <2>3, <2>4
<1>8. QED
  BY <1>2, <1>3, <1>5, <1>6, <1>7 DEF DiffInv, LoopInv

LEMMA TypeStep ==
    ASSUME DiffInv, Next
    PROVE  TypeOK' /\ Acyclic'
<1> USE DEF DiffInv, TypeOK
<1>1. UNCHANGED arguments
  BY DEF Next, Start, Discard, StartWalk, Walk, Arrive, Branch, Return
<1>2. Acyclic'
  BY <1>1, HistoryUnchanged
<1>3. Start => TypeOK'
  BY DEF Start, arguments, walk
<1>4. Discard => TypeOK'
  BY DEF Discard, Popped, arguments, walk
<1>5. StartWalk => TypeOK'
  BY DEF StartWalk, arguments
<1>6. Walk => TypeOK'
  BY DEF Walk, arguments
<1>7. Arrive => TypeOK'
  BY DEF Arrive, Found, Popped, arguments, walk
<1>8. Branch => TypeOK'
  BY DEF Branch, Found, Popped, arguments, walk
<1>9. Return => TypeOK'
  BY DEF Return, arguments, walk
<1>10. QED
  BY <1>2, <1>3, <1>4, <1>5, <1>6, <1>7, <1>8, <1>9 DEF Next

LEMMA NextStep == DiffInv /\ [Next]_vars => DiffInv'
<1>1. SUFFICES ASSUME DiffInv, [Next]_vars PROVE DiffInv'
  OBVIOUS
<1>2. CASE UNCHANGED vars
  <2>1. parents' = parents /\ old' = old /\ new' = new /\ processed' = processed
        /\ stack' = stack /\ pc' = pc /\ src' = src /\ at' = at /\ diff' = diff
    BY <1>2 DEF vars, arguments, walk
  <2>2. TypeOK' /\ Acyclic'
    BY <1>1, <2>1 DEF DiffInv, TypeOK, Acyclic, Ancestors, Closed
  <2>3. LoopInv' /\ WalkInv'
    BY <1>1, <2>1 DEF DiffInv, LoopInv, WalkInv, Changes, Seen, Ancestors, Closed
  <2>4. QED
    BY <2>2, <2>3 DEF DiffInv
<1>3. CASE Next
  <2>1. TypeOK' /\ Acyclic'
    BY <1>1, <1>3, TypeStep
  <2>2. CASE Start
    BY <1>1, <2>1, <2>2, StartStep DEF Start, DiffInv, WalkInv
  <2>3. CASE Discard
    BY <1>1, <2>1, <2>3, DiscardStep DEF Discard, DiffInv, WalkInv
  <2>4. CASE StartWalk
    <3>1. LoopInv'
      BY <1>1, <2>4 DEF StartWalk, arguments, DiffInv, LoopInv, Changes, Ancestors, Closed
    <3>2. QED
      BY <1>1, <2>1, <2>4, <3>1, StartWalkStep DEF DiffInv
  <2>5. CASE Walk
    <3>1. LoopInv'
      BY <1>1, <2>5 DEF Walk, arguments, DiffInv, LoopInv, Changes, Ancestors, Closed
    <3>2. QED
      BY <1>1, <2>1, <2>5, <3>1, WalkStep DEF DiffInv
  <2>6. CASE Arrive
    <3>1. parents[at] \subseteq Ancestors(old)
      BY <2>6 DEF Arrive, MergeBase
    <3>2. LoopInv'
      BY <1>1, <2>6, <3>1, FoundStep DEF Arrive
    <3>3. QED
      BY <2>1, <2>6, <3>2 DEF Arrive, DiffInv, WalkInv
  <2>7. CASE Branch
    <3>1. LoopInv'
      BY <1>1, <2>7, FoundStep DEF Branch
    <3>2. QED
      BY <2>1, <2>7, <3>1 DEF Branch, DiffInv, WalkInv
  <2>8. CASE Return
    <3>1. LoopInv'
      BY <1>1, <2>8 DEF Return, arguments, DiffInv, LoopInv, Changes, Ancestors, Closed
    <3>2. QED
      BY <2>1, <2>8, <3>1 DEF Return, DiffInv, WalkInv
  <2>9. QED
    BY <1>3, <2>2, <2>3, <2>4, <2>5, <2>6, <2>7, <2>8 DEF Next
<1>4. QED
  BY <1>1, <1>2, <1>3

\* The invariant of computeDiff's loop and of its walks, in every acyclic history.
THEOREM DiffInvariant == SafeSpec => []DiffInv
<1>1. Init => DiffInv
  BY InitOK
<1>2. DiffInv /\ [Next]_vars => DiffInv'
  BY NextStep
<1>3. QED
  BY <1>1, <1>2, PTL DEF SafeSpec

\* The state of computeDiff is well formed.
THEOREM TypeCorrect == SafeSpec => []TypeOK
<1>1. DiffInv => TypeOK
  BY DEF DiffInv
<1>2. QED
  BY <1>1, DiffInvariant, PTL

\* When nothing is on the stack, what is processed and the old commit's history have
\* all parents: the new commit's whole history is in them.
LEMMA EmptyStack == DiffInv => ChangesExact
<1>1. SUFFICES ASSUME DiffInv, pc = "done" PROVE processed = Changes
  BY DEF ChangesExact
<1>2. old \in Commit /\ new \in Commit /\ processed \subseteq Commit /\ TypeOK
  BY <1>1 DEF DiffInv, TypeOK
<1>3. processed \cup Ancestors(old) \in SUBSET Commit
  BY <1>2, AncestorsBasic
<1>4. Closed(processed \cup Ancestors(old))
  <2>1. \A c \in processed : parents[c] \subseteq processed \cup Ancestors(old)
    BY <1>1 DEF DiffInv, LoopInv
  <2>2. \A c \in Ancestors(old) : parents[c] \subseteq Ancestors(old)
    BY <1>2, AncestorsClosed DEF Closed
  <2>3. QED
    BY <2>1, <2>2 DEF Closed
<1>5. new \in processed
  BY <1>1 DEF DiffInv, LoopInv
<1>6. Ancestors(new) \subseteq processed \cup Ancestors(old)
  BY <1>2, <1>3, <1>4, <1>5, AncestorsSmallest
<1>7. processed \subseteq Changes
  BY <1>1 DEF DiffInv, LoopInv
<1>8. QED
  BY <1>5, <1>6, <1>7 DEF Changes

\* computeDiff returns exactly the changes of the release, in every history.
THEOREM ChangesExactAlways == SafeSpec => []ChangesExact
<1>1. QED
  BY EmptyStack, DiffInvariant, PTL

\* A commit that is its own only parent has no other history.
LEMMA OwnParent ==
    ASSUME NEW c \in Commit, parents[c] = {c}
    PROVE  Ancestors(c) = {c}
<1>1. Closed({c})
  BY DEF Closed
<1>2. QED
  BY <1>1, AncestorsSmallest, AncestorsBasic

\* git log old...new^, for an old commit before new^, is what the old commit has not
\* of the history of new^: the new commit's history without the new commit.
LEMMA LogIsChanges ==
    ASSUME TypeOK, Acyclic, NEW p \in Commit, parents[new] = {p}, old \in Ancestors(p)
    PROVE  LogMergeBase(old, new) = Changes \ {new}
<1>1. new \in Commit /\ old \in Commit
  BY DEF TypeOK
<1>2. LogMergeBase(old, new) = Ancestors(p) \ Ancestors(old)
  <2>1. (CHOOSE q \in parents[new] : TRUE) = p
    OBVIOUS
  <2>2. Ancestors(old) \subseteq Ancestors(p)
    BY AncestorsTransitive
  <2>3. LogMergeBase(old, new) = (Ancestors(old) \ Ancestors(p)) \cup (Ancestors(p) \ Ancestors(old))
    BY <2>1 DEF LogMergeBase
  <2>4. QED
    BY <2>2, <2>3
<1>3. p \in Ancestors(new)
  BY <1>1, AncestorsClosed, AncestorsBasic DEF Closed
<1>4. Ancestors(p) \subseteq Ancestors(new) /\ Ancestors(new) \subseteq {new} \cup Ancestors(p)
  BY <1>1, <1>3, AncestorsTransitive, AncestorsOfParent
<1>5. new \notin Ancestors(p) \ Ancestors(old)
  <2>1. CASE p = new
    <3>1. Ancestors(p) = {new}
      BY <1>1, <2>1, OwnParent
    <3>2. QED
      BY <1>1, <3>1, AncestorsBasic
  <2>2. CASE p # new
    BY <1>1, <1>3, <2>2 DEF Acyclic
  <2>3. QED
    BY <2>1, <2>2
<1>6. QED
  BY <1>2, <1>4, <1>5 DEF Changes

\* For every release that ends in a commit with one parent and starts before it, the
\* two variants list the same commits but for the new one (RepositoryManagerAnalytics.go:54,
\* GitBaseManager.go:152), in every history.
THEOREM CliAgreesAlways == SafeSpec => []CliAgrees
<1>1. ASSUME DiffInv
      PROVE  CliAgrees
  <2>1. TypeOK /\ Acyclic /\ ChangesExact
    BY <1>1, EmptyStack DEF DiffInv
  <2>2. QED
    BY <2>1, LogIsChanges DEF CliAgrees, ChangesExact
<1>2. QED
  BY <1>1, DiffInvariant, PTL

=============================================================================
