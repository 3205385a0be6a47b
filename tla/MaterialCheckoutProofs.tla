----------------------- MODULE MaterialCheckoutProofs -----------------------
(***************************************************************************)
(* Proofs about MaterialCheckout: the state is well formed and the lock is *)
(* held where the handlers think it is (TypeCorrect), a deletion at rest   *)
(* is final (DeletionsFinal), CheckoutStatus tells the truth while nobody  *)
(* edits the material (StatusesTrue), and one client beside cron leaves no *)
(* directory behind (OrphansNone).                                         *)
(***************************************************************************)
EXTENDS MaterialCheckout, TLAPS

-----------------------------------------------------------------------------
(* What a handler remembers. *)

Labels == {"idle", "open", "checkout", "change", "clean", "reread", "stamp",
           "init", "fetch", "write", "return"}

Job == [op: OpKinds \cup {"none"}, at: Labels, mat: Row \cup {None}]

\* All handlers but h keep what they remember.
OthersStay(h) == \A g \in Handlers \ {h} : job'[g] = job[g]

\* All handlers but h keep their place at the lock.
OthersWait(h) == \A g \in Handlers \ {h} : stage'[g] = stage[g] /\ on'[g] = on[g]

LEMMA Becomes ==
    ASSUME job \in [Handlers -> Job], NEW h \in Handlers, NEW j \in Job, Become(h, j)
    PROVE  job' \in [Handlers -> Job] /\ job'[h] = j /\ OthersStay(h)
  BY DEF Become, OthersStay

LEMMA GoesTo ==
    ASSUME job \in [Handlers -> Job], NEW h \in Handlers, NEW l \in Labels, Goto(h, l)
    PROVE  /\ job' \in [Handlers -> Job] /\ OthersStay(h)
           /\ job'[h].op = job[h].op /\ job'[h].at = l /\ job'[h].mat = job[h].mat
  <1> DEFINE j == [job[h] EXCEPT !.at = l]
  <1>1. j \in Job /\ j.op = job[h].op /\ j.at = l /\ j.mat = job[h].mat
    BY DEF Job
  <1>2. Become(h, j)
    BY DEF Goto
  <1> HIDE DEF j
  <1> QED
    BY <1>1, <1>2, Becomes

LEMMA Takes ==
    ASSUME job \in [Handlers -> Job], NEW h \in Handlers, NEW l \in Labels,
           NEW m \in Row \cup {None},
           Become(h, [job[h] EXCEPT !.at = l, !.mat = m])
    PROVE  /\ job' \in [Handlers -> Job] /\ OthersStay(h)
           /\ job'[h].op = job[h].op /\ job'[h].at = l /\ job'[h].mat = m
  <1> DEFINE j == [job[h] EXCEPT !.at = l, !.mat = m]
  <1>1. j \in Job /\ j.op = job[h].op /\ j.at = l /\ j.mat = m
    BY DEF Job
  <1> HIDE DEF j
  <1> QED
    BY <1>1, Becomes DEF j

LEMMA Begins ==
    ASSUME job \in [Handlers -> Job], NEW h \in Handlers, NEW l \in Labels,
           NEW o \in OpKinds, NEW m \in Row \cup {None},
           Become(h, [op |-> o, at |-> l, mat |-> m])
    PROVE  /\ job' \in [Handlers -> Job] /\ OthersStay(h)
           /\ job'[h].op = o /\ job'[h].at = l /\ job'[h].mat = m
  <1> DEFINE j == [op |-> o, at |-> l, mat |-> m]
  <1>1. j \in Job /\ j.op = o /\ j.at = l /\ j.mat = m
    BY DEF Job
  <1> HIDE DEF j
  <1> QED
    BY <1>1, Becomes DEF j

LEMMA Ends ==
    ASSUME job \in [Handlers -> Job], NEW h \in Handlers, Become(h, Idle)
    PROVE  /\ job' \in [Handlers -> Job] /\ OthersStay(h) /\ job'[h] = Idle
  <1>1. Idle \in Job
    BY DEF Idle, Job, Labels
  <1> QED
    BY <1>1, Becomes

-----------------------------------------------------------------------------
(* The inductive invariant.                                                  *)

\* A handler that may write the row, or fetch for it, has one at hand.
HasRow(h) ==
    \/ job[h].at \in {"checkout", "change", "clean", "reread", "stamp", "init", "fetch", "write"}
    \/ job[h].at = "open" /\ job[h].op = "latest"

\* Where a handler is, whether it has asked for the lock, and whether it has a
\* row at hand.
Labelled(h) ==
    /\ stage[h] = "out" <=> job[h].at \in {"idle", "change", "stamp"}
    /\ stage[h] # "out" => on[h] = {Material}
    /\ job[h].at \in {"init", "fetch", "write", "reread", "return"} => stage[h] = "in"
    /\ job[h].at = "idle" => job[h] = Idle
    /\ job[h].at = "open" => job[h].op \in {"poll", "latest"}
    /\ job[h].at \in {"checkout", "init", "fetch"} => job[h].op \in {"add", "reset", "update"}
    /\ job[h].at \in {"change", "clean", "reread"} => job[h].op = "update"
    /\ job[h].at = "stamp" => job[h].op = "webhook"
    /\ job[h].at = "write" => job[h].op \in {"poll", "latest", "add", "reset", "update"}
    /\ HasRow(h) => job[h].mat \in Row

Types ==
    /\ row \in Row \cup {None}
    /\ dir \in [Urls -> Repo \cup {None}]
    /\ job \in [Handlers -> Job]
    /\ stage \in [Handlers -> {"out", "waiting", "in"}]
    /\ on \in [Handlers -> SUBSET {Material}]
    /\ happened \subseteq Faults /\ crashes \in 0..MaxCrashes

\* One handler at a time has the lock.
OneIn == \A g, h \in Handlers : stage[g] = "in" /\ stage[h] = "in" => g = h

\* git fetch runs in the repository that git init made.
Initialised == \A h \in Handlers : job[h].at = "fetch" => dir[job[h].mat.url] # None

CheckoutInv == Types /\ OneIn /\ Initialised /\ \A h \in Handlers : Labelled(h)

LEMMA InvType == CheckoutInv => TypeOK
  <1> SUFFICES ASSUME CheckoutInv PROVE TypeOK
    OBVIOUS
  <1>1. \A h \in Handlers : JobOK(h)
    <2> SUFFICES ASSUME NEW h \in Handlers PROVE JobOK(h)
      OBVIOUS
    <2>1. job[h] \in Job /\ Labelled(h)
      BY DEF CheckoutInv, Types
    <2> QED
      BY <2>1 DEF JobOK, Job, Labels, Labelled
  <1> QED
    BY <1>1 DEF CheckoutInv, Types, TypeOK

\* What the handlers but h are like stays true when only h moves.
LEMMA OneMoves ==
    ASSUME CheckoutInv, NEW h \in Handlers, OthersStay(h), OthersWait(h), Labelled(h)'
    PROVE  \A g \in Handlers : Labelled(g)'
  <1> SUFFICES ASSUME NEW g \in Handlers \ {h} PROVE Labelled(g)'
    OBVIOUS
  <1>1. job'[g] = job[g] /\ stage'[g] = stage[g] /\ on'[g] = on[g] /\ Labelled(g)
    BY DEF OthersStay, OthersWait, CheckoutInv
  <1> QED
    BY <1>1 DEF Labelled, HasRow

-----------------------------------------------------------------------------
(* What the steps do. *)

LEMMA Requests ==
    ASSUME Types, NEW h \in Handlers, Mutex!Request(h, Material)
    PROVE  /\ stage[h] = "out"
           /\ stage' = [stage EXCEPT ![h] = "waiting"] /\ stage'[h] = "waiting"
           /\ on' \in [Handlers -> SUBSET {Material}] /\ on'[h] = {Material}
           /\ OthersWait(h)
  BY DEF Types, Mutex!Request, OthersWait

LEMMA Stays ==
    ASSUME UNCHANGED <<stage, on>>, NEW h \in Handlers
    PROVE  OthersWait(h)
  BY DEF OthersWait

\* A handler that stays in the lock.
LEMMA InLock ==
    ASSUME CheckoutInv, NEW h \in Handlers, NEW l, Holds(h, l)
    PROVE  /\ stage[h] = "in" /\ job[h].at = l
           /\ \A g \in Handlers \ {h} : stage[g] # "in" /\ job[g].at \notin {"init", "fetch", "write", "reread", "return"}
  BY DEF CheckoutInv, OneIn, Labelled, Holds

\* The calls that read the row and ask for the lock.
LEMMA CallEffect ==
    ASSUME CheckoutInv, NEW h \in Handlers, NEW op \in OpKinds, NEW m \in Row \cup {None},
           NEW l \in Labels, CallWith(h, op, m, l)
    PROVE  /\ op \in Ops /\ (h = Cron => op = "poll")
           /\ job[h].at = "idle" /\ job' \in [Handlers -> Job]
           /\ job'[h].op = op /\ job'[h].at = l /\ job'[h].mat = m
           /\ stage' = [stage EXCEPT ![h] = "waiting"] /\ stage'[h] = "waiting"
           /\ on' \in [Handlers -> SUBSET {Material}] /\ on'[h] = {Material}
           /\ OthersStay(h) /\ OthersWait(h)
  <1>1. Mutex!Request(h, Material) /\ Become(h, [op |-> op, at |-> l, mat |-> m])
    BY DEF CallWith
  <1>2. Types
    BY DEF CheckoutInv
  <1>3. /\ job' \in [Handlers -> Job] /\ OthersStay(h)
        /\ job'[h].op = op /\ job'[h].at = l /\ job'[h].mat = m
    BY <1>1, <1>2, Begins DEF Types
  <1>4. op \in Ops /\ (h = Cron => op = "poll") /\ job[h].at = "idle"
    BY DEF CallWith
  <1> QED
    BY <1>1, <1>2, <1>3, <1>4, Requests

\* A new row is a row.
LEMMA NewRows ==
    ASSUME NEW u \in Urls
    PROVE  /\ NewRow(u) \in Row /\ NewRow(u) # None
           /\ NewRow(u).url = u /\ ~NewRow(u).deleted /\ NewRow(u).loc = None
           /\ ~NewRow(u).checkedOut
  <1>1. NewRow(u) \in Row
    BY CheckoutAssumption DEF NewRow, Row
  <1> QED
    BY <1>1, NoneAssumption DEF NewRow

\* UpdateRepo and the webhook handler read the row without asking for the lock.
LEMMA UpdateCallEffect ==
    ASSUME CheckoutInv, NEW h \in Handlers, UpdateCall(h)
    PROVE  /\ job[h].at = "idle" /\ h # Cron /\ Live /\ "update" \in Ops
           /\ job' \in [Handlers -> Job] /\ OthersStay(h)
           /\ job'[h].op = "update" /\ job'[h].at = "change" /\ job'[h].mat \in Row
           /\ job'[h].mat.loc = row.loc /\ ~job'[h].mat.checkedOut
           /\ UNCHANGED <<stage, on, row, dir, faults>>
  <1>1. row \in Row
    BY DEF CheckoutInv, Types, UpdateCall, Live, Found
  <1>2. PICK u \in Urls, d \in BOOLEAN :
           Become(h, [op |-> "update", at |-> "change",
                      mat |-> [row EXCEPT !.url = u, !.deleted = d, !.checkedOut = FALSE]])
    BY DEF UpdateCall
  <1> DEFINE m == [row EXCEPT !.url = u, !.deleted = d, !.checkedOut = FALSE]
  <1>3. m \in Row /\ m.loc = row.loc /\ ~m.checkedOut
    BY <1>1 DEF Row
  <1>4. Become(h, [op |-> "update", at |-> "change", mat |-> m])
    BY <1>2
  <1> HIDE DEF m
  <1>5. /\ job' \in [Handlers -> Job] /\ OthersStay(h)
        /\ job'[h].op = "update" /\ job'[h].at = "change" /\ job'[h].mat = m
    BY <1>3, <1>4, Begins DEF CheckoutInv, Types, OpKinds, Labels
  <1> QED
    BY <1>3, <1>5 DEF UpdateCall

LEMMA WebhookReadEffect ==
    ASSUME CheckoutInv, NEW h \in Handlers, WebhookRead(h)
    PROVE  /\ job[h].at = "idle" /\ h # Cron /\ Live /\ row \in Row /\ "webhook" \in Ops
           /\ job' \in [Handlers -> Job] /\ OthersStay(h)
           /\ job'[h].op = "webhook" /\ job'[h].at = "stamp" /\ job'[h].mat = row
           /\ UNCHANGED <<stage, on, row, dir, faults>>
  <1>1. row \in Row
    BY DEF CheckoutInv, Types, WebhookRead, Live, Found
  <1>2. Become(h, [op |-> "webhook", at |-> "stamp", mat |-> row])
    BY DEF WebhookRead
  <1>3. /\ job' \in [Handlers -> Job] /\ OthersStay(h)
        /\ job'[h].op = "webhook" /\ job'[h].at = "stamp" /\ job'[h].mat = row
    BY <1>1, <1>2, Begins DEF CheckoutInv, Types, OpKinds, Labels
  <1> QED
    BY <1>1, <1>3 DEF WebhookRead

\* UpdateRepo's first write: it asks for the lock only then.
LEMMA UpdateChangeEffect ==
    ASSUME CheckoutInv, NEW h \in Handlers, UpdateChange(h)
    PROVE  /\ job[h].at = "change" /\ job[h].op = "update" /\ job[h].mat \in Row
           /\ job' \in [Handlers -> Job] /\ OthersStay(h) /\ OthersWait(h)
           /\ UNCHANGED <<dir, crashes>>
           /\ \/ /\ row' = job[h].mat /\ UNCHANGED happened
                 /\ stage' = [stage EXCEPT ![h] = "waiting"] /\ stage'[h] = "waiting"
                 /\ on' \in [Handlers -> SUBSET {Material}] /\ on'[h] = {Material}
                 /\ job'[h].op = "update" /\ job'[h].at = "clean" /\ job'[h].mat = job[h].mat
              \/ /\ Fault("db") /\ job'[h] = Idle
                 /\ UNCHANGED <<stage, on, row>>
  <1>1. job[h].at = "change" /\ job[h].op = "update" /\ job[h].mat \in Row
    BY DEF UpdateChange, CheckoutInv, Labelled, HasRow
  <1>2. Types
    BY DEF CheckoutInv
  <1>3. CASE /\ row' = job[h].mat
             /\ Mutex!Request(h, Material)
             /\ Goto(h, "clean")
             /\ UNCHANGED happened
    <2>1. /\ job' \in [Handlers -> Job] /\ OthersStay(h)
          /\ job'[h].op = "update" /\ job'[h].at = "clean" /\ job'[h].mat = job[h].mat
      BY <1>1, <1>2, <1>3, GoesTo DEF Types, Labels
    <2> QED
      BY <1>1, <1>2, <1>3, <2>1, Requests DEF UpdateChange
  <1>4. CASE Fault("db") /\ Become(h, Idle) /\ UNCHANGED <<stage, on, row>>
    <2>1. job' \in [Handlers -> Job] /\ OthersStay(h) /\ job'[h] = Idle
      BY <1>2, <1>4, Ends DEF Types
    <2> QED
      BY <1>1, <1>4, <2>1, Stays DEF UpdateChange
  <1> QED
    BY <1>3, <1>4 DEF UpdateChange

LEMMA WebhookWriteEffect ==
    ASSUME CheckoutInv, NEW h \in Handlers, WebhookWrite(h)
    PROVE  /\ job[h].at = "stamp" /\ job[h].op = "webhook" /\ job[h].mat \in Row
           /\ job' \in [Handlers -> Job] /\ OthersStay(h) /\ job'[h] = Idle
           /\ row' = job[h].mat
           /\ UNCHANGED <<stage, on, dir, faults>>
  <1>1. job' \in [Handlers -> Job] /\ OthersStay(h) /\ job'[h] = Idle
    BY Ends DEF CheckoutInv, Types, WebhookWrite
  <1>2. job[h].at = "stamp" /\ job[h].op = "webhook" /\ job[h].mat \in Row
    BY DEF WebhookWrite, CheckoutInv, Labelled, HasRow
  <1> QED
    BY <1>1, <1>2 DEF WebhookWrite

-----------------------------------------------------------------------------
(* The steps of the handler that has the lock.                               *)

\* What the handler remembers and where it goes from l, the others and the
\* lock staying as they are.
Goes(h, l) ==
    /\ stage[h] = "in" /\ job[h].at = l
    /\ job' \in [Handlers -> Job] /\ OthersStay(h)
    /\ job'[h].op = job[h].op
    /\ UNCHANGED <<stage, on, crashes>>

\* The handler gives up without writing the row.
GivesUp(h) == job'[h].at = "return" /\ job'[h].mat = job[h].mat

\* What a poll keeps of the row it read.
Polled(m) == m \in Row /\ m.url = row.url /\ m.loc = row.loc /\ m.deleted = row.deleted

LEMMA PollFetchEffect ==
    ASSUME CheckoutInv, NEW h \in Handlers, PollFetch(h)
    PROVE  /\ Goes(h, "open") /\ job[h].op = "poll" /\ UNCHANGED row
           /\ \/ GivesUp(h) /\ UNCHANGED <<dir>>
                 /\ (happened' = happened \/ Fault("db"))
              \/ /\ Live /\ row \in Row /\ job'[h].at = "write" /\ Polled(job'[h].mat)
                 /\ \/ FetchSucceeds(row) /\ job'[h].mat.checkedOut
                    \/ /\ FetchFails(row) \/ (Fault("provider") /\ UNCHANGED dir)
                       /\ job'[h].mat.checkedOut = row.checkedOut
  <1> DEFINE good == [row EXCEPT !.checkedOut = TRUE, !.fetched = TRUE, !.errors = 0]
             bad  == [row EXCEPT !.fetched = FALSE,
                                 !.errors = IF @ = MaxErrors THEN @ ELSE @ + 1]
  <1>0. Types /\ "return" \in Labels /\ "write" \in Labels
    BY DEF CheckoutInv, Labels
  <1>1. /\ stage[h] = "in" /\ job[h].at = "open" /\ job[h].op = "poll"
        /\ UNCHANGED <<stage, on, row, crashes>>
    BY DEF PollFetch, Holds
  <1>2. ASSUME Live
        PROVE  /\ row \in Row
               /\ Polled(good) /\ good.checkedOut
               /\ Polled(bad) /\ bad.checkedOut = row.checkedOut
    <2>1. row \in Row
      BY <1>0, <1>2 DEF Types, Live, Found
    <2>2. MaxErrors \in Nat \ {0}
      BY CheckoutAssumption
    <2> DEFINE more == IF row.errors = MaxErrors THEN row.errors ELSE row.errors + 1
    <2>3. 0 \in 0..MaxErrors /\ more \in 0..MaxErrors
      BY <2>1, <2>2 DEF Row
    <2>4. bad = [row EXCEPT !.fetched = FALSE, !.errors = more]
      BY <2>1 DEF Row
    <2> HIDE DEF more
    <2>5. Polled(good) /\ good.checkedOut
      BY <2>1, <2>3 DEF Polled, Row
    <2>6. Polled(bad) /\ bad.checkedOut = row.checkedOut
      BY <2>1, <2>3, <2>4 DEF Polled, Row
    <2> QED
      BY <2>1, <2>5, <2>6
  <1>3. \/ Goto(h, "return") /\ UNCHANGED dir /\ (happened' = happened \/ Fault("db"))
        \/ /\ Live /\ FetchSucceeds(row)
           /\ Become(h, [job[h] EXCEPT !.at = "write", !.mat = good])
        \/ /\ FetchFails(row) \/ (Fault("provider") /\ UNCHANGED dir)
           /\ Live
           /\ Become(h, [job[h] EXCEPT !.at = "write", !.mat = bad])
    BY DEF PollFetch
  <1> HIDE DEF good, bad
  <1>4. CASE Goto(h, "return") /\ UNCHANGED dir /\ (happened' = happened \/ Fault("db"))
    <2>1. /\ job' \in [Handlers -> Job] /\ OthersStay(h) /\ job'[h].op = job[h].op
          /\ GivesUp(h)
      BY <1>0, <1>4, GoesTo DEF Types, GivesUp
    <2> QED
      BY <1>1, <1>4, <2>1 DEF Goes
  <1>5. ASSUME NEW m \in Row, Become(h, [job[h] EXCEPT !.at = "write", !.mat = m])
        PROVE  Goes(h, "open") /\ job'[h].at = "write" /\ job'[h].mat = m
    <2>1. /\ job' \in [Handlers -> Job] /\ OthersStay(h)
          /\ job'[h].op = job[h].op /\ job'[h].at = "write" /\ job'[h].mat = m
      BY <1>0, <1>5, Takes DEF Types
    <2> QED
      BY <1>1, <2>1 DEF Goes
  <1>6. CASE /\ Live /\ FetchSucceeds(row)
             /\ Become(h, [job[h] EXCEPT !.at = "write", !.mat = good])
    BY <1>1, <1>2, <1>5, <1>6 DEF Polled
  <1>7. CASE /\ FetchFails(row) \/ (Fault("provider") /\ UNCHANGED dir)
             /\ Live
             /\ Become(h, [job[h] EXCEPT !.at = "write", !.mat = bad])
    BY <1>1, <1>2, <1>5, <1>7 DEF Polled
  <1> QED
    BY <1>3, <1>4, <1>6, <1>7

LEMMA LatestFetchEffect ==
    ASSUME CheckoutInv, NEW h \in Handlers, LatestFetch(h)
    PROVE  /\ Goes(h, "open") /\ job[h].op = "latest" /\ UNCHANGED row
           /\ job[h].mat \in Row
           /\ \/ /\ FetchSucceeds(job[h].mat) /\ job'[h].at = "write"
                 /\ job'[h].mat = [job[h].mat EXCEPT !.checkedOut = TRUE]
                 /\ job'[h].mat \in Row
              \/ GivesUp(h) /\ FetchFails(job[h].mat)
  <1> DEFINE m == [job[h].mat EXCEPT !.checkedOut = TRUE]
  <1>0. Types /\ "return" \in Labels /\ "write" \in Labels
    BY DEF CheckoutInv, Labels
  <1>1. /\ stage[h] = "in" /\ job[h].at = "open" /\ job[h].op = "latest"
        /\ UNCHANGED <<stage, on, row, crashes>> /\ job[h].mat \in Row
    BY DEF LatestFetch, Holds, CheckoutInv, Labelled, HasRow
  <1>2. m \in Row
    BY <1>1 DEF Row
  <1>3. \/ /\ FetchSucceeds(job[h].mat)
           /\ Become(h, [job[h] EXCEPT !.at = "write", !.mat = m])
        \/ FetchFails(job[h].mat) /\ Goto(h, "return")
    <2>1. job[h] \in Job
      BY <1>0 DEF Types
    <2>2. [job[h] EXCEPT !.at = "write", !.mat.checkedOut = TRUE] =
            [job[h] EXCEPT !.at = "write", !.mat = m]
      BY <2>1 DEF Job
    <2> QED
      BY <2>2 DEF LatestFetch
  <1>4. ASSUME Goto(h, "return")
        PROVE  Goes(h, "open") /\ GivesUp(h)
    BY <1>0, <1>1, <1>4, GoesTo DEF Types, Goes, GivesUp
  <1> HIDE DEF m
  <1>5. ASSUME Become(h, [job[h] EXCEPT !.at = "write", !.mat = m])
        PROVE  Goes(h, "open") /\ job'[h].at = "write" /\ job'[h].mat = m
    <2>1. /\ job' \in [Handlers -> Job] /\ OthersStay(h)
          /\ job'[h].op = job[h].op /\ job'[h].at = "write" /\ job'[h].mat = m
      BY <1>0, <1>2, <1>5, Takes DEF Types
    <2> QED
      BY <1>1, <2>1 DEF Goes
  <1>6. CASE FetchFails(job[h].mat) /\ Goto(h, "return")
    BY <1>1, <1>4, <1>6
  <1>7. CASE FetchSucceeds(job[h].mat) /\ Become(h, [job[h] EXCEPT !.at = "write", !.mat = m])
    BY <1>1, <1>2, <1>5, <1>7 DEF m
  <1> QED
    BY <1>3, <1>6, <1>7

LEMMA WriteEffect ==
    ASSUME CheckoutInv, NEW h \in Handlers, Write(h)
    PROVE  /\ Goes(h, "write") /\ GivesUp(h) /\ UNCHANGED dir
           /\ job[h].mat \in Row
           /\ \/ row' = job[h].mat /\ UNCHANGED happened
              \/ Fault("db") /\ UNCHANGED row
  <1>0. Types /\ "return" \in Labels
    BY DEF CheckoutInv, Labels
  <1>1. stage[h] = "in" /\ job[h].at = "write" /\ job[h].mat \in Row /\ Goto(h, "return")
    BY DEF Write, Holds, CheckoutInv, Labelled, HasRow
  <1>2. /\ job' \in [Handlers -> Job] /\ OthersStay(h) /\ job'[h].op = job[h].op
        /\ job'[h].at = "return" /\ job'[h].mat = job[h].mat
    BY <1>0, <1>1, GoesTo DEF Types
  <1> QED
    BY <1>1, <1>2 DEF Write, Goes, GivesUp

LEMMA UpdateCleanEffect ==
    ASSUME CheckoutInv, NEW h \in Handlers, UpdateClean(h)
    PROVE  /\ Goes(h, "clean") /\ job[h].op = "update" /\ job[h].mat \in Row
           /\ job'[h].mat = job[h].mat
           /\ job'[h].at = IF job[h].mat.deleted THEN "return" ELSE "reread"
           /\ dir' = [d \in Urls |-> IF d = job[h].mat.loc THEN None ELSE dir[d]]
           /\ UNCHANGED <<row, faults>>
  <1> DEFINE l == IF job[h].mat.deleted THEN "return" ELSE "reread"
  <1>0. Types /\ l \in Labels
    BY DEF CheckoutInv, Labels
  <1>1. /\ stage[h] = "in" /\ job[h].at = "clean" /\ job[h].op = "update" /\ job[h].mat \in Row
        /\ Goto(h, l)
    BY DEF UpdateClean, Holds, CheckoutInv, Labelled, HasRow
  <1> HIDE DEF l
  <1>2. /\ job' \in [Handlers -> Job] /\ OthersStay(h) /\ job'[h].op = job[h].op
        /\ job'[h].at = l /\ job'[h].mat = job[h].mat
    BY <1>0, <1>1, GoesTo DEF Types
  <1> QED
    BY <1>1, <1>2 DEF UpdateClean, Abandoned, Goes, faults, l

LEMMA UpdateRereadEffect ==
    ASSUME CheckoutInv, NEW h \in Handlers, UpdateReread(h)
    PROVE  /\ Goes(h, "reread") /\ job[h].op = "update" /\ UNCHANGED <<row, dir>>
           /\ \/ /\ Live /\ row \in Row /\ UNCHANGED happened
                 /\ job'[h].at = "checkout" /\ job'[h].mat = row
              \/ GivesUp(h) /\ ((~Live /\ UNCHANGED happened) \/ Fault("db"))
  <1>0. Types /\ "return" \in Labels /\ "checkout" \in Labels
    BY DEF CheckoutInv, Labels
  <1>1. /\ stage[h] = "in" /\ job[h].at = "reread" /\ job[h].op = "update"
        /\ UNCHANGED <<stage, on, row, dir, crashes>>
    BY DEF UpdateReread, Holds, CheckoutInv, Labelled
  <1>2. CASE /\ Live /\ UNCHANGED happened
             /\ Become(h, [job[h] EXCEPT !.at = "checkout", !.mat = row])
    <2>1. row \in Row
      BY <1>0, <1>2 DEF Types, Live, Found
    <2>2. /\ job' \in [Handlers -> Job] /\ OthersStay(h)
          /\ job'[h].op = job[h].op /\ job'[h].at = "checkout" /\ job'[h].mat = row
      BY <1>0, <1>2, <2>1, Takes DEF Types
    <2> QED
      BY <1>1, <1>2, <2>1, <2>2 DEF Goes
  <1>3. CASE Goto(h, "return") /\ ((~Live /\ UNCHANGED happened) \/ Fault("db"))
    <2>1. /\ job' \in [Handlers -> Job] /\ OthersStay(h) /\ job'[h].op = job[h].op
          /\ GivesUp(h)
      BY <1>0, <1>3, GoesTo DEF Types, GivesUp
    <2> QED
      BY <1>1, <1>3, <2>1 DEF Goes
  <1> QED
    BY <1>2, <1>3 DEF UpdateReread

LEMMA WipeEffect ==
    ASSUME CheckoutInv, NEW h \in Handlers, CheckoutWipe(h)
    PROVE  /\ Goes(h, "checkout") /\ job[h].op \in {"add", "reset", "update"}
           /\ job[h].mat \in Row /\ job'[h].mat = job[h].mat /\ UNCHANGED row
           /\ \/ /\ dir' = [dir EXCEPT ![job[h].mat.url] = None]
                 /\ job'[h].at = "init" /\ UNCHANGED happened
              \/ Fault("provider") /\ GivesUp(h) /\ UNCHANGED dir
  <1>0. Types /\ "return" \in Labels /\ "init" \in Labels
    BY DEF CheckoutInv, Labels
  <1>1. /\ stage[h] = "in" /\ job[h].at = "checkout" /\ job[h].op \in {"add", "reset", "update"}
        /\ job[h].mat \in Row /\ UNCHANGED <<stage, on, row, crashes>>
    BY DEF CheckoutWipe, Holds, CheckoutInv, Labelled, HasRow
  <1>2. ASSUME NEW l \in Labels, Goto(h, l)
        PROVE  Goes(h, "checkout") /\ job'[h].at = l /\ job'[h].mat = job[h].mat
    <2>1. /\ job' \in [Handlers -> Job] /\ OthersStay(h) /\ job'[h].op = job[h].op
          /\ job'[h].at = l /\ job'[h].mat = job[h].mat
      BY <1>0, <1>2, GoesTo DEF Types
    <2> QED
      BY <1>1, <2>1 DEF Goes
  <1>3. \/ /\ dir' = [dir EXCEPT ![job[h].mat.url] = None]
           /\ Goto(h, "init") /\ UNCHANGED happened
        \/ Fault("provider") /\ Goto(h, "return") /\ UNCHANGED dir
    BY DEF CheckoutWipe
  <1> QED
    BY <1>0, <1>1, <1>2, <1>3 DEF GivesUp

LEMMA NotCheckedOutRow ==
    ASSUME NEW m \in Row
    PROVE  /\ NotCheckedOut(m) \in Row /\ ~NotCheckedOut(m).checkedOut
           /\ NotCheckedOut(m).url = m.url /\ NotCheckedOut(m).loc = m.loc
           /\ NotCheckedOut(m).deleted = m.deleted
  BY DEF NotCheckedOut, Row

LEMMA CheckedOutRow ==
    ASSUME NEW m \in Row
    PROVE  /\ CheckedOut(m) \in Row /\ CheckedOut(m).checkedOut
           /\ CheckedOut(m).url = m.url /\ CheckedOut(m).loc = m.url
           /\ CheckedOut(m).deleted = m.deleted
  BY DEF CheckedOut, Row

LEMMA InitEffect ==
    ASSUME CheckoutInv, NEW h \in Handlers, CheckoutInit(h)
    PROVE  /\ Goes(h, "init") /\ job[h].op \in {"add", "reset", "update"}
           /\ job[h].mat \in Row /\ UNCHANGED row
           /\ \/ /\ dir' = [dir EXCEPT ![job[h].mat.url] =
                                [origin |-> job[h].mat.url, full |-> FALSE]]
                 /\ job'[h].at = "fetch" /\ job'[h].mat = job[h].mat /\ UNCHANGED happened
              \/ /\ Fault("disk") \/ Fault("fetch")
                 /\ job'[h].at = "write" /\ job'[h].mat = NotCheckedOut(job[h].mat)
                 /\ UNCHANGED dir
              \/ Fault("context") /\ GivesUp(h) /\ UNCHANGED dir
  <1>0. Types /\ "return" \in Labels /\ "fetch" \in Labels /\ "write" \in Labels
    BY DEF CheckoutInv, Labels
  <1>1. /\ stage[h] = "in" /\ job[h].at = "init" /\ job[h].op \in {"add", "reset", "update"}
        /\ job[h].mat \in Row /\ UNCHANGED <<stage, on, row, crashes>>
    BY DEF CheckoutInit, Holds, CheckoutInv, Labelled, HasRow
  <1>2. ASSUME NEW l \in Labels, Goto(h, l)
        PROVE  Goes(h, "init") /\ job'[h].at = l /\ job'[h].mat = job[h].mat
    <2>1. /\ job' \in [Handlers -> Job] /\ OthersStay(h) /\ job'[h].op = job[h].op
          /\ job'[h].at = l /\ job'[h].mat = job[h].mat
      BY <1>0, <1>2, GoesTo DEF Types
    <2> QED
      BY <1>1, <2>1 DEF Goes
  <1>3. ASSUME NEW m \in Row, Become(h, [job[h] EXCEPT !.at = "write", !.mat = m])
        PROVE  Goes(h, "init") /\ job'[h].at = "write" /\ job'[h].mat = m
    <2>1. /\ job' \in [Handlers -> Job] /\ OthersStay(h) /\ job'[h].op = job[h].op
          /\ job'[h].at = "write" /\ job'[h].mat = m
      BY <1>0, <1>3, Takes DEF Types
    <2> QED
      BY <1>1, <2>1 DEF Goes
  <1>4. \/ /\ dir' = [dir EXCEPT ![job[h].mat.url] = [origin |-> job[h].mat.url, full |-> FALSE]]
           /\ Goto(h, "fetch") /\ UNCHANGED happened
        \/ /\ Fault("disk") \/ Fault("fetch")
           /\ Become(h, [job[h] EXCEPT !.at = "write", !.mat = NotCheckedOut(job[h].mat)])
           /\ UNCHANGED dir
        \/ Fault("context") /\ Goto(h, "return") /\ UNCHANGED dir
    BY DEF CheckoutInit
  <1>5. NotCheckedOut(job[h].mat) \in Row
    BY <1>1, NotCheckedOutRow
  <1> QED
    BY <1>0, <1>1, <1>2, <1>3, <1>4, <1>5 DEF GivesUp

LEMMA CheckoutFetchEffect ==
    ASSUME CheckoutInv, NEW h \in Handlers, CheckoutFetch(h)
    PROVE  /\ Goes(h, "fetch") /\ job[h].op \in {"add", "reset", "update"}
           /\ job[h].mat \in Row /\ UNCHANGED row
           /\ \/ /\ dir' = [dir EXCEPT ![job[h].mat.url].full = TRUE]
                 /\ job'[h].at = "write" /\ job'[h].mat = CheckedOut(job[h].mat)
                 /\ UNCHANGED happened
              \/ /\ Fault("fetch")
                 /\ job'[h].at = "write" /\ job'[h].mat = NotCheckedOut(job[h].mat)
                 /\ UNCHANGED dir
              \/ /\ Fault("context") /\ GivesUp(h)
                 /\ dir' \in {dir, [dir EXCEPT ![job[h].mat.url].full = TRUE]}
  <1>0. Types /\ "return" \in Labels /\ "write" \in Labels
    BY DEF CheckoutInv, Labels
  <1>1. /\ stage[h] = "in" /\ job[h].at = "fetch" /\ job[h].op \in {"add", "reset", "update"}
        /\ job[h].mat \in Row /\ UNCHANGED <<stage, on, row, crashes>>
    BY DEF CheckoutFetch, Holds, CheckoutInv, Labelled, HasRow
  <1>2. ASSUME Goto(h, "return")
        PROVE  Goes(h, "fetch") /\ GivesUp(h)
    <2>1. /\ job' \in [Handlers -> Job] /\ OthersStay(h) /\ job'[h].op = job[h].op
          /\ job'[h].at = "return" /\ job'[h].mat = job[h].mat
      BY <1>0, <1>2, GoesTo DEF Types
    <2> QED
      BY <1>1, <2>1 DEF Goes, GivesUp
  <1>3. ASSUME NEW m \in Row, Become(h, [job[h] EXCEPT !.at = "write", !.mat = m])
        PROVE  Goes(h, "fetch") /\ job'[h].at = "write" /\ job'[h].mat = m
    <2>1. /\ job' \in [Handlers -> Job] /\ OthersStay(h) /\ job'[h].op = job[h].op
          /\ job'[h].at = "write" /\ job'[h].mat = m
      BY <1>0, <1>3, Takes DEF Types
    <2> QED
      BY <1>1, <2>1 DEF Goes
  <1>4. \/ /\ dir' = [dir EXCEPT ![job[h].mat.url].full = TRUE]
           /\ Become(h, [job[h] EXCEPT !.at = "write", !.mat = CheckedOut(job[h].mat)])
           /\ UNCHANGED happened
        \/ /\ Fault("fetch")
           /\ Become(h, [job[h] EXCEPT !.at = "write", !.mat = NotCheckedOut(job[h].mat)])
           /\ UNCHANGED dir
        \/ /\ Fault("context") /\ Goto(h, "return")
           /\ dir' \in {dir, [dir EXCEPT ![job[h].mat.url].full = TRUE]}
    BY DEF CheckoutFetch
  <1>5. NotCheckedOut(job[h].mat) \in Row /\ CheckedOut(job[h].mat) \in Row
    BY <1>1, NotCheckedOutRow, CheckedOutRow
  <1> QED
    BY <1>1, <1>2, <1>3, <1>4, <1>5

LEMMA ReturnEffect ==
    ASSUME CheckoutInv, NEW h \in Handlers, Return(h)
    PROVE  /\ stage[h] = "in" /\ job[h].at = "return"
           /\ job' \in [Handlers -> Job] /\ OthersStay(h) /\ job'[h] = Idle
           /\ stage' = [stage EXCEPT ![h] = "out"] /\ stage'[h] = "out"
           /\ on' \in [Handlers -> SUBSET {Material}] /\ OthersWait(h)
           /\ UNCHANGED <<row, dir, faults>>
  <1>1. job' \in [Handlers -> Job] /\ OthersStay(h) /\ job'[h] = Idle
    BY Ends DEF CheckoutInv, Types, Return
  <1>2. /\ stage' = [stage EXCEPT ![h] = "out"] /\ stage'[h] = "out"
        /\ on' \in [Handlers -> SUBSET {Material}] /\ OthersWait(h)
    BY DEF CheckoutInv, Types, Return, Mutex!Leave, OthersWait
  <1> QED
    BY <1>1, <1>2 DEF Return, Holds

LEMMA TakeLockEffect ==
    ASSUME CheckoutInv, NEW h \in Handlers, TakeLock(h)
    PROVE  /\ stage[h] = "waiting" /\ \A g \in Handlers : stage[g] # "in"
           /\ stage' = [stage EXCEPT ![h] = "in"] /\ stage'[h] = "in"
           /\ OthersWait(h) /\ on' = on
           /\ UNCHANGED <<row, dir, job, faults>>
  <1>1. stage[h] = "waiting" /\ on[h] = {Material}
    BY DEF CheckoutInv, Labelled, TakeLock, Mutex!Enter
  <1>2. \A g \in Handlers : stage[g] # "in"
    <2>1. Mutex!Free(Material)
      BY <1>1 DEF TakeLock, Mutex!Enter
    <2> QED
      BY <2>1 DEF Mutex!Free, CheckoutInv, Labelled
  <1> QED
    BY <1>1, <1>2 DEF TakeLock, Mutex!Enter, CheckoutInv, Types, OthersWait

-----------------------------------------------------------------------------
(* The directories stay well formed.                                         *)

\* What a fetch leaves in the directories.
LEMMA FetchDirs ==
    ASSUME Types, NEW m \in Row, FetchSucceeds(m) \/ FetchFails(m)
    PROVE  dir' \in [Urls -> Repo \cup {None}] /\ happened' \subseteq Faults
  <1>1. m.loc \in Urls \cup {None} /\ m.url \in Urls
    BY DEF Row
  <1>2. m.loc \in Urls => Opened(m.loc, m.url) \in [Urls -> Repo \cup {None}]
    BY <1>1 DEF Types, Opened, Repo
  <1>3. ASSUME FetchSucceeds(m)
        PROVE  dir' \in [Urls -> Repo \cup {None}] /\ happened' = happened
    <2>1. Opens(m.loc) /\ m.loc \in Urls
      BY <1>1, <1>3 DEF FetchSucceeds, Opens
    <2> DEFINE o == Opened(m.loc, m.url)
    <2>2. o[m.loc] \in Repo
      BY <1>1, <2>1 DEF Types, Opened, Repo
    <2>3. [o[m.loc] EXCEPT !.full = TRUE] \in Repo
      BY <2>2 DEF Repo
    <2>4. dir' = [o EXCEPT ![m.loc] = [o[m.loc] EXCEPT !.full = TRUE]]
      BY <1>3 DEF FetchSucceeds
    <2>5. o \in [Urls -> Repo \cup {None}]
      BY <1>2, <2>1
    <2> HIDE DEF o
    <2> QED
      BY <1>3, <2>3, <2>4, <2>5 DEF FetchSucceeds
  <1>4. ASSUME FetchFails(m)
        PROVE  dir' \in [Urls -> Repo \cup {None}] /\ happened' \subseteq Faults
    <2>1. dir' = dir \/ (m.loc \in Urls /\ dir' = Opened(m.loc, m.url))
      BY <1>1, <1>4 DEF FetchFails, Opens
    <2>2. happened' \subseteq Faults
      BY <1>4 DEF FetchFails, Fault, Types
    <2> QED
      BY <1>2, <2>1, <2>2 DEF Types
  <1> QED
    BY <1>3, <1>4 DEF Types

\* A repository of the url u is put at u, or the one there becomes full.
LEMMA SetDir ==
    ASSUME Types, NEW u \in Urls
    PROVE  /\ [dir EXCEPT ![u] = None] \in [Urls -> Repo \cup {None}]
           /\ [dir EXCEPT ![u] = [origin |-> u, full |-> FALSE]] \in [Urls -> Repo \cup {None}]
  BY DEF Types, Repo

-----------------------------------------------------------------------------
(* The invariant is inductive.                                               *)

LEMMA InvInit == Init => CheckoutInv
  <1> SUFFICES ASSUME Init PROVE CheckoutInv
    OBVIOUS
  <1>1. job \in [Handlers -> Job] /\ \A h \in Handlers : job[h] = Idle /\ Idle.at = "idle"
    BY DEF Init, Idle, Job, Labels
  <1>2. stage \in [Handlers -> {"out", "waiting", "in"}] /\ on \in [Handlers -> SUBSET {Material}]
        /\ \A h \in Handlers : stage[h] = "out"
    BY DEF Init, Mutex!Init
  <1>3. row \in Row \cup {None} /\ dir \in [Urls -> Repo \cup {None}]
    <2>1. PICK u \in Urls :
             \/ row = None /\ dir = [d \in Urls |-> None]
             \/ /\ row = [NewRow(u) EXCEPT !.loc = u, !.checkedOut = TRUE]
                /\ dir = [d \in Urls |-> IF d = u THEN [origin |-> u, full |-> TRUE] ELSE None]
      BY DEF Init
    <2>2. [NewRow(u) EXCEPT !.loc = u, !.checkedOut = TRUE] \in Row
      BY NewRows DEF Row
    <2>3. [d \in Urls |-> IF d = u THEN [origin |-> u, full |-> TRUE] ELSE None]
             \in [Urls -> Repo \cup {None}]
      BY DEF Repo
    <2> QED
      BY <2>1, <2>2, <2>3
  <1>4. Types
    BY <1>1, <1>2, <1>3, CheckoutAssumption DEF Init, Types
  <1>5. \A h \in Handlers : Labelled(h)
    BY <1>1, <1>2 DEF Labelled, HasRow
  <1>6. OneIn /\ Initialised
    BY <1>1, <1>2 DEF OneIn, Initialised
  <1> QED
    BY <1>4, <1>5, <1>6 DEF CheckoutInv

\* What has to be shown of a step of one handler.
LEMMA InvStep ==
    ASSUME CheckoutInv, NEW h \in Handlers, Types', OthersStay(h), OthersWait(h), Labelled(h)',
           stage'[h] = "in" => stage[h] = "in" \/ \A g \in Handlers : stage[g] # "in",
           job'[h].at = "fetch" => dir'[job'[h].mat.url] # None,
           dir' = dir \/ stage[h] = "in"
    PROVE  CheckoutInv'
  <1>1. \A g \in Handlers : Labelled(g)'
    BY OneMoves
  <1>2. OneIn'
    BY DEF CheckoutInv, OneIn, OthersWait
  <1>3. Initialised'
    <2> SUFFICES ASSUME NEW g \in Handlers, job'[g].at = "fetch"
                 PROVE  dir'[job'[g].mat.url] # None
      BY DEF Initialised
    <2>1. CASE g # h
      <3>1. job'[g] = job[g]
        BY <2>1 DEF OthersStay
      <3>2. stage[g] = "in" /\ dir[job[g].mat.url] # None
        BY <3>1 DEF CheckoutInv, Labelled, Initialised
      <3>3. dir' = dir
        BY <2>1, <3>2 DEF CheckoutInv, OneIn
      <3> QED
        BY <3>1, <3>2, <3>3
    <2> QED
      BY <2>1
  <1> QED
    BY <1>1, <1>2, <1>3 DEF CheckoutInv

\* A step of the handler that has the lock and keeps it.
LEMMA InvGoes ==
    ASSUME CheckoutInv, NEW h \in Handlers, NEW l, Goes(h, l),
           row' \in Row \cup {None}, dir' \in [Urls -> Repo \cup {None}], happened' \subseteq Faults,
           job'[h].at = "return" \/ job'[h].mat \in Row,
           \/ job'[h].at = "return"
           \/ job'[h].at = "write" /\ job[h].op \in {"poll", "latest", "add", "reset", "update"}
           \/ job'[h].at \in {"checkout", "init"} /\ job[h].op \in {"add", "reset", "update"}
           \/ job'[h].at = "reread" /\ job[h].op = "update"
           \/ /\ job'[h].at = "fetch" /\ job[h].op \in {"add", "reset", "update"}
              /\ dir'[job'[h].mat.url] # None
    PROVE  CheckoutInv'
  <1>1. Types'
    BY DEF Goes, CheckoutInv, Types
  <1>2. stage'[h] = "in" /\ on'[h] = {Material}
    BY DEF Goes, CheckoutInv, Labelled
  <1>3. job'[h].op = job[h].op
    BY DEF Goes
  <1>4. Labelled(h)'
    BY <1>2, <1>3 DEF Labelled, HasRow
  <1>5. OthersWait(h)
    BY Stays DEF Goes
  <1> QED
    BY <1>1, <1>2, <1>4, <1>5, InvStep DEF Goes

LEMMA InvFault ==
    ASSUME Types, NEW kind, Fault(kind)
    PROVE  happened' \subseteq Faults
  BY DEF Fault, Types

\* A handler that asks for the lock, or works without it.
LEMMA InvOutside ==
    ASSUME CheckoutInv, NEW h \in Handlers,
           Calls(h) \/ UpdateChange(h) \/ WebhookWrite(h)
    PROVE  CheckoutInv'
  <1>0. Types /\ Labelled(h)
    BY DEF CheckoutInv
  <1>1. ASSUME NEW op \in {"poll", "latest", "add", "reset"}, NEW m \in Row \cup {None},
               NEW l \in {"open", "checkout"}, CallWith(h, op, m, l),
               row' \in Row \cup {None}, UNCHANGED <<dir, faults>>,
               \/ op = "poll" /\ l = "open"
               \/ op = "latest" /\ l = "open" /\ m \in Row
               \/ op \in {"add", "reset"} /\ l = "checkout" /\ m \in Row
        PROVE  CheckoutInv'
    <2>1. op \in OpKinds /\ l \in Labels
      BY DEF OpKinds, Labels
    <2>2. /\ job' \in [Handlers -> Job]
          /\ job'[h].op = op /\ job'[h].at = l /\ job'[h].mat = m
          /\ stage' = [stage EXCEPT ![h] = "waiting"] /\ stage'[h] = "waiting"
          /\ on' \in [Handlers -> SUBSET {Material}] /\ on'[h] = {Material}
          /\ OthersStay(h) /\ OthersWait(h)
      BY <1>1, <2>1, CallEffect
    <2>3. Types'
      BY <1>0, <1>1, <2>2 DEF Types, faults
    <2>4. Labelled(h)'
      BY <1>1, <2>2 DEF Labelled, HasRow
    <2> QED
      BY <1>1, <2>2, <2>3, <2>4, InvStep
  <1>2. CASE PollCall(h)
    BY <1>0, <1>1, <1>2 DEF PollCall, Types
  <1>3. CASE ResetCall(h)
    BY <1>0, <1>1, <1>3 DEF ResetCall, Types, Live, Found
  <1>4. CASE LatestCall(h)
    BY <1>0, <1>1, <1>4 DEF LatestCall, Types, Live, Found
  <1>5. CASE AddCall(h)
    <2>1. row' \in Row
      BY <1>5, NewRows DEF AddCall
    <2> QED
      BY <1>1, <1>5, <2>1 DEF AddCall
  <1>6. CASE UpdateCall(h)
    <2>1. /\ job[h].at = "idle" /\ job' \in [Handlers -> Job] /\ OthersStay(h)
          /\ job'[h].op = "update" /\ job'[h].at = "change" /\ job'[h].mat \in Row
          /\ UNCHANGED <<stage, on, row, dir, faults>>
      BY <1>6, UpdateCallEffect
    <2>2. Types' /\ OthersWait(h)
      BY <1>0, <2>1, Stays DEF Types, faults
    <2>3. Labelled(h)' /\ stage[h] = "out"
      BY <1>0, <2>1 DEF Labelled, HasRow
    <2> QED
      BY <2>1, <2>2, <2>3, InvStep
  <1>7. CASE WebhookRead(h)
    <2>1. /\ job[h].at = "idle" /\ job' \in [Handlers -> Job] /\ OthersStay(h) /\ row \in Row
          /\ job'[h].op = "webhook" /\ job'[h].at = "stamp" /\ job'[h].mat = row
          /\ UNCHANGED <<stage, on, row, dir, faults>>
      BY <1>7, WebhookReadEffect
    <2>2. Types' /\ OthersWait(h)
      BY <1>0, <2>1, Stays DEF Types, faults
    <2>3. Labelled(h)' /\ stage[h] = "out"
      BY <1>0, <2>1 DEF Labelled, HasRow
    <2> QED
      BY <2>1, <2>2, <2>3, InvStep
  <1>8. CASE UpdateChange(h)
    <2>1. /\ job[h].at = "change" /\ job[h].op = "update" /\ job[h].mat \in Row
          /\ job' \in [Handlers -> Job] /\ OthersStay(h) /\ OthersWait(h)
          /\ UNCHANGED <<dir, crashes>>
          /\ \/ /\ row' = job[h].mat /\ UNCHANGED happened
                /\ stage' = [stage EXCEPT ![h] = "waiting"] /\ stage'[h] = "waiting"
                /\ on' \in [Handlers -> SUBSET {Material}] /\ on'[h] = {Material}
                /\ job'[h].op = "update" /\ job'[h].at = "clean" /\ job'[h].mat = job[h].mat
             \/ /\ Fault("db") /\ job'[h] = Idle
                /\ UNCHANGED <<stage, on, row>>
      BY <1>8, UpdateChangeEffect
    <2>2. happened' \subseteq Faults
      BY <1>0, <2>1, InvFault DEF Types
    <2>3. Types'
      BY <1>0, <2>1, <2>2 DEF Types
    <2>4. Idle.at = "idle" /\ stage[h] = "out"
      BY <1>0, <2>1 DEF Idle, Labelled
    <2>5. Labelled(h)'
      BY <1>0, <2>1, <2>4 DEF Labelled, HasRow
    <2>6. stage'[h] # "in" /\ job'[h].at # "fetch"
      BY <2>1, <2>4
    <2> QED
      BY <2>1, <2>3, <2>5, <2>6, InvStep
  <1>9. CASE WebhookWrite(h)
    <2>1. /\ job[h].at = "stamp" /\ job[h].mat \in Row
          /\ job' \in [Handlers -> Job] /\ OthersStay(h) /\ job'[h] = Idle
          /\ row' = job[h].mat /\ UNCHANGED <<stage, on, dir, faults>>
      BY <1>9, WebhookWriteEffect
    <2>2. Types' /\ OthersWait(h)
      BY <1>0, <2>1, Stays DEF Types, faults
    <2>3. Idle.at = "idle" /\ stage[h] = "out"
      BY <1>0, <2>1 DEF Idle, Labelled
    <2>4. Labelled(h)'
      BY <2>1, <2>3 DEF Labelled, HasRow
    <2> QED
      BY <2>1, <2>2, <2>3, <2>4, InvStep
  <1> QED
    BY <1>2, <1>3, <1>4, <1>5, <1>6, <1>7, <1>8, <1>9 DEF Calls

\* A handler that has the lock.
LEMMA InvInside ==
    ASSUME CheckoutInv, NEW h \in Handlers,
           \/ PollFetch(h) \/ LatestFetch(h) \/ Write(h)
           \/ UpdateClean(h) \/ UpdateReread(h)
           \/ CheckoutWipe(h) \/ CheckoutInit(h) \/ CheckoutFetch(h)
    PROVE  CheckoutInv'
  <1>0. Types
    BY DEF CheckoutInv
  <1>1. happened' \subseteq Faults
    BY <1>0, InvFault
    DEF Types, PollFetch, LatestFetch, Write, UpdateClean, UpdateReread, CheckoutWipe,
        CheckoutInit, CheckoutFetch, FetchSucceeds, FetchFails, faults
  <1>2. CASE PollFetch(h)
    <2>1. /\ Goes(h, "open") /\ job[h].op = "poll" /\ UNCHANGED row
          /\ \/ GivesUp(h) /\ UNCHANGED dir
             \/ /\ row \in Row /\ job'[h].at = "write" /\ job'[h].mat \in Row
                /\ \/ FetchSucceeds(row) \/ FetchFails(row)
                   \/ UNCHANGED dir
      BY <1>2, PollFetchEffect DEF Polled
    <2>2. dir' \in [Urls -> Repo \cup {None}]
      BY <1>0, <2>1, FetchDirs DEF Types
    <2> QED
      BY <1>0, <1>1, <2>1, <2>2, InvGoes DEF Types, GivesUp
  <1>3. CASE LatestFetch(h)
    <2>1. /\ Goes(h, "open") /\ job[h].op = "latest" /\ UNCHANGED row /\ job[h].mat \in Row
          /\ \/ /\ FetchSucceeds(job[h].mat) /\ job'[h].at = "write" /\ job'[h].mat \in Row
             \/ GivesUp(h) /\ FetchFails(job[h].mat)
      BY <1>3, LatestFetchEffect
    <2>2. dir' \in [Urls -> Repo \cup {None}]
      BY <1>0, <2>1, FetchDirs
    <2> QED
      BY <1>0, <1>1, <2>1, <2>2, InvGoes DEF Types, GivesUp
  <1>4. CASE Write(h)
    BY <1>0, <1>1, <1>4, WriteEffect, InvGoes DEF Types, GivesUp
  <1>5. CASE UpdateClean(h)
    <2>1. /\ Goes(h, "clean") /\ job[h].op = "update" /\ job[h].mat \in Row
          /\ job'[h].mat = job[h].mat /\ job'[h].at \in {"return", "reread"}
          /\ dir' = [d \in Urls |-> IF d = job[h].mat.loc THEN None ELSE dir[d]]
          /\ UNCHANGED row
      BY <1>5, UpdateCleanEffect
    <2>2. dir' \in [Urls -> Repo \cup {None}]
      BY <1>0, <2>1 DEF Types
    <2> QED
      BY <1>0, <1>1, <2>1, <2>2, InvGoes DEF Types
  <1>6. CASE UpdateReread(h)
    <2>1. /\ Goes(h, "reread") /\ job[h].op = "update" /\ UNCHANGED <<row, dir>>
          /\ \/ row \in Row /\ job'[h].at = "checkout" /\ job'[h].mat = row
             \/ GivesUp(h)
      BY <1>6, UpdateRereadEffect
    <2> QED
      BY <1>0, <1>1, <2>1, InvGoes DEF Types, GivesUp
  <1>7. CASE CheckoutWipe(h)
    <2>1. /\ Goes(h, "checkout") /\ job[h].op \in {"add", "reset", "update"}
          /\ job[h].mat \in Row /\ job'[h].mat = job[h].mat /\ UNCHANGED row
          /\ \/ dir' = [dir EXCEPT ![job[h].mat.url] = None] /\ job'[h].at = "init"
             \/ GivesUp(h) /\ UNCHANGED dir
      BY <1>7, WipeEffect
    <2>2. dir' \in [Urls -> Repo \cup {None}]
      BY <1>0, <2>1, SetDir DEF Types, Row
    <2> QED
      BY <1>0, <1>1, <2>1, <2>2, InvGoes DEF Types, GivesUp
  <1>8. CASE CheckoutInit(h)
    <2>1. /\ Goes(h, "init") /\ job[h].op \in {"add", "reset", "update"}
          /\ job[h].mat \in Row /\ UNCHANGED row
          /\ \/ /\ dir' = [dir EXCEPT ![job[h].mat.url] =
                               [origin |-> job[h].mat.url, full |-> FALSE]]
                /\ job'[h].at = "fetch" /\ job'[h].mat = job[h].mat
             \/ /\ job'[h].at = "write" /\ job'[h].mat = NotCheckedOut(job[h].mat)
                /\ UNCHANGED dir
             \/ GivesUp(h) /\ UNCHANGED dir
      BY <1>8, InitEffect
    <2>2. job[h].mat.url \in Urls /\ NotCheckedOut(job[h].mat) \in Row
      BY <2>1, NotCheckedOutRow DEF Row
    <2>3. dir' \in [Urls -> Repo \cup {None}]
      BY <1>0, <2>1, <2>2, SetDir DEF Types
    <2>4. ASSUME job'[h].at = "fetch"
          PROVE  dir'[job'[h].mat.url] # None
      <3>1. dir'[job'[h].mat.url] = [origin |-> job[h].mat.url, full |-> FALSE]
        BY <1>0, <2>1, <2>2, <2>4 DEF Types, GivesUp
      <3>2. [origin |-> job[h].mat.url, full |-> FALSE] \in Repo
        BY <2>2 DEF Repo
      <3> QED
        BY <3>1, <3>2, NoneAssumption
    <2> QED
      BY <1>0, <1>1, <2>1, <2>2, <2>3, <2>4, InvGoes DEF Types, GivesUp
  <1>9. CASE CheckoutFetch(h)
    <2>1. /\ Goes(h, "fetch") /\ job[h].op \in {"add", "reset", "update"}
          /\ job[h].mat \in Row /\ UNCHANGED row
          /\ dir' \in {dir, [dir EXCEPT ![job[h].mat.url].full = TRUE]}
          /\ \/ job'[h].at = "write" /\ job'[h].mat \in Row
             \/ GivesUp(h)
      BY <1>9, CheckoutFetchEffect, NotCheckedOutRow, CheckedOutRow
    <2>2. dir[job[h].mat.url] \in Repo /\ job[h].mat.url \in Urls
      <3>1. dir[job[h].mat.url] # None /\ job[h].mat.url \in Urls
        BY <2>1 DEF Goes, CheckoutInv, Initialised, Row
      <3> QED
        BY <1>0, <3>1 DEF Types
    <2>3. [dir[job[h].mat.url] EXCEPT !.full = TRUE] \in Repo
      BY <2>2 DEF Repo
    <2>4. dir' \in [Urls -> Repo \cup {None}]
      BY <1>0, <2>1, <2>2, <2>3 DEF Types
    <2> QED
      BY <1>0, <1>1, <2>1, <2>4, InvGoes DEF Types, GivesUp
  <1> QED
    BY <1>2, <1>3, <1>4, <1>5, <1>6, <1>7, <1>8, <1>9

LEMMA InvNext == CheckoutInv /\ [Next]_vars => CheckoutInv'
  <1> SUFFICES ASSUME CheckoutInv, [Next]_vars
               PROVE  CheckoutInv'
    OBVIOUS
  <1>0. Types
    BY DEF CheckoutInv
  <1>1. ASSUME NEW h \in Handlers, TakeLock(h)
        PROVE  CheckoutInv'
    <2>1. /\ stage[h] = "waiting" /\ \A g \in Handlers : stage[g] # "in"
          /\ stage' = [stage EXCEPT ![h] = "in"] /\ stage'[h] = "in"
          /\ OthersWait(h) /\ on' = on
          /\ UNCHANGED <<row, dir, job, faults>>
      BY <1>1, TakeLockEffect
    <2>2. Types' /\ OthersStay(h)
      BY <1>0, <2>1 DEF Types, OthersStay, faults
    <2>3. Labelled(h)' /\ job'[h].at # "fetch"
      BY <2>1 DEF CheckoutInv, Labelled, HasRow
    <2> QED
      BY <2>1, <2>2, <2>3, InvStep
  <1>2. ASSUME NEW h \in Handlers, Return(h)
        PROVE  CheckoutInv'
    <2>1. /\ stage[h] = "in" /\ job[h].at = "return"
          /\ job' \in [Handlers -> Job] /\ OthersStay(h) /\ job'[h] = Idle
          /\ stage' = [stage EXCEPT ![h] = "out"] /\ stage'[h] = "out"
          /\ on' \in [Handlers -> SUBSET {Material}] /\ OthersWait(h)
          /\ UNCHANGED <<row, dir, faults>>
      BY <1>2, ReturnEffect
    <2>2. Types'
      BY <1>0, <2>1 DEF Types, faults
    <2>3. Labelled(h)' /\ job'[h].at # "fetch"
      BY <2>1 DEF Labelled, HasRow, Idle
    <2> QED
      BY <2>1, <2>2, <2>3, InvStep
  <1>3. CASE Crash
    <2>1. /\ stage' \in [Handlers -> {"out", "waiting", "in"}] /\ on' \in [Handlers -> SUBSET {Material}]
          /\ \A h \in Handlers : stage'[h] = "out" /\ job'[h] = Idle
          /\ UNCHANGED <<row, dir, happened>> /\ crashes' \in 0..MaxCrashes
      <3>1. MaxCrashes \in Nat /\ crashes \in 0..MaxCrashes
        BY <1>0, CheckoutAssumption DEF Types
      <3> QED
        BY <1>3, <3>1 DEF Crash
    <2>2. Idle \in Job /\ Idle.at = "idle"
      BY DEF Idle, Job, Labels
    <2>3. job' \in [Handlers -> Job]
      BY <1>3, <2>2 DEF Crash
    <2>4. Types'
      BY <1>0, <2>1, <2>3 DEF Types
    <2>5. \A h \in Handlers : Labelled(h)'
      BY <2>1, <2>2 DEF Labelled, HasRow
    <2>6. OneIn' /\ Initialised'
      BY <2>1, <2>2 DEF OneIn, Initialised
    <2> QED
      BY <2>4, <2>5, <2>6 DEF CheckoutInv
  <1>4. CASE UNCHANGED vars
    BY <1>4 DEF vars, CheckoutInv, Types, OneIn, Initialised, Labelled, HasRow
  <1>5. \/ \E h \in Handlers :
              \/ Calls(h) \/ UpdateChange(h) \/ WebhookWrite(h)
              \/ PollFetch(h) \/ LatestFetch(h) \/ Write(h)
              \/ UpdateClean(h) \/ UpdateReread(h)
              \/ CheckoutWipe(h) \/ CheckoutInit(h) \/ CheckoutFetch(h)
              \/ TakeLock(h) \/ Return(h)
        \/ Crash \/ UNCHANGED vars
    BY DEF Next, Step
  <1> QED
    BY <1>1, <1>2, <1>3, <1>4, <1>5, InvOutside, InvInside

\* In every reachable state the tables are well formed and the lock, and the
\* repository that git fetch runs in, are as the handlers believe.
THEOREM CheckoutInvariant == SafeSpec => []CheckoutInv
  BY InvInit, InvNext, PTL DEF SafeSpec

\* TypeOK holds for every number of handlers, urls, faults and restarts.
THEOREM TypeCorrect == SafeSpec => []TypeOK
  BY CheckoutInvariant, InvType, PTL

-----------------------------------------------------------------------------
(* Deletions.                                                                *)

\* The row is deleted, and so is every copy of it that a handler may yet write.
Gone == Removed /\ \A h \in Handlers : job[h].mat \in Row => job[h].mat.deleted

\* A handler that remembers no other row than before, or a deleted one, and
\* writes what it remembers.
LEMMA GoneStep ==
    ASSUME Gone, NEW h \in Handlers, OthersStay(h),
           job'[h].mat \in Row => job'[h].mat = job[h].mat \/ job'[h].mat.deleted,
           row' = row \/ (job[h].mat \in Row /\ row' = job[h].mat)
    PROVE  Gone'
  <1>1. Removed'
    BY NoneAssumption DEF Gone, Removed
  <1>2. \A g \in Handlers : job'[g].mat \in Row => job'[g].mat.deleted
    BY DEF Gone, OthersStay
  <1> QED
    BY <1>1, <1>2 DEF Gone

\* Nobody revives a deleted row of which all copies are deleted: what is called
\* finds no row, and what runs keeps the mark.
LEMMA GoneNext == CheckoutInv /\ Gone /\ [Next]_vars => Gone'
  <1> SUFFICES ASSUME CheckoutInv, Gone, [Next]_vars
               PROVE  Gone'
    OBVIOUS
  <1>0. /\ ~Live /\ row # None /\ Types
        /\ Idle.mat = None /\ None \notin Row
    BY NoneAssumption DEF Gone, Removed, Live, Found, CheckoutInv, Idle
  <1>1. ASSUME NEW h \in Handlers, Calls(h)
        PROVE  Gone'
    <2>1. PollCall(h)
      BY <1>0, <1>1 DEF Calls, ResetCall, LatestCall, AddCall, UpdateCall, WebhookRead
    <2>2. OthersStay(h) /\ job'[h].mat = None
      BY <2>1, CallEffect DEF PollCall, OpKinds, Labels
    <2> QED
      BY <1>0, <2>1, <2>2, GoneStep DEF PollCall
  <1>2. ASSUME NEW h \in Handlers, UpdateChange(h) \/ WebhookWrite(h) \/ Return(h)
        PROVE  Gone'
    <2>1. /\ OthersStay(h) /\ (job'[h] = Idle \/ job'[h].mat = job[h].mat)
          /\ row' = row \/ (job[h].mat \in Row /\ row' = job[h].mat)
      BY <1>2, UpdateChangeEffect, WebhookWriteEffect, ReturnEffect
    <2> QED
      BY <1>0, <2>1, GoneStep
  <1>3. ASSUME NEW h \in Handlers,
               PollFetch(h) \/ Write(h) \/ UpdateClean(h) \/ UpdateReread(h) \/ CheckoutWipe(h)
        PROVE  Gone'
    <2>1. /\ OthersStay(h) /\ job'[h].mat = job[h].mat
          /\ row' = row \/ (job[h].mat \in Row /\ row' = job[h].mat)
      BY <1>0, <1>3, PollFetchEffect, WriteEffect, UpdateCleanEffect, UpdateRereadEffect, WipeEffect
      DEF Goes, GivesUp
    <2> QED
      BY <2>1, GoneStep
  <1>4. ASSUME NEW h \in Handlers, LatestFetch(h) \/ CheckoutInit(h) \/ CheckoutFetch(h)
        PROVE  Gone'
    <2>1. OthersStay(h) /\ row' = row
      BY <1>4, LatestFetchEffect, InitEffect, CheckoutFetchEffect DEF Goes
    <2>2. job[h].mat \in Row /\ job[h].mat.deleted
      BY <1>4, LatestFetchEffect, InitEffect, CheckoutFetchEffect DEF Gone
    <2>3. \/ job'[h].mat = job[h].mat
          \/ job'[h].mat = [job[h].mat EXCEPT !.checkedOut = TRUE]
          \/ job'[h].mat = NotCheckedOut(job[h].mat)
          \/ job'[h].mat = CheckedOut(job[h].mat)
      BY <1>4, LatestFetchEffect, InitEffect, CheckoutFetchEffect DEF GivesUp
    <2>4. job'[h].mat = job[h].mat \/ job'[h].mat.deleted
      BY <2>2, <2>3, NotCheckedOutRow, CheckedOutRow DEF Row
    <2> QED
      BY <2>1, <2>4, GoneStep
  <1>5. ASSUME NEW h \in Handlers, TakeLock(h)
        PROVE  Gone'
    BY <1>5 DEF TakeLock, Gone, Removed
  <1>6. CASE Crash
    <2>1. row' = row /\ \A h \in Handlers : job'[h] = Idle
      BY <1>6 DEF Crash
    <2> QED
      BY <1>0, <2>1 DEF Gone, Removed
  <1>7. CASE UNCHANGED vars
    BY <1>7 DEF vars, Gone, Removed
  <1> QED
    BY <1>1, <1>2, <1>3, <1>4, <1>5, <1>6, <1>7 DEF Next, Step

\* A material that is deleted while no handler runs stays deleted for ever,
\* whatever is called, fails or restarts then: DeletionFinal.
THEOREM DeletionsFinal == SafeSpec => DeletionFinal
  <1>1. CheckoutInv /\ Quiet /\ Removed => Gone
    BY NoneAssumption DEF CheckoutInv, Labelled, Quiet, Gone, Idle
  <1>2. Gone => Removed
    BY DEF Gone
  <1> QED
    BY <1>1, <1>2, GoneNext, CheckoutInvariant, PTL DEF SafeSpec, DeletionFinal

-----------------------------------------------------------------------------
(* CheckoutStatus.                                                           *)

\* A row, in the table or in a handler's hands, that is of the material's url
\* and says it is checked out only if it says where.
Sound(m) ==
    /\ row # None /\ ~m.deleted /\ m.url = row.url
    /\ m.loc \in {None, row.url}
    /\ m.checkedOut => m.loc = row.url

\* Nobody edits the material: all rows are sound, and directories have
\* repositories of their own urls.
SoundInv ==
    /\ row # None => Sound(row)
    /\ \A h \in Handlers :
          /\ job[h].op \notin {"update", "webhook"}
          /\ job[h].mat \in Row => Sound(job[h].mat)
    /\ \A u \in Urls : dir[u] # None => dir[u].origin = u

\* The repository that a row that is checked out promises.
Good == dir[row.url] = [origin |-> row.url, full |-> TRUE]

Working == {"init", "fetch", "write"}

\* Who is about to write that the material is checked out has checked it out,
\* and between two handlers' work the row tells the truth.
Truthful ==
    /\ \A h \in Handlers : job[h].at = "write" /\ job[h].mat.checkedOut => Good
    /\ (\A h \in Handlers : job[h].at \notin Working) => (row # None /\ row.checkedOut => Good)

\* No restart, nobody goes away, the row can be written.
Unharmed == crashes = 0 /\ happened \cap {"context", "db"} = {}

\* A fetch completes a repository and leaves its origin.
LEMMA FullRepo ==
    ASSUME NEW r \in Repo
    PROVE  [r EXCEPT !.full = TRUE] = [origin |-> r.origin, full |-> TRUE]
  <1> DEFINE q == [r EXCEPT !.full = TRUE]
             s == [origin |-> r.origin, full |-> TRUE]
  <1>1. q \in Repo /\ s \in Repo
    BY DEF Repo
  <1>2. q.origin = s.origin /\ q.full = s.full
    BY DEF Repo
  <1>3. \A a, b \in Repo : a.origin = b.origin /\ a.full = b.full => a = b
    BY DEF Repo
  <1> HIDE DEF q, s
  <1>4. q = s
    BY <1>1, <1>2, <1>3
  <1> QED
    BY <1>4 DEF q, s

\* A fetch into the place of a sound row.
LEMMA SoundFetch ==
    ASSUME CheckoutInv, SoundInv, NEW m \in Row, Sound(m),
           FetchSucceeds(m) \/ FetchFails(m)
    PROVE  /\ \A u \in Urls : dir'[u] # None => dir'[u].origin = u
           /\ FetchSucceeds(m) => /\ m.loc = row.url
                                  /\ dir'[row.url] = [origin |-> row.url, full |-> TRUE]
           /\ FetchFails(m) => (Good => dir' = dir)
  <1>0. Types /\ m.url = row.url /\ row.url \in Urls /\ m.loc \in {None, row.url}
    BY DEF Sound, Row, CheckoutInv
  <1> DEFINE u == row.url
             o == Opened(u, u)
  <1>1. /\ o \in [Urls -> Repo \cup {None}] /\ o[u] \in Repo /\ o[u].origin = u
        /\ \A v \in Urls : o[v] # None => o[v].origin = v
        /\ dir[u] # None => o = dir
    BY <1>0 DEF Types, Opened, Repo, SoundInv
  <1>2. Good => dir[u] # None
    <2>1. [origin |-> u, full |-> TRUE] \in Repo
      BY <1>0 DEF Repo
    <2> QED
      BY <2>1, NoneAssumption DEF Good
  <1>3. ASSUME FetchSucceeds(m)
        PROVE  /\ \A v \in Urls : dir'[v] # None => dir'[v].origin = v
               /\ m.loc = u /\ dir'[u] = [origin |-> u, full |-> TRUE]
    <2>1. m.loc = u
      BY <1>0, <1>3 DEF FetchSucceeds, Opens
    <2>2. dir' = [o EXCEPT ![u] = [o[u] EXCEPT !.full = TRUE]]
      BY <1>0, <1>3, <2>1 DEF FetchSucceeds
    <2> HIDE DEF o
    <2>3. [o[u] EXCEPT !.full = TRUE] = [origin |-> u, full |-> TRUE]
      <3>1. PICK r \in Repo : r = o[u] /\ r.origin = u
        BY <1>1
      <3>2. [r EXCEPT !.full = TRUE] = [origin |-> u, full |-> TRUE]
        BY <3>1, FullRepo
      <3> QED
        BY <3>1, <3>2
    <2> QED
      BY <1>0, <1>1, <2>1, <2>2, <2>3
  <1>4. ASSUME FetchFails(m)
        PROVE  /\ \A v \in Urls : dir'[v] # None => dir'[v].origin = v
               /\ Good => dir' = dir
    <2>1. dir' = dir \/ dir' = o
      BY <1>0, <1>4 DEF FetchFails, Opens
    <2> HIDE DEF o
    <2> QED
      BY <1>1, <1>2, <2>1 DEF SoundInv
  <1> QED
    BY <1>3, <1>4

\* A step of one handler that leaves the row, or writes a copy of it.
LEMMA SoundStep ==
    ASSUME SoundInv, NEW h \in Handlers, OthersStay(h),
           job'[h].op \notin {"update", "webhook"},
           job'[h].mat \in Row => Sound(job'[h].mat),
           row' = row \/ (job[h].mat \in Row /\ row' = job[h].mat),
           \A u \in Urls : dir'[u] # None => dir'[u].origin = u
    PROVE  SoundInv'
  <1>1. /\ row' # None => row # None /\ row'.url = row.url /\ Sound(row')
        /\ row # None => row' # None
    BY NoneAssumption DEF SoundInv, Sound
  <1>2. \A g \in Handlers : /\ job'[g].op \notin {"update", "webhook"}
                            /\ job'[g].mat \in Row => Sound(job'[g].mat)
    BY DEF SoundInv, OthersStay
  <1> QED
    BY <1>1, <1>2 DEF SoundInv, Sound

LEMMA SoundNext ==
    ASSUME Ops \cap {"update", "webhook"} = {}
    PROVE  CheckoutInv /\ SoundInv /\ [Next]_vars => SoundInv'
  <1> SUFFICES ASSUME CheckoutInv, SoundInv, [Next]_vars
               PROVE  SoundInv'
    OBVIOUS
  <1>0. Types /\ None \notin Row /\ Idle.mat = None /\ Idle.op = "none"
    BY NoneAssumption DEF CheckoutInv, Idle
  <1>1. ASSUME NEW h \in Handlers, Calls(h)
        PROVE  SoundInv'
    <2>1. PollCall(h) \/ ResetCall(h) \/ LatestCall(h) \/ AddCall(h)
      BY <1>1 DEF Calls, UpdateCall, WebhookRead
    <2>2. CASE PollCall(h)
      <3>1. OthersStay(h) /\ job'[h].mat = None /\ job'[h].op = "poll"
        BY <2>2, CallEffect DEF PollCall, OpKinds, Labels
      <3> QED
        BY <1>0, <2>2, <3>1, SoundStep DEF PollCall, SoundInv
    <2>3. CASE ResetCall(h) \/ LatestCall(h)
      <3>1. OthersStay(h) /\ job'[h].mat = row /\ job'[h].op \in {"reset", "latest"}
            /\ row # None
        <4>1. row # None /\ row \in Row \cup {None}
          BY <1>0, <2>3 DEF ResetCall, LatestCall, Live, Found, Types
        <4> QED
          BY <2>3, <4>1, CallEffect DEF ResetCall, LatestCall, OpKinds, Labels
      <3> QED
        BY <1>0, <2>3, <3>1, SoundStep DEF ResetCall, LatestCall, SoundInv
    <2>4. CASE AddCall(h)
      <3>1. PICK u \in Urls : row' = NewRow(u)
        BY <2>4 DEF AddCall
      <3>2. NewRow(u) \in Row
        BY NewRows
      <3>3. OthersStay(h) /\ job'[h].mat = row' /\ job'[h].op = "add"
        BY <2>4, <3>1, <3>2, CallEffect DEF AddCall, OpKinds, Labels
      <3>4. row = None /\ dir' = dir
        BY <2>4 DEF AddCall
      <3>5. \A g \in Handlers : job[g].mat \notin Row
        BY <3>4 DEF SoundInv, Sound
      <3> QED
        BY <1>0, <3>1, <3>3, <3>4, <3>5, NewRows DEF SoundInv, Sound, OthersStay
    <2> QED
      BY <2>1, <2>2, <2>3, <2>4
  <1>2. ASSUME NEW h \in Handlers, UpdateChange(h) \/ WebhookWrite(h) \/ UpdateClean(h) \/ UpdateReread(h)
        PROVE  FALSE
    <2>1. job[h].op \in {"update", "webhook"}
      BY <1>2 DEF UpdateChange, WebhookWrite, UpdateClean, UpdateReread, Holds, CheckoutInv, Labelled
    <2> QED
      BY <2>1 DEF SoundInv
  <1>3. ASSUME NEW h \in Handlers, Return(h) \/ Write(h)
        PROVE  SoundInv'
    <2>1. /\ OthersStay(h) /\ dir' = dir
          /\ job'[h] = Idle \/ (job'[h].mat = job[h].mat /\ job'[h].op = job[h].op)
          /\ row' = row \/ (job[h].mat \in Row /\ row' = job[h].mat)
      BY <1>3, ReturnEffect, WriteEffect DEF Goes, GivesUp
    <2> QED
      BY <1>0, <2>1, SoundStep DEF SoundInv
  <1>4. ASSUME NEW h \in Handlers, PollFetch(h)
        PROVE  SoundInv'
    <2>1. /\ OthersStay(h) /\ job'[h].op = job[h].op /\ row' = row
          /\ \/ job'[h].mat = job[h].mat /\ dir' = dir
             \/ /\ row \in Row /\ job'[h].mat \in Row /\ Polled(job'[h].mat)
                /\ \/ FetchSucceeds(row) /\ job'[h].mat.checkedOut
                   \/ FetchFails(row) /\ job'[h].mat.checkedOut = row.checkedOut
                   \/ UNCHANGED dir /\ job'[h].mat.checkedOut = row.checkedOut
      BY <1>4, PollFetchEffect DEF Goes, GivesUp, Polled
    <2>2. row \in Row => Sound(row)
      BY <1>0 DEF SoundInv
    <2>3. job'[h].mat \in Row => Sound(job'[h].mat)
      BY <2>1, <2>2, SoundFetch DEF SoundInv, Sound, Polled
    <2>4. \A u \in Urls : dir'[u] # None => dir'[u].origin = u
      BY <2>1, <2>2, SoundFetch DEF SoundInv
    <2> QED
      BY <2>1, <2>3, <2>4, SoundStep DEF SoundInv
  <1>5. ASSUME NEW h \in Handlers, LatestFetch(h)
        PROVE  SoundInv'
    <2> DEFINE m == job[h].mat
    <2>1. /\ OthersStay(h) /\ job'[h].op = job[h].op /\ row' = row
          /\ m \in Row /\ Sound(m)
          /\ \/ FetchSucceeds(m) /\ job'[h].mat = [m EXCEPT !.checkedOut = TRUE]
             \/ FetchFails(m) /\ job'[h].mat = m
      BY <1>5, LatestFetchEffect DEF Goes, GivesUp, SoundInv
    <2>2. \A u \in Urls : dir'[u] # None => dir'[u].origin = u
      BY <2>1, SoundFetch
    <2>3. Sound(job'[h].mat)
      BY <2>1, SoundFetch DEF Sound, Row
    <2> QED
      BY <2>1, <2>2, <2>3, SoundStep DEF SoundInv
  <1>6. ASSUME NEW h \in Handlers, CheckoutWipe(h) \/ CheckoutInit(h) \/ CheckoutFetch(h)
        PROVE  SoundInv'
    <2> DEFINE m == job[h].mat
    <2>1. /\ OthersStay(h) /\ job'[h].op = job[h].op /\ row' = row /\ m \in Row /\ Sound(m)
          /\ job'[h].mat = m \/ job'[h].mat = NotCheckedOut(m) \/ job'[h].mat = CheckedOut(m)
      BY <1>6, WipeEffect, InitEffect, CheckoutFetchEffect DEF Goes, GivesUp, SoundInv
    <2>2. Sound(job'[h].mat)
      BY <2>1, NotCheckedOutRow, CheckedOutRow DEF Sound
    <2>3. \/ dir' = dir \/ dir' = [dir EXCEPT ![m.url] = None]
          \/ dir' = [dir EXCEPT ![m.url] = [origin |-> m.url, full |-> FALSE]]
          \/ CheckoutFetch(h) /\ dir' = [dir EXCEPT ![m.url].full = TRUE]
      BY <1>6, WipeEffect, InitEffect, CheckoutFetchEffect
    <2>4. m.url \in Urls /\ dir \in [Urls -> Repo \cup {None}]
      BY <1>0, <2>1 DEF Row, Types
    <2>5. CheckoutFetch(h) => dir[m.url] \in Repo
      <3>1. CheckoutFetch(h) => dir[m.url] # None
        BY CheckoutFetchEffect DEF Goes, CheckoutInv, Initialised
      <3> QED
        BY <2>4, <3>1
    <2>6. \A u \in Urls : dir'[u] # None => dir'[u].origin = u
      <3>1. \A u \in Urls : dir[u] # None => dir[u].origin = u
        BY DEF SoundInv
      <3>2. CASE dir' = [dir EXCEPT ![m.url] = [origin |-> m.url, full |-> FALSE]]
        BY <2>4, <3>1, <3>2
      <3>3. CASE CheckoutFetch(h) /\ dir' = [dir EXCEPT ![m.url].full = TRUE]
        <4>1. PICK r \in Repo : r = dir[m.url]
          BY <2>5, <3>3
        <4>2. [r EXCEPT !.full = TRUE].origin = r.origin
          BY <4>1 DEF Repo
        <4>3. dir' = [dir EXCEPT ![m.url] = [r EXCEPT !.full = TRUE]]
          BY <3>3, <4>1
        <4>4. r # None
          BY <4>1, NoneAssumption
        <4> QED
          BY <2>4, <3>1, <4>1, <4>2, <4>3, <4>4
      <3> QED
        BY <2>3, <2>4, <3>1, <3>2, <3>3
    <2> QED
      BY <2>1, <2>2, <2>6, SoundStep DEF SoundInv
  <1>7. ASSUME NEW h \in Handlers, TakeLock(h)
        PROVE  SoundInv'
    BY <1>7 DEF TakeLock, SoundInv, Sound
  <1>8. CASE Crash
    <2>1. UNCHANGED <<row, dir>> /\ \A h \in Handlers : job'[h] = Idle
      BY <1>8 DEF Crash
    <2> QED
      BY <1>0, <2>1 DEF SoundInv, Sound
  <1>9. CASE UNCHANGED vars
    BY <1>9 DEF vars, SoundInv, Sound
  <1> QED
    BY <1>1, <1>2, <1>3, <1>4, <1>5, <1>6, <1>7, <1>8, <1>9 DEF Next, Step

\* Without faults of these kinds afterwards, there were none before.
LEMMA Harmless ==
    ASSUME CheckoutInv, [Next]_vars, Unharmed'
    PROVE  Unharmed /\ ~Crash /\ ~Fault("context") /\ ~Fault("db")
  <1>1. crashes \in Nat /\ crashes' \in Nat
    <2>1. CheckoutInv'
      BY InvNext
    <2> QED
      BY <2>1, CheckoutAssumption DEF CheckoutInv, Types
  <1>2. crashes' = crashes \/ crashes' = crashes + 1
    BY DEF Next, Calls, Step, PollCall, ResetCall, LatestCall, AddCall, UpdateCall, WebhookRead,
           UpdateChange, WebhookWrite, TakeLock, Return, PollFetch, LatestFetch, Write, UpdateClean,
           UpdateReread, CheckoutWipe, CheckoutInit, CheckoutFetch, Crash, faults, vars
  <1>3. happened' = happened \/ \E kind : Fault(kind)
    BY DEF Next, Calls, Step, PollCall, ResetCall, LatestCall, AddCall, UpdateCall, WebhookRead,
           UpdateChange, WebhookWrite, TakeLock, Return, PollFetch, LatestFetch, Write, UpdateClean,
           UpdateReread, CheckoutWipe, CheckoutInit, CheckoutFetch, FetchSucceeds, FetchFails,
           Crash, faults, vars
  <1>4. Unharmed /\ ~Crash
    BY <1>1, <1>2, <1>3 DEF Unharmed, Fault, Crash
  <1> QED
    BY <1>4 DEF Unharmed, Fault

LEMMA TruthfulNext ==
    ASSUME Ops \cap {"update", "webhook"} = {}
    PROVE  CheckoutInv /\ SoundInv /\ (Unharmed => Truthful) /\ [Next]_vars
              => (Unharmed' => Truthful')
  <1> SUFFICES ASSUME CheckoutInv, SoundInv, Unharmed => Truthful, [Next]_vars, Unharmed'
               PROVE  Truthful'
    OBVIOUS
  <1>0. Types /\ Truthful /\ ~Crash /\ ~Fault("context") /\ ~Fault("db")
        /\ Idle.at = "idle" /\ Working = {"init", "fetch", "write"}
    BY Harmless DEF CheckoutInv, Idle, Working
  <1>1. ASSUME NEW h \in Handlers, AddCall(h)
        PROVE  Truthful'
    <2>1. PICK u \in Urls : row' = NewRow(u)
      BY <1>1 DEF AddCall
    <2>2. OthersStay(h) /\ job'[h].at = "checkout" /\ job[h].at = "idle"
      BY <1>1, <2>1, NewRows, CallEffect DEF AddCall, OpKinds, Labels
    <2>3. \A g \in Handlers : job[g].at # "write"
      <3>1. row = None
        BY <1>1 DEF AddCall
      <3> QED
        BY <3>1 DEF SoundInv, Sound, CheckoutInv, Labelled, HasRow
    <2> QED
      BY <2>1, <2>2, <2>3, NewRows DEF Truthful, OthersStay
  \* A step outside, or one that ends the handler.
  <1>2. ASSUME NEW h \in Handlers, UNCHANGED <<row, dir>>, OthersStay(h),
               job[h].at \notin Working, job'[h].at \notin Working
        PROVE  Truthful'
    BY <1>0, <1>2 DEF Truthful, OthersStay, Good
  <1>3. ASSUME NEW h \in Handlers, PollCall(h) \/ ResetCall(h) \/ LatestCall(h)
        PROVE  Truthful'
    <2>1. UNCHANGED <<row, dir>> /\ OthersStay(h)
          /\ job[h].at = "idle" /\ job'[h].at \in {"open", "checkout"}
      BY <1>0, <1>3, CallEffect
      DEF PollCall, ResetCall, LatestCall, OpKinds, Labels, Live, Found, Types
    <2> QED
      BY <1>0, <1>2, <2>1
  <1>4. ASSUME NEW h \in Handlers, Return(h)
        PROVE  Truthful'
    BY <1>0, <1>2, <1>4, ReturnEffect
  <1>5. ASSUME NEW h \in Handlers, UpdateCall(h) \/ WebhookRead(h) \/ UpdateChange(h)
                   \/ WebhookWrite(h) \/ UpdateClean(h) \/ UpdateReread(h)
        PROVE  FALSE
    <2>1. "update" \notin Ops /\ "webhook" \notin Ops
      OBVIOUS
    <2>2. job[h].op \in {"update", "webhook"} \/ UpdateCall(h) \/ WebhookRead(h)
      BY <1>5 DEF UpdateChange, WebhookWrite, UpdateClean, UpdateReread, Holds, CheckoutInv, Labelled
    <2> QED
      BY <2>1, <2>2 DEF SoundInv, UpdateCall, WebhookRead
  \* The handler that has the lock works alone.
  <1>6. ASSUME NEW h \in Handlers, NEW l, Goes(h, l)
        PROVE  /\ \A g \in Handlers \ {h} : job'[g] = job[g] /\ job'[g].at \notin Working
               /\ l \notin Working /\ row # None /\ row.checkedOut => Good
    <2>1. \A g \in Handlers \ {h} : job'[g] = job[g] /\ job[g].at \notin Working
      BY <1>0, <1>6 DEF Goes, OthersStay, CheckoutInv, OneIn, Labelled
    <2>2. job[h].at = l
      BY <1>6 DEF Goes
    <2> QED
      BY <2>1, <2>2, <1>0 DEF Truthful
  <1>7. ASSUME NEW h \in Handlers, NEW l, Goes(h, l),
               job'[h].at = "write" /\ job'[h].mat.checkedOut => Good',
               job'[h].at \notin Working /\ row' # None /\ row'.checkedOut => Good'
        PROVE  Truthful'
    BY <1>0, <1>6, <1>7 DEF Truthful
  <1>8. ASSUME NEW h \in Handlers, Write(h)
        PROVE  Truthful'
    <2>1. /\ Goes(h, "write") /\ job'[h].at = "return" /\ dir' = dir
          /\ job[h].mat \in Row /\ row' = job[h].mat /\ job[h].at = "write"
      BY <1>0, <1>8, WriteEffect DEF GivesUp, Goes
    <2>2. row'.url = row.url
      BY <2>1 DEF SoundInv, Sound
    <2>3. row'.checkedOut => Good
      BY <1>0, <2>1 DEF Truthful
    <2>4. Good => Good'
      BY <2>1, <2>2 DEF Good
    <2> QED
      BY <1>7, <2>1, <2>3, <2>4
  <1>9. ASSUME NEW h \in Handlers, PollFetch(h)
        PROVE  Truthful'
    <2>1. /\ Goes(h, "open") /\ row' = row
          /\ \/ job'[h].at = "return" /\ dir' = dir
             \/ /\ row \in Row /\ job'[h].at = "write"
                /\ \/ FetchSucceeds(row)
                   \/ FetchFails(row) /\ job'[h].mat.checkedOut = row.checkedOut
                   \/ dir' = dir /\ job'[h].mat.checkedOut = row.checkedOut
      BY <1>0, <1>9, PollFetchEffect DEF GivesUp
    <2>2. row # None /\ row.checkedOut => Good
      BY <1>0, <1>6, <2>1
    <2>3. row \in Row => row # None /\ Sound(row)
      BY NoneAssumption DEF SoundInv
    <2>4. FetchSucceeds(row) /\ row \in Row => Good'
      BY <2>1, <2>3, SoundFetch DEF Good
    <2>5. dir' = dir /\ Good => Good'
      BY <2>1 DEF Good
    <2>6. FetchFails(row) /\ row \in Row /\ Good => Good'
      BY <2>1, <2>3, <2>5, SoundFetch
    <2> QED
      BY <1>0, <1>7, <2>1, <2>2, <2>3, <2>4, <2>5, <2>6
  <1>10. ASSUME NEW h \in Handlers, LatestFetch(h)
         PROVE  Truthful'
    <2>1. /\ Goes(h, "open") /\ row' = row /\ job[h].mat \in Row
          /\ \/ FetchSucceeds(job[h].mat) /\ job'[h].at = "write"
             \/ FetchFails(job[h].mat) /\ job'[h].at = "return"
      BY <1>10, LatestFetchEffect DEF GivesUp
    <2>2. row # None /\ row.checkedOut => Good
      BY <1>0, <1>6, <2>1
    <2>3. Sound(job[h].mat)
      BY <2>1 DEF SoundInv
    <2>4. FetchSucceeds(job[h].mat) => Good'
      BY <2>1, <2>3, SoundFetch DEF Good
    <2>5. FetchFails(job[h].mat) /\ Good => Good'
      BY <2>1, <2>3, SoundFetch DEF Good
    <2> QED
      BY <1>0, <1>7, <2>1, <2>2, <2>4, <2>5
  <1>11. ASSUME NEW h \in Handlers, CheckoutWipe(h)
         PROVE  Truthful'
    <2>1. /\ Goes(h, "checkout") /\ row' = row
          /\ job'[h].at = "init" \/ (job'[h].at = "return" /\ dir' = dir)
      BY <1>11, WipeEffect DEF GivesUp
    <2>2. row # None /\ row.checkedOut => Good
      BY <1>0, <1>6, <2>1
    <2>3. dir' = dir /\ Good => Good'
      BY <2>1 DEF Good
    <2> QED
      BY <1>0, <1>7, <2>1, <2>2, <2>3
  <1>12. ASSUME NEW h \in Handlers, CheckoutInit(h)
         PROVE  Truthful'
    <2>1. /\ Goes(h, "init")
          /\ \/ job'[h].at = "fetch"
             \/ job'[h].at = "write" /\ ~job'[h].mat.checkedOut
      BY <1>0, <1>12, InitEffect, NotCheckedOutRow
    <2> QED
      BY <1>0, <1>7, <2>1
  <1>13. ASSUME NEW h \in Handlers, CheckoutFetch(h)
         PROVE  Truthful'
    <2> DEFINE m == job[h].mat
    <2>1. /\ Goes(h, "fetch") /\ row' = row /\ m \in Row /\ job'[h].at = "write"
          /\ \/ ~job'[h].mat.checkedOut
             \/ dir' = [dir EXCEPT ![m.url].full = TRUE]
      BY <1>0, <1>13, CheckoutFetchEffect, NotCheckedOutRow
    <2>2. m.url = row.url /\ m.url \in Urls /\ dir[m.url] \in Repo /\ dir[m.url].origin = m.url
      <3>1. m.url = row.url /\ m.url \in Urls
        BY <2>1 DEF SoundInv, Sound, Row
      <3>2. dir[m.url] # None
        BY <2>1 DEF Goes, CheckoutInv, Initialised
      <3> QED
        BY <1>0, <3>1, <3>2 DEF Types, SoundInv
    <2>3. dir' = [dir EXCEPT ![m.url].full = TRUE] => Good'
      <3>1. PICK r \in Repo : r = dir[m.url] /\ r.origin = m.url
        BY <2>2
      <3>2. [r EXCEPT !.full = TRUE] = [origin |-> m.url, full |-> TRUE]
        BY <3>1, FullRepo
      <3> QED
        BY <1>0, <2>1, <2>2, <3>1, <3>2 DEF Types, Good
    <2> QED
      BY <1>0, <1>7, <2>1, <2>3
  <1>14. ASSUME NEW h \in Handlers, TakeLock(h)
         PROVE  Truthful'
    BY <1>0, <1>14 DEF TakeLock, Truthful, Good
  <1>15. CASE UNCHANGED vars
    BY <1>0, <1>15 DEF vars, Truthful, Good
  <1> QED
    BY <1>0, <1>1, <1>3, <1>4, <1>5, <1>8, <1>9, <1>10, <1>11, <1>12, <1>13, <1>14, <1>15
    DEF Next, Step, Calls

LEMMA SoundInit == Init => SoundInv /\ Truthful
  <1> SUFFICES ASSUME Init PROVE SoundInv /\ Truthful
    OBVIOUS
  <1>1. \A h \in Handlers : job[h] = Idle
    BY DEF Init
  <1>2. Idle.at = "idle" /\ Idle.op = "none" /\ Idle.mat \notin Row
    BY NoneAssumption DEF Idle
  <1>3. PICK u \in Urls :
           \/ row = None /\ dir = [d \in Urls |-> None]
           \/ /\ row = [NewRow(u) EXCEPT !.loc = u, !.checkedOut = TRUE]
              /\ dir = [d \in Urls |-> IF d = u THEN [origin |-> u, full |-> TRUE] ELSE None]
    BY DEF Init
  <1>4. row # None => /\ row.url = u /\ row.loc = u /\ ~row.deleted
                      /\ dir[u] = [origin |-> u, full |-> TRUE]
    BY <1>3, NewRows DEF Row
  <1>5. \A d \in Urls : dir[d] # None => dir[d].origin = d
    BY <1>3
  <1> QED
    BY <1>1, <1>2, <1>4, <1>5 DEF SoundInv, Sound, Truthful, Good, Working

\* Whatever polls, resets, additions and queries run beside each other and
\* however many, CheckoutStatus tells the truth in the sense of StatusTruth,
\* if nobody edits the material.
THEOREM StatusesTrue ==
    ASSUME Ops \cap {"update", "webhook"} = {}
    PROVE  SafeSpec => []StatusTruth
  <1>1. CheckoutInv /\ SoundInv /\ (Unharmed => Truthful) => StatusTruth
    <2> SUFFICES ASSUME CheckoutInv, SoundInv, Unharmed, Truthful,
                        \A h \in Handlers : stage[h] # "in", Live, row.checkedOut
                 PROVE  row.loc # None /\ dir[row.loc] = [origin |-> row.url, full |-> TRUE]
      BY DEF StatusTruth, Unharmed
    <2>1. \A h \in Handlers : job[h].at \notin Working
      BY DEF CheckoutInv, Labelled, Working
    <2>2. row # None /\ row \in Row
      BY DEF Live, Found, CheckoutInv, Types
    <2>3. row.url \in Urls /\ row.loc = row.url
      BY <2>2 DEF SoundInv, Sound, Row
    <2> QED
      BY <2>1, <2>2, <2>3, CheckoutAssumption DEF Truthful, Good
  <1>2. SoundInv /\ Truthful => SoundInv /\ (Unharmed => Truthful)
    OBVIOUS
  <1>3. CheckoutInv /\ SoundInv /\ (Unharmed => Truthful) /\ [Next]_vars
           => (SoundInv /\ (Unharmed => Truthful))'
    BY SoundNext, TruthfulNext
  <1> QED
    BY <1>1, <1>2, <1>3, SoundInit, CheckoutInvariant, PTL DEF SafeSpec

-----------------------------------------------------------------------------
(* Orphans.  Cron polls, and one other goroutine, rpc, runs whatever it      *)
(* likes: the directories on the volume depend on what rpc is doing.         *)

Calm == happened = {} /\ crashes = 0

\* No directories, or only that of url u.
Only(u) == \A d \in Urls : dir[d] # None => d = u
Bare == \A d \in Urls : dir[d] = None

\* The handlers that are about to write the result of a poll.
Polls == {h \in Handlers : job[h].op = "poll" /\ job[h].at = "write"}

\* rpc has no checkout in hand: the volume has the directory of the row.
Resting(rpc) ==
    /\ job[rpc].at \notin {"clean", "reread", "checkout", "init", "fetch"}
    /\ job[rpc].at = "write" => job[rpc].op \in {"poll", "latest"}

Rest(rpc) ==
    /\ \A d \in Urls : dir[d] # None => Live /\ d = row.loc
    /\ Live => row.loc = row.url
    /\ \A h \in Polls : Live /\ job[h].mat.url = row.url
    /\ job[rpc].op = "update" /\ job[rpc].at = "change" => Live /\ job[rpc].mat.loc = row.loc
    /\ job[rpc].op \in {"latest", "webhook"} /\ job[rpc].at \in {"open", "write", "stamp"}
          => /\ Live /\ ~job[rpc].mat.deleted
             /\ job[rpc].mat.url = row.url /\ job[rpc].mat.loc = row.loc

\* rpc has written the row, and will clean the directory it found in it.
Cleaning(rpc) ==
    /\ row # None /\ job[rpc].mat.loc = row.loc /\ Only(row.loc)
    /\ ~job[rpc].mat.deleted => Live
    /\ job[rpc].mat.deleted =>
          /\ Live => row.loc = row.url
          /\ \A h \in Polls : job[h].mat.url = job[h].mat.loc

\* rpc is about to wipe the directory of the url and check it out.
CheckingOut(rpc) ==
    /\ Live /\ ~job[rpc].mat.deleted /\ job[rpc].mat.url = row.url /\ Only(row.url)
    /\ stage[rpc] = "in" \/ row.loc \in {None, row.url}
    /\ \A h \in Polls : job[h].mat.url = row.url

TidyInv(rpc) ==
    /\ \A h \in Handlers \ {rpc} : job[h].op \in {"poll", "none"}
    /\ \A h \in Polls : row # None /\ job[h].mat.loc = row.loc /\ ~job[h].mat.deleted
    /\ Resting(rpc) => Rest(rpc)
    /\ job[rpc].at = "clean" => Cleaning(rpc)
    /\ job[rpc].at = "reread" => Bare /\ Live
    /\ job[rpc].at = "checkout" => CheckingOut(rpc)
    /\ job[rpc].at = "init" => Bare /\ ~job[rpc].mat.deleted
    /\ job[rpc].at = "fetch" => Only(job[rpc].mat.url) /\ ~job[rpc].mat.deleted
    /\ job[rpc].at = "write" /\ ~Resting(rpc) =>
          /\ Only(job[rpc].mat.url) /\ ~job[rpc].mat.deleted
          /\ job[rpc].mat.loc = job[rpc].mat.url

\* If nothing has failed afterwards, nothing had before.
LEMMA Calmed ==
    ASSUME CheckoutInv, [Next]_vars, Calm'
    PROVE  Calm /\ ~Crash /\ \A kind : ~Fault(kind)
  <1>1. crashes \in Nat
    BY CheckoutAssumption DEF CheckoutInv, Types
  <1>2. crashes' = crashes \/ (Crash /\ crashes' = crashes + 1)
    BY DEF Next, Calls, Step, PollCall, ResetCall, LatestCall, AddCall, UpdateCall, WebhookRead,
           UpdateChange, WebhookWrite, TakeLock, Return, PollFetch, LatestFetch, Write, UpdateClean,
           UpdateReread, CheckoutWipe, CheckoutInit, CheckoutFetch, Crash, faults, vars
  <1>3. \A kind : ~Fault(kind)
    BY DEF Fault, Calm
  <1>4. happened' = happened
    BY <1>3
    DEF Next, Calls, Step, PollCall, ResetCall, LatestCall, AddCall, UpdateCall, WebhookRead,
        UpdateChange, WebhookWrite, TakeLock, Return, PollFetch, LatestFetch, Write, UpdateClean,
        UpdateReread, CheckoutWipe, CheckoutInit, CheckoutFetch, FetchSucceeds, FetchFails,
        Crash, faults, vars
  <1>5. Crash => crashes' = crashes + 1
    BY DEF Crash
  <1> QED
    BY <1>1, <1>2, <1>3, <1>4, <1>5 DEF Calm

\* A fetch that nothing disturbs makes no directory but that of the row's
\* CheckoutLocation.
LEMMA FetchPlace ==
    ASSUME Types, \A kind : ~Fault(kind), NEW m \in Row, FetchSucceeds(m) \/ FetchFails(m)
    PROVE  \A d \in Urls : dir'[d] # None => dir[d] # None \/ d = m.loc
  <1>1. ASSUME FetchSucceeds(m)
        PROVE  \A d \in Urls : dir'[d] # None => dir[d] # None \/ d = m.loc
    <2>1. m.loc \in Urls
      BY <1>1 DEF FetchSucceeds, Opens, Row
    <2> DEFINE o == Opened(m.loc, m.url)
    <2>2. o \in [Urls -> Repo \cup {None}] /\ \A d \in Urls : d # m.loc => o[d] = dir[d]
      BY <2>1 DEF Types, Opened, Repo, Row
    <2>3. dir' = [o EXCEPT ![m.loc] = [o[m.loc] EXCEPT !.full = TRUE]]
      BY <1>1 DEF FetchSucceeds
    <2> HIDE DEF o
    <2> QED
      BY <2>1, <2>2, <2>3
  <1>2. FetchFails(m) => dir' = dir
    BY DEF FetchFails
  <1> QED
    BY <1>1, <1>2

\* A step that changes neither the row nor the volume nor what rpc remembers,
\* and adds no result of a poll.
LEMMA TidySame ==
    ASSUME NEW rpc \in Handlers, TidyInv(rpc), UNCHANGED <<row, dir>>,
           job'[rpc] = job[rpc], stage'[rpc] = stage[rpc] \/ stage'[rpc] = "in",
           \A h \in Handlers \ {rpc} : job'[h].op \in {"poll", "none"},
           \A h \in Handlers : job'[h] = job[h] \/ job'[h].at # "write"
    PROVE  TidyInv(rpc)'
  <1>1. \A h \in Polls' : h \in Polls /\ job'[h] = job[h]
    BY DEF Polls
  <1>2. Resting(rpc)' <=> Resting(rpc)
    BY DEF Resting
  <1>3. Live' <=> Live
    BY DEF Live
  <1>4. Rest(rpc) => Rest(rpc)'
    BY <1>1, <1>3 DEF Rest
  <1>5. Cleaning(rpc) => Cleaning(rpc)'
    BY <1>1, <1>3 DEF Cleaning, Only
  <1>6. CheckingOut(rpc) => CheckingOut(rpc)'
    BY <1>1, <1>3 DEF CheckingOut, Only
  <1> QED
    BY <1>1, <1>2, <1>3, <1>4, <1>5, <1>6 DEF TidyInv, Bare, Only

\* rpc goes on, or comes to its end, with no row in its hands.
LEMMA TidyRest ==
    ASSUME NEW rpc \in Handlers, TidyInv(rpc), Rest(rpc), UNCHANGED <<row, dir>>, OthersStay(rpc),
           \/ job'[rpc].at \in {"idle", "return"}
           \/ job'[rpc].at = "open" /\ job'[rpc].op = "poll"
    PROVE  TidyInv(rpc)'
  <1>1. \A h \in Polls' : h \in Polls /\ job'[h] = job[h]
    BY DEF Polls, OthersStay
  <1>2. Live' <=> Live
    BY DEF Live
  <1>3. Rest(rpc)'
    BY <1>1, <1>2 DEF Rest
  <1>4. \A h \in Handlers \ {rpc} : job'[h].op \in {"poll", "none"}
    BY DEF TidyInv, OthersStay
  <1>5. Resting(rpc)'
    BY DEF Resting
  <1> QED
    BY <1>1, <1>3, <1>4, <1>5 DEF TidyInv

\* A poll, of cron or of rpc, has fetched.
LEMMA TidyPolled ==
    ASSUME CheckoutInv, NEW rpc \in Handlers, TidyInv(rpc), NEW h \in Handlers,
           Goes(h, "open"), job[h].op = "poll", row' = row, Live,
           job'[h].at = "write", Polled(job'[h].mat),
           \A d \in Urls : dir'[d] # None => dir[d] # None \/ d = row.loc
    PROVE  TidyInv(rpc)'
  <1>0. /\ job'[h].op = "poll" /\ OthersStay(h)
        /\ \A g \in Handlers \ {h} : stage[g] # "in"
        /\ stage' = stage
    BY DEF Goes, CheckoutInv, OneIn
  <1>1. Live' <=> Live
    BY DEF Live
  <1>2. \A g \in Polls' : \/ g = h
                          \/ g \in Polls /\ job'[g] = job[g]
    BY <1>0 DEF Polls, OthersStay
  <1>3. row # None /\ ~row.deleted
    BY DEF Live, Found
  <1>4. \A g \in Polls' : row' # None /\ job'[g].mat.loc = row'.loc /\ ~job'[g].mat.deleted
    BY <1>2, <1>3 DEF TidyInv, Polled
  <1>5. \A g \in Handlers \ {rpc} : job'[g].op \in {"poll", "none"}
    BY <1>0 DEF TidyInv, OthersStay
  <1>6. CASE h = rpc
    <2>1. Resting(rpc) /\ Rest(rpc) /\ Resting(rpc)'
      BY <1>0, <1>6 DEF TidyInv, Resting, Goes
    <2>2. Rest(rpc)'
      BY <1>0, <1>1, <1>2, <1>6, <2>1 DEF Rest, Polled
    <2> QED
      BY <1>4, <1>5, <1>6, <2>1, <2>2 DEF TidyInv
  <1>7. CASE h # rpc
    <2>1. job'[rpc] = job[rpc] /\ stage[rpc] # "in" /\ stage'[rpc] = stage[rpc]
      BY <1>0, <1>7 DEF OthersStay
    <2>2. job[rpc].at \notin {"reread", "init", "fetch", "write"}
      BY <2>1 DEF CheckoutInv, Labelled
    <2>3. Resting(rpc)' <=> Resting(rpc)
      BY <2>1 DEF Resting
    <2>4. Rest(rpc) => Rest(rpc)'
      BY <1>1, <1>2, <2>1 DEF Rest, Polled
    <2>5. Cleaning(rpc) => Cleaning(rpc)'
      BY <1>1, <1>2, <2>1 DEF Cleaning, Polled, Only
    <2>6. CheckingOut(rpc) => CheckingOut(rpc)'
      <3>1. \A d \in Urls : d # None
        BY CheckoutAssumption
      <3> QED
        BY <1>1, <1>2, <2>1, <3>1 DEF CheckingOut, Polled, Only
    <2> QED
      BY <1>4, <1>5, <2>1, <2>2, <2>3, <2>4, <2>5, <2>6 DEF TidyInv
  <1> QED
    BY <1>6, <1>7

\* A poll writes the row.
LEMMA TidyPollWrites ==
    ASSUME CheckoutInv, NEW rpc \in Handlers, TidyInv(rpc), NEW h \in Handlers,
           Goes(h, "write"), job[h].op = "poll", job[h].mat \in Row, row' = job[h].mat, dir' = dir,
           job'[h].at = "return"
    PROVE  TidyInv(rpc)'
  <1>0. /\ job'[h].op = "poll" /\ OthersStay(h) /\ h \in Polls
        /\ \A g \in Handlers \ {h} : stage[g] # "in" /\ job[g].at \notin {"reread", "init", "fetch", "write"}
        /\ stage' = stage
    BY DEF Goes, CheckoutInv, OneIn, Labelled, Polls
  <1>1. Polls' = {}
    BY <1>0 DEF Polls, OthersStay
  <1>2. Live' /\ row'.loc = row.loc
    BY <1>0, NoneAssumption DEF TidyInv, Live, Found
  <1>3. \A g \in Handlers \ {rpc} : job'[g].op \in {"poll", "none"}
    BY <1>0 DEF TidyInv, OthersStay
  <1>4. CASE h = rpc
    <2>1. Resting(rpc) /\ Rest(rpc) /\ Resting(rpc)'
      BY <1>0, <1>4 DEF TidyInv, Resting, Goes
    <2>2. Rest(rpc)'
      BY <1>0, <1>1, <1>2, <1>4, <2>1 DEF Rest
    <2> QED
      BY <1>1, <1>3, <1>4, <2>1, <2>2 DEF TidyInv
  <1>5. CASE h # rpc
    <2>1. job'[rpc] = job[rpc] /\ stage'[rpc] = stage[rpc]
      BY <1>0, <1>5 DEF OthersStay
    <2>2. job[rpc].at \notin {"reread", "init", "fetch", "write"} /\ stage[rpc] # "in"
      BY <1>0, <1>5
    <2>3. Resting(rpc)' <=> Resting(rpc)
      BY <2>1 DEF Resting
    <2>4. Rest(rpc) => Rest(rpc)'
      BY <1>0, <1>1, <1>2, <2>1 DEF Rest
    <2>5. Cleaning(rpc) => Cleaning(rpc)'
      <3>1. row' # None
        BY NoneAssumption
      <3> QED
        BY <1>0, <1>1, <1>2, <2>1, <3>1 DEF Cleaning, Only, TidyInv
    <2>6. CheckingOut(rpc) => CheckingOut(rpc)'
      BY <1>0, <1>1, <1>2, <2>1, <2>2 DEF CheckingOut, Only
    <2> QED
      BY <1>1, <1>3, <2>1, <2>2, <2>3, <2>4, <2>5, <2>6 DEF TidyInv
  <1> QED
    BY <1>4, <1>5

\* The results of polls that are still to be written are those of before, when
\* rpc does something else.
LEMMA OtherPolls ==
    ASSUME NEW rpc \in Handlers, TidyInv(rpc), OthersStay(rpc), job'[rpc].op # "poll",
           \/ row' = row
           \/ Polls = {}
           \/ row' # None /\ row # None /\ row'.loc = row.loc
    PROVE  /\ \A h \in Polls' : h \in Polls /\ job'[h] = job[h]
           /\ \A h \in Handlers \ {rpc} : job'[h].op \in {"poll", "none"}
           /\ \A h \in Polls' : row' # None /\ job'[h].mat.loc = row'.loc /\ ~job'[h].mat.deleted
  <1>1. \A h \in Polls' : h \in Polls /\ job'[h] = job[h]
    BY DEF Polls, OthersStay
  <1>2. \A h \in Handlers \ {rpc} : job'[h].op \in {"poll", "none"}
    BY DEF TidyInv, OthersStay
  <1> QED
    BY <1>1, <1>2 DEF TidyInv

\* rpc is in the lock: no poll is about to write.
LEMMA NoPolls ==
    ASSUME CheckoutInv, NEW rpc \in Handlers, stage[rpc] = "in", job[rpc].op # "poll"
    PROVE  Polls = {}
  BY DEF CheckoutInv, OneIn, Labelled, Polls

\* What rpc calls, other than a poll.
LEMMA TidyCalls ==
    ASSUME CheckoutInv, NEW rpc \in Handlers, TidyInv(rpc),
           ResetCall(rpc) \/ LatestCall(rpc) \/ AddCall(rpc) \/ UpdateCall(rpc) \/ WebhookRead(rpc)
    PROVE  TidyInv(rpc)'
  <1>0. Types /\ job[rpc].at = "idle"
    BY DEF CheckoutInv, ResetCall, LatestCall, AddCall, UpdateCall, WebhookRead, CallWith
  <1>1. Rest(rpc)
    BY <1>0 DEF TidyInv, Resting
  <1>2. ASSUME Live
        PROVE  row \in Row /\ row # None /\ ~row.deleted /\ row.loc = row.url
    BY <1>0, <1>1, <1>2 DEF Types, Live, Found, Rest
  <1>3. CASE ResetCall(rpc)
    <2>1. /\ Live /\ OthersStay(rpc) /\ UNCHANGED <<row, dir>>
          /\ job'[rpc].op = "reset" /\ job'[rpc].at = "checkout" /\ job'[rpc].mat = row
      BY <1>2, <1>3, CallEffect DEF ResetCall, OpKinds, Labels
    <2>2. /\ \A h \in Polls' : h \in Polls /\ job'[h] = job[h]
          /\ \A h \in Handlers \ {rpc} : job'[h].op \in {"poll", "none"}
          /\ \A h \in Polls' : row' # None /\ job'[h].mat.loc = row'.loc /\ ~job'[h].mat.deleted
      BY <2>1, OtherPolls
    <2>3. CheckingOut(rpc)'
      BY <1>1, <1>2, <2>1, <2>2 DEF CheckingOut, Rest, Live, Only
    <2> QED
      BY <2>1, <2>2, <2>3 DEF TidyInv, Resting
  <1>4. CASE LatestCall(rpc)
    <2>1. /\ Live /\ OthersStay(rpc) /\ UNCHANGED <<row, dir>>
          /\ job'[rpc].op = "latest" /\ job'[rpc].at = "open" /\ job'[rpc].mat = row
      BY <1>2, <1>4, CallEffect DEF LatestCall, OpKinds, Labels
    <2>2. /\ \A h \in Polls' : h \in Polls /\ job'[h] = job[h]
          /\ \A h \in Handlers \ {rpc} : job'[h].op \in {"poll", "none"}
          /\ \A h \in Polls' : row' # None /\ job'[h].mat.loc = row'.loc /\ ~job'[h].mat.deleted
      BY <2>1, OtherPolls
    <2>3. Rest(rpc)'
      BY <1>1, <1>2, <2>1, <2>2 DEF Rest, Live
    <2> QED
      BY <2>1, <2>2, <2>3 DEF TidyInv, Resting
  <1>5. CASE AddCall(rpc)
    <2>1. PICK u \in Urls : row' = NewRow(u)
      BY <1>5 DEF AddCall
    <2>2. /\ OthersStay(rpc) /\ row = None /\ dir' = dir
          /\ job'[rpc].op = "add" /\ job'[rpc].at = "checkout" /\ job'[rpc].mat = row'
      BY <1>5, <2>1, NewRows, CallEffect DEF AddCall, OpKinds, Labels
    <2>3. Polls = {} /\ Bare
      BY <1>1, <2>2 DEF Rest, Live, Found, Bare
    <2>4. /\ \A h \in Polls' : h \in Polls /\ job'[h] = job[h]
          /\ \A h \in Handlers \ {rpc} : job'[h].op \in {"poll", "none"}
          /\ \A h \in Polls' : row' # None /\ job'[h].mat.loc = row'.loc /\ ~job'[h].mat.deleted
      BY <2>2, <2>3, OtherPolls
    <2>5. CheckingOut(rpc)'
      BY <2>1, <2>2, <2>3, <2>4, NewRows DEF CheckingOut, Live, Found, Only, Bare
    <2> QED
      BY <2>2, <2>4, <2>5 DEF TidyInv, Resting
  <1>6. CASE UpdateCall(rpc)
    <2>1. /\ Live /\ OthersStay(rpc) /\ UNCHANGED <<row, dir>>
          /\ job'[rpc].op = "update" /\ job'[rpc].at = "change" /\ job'[rpc].mat.loc = row.loc
      BY <1>6, UpdateCallEffect
    <2>2. /\ \A h \in Polls' : h \in Polls /\ job'[h] = job[h]
          /\ \A h \in Handlers \ {rpc} : job'[h].op \in {"poll", "none"}
          /\ \A h \in Polls' : row' # None /\ job'[h].mat.loc = row'.loc /\ ~job'[h].mat.deleted
      BY <2>1, OtherPolls
    <2>3. Rest(rpc)'
      BY <1>1, <2>1, <2>2 DEF Rest, Live
    <2> QED
      BY <2>1, <2>2, <2>3 DEF TidyInv, Resting
  <1>7. CASE WebhookRead(rpc)
    <2>1. /\ Live /\ OthersStay(rpc) /\ UNCHANGED <<row, dir>>
          /\ job'[rpc].op = "webhook" /\ job'[rpc].at = "stamp" /\ job'[rpc].mat = row
      BY <1>7, WebhookReadEffect
    <2>2. /\ \A h \in Polls' : h \in Polls /\ job'[h] = job[h]
          /\ \A h \in Handlers \ {rpc} : job'[h].op \in {"poll", "none"}
          /\ \A h \in Polls' : row' # None /\ job'[h].mat.loc = row'.loc /\ ~job'[h].mat.deleted
      BY <2>1, OtherPolls
    <2>3. Rest(rpc)'
      BY <1>1, <1>2, <2>1, <2>2 DEF Rest, Live
    <2> QED
      BY <2>1, <2>2, <2>3 DEF TidyInv, Resting
  <1> QED
    BY <1>3, <1>4, <1>5, <1>6, <1>7

\* rpc writes the row, reads the repository for it, or cleans and rereads.
LEMMA TidyEdits ==
    ASSUME CheckoutInv, NEW rpc \in Handlers, TidyInv(rpc), \A kind : ~Fault(kind),
           \/ UpdateChange(rpc) \/ WebhookWrite(rpc) \/ LatestFetch(rpc)
           \/ UpdateClean(rpc) \/ UpdateReread(rpc)
    PROVE  TidyInv(rpc)'
  <1>0. Types /\ None \notin Row /\ Idle.at = "idle" /\ Idle.op = "none"
    BY NoneAssumption DEF CheckoutInv, Idle
  <1>1. CASE UpdateChange(rpc)
    <2>1. /\ job[rpc].at = "change" /\ job[rpc].op = "update" /\ job[rpc].mat \in Row
          /\ OthersStay(rpc) /\ dir' = dir /\ row' = job[rpc].mat
          /\ job'[rpc].op = "update" /\ job'[rpc].at = "clean" /\ job'[rpc].mat = job[rpc].mat
      BY <1>1, UpdateChangeEffect
    <2>2. Rest(rpc) /\ Live /\ row'.loc = row.loc /\ row # None
      BY <2>1 DEF TidyInv, Resting, Rest, Live, Found
    <2>3. /\ \A h \in Polls' : h \in Polls /\ job'[h] = job[h]
          /\ \A h \in Handlers \ {rpc} : job'[h].op \in {"poll", "none"}
          /\ \A h \in Polls' : row' # None /\ job'[h].mat.loc = row'.loc /\ ~job'[h].mat.deleted
      BY <1>0, <2>1, <2>2, OtherPolls
    <2>4. Cleaning(rpc)'
      <3>1. \A h \in Polls' : job'[h].mat.url = job'[h].mat.loc
        BY <2>2, <2>3 DEF Rest
      <3> QED
        BY <1>0, <2>1, <2>2, <3>1 DEF Cleaning, Rest, Only, Live, Found
    <2> QED
      BY <2>1, <2>3, <2>4 DEF TidyInv, Resting
  <1>2. CASE WebhookWrite(rpc)
    <2>1. /\ job[rpc].at = "stamp" /\ job[rpc].op = "webhook" /\ job[rpc].mat \in Row
          /\ OthersStay(rpc) /\ dir' = dir /\ row' = job[rpc].mat /\ job'[rpc] = Idle
      BY <1>2, WebhookWriteEffect
    <2>2. /\ Rest(rpc) /\ Live /\ row'.loc = row.loc /\ row'.url = row.url /\ row # None
          /\ Live'
      BY <1>0, <2>1 DEF TidyInv, Resting, Rest, Live, Found
    <2>3. /\ \A h \in Polls' : h \in Polls /\ job'[h] = job[h]
          /\ \A h \in Handlers \ {rpc} : job'[h].op \in {"poll", "none"}
          /\ \A h \in Polls' : row' # None /\ job'[h].mat.loc = row'.loc /\ ~job'[h].mat.deleted
      BY <1>0, <2>1, <2>2, OtherPolls
    <2>4. Rest(rpc)'
      BY <1>0, <2>1, <2>2, <2>3 DEF Rest
    <2> QED
      BY <1>0, <2>1, <2>3, <2>4 DEF TidyInv, Resting
  <1>3. CASE LatestFetch(rpc)
    <2>1. /\ Goes(rpc, "open") /\ job[rpc].op = "latest" /\ job[rpc].at = "open" /\ row' = row
          /\ job[rpc].mat \in Row /\ job'[rpc].at \in {"write", "return"}
          /\ FetchSucceeds(job[rpc].mat) \/ FetchFails(job[rpc].mat)
          /\ \/ job'[rpc].mat = job[rpc].mat
             \/ job'[rpc].mat = [job[rpc].mat EXCEPT !.checkedOut = TRUE]
      BY <1>3, LatestFetchEffect DEF GivesUp, Goes
    <2>2. /\ job'[rpc].mat.url = job[rpc].mat.url /\ job'[rpc].mat.loc = job[rpc].mat.loc
          /\ job'[rpc].mat.deleted = job[rpc].mat.deleted
          /\ OthersStay(rpc) /\ job'[rpc].op = "latest"
      BY <2>1 DEF Row, Goes
    <2>3. Rest(rpc) /\ Live /\ Live' /\ job[rpc].mat.loc = row.loc /\ job[rpc].mat.url = row.url
          /\ ~job[rpc].mat.deleted
      BY <2>1 DEF TidyInv, Resting, Rest, Live
    <2>4. \A d \in Urls : dir'[d] # None => d = row.loc
      BY <1>0, <2>1, <2>3, FetchPlace DEF Rest
    <2>5. /\ \A h \in Polls' : h \in Polls /\ job'[h] = job[h]
          /\ \A h \in Handlers \ {rpc} : job'[h].op \in {"poll", "none"}
          /\ \A h \in Polls' : row' # None /\ job'[h].mat.loc = row'.loc /\ ~job'[h].mat.deleted
      BY <2>1, <2>2, OtherPolls
    <2>6. Rest(rpc)'
      BY <2>1, <2>2, <2>3, <2>4, <2>5 DEF Rest
    <2> QED
      BY <2>1, <2>2, <2>5, <2>6 DEF TidyInv, Resting
  <1>4. CASE UpdateClean(rpc)
    <2>1. /\ Goes(rpc, "clean") /\ job[rpc].op = "update" /\ job'[rpc].mat = job[rpc].mat
          /\ job'[rpc].at = IF job[rpc].mat.deleted THEN "return" ELSE "reread"
          /\ dir' = [d \in Urls |-> IF d = job[rpc].mat.loc THEN None ELSE dir[d]]
          /\ row' = row
      BY <1>4, UpdateCleanEffect
    <2>2. Cleaning(rpc) /\ Polls = {} /\ OthersStay(rpc) /\ job'[rpc].op = "update"
      BY <2>1, NoPolls DEF Goes, TidyInv
    <2>3. Bare' /\ (Live' <=> Live)
      BY <2>1, <2>2 DEF Cleaning, Only, Bare, Live
    <2>4. /\ \A h \in Polls' : h \in Polls /\ job'[h] = job[h]
          /\ \A h \in Handlers \ {rpc} : job'[h].op \in {"poll", "none"}
          /\ \A h \in Polls' : row' # None /\ job'[h].mat.loc = row'.loc /\ ~job'[h].mat.deleted
      BY <2>1, <2>2, OtherPolls
    <2>5. job[rpc].mat.deleted => Rest(rpc)'
      BY <2>1, <2>2, <2>3, <2>4 DEF Cleaning, Rest, Bare
    <2>6. ~job[rpc].mat.deleted => Live'
      BY <2>2, <2>3 DEF Cleaning
    <2> QED
      BY <2>1, <2>2, <2>3, <2>4, <2>5, <2>6 DEF TidyInv, Resting
  <1>5. CASE UpdateReread(rpc)
    <2>1. /\ Goes(rpc, "reread") /\ job[rpc].op = "update" /\ UNCHANGED <<row, dir>> /\ row \in Row
          /\ job'[rpc].at = "checkout" /\ job'[rpc].mat = row /\ Bare /\ Live
      <3>1. Goes(rpc, "reread") /\ Bare /\ Live
        BY <1>5, UpdateRereadEffect DEF TidyInv, Goes
      <3> QED
        BY <1>5, <3>1, UpdateRereadEffect
    <2>2. Polls = {} /\ OthersStay(rpc) /\ job'[rpc].op = "update" /\ stage'[rpc] = "in"
      BY <2>1, NoPolls DEF Goes
    <2>3. /\ \A h \in Polls' : h \in Polls /\ job'[h] = job[h]
          /\ \A h \in Handlers \ {rpc} : job'[h].op \in {"poll", "none"}
          /\ \A h \in Polls' : row' # None /\ job'[h].mat.loc = row'.loc /\ ~job'[h].mat.deleted
      BY <2>1, <2>2, OtherPolls
    <2>4. CheckingOut(rpc)'
      BY <2>1, <2>2, <2>3 DEF CheckingOut, Bare, Only, Live, Found
    <2> QED
      BY <2>1, <2>3, <2>4 DEF TidyInv, Resting
  <1> QED
    BY <1>1, <1>2, <1>3, <1>4, <1>5

\* rpc checks the material out, or writes what it found.
LEMMA TidyCheckouts ==
    ASSUME CheckoutInv, NEW rpc \in Handlers, TidyInv(rpc), \A kind : ~Fault(kind),
           \/ CheckoutWipe(rpc) \/ CheckoutInit(rpc) \/ CheckoutFetch(rpc)
           \/ Write(rpc) /\ job[rpc].op # "poll"
    PROVE  TidyInv(rpc)'
  <1>0. Types /\ None \notin Row
    BY NoneAssumption DEF CheckoutInv
  <1>1. stage[rpc] = "in" /\ OthersStay(rpc) /\ job'[rpc].op = job[rpc].op /\ job[rpc].op # "poll"
        /\ job[rpc].mat \in Row
    BY WipeEffect, InitEffect, CheckoutFetchEffect, WriteEffect DEF Goes
  <1>2. Polls = {}
    BY <1>1, NoPolls
  <1>3. /\ Polls' = {}
        /\ \A h \in Handlers \ {rpc} : job'[h].op \in {"poll", "none"}
        /\ \A h \in Polls' : row' # None /\ job'[h].mat.loc = row'.loc /\ ~job'[h].mat.deleted
    BY <1>1, <1>2, OtherPolls
  <1>4. job[rpc].mat.url \in Urls
    BY <1>1 DEF Row
  <1>5. CASE CheckoutWipe(rpc)
    <2>1. /\ job[rpc].at = "checkout" /\ row' = row /\ job'[rpc].mat = job[rpc].mat
          /\ dir' = [dir EXCEPT ![job[rpc].mat.url] = None] /\ job'[rpc].at = "init"
      BY <1>5, WipeEffect DEF Goes
    <2>2. Only(job[rpc].mat.url) /\ ~job[rpc].mat.deleted
      BY <2>1 DEF TidyInv, CheckingOut
    <2>3. Bare'
      BY <1>0, <1>4, <2>1, <2>2 DEF Only, Bare, Types
    <2> QED
      BY <1>3, <2>1, <2>2, <2>3 DEF TidyInv, Resting
  <1>6. CASE CheckoutInit(rpc)
    <2>1. /\ job[rpc].at = "init" /\ job'[rpc].mat = job[rpc].mat
          /\ dir' = [dir EXCEPT ![job[rpc].mat.url] = [origin |-> job[rpc].mat.url, full |-> FALSE]]
          /\ job'[rpc].at = "fetch"
      BY <1>6, InitEffect DEF Goes
    <2>2. Bare /\ ~job[rpc].mat.deleted
      BY <2>1 DEF TidyInv
    <2>3. Only(job[rpc].mat.url)'
      BY <1>0, <2>1, <2>2 DEF Only, Bare, Types
    <2> QED
      BY <1>3, <2>1, <2>2, <2>3 DEF TidyInv, Resting, Only
  <1>7. CASE CheckoutFetch(rpc)
    <2>1. /\ job[rpc].at = "fetch" /\ job'[rpc].mat = CheckedOut(job[rpc].mat)
          /\ dir' = [dir EXCEPT ![job[rpc].mat.url].full = TRUE]
          /\ job'[rpc].at = "write" /\ job[rpc].op \in {"add", "reset", "update"}
      BY <1>7, CheckoutFetchEffect DEF Goes
    <2>2. Only(job[rpc].mat.url) /\ ~job[rpc].mat.deleted
      BY <2>1 DEF TidyInv
    <2>3. /\ job'[rpc].mat.url = job[rpc].mat.url /\ job'[rpc].mat.loc = job[rpc].mat.url
          /\ ~job'[rpc].mat.deleted
      BY <1>1, <2>1, <2>2, CheckedOutRow
    <2>4. \A d \in Urls : dir'[d] # None => d = job'[rpc].mat.url
      BY <1>0, <2>1, <2>2, <2>3 DEF Only, Types
    <2>5. ~Resting(rpc)'
      BY <1>1, <2>1 DEF Resting
    <2> QED
      BY <1>3, <2>1, <2>3, <2>4, <2>5 DEF TidyInv, Only
  <1>8. CASE Write(rpc)
    <2>1. /\ job[rpc].at = "write" /\ job'[rpc].at = "return" /\ dir' = dir /\ row' = job[rpc].mat
      BY <1>8, WriteEffect DEF Goes, GivesUp
    <2>2. /\ Resting(rpc) => Rest(rpc) /\ job[rpc].op = "latest"
          /\ ~Resting(rpc) => /\ Only(job[rpc].mat.url) /\ ~job[rpc].mat.deleted
                              /\ job[rpc].mat.loc = job[rpc].mat.url
      BY <1>1, <2>1 DEF TidyInv, Resting
    <2>3. Live' /\ row'.loc = row'.url /\ \A d \in Urls : dir'[d] # None => d = row'.loc
      BY <1>0, <1>1, <2>1, <2>2 DEF Rest, Live, Found, Only
    <2>4. Rest(rpc)'
      BY <1>3, <2>1, <2>3 DEF Rest
    <2> QED
      BY <1>3, <2>1, <2>4 DEF TidyInv, Resting
  <1> QED
    BY <1>5, <1>6, <1>7, <1>8

LEMMA TidyNext ==
    ASSUME NEW rpc \in Handlers, Handlers \subseteq {Cron, rpc}
    PROVE  CheckoutInv /\ (Calm => TidyInv(rpc)) /\ [Next]_vars => (Calm' => TidyInv(rpc)')
  <1> SUFFICES ASSUME CheckoutInv, Calm => TidyInv(rpc), [Next]_vars, Calm'
               PROVE  TidyInv(rpc)'
    OBVIOUS
  <1>0. /\ TidyInv(rpc) /\ ~Crash /\ \A kind : ~Fault(kind)
        /\ Types /\ Idle.at = "idle" /\ Idle.op = "none" /\ None \notin Row
    BY Calmed, NoneAssumption DEF Idle, CheckoutInv
  <1>1. ASSUME NEW h \in Handlers, h # rpc
        PROVE  h = Cron /\ job[h].op \in {"poll", "none"}
    BY <1>0, <1>1 DEF TidyInv
  \* Polls.
  <1>2. ASSUME NEW h \in Handlers, PollCall(h)
        PROVE  TidyInv(rpc)'
    <2>1. /\ job[h].at = "idle" /\ OthersStay(h) /\ UNCHANGED <<row, dir>>
          /\ job'[h].op = "poll" /\ job'[h].at = "open" /\ OthersWait(h)
      BY <1>2, CallEffect DEF PollCall, OpKinds, Labels
    <2>2. CASE h = rpc
      BY <1>0, <2>1, <2>2, TidyRest DEF TidyInv, Resting
    <2>3. CASE h # rpc
      BY <1>0, <2>1, <2>3, TidySame DEF TidyInv, OthersStay, OthersWait
    <2> QED
      BY <2>2, <2>3
  <1>3. ASSUME NEW h \in Handlers, PollFetch(h)
        PROVE  TidyInv(rpc)'
    <2>1. /\ Goes(h, "open") /\ job[h].op = "poll" /\ row' = row
          /\ \/ GivesUp(h) /\ UNCHANGED dir
             \/ /\ Live /\ row \in Row /\ job'[h].at = "write" /\ Polled(job'[h].mat)
                /\ (FetchSucceeds(row) \/ FetchFails(row))
      BY <1>0, <1>3, PollFetchEffect
    <2>2. CASE GivesUp(h) /\ UNCHANGED dir
      <3>1. /\ OthersStay(h) /\ job'[h].op = "poll" /\ job'[h].at = "return" /\ job[h].at = "open"
            /\ stage' = stage
        BY <2>1, <2>2 DEF Goes, GivesUp
      <3>2. CASE h = rpc
        BY <1>0, <2>1, <2>2, <3>1, <3>2, TidyRest DEF TidyInv, Resting
      <3>3. CASE h # rpc
        BY <1>0, <2>1, <2>2, <3>1, <3>3, TidySame DEF TidyInv, OthersStay
      <3> QED
        BY <3>2, <3>3
    <2>3. CASE /\ Live /\ row \in Row /\ job'[h].at = "write" /\ Polled(job'[h].mat)
               /\ FetchSucceeds(row) \/ FetchFails(row)
      BY <1>0, <2>1, <2>3, FetchPlace, TidyPolled
    <2> QED
      BY <2>1, <2>2, <2>3
  <1>4. ASSUME NEW h \in Handlers, Write(h)
        PROVE  TidyInv(rpc)'
    <2>1. /\ Goes(h, "write") /\ job'[h].at = "return" /\ dir' = dir /\ job[h].at = "write"
          /\ job[h].mat \in Row /\ row' = job[h].mat
      BY <1>0, <1>4, WriteEffect DEF GivesUp, Goes
    <2>2. job[h].op # "none"
      BY <2>1 DEF CheckoutInv, Labelled
    <2>3. h = rpc \/ job[h].op = "poll"
      BY <1>1, <2>2
    <2> QED
      BY <1>0, <1>4, <2>1, <2>3, TidyPollWrites, TidyCheckouts
  \* The lock.
  <1>5. ASSUME NEW h \in Handlers, TakeLock(h)
        PROVE  TidyInv(rpc)'
    <2>1. UNCHANGED <<row, dir, job>> /\ OthersWait(h) /\ stage'[h] = "in"
      BY <1>5, TakeLockEffect
    <2> QED
      BY <1>0, <2>1, TidySame DEF TidyInv, OthersWait
  <1>6. ASSUME NEW h \in Handlers, Return(h)
        PROVE  TidyInv(rpc)'
    <2>1. /\ job[h].at = "return" /\ OthersStay(h) /\ OthersWait(h) /\ UNCHANGED <<row, dir>>
          /\ job'[h] = Idle
      BY <1>6, ReturnEffect
    <2>2. CASE h = rpc
      BY <1>0, <2>1, <2>2, TidyRest DEF TidyInv, Resting
    <2>3. CASE h # rpc
      BY <1>0, <2>1, <2>3, TidySame DEF TidyInv, OthersStay, OthersWait
    <2> QED
      BY <2>2, <2>3
  \* What only rpc does.
  <1>7. ASSUME NEW h \in Handlers,
               \/ ResetCall(h) \/ LatestCall(h) \/ AddCall(h) \/ UpdateCall(h) \/ WebhookRead(h)
        PROVE  h = rpc
    <2>1. CASE ResetCall(h) \/ LatestCall(h) \/ AddCall(h)
      <3>1. h # Cron
        BY <2>1 DEF ResetCall, LatestCall, AddCall, CallWith
      <3> QED
        BY <1>1, <3>1
    <2>2. CASE UpdateCall(h) \/ WebhookRead(h)
      BY <1>1, <2>2 DEF UpdateCall, WebhookRead
    <2> QED
      BY <1>7, <2>1, <2>2
  <1>8. ASSUME NEW h \in Handlers,
               \/ UpdateChange(h) \/ WebhookWrite(h) \/ LatestFetch(h) \/ UpdateClean(h)
               \/ UpdateReread(h) \/ CheckoutWipe(h) \/ CheckoutInit(h) \/ CheckoutFetch(h)
        PROVE  h = rpc
    <2>1. job[h].op \notin {"poll", "none"}
      BY <1>8 DEF UpdateChange, WebhookWrite, LatestFetch, UpdateClean, UpdateReread, CheckoutWipe,
                  CheckoutInit, CheckoutFetch, Holds, CheckoutInv, Labelled
    <2> QED
      BY <1>1, <2>1
  <1>9. CASE UNCHANGED vars
    BY <1>0, <1>9, TidySame DEF vars, TidyInv
  <1>10. ASSUME NEW h \in Handlers, Calls(h) \/ TakeLock(h) \/ Step(h)
         PROVE  TidyInv(rpc)'
    <2>1. CASE Calls(h)
      BY <1>0, <1>2, <1>7, <2>1, TidyCalls DEF Calls
    <2>2. CASE Step(h)
      BY <1>0, <1>3, <1>4, <1>6, <1>8, <2>2, TidyEdits, TidyCheckouts DEF Step
    <2> QED
      BY <1>5, <1>10, <2>1, <2>2
  <1> QED
    BY <1>0, <1>9, <1>10 DEF Next

\* With one client besides cron, and while nothing has failed, the volume holds
\* at rest nothing but the directory of the row, whatever the client did and
\* however the polls fell between its unlocked steps: NoOrphans.
THEOREM OrphansNone ==
    ASSUME NEW rpc \in Handlers, Handlers \subseteq {Cron, rpc}
    PROVE  SafeSpec => []NoOrphans
  <1>1. Init => TidyInv(rpc)
    <2> SUFFICES ASSUME Init PROVE TidyInv(rpc)
      OBVIOUS
    <2>1. \A h \in Handlers : job[h] = Idle /\ Idle.at = "idle" /\ Idle.op = "none"
      BY DEF Init, Idle
    <2>2. PICK u \in Urls :
             \/ row = None /\ dir = [d \in Urls |-> None]
             \/ /\ row = [NewRow(u) EXCEPT !.loc = u, !.checkedOut = TRUE]
                /\ dir = [d \in Urls |-> IF d = u THEN [origin |-> u, full |-> TRUE] ELSE None]
      BY DEF Init
    <2>3. row # None => row.url = u /\ row.loc = u /\ ~row.deleted
      BY <2>2, NewRows DEF Row
    <2>4. \A d \in Urls : dir[d] # None => row # None /\ d = u
      <3>1. [NewRow(u) EXCEPT !.loc = u, !.checkedOut = TRUE] \in Row
        BY NewRows DEF Row
      <3> QED
        BY <2>2, <3>1, NoneAssumption
    <2>5. Polls = {}
      BY <2>1 DEF Polls
    <2> QED
      BY <2>1, <2>3, <2>4, <2>5 DEF TidyInv, Resting, Rest, Live, Found
  <1>2. CheckoutInv /\ (Calm => TidyInv(rpc)) => NoOrphans
    BY DEF NoOrphans, Calm, Quiet, TidyInv, Resting, Rest
  <1>3. CheckoutInv /\ (Calm => TidyInv(rpc)) /\ [Next]_vars => (Calm => TidyInv(rpc))'
    BY TidyNext
  <1> QED
    BY <1>1, <1>2, <1>3, CheckoutInvariant, PTL DEF SafeSpec

=============================================================================
