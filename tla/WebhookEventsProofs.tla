------------------------ MODULE WebhookEventsProofs ------------------------
(***************************************************************************)
(* Proofs about WebhookEvents and the queries of WebhookQueries.           *)
(*                                                                         *)
(* EventsInv, the types with what the callback knows at each of its        *)
(* places, is below all others.  On it rest one row per event              *)
(* (RowsUnique), one active mapping per pipeline and event                 *)
(* (MappingsUnique, from FoundOK), the mapping before the message          *)
(* (MappedFirst, StoredOK), one message per delivery (BuiltOnce, OnceOK),  *)
(* lists that fit the filter results (PayloadsAlwaysFit; RoundOK, NamedOK, *)
(* ResultsOK) and that who was told of an event finds it (ToldAreShown;    *)
(* WrittenOK, ShownOK).                                                    *)
(***************************************************************************)
EXTENDS WebhookQueries, SequenceTheorems, FiniteSetTheorems, TLAPS

-----------------------------------------------------------------------------
(* What the callback remembers. *)

Labels == {"idle", "name", "event", "find", "pipeline", "map", "inactivate", "results",
           "notify", "done"}

\* The values of some pipelines, and the outcomes of some selectors.
RowSets == UNION {[S -> PipelineValues] : S \in SUBSET Pipelines}
Outcomes == UNION {[S -> BOOLEAN] : S \in SUBSET ActiveSelectors}

Job == [at: Labels, msg: Messages \cup {0}, unnamed: SUBSET EventIds, events: SUBSET Events,
        event: Events \cup {Blank}, found: SUBSET Nat, data: Nat, rows: RowSets,
        pipeline: Pipelines \cup {Blank}, row: Nat, matched: BOOLEAN, results: Outcomes]

LEMMA RowSetOf ==
    /\ \A S \in SUBSET Pipelines : \A f \in [S -> PipelineValues] : f \in RowSets
    /\ \A f \in RowSets : DOMAIN f \subseteq Pipelines /\ f \in [DOMAIN f -> PipelineValues]
  BY DEF RowSets

LEMMA OutcomeOf ==
    /\ \A S \in SUBSET ActiveSelectors : \A f \in [S -> BOOLEAN] : f \in Outcomes
    /\ \A f \in Outcomes : DOMAIN f \subseteq ActiveSelectors /\ f \in [DOMAIN f -> BOOLEAN]
  BY DEF Outcomes

\* The empty sequence has no pipeline and no selector in its domain.
LEMMA EmptyFcn == <<>> \in RowSets /\ <<>> \in Outcomes /\ DOMAIN <<>> = {}
  <1>1. DOMAIN <<>> = {}
    OBVIOUS
  <1>2. <<>> = [x \in {} |-> x]
    OBVIOUS
  <1>3. [x \in {} |-> x] \in [{} -> PipelineValues] /\ [x \in {} |-> x] \in [{} -> BOOLEAN]
    OBVIOUS
  <1> QED
    BY <1>1, <1>2, <1>3, RowSetOf, OutcomeOf

LEMMA IdleJob ==
    /\ Idle \in Job
    /\ Idle.at = "idle" /\ Idle.msg = 0 /\ Idle.unnamed = {} /\ Idle.events = {}
    /\ Idle.event = Blank /\ Idle.found = {} /\ Idle.data = 0 /\ Idle.rows = <<>>
    /\ Idle.pipeline = Blank /\ Idle.row = 0 /\ Idle.matched = FALSE /\ Idle.results = <<>>
  BY EmptyFcn DEF Idle, Job, Labels

-----------------------------------------------------------------------------
(* The type invariant. *)

Parsed == [event: Events, uid: Uids, by: Messages]
Mapping == [pipeline: Pipelines, data: Nat, matched: BOOLEAN, active: BOOLEAN]
Client ==
    [at: {"idle"}] \cup [at: {"mappings", "row", "read", "write"}, pipeline: Pipelines, value: PipelineValues]

Types ==
    /\ msgs \in [Messages -> [uid: Uids, content: Contents]]
    /\ named \subseteq EventIds
    /\ copies \in [Messages -> Nat]
    /\ parsed \in Seq(Parsed) /\ mapping \in Seq(Mapping) /\ results \in Seq(Seq(Outcomes))
    /\ Len(results) = Len(mapping)
    /\ pipe \in [Pipelines -> PipelineValues]
    /\ told \in [Pipelines -> [Messages -> 0..2]]
    /\ job \in Job
    /\ client \in Client
    /\ saves \in Nat /\ happened \subseteq Faults

\* Where the callback is and what it has found.
Labelled ==
    /\ job.at # "idle" => job.msg \in Messages /\ copies[job.msg] > 0
    /\ job.at \in {"find", "pipeline", "map", "inactivate", "results", "notify"} =>
          job.event \in Events
    /\ job.at \in {"map", "inactivate", "results", "notify"} => job.pipeline \in Pipelines
    /\ job.at = "map" => /\ job.found \subseteq 1..Len(mapping)
                         /\ \A m \in job.found : /\ mapping[m].pipeline = job.pipeline
                                                 /\ mapping[m].data = job.data
    /\ job.at \in {"inactivate", "results"} => job.row \in 1..Len(mapping)
    /\ job.data \in 0..Len(parsed)

\* Mappings are of parsed data.
DataOK == \A m \in 1..Len(mapping) : mapping[m].data \in 1..Len(parsed)

\* As long as SavePipelineMaterial was not called, a checkout has read the rows as
\* they are.
CopiesOK ==
    saves = 0 => /\ client.at = "idle"
                 /\ \A p \in Pipelines : checkout.out[p] \in {Inactive, pipe[p]}

MaterialOK ==
    /\ checkedOut \in BOOLEAN /\ errored \subseteq Pipelines
    /\ checkout \in [at: {"idle", "read"}, todo: SUBSET Pipelines,
                     out: [Pipelines -> PipelineValues]]
    /\ checkouts \in Nat
    /\ CopiesOK

EventsInv == Types /\ Labelled /\ DataOK /\ MaterialOK

LEMMA InvType == EventsInv => TypeOK
  <1> SUFFICES ASSUME EventsInv PROVE TypeOK
    OBVIOUS
  <1>0. /\ DOMAIN parsed = 1..Len(parsed) /\ DOMAIN mapping = 1..Len(mapping)
        /\ DOMAIN results = 1..Len(results)
    BY LenProperties DEF EventsInv, Types
  <1>1. \A d \in DOMAIN parsed : parsed[d] \in [event: Events, uid: Uids, by: Messages]
    BY <1>0, ElementOfSeq DEF EventsInv, Types, Parsed
  <1>2. \A m \in DOMAIN mapping :
          mapping[m] \in
             [pipeline: Pipelines, data: DOMAIN parsed, matched: BOOLEAN, active: BOOLEAN]
    <2>1. \A m \in DOMAIN mapping : mapping[m] \in Mapping /\ mapping[m].data \in DOMAIN parsed
      BY <1>0, ElementOfSeq DEF EventsInv, Types, DataOK
    <2> QED
      BY <2>1 DEF Mapping
  <1>3. JobOK
    <2>1. DOMAIN job.rows \subseteq Pipelines
      BY RowSetOf DEF EventsInv, Types, Job
    <2> QED
      BY <1>0, <2>1 DEF EventsInv, Types, Job, Labels, Labelled, JobOK
  <1> QED
    BY <1>0, <1>1, <1>2, <1>3 DEF EventsInv, Types, MaterialOK, TypeOK

-----------------------------------------------------------------------------
(* Sequences. *)

LEMMA Appends ==
    ASSUME NEW S, NEW s \in Seq(S), NEW x \in S
    PROVE  /\ Append(s, x) \in Seq(S) /\ Len(Append(s, x)) = Len(s) + 1
           /\ \A i \in 1..Len(s) : Append(s, x)[i] = s[i]
           /\ Append(s, x)[Len(s) + 1] = x
           /\ Len(s) + 1 \in 1..Len(Append(s, x))
  BY AppendProperties, LenProperties

LEMMA Overwrites ==
    ASSUME NEW S, NEW s \in Seq(S), NEW i \in 1..Len(s), NEW x \in S
    PROVE  /\ [s EXCEPT ![i] = x] \in Seq(S) /\ Len([s EXCEPT ![i] = x]) = Len(s)
           /\ [s EXCEPT ![i] = x][i] = x
           /\ \A k \in 1..Len(s) : k # i => [s EXCEPT ![i] = x][k] = s[k]
  BY ExceptSeq, LenProperties

-----------------------------------------------------------------------------
(* What the steps of the callback do.                                        *)

\* The locals that are set for one event, at their initial values.
Blanked == /\ job'.unnamed = {} /\ job'.found = {} /\ job'.pipeline = Blank /\ job'.row = 0
           /\ job'.matched = FALSE /\ job'.results = <<>>

LEMMA LoopEffect ==
    ASSUME Types, NEW rows \in RowSets, Loop(rows)
    PROVE  /\ job' \in Job /\ job'.msg = job.msg /\ job'.events = job.events /\ job'.rows = rows
           /\ Blanked
           /\ \/ /\ rows = <<>> /\ job'.at = "event" /\ job'.event = Blank /\ job'.data = 0
              \/ /\ rows # <<>> /\ job'.at = "pipeline" /\ job'.event = job.event
                 /\ job'.data = job.data
  <1> DEFINE at == IF rows = <<>> THEN "event" ELSE "pipeline"
             event == IF rows = <<>> THEN Blank ELSE job.event
             data == IF rows = <<>> THEN 0 ELSE job.data
             j == [Idle EXCEPT !.msg = job.msg, !.events = job.events, !.at = at, !.rows = rows,
                               !.event = event, !.data = data]
  <1>1. job \in Job
    BY DEF Types
  <1>2. at \in Labels /\ event \in Events \cup {Blank} /\ data \in Nat
    BY <1>1 DEF Labels, Job
  <1>3. job' = j
    BY DEF Loop, Become
  <1> HIDE DEF at, event, data
  <1>4. /\ j \in Job /\ j.msg = job.msg /\ j.events = job.events /\ j.at = at /\ j.rows = rows
        /\ j.event = event /\ j.data = data
        /\ j.unnamed = {} /\ j.found = {} /\ j.pipeline = Blank /\ j.row = 0
        /\ j.matched = FALSE /\ j.results = <<>>
    BY <1>1, <1>2, IdleJob DEF Job
  <1> HIDE DEF j
  <1> QED
    BY <1>3, <1>4 DEF at, event, data, Blanked

LEMMA ReturnEffect ==
    ASSUME Types, Return
    PROVE  /\ job' \in Job /\ job'.at = "done" /\ job'.msg = job.msg
           /\ job'.events = {} /\ job'.event = Blank /\ job'.data = 0 /\ job'.rows = <<>>
           /\ Blanked
  <1>1. job \in Job /\ "done" \in Labels
    BY DEF Types, Labels
  <1> DEFINE j == [Idle EXCEPT !.at = "done", !.msg = job.msg]
  <1>2. /\ j \in Job /\ j.at = "done" /\ j.msg = job.msg
        /\ j.events = {} /\ j.event = Blank /\ j.data = 0 /\ j.rows = <<>>
        /\ j.unnamed = {} /\ j.found = {} /\ j.pipeline = Blank /\ j.row = 0
        /\ j.matched = FALSE /\ j.results = <<>>
    BY <1>1, IdleJob DEF Job
  <1>3. job' = j
    BY DEF Return
  <1> HIDE DEF j
  <1> QED
    BY <1>2, <1>3 DEF Blanked

LEMMA DeliverEffect ==
    ASSUME Types, Deliver
    PROVE  /\ job.at = "idle" /\ job' \in Job /\ job'.msg \in Messages /\ copies[job'.msg] > 0
           /\ job'.event = Blank /\ job'.data = 0 /\ job'.rows = <<>>
           /\ job'.found = {} /\ job'.pipeline = Blank /\ job'.row = 0
           /\ job'.matched = FALSE /\ job'.results = <<>>
           /\ \/ /\ named = {} /\ job'.at = "name" /\ job'.unnamed = EventIds
                 /\ job'.events = Events
              \/ /\ named # {} /\ job'.at = "event" /\ job'.unnamed = {}
                 /\ job'.events = named \cap Events
           /\ UNCHANGED <<msgs, named, copies, tables, pipe, client, told, saves, happened>>
  <1>1. PICK x \in Messages : copies[x] > 0 /\ job' = Handling(x)
    BY DEF Deliver, Become
  <1> DEFINE at == IF named = {} THEN "name" ELSE "event"
             unnamed == IF named = {} THEN EventIds ELSE {}
             events == IF named = {} THEN Events ELSE named \cap Events
             j == [Idle EXCEPT !.msg = x, !.at = at, !.unnamed = unnamed, !.events = events]
  <1>2. at \in Labels /\ unnamed \subseteq EventIds /\ events \subseteq Events
    BY DEF Labels
  <1>3. job' = j
    BY <1>1 DEF Handling
  <1> HIDE DEF at, unnamed, events
  <1>4. /\ j \in Job /\ j.msg = x /\ j.at = at /\ j.unnamed = unnamed /\ j.events = events
        /\ j.event = Blank /\ j.data = 0 /\ j.rows = <<>>
        /\ j.found = {} /\ j.pipeline = Blank /\ j.row = 0
        /\ j.matched = FALSE /\ j.results = <<>>
    BY <1>2, IdleJob DEF Job
  <1> HIDE DEF j
  <1>5. /\ job' \in Job /\ job'.msg = x /\ job'.at = at /\ job'.unnamed = unnamed
        /\ job'.events = events
        /\ job'.event = Blank /\ job'.data = 0 /\ job'.rows = <<>>
        /\ job'.found = {} /\ job'.pipeline = Blank /\ job'.row = 0
        /\ job'.matched = FALSE /\ job'.results = <<>>
    BY <1>3, <1>4
  <1> QED
    BY <1>1, <1>5 DEF Deliver, at, unnamed, events

LEMMA NameEffect ==
    ASSUME Types, Name
    PROVE  /\ job.at = "name" /\ job' \in Job
           /\ \E e \in job.unnamed :
                 /\ job'.unnamed = job.unnamed \ {e}
                 /\ job'.at = IF job.unnamed = {e} THEN "event" ELSE "name"
                 /\ \/ named' = named \cup {e} /\ UNCHANGED happened
                    \/ Fault("db") /\ UNCHANGED named
           /\ job'.msg = job.msg /\ job'.events = job.events /\ job'.event = job.event
           /\ job'.data = job.data /\ job'.rows = job.rows /\ job'.found = job.found
           /\ job'.pipeline = job.pipeline /\ job'.row = job.row
           /\ job'.matched = job.matched /\ job'.results = job.results
           /\ UNCHANGED <<msgs, copies, tables, pipe, client, told, saves>>
  <1>1. PICK e \in job.unnamed :
           /\ job' = [job EXCEPT !.unnamed = @ \ {e},
                                 !.at = IF job.unnamed = {e} THEN "event" ELSE "name"]
           /\ \/ named' = named \cup {e} /\ UNCHANGED happened
              \/ Fault("db") /\ UNCHANGED named
    BY DEF Name, Become
  <1> DEFINE at == IF job.unnamed = {e} THEN "event" ELSE "name"
             unnamed == job.unnamed \ {e}
             j == [job EXCEPT !.unnamed = unnamed, !.at = at]
  <1>2. job \in Job /\ at \in Labels
    BY DEF Labels, Types
  <1>3. unnamed \in SUBSET EventIds
    BY <1>2 DEF Job
  <1>4. job' = j
    BY <1>1
  <1> HIDE DEF at, unnamed
  <1>5. /\ j \in Job /\ j.unnamed = unnamed /\ j.at = at
        /\ j.msg = job.msg /\ j.events = job.events /\ j.event = job.event
        /\ j.data = job.data /\ j.rows = job.rows /\ j.found = job.found
        /\ j.pipeline = job.pipeline /\ j.row = job.row
        /\ j.matched = job.matched /\ j.results = job.results
    BY <1>2, <1>3 DEF Job
  <1> HIDE DEF j
  <1> QED
    BY <1>1, <1>4, <1>5 DEF Name, at, unnamed

LEMMA AckEffect ==
    ASSUME Types, Ack
    PROVE  /\ job.at = "done" \/ (job.at = "event" /\ job.events = {})
           /\ copies' = [copies EXCEPT ![job.msg] = @ - 1]
           /\ job' = Idle
           /\ UNCHANGED <<msgs, named, tables, pipe, client, told, saves, happened>>
  BY DEF Ack, Acknowledged, Become

\* The locals that SaveParsed leaves alone.
LEMMA SaveParsedEffect ==
    ASSUME Types, SaveParsed
    PROVE  /\ job.at = "event" /\ job' \in Job /\ job'.at = "find" /\ job'.msg = job.msg
           /\ job'.rows = job.rows
           /\ \E e \in job.events :
                 /\ job'.event = e /\ job'.events = job.events \ {e} /\ e \in Events
                 /\ LET new == [event |-> e, uid |-> msgs[job.msg].uid, by |-> job.msg]
                        found == FoundParsed(e, new.uid)
                    IN \/ /\ found = {} /\ parsed' = Append(parsed, new)
                          /\ job'.data = Len(parsed) + 1 /\ UNCHANGED happened
                       \/ \E id \in found :
                             /\ parsed' = [parsed EXCEPT ![id] = new] /\ UNCHANGED happened
                             /\ job'.data = id
                       \/ /\ Fault("save") /\ UNCHANGED parsed
                          /\ job'.data \in found \cup {0}
                          /\ job'.data = 0 => found = {}
           /\ UNCHANGED <<msgs, named, copies, mapping, results, pipe, client, told, saves>>
  <1>1. job \in Job /\ Len(parsed) \in Nat /\ DOMAIN parsed = 1..Len(parsed)
    BY LenProperties DEF Types
  <1>2. PICK e \in job.events :
          LET new == [event |-> e, uid |-> msgs[job.msg].uid, by |-> job.msg]
              found == FoundParsed(e, new.uid)
              id == IF found = {} THEN Len(parsed) + 1 ELSE CHOOSE d \in found : TRUE
              saved(d) == Become([job EXCEPT !.at = "find", !.event = e, !.events = @ \ {e},
                                             !.data = d])
          IN \/ /\ parsed' = IF found = {} THEN Append(parsed, new) ELSE [parsed EXCEPT ![id] = new]
                /\ saved(id)
                /\ UNCHANGED happened
             \/ /\ Fault("save")
                /\ saved(IF found = {} THEN 0 ELSE id)
                /\ UNCHANGED parsed
    BY DEF SaveParsed
  <1> DEFINE new == [event |-> e, uid |-> msgs[job.msg].uid, by |-> job.msg]
             found == FoundParsed(e, new.uid)
             id == IF found = {} THEN Len(parsed) + 1 ELSE CHOOSE d \in found : TRUE
             j(d) == [job EXCEPT !.at = "find", !.event = e, !.events = @ \ {e}, !.data = d]
  <1>3. \/ /\ parsed' = IF found = {} THEN Append(parsed, new) ELSE [parsed EXCEPT ![id] = new]
           /\ job' = j(id)
           /\ UNCHANGED happened
        \/ /\ Fault("save")
           /\ job' = j(IF found = {} THEN 0 ELSE id)
           /\ UNCHANGED parsed
    BY <1>2 DEF Become
  <1>4. found \subseteq 1..Len(parsed)
    BY <1>1 DEF FoundParsed
  <1>5. found # {} => id \in found
    OBVIOUS
  <1>6. id \in Nat /\ id # 0
    BY <1>1, <1>4, <1>5
  <1>7. \A d \in Nat : /\ j(d) \in Job /\ j(d).at = "find" /\ j(d).msg = job.msg
                       /\ j(d).rows = job.rows
                       /\ j(d).event = e /\ j(d).events = job.events \ {e} /\ j(d).data = d
    <2>1. e \in Events /\ "find" \in Labels
      BY <1>1 DEF Job, Labels
    <2> QED
      BY <1>1, <2>1 DEF Job
  <1>8. e \in Events
    BY <1>1 DEF Job
  <1>9. found = {} => id = Len(parsed) + 1
    OBVIOUS
  <1>10. UNCHANGED <<msgs, named, copies, mapping, results, pipe, client, told, saves>>
         /\ job.at = "event"
    BY DEF SaveParsed
  <1> HIDE DEF j, id, found
  <1>11. CASE /\ parsed' = IF found = {} THEN Append(parsed, new) ELSE [parsed EXCEPT ![id] = new]
              /\ job' = j(id)
              /\ UNCHANGED happened
    <2>1. /\ job' \in Job /\ job'.at = "find" /\ job'.msg = job.msg /\ job'.rows = job.rows
          /\ job'.event = e /\ job'.events = job.events \ {e} /\ job'.data = id
      BY <1>6, <1>7, <1>11
    <2>2. CASE found = {}
      BY <1>8, <1>9, <1>10, <1>11, <2>1, <2>2 DEF found
    <2>3. CASE found # {}
      BY <1>5, <1>8, <1>10, <1>11, <2>1, <2>3 DEF found
    <2> QED
      BY <2>2, <2>3
  <1>12. CASE /\ Fault("save")
              /\ job' = j(IF found = {} THEN 0 ELSE id)
              /\ UNCHANGED parsed
    <2> DEFINE d == IF found = {} THEN 0 ELSE id
    <2>1. d \in Nat /\ d \in found \cup {0} /\ (d = 0 => found = {})
      BY <1>5, <1>6
    <2> HIDE DEF d
    <2>2. /\ job' \in Job /\ job'.at = "find" /\ job'.msg = job.msg /\ job'.rows = job.rows
          /\ job'.event = e /\ job'.events = job.events \ {e} /\ job'.data = d
      BY <1>7, <1>12, <2>1 DEF d
    <2> QED
      BY <1>8, <1>10, <1>12, <2>1, <2>2 DEF found
  <1> QED
    BY <1>3, <1>11, <1>12

LEMMA FindEffect ==
    ASSUME Types, FindMaterials
    PROVE  /\ job.at = "find" /\ job' \in Job /\ job'.msg = job.msg /\ job'.events = job.events
           /\ Blanked
           /\ job'.rows = [p \in {p \in Pipelines : pipe[p] # Inactive} |-> pipe[p]]
           /\ \/ /\ job'.rows = <<>> /\ job'.at = "event" /\ job'.event = Blank /\ job'.data = 0
              \/ /\ job'.rows # <<>> /\ job'.at = "pipeline" /\ job'.event = job.event
                 /\ job'.data = job.data
           /\ UNCHANGED <<msgs, named, copies, tables, pipe, client, told, saves, happened>>
  <1> DEFINE active == {p \in Pipelines : pipe[p] # Inactive}
             rows == [p \in active |-> pipe[p]]
  <1>1. rows \in RowSets
    <2>1. active \in SUBSET Pipelines
      OBVIOUS
    <2>2. rows \in [active -> PipelineValues]
      BY <2>1 DEF Types
    <2> QED
      BY <2>1, <2>2, RowSetOf
  <1>2. Loop(rows)
    BY DEF FindMaterials
  <1> HIDE DEF rows
  <1>3. /\ job' \in Job /\ job'.msg = job.msg /\ job'.events = job.events /\ job'.rows = rows
        /\ Blanked
        /\ \/ /\ rows = <<>> /\ job'.at = "event" /\ job'.event = Blank /\ job'.data = 0
           \/ /\ rows # <<>> /\ job'.at = "pipeline" /\ job'.event = job.event
              /\ job'.data = job.data
    BY <1>1, <1>2, LoopEffect
  <1> QED
    BY <1>3 DEF FindMaterials, rows

\* The outcomes of a filter are those of active selectors.
LEMMA Filtered ==
    ASSUME NEW e, NEW c, NEW v
    PROVE  /\ FilterResults(e, c, v) \in Outcomes
           /\ OverallMatch(e, c, v) \in BOOLEAN
  <1>1. [s \in Relevant(v) |-> c[s] \in v.condition[s]] \in Outcomes
    <2>1. Relevant(v) \in SUBSET ActiveSelectors
      BY DEF Relevant
    <2>2. [s \in Relevant(v) |-> c[s] \in v.condition[s]] \in [Relevant(v) -> BOOLEAN]
      OBVIOUS
    <2> QED
      BY <2>1, <2>2, OutcomeOf
  <1> QED
    BY <1>1, EmptyFcn DEF FilterResults, OverallMatch

LEMMA MatchEffect ==
    ASSUME Types, Match
    PROVE  /\ job.at = "pipeline"
           /\ \/ Return /\ \E p \in DOMAIN job.rows : job.rows[p] = Malformed
              \/ \E p \in DOMAIN job.rows :
                    /\ job' \in Job /\ job'.at = "map" /\ job'.msg = job.msg
                    /\ job'.events = job.events /\ job'.event = job.event /\ job'.data = job.data
                    /\ p \in Pipelines /\ job'.pipeline = p /\ job.rows[p] # Malformed
                    /\ job'.rows = [q \in DOMAIN job.rows \ {p} |-> job.rows[q]]
                    /\ job'.found = FoundMapping(p, job.data)
                    /\ job'.matched = OverallMatch(job.event, msgs[job.msg].content, job.rows[p])
                    /\ job'.results = FilterResults(job.event, msgs[job.msg].content, job.rows[p])
           /\ UNCHANGED <<msgs, named, copies, tables, pipe, client, told, saves, happened>>
  <1>1. /\ job \in Job /\ DOMAIN job.rows \subseteq Pipelines
        /\ job.rows \in [DOMAIN job.rows -> PipelineValues]
    BY RowSetOf DEF Types, Job
  <1>2. ASSUME ~(Return /\ \E p \in DOMAIN job.rows : job.rows[p] = Malformed)
        PROVE  \E p \in DOMAIN job.rows :
                    /\ job' \in Job /\ job'.at = "map" /\ job'.msg = job.msg
                    /\ job'.events = job.events /\ job'.event = job.event /\ job'.data = job.data
                    /\ p \in Pipelines /\ job'.pipeline = p /\ job.rows[p] # Malformed
                    /\ job'.rows = [q \in DOMAIN job.rows \ {p} |-> job.rows[q]]
                    /\ job'.found = FoundMapping(p, job.data)
                    /\ job'.matched = OverallMatch(job.event, msgs[job.msg].content, job.rows[p])
                    /\ job'.results = FilterResults(job.event, msgs[job.msg].content, job.rows[p])
    <2>1. PICK p \in DOMAIN job.rows :
            /\ job.rows[p] # Malformed
            /\ LET c == msgs[job.msg].content IN
               job' = [job EXCEPT
                  !.at = "map", !.pipeline = p,
                  !.rows = [q \in DOMAIN @ \ {p} |-> @[q]],
                  !.found = FoundMapping(p, job.data),
                  !.matched = OverallMatch(job.event, c, job.rows[p]),
                  !.results = FilterResults(job.event, c, job.rows[p])]
      BY <1>2 DEF Match, Become
    <2> DEFINE rows == [q \in DOMAIN job.rows \ {p} |-> job.rows[q]]
               found == FoundMapping(p, job.data)
               matched == OverallMatch(job.event, msgs[job.msg].content, job.rows[p])
               outcome == FilterResults(job.event, msgs[job.msg].content, job.rows[p])
               j == [job EXCEPT !.at = "map", !.pipeline = p, !.rows = rows, !.found = found,
                                !.matched = matched, !.results = outcome]
    <2>2. job' = j
      BY <2>1
    <2>3. rows \in RowSets
      <3>1. rows \in [DOMAIN job.rows \ {p} -> PipelineValues]
        BY <1>1
      <3> QED
        BY <1>1, <3>1, RowSetOf
    <2>4. found \in SUBSET Nat
      <3>1. DOMAIN mapping = 1..Len(mapping) /\ Len(mapping) \in Nat
        BY LenProperties DEF Types
      <3> QED
        BY <3>1 DEF FoundMapping
    <2>5. matched \in BOOLEAN /\ outcome \in Outcomes
      BY Filtered
    <2>6. p \in Pipelines /\ "map" \in Labels
      BY <1>1, <2>1 DEF Labels
    <2> HIDE DEF rows, found, matched, outcome
    <2>7. /\ j \in Job /\ j.at = "map" /\ j.msg = job.msg /\ j.events = job.events
          /\ j.event = job.event /\ j.data = job.data /\ j.pipeline = p /\ j.rows = rows
          /\ j.found = found /\ j.matched = matched /\ j.results = outcome
      BY <1>1, <2>3, <2>4, <2>5, <2>6 DEF Job
    <2> HIDE DEF j
    <2>8. /\ job' \in Job /\ job'.at = "map" /\ job'.msg = job.msg /\ job'.events = job.events
          /\ job'.event = job.event /\ job'.data = job.data /\ job'.pipeline = p /\ job'.rows = rows
          /\ job'.found = found /\ job'.matched = matched /\ job'.results = outcome
      BY <2>2, <2>7
    <2> QED
      BY <2>1, <2>6, <2>8 DEF rows, found, matched, outcome
  <1> QED
    BY <1>2 DEF Match

\* The locals of a round of the loop over the pipelines.
Follow == /\ job'.msg = job.msg /\ job'.events = job.events /\ job'.event = job.event
          /\ job'.data = job.data /\ job'.rows = job.rows /\ job'.pipeline = job.pipeline
          /\ job'.matched = job.matched

NewMapping == [pipeline |-> job.pipeline, data |-> job.data, matched |-> job.matched,
               active |-> TRUE]

LEMMA SaveMappingEffect ==
    ASSUME Types, SaveMapping
    PROVE  /\ job.at = "map"
           /\ \/ /\ job' \in Job /\ job'.at = "inactivate" /\ Follow /\ job'.results = job.results
                 /\ job'.row \in job.found /\ job'.found = {}
                 /\ mapping' = [mapping EXCEPT ![job'.row] = NewMapping] /\ UNCHANGED results
              \/ /\ job.found = {} /\ job.data = 0 /\ Return /\ UNCHANGED <<mapping, results>>
              \/ /\ job' \in Job /\ job'.at = "results" /\ Follow /\ job'.results = job.results
                 /\ job.found = {} /\ job'.found = {} /\ job.data # 0
                 /\ job'.row = Len(mapping) + 1
                 /\ mapping' = Append(mapping, NewMapping) /\ results' = Append(results, <<>>)
           /\ UNCHANGED <<msgs, named, copies, parsed, pipe, client, told, saves, happened>>
  <1>1. job \in Job /\ {"inactivate", "results"} \subseteq Labels /\ Len(mapping) + 1 \in Nat
    BY LenProperties DEF Types, Labels
  <1> DEFINE old == CHOOSE m \in job.found : TRUE
             found(r) == [job EXCEPT !.at = "inactivate", !.row = r, !.found = {}]
             new(r) == [job EXCEPT !.at = "results", !.row = r]
  <1>2. job.found # {} => old \in job.found /\ old \in Nat
    BY <1>1 DEF Job
  <1>3. \A r \in Nat :
          /\ found(r) \in Job /\ found(r).at = "inactivate" /\ found(r).row = r
          /\ found(r).found = {} /\ found(r).msg = job.msg /\ found(r).events = job.events
          /\ found(r).event = job.event /\ found(r).data = job.data /\ found(r).rows = job.rows
          /\ found(r).pipeline = job.pipeline /\ found(r).matched = job.matched
          /\ found(r).results = job.results
    BY <1>1 DEF Job
  <1>4. \A r \in Nat :
          /\ new(r) \in Job /\ new(r).at = "results" /\ new(r).row = r
          /\ new(r).found = job.found /\ new(r).msg = job.msg /\ new(r).events = job.events
          /\ new(r).event = job.event /\ new(r).data = job.data /\ new(r).rows = job.rows
          /\ new(r).pipeline = job.pipeline /\ new(r).matched = job.matched
          /\ new(r).results = job.results
    BY <1>1 DEF Job
  <1>5. /\ job.at = "map"
        /\ UNCHANGED <<msgs, named, copies, parsed, pipe, client, told, saves, happened>>
        /\ IF job.found # {} THEN
             /\ mapping' = [mapping EXCEPT ![old] = NewMapping]
             /\ job' = found(old)
             /\ UNCHANGED results
          ELSE IF job.data = 0 THEN
             /\ Return
             /\ UNCHANGED <<mapping, results>>
          ELSE
             /\ mapping' = Append(mapping, NewMapping)
             /\ results' = Append(results, <<>>)
             /\ job' = new(Len(mapping) + 1)
    BY DEF SaveMapping, Become, Remapped, NewMapping
  <1> HIDE DEF old, found, new
  <1>6. CASE job.found # {}
    BY <1>2, <1>3, <1>5, <1>6 DEF Follow
  <1>7. CASE job.found = {} /\ job.data = 0
    BY <1>5, <1>7
  <1>8. CASE job.found = {} /\ job.data # 0
    BY <1>1, <1>4, <1>5, <1>8 DEF Follow
  <1> QED
    BY <1>6, <1>7, <1>8

LEMMA InactivateEffect ==
    ASSUME Types, Inactivate
    PROVE  /\ job.at = "inactivate" /\ job' \in Job /\ job'.at = "results" /\ Follow
           /\ job'.row = job.row /\ job'.results = job.results
           /\ results' = [results EXCEPT ![job.row] = <<>>]
           /\ UNCHANGED <<msgs, named, copies, parsed, mapping, pipe, client, told, saves, happened>>
  <1>1. job \in Job /\ "results" \in Labels
    BY DEF Types, Labels
  <1> DEFINE j == [job EXCEPT !.at = "results"]
  <1>2. /\ j \in Job /\ j.at = "results" /\ j.msg = job.msg /\ j.events = job.events
        /\ j.event = job.event /\ j.data = job.data /\ j.rows = job.rows
        /\ j.pipeline = job.pipeline /\ j.matched = job.matched
        /\ j.row = job.row /\ j.results = job.results
    BY <1>1 DEF Job
  <1>3. job' = j
    BY DEF Inactivate, Become
  <1> HIDE DEF j
  <1> QED
    BY <1>2, <1>3 DEF Follow, Inactivate, InactivateResults

LEMMA SaveResultsEffect ==
    ASSUME Types, SaveResults
    PROVE  /\ job.at = "results" /\ job' \in Job /\ job'.at = "notify" /\ Follow
           /\ results' = IF job.results = <<>> THEN results
                         ELSE [results EXCEPT ![job.row] = Append(results[job.row], job.results)]
           /\ UNCHANGED <<msgs, named, copies, parsed, mapping, pipe, client, told, saves, happened>>
  <1>1. job \in Job /\ "notify" \in Labels
    BY DEF Types, Labels
  <1> DEFINE j == [job EXCEPT !.at = "notify", !.row = 0, !.results = <<>>]
  <1>2. /\ j \in Job /\ j.at = "notify" /\ j.msg = job.msg /\ j.events = job.events
        /\ j.event = job.event /\ j.data = job.data /\ j.rows = job.rows
        /\ j.pipeline = job.pipeline /\ j.matched = job.matched
    BY <1>1, EmptyFcn DEF Job
  <1>3. job' = j
    BY DEF SaveResults, Become
  <1> HIDE DEF j
  <1> QED
    BY <1>2, <1>3 DEF Follow, SaveResults

\* The counter of the messages published for the pipeline and the webhook message.
LEMMA NotifyEffect ==
    ASSUME Types, Notify
    PROVE  /\ job.at = "notify" /\ job' \in Job /\ job'.msg = job.msg
           /\ job'.events = job.events /\ job'.rows = job.rows /\ Blanked
           /\ \/ /\ job.rows = <<>> /\ job'.at = "event" /\ job'.event = Blank /\ job'.data = 0
              \/ /\ job.rows # <<>> /\ job'.at = "pipeline" /\ job'.event = job.event
                 /\ job'.data = job.data
           /\ \/ /\ job.matched /\ UNCHANGED happened
                 /\ told' = [told EXCEPT ![job.pipeline][job.msg] = IF @ = 2 THEN 2 ELSE @ + 1]
              \/ ~job.matched /\ UNCHANGED <<told, happened>>
              \/ job.matched /\ Fault("publish") /\ UNCHANGED told
           /\ UNCHANGED <<msgs, named, copies, tables, pipe, client, saves>>
  <1>1. job.rows \in RowSets
    BY DEF Types, Job
  <1>2. Loop(job.rows)
    BY DEF Notify
  <1>3. /\ job' \in Job /\ job'.msg = job.msg /\ job'.events = job.events
        /\ job'.rows = job.rows
        /\ Blanked
        /\ \/ /\ job.rows = <<>> /\ job'.at = "event" /\ job'.event = Blank /\ job'.data = 0
           \/ /\ job.rows # <<>> /\ job'.at = "pipeline" /\ job'.event = job.event
              /\ job'.data = job.data
    BY <1>1, <1>2, LoopEffect
  <1> QED
    BY <1>3 DEF Notify

-----------------------------------------------------------------------------
(* What a call of SavePipelineMaterial does. *)

LEMMA SaveCallEffect ==
    ASSUME Types, SaveCall
    PROVE  /\ client.at = "idle" /\ client'.at \in {"mappings", "row"}
           /\ client'.pipeline \in Pipelines /\ client'.value \in PipelineValues
           /\ client' \in Client
           /\ client'.at = "row" =>
                 client'.value \in {pipe[client'.pipeline], Inactive}
           /\ saves + checkouts < MaxCalls /\ saves' = saves + 1
           /\ UNCHANGED <<msgs, named, copies, tables, pipe, job, told, happened>>
  <1>1. PICK new \in Edits : \E l \in {"mappings", "row"} :
           /\ client' = [at |-> l, pipeline |-> new.pipeline, value |-> new.value]
           /\ l = "row" => new.value \in {pipe[new.pipeline], Inactive}
    BY DEF SaveCall
  <1>2. new.pipeline \in Pipelines /\ new.value \in PipelineValues
    BY WebhookAssumption
  <1> QED
    BY <1>1, <1>2 DEF SaveCall, Client

\* The mappings of the client's pipeline are turned off.
LEMMA SaveMappingsEffect ==
    ASSUME Types, SaveMappings
    PROVE  /\ client.at = "mappings" /\ client'.at = "row"
           /\ client'.pipeline = client.pipeline /\ client'.value = client.value
           /\ client' \in Client
           /\ mapping' \in Seq(Mapping) /\ Len(mapping') = Len(mapping)
           /\ \A m \in 1..Len(mapping) :
                 /\ mapping'[m].pipeline = mapping[m].pipeline
                 /\ mapping'[m].data = mapping[m].data
                 /\ mapping'[m].matched = mapping[m].matched
                 /\ mapping'[m].active =
                       (mapping[m].active /\ mapping[m].pipeline # client.pipeline)
           /\ UNCHANGED <<msgs, named, copies, parsed, results, pipe, job, told, saves, happened>>
  <1> DEFINE off(m) == [mapping[m] EXCEPT !.active = FALSE]
             after(m) == IF mapping[m].pipeline = client.pipeline THEN off(m) ELSE mapping[m]
  <1>1. DOMAIN mapping = 1..Len(mapping) /\ Len(mapping) \in Nat
    BY LenProperties DEF Types
  <1>2. mapping' = [m \in 1..Len(mapping) |-> after(m)]
    BY <1>1 DEF SaveMappings
  <1>3. \A m \in 1..Len(mapping) :
          /\ after(m) \in Mapping
          /\ after(m).pipeline = mapping[m].pipeline
          /\ after(m).data = mapping[m].data
          /\ after(m).matched = mapping[m].matched
          /\ after(m).active = (mapping[m].active /\ mapping[m].pipeline # client.pipeline)
    <2> SUFFICES ASSUME NEW m \in 1..Len(mapping)
                 PROVE  /\ after(m) \in Mapping
                        /\ after(m).pipeline = mapping[m].pipeline
                        /\ after(m).data = mapping[m].data
                        /\ after(m).matched = mapping[m].matched
                        /\ after(m).active =
                              (mapping[m].active /\ mapping[m].pipeline # client.pipeline)
      OBVIOUS
    <2>1. mapping[m] \in Mapping
      BY <1>1, ElementOfSeq DEF Types
    <2>2. /\ off(m) \in Mapping /\ off(m).pipeline = mapping[m].pipeline
          /\ off(m).data = mapping[m].data /\ off(m).matched = mapping[m].matched
          /\ off(m).active = FALSE
      BY <2>1 DEF Mapping
    <2>3. mapping[m].active \in BOOLEAN
      BY <2>1 DEF Mapping
    <2> HIDE DEF off
    <2> QED
      BY <2>1, <2>2, <2>3
  <1> HIDE DEF after
  <1>4. mapping' \in Seq(Mapping) /\ Len(mapping') = Len(mapping)
    <2>1. mapping' \in [1..Len(mapping) -> Mapping]
      BY <1>2, <1>3
    <2> QED
      BY <1>1, <2>1, LenProperties, SeqDef
  <1>5. \A m \in 1..Len(mapping) : mapping'[m] = after(m)
    BY <1>2
  <1>6. /\ client.at = "mappings" /\ client' = [client EXCEPT !.at = "row"]
        /\ UNCHANGED <<msgs, named, copies, parsed, results, pipe, job, told, saves, happened>>
    BY DEF SaveMappings
  <1>7. /\ client'.at = "row" /\ client'.pipeline = client.pipeline
        /\ client'.value = client.value /\ client' \in Client
    <2>1. client \in [at: {"mappings", "row"}, pipeline: Pipelines, value: PipelineValues]
      BY <1>6 DEF Types, Client
    <2> QED
      BY <1>6, <2>1 DEF Client
  <1> QED
    BY <1>3, <1>4, <1>5, <1>6, <1>7
LEMMA SaveRowEffect ==
    ASSUME Types, SaveRow
    PROVE  /\ client.at = "row" /\ client' \in Client
           /\ client.pipeline \in Pipelines /\ client.value \in PipelineValues
           /\ pipe' = [pipe EXCEPT ![client.pipeline] = client.value]
           /\ UNCHANGED <<msgs, named, copies, tables, job, told, saves, happened>>
  BY DEF SaveRow, Types, Client

\* The pipeline's row is read again, and written as it was read.
LEMMA SaveReadEffect ==
    ASSUME Types, SaveRead
    PROVE  /\ client.at = "read" /\ client' \in Client
           /\ UNCHANGED <<msgs, named, copies, tables, pipe, job, told, saves, happened, material>>
  <1>1. /\ client.at = "read"
        /\ UNCHANGED <<msgs, named, copies, tables, pipe, job, told, saves, happened, material>>
    BY DEF SaveRead
  <1>2. /\ client \in [at: {"mappings", "row", "read", "write"}, pipeline: Pipelines,
                      value: PipelineValues]
        /\ pipe \in [Pipelines -> PipelineValues]
    BY <1>1 DEF Types, Client
  <1>3. CASE client' = [client EXCEPT !.at = "write", !.value = pipe[client.pipeline]]
    <2>1. pipe[client.pipeline] \in PipelineValues
      BY <1>2
    <2> QED
      BY <1>1, <1>2, <1>3, <2>1 DEF Client
  <1>4. CASE client' = [at |-> "idle"]
    BY <1>1, <1>4 DEF Client
  <1> QED
    BY <1>3, <1>4 DEF SaveRead

LEMMA SaveWriteEffect ==
    ASSUME Types, SaveWrite
    PROVE  /\ client.at = "write" /\ client' \in Client
           /\ client.pipeline \in Pipelines /\ client.value \in PipelineValues
           /\ pipe' = [pipe EXCEPT ![client.pipeline] = client.value]
           /\ errored' = errored \cup {client.pipeline}
           /\ UNCHANGED <<msgs, named, copies, tables, job, told, saves, happened>>
           /\ UNCHANGED <<checkedOut, checkout, checkouts>>
  BY DEF SaveWrite, Types, Client

LEMMA SaveFailsEffect ==
    ASSUME Types, SaveFails
    PROVE  /\ client.at # "idle" /\ Fault("db") /\ client' \in Client /\ client'.at = "idle"
           /\ UNCHANGED <<msgs, named, copies, tables, pipe, job, told, saves>>
  BY DEF SaveFails, Client

LEMMA CrashEffect ==
    ASSUME Types, Crash
    PROVE  /\ Fault("crash") /\ job' = Idle /\ client' \in Client /\ client'.at = "idle"
           /\ UNCHANGED <<msgs, named, copies, tables, pipe, told, saves>>
  BY DEF Crash, Client

\* A fault is one of those that may happen, and it is remembered.
LEMMA FaultEffect ==
    ASSUME Types, NEW kind, Fault(kind)
    PROVE  happened' \subseteq Faults /\ happened' = happened \cup {kind}
  BY DEF Types, Fault

-----------------------------------------------------------------------------
(* What a checkout does. *)

Checkouts == CheckoutFetch \/ CheckoutRead \/ CheckoutWrite \/ CheckoutGivesUp \/ Refresh

\* The steps of a checkout and of a call that marks its row as errored touch
\* nothing of the callback.
Marking == SaveRead \/ SaveWrite \/ Checkouts

LEMMA MarkingEffect ==
    ASSUME Marking
    PROVE  /\ UNCHANGED <<msgs, named, copies, parsed, mapping, results, job, told, saves>>
           /\ UNCHANGED happened \/ Fault("db")
  <1>1. CASE SaveRead \/ SaveWrite
    BY <1>1 DEF SaveRead, SaveWrite, tables
  <1>2. CASE CheckoutFetch \/ CheckoutGivesUp \/ Refresh
    BY <1>2 DEF CheckoutFetch, CheckoutGivesUp, Refresh, tables
  <1>3. CASE CheckoutRead \/ CheckoutWrite
    BY <1>3 DEF CheckoutRead, CheckoutWrite, tables
  <1> QED
    BY <1>1, <1>2, <1>3 DEF Marking, Checkouts

\* A checkout writes rows as it has read them.
LEMMA CheckoutWriteEffect ==
    ASSUME Types, MaterialOK, CheckoutWrite
    PROVE  /\ pipe' \in [Pipelines -> PipelineValues]
           /\ saves = 0 => pipe' = pipe
  <1>1. /\ pipe \in [Pipelines -> PipelineValues]
        /\ checkout.out \in [Pipelines -> PipelineValues]
    BY DEF Types, MaterialOK
  <1>2. pipe' = [p \in Pipelines |-> IF checkout.out[p] # Inactive THEN checkout.out[p] ELSE pipe[p]]
    BY DEF CheckoutWrite
  <1>3. ASSUME saves = 0 PROVE pipe' = [p \in Pipelines |-> pipe[p]]
    BY <1>2, <1>3 DEF MaterialOK, CopiesOK
  <1> QED
    BY <1>1, <1>2, <1>3

\* The labels at which a query may fail.
Querying == {"event", "find", "pipeline", "map", "inactivate", "results"}

LEMMA FailsEffect ==
    ASSUME Types, Fails(Querying)
    PROVE  /\ job.at \in Querying /\ Fault("db") /\ Return
           /\ UNCHANGED <<msgs, named, copies, tables, pipe, client, told, saves>>
  BY DEF Fails

-----------------------------------------------------------------------------
(* The type invariant is inductive. *)

LEMMA EventsInit == Init => EventsInv
  <1> SUFFICES ASSUME Init PROVE EventsInv
    OBVIOUS
  <1>1. /\ <<>> \in Seq(Parsed) /\ <<>> \in Seq(Mapping) /\ <<>> \in Seq(Seq(Outcomes))
        /\ Len(<<>>) = 0
    BY EmptySeq
  <1>2. client \in Client
    BY DEF Init, Client
  <1>3. Types
    <2>1. /\ msgs \in [Messages -> [uid: Uids, content: Contents]] /\ named \subseteq EventIds
          /\ pipe \in [Pipelines -> PipelineValues]
      BY WebhookAssumption DEF Init, Messages
    <2>2. copies \in [Messages -> Nat] /\ told \in [Pipelines -> [Messages -> 0..2]]
      BY DEF Init
    <2>3. /\ parsed \in Seq(Parsed) /\ mapping \in Seq(Mapping) /\ results \in Seq(Seq(Outcomes))
          /\ Len(results) = Len(mapping) /\ saves \in Nat /\ happened \subseteq Faults
      BY <1>1 DEF Init
    <2>4. job \in Job
      BY IdleJob DEF Init
    <2> QED
      BY <1>2, <2>1, <2>2, <2>3, <2>4 DEF Types
  <1>4. Labelled /\ DataOK
    BY <1>1, IdleJob DEF Init, Labelled, DataOK
  <1>5. MaterialOK
    <2>1. NoCheckout \in [at: {"idle", "read"}, todo: SUBSET Pipelines,
                         out: [Pipelines -> PipelineValues]]
      BY DEF NoCheckout, PipelineValues
    <2>2. CopiesOK
      BY DEF Init, CopiesOK, NoCheckout
    <2> QED
      BY <2>1, <2>2 DEF Init, MaterialOK
  <1> QED
    BY <1>3, <1>4, <1>5 DEF EventsInv

\* A new row of the parsed data is of the message at hand, an old one is
\* overwritten by it.
LEMMA ParsedEffect ==
    ASSUME EventsInv, SaveParsed
    PROVE  /\ parsed' \in Seq(Parsed) /\ Len(parsed') \in Nat /\ Len(parsed') >= Len(parsed)
           /\ job'.data \in 0..Len(parsed') /\ job'.event \in Events
           /\ \A d \in 1..Len(parsed') :
                 \/ d \in 1..Len(parsed) /\ parsed'[d] = parsed[d]
                 \/ /\ d = job'.data
                    /\ parsed'[d] =
                          [event |-> job'.event, uid |-> msgs[job.msg].uid, by |-> job.msg]
                    /\ d \in FoundParsed(job'.event, msgs[job.msg].uid)
                       \/ /\ FoundParsed(job'.event, msgs[job.msg].uid) = {}
                          /\ d = Len(parsed) + 1
           /\ \/ job'.data = 0
              \/ job'.data \in FoundParsed(job'.event, msgs[job.msg].uid)
              \/ parsed'[job'.data].by = job.msg
           /\ job'.data # 0 => parsed'[job'.data].event = job'.event
  <1>1. Len(parsed) \in Nat /\ DOMAIN parsed = 1..Len(parsed) /\ parsed \in Seq(Parsed) /\ Types
    BY LenProperties DEF EventsInv, Types
  <1>2. job.at = "event" /\ job.msg \in Messages
    BY <1>1, SaveParsedEffect DEF EventsInv, Labelled
  <1>3. PICK e \in job.events :
          /\ job'.event = e /\ e \in Events
          /\ LET new == [event |-> e, uid |-> msgs[job.msg].uid, by |-> job.msg]
                 found == FoundParsed(e, new.uid)
             IN \/ /\ found = {} /\ parsed' = Append(parsed, new)
                   /\ job'.data = Len(parsed) + 1
                \/ \E id \in found :
                      /\ parsed' = [parsed EXCEPT ![id] = new]
                      /\ job'.data = id
                \/ /\ UNCHANGED parsed
                   /\ job'.data \in found \cup {0}
    BY <1>1, SaveParsedEffect
  <1> DEFINE new == [event |-> e, uid |-> msgs[job.msg].uid, by |-> job.msg]
             found == FoundParsed(e, msgs[job.msg].uid)
  <1>4. new \in Parsed /\ new.by = job.msg /\ new.event = e /\ new.uid = msgs[job.msg].uid
    BY <1>1, <1>2, <1>3 DEF Types, Parsed
  <1>5. found \subseteq 1..Len(parsed) /\ \A d \in found : parsed[d].event = e
    BY <1>1 DEF FoundParsed
  <1>6. \/ /\ found = {} /\ parsed' = Append(parsed, new)
           /\ job'.data = Len(parsed) + 1
        \/ \E id \in found : parsed' = [parsed EXCEPT ![id] = new] /\ job'.data = id
        \/ parsed' = parsed /\ job'.data \in found \cup {0}
    BY <1>3, <1>4
  <1>7. job'.event = e /\ e \in Events
    BY <1>3
  <1>8. new = [event |-> e, uid |-> msgs[job.msg].uid, by |-> job.msg]
    OBVIOUS
  <1> HIDE DEF new, found
  <1>9. CASE found = {} /\ parsed' = Append(parsed, new) /\ job'.data = Len(parsed) + 1
    <2>1. /\ parsed' \in Seq(Parsed) /\ Len(parsed') = Len(parsed) + 1
          /\ \A i \in 1..Len(parsed) : parsed'[i] = parsed[i]
          /\ parsed'[Len(parsed) + 1] = new
      BY <1>1, <1>4, <1>9, Appends
    <2> QED
      BY <1>1, <1>4, <1>7, <1>8, <1>9, <2>1 DEF found
  <1>10. CASE \E id \in found : parsed' = [parsed EXCEPT ![id] = new] /\ job'.data = id
    <2>1. PICK id \in found : parsed' = [parsed EXCEPT ![id] = new] /\ job'.data = id
      BY <1>10
    <2>2. /\ parsed' \in Seq(Parsed) /\ Len(parsed') = Len(parsed)
          /\ \A i \in 1..Len(parsed) : i # id => parsed'[i] = parsed[i]
          /\ parsed'[id] = new
      BY <1>1, <1>4, <1>5, <2>1, Overwrites
    <2> QED
      BY <1>1, <1>4, <1>5, <1>7, <1>8, <2>1, <2>2 DEF found
  <1>11. CASE parsed' = parsed /\ job'.data \in found \cup {0}
    BY <1>1, <1>5, <1>7, <1>11 DEF found
  <1> QED
    BY <1>6, <1>9, <1>10, <1>11

\* A mapping that is new or replaces one is of the parsed data at hand.
LEMMA MappingEffect ==
    ASSUME EventsInv, SaveMapping, ~Return
    PROVE  /\ mapping' \in Seq(Mapping) /\ Len(mapping') \in Nat /\ Len(mapping') >= Len(mapping)
           /\ job'.row \in 1..Len(mapping') /\ mapping'[job'.row] = NewMapping
           /\ NewMapping \in Mapping /\ job.data \in 1..Len(parsed)
           /\ \A m \in 1..Len(mapping') : m # job'.row =>
                 m \in 1..Len(mapping) /\ mapping'[m] = mapping[m]
           /\ \/ job'.row \in job.found
              \/ job.found = {} /\ job'.row = Len(mapping) + 1
  <1>1. /\ Len(mapping) \in Nat /\ DOMAIN mapping = 1..Len(mapping) /\ mapping \in Seq(Mapping)
        /\ Len(parsed) \in Nat /\ Types
    BY LenProperties DEF EventsInv, Types
  <1>2. job.at = "map"
    BY <1>1, SaveMappingEffect
  <1>3. /\ job.pipeline \in Pipelines /\ job.data \in 0..Len(parsed) /\ job.matched \in BOOLEAN
        /\ job.found \subseteq 1..Len(mapping)
        /\ \A m \in job.found : mapping[m].data = job.data
    BY <1>1, <1>2 DEF EventsInv, Labelled, Types, Job
  <1>4. NewMapping \in Mapping
    BY <1>3 DEF NewMapping, Mapping
  <1>5. CASE job'.row \in job.found /\ mapping' = [mapping EXCEPT ![job'.row] = NewMapping]
    <2>1. /\ mapping' \in Seq(Mapping) /\ Len(mapping') = Len(mapping)
          /\ mapping'[job'.row] = NewMapping
          /\ \A m \in 1..Len(mapping) : m # job'.row => mapping'[m] = mapping[m]
      BY <1>1, <1>3, <1>4, <1>5, Overwrites
    <2>2. job.data \in 1..Len(parsed)
      BY <1>3, <1>5 DEF EventsInv, DataOK
    <2> QED
      BY <1>1, <1>3, <1>4, <1>5, <2>1, <2>2
  <1>6. CASE /\ job.found = {} /\ job.data # 0 /\ job'.row = Len(mapping) + 1
             /\ mapping' = Append(mapping, NewMapping)
    <2>1. /\ mapping' \in Seq(Mapping) /\ Len(mapping') = Len(mapping) + 1
          /\ mapping'[Len(mapping) + 1] = NewMapping
          /\ \A m \in 1..Len(mapping) : mapping'[m] = mapping[m]
      BY <1>1, <1>4, <1>6, Appends
    <2> QED
      BY <1>1, <1>3, <1>4, <1>6, <2>1
  <1> QED
    BY <1>1, <1>5, <1>6, SaveMappingEffect

\* Only Crash, SavePipelineMaterial and a checkout touch what they write.
LEMMA MaterialStays ==
    ASSUME [Next]_vars,
           ~(SaveCall \/ SaveMappings \/ SaveRow \/ SaveFails \/ Crash \/ Marking)
    PROVE  UNCHANGED <<client, pipe, saves, material>>
  <1>1. CASE UNCHANGED vars
    BY <1>1 DEF vars
  <1>2. CASE Deliver \/ Late \/ Name \/ Ack \/ Fails(Querying)
    BY <1>2 DEF Deliver, Late, Name, Ack, Fails
  <1>3. CASE SaveParsed \/ FindMaterials \/ Match
    BY <1>3 DEF SaveParsed, FindMaterials, Match
  <1>4. CASE SaveMapping \/ Inactivate \/ SaveResults \/ Notify
    BY <1>4 DEF SaveMapping, Inactivate, SaveResults, Notify
  <1> QED
    BY <1>1, <1>2, <1>3, <1>4 DEF Next, Handle, Querying, Marking, Checkouts

LEMMA MaterialNext == EventsInv /\ [Next]_vars => MaterialOK'
  <1> SUFFICES ASSUME EventsInv, [Next]_vars PROVE MaterialOK'
    OBVIOUS
  <1>1. /\ Types /\ MaterialOK /\ saves \in Nat /\ checkouts \in Nat
        /\ errored \subseteq Pipelines /\ pipe \in [Pipelines -> PipelineValues]
    BY DEF EventsInv, Types, MaterialOK
  <1>2. CASE SaveCall
    <2>1. UNCHANGED material /\ saves' # 0
      BY <1>1, <1>2 DEF SaveCall
    <2> QED
      BY <1>1, <2>1 DEF MaterialOK, CopiesOK, material
  <1>3. CASE SaveMappings \/ SaveFails \/ SaveRead
    <2>1. UNCHANGED <<material, saves>> /\ client.at # "idle"
      BY <1>3 DEF SaveMappings, SaveFails, SaveRead
    <2> QED
      BY <1>1, <2>1 DEF MaterialOK, CopiesOK, material
  <1>4. CASE SaveRow \/ SaveWrite
    <2>1. /\ UNCHANGED <<checkedOut, checkout, checkouts, saves>> /\ client.at # "idle"
          /\ errored' \in {errored \ {client.pipeline}, errored \cup {client.pipeline}}
      BY <1>4 DEF SaveRow, SaveWrite
    <2>2. client.pipeline \in Pipelines
      BY <1>1, <1>4, SaveRowEffect, SaveWriteEffect
    <2> QED
      BY <1>1, <2>1, <2>2 DEF MaterialOK, CopiesOK
  <1>5. CASE CheckoutFetch
    <2>1. /\ checkout' = [checkout EXCEPT !.at = "read", !.todo = {p \in Pipelines : pipe[p] # Inactive}]
          /\ checkedOut' \in BOOLEAN /\ checkouts' = checkouts + 1
          /\ UNCHANGED <<errored, saves, client, pipe>>
      BY <1>5 DEF CheckoutFetch
    <2>2. /\ checkout' \in [at: {"idle", "read"}, todo: SUBSET Pipelines,
                            out: [Pipelines -> PipelineValues]]
          /\ checkout'.out = checkout.out
      BY <1>1, <2>1 DEF MaterialOK
    <2>3. CopiesOK'
      BY <1>1, <2>1, <2>2 DEF MaterialOK, CopiesOK
    <2>4. checkouts' \in Nat
      BY <1>1, <2>1
    <2> QED
      BY <1>1, <2>1, <2>2, <2>3, <2>4 DEF MaterialOK
  <1>6. CASE CheckoutRead
    <2>1. PICK p \in checkout.todo :
             \/ /\ pipe[p] # Inactive
                /\ checkout' = [checkout EXCEPT !.todo = @ \ {p}, !.out[p] = pipe[p]]
             \/ checkout' = [checkout EXCEPT !.todo = @ \ {p}]
      BY <1>6 DEF CheckoutRead
    <2>2. UNCHANGED <<checkedOut, errored, checkouts, saves, client, pipe>>
      BY <1>6 DEF CheckoutRead
    <2>3. p \in Pipelines /\ pipe[p] \in PipelineValues
      BY <1>1, <2>1 DEF MaterialOK
    <2>4. /\ checkout' \in [at: {"idle", "read"}, todo: SUBSET Pipelines,
                            out: [Pipelines -> PipelineValues]]
          /\ \A q \in Pipelines : checkout'.out[q] \in {checkout.out[q], pipe[q]}
      <3>1. CASE checkout' = [checkout EXCEPT !.todo = @ \ {p}]
        BY <1>1, <3>1 DEF MaterialOK
      <3>2. CASE checkout' = [checkout EXCEPT !.todo = @ \ {p}, !.out[p] = pipe[p]]
        BY <1>1, <2>3, <3>2 DEF MaterialOK
      <3> QED
        BY <2>1, <3>1, <3>2
    <2> QED
      BY <1>1, <2>2, <2>4 DEF MaterialOK, CopiesOK
  <1>7. CASE CheckoutWrite \/ CheckoutGivesUp \/ Crash
    <2>1. /\ checkout' = NoCheckout /\ UNCHANGED <<checkedOut, checkouts, saves>>
          /\ errored' \subseteq Pipelines
      BY <1>1, <1>7 DEF CheckoutWrite, CheckoutGivesUp, Crash
    <2>2. NoCheckout \in [at: {"idle", "read"}, todo: SUBSET Pipelines,
                         out: [Pipelines -> PipelineValues]]
      BY DEF NoCheckout, PipelineValues
    <2>3. \A p \in Pipelines : checkout'.out[p] = Inactive
      BY <2>1 DEF NoCheckout
    <2>4. client'.at = "idle" \/ client' = client
      BY <1>7 DEF CheckoutWrite, CheckoutGivesUp, Crash
    <2> QED
      BY <1>1, <2>1, <2>2, <2>3, <2>4 DEF MaterialOK, CopiesOK
  <1>8. CASE Refresh
    <2>1. checkedOut' \in BOOLEAN /\ UNCHANGED <<errored, checkout, checkouts, client, pipe, saves>>
      BY <1>8 DEF Refresh
    <2> QED
      BY <1>1, <2>1 DEF MaterialOK, CopiesOK
  <1>9. CASE UNCHANGED <<client, pipe, saves, material>>
    BY <1>1, <1>9 DEF MaterialOK, CopiesOK, material
  <1> QED
    BY <1>2, <1>3, <1>4, <1>5, <1>6, <1>7, <1>8, <1>9, MaterialStays DEF Marking, Checkouts

LEMMA TablesNext == EventsInv /\ [Next]_vars => (Types /\ Labelled /\ DataOK)'
  <1> SUFFICES ASSUME EventsInv, [Next]_vars PROVE (Types /\ Labelled /\ DataOK)'
    OBVIOUS
  <1>1. /\ Types /\ Labelled /\ DataOK
        /\ Len(parsed) \in Nat /\ Len(mapping) \in Nat /\ Len(results) = Len(mapping)
        /\ job \in Job /\ client \in Client /\ saves \in Nat /\ happened \subseteq Faults
        /\ copies \in [Messages -> Nat] /\ named \subseteq EventIds
    BY LenProperties DEF EventsInv, Types
  <1>2. CASE Deliver
    <2>1. Types'
      BY <1>1, <1>2, DeliverEffect DEF Types, tables
    <2>2. Labelled'
      BY <1>1, <1>2, DeliverEffect DEF Labelled, tables
    <2> QED
      BY <1>1, <1>2, <2>1, <2>2, DeliverEffect DEF EventsInv, DataOK, tables
  <1>3. CASE Late
    <2>1. /\ job.at # "idle" /\ happened' \subseteq Faults /\ job.msg \in Messages
          /\ copies' = [copies EXCEPT ![job.msg] = copies[job.msg] + 1]
          /\ UNCHANGED <<msgs, named, tables, pipe, job, client, told, saves>>
      BY <1>1, <1>3, FaultEffect DEF Late, Labelled
    <2>2. copies' \in [Messages -> Nat] /\ copies'[job.msg] > 0
      BY <1>1, <2>1
    <2>3. Types'
      BY <1>1, <2>1, <2>2 DEF Types, tables
    <2>4. Labelled'
      BY <1>1, <2>1, <2>2 DEF Labelled, tables
    <2> QED
      BY <1>1, <2>1, <2>3, <2>4 DEF EventsInv, DataOK, tables
  <1>4. CASE Name
    <2>1. PICK e \in job.unnamed :
                 /\ job'.at = IF job.unnamed = {e} THEN "event" ELSE "name"
                 /\ \/ named' = named \cup {e} /\ UNCHANGED happened
                    \/ Fault("db") /\ UNCHANGED named
      BY <1>1, <1>4, NameEffect
    <2>2. e \in EventIds
      BY <1>1 DEF Job
    <2>3. happened' \subseteq Faults /\ named' \subseteq EventIds
      BY <1>1, <2>1, <2>2, FaultEffect
    <2>4. Types'
      BY <1>1, <1>4, <2>3, NameEffect DEF Types, tables
    <2>5. Labelled'
      BY <1>1, <1>4, <2>1, NameEffect DEF Labelled, tables
    <2> QED
      BY <1>1, <1>4, <2>4, <2>5, NameEffect DEF EventsInv, DataOK, tables
  <1>5. CASE SaveParsed
    <2>1. happened' \subseteq Faults
      BY <1>1, <1>5, SaveParsedEffect, FaultEffect
    <2>2. Types'
      BY <1>1, <1>5, <2>1, SaveParsedEffect, ParsedEffect DEF Types, EventsInv
    <2>3. job.at = "event" /\ job'.at = "find" /\ job'.msg = job.msg /\ copies' = copies
      BY <1>1, <1>5, SaveParsedEffect
    <2>4. Labelled'
      BY <1>1, <1>5, <2>3, ParsedEffect DEF Labelled, EventsInv
    <2>5. mapping' = mapping /\ Len(parsed') >= Len(parsed) /\ Len(parsed') \in Nat
      BY <1>1, <1>5, SaveParsedEffect, ParsedEffect DEF EventsInv
    <2>6. DataOK'
      BY <1>1, <2>5 DEF DataOK
    <2> QED
      BY <2>2, <2>4, <2>6 DEF EventsInv
  <1>6. CASE FindMaterials
    <2>1. Types'
      BY <1>1, <1>6, FindEffect DEF Types, tables
    <2>2. Labelled'
      BY <1>1, <1>6, FindEffect DEF Labelled, tables
    <2> QED
      BY <1>1, <1>6, <2>1, <2>2, FindEffect DEF EventsInv, DataOK, tables
  <1>7. CASE Return /\ job.at # "idle" /\ happened' \subseteq Faults
             /\ UNCHANGED <<msgs, named, copies, tables, pipe, client, told, saves>>
    <2>1. Types'
      BY <1>1, <1>7, ReturnEffect DEF Types, tables
    <2>2. Labelled'
      BY <1>1, <1>7, ReturnEffect DEF Labelled, tables
    <2> QED
      BY <1>1, <1>7, <2>1, <2>2 DEF EventsInv, DataOK, tables
  <1>8. CASE Match
    <2>1. job.at = "pipeline"
          /\ UNCHANGED <<msgs, named, copies, tables, pipe, client, told, saves, happened>>
      BY <1>1, <1>8, MatchEffect
    <2>2. CASE Return
      BY <1>1, <1>7, <2>1, <2>2
    <2>3. CASE ~Return
      <3>1. PICK p \in DOMAIN job.rows :
                    /\ job' \in Job /\ job'.at = "map" /\ job'.msg = job.msg
                    /\ job'.event = job.event /\ job'.data = job.data
                    /\ p \in Pipelines /\ job'.pipeline = p
                    /\ job'.found = FoundMapping(p, job.data)
        BY <1>1, <1>8, <2>3, MatchEffect
      <3>2. /\ job'.found \subseteq 1..Len(mapping)
            /\ \A m \in job'.found : mapping[m].pipeline = p /\ mapping[m].data = job.data
        <4>1. DOMAIN mapping = 1..Len(mapping)
          BY LenProperties DEF Types
        <4> QED
          BY <3>1, <4>1 DEF FoundMapping
      <3>3. Types'
        BY <1>1, <2>1, <3>1 DEF Types, tables
      <3>4. Labelled'
        BY <1>1, <2>1, <3>1, <3>2 DEF Labelled, tables
      <3> QED
        BY <1>1, <2>1, <3>3, <3>4 DEF EventsInv, DataOK, tables
    <2> QED
      BY <2>2, <2>3
  <1>9. CASE SaveMapping
    <2>1. job.at = "map" /\ UNCHANGED <<msgs, named, copies, parsed, pipe, client, told, saves, happened>>
      BY <1>1, <1>9, SaveMappingEffect
    <2>2. CASE Return
      <3>1. job'.at = "done"
        BY <1>1, <2>2, ReturnEffect
      <3>2. UNCHANGED <<mapping, results>>
        BY <1>1, <1>9, <3>1, SaveMappingEffect
      <3> QED
        BY <1>1, <1>7, <2>1, <2>2, <3>2 DEF tables
    <2>3. CASE ~Return
      <3>1. /\ mapping' \in Seq(Mapping) /\ Len(mapping') \in Nat
            /\ job'.row \in 1..Len(mapping') /\ mapping'[job'.row] = NewMapping
            /\ job.data \in 1..Len(parsed)
            /\ \A m \in 1..Len(mapping') : m # job'.row =>
                  m \in 1..Len(mapping) /\ mapping'[m] = mapping[m]
        BY <1>1, <1>9, <2>3, MappingEffect
      <3>2. /\ job' \in Job /\ Follow /\ job'.at \in {"inactivate", "results"}
            /\ results' \in Seq(Seq(Outcomes)) /\ Len(results') = Len(mapping')
        <4>1. CASE UNCHANGED results /\ job'.row \in job.found
                   /\ mapping' = [mapping EXCEPT ![job'.row] = NewMapping]
          <5>1. Len(mapping') = Len(mapping)
            <6>1. job'.row \in 1..Len(mapping) /\ NewMapping \in Mapping /\ mapping \in Seq(Mapping)
              BY <1>1, <1>9, <2>1, <2>3, <4>1, MappingEffect DEF Labelled, Types
            <6> QED
              BY <4>1, <6>1, Overwrites
          <5>2. job' \in Job /\ Follow /\ job'.at \in {"inactivate", "results"}
            BY <1>1, <1>9, <2>3, SaveMappingEffect
          <5> QED
            BY <1>1, <4>1, <5>1, <5>2 DEF Types
        <4>2. CASE /\ mapping' = Append(mapping, NewMapping) /\ results' = Append(results, <<>>)
          <5>1. <<>> \in Seq(Outcomes) /\ results \in Seq(Seq(Outcomes)) /\ mapping \in Seq(Mapping)
                /\ NewMapping \in Mapping
            BY <1>1, <1>9, <2>3, EmptySeq, MappingEffect DEF Types
          <5>2. results' \in Seq(Seq(Outcomes)) /\ Len(results') = Len(mapping')
            BY <1>1, <4>2, <5>1, Appends
          <5>3. job' \in Job /\ Follow /\ job'.at \in {"inactivate", "results"}
            BY <1>1, <1>9, <2>3, SaveMappingEffect
          <5> QED
            BY <5>2, <5>3
        <4> QED
          BY <1>1, <1>9, <2>3, <4>1, <4>2, SaveMappingEffect
      <3>3. Types'
        BY <1>1, <2>1, <3>1, <3>2 DEF Types
      <3>4. Labelled'
        BY <1>1, <2>1, <3>1, <3>2 DEF Labelled, Follow
      <3>5. DataOK'
        <4>1. parsed' = parsed /\ NewMapping.data = job.data
          BY <2>1 DEF NewMapping
        <4>2. \A m \in 1..Len(mapping') : mapping'[m].data \in 1..Len(parsed)
          BY <1>1, <3>1, <4>1 DEF DataOK
        <4> QED
          BY <4>1, <4>2 DEF DataOK
      <3> QED
        BY <3>3, <3>4, <3>5 DEF EventsInv
    <2> QED
      BY <2>2, <2>3
  <1>10. CASE Inactivate
    <2>1. /\ job.at = "inactivate" /\ job' \in Job /\ job'.at = "results" /\ Follow
          /\ job'.row = job.row /\ job.row \in 1..Len(results)
          /\ results' = [results EXCEPT ![job.row] = <<>>]
          /\ UNCHANGED <<msgs, named, copies, parsed, mapping, pipe, client, told, saves, happened>>
      BY <1>1, <1>10, InactivateEffect DEF Labelled
    <2>2. results' \in Seq(Seq(Outcomes)) /\ Len(results') = Len(results)
      <3>1. <<>> \in Seq(Outcomes) /\ results \in Seq(Seq(Outcomes))
        BY <1>1, EmptySeq DEF Types
      <3> QED
        BY <2>1, <3>1, Overwrites
    <2>3. Types'
      BY <1>1, <2>1, <2>2 DEF Types
    <2>4. Labelled'
      BY <1>1, <2>1 DEF Labelled, Follow
    <2> QED
      BY <1>1, <2>1, <2>3, <2>4 DEF EventsInv, DataOK
  <1>11. CASE SaveResults
    <2>1. /\ job.at = "results" /\ job' \in Job /\ job'.at = "notify" /\ Follow
          /\ job.row \in 1..Len(results) /\ job.results \in Outcomes
          /\ results' = IF job.results = <<>> THEN results
                        ELSE [results EXCEPT ![job.row] = Append(results[job.row], job.results)]
          /\ UNCHANGED <<msgs, named, copies, parsed, mapping, pipe, client, told, saves, happened>>
      BY <1>1, <1>11, SaveResultsEffect DEF Labelled, Job
    <2>2. results' \in Seq(Seq(Outcomes)) /\ Len(results') = Len(results)
      <3>1. results \in Seq(Seq(Outcomes)) /\ results[job.row] \in Seq(Outcomes)
        BY <1>1, <2>1, ElementOfSeq DEF Types
      <3>2. Append(results[job.row], job.results) \in Seq(Outcomes)
        BY <2>1, <3>1, Appends
      <3> QED
        BY <2>1, <3>1, <3>2, Overwrites
    <2>3. Types'
      BY <1>1, <2>1, <2>2 DEF Types
    <2>4. Labelled'
      BY <1>1, <2>1 DEF Labelled, Follow
    <2> QED
      BY <1>1, <2>1, <2>3, <2>4 DEF EventsInv, DataOK
  <1>12. CASE Notify
    <2>1. told' \in [Pipelines -> [Messages -> 0..2]] /\ happened' \subseteq Faults
      <3>1. job.pipeline \in Pipelines /\ job.msg \in Messages
        BY <1>1, <1>12, NotifyEffect DEF Labelled
      <3>2. told[job.pipeline][job.msg] \in 0..2 /\ told[job.pipeline] \in [Messages -> 0..2]
        BY <1>1, <3>1 DEF Types
      <3>3. CASE told' = [told EXCEPT ![job.pipeline][job.msg] = IF @ = 2 THEN 2 ELSE @ + 1]
        <4> DEFINE n == IF told[job.pipeline][job.msg] = 2 THEN 2 ELSE told[job.pipeline][job.msg] + 1
        <4>1. n \in 0..2
          BY <3>2
        <4>2. told' = [told EXCEPT ![job.pipeline] = [told[job.pipeline] EXCEPT ![job.msg] = n]]
          BY <3>3
        <4> HIDE DEF n
        <4>3. [told[job.pipeline] EXCEPT ![job.msg] = n] \in [Messages -> 0..2]
          BY <3>1, <3>2, <4>1
        <4>4. told' \in [Pipelines -> [Messages -> 0..2]]
          BY <1>1, <3>1, <4>2, <4>3 DEF Types
        <4> QED
          BY <1>1, <1>12, <4>4, NotifyEffect, FaultEffect
      <3> QED
        BY <1>1, <1>12, <3>3, NotifyEffect, FaultEffect DEF Types
    <2>2. Types'
      BY <1>1, <1>12, <2>1, NotifyEffect DEF Types, tables
    <2>3. Labelled'
      BY <1>1, <1>12, NotifyEffect DEF Labelled, tables
    <2> QED
      BY <1>1, <1>12, <2>2, <2>3, NotifyEffect DEF EventsInv, DataOK, tables
  <1>13. CASE Fails(Querying)
    <2>1. happened' \subseteq Faults
      BY <1>1, <1>13, FailsEffect, FaultEffect
    <2> QED
      BY <1>1, <1>7, <1>13, <2>1, FailsEffect DEF Querying
  <1>14. CASE Ack
    <2>1. /\ job.msg \in Messages /\ copies[job.msg] > 0
          /\ copies' = [copies EXCEPT ![job.msg] = copies[job.msg] - 1]
          /\ job' = Idle
          /\ UNCHANGED <<msgs, named, tables, pipe, client, told, saves, happened>>
      BY <1>1, <1>14, AckEffect DEF Labelled
    <2>2. copies' \in [Messages -> Nat]
      <3>1. copies[job.msg] - 1 \in Nat
        BY <1>1, <2>1
      <3> QED
        BY <1>1, <2>1, <3>1
    <2>3. Types'
      BY <1>1, <2>1, <2>2, IdleJob DEF Types, tables
    <2>4. Labelled'
      BY <1>1, <2>1, IdleJob DEF Labelled, tables
    <2> QED
      BY <1>1, <2>1, <2>3, <2>4 DEF EventsInv, DataOK, tables
  <1>15. CASE SaveCall
    <2>1. saves' \in Nat
      BY <1>1, <1>15, SaveCallEffect
    <2>2. Types'
      BY <1>1, <1>15, <2>1, SaveCallEffect DEF Types, tables
    <2>3. Labelled'
      BY <1>1, <1>15, SaveCallEffect DEF Labelled, tables
    <2> QED
      BY <1>1, <1>15, <2>2, <2>3, SaveCallEffect DEF EventsInv, DataOK, tables
  <1>16. CASE SaveMappings
    <2>1. Types'
      <3>1. /\ mapping' \in Seq(Mapping) /\ Len(mapping') = Len(mapping) /\ client' \in Client
            /\ UNCHANGED <<msgs, named, copies, parsed, results, pipe, job, told, saves, happened>>
        BY <1>1, <1>16, SaveMappingsEffect
      <3> QED
        BY <1>1, <3>1 DEF Types
    <2>2. Labelled'
      BY <1>1, <1>16, SaveMappingsEffect DEF Labelled
    <2> QED
      BY <1>1, <1>16, <2>1, <2>2, SaveMappingsEffect DEF EventsInv, DataOK
  <1>17. CASE SaveRow
    <2>1. pipe' \in [Pipelines -> PipelineValues]
      BY <1>1, <1>17, SaveRowEffect DEF Types
    <2>2. Types'
      BY <1>1, <1>17, <2>1, SaveRowEffect DEF Types, tables
    <2>3. Labelled'
      BY <1>1, <1>17, SaveRowEffect DEF Labelled, tables
    <2> QED
      BY <1>1, <1>17, <2>2, <2>3, SaveRowEffect DEF EventsInv, DataOK, tables
  <1>18. CASE SaveFails
    <2>1. happened' \subseteq Faults
      BY <1>1, <1>18, SaveFailsEffect, FaultEffect
    <2>2. Types'
      BY <1>1, <1>18, <2>1, SaveFailsEffect DEF Types, tables
    <2>3. Labelled'
      BY <1>1, <1>18, SaveFailsEffect DEF Labelled, tables
    <2> QED
      BY <1>1, <1>18, <2>2, <2>3, SaveFailsEffect DEF EventsInv, DataOK, tables
  <1>19. CASE Crash
    <2>1. happened' \subseteq Faults
      BY <1>1, <1>19, CrashEffect, FaultEffect
    <2>2. Types'
      BY <1>1, <1>19, <2>1, CrashEffect, IdleJob DEF Types, tables
    <2>3. Labelled'
      BY <1>1, <1>19, CrashEffect, IdleJob DEF Labelled, tables
    <2> QED
      BY <1>1, <1>19, <2>2, <2>3, CrashEffect DEF EventsInv, DataOK, tables
  <1>20. CASE Marking
    <2>1. /\ UNCHANGED <<msgs, named, copies, parsed, mapping, results, job, told, saves>>
          /\ happened' \subseteq Faults
      BY <1>1, <1>20, MarkingEffect, FaultEffect
    <2>2. client' \in Client /\ pipe' \in [Pipelines -> PipelineValues]
      <3>1. CASE SaveRead
        BY <1>1, <3>1, SaveReadEffect DEF Types
      <3>2. CASE SaveWrite
        BY <1>1, <3>2, SaveWriteEffect DEF Types
      <3>3. CASE CheckoutWrite
        BY <1>1, <3>3, CheckoutWriteEffect DEF EventsInv, CheckoutWrite
      <3>4. CASE CheckoutFetch \/ CheckoutRead \/ CheckoutGivesUp \/ Refresh
        BY <1>1, <3>4 DEF CheckoutFetch, CheckoutRead, CheckoutGivesUp, Refresh, Types
      <3> QED
        BY <1>20, <3>1, <3>2, <3>3, <3>4 DEF Marking, Checkouts
    <2> QED
      BY <1>1, <2>1, <2>2 DEF Types, Labelled, DataOK
  <1>21. CASE UNCHANGED vars
    BY <1>21 DEF vars, tables, EventsInv, Types, Labelled, DataOK
  <1> QED
    BY <1>2, <1>3, <1>4, <1>5, <1>6, <1>8, <1>9, <1>10, <1>11, <1>12, <1>13, <1>14, <1>15, <1>16,
       <1>17, <1>18, <1>19, <1>20, <1>21 DEF Next, Handle, Querying, Marking, Checkouts

LEMMA EventsNext == EventsInv /\ [Next]_vars => EventsInv'
  BY TablesNext, MaterialNext DEF EventsInv

\* Before SavePipelineMaterial is called, nobody gives a row another value.
LEMMA Untouched ==
    ASSUME EventsInv, [Next]_vars, saves' = 0
    PROVE  saves = 0 /\ client.at = "idle" /\ client'.at = "idle" /\ pipe' = pipe
  <1>1. saves \in Nat /\ Types /\ MaterialOK
    BY DEF EventsInv, Types
  <1>2. saves = 0 /\ ~SaveCall
    <2>1. ~SaveCall
      <3>1. SaveCall => saves' = saves + 1
        BY DEF SaveCall
      <3> QED
        BY <1>1, <3>1
    <2>2. CASE SaveMappings \/ SaveRow \/ SaveFails \/ Crash
      BY <2>1, <2>2 DEF SaveMappings, SaveRow, SaveFails, Crash
    <2>3. CASE Marking
      BY <2>1, <2>3, MarkingEffect
    <2> QED
      BY <2>1, <2>2, <2>3, MaterialStays
  <1>3. client.at = "idle"
    BY <1>1, <1>2 DEF MaterialOK, CopiesOK
  <1>4. client'.at = "idle"
    BY <1>2, MaterialNext DEF MaterialOK, CopiesOK
  <1>5. CASE SaveMappings \/ SaveRow \/ SaveFails \/ SaveRead \/ SaveWrite
    BY <1>3, <1>5 DEF SaveMappings, SaveRow, SaveFails, SaveRead, SaveWrite
  <1>6. CASE CheckoutWrite
    BY <1>1, <1>2, <1>3, <1>4, <1>6, CheckoutWriteEffect
  <1>7. CASE Crash \/ CheckoutFetch \/ CheckoutRead \/ CheckoutGivesUp \/ Refresh
    BY <1>2, <1>3, <1>4, <1>7 DEF Crash, CheckoutFetch, CheckoutRead, CheckoutGivesUp, Refresh
  <1> QED
    BY <1>2, <1>3, <1>4, <1>5, <1>6, <1>7, MaterialStays DEF Marking, Checkouts

\* The tables stay well formed, and the message that the callback works on has
\* not been acknowledged, in every run of the handler and its clients.
THEOREM TypeCorrect == SafeSpec => []TypeOK
  <1>1. SafeSpec => []EventsInv
    BY EventsInit, EventsNext, PTL DEF SafeSpec
  <1> QED
    BY <1>1, InvType, PTL

-----------------------------------------------------------------------------
(* One row of parsed data per event, one active mapping per pipeline. *)

\* Who writes the tables.
LEMMA Writers ==
    ASSUME EventsInv, [Next]_vars
    PROVE  /\ SaveParsed \/ UNCHANGED parsed
           /\ SaveMapping \/ SaveMappings \/ UNCHANGED mapping
           /\ UNCHANGED msgs
  <1>0. Types
    BY DEF EventsInv
  <1>1. CASE UNCHANGED vars
    BY <1>1 DEF vars, tables
  <1>2. CASE Deliver \/ Late \/ Name \/ Ack \/ Crash \/ SaveCall \/ SaveFails \/ SaveRow
    BY <1>2 DEF Deliver, Late, Name, Ack, Crash, SaveCall, SaveFails, SaveRow, tables
  <1>3. CASE SaveParsed \/ FindMaterials \/ Match \/ Fails(Querying)
    BY <1>3 DEF SaveParsed, FindMaterials, Match, Fails, tables
  <1>4. CASE SaveMapping \/ Inactivate \/ SaveResults \/ Notify \/ SaveMappings
    BY <1>4 DEF SaveMapping, Inactivate, SaveResults, Notify, SaveMappings, tables
  <1> QED
    BY <1>1, <1>2, <1>3, <1>4, MarkingEffect DEF Next, Handle, Querying, Marking, Checkouts

LEMMA ParsedOnceNext == EventsInv /\ ParsedOnce /\ [Next]_vars => ParsedOnce'
  <1> SUFFICES ASSUME EventsInv, ParsedOnce, [Next]_vars, SaveParsed PROVE ParsedOnce'
    BY Writers DEF ParsedOnce
  <1>1. /\ DOMAIN parsed = 1..Len(parsed) /\ DOMAIN parsed' = 1..Len(parsed')
    BY EventsNext, LenProperties DEF EventsInv, Types
  <1> DEFINE u == msgs[job.msg].uid
             found == FoundParsed(job'.event, u)
  <1>2. \A d \in 1..Len(parsed') :
           \/ d \in 1..Len(parsed) /\ parsed'[d] = parsed[d]
           \/ /\ d = job'.data /\ parsed'[d].event = job'.event /\ parsed'[d].uid = u
              /\ d \in found \/ found = {}
    BY ParsedEffect
  <1>3. \A d \in found : /\ d \in 1..Len(parsed)
                         /\ u # Blank /\ parsed[d].event = job'.event /\ parsed[d].uid = u
    BY <1>1 DEF FoundParsed
  <1>4. \A d \in 1..Len(parsed) :
           u # Blank /\ parsed[d].event = job'.event /\ parsed[d].uid = u => d \in found
    BY <1>1 DEF FoundParsed
  <1> HIDE DEF u, found
  <1>5. ASSUME NEW c \in 1..Len(parsed'), NEW d \in 1..Len(parsed'),
               parsed'[c].event = parsed'[d].event, parsed'[c].uid = parsed'[d].uid,
               parsed'[c].uid # Blank
        PROVE  c = d
    <2>1. CASE c = job'.data /\ d = job'.data
      BY <2>1
    <2>2. CASE c # job'.data /\ d # job'.data
      BY <1>1, <1>2, <1>5, <2>2 DEF ParsedOnce
    <2>3. CASE c = job'.data /\ d # job'.data
      <3>1. d \in 1..Len(parsed) /\ parsed'[d] = parsed[d]
        BY <1>2, <2>3
      <3>2. CASE c \in 1..Len(parsed) /\ parsed'[c] = parsed[c]
        BY <1>1, <1>5, <3>1, <3>2 DEF ParsedOnce
      <3>3. CASE /\ parsed'[c].event = job'.event /\ parsed'[c].uid = u
                 /\ c \in found \/ found = {}
        <4>1. d \in found
          BY <1>4, <1>5, <3>1, <3>3
        <4>2. c \in found
          BY <3>3, <4>1
        <4> QED
          BY <1>1, <1>3, <4>1, <4>2 DEF ParsedOnce
      <3> QED
        BY <1>2, <3>2, <3>3
    <2>4. CASE c # job'.data /\ d = job'.data
      <3>1. c \in 1..Len(parsed) /\ parsed'[c] = parsed[c]
        BY <1>2, <2>4
      <3>2. CASE d \in 1..Len(parsed) /\ parsed'[d] = parsed[d]
        BY <1>1, <1>5, <3>1, <3>2 DEF ParsedOnce
      <3>3. CASE /\ parsed'[d].event = job'.event /\ parsed'[d].uid = u
                 /\ d \in found \/ found = {}
        <4>1. c \in found
          BY <1>4, <1>5, <3>1, <3>3
        <4>2. d \in found
          BY <3>3, <4>1
        <4> QED
          BY <1>1, <1>3, <4>1, <4>2 DEF ParsedOnce
      <3> QED
        BY <1>2, <3>2, <3>3
    <2> QED
      BY <2>1, <2>2, <2>3, <2>4
  <1> QED
    BY <1>1, <1>5 DEF ParsedOnce

\* An event with a unique id has one row, however often it is delivered, with
\* restarts and failing queries.
THEOREM RowsUnique == SafeSpec => []ParsedOnce
  <1>1. Init => ParsedOnce
    BY EmptyFcn DEF Init, ParsedOnce
  <1> QED
    BY <1>1, EventsInit, EventsNext, ParsedOnceNext, PTL DEF SafeSpec

\* While the callback is about to write the mapping, the active mappings of its
\* pipeline and data are those it has found, at most one.
FoundOK ==
    job.at = "map" => /\ FoundMapping(job.pipeline, job.data) \subseteq job.found
                      /\ \A m, n \in job.found : m = n

LEMMA OneMappingNext ==
    EventsInv /\ OneMapping /\ FoundOK /\ [Next]_vars => OneMapping' /\ FoundOK'
  <1> SUFFICES ASSUME EventsInv, OneMapping, FoundOK, [Next]_vars PROVE OneMapping' /\ FoundOK'
    OBVIOUS
  <1>1. /\ DOMAIN mapping = 1..Len(mapping) /\ DOMAIN mapping' = 1..Len(mapping') /\ Types
    BY EventsNext, LenProperties DEF EventsInv, Types
  <1>2. CASE SaveMapping
    <2>1. FoundOK'
      <3>1. job'.at # "map"
        BY <1>1, <1>2, SaveMappingEffect, ReturnEffect
      <3> QED
        BY <3>1 DEF FoundOK
    <2>2. CASE Return
      <3>1. job'.at = "done"
        BY <1>1, <2>2, ReturnEffect
      <3>2. mapping' = mapping
        BY <1>1, <1>2, <3>1, SaveMappingEffect
      <3> QED
        BY <2>1, <3>2 DEF OneMapping
    <2>3. CASE ~Return
      <3>1. /\ job.at = "map" /\ mapping'[job'.row] = NewMapping
            /\ \A m \in 1..Len(mapping') : m # job'.row =>
                  m \in 1..Len(mapping) /\ mapping'[m] = mapping[m]
            /\ job'.row \in job.found \/ job.found = {}
        BY <1>1, <1>2, <2>3, MappingEffect, SaveMappingEffect
      <3>2. NewMapping.pipeline = job.pipeline /\ NewMapping.data = job.data
        BY DEF NewMapping
      <3>3. \A m \in 1..Len(mapping') : m # job'.row =>
               ~(/\ mapping'[m].active /\ mapping'[m].pipeline = job.pipeline
                 /\ mapping'[m].data = job.data)
        BY <1>1, <3>1 DEF FoundOK, FoundMapping
      <3>4. ASSUME NEW m \in 1..Len(mapping'), NEW n \in 1..Len(mapping'),
                   mapping'[m].active, mapping'[n].active,
                   mapping'[m].pipeline = mapping'[n].pipeline, mapping'[m].data = mapping'[n].data
            PROVE  m = n
        <4>1. CASE m # job'.row /\ n # job'.row
          BY <1>1, <3>1, <3>4, <4>1 DEF OneMapping
        <4>2. CASE m = job'.row \/ n = job'.row
          BY <3>1, <3>2, <3>3, <3>4, <4>2
        <4> QED
          BY <4>1, <4>2
      <3>5. OneMapping'
        BY <1>1, <3>4 DEF OneMapping
      <3> QED
        BY <2>1, <3>5
    <2> QED
      BY <2>2, <2>3
  <1>3. CASE SaveMappings
    <2>1. /\ Len(mapping') = Len(mapping) /\ job' = job
          /\ \A m \in 1..Len(mapping) :
                 /\ mapping'[m].pipeline = mapping[m].pipeline
                 /\ mapping'[m].data = mapping[m].data
                 /\ mapping'[m].active => mapping[m].active
      BY <1>1, <1>3, SaveMappingsEffect
    <2>2. OneMapping'
      BY <1>1, <2>1 DEF OneMapping
    <2>3. job.at = "map" => FoundMapping(job.pipeline, job.data)' \subseteq job.found
      BY <1>1, <2>1 DEF FoundMapping, FoundOK
    <2>4. FoundOK'
      BY <2>1, <2>3 DEF FoundOK
    <2> QED
      BY <2>2, <2>4
  <1>4. CASE mapping' = mapping /\ ~SaveMapping
    <2>1. OneMapping'
      BY <1>4 DEF OneMapping
    <2>2. CASE Match
      <3>1. CASE Return
        BY <1>1, <2>1, <3>1, ReturnEffect DEF FoundOK
      <3>2. CASE ~Return
        <4>1. PICK p \in DOMAIN job.rows :
                  /\ job'.at = "map" /\ job'.data = job.data
                  /\ job'.pipeline = p /\ job'.found = FoundMapping(p, job.data)
          BY <1>1, <2>2, <3>2, MatchEffect
        <4>2. FoundMapping(p, job.data)' = FoundMapping(p, job.data)
          BY <1>4, <4>1 DEF FoundMapping
        <4>3. \A m, n \in FoundMapping(p, job.data) : m = n
          BY DEF FoundMapping, OneMapping
        <4> QED
          BY <1>4, <2>1, <4>1, <4>3 DEF FoundOK, FoundMapping
      <3> QED
        BY <3>1, <3>2
    <2>3. CASE job'.at # "map"
      BY <2>1, <2>3 DEF FoundOK
    <2>4. CASE job' = job
      BY <1>4, <2>1, <2>4 DEF FoundOK, FoundMapping
    <2>5. Match \/ job'.at # "map" \/ job' = job
      <3>1. CASE UNCHANGED vars
        BY <3>1 DEF vars
      <3>2. CASE Late \/ SaveCall \/ SaveMappings \/ SaveRow \/ SaveFails
        BY <3>2 DEF Late, SaveCall, SaveMappings, SaveRow, SaveFails
      <3>3. CASE Deliver \/ Crash \/ Ack \/ Name
        BY <1>1, <3>3, DeliverEffect, CrashEffect, AckEffect, NameEffect, IdleJob
      <3>4. CASE SaveParsed \/ FindMaterials \/ Notify \/ Fails(Querying)
        BY <1>1, <3>4, SaveParsedEffect, FindEffect, NotifyEffect, FailsEffect, ReturnEffect
      <3>5. CASE Inactivate \/ SaveResults
        BY <1>1, <3>5, InactivateEffect, SaveResultsEffect
      <3> QED
        BY <1>4, <3>1, <3>2, <3>3, <3>4, <3>5, MarkingEffect
           DEF Next, Handle, Querying, Marking, Checkouts
    <2> QED
      BY <2>2, <2>3, <2>4, <2>5
  <1> QED
    BY <1>2, <1>3, <1>4, Writers

\* A pipeline and an event have one active mapping, whoever changes the
\* pipeline between the lookup of the mapping and its write.
THEOREM MappingsUnique == SafeSpec => []OneMapping
  <1>1. Init => OneMapping /\ FoundOK
    BY EmptyFcn, IdleJob DEF Init, OneMapping, FoundOK
  <1> QED
    BY <1>1, EventsInit, EventsNext, OneMappingNext, PTL DEF SafeSpec
-----------------------------------------------------------------------------
(* Who is told of an event finds it stored. *)

\* The steps that do not touch the callback's locals.
Elsewhere ==
    Late \/ SaveCall \/ SaveMappings \/ SaveRow \/ SaveFails \/ Marking \/ UNCHANGED vars

LEMMA ElsewhereEffect ==
    ASSUME Elsewhere
    PROVE  UNCHANGED <<msgs, named, parsed, results, job, told>>
  BY MarkingEffect DEF Elsewhere, Late, SaveCall, SaveMappings, SaveRow, SaveFails, vars, tables

\* The steps after which the callback is not in a round of the loop.
LEMMA OutsideEffect ==
    ASSUME Types, Deliver \/ Name \/ Ack \/ Crash \/ Fails(Querying)
    PROVE  job'.at \in {"idle", "name", "event", "done"} /\ UNCHANGED <<msgs, tables, pipe, told>>
  <1>1. CASE Deliver
    BY <1>1, DeliverEffect
  <1>2. CASE Name
    BY <1>2, NameEffect
  <1>3. CASE Ack
    BY <1>3, AckEffect, IdleJob
  <1>4. CASE Crash
    BY <1>4, CrashEffect, IdleJob
  <1>5. CASE Fails(Querying)
    BY <1>5, FailsEffect, ReturnEffect
  <1> QED
    BY <1>1, <1>2, <1>3, <1>4, <1>5

InRound == {"find", "pipeline", "map", "inactivate", "results", "notify"}

\* The parsed data with this id are of the message.
OfMessage(d, x) ==
    \/ parsed[d].by = x
    \/ parsed[d].uid = msgs[x].uid /\ msgs[x].uid # Blank

\* The data that the callback refers to are of its message, and the mapping that
\* it has written is there.
StoredOK ==
    /\ job.at \in InRound /\ job.data # 0 => OfMessage(job.data, job.msg)
    /\ job.at \in {"inactivate", "results", "notify"} =>
          \E m \in 1..Len(mapping) : /\ mapping[m].pipeline = job.pipeline
                                     /\ mapping[m].data = job.data
                                     /\ mapping[m].matched = job.matched

LEMMA StoredNext == EventsInv /\ StoredOK /\ [Next]_vars => StoredOK'
  <1> SUFFICES ASSUME EventsInv, StoredOK, [Next]_vars PROVE StoredOK'
    OBVIOUS
  <1>0. Types
    BY DEF EventsInv
  <1>1. CASE Deliver \/ Name \/ Ack \/ Crash \/ Fails(Querying)
    BY <1>0, <1>1, OutsideEffect DEF StoredOK, InRound
  <1>2. CASE Elsewhere
    <2>1. UNCHANGED <<msgs, parsed, job>>
      BY <1>2, ElsewhereEffect
    <2>2. CASE SaveMappings
      <3>1. /\ Len(mapping') = Len(mapping)
            /\ \A m \in 1..Len(mapping) : /\ mapping'[m].pipeline = mapping[m].pipeline
                                          /\ mapping'[m].data = mapping[m].data
                                          /\ mapping'[m].matched = mapping[m].matched
        BY <1>0, <2>2, SaveMappingsEffect
      <3> QED
        BY <2>1, <3>1 DEF StoredOK, OfMessage
    <2>3. CASE mapping' = mapping
      BY <2>1, <2>3 DEF StoredOK, OfMessage
    <2>4. SaveMappings \/ mapping' = mapping
      BY <1>2, MarkingEffect DEF Elsewhere, Late, SaveCall, SaveRow, SaveFails, vars, tables
    <2> QED
      BY <2>2, <2>3, <2>4
  <1>3. CASE SaveParsed
    <2>1. job'.at = "find" /\ job'.msg = job.msg /\ msgs' = msgs
      BY <1>0, <1>3, SaveParsedEffect
    <2>2. ASSUME job'.data # 0 PROVE OfMessage(job.data, job.msg)'
      <3>1. job'.data \in 1..Len(parsed')
        BY <1>3, <2>2, ParsedEffect
      <3>2. \/ parsed'[job'.data].by = job.msg
            \/ /\ job'.data \in FoundParsed(job'.event, msgs[job.msg].uid)
               /\ parsed'[job'.data] = parsed[job'.data]
        BY <1>3, <2>2, <3>1, ParsedEffect
      <3> QED
        BY <2>1, <3>2 DEF OfMessage, FoundParsed
    <2> QED
      BY <2>1, <2>2 DEF StoredOK
  <1>4. CASE FindMaterials
    BY <1>0, <1>4, FindEffect DEF StoredOK, InRound, OfMessage, tables
  <1>5. CASE Match
    <2>1. CASE Return
      BY <1>0, <2>1, ReturnEffect DEF StoredOK, InRound
    <2>2. CASE ~Return
      BY <1>0, <1>5, <2>2, MatchEffect DEF StoredOK, InRound, OfMessage, tables
    <2> QED
      BY <2>1, <2>2
  <1>6. CASE SaveMapping
    <2>1. CASE Return
      BY <1>0, <2>1, ReturnEffect DEF StoredOK, InRound
    <2>2. CASE ~Return
      <3>1. /\ job.at = "map" /\ Follow /\ UNCHANGED <<msgs, parsed>>
            /\ job'.row \in 1..Len(mapping') /\ mapping'[job'.row] = NewMapping
        BY <1>0, <1>6, <2>2, SaveMappingEffect, MappingEffect
      <3>2. /\ NewMapping.pipeline = job.pipeline /\ NewMapping.data = job.data
            /\ NewMapping.matched = job.matched
        BY DEF NewMapping
      <3> QED
        BY <3>1, <3>2 DEF StoredOK, InRound, OfMessage, Follow
    <2> QED
      BY <2>1, <2>2
  <1>7. CASE Inactivate
    BY <1>0, <1>7, InactivateEffect DEF StoredOK, InRound, OfMessage, Follow
  <1>8. CASE SaveResults
    BY <1>0, <1>8, SaveResultsEffect DEF StoredOK, InRound, OfMessage, Follow
  <1>9. CASE Notify
    BY <1>0, <1>9, NotifyEffect DEF StoredOK, InRound, OfMessage, tables
  <1> QED
    BY <1>1, <1>2, <1>3, <1>4, <1>5, <1>6, <1>7, <1>8, <1>9 DEF Next, Handle, Elsewhere, Querying, Marking, Checkouts

\* Nothing but Notify publishes, for the pipeline and the message at hand, and
\* only what matched.
LEMMA Tells ==
    ASSUME EventsInv, [Next]_vars, told' # told
    PROVE  /\ job.at = "notify" /\ job.matched
           /\ \A p \in Pipelines, x \in Messages :
                 told'[p][x] # told[p][x] => p = job.pipeline /\ x = job.msg
  <1>0. Types
    BY DEF EventsInv
  <1>1. Notify
    <2>1. ~Elsewhere
      BY ElsewhereEffect
    <2>2. ~(Deliver \/ Name \/ Ack \/ Crash \/ Fails(Querying))
      BY <1>0, OutsideEffect
    <2>3. ~(SaveParsed \/ FindMaterials \/ Match \/ SaveMapping \/ Inactivate \/ SaveResults)
      BY DEF SaveParsed, FindMaterials, Match, SaveMapping, Inactivate, SaveResults
    <2> QED
      BY <2>1, <2>2, <2>3 DEF Next, Handle, Elsewhere, Querying, Marking, Checkouts
  <1>2. /\ job.at = "notify" /\ job.matched
        /\ told' = [told EXCEPT ![job.pipeline][job.msg] = IF @ = 2 THEN 2 ELSE @ + 1]
    BY <1>0, <1>1, NotifyEffect
  <1> QED
    BY <1>2, <1>0 DEF Types

\* A pipeline is told only of an event that is stored as matching, for any
\* faults and any changes of the pipeline.
THEOREM MappedFirst == SafeSpec => MappedBeforeTold
  <1>1. Init => StoredOK
    BY IdleJob DEF Init, StoredOK, InRound
  <1>2. ASSUME EventsInv, StoredOK, [Next]_vars
        PROVE  \A p \in Pipelines, x \in Messages : told'[p][x] # told[p][x] =>
          \E m \in DOMAIN mapping :
              /\ mapping[m].pipeline = p /\ mapping[m].matched
              /\ \/ parsed[mapping[m].data].by = x
                 \/ parsed[mapping[m].data].uid = msgs[x].uid /\ msgs[x].uid # Blank
    <2> SUFFICES ASSUME NEW p \in Pipelines, NEW x \in Messages, told'[p][x] # told[p][x]
                 PROVE  \E m \in DOMAIN mapping :
                          /\ mapping[m].pipeline = p /\ mapping[m].matched
                          /\ \/ parsed[mapping[m].data].by = x
                             \/ parsed[mapping[m].data].uid = msgs[x].uid /\ msgs[x].uid # Blank
      OBVIOUS
    <2>1. job.at = "notify" /\ job.matched /\ p = job.pipeline /\ x = job.msg
      BY <1>2, Tells
    <2>2. PICK m \in 1..Len(mapping) : /\ mapping[m].pipeline = job.pipeline
                                       /\ mapping[m].data = job.data
                                       /\ mapping[m].matched = job.matched
      BY <1>2, <2>1 DEF StoredOK
    <2>3. mapping[m].data # 0 /\ DOMAIN mapping = 1..Len(mapping)
      <3>1. Len(parsed) \in Nat /\ DOMAIN mapping = 1..Len(mapping)
        BY <1>2, LenProperties DEF EventsInv, Types
      <3> QED
        BY <1>2, <3>1 DEF EventsInv, DataOK
    <2>4. OfMessage(job.data, job.msg)
      BY <1>2, <2>1, <2>2, <2>3 DEF StoredOK, InRound
    <2> QED
      BY <2>1, <2>2, <2>3, <2>4 DEF OfMessage
  <1>3. EventsInv /\ StoredOK /\ [Next]_vars =>
          [\A p \in Pipelines, x \in Messages : told'[p][x] # told[p][x] =>
            \E m \in DOMAIN mapping :
              /\ mapping[m].pipeline = p /\ mapping[m].matched
              /\ \/ parsed[mapping[m].data].by = x
                 \/ parsed[mapping[m].data].uid = msgs[x].uid /\ msgs[x].uid # Blank]_vars
    BY <1>2
  <1> QED
    BY <1>1, <1>3, EventsInit, EventsNext, StoredNext, PTL DEF SafeSpec, MappedBeforeTold
-----------------------------------------------------------------------------
(* A message that is delivered once builds a pipeline once. *)

\* No message comes twice, and nobody changes a pipeline.
Undisturbed == happened \cap {"crash", "late"} = {} /\ saves = 0

\* The callback has been through with pipeline p, or cannot come to it: its event
\* has had its round, or is this one and p is no longer among the rows.
Passed(p) ==
    \/ job.at = "done"
    \/ /\ job.at \in {"event"} \cup InRound
       /\ pipe[p].event \notin job.events
       /\ job.at # "event" /\ pipe[p].event = job.event =>
             /\ job.at # "find" /\ p \notin DOMAIN job.rows
             /\ job.at # "pipeline" => p # job.pipeline

\* A pipeline that has been told of a message will not come across it again.
OnceOK ==
    Undisturbed =>
       /\ \A x \in Messages : copies[x] <= 1
       /\ \A p \in DOMAIN job.rows : job.rows[p] = pipe[p]
       /\ job.at \in InRound => job.event \notin job.events
       /\ job.at \in {"map", "inactivate", "results", "notify"} =>
             /\ job.pipeline \notin DOMAIN job.rows
             /\ job.matched => job.event = pipe[job.pipeline].event
       /\ \A p \in Pipelines, x \in Messages : told[p][x] # 0 =>
             /\ told[p][x] = 1
             /\ copies[x] = 0 \/ (job.msg = x /\ Passed(p))

\* Faults are not forgotten.
LEMMA Remembered ==
    ASSUME [Next]_vars PROVE happened \subseteq happened'
  <1>1. CASE Deliver \/ Late \/ Name \/ Ack \/ Fails(Querying) \/ Crash \/ UNCHANGED vars
    BY <1>1 DEF Deliver, Late, Name, Ack, Fails, Crash, Fault, vars
  <1>2. CASE SaveParsed \/ FindMaterials \/ Match \/ SaveMapping
    BY <1>2 DEF SaveParsed, FindMaterials, Match, SaveMapping, Fault
  <1>3. CASE Inactivate \/ SaveResults \/ Notify
    BY <1>3 DEF Inactivate, SaveResults, Notify, Fault
  <1>4. CASE SaveCall \/ SaveMappings \/ SaveRow \/ SaveFails
    BY <1>4 DEF SaveCall, SaveMappings, SaveRow, SaveFails, Fault
  <1>5. CASE Marking
    BY <1>5, MarkingEffect DEF Fault
  <1> QED
    BY <1>1, <1>2, <1>3, <1>4, <1>5 DEF Next, Handle, Querying, Marking, Checkouts

\* A step out of a state that is not undisturbed does not lead back.
LEMMA StaysDisturbed ==
    ASSUME EventsInv, [Next]_vars, Undisturbed'
    PROVE  Undisturbed /\ client.at = "idle" /\ pipe' = pipe /\ ~Late
  <1>1. saves = 0 /\ client.at = "idle" /\ pipe' = pipe
    BY Untouched DEF Undisturbed
  <1>2. happened \subseteq happened'
    BY Remembered
  <1>3. ~Late
    BY DEF Late, Fault, Undisturbed
  <1> QED
    BY <1>1, <1>2, <1>3 DEF Undisturbed

LEMMA OnceNext == EventsInv /\ OnceOK /\ [Next]_vars => OnceOK'
  <1> SUFFICES ASSUME EventsInv, OnceOK, [Next]_vars, Undisturbed' PROVE OnceOK'
    BY DEF OnceOK
  <1>0. /\ Types /\ Undisturbed /\ Labelled
        /\ job \in Job /\ copies \in [Messages -> Nat] /\ told \in [Pipelines -> [Messages -> 0..2]]
        /\ DOMAIN job.rows \subseteq Pipelines
    BY StaysDisturbed, RowSetOf DEF EventsInv, Types, Job
  <1>1. /\ client.at = "idle" /\ pipe' = pipe
        /\ \A x \in Messages : copies[x] <= 1
        /\ \A p \in DOMAIN job.rows : job.rows[p] = pipe[p]
        /\ job.at \in InRound => job.event \notin job.events
        /\ job.at \in {"map", "inactivate", "results", "notify"} =>
             /\ job.pipeline \notin DOMAIN job.rows
             /\ job.matched => job.event = pipe[job.pipeline].event
        /\ \A p \in Pipelines, x \in Messages : told[p][x] # 0 =>
             /\ told[p][x] = 1
             /\ copies[x] = 0 \/ (job.msg = x /\ Passed(p))
        /\ ~Late
    BY <1>0, StaysDisturbed DEF OnceOK
  \* What is left to show when the callback works on the same message.
  <1>2. ASSUME UNCHANGED <<copies, told>>, job'.msg = job.msg,
               \A p \in DOMAIN job'.rows : job'.rows[p] = pipe[p],
               job'.at \in InRound => job'.event \notin job'.events,
               job'.at \in {"map", "inactivate", "results", "notify"} =>
                 /\ job'.pipeline \notin DOMAIN job'.rows
                 /\ job'.matched => job'.event = pipe[job'.pipeline].event,
               \A p \in Pipelines : Passed(p) => Passed(p)'
        PROVE  OnceOK'
    BY <1>1, <1>2 DEF OnceOK
  <1>3. CASE Deliver
    <2>1. /\ job.at = "idle" /\ UNCHANGED <<copies, told>> /\ DOMAIN job'.rows = {}
          /\ job'.at \in {"name", "event"}
      BY <1>0, <1>3, EmptyFcn, DeliverEffect
    <2>2. \A p \in Pipelines : ~Passed(p)
      BY <2>1 DEF Passed, InRound
    <2> QED
      BY <1>1, <2>1, <2>2 DEF OnceOK, InRound
  <1>4. CASE Name
    <2>1. /\ job.at = "name" /\ job'.at \in {"name", "event"} /\ job'.msg = job.msg
          /\ job'.rows = job.rows /\ UNCHANGED <<copies, told>>
      BY <1>0, <1>4, NameEffect
    <2>2. \A p \in Pipelines : ~Passed(p)
      BY <2>1 DEF Passed, InRound
    <2> QED
      BY <1>1, <1>2, <2>1, <2>2 DEF InRound
  <1>5. CASE SaveParsed
    <2>1. PICK e \in job.events : job'.event = e /\ job'.events = job.events \ {e}
      BY <1>0, <1>5, SaveParsedEffect
    <2>2. /\ job.at = "event" /\ job'.at = "find" /\ job'.msg = job.msg
          /\ job'.rows = job.rows /\ UNCHANGED <<copies, told>>
      BY <1>0, <1>5, SaveParsedEffect
    <2>3. \A p \in Pipelines : Passed(p) => Passed(p)'
      BY <1>1, <2>1, <2>2 DEF Passed, InRound
    <2> QED
      BY <1>1, <1>2, <2>1, <2>2, <2>3 DEF InRound
  <1>6. CASE FindMaterials
    <2>1. /\ job.at = "find" /\ job'.msg = job.msg /\ job'.events = job.events
          /\ job'.rows = [p \in {p \in Pipelines : pipe[p] # Inactive} |-> pipe[p]]
          /\ \/ job'.at = "event"
             \/ job'.at = "pipeline" /\ job'.event = job.event
          /\ UNCHANGED <<copies, told>>
      BY <1>0, <1>6, FindEffect
    <2>2. \A p \in Pipelines : Passed(p) => Passed(p)'
      BY <1>1, <2>1 DEF Passed, InRound
    <2> QED
      BY <1>1, <1>2, <2>1, <2>2 DEF InRound
  <1>7. CASE Return /\ UNCHANGED <<copies, told>>
    <2>1. job'.at = "done" /\ job'.msg = job.msg /\ DOMAIN job'.rows = {}
      BY <1>0, <1>7, ReturnEffect, EmptyFcn
    <2>2. \A p \in Pipelines : Passed(p)'
      BY <2>1 DEF Passed
    <2> QED
      BY <1>2, <1>7, <2>1, <2>2 DEF InRound
  <1>8. CASE Match
    <2>1. job.at = "pipeline" /\ UNCHANGED <<copies, told>>
      BY <1>0, <1>8, MatchEffect
    <2>2. CASE ~Return
      <3>1. PICK p \in DOMAIN job.rows :
                    /\ job'.at = "map" /\ job'.msg = job.msg
                    /\ job'.events = job.events /\ job'.event = job.event
                    /\ job'.pipeline = p
                    /\ job'.rows = [q \in DOMAIN job.rows \ {p} |-> job.rows[q]]
                    /\ job'.matched = OverallMatch(job.event, msgs[job.msg].content, job.rows[p])
        BY <1>0, <1>8, <2>2, MatchEffect
      <3>2. job'.matched => job.event = pipe[p].event
        BY <1>1, <3>1 DEF OverallMatch
      <3>3. \A q \in DOMAIN job'.rows : job'.rows[q] = pipe[q]
        BY <1>1, <3>1
      <3>4. p \notin DOMAIN job'.rows /\ DOMAIN job'.rows = DOMAIN job.rows \ {p}
        BY <3>1
      <3>5. \A q \in Pipelines : Passed(q) => Passed(q)'
        BY <1>1, <2>1, <3>1, <3>4 DEF Passed, InRound
      <3> QED
        BY <1>1, <1>2, <2>1, <3>1, <3>2, <3>3, <3>4, <3>5 DEF InRound
    <2> QED
      BY <1>7, <2>1, <2>2
  <1>9. CASE SaveMapping
    <2>1. job.at = "map" /\ UNCHANGED <<copies, told>>
      BY <1>0, <1>9, SaveMappingEffect
    <2>2. CASE ~Return
      <3>1. Follow /\ job'.at \in {"inactivate", "results"}
        BY <1>0, <1>9, <2>2, SaveMappingEffect
      <3>2. \A p \in Pipelines : Passed(p) => Passed(p)'
        BY <1>1, <2>1, <3>1 DEF Passed, InRound, Follow
      <3> QED
        BY <1>1, <1>2, <2>1, <3>1, <3>2 DEF InRound, Follow
    <2> QED
      BY <1>7, <2>1, <2>2
  <1>10. CASE Inactivate \/ SaveResults
    <2>1. /\ job.at \in {"inactivate", "results"} /\ job'.at \in {"results", "notify"} /\ Follow
          /\ UNCHANGED <<copies, told>>
      BY <1>0, <1>10, InactivateEffect, SaveResultsEffect
    <2>2. \A p \in Pipelines : Passed(p) => Passed(p)'
      BY <1>1, <2>1 DEF Passed, InRound, Follow
    <2> QED
      BY <1>1, <1>2, <2>1, <2>2 DEF InRound, Follow
  <1>11. CASE Notify
    <2>1. /\ job.at = "notify" /\ job'.msg = job.msg /\ job'.events = job.events
          /\ job'.rows = job.rows
          /\ \/ job'.at = "event" /\ job.rows = <<>>
             \/ job'.at = "pipeline" /\ job'.event = job.event
          /\ UNCHANGED copies
      BY <1>0, <1>11, NotifyEffect
    <2>2. job.pipeline \in Pipelines /\ job.msg \in Messages /\ copies[job.msg] > 0
          /\ job.event \notin job.events /\ job.pipeline \notin DOMAIN job.rows
      BY <1>0, <1>1, <2>1 DEF Labelled, InRound
    <2>3. \A p \in Pipelines : Passed(p) => Passed(p)'
      BY <1>1, <2>1 DEF Passed, InRound
    <2>4. CASE UNCHANGED told
      BY <1>1, <1>2, <2>1, <2>2, <2>3, <2>4 DEF InRound
    <2>5. CASE /\ job.matched
               /\ told' = [told EXCEPT ![job.pipeline][job.msg] = IF @ = 2 THEN 2 ELSE @ + 1]
      <3>1. job.event = pipe[job.pipeline].event
        BY <1>1, <2>1, <2>5
      <3>2. ~Passed(job.pipeline)
        BY <2>1, <3>1 DEF Passed, InRound
      <3>3. told[job.pipeline][job.msg] = 0
        BY <1>1, <2>2, <3>2
      <3>4. told' = [told EXCEPT ![job.pipeline] = [told[job.pipeline] EXCEPT ![job.msg] = 1]]
        BY <2>5, <3>3
      <3>5. told[job.pipeline] \in [Messages -> 0..2]
        BY <1>0, <2>2
      <3>6. ASSUME NEW p \in Pipelines, NEW x \in Messages, told'[p][x] # 0
            PROVE  /\ told'[p][x] = 1
                   /\ copies[x] = 0 \/ (job'.msg = x /\ Passed(p)')
        <4>1. CASE p = job.pipeline /\ x = job.msg
          <5>1. told'[p][x] = 1
            BY <1>0, <2>2, <3>4, <3>5, <4>1
          <5>2. Passed(p)'
            BY <1>1, <2>1, <2>2, <3>1, <4>1 DEF Passed, InRound
          <5> QED
            BY <2>1, <4>1, <5>1, <5>2
        <4>2. CASE ~(p = job.pipeline /\ x = job.msg)
          <5>1. told'[p][x] = told[p][x]
            BY <1>0, <2>2, <3>4, <3>5, <4>2
          <5> QED
            BY <1>1, <2>1, <2>3, <3>6, <5>1
        <4> QED
          BY <4>1, <4>2
      <3> QED
        BY <1>1, <2>1, <2>2, <3>6 DEF OnceOK, InRound
    <2> QED
      BY <1>0, <1>11, <2>4, <2>5, NotifyEffect
  <1>12. CASE Fails(Querying)
    BY <1>0, <1>7, <1>12, FailsEffect
  <1>13. CASE Ack
    <2>1. /\ job.at \in {"done", "event"} /\ UNCHANGED told
          /\ copies' = [copies EXCEPT ![job.msg] = copies[job.msg] - 1]
          /\ job' = Idle /\ job.msg \in Messages /\ copies[job.msg] > 0
      BY <1>0, <1>13, AckEffect DEF Labelled
    <2>2. copies'[job.msg] = 0 /\ \A x \in Messages \ {job.msg} : copies'[x] = copies[x]
      BY <1>0, <1>1, <2>1
    <2>3. \A x \in Messages : copies'[x] <= 1
      BY <1>1, <2>2
    <2>4. /\ job'.at = "idle" /\ DOMAIN job'.rows = {}
      BY <2>1, IdleJob, EmptyFcn
    <2>5. \A p \in Pipelines, x \in Messages : told'[p][x] # 0 =>
             told'[p][x] = 1 /\ copies'[x] = 0
      BY <1>1, <2>1, <2>2
    <2> QED
      BY <1>1, <2>3, <2>4, <2>5 DEF OnceOK, InRound
  <1>14. CASE Elsewhere
    <2>1. UNCHANGED <<job, told>>
      BY <1>14, ElsewhereEffect
    <2>2. UNCHANGED copies
      BY <1>1, <1>14, MarkingEffect DEF Elsewhere, SaveCall, SaveMappings, SaveRow, SaveFails, vars
    <2>3. \A p \in Pipelines : Passed(p)' <=> Passed(p)
      BY <1>1, <2>1 DEF Passed
    <2> QED
      BY <1>1, <1>2, <2>1, <2>2, <2>3
  <1>15. ~Crash
    BY DEF Crash, Fault, Undisturbed
  <1> QED
    BY <1>3, <1>4, <1>5, <1>6, <1>8, <1>9, <1>10, <1>11, <1>12, <1>13, <1>14, <1>15
       DEF Next, Handle, Elsewhere, Querying, Marking, Checkouts

LEMMA OnceInit == Init => OnceOK
  BY EmptyFcn, IdleJob DEF Init, OnceOK, InRound

\* A message builds a pipeline at most once if it is not delivered again and no
\* pipeline is changed, for any number of messages, pipelines, events and other
\* faults.
THEOREM BuiltOnce == SafeSpec => []ToldOnce
  <1>1. OnceOK => ToldOnce
    BY DEF OnceOK, Undisturbed, ToldOnce
  <1> QED
    BY <1>1, OnceInit, EventsInit, EventsNext, OnceNext, PTL DEF SafeSpec
-----------------------------------------------------------------------------
(* What the queries show. *)

\* The results that SaveResults leaves for an outcome.
Saved(r) == IF r = <<>> THEN <<>> ELSE <<r>>

\* The outcome of a filter, if there is one, is that of the relevant selectors,
\* and they all matched iff the filter did.
LEMMA FilterFits ==
    ASSUME NEW e, NEW c, NEW v
    PROVE  LET r == FilterResults(e, c, v) IN
           /\ r # <<>> => /\ DOMAIN r = Relevant(v)
                          /\ OverallMatch(e, c, v) <=> \A s \in DOMAIN r : r[s]
           /\ OverallMatch(e, c, v) => DOMAIN r = Relevant(v) /\ \A s \in DOMAIN r : r[s]
  BY DEF FilterResults, OverallMatch

\* As long as nobody has changed a pipeline, the callback works with its value;
\* it knows what the filter said, it has found its row, and the results of the
\* row are gone before new ones are saved.
RoundOK ==
    /\ saves = 0 => \A p \in DOMAIN job.rows : job.rows[p] = pipe[p]
    /\ job.at \in {"map", "inactivate", "results"} =>
          \E v : /\ job.matched = OverallMatch(job.event, msgs[job.msg].content, v)
                 /\ job.results = FilterResults(job.event, msgs[job.msg].content, v)
                 /\ saves = 0 => v = pipe[job.pipeline]
    /\ job.at \in {"inactivate", "results"} =>
          /\ mapping[job.row].pipeline = job.pipeline /\ mapping[job.row].data = job.data
          /\ mapping[job.row].matched = job.matched
          /\ saves = 0 => mapping[job.row].active
    /\ job.at = "results" => results[job.row] = <<>>

\* The steps that do not touch the callback's locals keep the mappings, but for
\* their activity.
LEMMA ElsewhereMappings ==
    ASSUME EventsInv, [Next]_vars, Elsewhere
    PROVE  /\ Len(mapping') = Len(mapping)
           /\ \A m \in 1..Len(mapping) : /\ mapping'[m].pipeline = mapping[m].pipeline
                                         /\ mapping'[m].data = mapping[m].data
                                         /\ mapping'[m].matched = mapping[m].matched
           /\ saves' = 0 => mapping' = mapping
  <1>0. Types /\ saves \in Nat
    BY DEF EventsInv, Types
  <1>1. CASE SaveMappings
    BY <1>0, <1>1, SaveMappingsEffect, Untouched
  <1>2. CASE SaveCall
    BY <1>0, <1>2, SaveCallEffect DEF tables
  <1>3. CASE SaveRow \/ SaveFails
    BY <1>0, <1>3, SaveRowEffect, SaveFailsEffect DEF tables
  <1>4. CASE Late \/ UNCHANGED vars
    BY <1>4 DEF Late, vars, tables
  <1>5. CASE Marking
    BY <1>5, MarkingEffect
  <1> QED
    BY <1>1, <1>2, <1>3, <1>4, <1>5 DEF Elsewhere

\* The steps of the callback, the bus and the restart leave the pipelines and the
\* number of calls alone.
LEMMA InsideEffect ==
    ASSUME EventsInv, [Next]_vars, ~Elsewhere
    PROVE  UNCHANGED <<pipe, saves, msgs>>
  <1>0. Types
    BY DEF EventsInv
  <1>1. CASE Deliver \/ Name \/ Ack \/ Fails(Querying)
    BY <1>1 DEF Deliver, Name, Ack, Fails
  <1>2. CASE SaveParsed \/ FindMaterials \/ Match
    BY <1>2 DEF SaveParsed, FindMaterials, Match
  <1>3. CASE SaveMapping \/ Inactivate \/ SaveResults \/ Notify
    BY <1>3 DEF SaveMapping, Inactivate, SaveResults, Notify
  <1>4. CASE Crash
    BY <1>4 DEF Crash
  <1> QED
    BY <1>1, <1>2, <1>3, <1>4 DEF Next, Handle, Elsewhere, Querying, Marking, Checkouts

LEMMA RoundNext == EventsInv /\ RoundOK /\ [Next]_vars => RoundOK'
  <1> SUFFICES ASSUME EventsInv, RoundOK, [Next]_vars PROVE RoundOK'
    OBVIOUS
  <1>0. /\ Types /\ Labelled /\ DOMAIN job.rows \subseteq Pipelines
        /\ results \in Seq(Seq(Outcomes)) /\ mapping \in Seq(Mapping) /\ Len(results) = Len(mapping)
        /\ Len(mapping) \in Nat
    BY RowSetOf, LenProperties DEF EventsInv, Types, Job
  <1>1. CASE Elsewhere
    <2>1. UNCHANGED <<msgs, results, job>>
      BY <1>1, ElsewhereEffect
    <2>2. job.at \in {"inactivate", "results"} => job.row \in 1..Len(mapping)
      BY <1>0 DEF Labelled
    <2>3. saves' = 0 => saves = 0 /\ pipe' = pipe /\ mapping' = mapping
      BY <1>1, ElsewhereMappings, Untouched
    <2>4. \A m \in 1..Len(mapping) : /\ mapping'[m].pipeline = mapping[m].pipeline
                                     /\ mapping'[m].data = mapping[m].data
                                     /\ mapping'[m].matched = mapping[m].matched
      BY <1>1, ElsewhereMappings
    <2>5. (saves = 0 => \A p \in DOMAIN job.rows : job.rows[p] = pipe[p])'
      BY <2>1, <2>3 DEF RoundOK
    <2>6. ASSUME job.at \in {"map", "inactivate", "results"}
          PROVE  \E v : /\ job.matched = OverallMatch(job.event, msgs[job.msg].content, v)
                        /\ job.results = FilterResults(job.event, msgs[job.msg].content, v)
                        /\ saves' = 0 => v = pipe'[job.pipeline]
      BY <2>3, <2>6 DEF RoundOK
    <2>7. job.at \in {"inactivate", "results"} =>
             /\ mapping'[job.row].pipeline = job.pipeline /\ mapping'[job.row].data = job.data
             /\ mapping'[job.row].matched = job.matched
             /\ saves' = 0 => mapping'[job.row].active
      BY <2>2, <2>3, <2>4 DEF RoundOK
    <2>8. job.at = "results" => results[job.row] = <<>>
      BY DEF RoundOK
    <2> QED
      BY <2>1, <2>5, <2>6, <2>7, <2>8 DEF RoundOK
  <1> SUFFICES ASSUME ~Elsewhere PROVE RoundOK'
    BY <1>1
  <1>2. UNCHANGED <<pipe, saves, msgs>>
    BY InsideEffect
  <1>3. saves' = 0 => \A p \in DOMAIN job.rows : job.rows[p] = pipe'[p]
    BY <1>2 DEF RoundOK
  \* Outside of the three steps that work on the mapping, the rows are what is left.
  <1>4. ASSUME job'.at \notin {"map", "inactivate", "results"},
               saves' = 0 => \A p \in DOMAIN job'.rows : job'.rows[p] = pipe'[p]
        PROVE  RoundOK'
    BY <1>3, <1>4 DEF RoundOK
  <1>5. CASE Deliver \/ Ack \/ Crash \/ Fails(Querying) \/ Return
    <2>1. job'.at \in {"idle", "name", "event", "done"} /\ DOMAIN job'.rows = {}
      <3>1. CASE Deliver
        BY <1>0, <3>1, DeliverEffect, EmptyFcn
      <3>2. CASE Ack \/ Crash
        BY <1>0, <3>2, AckEffect, CrashEffect, IdleJob, EmptyFcn
      <3>3. CASE Fails(Querying) \/ Return
        BY <1>0, <3>3, FailsEffect, ReturnEffect, EmptyFcn
      <3> QED
        BY <1>5, <3>1, <3>2, <3>3
    <2> QED
      BY <1>4, <2>1
  <1>6. CASE Name \/ SaveParsed
    <2>1. job'.at \in {"name", "event", "find"} /\ job'.rows = job.rows
      BY <1>0, <1>6, NameEffect, SaveParsedEffect
    <2> QED
      BY <1>3, <1>4, <2>1
  <1>7. CASE FindMaterials
    <2>1. /\ job'.at \in {"event", "pipeline"}
          /\ job'.rows = [p \in {p \in Pipelines : pipe[p] # Inactive} |-> pipe[p]]
      BY <1>0, <1>7, FindEffect
    <2> QED
      BY <1>2, <1>4, <2>1
  <1>8. CASE Match /\ ~Return
    <2>1. PICK p \in DOMAIN job.rows :
             /\ job'.at = "map" /\ job'.msg = job.msg
             /\ job'.event = job.event /\ job'.pipeline = p
             /\ job'.rows = [q \in DOMAIN job.rows \ {p} |-> job.rows[q]]
             /\ job'.matched = OverallMatch(job.event, msgs[job.msg].content, job.rows[p])
             /\ job'.results = FilterResults(job.event, msgs[job.msg].content, job.rows[p])
      BY <1>0, <1>8, MatchEffect
    <2>2. saves' = 0 => \A q \in DOMAIN job'.rows : job'.rows[q] = pipe'[q]
      BY <1>3, <2>1
    <2>3. saves' = 0 => job.rows[p] = pipe'[p]
      BY <1>3, <2>1
    <2>4. \E v : /\ job'.matched = OverallMatch(job'.event, msgs'[job'.msg].content, v)
                 /\ job'.results = FilterResults(job'.event, msgs'[job'.msg].content, v)
                 /\ saves' = 0 => v = pipe'[job'.pipeline]
      BY <1>2, <2>1, <2>3
    <2> QED
      BY <1>3, <2>1, <2>2, <2>4 DEF RoundOK
  <1>9. CASE SaveMapping /\ ~Return
    <2>1. /\ job.at = "map" /\ job'.at \in {"inactivate", "results"} /\ Follow
          /\ job'.results = job.results
          /\ job'.at = "results" => /\ job'.row = Len(mapping) + 1
                                    /\ results' = Append(results, <<>>)
      BY <1>0, <1>9, SaveMappingEffect
    <2>2. mapping'[job'.row] = NewMapping
      BY <1>9, MappingEffect
    <2>3. /\ NewMapping.pipeline = job.pipeline /\ NewMapping.data = job.data
          /\ NewMapping.matched = job.matched /\ NewMapping.active
      BY DEF NewMapping
    <2>4. job'.at = "results" => results'[job'.row] = <<>>
      <3>1. <<>> \in Seq(Outcomes)
        BY EmptySeq
      <3> QED
        BY <1>0, <2>1, <3>1, Appends
    <2>5. \E v : /\ job'.matched = OverallMatch(job'.event, msgs'[job'.msg].content, v)
                 /\ job'.results = FilterResults(job'.event, msgs'[job'.msg].content, v)
                 /\ saves' = 0 => v = pipe'[job'.pipeline]
      BY <1>2, <2>1 DEF RoundOK, Follow
    <2> QED
      BY <1>3, <2>1, <2>2, <2>3, <2>4, <2>5 DEF RoundOK, Follow
  <1>10. CASE Inactivate
    <2>1. /\ job.at = "inactivate" /\ job'.at = "results" /\ Follow
          /\ job'.row = job.row /\ job'.results = job.results /\ mapping' = mapping
          /\ results' = [results EXCEPT ![job.row] = <<>>]
      BY <1>0, <1>10, InactivateEffect
    <2>2. results'[job.row] = <<>>
      <3>1. <<>> \in Seq(Outcomes) /\ job.row \in 1..Len(results)
        BY <1>0, <2>1, EmptySeq DEF Labelled
      <3> QED
        BY <1>0, <2>1, <3>1, Overwrites
    <2>3. \E v : /\ job'.matched = OverallMatch(job'.event, msgs'[job'.msg].content, v)
                 /\ job'.results = FilterResults(job'.event, msgs'[job'.msg].content, v)
                 /\ saves' = 0 => v = pipe'[job'.pipeline]
      BY <1>2, <2>1 DEF RoundOK, Follow
    <2> QED
      BY <1>2, <1>3, <2>1, <2>2, <2>3 DEF RoundOK, Follow
  <1>11. CASE SaveResults \/ Notify
    <2>1. job'.at \in {"notify", "event", "pipeline"} /\ job'.rows = job.rows
      BY <1>0, <1>11, SaveResultsEffect, NotifyEffect DEF Follow
    <2> QED
      BY <1>3, <1>4, <2>1
  <1> QED
    BY <1>5, <1>6, <1>7, <1>8, <1>9, <1>10, <1>11 DEF Next, Handle, Elsewhere, Querying, Marking, Checkouts

LEMMA RoundInit == Init => RoundOK
  BY EmptyFcn, IdleJob DEF Init, RoundOK
\* Nothing has failed and there was no restart.
Smooth == happened \subseteq {"late"}

\* The older events have all got the host's name, or none.
NamedOK ==
    Smooth => IF job.at = "name" THEN named \cup job.unnamed = EventIds
              ELSE named \in {{}, EventIds}

\* A mapping has no filter results, or one set of them that goes with it, unless
\* the callback is about to write them.
Fits(m) ==
    \/ results[m] = <<>>
    \/ \E r \in Outcomes :
          /\ results[m] = <<r>>
          /\ mapping[m].matched <=> \A s \in DOMAIN r : r[s]
          /\ saves = 0 => DOMAIN r = Relevant(pipe[mapping[m].pipeline])

ResultsOK ==
    Smooth => \A m \in 1..Len(mapping) :
                 (job.at \in {"inactivate", "results"} /\ job.row = m) \/ Fits(m)

LEMMA FitsStays ==
    ASSUME NEW m, Fits(m), results'[m] = results[m], mapping'[m] = mapping[m],
           UNCHANGED <<pipe, saves>>
    PROVE  Fits(m)'
  BY DEF Fits

LEMMA Unsmooth ==
    ASSUME EventsInv, [Next]_vars, Smooth'
    PROVE  Smooth /\ ~Crash /\ ~Fails(Querying)
  <1>1. happened \subseteq happened'
    BY Remembered
  <1>2. ~Crash /\ ~Fails(Querying)
    BY DEF Crash, Fails, Fault, Smooth
  <1> QED
    BY <1>1, <1>2 DEF Smooth

LEMMA NamedNext == EventsInv /\ NamedOK /\ [Next]_vars => NamedOK'
  <1> SUFFICES ASSUME EventsInv, NamedOK, [Next]_vars, Smooth' PROVE NamedOK'
    BY DEF NamedOK
  <1>0. Types /\ Smooth
    BY Unsmooth DEF EventsInv
  <1>1. CASE Deliver
    BY <1>0, <1>1, DeliverEffect DEF NamedOK
  <1>2. CASE Name
    <2>1. PICK e \in job.unnamed :
            /\ job'.unnamed = job.unnamed \ {e}
            /\ job'.at = IF job.unnamed = {e} THEN "event" ELSE "name"
            /\ named' = named \cup {e} \/ Fault("db")
      BY <1>0, <1>2, NameEffect
    <2>2. named' = named \cup {e}
      BY <2>1 DEF Fault, Smooth
    <2>3. named \cup job.unnamed = EventIds
      BY <1>0, <1>2, NameEffect DEF NamedOK
    <2> QED
      BY <2>1, <2>2, <2>3 DEF NamedOK
  <1>3. CASE UNCHANGED named /\ job.at # "name" /\ job'.at # "name"
    BY <1>0, <1>3 DEF NamedOK
  <1>4. CASE Elsewhere
    BY <1>0, <1>4, ElsewhereEffect DEF NamedOK
  <1>5. CASE SaveParsed \/ FindMaterials \/ Notify
    <2>1. job.at # "name" /\ job'.at # "name" /\ UNCHANGED named
      BY <1>0, <1>5, SaveParsedEffect, FindEffect, NotifyEffect
    <2> QED
      BY <1>3, <2>1
  <1>6. CASE Match \/ SaveMapping
    <2>1. job.at # "name" /\ job'.at # "name" /\ UNCHANGED named
      BY <1>0, <1>6, MatchEffect, SaveMappingEffect, ReturnEffect
    <2> QED
      BY <1>3, <2>1
  <1>7. CASE Inactivate \/ SaveResults \/ Ack
    <2>1. job.at # "name" /\ job'.at # "name" /\ UNCHANGED named
      BY <1>0, <1>7, InactivateEffect, SaveResultsEffect, AckEffect, IdleJob
    <2> QED
      BY <1>3, <2>1
  <1> QED
    BY <1>1, <1>2, <1>4, <1>5, <1>6, <1>7, Unsmooth DEF Next, Handle, Elsewhere, Querying, Marking, Checkouts

LEMMA ResultsNext == EventsInv /\ RoundOK /\ ResultsOK /\ [Next]_vars => ResultsOK'
  <1> SUFFICES ASSUME EventsInv, RoundOK, ResultsOK, [Next]_vars, Smooth' PROVE ResultsOK'
    BY DEF ResultsOK
  <1>0. /\ Types /\ Smooth /\ Labelled
        /\ results \in Seq(Seq(Outcomes)) /\ mapping \in Seq(Mapping) /\ Len(results) = Len(mapping)
        /\ Len(mapping) \in Nat /\ <<>> \in Seq(Outcomes)
    BY LenProperties, EmptySeq, Unsmooth DEF EventsInv, Types
  <1>1. CASE Elsewhere
    <2>1. UNCHANGED <<msgs, results, job>>
      BY <1>1, ElsewhereEffect
    <2>2. saves' = 0 => saves = 0 /\ pipe' = pipe /\ mapping' = mapping
      BY <1>1, ElsewhereMappings, Untouched
    <2>3. /\ Len(mapping') = Len(mapping)
          /\ \A m \in 1..Len(mapping) : /\ mapping'[m].pipeline = mapping[m].pipeline
                                        /\ mapping'[m].matched = mapping[m].matched
      BY <1>1, ElsewhereMappings
    <2>4. \A m \in 1..Len(mapping) : Fits(m) => Fits(m)'
      BY <2>1, <2>2, <2>3 DEF Fits
    <2> QED
      BY <1>0, <2>1, <2>3, <2>4 DEF ResultsOK
  <1> SUFFICES ASSUME ~Elsewhere PROVE ResultsOK'
    BY <1>1
  <1>2. UNCHANGED <<pipe, saves, msgs>>
    BY InsideEffect
  <1>3. CASE UNCHANGED <<mapping, results>> /\ job.at \notin {"inactivate", "results"}
    <2>1. \A m \in 1..Len(mapping) : Fits(m)'
      BY <1>0, <1>2, <1>3 DEF ResultsOK, Fits
    <2> QED
      BY <1>3, <2>1 DEF ResultsOK
  <1>4. CASE SaveMapping /\ ~Return
    <2>1. /\ job.at = "map" /\ job'.at \in {"inactivate", "results"}
          /\ results' = results \/ (results' = Append(results, <<>>) /\ job'.row = Len(mapping) + 1)
      BY <1>0, <1>4, SaveMappingEffect
    <2>2. \A m \in 1..Len(mapping') : m # job'.row =>
              m \in 1..Len(mapping) /\ mapping'[m] = mapping[m]
      BY <1>4, MappingEffect
    <2>3. \A m \in 1..Len(mapping) : results'[m] = results[m]
      <3>1. CASE results' = Append(results, <<>>)
        <4>1. \A i \in 1..Len(results) : Append(results, <<>>)[i] = results[i]
          BY <1>0, Appends
        <4> QED
          BY <1>0, <3>1, <4>1
      <3> QED
        BY <2>1, <3>1
    <2>4. \A m \in 1..Len(mapping) : Fits(m)
      BY <1>0, <2>1 DEF ResultsOK
    <2>5. \A m \in 1..Len(mapping') : m # job'.row => Fits(m)'
      BY <1>2, <2>2, <2>3, <2>4, FitsStays
    <2> QED
      BY <2>1, <2>5 DEF ResultsOK
  <1>5. CASE Inactivate
    <2>1. /\ job.at = "inactivate" /\ job'.at = "results"
          /\ job'.row = job.row /\ mapping' = mapping /\ job.row \in 1..Len(results)
          /\ results' = [results EXCEPT ![job.row] = <<>>]
      BY <1>0, <1>5, InactivateEffect DEF Labelled
    <2>2. \A m \in 1..Len(mapping) : m # job.row => results'[m] = results[m]
      BY <1>0, <2>1, Overwrites
    <2>3. \A m \in 1..Len(mapping) : m # job.row => Fits(m)'
      BY <1>0, <1>2, <2>1, <2>2 DEF ResultsOK, Fits
    <2> QED
      BY <2>1, <2>3 DEF ResultsOK
  <1>6. CASE SaveResults
    <2>1. /\ job.at = "results" /\ mapping' = mapping /\ job.row \in 1..Len(results)
          /\ job.results \in Outcomes
          /\ results' = IF job.results = <<>> THEN results
                         ELSE [results EXCEPT ![job.row] = Append(results[job.row], job.results)]
      BY <1>0, <1>6, SaveResultsEffect DEF Labelled, Types, Job
    <2>2. results[job.row] = <<>> /\ mapping[job.row].matched = job.matched
          /\ mapping[job.row].pipeline = job.pipeline
      BY <2>1 DEF RoundOK
    <2>3. PICK v : /\ job.matched = OverallMatch(job.event, msgs[job.msg].content, v)
                   /\ job.results = FilterResults(job.event, msgs[job.msg].content, v)
                   /\ saves = 0 => v = pipe[job.pipeline]
      BY <2>1 DEF RoundOK
    <2>4. job.results # <<>> => /\ DOMAIN job.results = Relevant(v)
                                /\ job.matched <=> \A s \in DOMAIN job.results : job.results[s]
      BY <2>3, FilterFits
    <2>5. /\ \A m \in 1..Len(mapping) : m # job.row => results'[m] = results[m]
          /\ results'[job.row] = Saved(job.results)
      <3>1. CASE job.results = <<>>
        BY <2>1, <2>2, <3>1 DEF Saved
      <3>2. CASE job.results # <<>>
        <4> DEFINE s == <<job.results>>
        <4>1. s \in Seq(Outcomes) /\ Append(results[job.row], job.results) = s
          BY <2>1, <2>2
        <4>2. results' = [results EXCEPT ![job.row] = s] /\ Saved(job.results) = s
          BY <2>1, <3>2, <4>1 DEF Saved
        <4> HIDE DEF s
        <4>3. /\ \A m \in 1..Len(results) : m # job.row => [results EXCEPT ![job.row] = s][m] = results[m]
              /\ [results EXCEPT ![job.row] = s][job.row] = s
          BY <1>0, <2>1, <4>1, Overwrites
        <4> QED
          BY <1>0, <4>2, <4>3
      <3> QED
        BY <3>1, <3>2
    <2>6. \A m \in 1..Len(mapping) : m # job.row => Fits(m)'
      <3>1. \A m \in 1..Len(mapping) : m # job.row => Fits(m)
        BY <1>0 DEF ResultsOK
      <3> QED
        BY <1>2, <2>1, <2>5, <3>1, FitsStays
    <2>7. PICK k \in 1..Len(mapping) : k = job.row
      BY <1>0, <2>1
    <2>8. Fits(k)'
      <3>1. CASE job.results = <<>>
        BY <2>5, <2>7, <3>1 DEF Saved, Fits
      <3>2. CASE job.results # <<>>
        <4>1. /\ job.matched <=> \A s \in DOMAIN job.results : job.results[s]
              /\ saves = 0 => DOMAIN job.results = Relevant(pipe[job.pipeline])
          BY <2>3, <2>4, <3>2
        <4>2. PICK r \in Outcomes : r = job.results
          BY <2>1
        <4>3. /\ results'[k] = <<r>>
              /\ mapping'[k].matched <=> \A s \in DOMAIN r : r[s]
          BY <2>1, <2>2, <2>5, <2>7, <3>2, <4>1, <4>2 DEF Saved
        <4>4. saves' = 0 => DOMAIN r = Relevant(pipe'[mapping'[k].pipeline])
          BY <1>2, <2>1, <2>2, <2>7, <4>1, <4>2
        <4> QED
          BY <4>3, <4>4 DEF Fits, Relevant
      <3> QED
        BY <3>1, <3>2
    <2> QED
      BY <2>1, <2>6, <2>7, <2>8 DEF ResultsOK
  <1>7. CASE Deliver \/ Name \/ Ack \/ FindMaterials
    <2>1. job.at \notin {"inactivate", "results"} /\ UNCHANGED <<mapping, results>>
      BY <1>0, <1>7, DeliverEffect, NameEffect, AckEffect, FindEffect DEF tables
    <2> QED
      BY <1>3, <2>1
  <1>8. CASE SaveParsed \/ Match \/ Notify
    <2>1. job.at \notin {"inactivate", "results"} /\ UNCHANGED <<mapping, results>>
      BY <1>0, <1>8, SaveParsedEffect, MatchEffect, NotifyEffect DEF tables
    <2> QED
      BY <1>3, <2>1
  <1>9. CASE SaveMapping /\ Return
    <2>1. job.at \notin {"inactivate", "results"} /\ UNCHANGED <<mapping, results>>
      BY <1>0, <1>9, SaveMappingEffect, ReturnEffect
    <2> QED
      BY <1>3, <2>1
  <1> QED
    BY <1>4, <1>5, <1>6, <1>7, <1>8, <1>9, Unsmooth DEF Next, Handle, Elsewhere, Querying, Marking, Checkouts

\* The rows of filter results of an outcome.
Rows(r) == {[selector |-> s, matched |-> r[s]] : s \in DOMAIN r}

LEMMA ResultsAre ==
    ASSUME NEW m
    PROVE  /\ results[m] = <<>> => ResultsOf(m) = {}
           /\ \A r : results[m] = <<r>> => ResultsOf(m) = Rows(r)
  BY EmptyFcn DEF ResultsOf, Rows

\* There is one row for each selector, and it says whether the selector matched.
LEMMA RowCounts ==
    ASSUME NEW r \in Outcomes, IsFiniteSet(ActiveSelectors)
    PROVE  LET yes == {x \in Rows(r) : x.matched}
               no == {x \in Rows(r) : ~x.matched}
           IN /\ IsFiniteSet(Rows(r)) /\ Cardinality(Rows(r)) = Cardinality(DOMAIN r)
              /\ Cardinality(yes) + Cardinality(no) = Cardinality(Rows(r))
              /\ Cardinality(no) = 0 <=> \A s \in DOMAIN r : r[s]
  <1> DEFINE yes == {x \in Rows(r) : x.matched}
             no == {x \in Rows(r) : ~x.matched}
             f == [s \in DOMAIN r |-> [selector |-> s, matched |-> r[s]]]
  <1>1. DOMAIN r \subseteq ActiveSelectors /\ IsFiniteSet(DOMAIN r)
    BY OutcomeOf, FS_Subset
  <1>2. f \in Bijection(DOMAIN r, Rows(r))
    <2>1. f \in [DOMAIN r -> Rows(r)]
      BY DEF Rows
    <2>2. \A s \in DOMAIN r : f[s].selector = s
      OBVIOUS
    <2>3. \A x \in Rows(r) : \E s \in DOMAIN r : f[s] = x
      BY DEF Rows
    <2> HIDE DEF f
    <2>4. f \in Injection(DOMAIN r, Rows(r))
      BY <2>1, <2>2 DEF Injection, IsInjective
    <2>5. f \in Surjection(DOMAIN r, Rows(r))
      BY <2>1, <2>3 DEF Surjection
    <2> QED
      BY <2>4, <2>5 DEF Bijection
  <1>3. IsFiniteSet(Rows(r)) /\ Cardinality(Rows(r)) = Cardinality(DOMAIN r)
    <2>1. ExistsBijection(DOMAIN r, Rows(r))
      BY <1>2 DEF ExistsBijection
    <2> QED
      BY <1>1, <2>1, FS_Bijection
  <1>4. yes \cup no = Rows(r) /\ yes \cap no = {}
    OBVIOUS
  <1>5. IsFiniteSet(yes) /\ IsFiniteSet(no)
    <2>1. yes \in SUBSET Rows(r) /\ no \in SUBSET Rows(r)
      OBVIOUS
    <2> QED
      BY <1>3, <2>1, FS_Subset
  <1>6. Cardinality(yes) + Cardinality(no) = Cardinality(Rows(r))
    <2>1. Cardinality(yes \cup no) =
             Cardinality(yes) + Cardinality(no) - Cardinality(yes \cap no)
      BY <1>5, FS_Union
    <2>2. Cardinality(yes \cap no) = 0 /\ Cardinality(yes \cup no) = Cardinality(Rows(r))
      BY <1>4, FS_EmptySet
    <2>3. Cardinality(yes) \in Nat /\ Cardinality(no) \in Nat
      BY <1>5, FS_CardinalityType
    <2> HIDE DEF yes, no
    <2> QED
      BY <2>1, <2>2, <2>3
  <1>7. no = {} <=> \A s \in DOMAIN r : r[s]
    <2>1. ASSUME no # {} PROVE \E s \in DOMAIN r : ~r[s]
      <3>1. PICK x \in Rows(r) : ~x.matched
        BY <2>1
      <3>2. PICK s \in DOMAIN r : x = [selector |-> s, matched |-> r[s]]
        BY DEF Rows
      <3> QED
        BY <3>1, <3>2
    <2>2. ASSUME NEW s \in DOMAIN r, ~r[s] PROVE no # {}
      <3>1. [selector |-> s, matched |-> r[s]] \in Rows(r)
        BY DEF Rows
      <3>2. ~[selector |-> s, matched |-> r[s]].matched
        BY <2>2
      <3> QED
        BY <3>1, <3>2
    <2> QED
      BY <2>1, <2>2
  <1>8. Cardinality(no) = 0 <=> no = {}
    BY <1>5, FS_EmptySet
  <1> QED
    BY <1>3, <1>6, <1>7, <1>8
\* An active mapping is the only one that is found for its pipeline and data.
LEMMA OneFound ==
    ASSUME EventsInv, OneMapping, NEW m \in DOMAIN mapping, mapping[m].active
    PROVE  /\ FoundMapping(mapping[m].pipeline, mapping[m].data) = {m}
           /\ mapping[m].data \in DOMAIN parsed
           /\ UNION {ResultsOf(n) : n \in {m}} = ResultsOf(m)
  <1>1. DOMAIN mapping = 1..Len(mapping) /\ DOMAIN parsed = 1..Len(parsed)
    BY LenProperties DEF EventsInv, Types
  <1> QED
    BY <1>1 DEF FoundMapping, OneMapping, EventsInv, DataOK

LEMMA PayloadsInv ==
    ASSUME IsFiniteSet(ActiveSelectors), EventsInv, OneMapping, RoundOK, NamedOK, ResultsOK
    PROVE  PayloadsFit
  <1> SUFFICES ASSUME job.at = "idle", Smooth, NEW p \in Pipelines,
                      GetWebhookPayloadData(p) # None
               PROVE  /\ GetWebhookEventConfig(pipe[p].event) \in
                            GetAllWebhookEventConfigForHost(TRUE)
                      /\ \A line \in GetWebhookPayloadData(p).payloads :
                            /\ line.matchedFilters <=> line.failed = 0
                            /\ line.matched + line.failed =
                                  Cardinality(GetWebhookPayloadFilterData(line.data, p).selectors)
                            /\ saves = 0 => line.matched + line.failed =
                                  Cardinality(GetWebhookPayloadData(p).filters)
    BY DEF PayloadsFit, Smooth
  <1>1. /\ DOMAIN mapping = 1..Len(mapping) /\ DOMAIN parsed = 1..Len(parsed)
        /\ pipe \in [Pipelines -> PipelineValues] /\ mapping \in Seq(Mapping)
    BY LenProperties DEF EventsInv, Types
  <1>2. pipe[p] \notin {Inactive, Malformed}
    BY DEF GetWebhookPayloadData
  <1>3. pipe[p] \in Value /\ pipe[p].event \in EventIds
    <2>1. pipe[p] \in Value
      BY <1>1, <1>2 DEF PipelineValues
    <2> QED
      BY <2>1 DEF Value
  <1>4. GetWebhookEventConfig(pipe[p].event) \in GetAllWebhookEventConfigForHost(TRUE)
    BY <1>3 DEF GetAllWebhookEventConfigForHost, NamedOK
  <1>5. /\ GetWebhookPayloadData(p).filters = Relevant(pipe[p])
        /\ GetWebhookPayloadData(p).payloads =
              {Payload(m) : m \in {m \in MappingsOf(p) : ResultsOf(m) # {}}}
    BY <1>2 DEF GetWebhookPayloadData, GetWebhookEventConfig, Relevant
  <1>6. ASSUME NEW line \in GetWebhookPayloadData(p).payloads
        PROVE  /\ line.matchedFilters <=> line.failed = 0
               /\ line.matched + line.failed =
                     Cardinality(GetWebhookPayloadFilterData(line.data, p).selectors)
               /\ saves = 0 => line.matched + line.failed =
                     Cardinality(GetWebhookPayloadData(p).filters)
    <2>1. PICK m \in MappingsOf(p) : line = Payload(m) /\ ResultsOf(m) # {}
      BY <1>5
    <2>2. m \in DOMAIN mapping /\ mapping[m].pipeline = p /\ mapping[m].active
      BY DEF MappingsOf
    <2>3. PICK r \in Outcomes : /\ results[m] = <<r>>
                                /\ mapping[m].matched <=> \A s \in DOMAIN r : r[s]
                                /\ saves = 0 => DOMAIN r = Relevant(pipe[p])
      <3>1. Fits(m)
        BY <1>1, <2>2 DEF ResultsOK
      <3> QED
        BY <2>1, <2>2, <3>1, ResultsAre DEF Fits
    <2> DEFINE yes == {x \in Rows(r) : x.matched}
               no == {x \in Rows(r) : ~x.matched}
    <2>4. ResultsOf(m) = Rows(r)
      BY <2>3, ResultsAre
    <2>5. /\ line.data = mapping[m].data /\ line.matchedFilters = mapping[m].matched
          /\ line.matched = Cardinality(yes) /\ line.failed = Cardinality(no)
      BY <2>1, <2>4 DEF Payload
    <2>6. /\ Cardinality(Rows(r)) = Cardinality(DOMAIN r)
          /\ Cardinality(yes) + Cardinality(no) = Cardinality(Rows(r))
          /\ Cardinality(no) = 0 <=> \A s \in DOMAIN r : r[s]
      BY RowCounts
    <2>7. GetWebhookPayloadFilterData(line.data, p).selectors = Rows(r)
      <3>1. /\ FoundMapping(p, line.data) = {m} /\ line.data \in DOMAIN parsed
            /\ UNION {ResultsOf(n) : n \in {m}} = ResultsOf(m)
        BY <2>2, <2>5, OneFound
      <3> QED
        BY <2>4, <3>1 DEF GetWebhookPayloadFilterData
    <2> HIDE DEF yes, no
    <2> QED
      BY <1>5, <2>3, <2>5, <2>6, <2>7
  <1> QED
    BY <1>4, <1>6

\* The lines of the list of events are consistent with the filters that each of
\* them opens, for any number of pipelines, events and messages: each mapping has
\* the results of its last filtering, and no others.
THEOREM PayloadsAlwaysFit ==
    ASSUME IsFiniteSet(ActiveSelectors), NamedFirst \in {{}, EventIds}
    PROVE  SafeSpec => []PayloadsFit
  <1>1. Init => OneMapping /\ FoundOK /\ NamedOK /\ ResultsOK
    <2>1. Len(<<>>) = 0
      BY EmptySeq
    <2> QED
      BY <2>1, EmptyFcn, IdleJob DEF Init, OneMapping, FoundOK, NamedOK, ResultsOK
  <1>2. EventsInv /\ OneMapping /\ RoundOK /\ NamedOK /\ ResultsOK => PayloadsFit
    BY PayloadsInv
  <1> QED
    BY <1>1, <1>2, RoundInit, EventsInit, EventsNext, OneMappingNext, RoundNext, NamedNext,
       ResultsNext, PTL DEF SafeSpec
-----------------------------------------------------------------------------
(* Who is told of an event is shown it. *)

\* Nobody has changed a pipeline, all can be read, the data are written, and no
\* two faults came together.
Mild ==
    /\ saves = 0 /\ \A q \in Pipelines : pipe[q] # Malformed
    /\ "save" \notin happened
    /\ \A f, g \in happened \ {"publish"} : f = g

\* The callback refers to the data of its message.
WrittenOK ==
    "save" \notin happened /\ job.at \in InRound =>
       /\ job.data \in 1..Len(parsed)
       /\ parsed[job.data] =
             [event |-> job.event, uid |-> msgs[job.msg].uid, by |-> job.msg]

\* What the pipeline's filter says of message x.
Verdict(p, x) == OverallMatch(pipe[p].event, msgs[x].content, pipe[p])
Outcome(p, x) == FilterResults(pipe[p].event, msgs[x].content, pipe[p])

\* Row m is the mapping of the pipeline that message x leads to, with its results.
StoredAs(m, p, x, d) ==
    /\ m \in 1..Len(mapping) /\ d \in 1..Len(parsed)
    /\ parsed[d] = [event |-> pipe[p].event, uid |-> msgs[x].uid, by |-> x]
    /\ mapping[m].pipeline = p /\ mapping[m].data = d /\ mapping[m].active
    /\ mapping[m].matched /\ results[m] = Saved(Outcome(p, x))

Shown(p, x) == \E m, d \in Nat : StoredAs(m, p, x, d)

\* The callback is on its way to write the mapping of pipeline p again.
Pending(p, x) ==
    /\ job.msg = x /\ job.event = pipe[p].event
    /\ \/ job.at = "find"
       \/ job.at \in InRound /\ p \in DOMAIN job.rows
       \/ job.at \in {"map", "inactivate", "results"} /\ job.pipeline = p

ShownOK ==
    Mild =>
       /\ \A p \in DOMAIN job.rows : pipe[p] # Inactive
       /\ job.at \in {"map", "inactivate", "results", "notify"} => pipe[job.pipeline] # Inactive
       /\ job.at = "notify" /\ job.matched =>
             Verdict(job.pipeline, job.msg) /\ Shown(job.pipeline, job.msg)
       /\ \A p \in Pipelines, x \in Messages : told[p][x] # 0 =>
             /\ pipe[p] # Inactive /\ Verdict(p, x)
             /\ Overwritten(p, x) \/ Shown(p, x) \/ Pending(p, x)

LEMMA WrittenNext == EventsInv /\ WrittenOK /\ [Next]_vars => WrittenOK'
  <1> SUFFICES ASSUME EventsInv, WrittenOK, [Next]_vars PROVE WrittenOK'
    OBVIOUS
  <1>0. Types
    BY DEF EventsInv
  <1>1. CASE Deliver \/ Name \/ Ack \/ Crash \/ Fails(Querying)
    BY <1>0, <1>1, OutsideEffect DEF WrittenOK, InRound
  <1>2. CASE Elsewhere
    <2>1. UNCHANGED <<msgs, parsed, job>>
      BY <1>2, ElsewhereEffect
    <2>2. happened \subseteq happened'
      BY Remembered
    <2> QED
      BY <2>1, <2>2 DEF WrittenOK
  <1>3. CASE SaveParsed
    <2>1. PICK e \in job.events :
                 /\ job'.event = e
                 /\ LET new == [event |-> e, uid |-> msgs[job.msg].uid, by |-> job.msg]
                        found == FoundParsed(e, new.uid)
                    IN \/ /\ found = {} /\ parsed' = Append(parsed, new)
                          /\ job'.data = Len(parsed) + 1 /\ UNCHANGED happened
                       \/ \E id \in found :
                             /\ parsed' = [parsed EXCEPT ![id] = new] /\ UNCHANGED happened
                             /\ job'.data = id
                       \/ Fault("save")
      BY <1>0, <1>3, SaveParsedEffect
    <2>2. job.at = "event" /\ job'.at = "find" /\ job'.msg = job.msg /\ msgs' = msgs
      BY <1>0, <1>3, SaveParsedEffect
    <2> DEFINE new == [event |-> e, uid |-> msgs[job.msg].uid, by |-> job.msg]
    <2>3. new \in Parsed /\ new.uid = msgs[job.msg].uid
      BY <1>0, <2>2, <1>3, SaveParsedEffect, <2>1, ParsedEffect DEF EventsInv, Labelled, Types, Parsed
    <2>4. parsed \in Seq(Parsed) /\ Len(parsed) \in Nat /\ DOMAIN parsed = 1..Len(parsed)
      BY <1>0, LenProperties DEF Types
    <2>5. ASSUME "save" \notin happened'
          PROVE  job'.data \in 1..Len(parsed') /\ parsed'[job'.data] = new
      <3> HIDE DEF new
      <3>1. CASE parsed' = Append(parsed, new) /\ job'.data = Len(parsed) + 1
        BY <2>3, <2>4, <3>1, Appends
      <3>2. CASE \E id \in FoundParsed(e, new.uid) :
                    parsed' = [parsed EXCEPT ![id] = new] /\ job'.data = id
        <4>1. PICK id \in FoundParsed(e, new.uid) :
                    parsed' = [parsed EXCEPT ![id] = new] /\ job'.data = id
          BY <3>2
        <4>2. id \in 1..Len(parsed)
          BY <2>4 DEF FoundParsed
        <4> QED
          BY <2>3, <2>4, <4>1, <4>2, Overwrites
      <3>3. ~Fault("save")
        BY <2>5 DEF Fault
      <3> QED
        BY <2>1, <3>1, <3>2, <3>3 DEF new
    <2> QED
      BY <2>1, <2>2, <2>5 DEF WrittenOK
  <1>4. CASE FindMaterials
    BY <1>0, <1>4, FindEffect DEF WrittenOK, InRound, tables
  <1>5. CASE Match
    <2>1. CASE Return
      BY <1>0, <2>1, ReturnEffect DEF WrittenOK, InRound
    <2>2. CASE ~Return
      BY <1>0, <1>5, <2>2, MatchEffect DEF WrittenOK, InRound, tables
    <2> QED
      BY <2>1, <2>2
  <1>6. CASE SaveMapping
    <2>1. CASE Return
      BY <1>0, <2>1, ReturnEffect DEF WrittenOK, InRound
    <2>2. CASE ~Return
      BY <1>0, <1>6, <2>2, SaveMappingEffect DEF WrittenOK, InRound, Follow
    <2> QED
      BY <2>1, <2>2
  <1>7. CASE Inactivate \/ SaveResults
    BY <1>0, <1>7, InactivateEffect, SaveResultsEffect DEF WrittenOK, InRound, Follow
  <1>8. CASE Notify
    <2>1. happened \subseteq happened'
      BY <1>8 DEF Notify, Fault
    <2>2. /\ job.at = "notify" /\ UNCHANGED <<msgs, parsed>> /\ job'.msg = job.msg
          /\ job'.at \in {"event", "pipeline"}
          /\ job'.at = "pipeline" => job'.event = job.event /\ job'.data = job.data
      BY <1>0, <1>8, NotifyEffect DEF tables
    <2> QED
      BY <2>1, <2>2 DEF WrittenOK, InRound
  <1> QED
    BY <1>1, <1>2, <1>3, <1>4, <1>5, <1>6, <1>7, <1>8 DEF Next, Handle, Elsewhere, Querying, Marking, Checkouts

\* Faults are not forgotten, and the second one is one too many.
LEMMA StaysMild ==
    ASSUME EventsInv, [Next]_vars, Mild'
    PROVE  /\ Mild /\ pipe' = pipe /\ saves' = saves
           /\ Crash \/ Fails(Querying) => Undisturbed
  <1>1. happened \subseteq happened'
    BY Remembered
  <1>2. pipe' = pipe /\ saves' = saves
    BY Untouched DEF Mild
  <1>3. Mild
    BY <1>1, <1>2 DEF Mild
  <1>4. Crash => Undisturbed
    BY <1>2, <1>3 DEF Crash, Fault, Mild, Undisturbed
  <1>5. Fails(Querying) => Undisturbed
    BY <1>2, <1>3 DEF Fails, Fault, Mild, Undisturbed
  <1> QED
    BY <1>2, <1>3, <1>4, <1>5

LEMMA ShownStays ==
    ASSUME NEW m, NEW d, NEW p, NEW x, StoredAs(m, p, x, d), UNCHANGED <<pipe, msgs>>,
           m \in 1..Len(mapping'), d \in 1..Len(parsed'),
           mapping'[m] = mapping[m], parsed'[d] = parsed[d], results'[m] = results[m]
    PROVE  StoredAs(m, p, x, d)'
  BY DEF StoredAs, Outcome, FilterResults, Relevant
LEMMA ShownNext ==
    /\ EventsInv /\ OnceOK /\ RoundOK /\ WrittenOK /\ WrittenOK' /\ ShownOK
    /\ [Next]_vars
    => ShownOK'
  <1> SUFFICES ASSUME EventsInv, OnceOK, RoundOK, WrittenOK, WrittenOK', ShownOK, [Next]_vars,
                      Mild'
               PROVE  ShownOK'
    BY DEF ShownOK
  <1>0. /\ Types /\ Labelled /\ DataOK /\ Len(mapping) \in Nat /\ Len(parsed) \in Nat
        /\ Len(results) = Len(mapping)
        /\ results \in Seq(Seq(Outcomes)) /\ mapping \in Seq(Mapping) /\ parsed \in Seq(Parsed)
        /\ DOMAIN parsed = 1..Len(parsed) /\ DOMAIN parsed' = 1..Len(parsed')
        /\ DOMAIN job.rows \subseteq Pipelines /\ <<>> \in Seq(Outcomes)
    BY EventsNext, LenProperties, RowSetOf, EmptySeq DEF EventsInv, Types, Job
  <1>1. /\ Mild /\ UNCHANGED <<pipe, saves, msgs>> /\ saves = 0
        /\ \A p \in DOMAIN job.rows : job.rows[p] = pipe[p]
        /\ Crash \/ Fails(Querying) => Undisturbed
    <2>1. saves = 0
      BY Untouched DEF Mild
    <2>2. \A p \in DOMAIN job.rows : job.rows[p] = pipe[p]
      BY <2>1 DEF RoundOK
    <2> QED
      BY <2>1, <2>2, StaysMild, Writers
  <1>2. /\ \A p \in DOMAIN job.rows : pipe[p] # Inactive
        /\ job.at \in {"map", "inactivate", "results", "notify"} => pipe[job.pipeline] # Inactive
        /\ job.at = "notify" /\ job.matched =>
             Verdict(job.pipeline, job.msg) /\ Shown(job.pipeline, job.msg)
        /\ \A p \in Pipelines, x \in Messages : told[p][x] # 0 =>
             /\ pipe[p] # Inactive /\ Verdict(p, x)
             /\ Overwritten(p, x) \/ Shown(p, x) \/ Pending(p, x)
    BY <1>1 DEF ShownOK
  <1>3. \A p, x : Verdict(p, x)' <=> Verdict(p, x)
    BY <1>1 DEF Verdict, OverallMatch, Relevant
  <1>4. \A p, x : UNCHANGED parsed /\ Overwritten(p, x) => Overwritten(p, x)'
    BY <1>1 DEF Overwritten
  <1>5. \A p, x : UNCHANGED <<parsed, mapping, results>> /\ Shown(p, x) => Shown(p, x)'
    BY <1>1, ShownStays DEF Shown, StoredAs
  \* It is enough to follow the callback if the tables stay as they are.
  <1>6. ASSUME UNCHANGED <<parsed, mapping, results, told>>,
               \A p \in DOMAIN job'.rows : pipe[p] # Inactive,
               job'.at \in {"map", "inactivate", "results"} => pipe[job'.pipeline] # Inactive,
               job'.at # "notify" \/ job' = job,
               \A p \in Pipelines, x \in Messages :
                  told[p][x] # 0 /\ Pending(p, x) => Pending(p, x)'
        PROVE  ShownOK'
    <2>1. job'.at = "notify" /\ job'.matched =>
             Verdict(job'.pipeline, job'.msg) /\ Shown(job'.pipeline, job'.msg)
      BY <1>2, <1>6
    <2>2. job'.at = "notify" /\ job'.matched =>
             Verdict(job.pipeline, job.msg)' /\ Shown(job.pipeline, job.msg)'
      <3>1. PICK p, x : p = job'.pipeline /\ x = job'.msg
        OBVIOUS
      <3>2. job'.at = "notify" /\ job'.matched => Verdict(p, x) /\ Shown(p, x)
        BY <2>1, <3>1
      <3>3. job'.at = "notify" /\ job'.matched => Verdict(p, x)' /\ Shown(p, x)'
        BY <1>3, <1>5, <1>6, <3>2
      <3> QED
        BY <3>1, <3>3
    <2>3. \A p \in Pipelines, x \in Messages : told'[p][x] # 0 =>
             /\ pipe'[p] # Inactive /\ Verdict(p, x)'
             /\ Overwritten(p, x)' \/ Shown(p, x)' \/ Pending(p, x)'
      BY <1>1, <1>2, <1>3, <1>4, <1>5, <1>6
    <2> QED
      BY <1>1, <1>2, <1>6, <2>2, <2>3 DEF ShownOK
  <1>7. CASE Deliver \/ Name \/ Ack
    <2>1. /\ UNCHANGED <<parsed, mapping, results, told>> /\ job.at \notin InRound
          /\ job'.at \notin InRound
          /\ job'.rows = job.rows \/ DOMAIN job'.rows = {}
      BY <1>0, <1>7, DeliverEffect, NameEffect, AckEffect, IdleJob, EmptyFcn DEF tables, InRound
    <2>2. \A p \in Pipelines, x \in Messages : ~Pending(p, x)
      BY <2>1 DEF Pending, InRound
    <2> QED
      BY <1>2, <1>6, <2>1, <2>2 DEF InRound
  <1>8. CASE Elsewhere
    <2>1. UNCHANGED <<parsed, mapping, results, job, told>>
      BY <1>1, <1>8, ElsewhereEffect, ElsewhereMappings
    <2>2. \A p \in Pipelines, x \in Messages : Pending(p, x) => Pending(p, x)'
      BY <1>1, <2>1 DEF Pending
    <2> QED
      BY <1>2, <1>6, <2>1, <2>2
  <1>9. CASE Crash \/ Fails(Querying)
    <2>1. /\ UNCHANGED <<parsed, mapping, results, told>> /\ job'.at \notin InRound
          /\ DOMAIN job'.rows = {}
      BY <1>0, <1>9, CrashEffect, FailsEffect, ReturnEffect, IdleJob, EmptyFcn DEF tables, InRound
    <2>2. ASSUME NEW p \in Pipelines, NEW x \in Messages, told[p][x] # 0 PROVE ~Pending(p, x)
      <3>1. copies[x] = 0 \/ (job.msg = x /\ Passed(p))
        BY <1>1, <1>9, <2>2 DEF OnceOK
      <3>2. job.at # "idle" => copies[job.msg] > 0 /\ job.msg \in Messages
        BY <1>0 DEF Labelled
      <3>3. copies \in [Messages -> Nat]
        BY <1>0 DEF Types
      <3> QED
        BY <3>1, <3>2, <3>3 DEF Pending, Passed, InRound
    <2> QED
      BY <1>2, <1>6, <2>1, <2>2 DEF InRound
  <1>10. CASE FindMaterials
    <2>1. /\ job.at = "find" /\ job'.msg = job.msg
          /\ job'.rows = [p \in {p \in Pipelines : pipe[p] # Inactive} |-> pipe[p]]
          /\ \/ job'.rows = <<>> /\ job'.at = "event"
             \/ job'.at = "pipeline" /\ job'.event = job.event
          /\ UNCHANGED <<parsed, mapping, results, told>>
      BY <1>0, <1>10, FindEffect DEF tables
    <2>2. ASSUME NEW p \in Pipelines, NEW x \in Messages, told[p][x] # 0, Pending(p, x)
          PROVE  Pending(p, x)'
      <3>1. p \in DOMAIN job'.rows
        BY <1>2, <2>1, <2>2
      <3>2. job'.rows # <<>>
        BY <3>1, EmptyFcn
      <3> QED
        BY <1>1, <2>1, <2>2, <3>1, <3>2 DEF Pending, InRound
    <2> QED
      BY <1>6, <2>1, <2>2
  <1>11. CASE Match
    <2>1. ~\E p \in DOMAIN job.rows : job.rows[p] = Malformed
      BY <1>0, <1>1 DEF Mild
    <2>2. PICK p \in DOMAIN job.rows :
             /\ job.at = "pipeline" /\ job'.at = "map" /\ job'.msg = job.msg
             /\ job'.event = job.event /\ job'.pipeline = p
             /\ job'.rows = [q \in DOMAIN job.rows \ {p} |-> job.rows[q]]
             /\ UNCHANGED <<parsed, mapping, results, told>>
      BY <1>0, <1>11, <2>1, MatchEffect DEF tables
    <2>3. \A q \in Pipelines, x \in Messages : Pending(q, x) => Pending(q, x)'
      BY <1>1, <2>2 DEF Pending, InRound
    <2> QED
      BY <1>2, <1>6, <2>2, <2>3
  <1>12. CASE SaveParsed
    <2>1. /\ job.at = "event" /\ job'.at = "find" /\ job'.msg = job.msg /\ job'.rows = job.rows
          /\ UNCHANGED <<mapping, results, told>>
      BY <1>0, <1>12, SaveParsedEffect
    <2>2. /\ job'.data \in 1..Len(parsed')
          /\ parsed'[job'.data] =
                [event |-> job'.event, uid |-> msgs[job.msg].uid, by |-> job.msg]
      BY <1>1, <2>1 DEF WrittenOK, InRound, Mild
    <2>3. /\ Len(parsed') \in Nat /\ Len(parsed') >= Len(parsed)
          /\ \A d \in 1..Len(parsed') :
                 \/ d \in 1..Len(parsed) /\ parsed'[d] = parsed[d]
                 \/ /\ d = job'.data
                    /\ \/ d \in FoundParsed(job'.event, msgs[job.msg].uid)
                       \/ d = Len(parsed) + 1
      BY <1>12, ParsedEffect
    <2>4. ASSUME NEW d \in 1..Len(parsed), NEW p \in Pipelines, NEW x \in Messages,
                 parsed[d].event = pipe[p].event, parsed[d].uid = msgs[x].uid
          PROVE  \/ parsed'[d] = parsed[d]
                 \/ Overwritten(p, x)'
                 \/ /\ job.msg = x /\ job'.event = pipe[p].event
                    /\ parsed'[d] = [event |-> pipe[p].event, uid |-> msgs[x].uid, by |-> x]
      <3>1. d \in 1..Len(parsed')
        BY <1>0, <2>3
      <3>2. CASE d = job'.data /\ d \in FoundParsed(job'.event, msgs[job.msg].uid)
        <4>1. /\ msgs[job.msg].uid # Blank /\ parsed[d].event = job'.event
              /\ parsed[d].uid = msgs[job.msg].uid
          BY <3>2 DEF FoundParsed
        <4>2. /\ parsed'[d].event = pipe[p].event /\ parsed'[d].uid = msgs[x].uid
              /\ msgs[x].uid # Blank /\ parsed'[d].by = job.msg
          BY <2>2, <2>4, <3>2, <4>1
        <4>3. job.msg # x => Overwritten(p, x)'
          BY <1>0, <1>1, <3>1, <4>2 DEF Overwritten
        <4> QED
          BY <2>2, <2>4, <3>2, <4>1, <4>3
      <3> QED
        BY <1>0, <2>3, <3>1, <3>2
    <2>5. ASSUME NEW p \in Pipelines, NEW x \in Messages, told[p][x] # 0
          PROVE  Overwritten(p, x)' \/ Shown(p, x)' \/ Pending(p, x)'
      <3>1. CASE Overwritten(p, x)
        <4>1. PICK d \in 1..Len(parsed) :
                 /\ parsed[d].event = pipe[p].event /\ parsed[d].by # x
                 /\ parsed[d].uid = msgs[x].uid /\ msgs[x].uid # Blank
          BY <1>0, <3>1 DEF Overwritten
        <4>2. CASE parsed'[d] = parsed[d]
          <5>1. d \in DOMAIN parsed'
            BY <1>0, <2>3
          <5> QED
            BY <1>1, <4>1, <4>2, <5>1 DEF Overwritten
        <4>3. CASE job.msg = x /\ job'.event = pipe[p].event
          BY <1>1, <2>1, <4>3 DEF Pending
        <4> QED
          BY <2>4, <4>1, <4>2, <4>3
      <3>2. CASE Shown(p, x)
        <4>1. PICK m \in Nat, d \in Nat : StoredAs(m, p, x, d)
          BY <3>2 DEF Shown
        <4>2. /\ d \in 1..Len(parsed) /\ m \in 1..Len(mapping)
              /\ parsed[d] = [event |-> pipe[p].event, uid |-> msgs[x].uid, by |-> x]
          BY <4>1 DEF StoredAs
        <4>3. CASE parsed'[d] = parsed[d]
          <5>1. d \in 1..Len(parsed')
            BY <1>0, <2>3, <4>2
          <5>2. StoredAs(m, p, x, d)'
            BY <1>1, <2>1, <4>1, <4>2, <4>3, <5>1, ShownStays
          <5> QED
            BY <5>2 DEF Shown
        <4> QED
          BY <2>4, <4>2, <4>3
      <3>3. ~Pending(p, x)
        BY <2>1 DEF Pending, InRound
      <3> QED
        BY <1>2, <2>5, <3>1, <3>2, <3>3
    <2>6. \A p \in Pipelines, x \in Messages : told'[p][x] # 0 =>
             /\ pipe'[p] # Inactive /\ Verdict(p, x)'
             /\ Overwritten(p, x)' \/ Shown(p, x)' \/ Pending(p, x)'
      BY <1>1, <1>2, <1>3, <2>1, <2>5
    <2> QED
      BY <1>1, <1>2, <2>1, <2>6 DEF ShownOK
  \* A row of the mapping that is the callback's is of its message.
  <1>13. ASSUME NEW m, NEW p \in Pipelines, NEW x \in Messages, NEW d, StoredAs(m, p, x, d),
                mapping[m].pipeline = job.pipeline, mapping[m].data = job.data,
                job.at \in {"map", "inactivate", "results"}
         PROVE  /\ p = job.pipeline /\ d = job.data /\ x = job.msg
                /\ job.event = pipe[p].event /\ Outcome(p, x) = job.results
                /\ job.matched = Verdict(p, x)
    <2>1. p = job.pipeline /\ d = job.data
      BY <1>13 DEF StoredAs
    <2>2. /\ parsed[d] = [event |-> pipe[p].event, uid |-> msgs[x].uid, by |-> x]
          /\ parsed[d] = [event |-> job.event, uid |-> msgs[job.msg].uid, by |-> job.msg]
      BY <1>1, <1>13, <2>1 DEF StoredAs, WrittenOK, Mild, InRound
    <2>3. x = job.msg /\ job.event = pipe[p].event
      BY <2>2
    <2> QED
      BY <1>1, <1>13, <2>1, <2>3 DEF RoundOK, Verdict, Outcome
  <1>14. CASE SaveMapping
    <2>1. job.at = "map" /\ job.data \in 1..Len(parsed) /\ UNCHANGED <<parsed, told>>
      BY <1>0, <1>1, <1>14, SaveMappingEffect DEF WrittenOK, Mild, InRound
    <2>2. ~Return
      BY <1>0, <1>14, <2>1, SaveMappingEffect, ReturnEffect
    <2>3. /\ Follow /\ job'.at \in {"inactivate", "results"}
          /\ \/ job'.row \in job.found /\ UNCHANGED results
             \/ job'.row = Len(mapping) + 1 /\ results' = Append(results, <<>>)
      BY <1>0, <1>14, <2>2, SaveMappingEffect
    <2>4. /\ Len(mapping') \in Nat /\ Len(mapping') >= Len(mapping)
          /\ mapping'[job'.row] = NewMapping
          /\ \A m \in 1..Len(mapping') : m # job'.row => mapping'[m] = mapping[m]
      BY <1>14, <2>2, MappingEffect
    <2>5. \A m \in 1..Len(mapping) : results'[m] = results[m]
      <3>1. CASE results' = Append(results, <<>>)
        <4>1. \A i \in 1..Len(results) : Append(results, <<>>)[i] = results[i]
          BY <1>0, Appends
        <4> QED
          BY <1>0, <3>1, <4>1
      <3> QED
        BY <2>3, <3>1
    <2>6. ASSUME NEW p \in Pipelines, NEW x \in Messages, told[p][x] # 0, Shown(p, x)
          PROVE  Shown(p, x)'
      <3>1. PICK m \in Nat, d \in Nat : StoredAs(m, p, x, d)
        BY <2>6 DEF Shown
      <3>2. m \in 1..Len(mapping) /\ m \in 1..Len(mapping') /\ d \in 1..Len(parsed)
        BY <1>0, <2>4, <3>1 DEF StoredAs
      <3>3. CASE m # job'.row
        <4>1. StoredAs(m, p, x, d)'
          BY <1>1, <2>1, <2>4, <2>5, <3>1, <3>2, <3>3, ShownStays
        <4> QED
          BY <4>1 DEF Shown
      <3>4. CASE m = job'.row
        <4>1. m \in job.found
          BY <1>0, <2>3, <3>2, <3>4
        <4>2. mapping[m].pipeline = job.pipeline /\ mapping[m].data = job.data
          BY <1>0, <2>1, <4>1 DEF Labelled
        <4>3. p = job.pipeline /\ d = job.data /\ job.matched
          BY <1>2, <1>13, <2>1, <2>6, <3>1, <4>2
        <4>4. /\ mapping'[m].pipeline = p /\ mapping'[m].data = d /\ mapping'[m].active
              /\ mapping'[m].matched
          BY <2>4, <3>4, <4>3 DEF NewMapping
        <4>5. Outcome(p, x)' = Outcome(p, x)
          BY <1>1 DEF Outcome, FilterResults, Relevant
        <4>6. StoredAs(m, p, x, d)'
          BY <1>1, <2>1, <2>5, <3>1, <3>2, <4>4, <4>5 DEF StoredAs
        <4> QED
          BY <4>6 DEF Shown
      <3> QED
        BY <3>3, <3>4
    <2>7. \A p \in Pipelines, x \in Messages : Pending(p, x) => Pending(p, x)'
      BY <1>1, <2>1, <2>3 DEF Pending, InRound, Follow
    <2>8. \A p \in Pipelines, x \in Messages : told'[p][x] # 0 =>
             /\ pipe'[p] # Inactive /\ Verdict(p, x)'
             /\ Overwritten(p, x)' \/ Shown(p, x)' \/ Pending(p, x)'
      BY <1>1, <1>2, <1>3, <1>4, <2>1, <2>6, <2>7
    <2> QED
      BY <1>1, <1>2, <2>1, <2>3, <2>8 DEF ShownOK, Follow
  <1>15. CASE Inactivate
    <2>1. /\ job.at = "inactivate" /\ job'.at = "results" /\ Follow
          /\ results' = [results EXCEPT ![job.row] = <<>>] /\ job.row \in 1..Len(results)
          /\ UNCHANGED <<parsed, mapping, told>>
      BY <1>0, <1>15, InactivateEffect DEF Labelled
    <2>2. \A m \in 1..Len(mapping) : m # job.row => results'[m] = results[m]
      BY <1>0, <2>1, Overwrites
    <2>3. mapping[job.row].pipeline = job.pipeline /\ mapping[job.row].data = job.data
      BY <2>1 DEF RoundOK
    <2>4. ASSUME NEW p \in Pipelines, NEW x \in Messages, Shown(p, x)
          PROVE  Shown(p, x)' \/ Pending(p, x)'
      <3>1. PICK m \in Nat, d \in Nat : StoredAs(m, p, x, d)
        BY <2>4 DEF Shown
      <3>2. m \in 1..Len(mapping) /\ d \in 1..Len(parsed)
        BY <3>1 DEF StoredAs
      <3>3. CASE m # job.row
        <4>1. StoredAs(m, p, x, d)'
          BY <1>1, <2>1, <2>2, <3>1, <3>2, <3>3, ShownStays
        <4> QED
          BY <4>1 DEF Shown
      <3>4. CASE m = job.row
        <4>1. p = job.pipeline /\ x = job.msg /\ job.event = pipe[p].event
          BY <1>13, <2>1, <2>3, <3>1, <3>4
        <4> QED
          BY <1>1, <2>1, <4>1 DEF Pending, Follow
      <3> QED
        BY <3>3, <3>4
    <2>5. \A p \in Pipelines, x \in Messages : Pending(p, x) => Pending(p, x)'
      BY <1>1, <2>1 DEF Pending, InRound, Follow
    <2>6. \A p \in Pipelines, x \in Messages : told'[p][x] # 0 =>
             /\ pipe'[p] # Inactive /\ Verdict(p, x)'
             /\ Overwritten(p, x)' \/ Shown(p, x)' \/ Pending(p, x)'
      BY <1>1, <1>2, <1>3, <1>4, <2>1, <2>4, <2>5
    <2> QED
      BY <1>1, <1>2, <2>1, <2>6 DEF ShownOK, Follow
  <1>16. CASE SaveResults
    <2>1. /\ job.at = "results" /\ job'.at = "notify" /\ Follow
          /\ job.row \in 1..Len(results) /\ job.results \in Outcomes
          /\ results' = IF job.results = <<>> THEN results
                        ELSE [results EXCEPT ![job.row] = Append(results[job.row], job.results)]
          /\ UNCHANGED <<parsed, mapping, told>>
      BY <1>0, <1>16, SaveResultsEffect DEF Labelled, Types, Job
    <2>2. /\ mapping[job.row].pipeline = job.pipeline /\ mapping[job.row].data = job.data
          /\ mapping[job.row].matched = job.matched /\ mapping[job.row].active
          /\ results[job.row] = <<>>
      BY <1>1, <2>1 DEF RoundOK
    <2>3. /\ \A m \in 1..Len(mapping) : m # job.row => results'[m] = results[m]
          /\ results'[job.row] = Saved(job.results)
      <3>1. CASE job.results = <<>>
        BY <2>1, <2>2, <3>1 DEF Saved
      <3>2. CASE job.results # <<>>
        <4> DEFINE s == <<job.results>>
        <4>1. s \in Seq(Outcomes) /\ Append(results[job.row], job.results) = s
          BY <2>1, <2>2
        <4>2. results' = [results EXCEPT ![job.row] = s] /\ Saved(job.results) = s
          BY <2>1, <3>2, <4>1 DEF Saved
        <4> HIDE DEF s
        <4>3. /\ \A m \in 1..Len(results) : m # job.row => [results EXCEPT ![job.row] = s][m] = results[m]
              /\ [results EXCEPT ![job.row] = s][job.row] = s
          BY <1>0, <2>1, <4>1, Overwrites
        <4> QED
          BY <1>0, <4>2, <4>3
      <3> QED
        BY <3>1, <3>2
    <2>4. PICK k \in Nat, P \in Pipelines, X \in Messages, D \in Nat :
             k = job.row /\ P = job.pipeline /\ X = job.msg /\ D = job.data
      BY <1>0, <2>1 DEF Labelled, Types, Job
    <2>5. /\ job.matched = OverallMatch(job.event, msgs[X].content, pipe[P])
          /\ job.results = FilterResults(job.event, msgs[X].content, pipe[P])
      BY <1>1, <2>1, <2>4 DEF RoundOK
    <2>6. job.event = pipe[P].event => job.matched = Verdict(P, X)
      BY <2>5 DEF Verdict
    <2>7. ASSUME job.matched PROVE Verdict(P, X) /\ Shown(P, X)'
      <3>1. job.event = pipe[P].event
        BY <2>5, <2>7 DEF OverallMatch
      <3>2. Outcome(P, X)' = job.results
        <4>1. Outcome(P, X)' = Outcome(P, X)
          BY <1>1 DEF Outcome, FilterResults, Relevant
        <4> QED
          BY <2>5, <3>1, <4>1 DEF Outcome
      <3>3. /\ D \in 1..Len(parsed)
            /\ parsed[D] = [event |-> pipe[P].event, uid |-> msgs[X].uid, by |-> X]
        BY <1>1, <2>1, <2>4, <3>1 DEF WrittenOK, Mild, InRound
      <3>4. /\ k \in 1..Len(mapping) /\ mapping[k].pipeline = P /\ mapping[k].data = D
            /\ mapping[k].active /\ mapping[k].matched /\ results'[k] = Saved(job.results)
        BY <1>0, <2>1, <2>2, <2>3, <2>4, <2>7
      <3>5. StoredAs(k, P, X, D)'
        BY <1>1, <2>1, <3>2, <3>3, <3>4 DEF StoredAs
      <3>6. Shown(P, X)'
        BY <3>5 DEF Shown
      <3> QED
        BY <2>6, <2>7, <3>1, <3>6
    <2>8. ASSUME NEW p \in Pipelines, NEW x \in Messages, told[p][x] # 0
          PROVE  Overwritten(p, x)' \/ Shown(p, x)' \/ Pending(p, x)'
      <3>1. CASE Shown(p, x)
        <4>1. PICK m \in Nat, d \in Nat : StoredAs(m, p, x, d)
          BY <3>1 DEF Shown
        <4>2. m \in 1..Len(mapping) /\ d \in 1..Len(parsed)
          BY <4>1 DEF StoredAs
        <4>3. CASE m # job.row
          <5>1. StoredAs(m, p, x, d)'
            BY <1>1, <2>1, <2>3, <4>1, <4>2, <4>3, ShownStays
          <5> QED
            BY <5>1 DEF Shown
        <4>4. CASE m = job.row
          <5>1. p = P /\ x = X
            BY <1>13, <2>1, <2>2, <2>4, <4>1, <4>4
          <5>2. job.matched
            BY <2>2, <4>1, <4>4 DEF StoredAs
          <5> QED
            BY <2>7, <5>1, <5>2
        <4> QED
          BY <4>3, <4>4
      <3>2. CASE Pending(p, x)
        <4>1. CASE job.pipeline = p
          <5>1. p = P /\ x = X /\ job.event = pipe[P].event
            BY <2>4, <3>2, <4>1 DEF Pending
          <5>2. job.matched
            BY <1>2, <2>6, <2>8, <5>1
          <5> QED
            BY <2>7, <5>1, <5>2
        <4>2. CASE job.pipeline # p
          BY <1>1, <2>1, <3>2, <4>2 DEF Pending, InRound, Follow
        <4> QED
          BY <4>1, <4>2
      <3> QED
        BY <1>2, <1>4, <2>1, <2>8, <3>1, <3>2
    <2>9. \A p \in Pipelines, x \in Messages : told'[p][x] # 0 =>
             /\ pipe'[p] # Inactive /\ Verdict(p, x)'
             /\ Overwritten(p, x)' \/ Shown(p, x)' \/ Pending(p, x)'
      BY <1>1, <1>2, <1>3, <2>1, <2>8
    <2>10. job'.matched => Verdict(job.pipeline, job.msg)' /\ Shown(job.pipeline, job.msg)'
      <3>1. P = job'.pipeline /\ X = job'.msg /\ job'.matched = job.matched
        BY <2>1, <2>4 DEF Follow
      <3>2. job.matched => Verdict(P, X)' /\ Shown(P, X)'
        BY <1>3, <2>7
      <3> QED
        BY <3>1, <3>2
    <2> QED
      BY <1>1, <1>2, <2>1, <2>9, <2>10 DEF ShownOK, Follow
  <1>17. CASE Notify
    <2>1. /\ job.at = "notify" /\ job'.msg = job.msg /\ job'.rows = job.rows
          /\ \/ job.rows = <<>> /\ job'.at = "event"
             \/ job'.at = "pipeline" /\ job'.event = job.event
          /\ UNCHANGED <<parsed, mapping, results>>
      BY <1>0, <1>17, NotifyEffect DEF tables
    <2>2. \A p \in Pipelines, x \in Messages : Pending(p, x) => Pending(p, x)'
      BY <1>1, <2>1, EmptyFcn DEF Pending, InRound
    <2>3. ASSUME NEW p \in Pipelines, NEW x \in Messages, told'[p][x] # 0
          PROVE  /\ pipe'[p] # Inactive /\ Verdict(p, x)'
                 /\ Overwritten(p, x)' \/ Shown(p, x)' \/ Pending(p, x)'
      <3>1. CASE told[p][x] # 0
        BY <1>1, <1>2, <1>3, <1>4, <1>5, <2>1, <2>2, <3>1
      <3>2. CASE told[p][x] = 0
        <4>1. job.matched /\ p = job.pipeline /\ x = job.msg
          BY <2>3, <3>2, Tells
        <4>2. pipe[p] # Inactive /\ Verdict(p, x) /\ Shown(p, x)
          BY <1>2, <2>1, <4>1
        <4> QED
          BY <1>1, <1>3, <1>5, <2>1, <4>2
      <3> QED
        BY <3>1, <3>2
    <2> QED
      BY <1>1, <1>2, <2>1, <2>3 DEF ShownOK
  <1> QED
    BY <1>7, <1>8, <1>9, <1>10, <1>11, <1>12, <1>14, <1>15, <1>16, <1>17
       DEF Next, Handle, Elsewhere, Querying, Marking, Checkouts
\* At most one element, or the cardinality is greater than one.
LEMMA AtMostOne ==
    ASSUME NEW S, IsFiniteSet(S), Cardinality(S) <= 1
    PROVE  \A f, g \in S : f = g
  <1> SUFFICES ASSUME NEW f \in S, NEW g \in S, f # g PROVE FALSE
    OBVIOUS
  <1>1. IsFiniteSet({f}) /\ Cardinality({f}) = 1
    BY FS_Singleton
  <1>2. Cardinality({f} \cup {g}) = 2 /\ IsFiniteSet({f} \cup {g})
    BY <1>1, FS_AddElement
  <1>3. {f} \cup {g} \in SUBSET S
    OBVIOUS
  <1>4. Cardinality({f} \cup {g}) <= Cardinality(S)
    BY <1>3, FS_Subset
  <1>5. Cardinality(S) \in Nat
    BY FS_CardinalityType
  <1> QED
    BY <1>2, <1>4, <1>5

LEMMA FinitelyManyFaults == IsFiniteSet(FaultKinds)
  <1>1. /\ IsFiniteSet({"save"}) /\ IsFiniteSet({"db"}) /\ IsFiniteSet({"publish"})
        /\ IsFiniteSet({"late"}) /\ IsFiniteSet({"crash"})
    BY FS_Singleton
  <1>2. IsFiniteSet({"save"} \cup {"db"})
    BY <1>1, FS_Union
  <1>3. IsFiniteSet(({"save"} \cup {"db"}) \cup {"publish"})
    BY <1>1, <1>2, FS_Union
  <1>4. IsFiniteSet((({"save"} \cup {"db"}) \cup {"publish"}) \cup {"late"})
    BY <1>1, <1>3, FS_Union
  <1>5. IsFiniteSet(((({"save"} \cup {"db"}) \cup {"publish"}) \cup {"late"}) \cup {"crash"})
    BY <1>1, <1>4, FS_Union
  <1>6. FaultKinds = ((({"save"} \cup {"db"}) \cup {"publish"}) \cup {"late"}) \cup {"crash"}
    BY DEF FaultKinds
  <1> QED
    BY <1>5, <1>6

\* As long as there are no more than Limit matching mappings, the newest ones are all.
LEMMA AllAreNewest ==
    ASSUME EventsInv, NEW p, Cardinality(MatchedMappingsOf(p)) <= Limit
    PROVE  LET ids == {mapping[m].data : m \in MatchedMappingsOf(p)}
           IN Newest(ids) = ids
  <1> DEFINE own == MatchedMappingsOf(p)
             ids == {mapping[m].data : m \in own}
             f == [m \in own |-> mapping[m].data]
  <1>1. /\ own \in SUBSET (1..Len(mapping)) /\ Len(mapping) \in Nat /\ Len(parsed) \in Nat
        /\ \A m \in own : mapping[m].data \in 1..Len(parsed)
    <2>1. own \in SUBSET (1..Len(mapping)) /\ Len(mapping) \in Nat /\ Len(parsed) \in Nat
      BY LenProperties DEF EventsInv, Types, MatchedMappingsOf, MappingsOf
    <2> QED
      BY <2>1 DEF EventsInv, DataOK
  <1>2. IsFiniteSet(own)
    <2>1. IsFiniteSet(1..Len(mapping))
      BY <1>1, FS_Interval
    <2> QED
      BY <1>1, <2>1, FS_Subset
  <1>3. f \in Surjection(own, ids)
    BY DEF Surjection
  <1> HIDE DEF own, f
  <1>4. IsFiniteSet(ids) /\ Cardinality(ids) <= Cardinality(own)
    BY <1>2, <1>3, FS_Surjection
  <1>5. Cardinality(own) <= Limit /\ Cardinality(own) \in Nat /\ Limit \in Nat
    BY <1>2, FS_CardinalityType, QueriesAssumption DEF own
  <1>6. ids \subseteq Nat
    BY <1>1
  <1> HIDE DEF ids
  <1>7. ASSUME NEW d \in ids PROVE Cardinality({e \in ids : e > d}) < Limit
    <2> DEFINE newer == {e \in ids : e > d}
    <2>1. newer \in SUBSET ids /\ d \notin newer
      BY <1>6
    <2>2. /\ IsFiniteSet(newer) /\ Cardinality(newer) <= Cardinality(ids)
          /\ Cardinality(ids) = Cardinality(newer) => ids = newer
      BY <1>4, <2>1, FS_Subset
    <2>3. Cardinality(newer) \in Nat /\ Cardinality(ids) \in Nat
      BY <1>4, <2>2, FS_CardinalityType
    <2> HIDE DEF newer
    <2>4. Cardinality(newer) # Cardinality(ids)
      BY <1>7, <2>1, <2>2
    <2>5. Cardinality(newer) < Limit
      BY <1>4, <1>5, <2>2, <2>3, <2>4
    <2> QED
      BY <2>5 DEF newer
  <1>8. Newest(ids) = ids
    BY <1>7 DEF Newest
  <1> QED
    BY <1>8 DEF ids, own

LEMMA ShownInv ==
    ASSUME EventsInv, OneMapping, ShownOK
    PROVE  ToldIsShown
  <1> SUFFICES ASSUME job.at = "idle", checkedOut, saves = 0,
                      \A q \in Pipelines : pipe[q] # Malformed,
                      "save" \notin happened, Cardinality(happened \ {"publish"}) <= 1,
                      NEW p \in Pipelines, NEW x \in Messages,
                      told[p][x] > 0, ~Overwritten(p, x),
                      Cardinality(MatchedMappingsOf(p)) <= Limit
               PROVE  \E d \in FetchChanges(p) :
                         LET shown == GetWebhookAndCiDataById(d, p)
                         IN /\ parsed[d].by = x
                            /\ shown.data = ParseEvent(x).data
                            /\ shown.variables = [groups |-> Relevant(pipe[p]),
                                                  event |-> ParseEvent(x).ciEnvVariableData]
    BY DEF ToldIsShown
  <1>1. Mild
    <2>1. IsFiniteSet(happened \ {"publish"})
      <3>1. happened \ {"publish"} \in SUBSET FaultKinds
        BY WebhookAssumption DEF EventsInv, Types
      <3> QED
        BY <3>1, FinitelyManyFaults, FS_Subset
    <2>2. \A f, g \in happened \ {"publish"} : f = g
      BY <2>1, AtMostOne
    <2> QED
      BY <2>2 DEF Mild
  <1>2. pipe[p] # Inactive /\ Verdict(p, x) /\ Shown(p, x)
    <2>1. told[p][x] # 0 /\ ~Pending(p, x)
      BY DEF EventsInv, Types, Pending, InRound
    <2> QED
      BY <1>1, <2>1 DEF ShownOK
  <1>3. PICK m \in Nat, d \in Nat : StoredAs(m, p, x, d)
    BY <1>2 DEF Shown
  <1>4. /\ m \in DOMAIN mapping /\ d \in DOMAIN parsed /\ parsed[d].by = x
        /\ mapping[m].pipeline = p /\ mapping[m].data = d /\ mapping[m].active
        /\ mapping[m].matched /\ results[m] = Saved(Outcome(p, x))
    <2>1. DOMAIN mapping = 1..Len(mapping) /\ DOMAIN parsed = 1..Len(parsed)
      BY LenProperties DEF EventsInv, Types
    <2> QED
      BY <1>3, <2>1 DEF StoredAs
  <1>5. d \in FetchChanges(p)
    <2>1. m \in MatchedMappingsOf(p)
      BY <1>4 DEF MatchedMappingsOf, MappingsOf
    <2>2. d \in {mapping[n].data : n \in MatchedMappingsOf(p)}
      BY <1>4, <2>1
    <2> QED
      BY <1>2, <2>2, AllAreNewest DEF FetchChanges
  <1>6. FoundMapping(p, d) = {m} /\ UNION {ResultsOf(n) : n \in {m}} = ResultsOf(m)
    BY <1>4, OneFound
  <1>7. {r.selector : r \in {r \in ResultsOf(m) : r.matched}} = Relevant(pipe[p])
    <2>1. DOMAIN Outcome(p, x) = Relevant(pipe[p]) /\ \A s \in DOMAIN Outcome(p, x) : Outcome(p, x)[s]
      BY <1>2, FilterFits DEF Outcome, Verdict
    <2>2. CASE Outcome(p, x) = <<>>
      <3>1. ResultsOf(m) = {}
        BY <1>4, <2>2, ResultsAre DEF Saved
      <3> QED
        BY <2>1, <2>2, <3>1, EmptyFcn
    <2>3. CASE Outcome(p, x) # <<>>
      <3> DEFINE r == Outcome(p, x)
      <3>1. ResultsOf(m) = Rows(r)
        BY <1>4, <2>3, ResultsAre DEF Saved
      <3>2. DOMAIN r = Relevant(pipe[p]) /\ \A s \in DOMAIN r : r[s]
        BY <2>1
      <3> HIDE DEF r
      <3>3. \A s \in DOMAIN r : \E y \in Rows(r) : y.matched /\ y.selector = s
        <4>1. ASSUME NEW s \in DOMAIN r PROVE \E y \in Rows(r) : y.matched /\ y.selector = s
          <5>1. [selector |-> s, matched |-> r[s]] \in Rows(r)
            BY DEF Rows
          <5>2. /\ [selector |-> s, matched |-> r[s]].matched
                /\ [selector |-> s, matched |-> r[s]].selector = s
            BY <3>2
          <5> QED
            BY <5>1, <5>2
        <4> QED
          BY <4>1
      <3>4. \A y \in Rows(r) : y.selector \in DOMAIN r
        BY DEF Rows
      <3> QED
        BY <3>1, <3>2, <3>3, <3>4
    <2> QED
      BY <2>2, <2>3
  <1>8. /\ GetWebhookAndCiDataById(d, p).data = ParseEvent(x).data
        /\ GetWebhookAndCiDataById(d, p).variables =
              BuildExtraEnvironmentVariablesForCi(ResultsOf(m), ParseEvent(x).ciEnvVariableData)
    BY <1>4, <1>6 DEF GetWebhookAndCiDataById
  <1>9. BuildExtraEnvironmentVariablesForCi(ResultsOf(m), ParseEvent(x).ciEnvVariableData) =
           [groups |-> Relevant(pipe[p]), event |-> ParseEvent(x).ciEnvVariableData]
    BY <1>7 DEF BuildExtraEnvironmentVariablesForCi
  <1> QED
    BY <1>4, <1>5, <1>8, <1>9

\* A pipeline that was told of an event finds it, with the data of the message and
\* the groups of its own filter, also when a restart or a late acknowledgement
\* made the callback write the mapping again.
THEOREM ToldAreShown == SafeSpec => []ToldIsShown
  <1>1. Init => OneMapping /\ FoundOK /\ WrittenOK /\ ShownOK
    <2>1. Init => OneMapping /\ FoundOK /\ WrittenOK
      BY EmptyFcn, IdleJob DEF Init, OneMapping, FoundOK, WrittenOK, InRound
    <2>2. Init => ShownOK
      BY EmptyFcn, IdleJob DEF Init, ShownOK
    <2> QED
      BY <2>1, <2>2
  <1>2. EventsInv /\ OneMapping /\ ShownOK => ToldIsShown
    BY ShownInv
  <1> QED
    BY <1>1, <1>2, RoundInit, OnceInit, EventsInit, EventsNext, OneMappingNext, RoundNext,
       OnceNext, WrittenNext, ShownNext, PTL DEF SafeSpec
=============================================================================
