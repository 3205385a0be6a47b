---------------------------- MODULE WebhookEvents ----------------------------
(***************************************************************************)
(* Webhook events of git hosts: from a message on WEBHOOK_EVENT_TOPIC to   *)
(* the tables webhook_event_parsed_data,                                   *)
(* ci_pipeline_material_webhook_data_mapping and its filter results, and   *)
(* to NEW_CI_MATERIAL_TOPIC; against SavePipelineMaterial, which turns old *)
(* mappings off when a pipeline's filter changes.                          *)
(*                                                                         *)
(* The callback handles one message at a time (one message is processed in *)
(* one go unless configured otherwise), and the message is acknowledged    *)
(* when the callback returns, whatever happened in it.  A message that is  *)
(* not acknowledged in time, or before a restart, is delivered again.      *)
(*                                                                         *)
(* There is one git material, whose url the messages name.  A text stands  *)
(* for what a selector finds in the payload, a set of texts for the regular*)
(* expression it is compared with.                                         *)
(***************************************************************************)
EXTENDS Integers, Sequences, FiniteSets

CONSTANTS
    Pipelines,        \* ci_pipeline_material ids, all of type WEBHOOK
    EventIds,         \* ids of the host's rows in git_host_webhook_event
    NamedFirst,       \* those with a git_host_name at the start
    Events,           \* those whose type the messages have
    Selectors,        \* selector ids
    ActiveSelectors,  \* the active ones
    Conditions,       \* conditions of pipelines: functions from selectors to sets of texts
    Contents,         \* payloads: functions from selectors to texts
    Uids,             \* what the selector "unique id" finds
    Blank,            \* nothing
    Malformed,        \* a pipeline's value that is no JSON
    Inactive,         \* a pipeline's row that is not active
    MaxMessages,      \* bound: messages
    Traffic,          \* bound: the messages that may come
    Configurations,   \* bound: the pipelines' values at the start
    Edits,            \* bound: the rows that SavePipelineMaterial may be called with
    MaxCalls,         \* bound: calls of SavePipelineMaterial and checkouts
    Faults,           \* what may go wrong, subset of FaultKinds
    MaxFaults         \* bound: faults; each kind at most once

\* The values of an active row and the inactive row.
Value == [event: EventIds, condition: Conditions]
PipelineValues == Value \cup {Malformed, Inactive}

\* save: a row of the parsed data is not written.  db: another query fails.
\* publish: a message is not published.  late: a message is delivered again
\* although the handler lives.  crash: a restart.
FaultKinds == {"save", "db", "publish", "late", "crash"}

ASSUME WebhookAssumption ==
    /\ ActiveSelectors \subseteq Selectors /\ Events \subseteq EventIds
    /\ NamedFirst \subseteq EventIds
    /\ Blank \in Uids
    /\ MaxMessages \in Nat /\ MaxCalls \in Nat /\ MaxFaults \in Nat
    /\ Traffic \subseteq [1..MaxMessages -> [uid: Uids, content: Contents]]
    /\ Configurations \subseteq [Pipelines -> PipelineValues]
    /\ Edits \subseteq [pipeline: Pipelines, value: PipelineValues]
    /\ Faults \subseteq FaultKinds

VARIABLES
    msgs,      \* the webhook messages that ever come: unique id and content
    named,     \* the rows of git_host_webhook_event with a git_host_name
    copies,    \* deliveries of each message that are to come or not over
    parsed,    \* webhook_event_parsed_data
    mapping,   \* ci_pipeline_material_webhook_data_mapping
    results,   \* the active filter results of each mapping, one element per SaveAll
    pipe,      \* value and activity of each ci_pipeline_material
    job,       \* local variables of the callback
    client,    \* local variables of a SavePipelineMaterial
    told,      \* messages published, per pipeline and webhook message
    saves,     \* calls of SavePipelineMaterial so far
    happened,  \* faults so far
    checkedOut, \* the material's checkout_status
    errored,   \* the rows of ci_pipeline_material that are errored
    checkout,  \* local variables of a checkout of the material
    checkouts  \* checkouts so far

tables == <<parsed, mapping, results>>
material == <<checkedOut, errored, checkout, checkouts>>
vars == <<msgs, named, copies, tables, pipe, job, client, told, saves, happened, material>>

Messages == 1..MaxMessages

Idle == [at |-> "idle", msg |-> 0, unnamed |-> {}, events |-> {}, event |-> Blank, found |-> {}, data |-> 0,
         rows |-> <<>>, pipeline |-> Blank, row |-> 0, matched |-> FALSE,
         results |-> <<>>]

Become(j) == job' = j

\* No row was read.
NoCheckout == [at |-> "idle", todo |-> {}, out |-> [p \in Pipelines |-> Inactive]]

\* The callback gives up.
Return == job' = [Idle EXCEPT !.at = "done", !.msg = job.msg]

Fault(kind) ==
    /\ kind \in Faults \ happened
    /\ Cardinality(happened) < MaxFaults
    /\ happened' = happened \cup {kind}

Init ==
    /\ msgs \in Traffic
    /\ named = NamedFirst
    /\ copies = [x \in Messages |-> 1]
    /\ parsed = <<>> /\ mapping = <<>> /\ results = <<>>
    /\ pipe \in Configurations
    /\ job = Idle
    /\ client = [at |-> "idle"]
    /\ told = [p \in Pipelines |-> [x \in Messages |-> 0]]
    /\ saves = 0 /\ happened = {}
    /\ checkedOut = TRUE /\ errored = {p \in Pipelines : pipe[p] # Inactive}
    /\ checkout = NoCheckout /\ checkouts = 0

-----------------------------------------------------------------------------
(* The message bus.  It may hold back a message as long as it likes. *)

\* HandleWebhookEvent looks for the events under the host's name.  If there is
\* none it takes those of the host's id, after it has given them the name.
Handling(x) ==
    [Idle EXCEPT !.msg = x, !.at = IF named = {} THEN "name" ELSE "event",
                 !.unnamed = IF named = {} THEN EventIds ELSE {},
                 !.events = IF named = {} THEN Events ELSE named \cap Events]

\* Broken variant of Deliver: the message is acknowledged before it is handled.
DeliverAcked ==
    /\ job.at = "idle"
    /\ \E x \in Messages :
          /\ copies[x] > 0
          /\ copies' = [copies EXCEPT ![x] = @ - 1]
          /\ Become(Handling(x))
    /\ UNCHANGED <<msgs, named, tables, pipe, client, told, saves, happened, material>>

\* HandleWebhookEvent is called, and reads the configured events.
Deliver ==
    /\ job.at = "idle"
    /\ \E x \in Messages :
          /\ copies[x] > 0
          /\ Become(Handling(x))
    /\ UNCHANGED <<msgs, named, copies, tables, pipe, client, told, saves, happened, material>>

\* The update of one of the older events; if it fails, that is logged.
Name ==
    /\ job.at = "name"
    /\ \E e \in job.unnamed :
          /\ Become([job EXCEPT !.unnamed = @ \ {e},
                                !.at = IF job.unnamed = {e} THEN "event" ELSE "name"])
          /\ \/ named' = named \cup {e} /\ UNCHANGED happened
             \/ Fault("db") /\ UNCHANGED named
    /\ UNCHANGED <<msgs, copies, tables, pipe, client, told, saves, material>>

\* Broken variants of Acknowledged: never, and twice.
NotAcknowledged(x) == UNCHANGED copies
AcknowledgedTwice(x) == copies' = [copies EXCEPT ![x] = @ - 2]

Acknowledged(x) == copies' = [copies EXCEPT ![x] = @ - 1]

\* The deferred Ack of the subscription.
Ack ==
    /\ job.at = "done" \/ (job.at = "event" /\ job.events = {})
    /\ Acknowledged(job.msg)
    /\ Become(Idle)
    /\ UNCHANGED <<msgs, named, tables, pipe, client, told, saves, happened, material>>

\* The wait for the acknowledgement is over before the callback is.
Late ==
    /\ job.at # "idle"
    /\ Fault("late")
    /\ copies' = [copies EXCEPT ![job.msg] = @ + 1]
    /\ UNCHANGED <<msgs, named, tables, pipe, job, client, told, saves, material>>

-----------------------------------------------------------------------------
(* HandleWebhookEvent, one round per configured event. *)

\* An error of a query: the callback gives up.
Fails(labels) ==
    /\ job.at \in labels
    /\ job.at = "event" => job.events # {}
    /\ Fault("db")
    /\ Return
    /\ UNCHANGED <<msgs, named, copies, tables, pipe, client, told, saves, material>>

\* Broken variant of FoundParsed: the unique id is never looked up.
FoundNothing(e, u) == {}

\* GetWebhookParsedEventDataByEventIdAndUniqueId; none for a blank id.
FoundParsed(e, u) ==
    {d \in DOMAIN parsed : u # Blank /\ parsed[d].event = e /\ parsed[d].uid = u}

\* Look up the parsed data and update or save it; nothing but the callback writes
\* the table.  Nobody looks at the error of the write: the row keeps its old
\* data, or the new one its id 0.
SaveParsed ==
    /\ job.at = "event"
    /\ \E e \in job.events :
          LET new == [event |-> e, uid |-> msgs[job.msg].uid, by |-> job.msg]
              found == FoundParsed(e, new.uid)
              id == IF found = {} THEN Len(parsed) + 1 ELSE CHOOSE d \in found : TRUE
              saved(d) == Become([job EXCEPT !.at = "find", !.event = e, !.events = @ \ {e},
                                             !.data = d])
          IN \/ /\ parsed' = IF found = {} THEN Append(parsed, new) ELSE [parsed EXCEPT ![id] = new]
                /\ saved(id)
                /\ UNCHANGED happened
             \/ /\ Fault("save")
                /\ saved(IF found = {} THEN 0 ELSE id)
                /\ UNCHANGED parsed
    /\ UNCHANGED <<msgs, named, copies, mapping, results, pipe, client, told, saves, material>>

-----------------------------------------------------------------------------
(* MatchCiTriggerConditionAndNotify. *)

\* The loop over the pipelines goes on with these rows; after them comes the
\* next event.
Loop(rows) ==
    Become([Idle EXCEPT !.msg = job.msg, !.events = job.events,
              !.at = IF rows = <<>> THEN "event" ELSE "pipeline", !.rows = rows,
              !.event = IF rows = <<>> THEN Blank ELSE job.event,
              !.data = IF rows = <<>> THEN 0 ELSE job.data])

\* FindAllActiveByUrls: the material with its active pipelines.
FindMaterials ==
    /\ job.at = "find"
    /\ LET active == {p \in Pipelines : pipe[p] # Inactive}
       IN Loop([p \in active |-> pipe[p]])
    /\ UNCHANGED <<msgs, named, copies, tables, pipe, client, told, saves, happened, material>>

\* MatchFilter.  An inactive selector has no say.
Relevant(v) == {s \in ActiveSelectors : s \in DOMAIN v.condition}

FilterResults(e, content, v) ==
    IF e = v.event THEN [s \in Relevant(v) |-> content[s] \in v.condition[s]] ELSE <<>>

OverallMatch(e, content, v) ==
    e = v.event /\ \A s \in Relevant(v) : content[s] \in v.condition[s]

\* Broken variant of FoundMapping: it finds none.
FoundNoMapping(p, d) == {}

\* GetCiPipelineMaterialWebhookDataMapping.
FoundMapping(p, d) ==
    {m \in DOMAIN mapping : mapping[m].pipeline = p /\ mapping[m].data = d /\ mapping[m].active}

\* One round of the loop over the pipelines: filter, and look for the mapping.
\* A value that cannot be read ends the callback.
Match ==
    /\ job.at = "pipeline"
    /\ \E p \in DOMAIN job.rows :
          IF job.rows[p] = Malformed THEN Return
          ELSE LET c == msgs[job.msg].content IN
               Become([job EXCEPT
                  !.at = "map", !.pipeline = p,
                  !.rows = [q \in DOMAIN @ \ {p} |-> @[q]],
                  !.found = FoundMapping(p, job.data),
                  !.matched = OverallMatch(job.event, c, job.rows[p]),
                  !.results = FilterResults(job.event, c, job.rows[p])])
    /\ UNCHANGED <<msgs, named, copies, tables, pipe, client, told, saves, happened, material>>

\* Broken variant of Remapped: what matched before matches for ever.
RemappedOnce(old, new) == [new EXCEPT !.matched = old.matched]

\* An update writes all columns.
Remapped(old, new) == new

\* Insert or update the mapping.  There is no parsed data with id 0.
SaveMapping ==
    /\ job.at = "map"
    /\ LET new == [pipeline |-> job.pipeline, data |-> job.data, matched |-> job.matched,
                   active |-> TRUE]
           old == CHOOSE m \in job.found : TRUE
       IN IF job.found # {} THEN
             /\ mapping' = [mapping EXCEPT ![old] = Remapped(@, new)]
             /\ Become([job EXCEPT !.at = "inactivate", !.row = old, !.found = {}])
             /\ UNCHANGED results
          ELSE IF job.data = 0 THEN
             /\ Return
             /\ UNCHANGED <<mapping, results>>
          ELSE
             /\ mapping' = Append(mapping, new)
             /\ results' = Append(results, <<>>)
             /\ Become([job EXCEPT !.at = "results", !.row = Len(mapping) + 1])
    /\ UNCHANGED <<msgs, named, copies, parsed, pipe, client, told, saves, happened, material>>

\* Broken variant of InactivateResults: the old results stay active.
InactivateNothing(m) == UNCHANGED results

\* InactivateForMappingId.
InactivateResults(m) == results' = [results EXCEPT ![m] = <<>>]

Inactivate ==
    /\ job.at = "inactivate"
    /\ InactivateResults(job.row)
    /\ Become([job EXCEPT !.at = "results"])
    /\ UNCHANGED <<msgs, named, copies, parsed, mapping, pipe, client, told, saves, happened, material>>

\* SaveAll of the filter results, if there are any.
SaveResults ==
    /\ job.at = "results"
    /\ results' = IF job.results = <<>> THEN results
                  ELSE [results EXCEPT ![job.row] = Append(@, job.results)]
    /\ Become([job EXCEPT !.at = "notify", !.row = 0, !.results = <<>>])
    /\ UNCHANGED <<msgs, named, copies, parsed, mapping, pipe, client, told, saves, happened, material>>

\* NotifyForAutoCi if the filter matched; nobody looks at the error.
Notify ==
    /\ job.at = "notify"
    /\ Loop(job.rows)
    /\ \/ /\ job.matched
          /\ told' = [told EXCEPT ![job.pipeline][job.msg] = IF @ = 2 THEN 2 ELSE @ + 1]
          /\ UNCHANGED happened
       \/ ~job.matched /\ UNCHANGED <<told, happened>>
       \/ job.matched /\ Fault("publish") /\ UNCHANGED told
    /\ UNCHANGED <<msgs, named, copies, tables, pipe, client, saves, material>>

Handle ==
    \/ Name \/ SaveParsed \/ FindMaterials \/ Match \/ SaveMapping
    \/ Inactivate \/ SaveResults \/ Notify
    \/ Fails({"event", "find", "pipeline", "map", "inactivate", "results"})
    \/ Ack

-----------------------------------------------------------------------------
(* SavePipelineMaterial of a pipeline of type WEBHOOK that has a row: it   *)
(* reads the row (which fails if that is inactive), turns the mappings off *)
(* if the value changes, and writes the row.                               *)

SaveCall ==
    /\ saves + checkouts < MaxCalls
    /\ saves' = saves + 1
    /\ client.at = "idle"
    /\ \E new \in Edits :
          /\ pipe[new.pipeline] # Inactive
          /\ \E l \in IF new.value = Inactive THEN {"mappings", "row"}
                      ELSE IF new.value = pipe[new.pipeline] THEN {"row"} ELSE {"mappings"} :
                client' = [at |-> l, pipeline |-> new.pipeline, value |-> new.value]
    /\ UNCHANGED <<msgs, named, copies, tables, pipe, job, told, happened, material>>

SaveMappings ==
    /\ client.at = "mappings"
    /\ mapping' = [m \in DOMAIN mapping |->
                     IF mapping[m].pipeline = client.pipeline
                     THEN [mapping[m] EXCEPT !.active = FALSE] ELSE mapping[m]]
    /\ client' = [client EXCEPT !.at = "row"]
    /\ UNCHANGED <<msgs, named, copies, parsed, results, pipe, job, told, saves, happened, material>>

SaveRow ==
    /\ client.at = "row"
    /\ pipe' = [pipe EXCEPT ![client.pipeline] = client.value]
    /\ errored' = errored \ {client.pipeline}
    /\ client' = IF client.value = Inactive THEN [at |-> "idle"] ELSE [client EXCEPT !.at = "read"]
    /\ UNCHANGED <<msgs, named, copies, tables, job, told, saves, happened>>
    /\ UNCHANGED <<checkedOut, checkout, checkouts>>

\* updatePipelineMaterialCommit reads the row again, and looks for commits of a
\* branch with the name of its value.  That ends here if the row is no longer
\* active or the caller is gone.
SaveRead ==
    /\ client.at = "read"
    /\ \/ /\ pipe[client.pipeline] # Inactive
          /\ client' = [client EXCEPT !.at = "write", !.value = pipe[client.pipeline]]
       \/ client' = [at |-> "idle"]
    /\ UNCHANGED <<msgs, named, copies, tables, pipe, job, told, saves, happened, material>>

\* There is no such branch: the row is errored, and all of it is written.
SaveWrite ==
    /\ client.at = "write"
    /\ pipe' = [pipe EXCEPT ![client.pipeline] = client.value]
    /\ errored' = errored \cup {client.pipeline}
    /\ client' = [at |-> "idle"]
    /\ UNCHANGED <<msgs, named, copies, tables, job, told, saves, happened>>
    /\ UNCHANGED <<checkedOut, checkout, checkouts>>

SaveFails ==
    /\ client.at # "idle"
    /\ Fault("db")
    /\ client' = [at |-> "idle"]
    /\ UNCHANGED <<msgs, named, copies, tables, pipe, job, told, saves, material>>

-----------------------------------------------------------------------------
(* A checkout of the material, under its lock: by SaveGitMaterial,         *)
(* UpdateGitMaterial or a reload.  GetLatestCommitForBranch does the same  *)
(* when it has fetched.  A poll leaves pipelines of type WEBHOOK alone.    *)

\* The material's status is written, and its active rows are listed.
CheckoutFetch ==
    /\ saves + checkouts < MaxCalls
    /\ checkouts' = checkouts + 1
    /\ checkout.at = "idle"
    /\ checkedOut' \in BOOLEAN
    /\ checkout' = [checkout EXCEPT !.at = "read", !.todo = {p \in Pipelines : pipe[p] # Inactive}]
    /\ UNCHANGED <<msgs, named, copies, tables, pipe, job, client, told, saves, happened, errored>>

\* updatePipelineMaterialCommit reads one of them again; it passes over the row if
\* the material cannot be read.
CheckoutRead ==
    /\ checkout.at = "read"
    /\ \E p \in checkout.todo :
          \/ /\ pipe[p] # Inactive
             /\ checkout' = [checkout EXCEPT !.todo = @ \ {p}, !.out[p] = pipe[p]]
             /\ UNCHANGED happened
          \/ /\ Fault("db")
             /\ checkout' = [checkout EXCEPT !.todo = @ \ {p}]
    /\ UNCHANGED <<msgs, named, copies, tables, pipe, job, client, told, saves>>
    /\ UNCHANGED <<checkedOut, errored, checkouts>>

\* Those that were read are written, errored.
CheckoutWrite ==
    /\ checkout.at = "read" /\ checkout.todo = {}
    /\ pipe' = [p \in Pipelines |-> IF checkout.out[p] # Inactive THEN checkout.out[p] ELSE pipe[p]]
    /\ errored' = errored \cup {p \in Pipelines : checkout.out[p] # Inactive}
    /\ checkout' = NoCheckout
    /\ UNCHANGED <<msgs, named, copies, tables, job, client, told, saves, happened>>
    /\ UNCHANGED <<checkedOut, checkouts>>

\* The caller is gone, a row is no longer active, or a query fails.
CheckoutGivesUp ==
    /\ checkout.at # "idle"
    /\ checkout' = NoCheckout
    /\ UNCHANGED <<msgs, named, copies, tables, pipe, job, client, told, saves, happened>>
    /\ UNCHANGED <<checkedOut, errored, checkouts>>

\* RefreshGitMaterial polls, and the fetch succeeds.
Refresh ==
    /\ checkout.at = "idle"
    /\ ~checkedOut /\ checkedOut' = TRUE
    /\ UNCHANGED <<msgs, named, copies, tables, pipe, job, client, told, saves, happened>>
    /\ UNCHANGED <<errored, checkout, checkouts>>

\* The process dies and starts again: what was not acknowledged comes again.
Crash ==
    /\ Fault("crash")
    /\ job' = Idle
    /\ client' = [at |-> "idle"]
    /\ checkout' = NoCheckout
    /\ UNCHANGED <<msgs, named, copies, tables, pipe, told, saves>>
    /\ UNCHANGED <<checkedOut, errored, checkouts>>

Next ==
    \/ Deliver \/ Late
    \/ Handle
    \/ SaveCall \/ SaveMappings \/ SaveRow \/ SaveRead \/ SaveWrite \/ SaveFails
    \/ CheckoutFetch \/ CheckoutRead \/ CheckoutWrite \/ CheckoutGivesUp
    \/ Refresh
    \/ Crash

\* The bus delivers what it has, and the callback goes on.
Fairness == WF_vars(Deliver) /\ WF_vars(Handle)

SafeSpec == Init /\ [][Next]_vars
Spec == SafeSpec /\ Fairness

-----------------------------------------------------------------------------
(* Properties. *)

JobOK ==
    /\ job.at \in {"idle", "name", "event", "find", "pipeline", "map", "inactivate", "results",
                  "notify", "done"}
    /\ job.at # "idle" => job.msg \in Messages /\ copies[job.msg] > 0
    /\ DOMAIN job.rows \subseteq Pipelines
    /\ job.at \in {"inactivate", "results"} => job.row \in DOMAIN mapping

\* The tables are well formed, and a message that is being handled has not been
\* acknowledged.
TypeOK ==
    /\ msgs \in [Messages -> [uid: Uids, content: Contents]]
    /\ named \subseteq EventIds
    /\ copies \in [Messages -> Nat]
    /\ \A d \in DOMAIN parsed : parsed[d] \in [event: Events, uid: Uids, by: Messages]
    /\ \A m \in DOMAIN mapping :
          mapping[m] \in
             [pipeline: Pipelines, data: DOMAIN parsed, matched: BOOLEAN, active: BOOLEAN]
    /\ DOMAIN results = DOMAIN mapping
    /\ pipe \in [Pipelines -> PipelineValues]
    /\ told \in [Pipelines -> [Messages -> 0..2]]
    /\ checkedOut \in BOOLEAN /\ errored \subseteq Pipelines
    /\ checkout \in [at: {"idle", "read"}, todo: SUBSET Pipelines,
                     out: [Pipelines -> PipelineValues]]
    /\ JobOK

\* However often an event with a unique id is delivered, there is one row for
\* it (WebhookHandler.go:104-120).
ParsedOnce ==
    \A c, d \in DOMAIN parsed :
        parsed[c].event = parsed[d].event /\ parsed[c].uid = parsed[d].uid /\ parsed[c].uid # Blank
        => c = d

\* A pipeline and an event have one active mapping, also with redeliveries and
\* changes of the pipeline in between.
OneMapping ==
    \A m, n \in DOMAIN mapping :
        /\ mapping[m].active /\ mapping[n].active
        /\ mapping[m].pipeline = mapping[n].pipeline /\ mapping[m].data = mapping[n].data
        => m = n

\* A pipeline is told only of events that are stored as matching before: who
\* gets the message can look them up.
MappedBeforeTold ==
    [][\A p \in Pipelines, x \in Messages : told'[p][x] # told[p][x] =>
          \E m \in DOMAIN mapping :
              /\ mapping[m].pipeline = p /\ mapping[m].matched
              /\ \/ parsed[mapping[m].data].by = x
                 \/ parsed[mapping[m].data].uid = msgs[x].uid /\ msgs[x].uid # Blank]_vars

\* A message that is delivered once builds a pipeline once, as long as nobody
\* changes the pipeline's event.
ToldOnce ==
    happened \cap {"crash", "late"} = {} /\ saves = 0 =>
        \A p \in Pipelines, x \in Messages : told[p][x] <= 1

\* A pipeline accepts message x.
Accepts(p, x) ==
    /\ pipe[p] \in Value /\ pipe[p].event \in Events
    /\ OverallMatch(pipe[p].event, msgs[x].content, pipe[p])

\* Some events have the host's name and others have not: those are not found.
HalfNamed == job.at # "name" /\ named \notin {{}, EventIds}

Disturbed ==
    \/ happened \ {"crash", "late"} # {}
    \/ saves > 0 \/ HalfNamed
    \/ \E q \in Pipelines : pipe[q] = Malformed

\* At least once: in the end every pipeline has been told of every event that it
\* accepts, in spite of a restart, unless a query fails, a pipeline is changed,
\* one of the pipelines has a value that cannot be read, or the restart came
\* between the updates of the events' git_host_name.
EveryMatchTold ==
    <>[]\A p \in Pipelines, x \in Messages : Accepts(p, x) => told[p][x] > 0 \/ Disturbed

=============================================================================
