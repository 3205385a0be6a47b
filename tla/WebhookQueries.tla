--------------------------- MODULE WebhookQueries ---------------------------
(***************************************************************************)
(* What the API answers about webhook events: the events that a pipeline   *)
(* may be built for, one event with the variables for its build, the list  *)
(* of events with their counts of filters, the filters of one of them, and *)
(* the configuration of a host.  The queries change nothing.               *)
(***************************************************************************)
EXTENDS WebhookEvents

CONSTANTS
    ToShow,     \* selectors whose value is shown (to_show)
    ToUseInCi,  \* selectors whose value is passed to the build
    Limit,      \* FetchChanges of a webhook pipeline: events it lists, 15
    None        \* the answer of a query that fails

ASSUME QueriesAssumption == ToShow \cup ToUseInCi \subseteq Selectors /\ Limit \in Nat \ {0}

\* ParseEvent: what the active selectors find in message x.
ParseEvent(x) ==
    LET chosen(flagged) == [s \in ActiveSelectors \cap flagged |-> msgs[x].content[s]]
    IN [uniqueId |-> msgs[x].uid, data |-> chosen(ToShow), ciEnvVariableData |-> chosen(ToUseInCi)]

-----------------------------------------------------------------------------
(* The tables. *)

\* Active mappings of pipeline p, with or without a match.
MappingsOf(p) == {m \in DOMAIN mapping : mapping[m].pipeline = p /\ mapping[m].active}

\* GetMatchedCiPipelineMaterialWebhookDataMappingForPipelineMaterial.
MatchedMappingsOf(p) == {m \in MappingsOf(p) : mapping[m].matched}

\* Broken variant of Newest: the list is one too short.
NewestButOne(ids) == {d \in ids : Cardinality({e \in ids : e >= d}) < Limit}

\* GetWebhookEventParsedDataByIds: the newest ones; ids count upwards.
Newest(ids) == {d \in ids : Cardinality({e \in ids : e > d}) < Limit}

\* The active filter results of mapping m: selectors and whether they matched.
ResultsOf(m) ==
    UNION {{[selector |-> s, matched |-> results[m][i][s]] : s \in DOMAIN results[m][i]}
              : i \in DOMAIN results[m]}

-----------------------------------------------------------------------------
(* The answers. *)

\* FetchChanges of a pipeline of type WEBHOOK: it lists nothing if the row is
\* errored and the checkout failed.
FetchChanges(p) ==
    IF pipe[p] = Inactive \/ (p \in errored /\ ~checkedOut) THEN {}
    ELSE Newest({mapping[m].data : m \in MatchedMappingsOf(p)})

\* BuildExtraEnvironmentVariablesForCi: the groups of the conditions that
\* matched, and what the event itself passes on.
BuildExtraEnvironmentVariablesForCi(filterResults, variables) ==
    [groups |-> {r.selector : r \in {r \in filterResults : r.matched}}, event |-> variables]

\* GetWebhookAndCiDataById: what was parsed, and the variables for the build if
\* there is a mapping.  An id without a row is a nil pointer.
GetWebhookAndCiDataById(d, p) ==
    IF d \notin DOMAIN parsed THEN None
    ELSE LET event == ParseEvent(parsed[d].by)
             own == FoundMapping(p, d)
         IN [data |-> event.data,
             variables |-> IF own = {} THEN None
                           ELSE BuildExtraEnvironmentVariablesForCi(
                                   UNION {ResultsOf(m) : m \in own}, event.ciEnvVariableData)]

\* GetWebhookEventConfig: an event of the host and its active selectors.
GetWebhookEventConfig(e) == [id |-> e, selectors |-> ActiveSelectors]

\* A line of GetWebhookPayloadDataForPipelineMaterialId.
Payload(m) ==
    [data |-> mapping[m].data, matchedFilters |-> mapping[m].matched,
     matched |-> Cardinality({r \in ResultsOf(m) : r.matched}),
     failed |-> Cardinality({r \in ResultsOf(m) : ~r.matched})]

\* GetWebhookPayloadDataForPipelineMaterialId: the pipeline's conditions and its
\* events; those without filter results are left out.
GetWebhookPayloadData(p) ==
    IF pipe[p] \in {Inactive, Malformed} THEN None
    ELSE [filters |-> GetWebhookEventConfig(pipe[p].event).selectors
                        \cap DOMAIN pipe[p].condition,
          payloads |-> {Payload(m) : m \in {m \in MappingsOf(p) : ResultsOf(m) # {}}}]

\* GetWebhookPayloadFilterDataForPipelineMaterialId.  Without a mapping it ends
\* in a nil pointer.
GetWebhookPayloadFilterData(d, p) ==
    LET own == FoundMapping(p, d)
    IN IF own = {} \/ d \notin DOMAIN parsed THEN None
       ELSE [payload |-> parsed[d].by, selectors |-> UNION {ResultsOf(m) : m \in own}]

\* GetAllWebhookEventConfigForHost, by the host's name or without one.
GetAllWebhookEventConfigForHost(byName) ==
    {GetWebhookEventConfig(e) : e \in IF byName /\ named # {} THEN named ELSE EventIds}

-----------------------------------------------------------------------------
(* Properties. *)

\* Another message came for the event of message x, with the same unique id.
Overwritten(p, x) ==
    \E d \in DOMAIN parsed :
        /\ parsed[d].event = pipe[p].event /\ parsed[d].by # x
        /\ parsed[d].uid = msgs[x].uid /\ msgs[x].uid # Blank

\* Who was told of an event finds it, also after a redelivery or a restart:
\* FetchChanges lists it, its data are those of the message and the variables for
\* the build those of the message and the conditions, unless another message came
\* for it or more than Limit events match.  The material is checked out, also
\* again after its checkout failed, nobody changes a pipeline, all of them can be
\* read, the data are written, and no two faults come together.
ToldIsShown ==
    /\ job.at = "idle" /\ checkedOut /\ saves = 0 /\ \A q \in Pipelines : pipe[q] # Malformed
    /\ "save" \notin happened /\ Cardinality(happened \ {"publish"}) <= 1
    => \A p \in Pipelines, x \in Messages :
           told[p][x] > 0 /\ ~Overwritten(p, x) /\ Cardinality(MatchedMappingsOf(p)) <= Limit
           => \E d \in FetchChanges(p) :
                 LET shown == GetWebhookAndCiDataById(d, p)
                 IN /\ parsed[d].by = x
                    /\ shown.data = ParseEvent(x).data
                    /\ shown.variables = [groups |-> Relevant(pipe[p]),
                                          event |-> ParseEvent(x).ciEnvVariableData]

\* The lines of the list of events are consistent: an event is shown as matching
\* if none of its filters failed, opening it shows as many filters, and they are
\* those of the pipeline if it was not changed; its event is among the host's, by
\* name too.  This holds as long as no query failed and nothing crashed.
PayloadsFit ==
    job.at = "idle" /\ happened \subseteq {"late"} => \A p \in Pipelines :
        LET answer == GetWebhookPayloadData(p)
        IN answer # None =>
            /\ GetWebhookEventConfig(pipe[p].event) \in GetAllWebhookEventConfigForHost(TRUE)
            /\ \A line \in answer.payloads :
                  /\ line.matchedFilters <=> line.failed = 0
                  /\ line.matched + line.failed =
                        Cardinality(GetWebhookPayloadFilterData(line.data, p).selectors)
                  /\ saves = 0 => line.matched + line.failed = Cardinality(answer.filters)

=============================================================================
