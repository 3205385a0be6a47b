-------------------------- MODULE MCWebhookEvents --------------------------
(***************************************************************************)
(* Bounds of the model checking of WebhookQueries. Pipelines filter by the *)
(* title, and by the author, whose selector is not active.  Two messages   *)
(* come: an event and what became of it, the same event twice, or two      *)
(* events without a unique id.  The second pipeline waits for the same     *)
(* event as the first or for another one; one pipeline may come to wait for*)
(* that other event, to have no readable value or to be turned off.        *)
(***************************************************************************)
EXTENDS WebhookQueries

CONSTANTS p1, p2, e1, e2, u

MCSelectors == {"title", "author"}
MCActive == {"title"}
MCToShow == {"title", "author"}
MCToUseInCi == {"title"}
MCCondition == [s \in MCSelectors |-> {"fix"}]
MCConditions == {MCCondition}
MCContents == {[title |-> t, author |-> "me"] : t \in {"fix", "doc"}}

Message(id, t) == [uid |-> id, content |-> [title |-> t, author |-> "me"]]

MCTraffic ==
    {<<Message(u, "fix"), Message(u, "doc")>>,
     <<Message(Blank, "fix"), Message(Blank, "fix")>>}

WaitsFor(e) == [event |-> e, condition |-> MCCondition]

MCConfigurations ==
    {[p \in Pipelines |-> IF p = p1 THEN WaitsFor(e1) ELSE v] :
        v \in {WaitsFor(e1), WaitsFor(e2)}}

MCEdits ==
    {[pipeline |-> p2, value |-> WaitsFor(e1)], [pipeline |-> p2, value |-> Inactive],
     [pipeline |-> p1, value |-> Malformed]}

=============================================================================
