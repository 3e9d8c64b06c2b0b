------------------------------- MODULE ChatApp -------------------------------
(***************************************************************************)
(* The chatbot's application: the kit shell mounts one panel at a time by  *)
(* the URL (AppShell.tsx, usePanelLocation.ts, useAgentPresence.ts), the   *)
(* chat panel sends turns (ChatPanel.tsx, api.ts), the store of turns      *)
(* outlives the panels (turns.tsx), the observability panel selects one    *)
(* (ObservabilityPanel.tsx) and the provisioning panel changes the mesh    *)
(* (Provisioning).  A panel left is unmounted with its state, while its    *)
(* requests are still answered.                                            *)
(***************************************************************************)
EXTENDS ShellConfig, Provisioning

CONSTANTS
    Docs,       \* ui.yaml files the build is given
    Mount,      \* the segments the application is served under
    OpenedAt,   \* last segments of the URLs a user may open
    Responses,  \* what the chat endpoint may answer
    MaxTurns,   \* the turns the store keeps
    MaxChips,   \* the turns the selector shows
    MaxClicks   \* bound: clicks on the sidebar, turns sent, edits, others' changes

ASSUME TurnsAssumption == MaxTurns \in Nat

\* Lists are lists, and an application is served under a path.
ASSUME ShellAssumption ==
    /\ \A d \in Docs : \A list \in {Listed(d.routes), Listed(d.panels), Listed(d.groups)} :
           list \in Seq(Items(list))
    /\ Mount \in Seq(Items(Mount))
    /\ None \notin {"local", "kit"}

VARIABLES
    config,    \* the document the application was built from
    path,      \* the location
    moves,
    presence,  \* agent |-> unknown, deployed or absent
    probes,    \* agents whose probe is in flight
    running,   \* agents that are deployed
    turns,     \* the store, newest first: [id, open, trace]
    nextId,
    selected,  \* the turn selected, or None
    messages,  \* the chat: [role, turn, error, attribution]
    busy,
    requests   \* chat requests in flight [turn, history, mine]

shellVars == <<config, path, moves, presence, probes, running>>
chatVars  == <<turns, nextId, selected, messages, busy, requests>>
vars == <<shellVars, chatVars, provVars>>

active == splitPanelPath(path, config)

\* The component with this name is on the page.
Shows(panel) == active = panel /\ mountFor(config, panel) = "local"

Init ==
    /\ config \in {d \in Docs : Builds(d)}
    /\ path \in {Append(Mount, e) : e \in OpenedAt} /\ moves = 0
    /\ presence = [a \in Watched(config) |-> "unknown"] /\ probes = Watched(config)
    /\ running \in {{}, Watched(config)}
    /\ turns = <<>> /\ nextId = 0 /\ selected = None
    /\ messages = <<>> /\ busy = FALSE /\ requests = {}
    /\ ProvInit

-----------------------------------------------------------------------------
\* The shell.

\* The panels are keyed by their id: going to another one unmounts the one left.
Navigate(panel) ==
    /\ moves' = moves + 1
    /\ path' = panelHref(path, config, panel)
    /\ IF splitPanelPath(path', config) = active THEN UNCHANGED <<messages, busy, requests, provVars>>
       ELSE /\ messages' = <<>> /\ busy' = FALSE
            /\ requests' = {[q EXCEPT !.mine = FALSE] : q \in requests}
            /\ Unmounted
    /\ UNCHANGED <<config, presence, probes, running, turns, nextId, selected>>

ClickEntry == \E r \in Items(Sidebar(config, presence)) : Navigate(r.id)

\* A proxy 404 is an absent agent; a probe that fails says nothing.
AnswerProbe(agent) ==
    /\ probes' = probes \ {agent}
    /\ \E state \in {"unknown", IF agent \in running THEN "deployed" ELSE "absent"} :
          presence' = [presence EXCEPT ![agent] = state]
    /\ UNCHANGED <<config, path, moves, running, chatVars, provVars>>

\* Mutant: agents are probed once.
NeverAgain(agent) == FALSE

\* Only an absent agent is probed again.
Due(agent) == presence[agent] = "absent" /\ agent \notin probes

Reprobe(agent) ==
    /\ Due(agent)
    /\ probes' = probes \cup {agent}
    /\ UNCHANGED <<config, path, moves, presence, running, chatVars, provVars>>

\* An agent is deployed later (external).
Deploy ==
    /\ running # Watched(config) /\ running' = Watched(config)
    /\ UNCHANGED <<config, path, moves, presence, probes, chatVars, provVars>>

-----------------------------------------------------------------------------
\* The chat.  A response is [composed, failed, excluded, unselected]: the documents
\* each composed source contributed by name, and the names of the sources in the
\* other lists.

deriveAttribution(r) ==
    LET named == [failed |-> r.failed, excluded |-> r.excluded, unselected |-> r.unselected]
    IN IF \E s \in DOMAIN r.composed : r.composed[s] > 0
       THEN [attributed |-> TRUE, composed |-> r.composed, reasons |-> {}]
       ELSE [attributed |-> FALSE, composed |-> r.composed,
             reasons |-> {<<IF DOMAIN r.composed = {} THEN "none composed" ELSE "no documents",
                            DOMAIN r.composed>>}
                         \cup {<<k, named[k]>> : k \in {j \in DOMAIN named : named[j] # {}}}]

Message(role, turn, error, attribution) ==
    [role |-> role, turn |-> turn, error |-> error, attribution |-> attribution]

historyFor(ms) == SelectSeq(ms, LAMBDA m : ~m.error)

startTurn(id) ==
    LET all == <<[id |-> id, open |-> TRUE, trace |-> None]>> \o turns
    IN SubSeq(all, 1, IF Len(all) < MaxTurns THEN Len(all) ELSE MaxTurns)

\* Mutant: the newest turn ends.
EndNewest(id, trace) == [k \in DOMAIN turns |->
    IF k = 1 THEN [turns[k] EXCEPT !.open = FALSE, !.trace = trace] ELSE turns[k]]

endTurn(id, trace) == [k \in DOMAIN turns |->
    IF turns[k].id = id THEN [turns[k] EXCEPT !.open = FALSE, !.trace = trace] ELSE turns[k]]

\* Mutant: a second question may be sent while one is out.
CanSendAnyTime == TRUE
CanSend == ~busy

submit ==
    /\ Shows("chat") /\ CanSend
    /\ nextId' = nextId + 1
    /\ turns' = startTurn(nextId)
    /\ messages' = Append(messages, Message("user", nextId, FALSE, None))
    /\ busy' = TRUE
    /\ requests' = requests \cup {[turn |-> nextId, history |-> historyFor(messages), mine |-> TRUE]}
    /\ UNCHANGED <<shellVars, selected, provVars>>

\* The store learns of the answer whether or not the chat is still on the page.
Finished(q, trace, answer) ==
    /\ requests' = requests \ {q}
    /\ turns' = endTurn(q.turn, trace)
    /\ IF q.mine THEN messages' = Append(messages, answer) /\ busy' = FALSE
       ELSE UNCHANGED <<messages, busy>>
    /\ UNCHANGED <<shellVars, nextId, selected, provVars>>

Answered(q) ==
    \E r \in Responses : \E trace \in {None, q.turn} :
        Finished(q, trace, Message("assistant", q.turn, FALSE, deriveAttribution(r)))

Failed(q) == Finished(q, None, Message("assistant", q.turn, TRUE, None))

\* The observability panel: the newest turns have a chip.
Chips == {turns[k].id : k \in {j \in DOMAIN turns : j <= MaxChips}}

select ==
    /\ Shows("observability")
    /\ \E id \in Chips \cup {None} : selected' = id
    /\ UNCHANGED <<shellVars, turns, nextId, messages, busy, requests, provVars>>

\* The trace the panel reads: that of the selected turn, if the store has it.
TraceAsked ==
    IF \E t \in Items(turns) : t.id = selected
    THEN (CHOOSE t \in Items(turns) : t.id = selected).trace ELSE None

-----------------------------------------------------------------------------
AnswerChat == \E q \in requests : Answered(q) \/ Failed(q)
AnswerRead  == AnswerMesh /\ UNCHANGED <<shellVars, chatVars>>
AnswerApplied == (\E a \in applies : AnswerApply(a)) /\ UNCHANGED <<shellVars, chatVars>>
AnswerPoll == (\E k \in DOMAIN rollouts : AnswerRollout(k)) /\ UNCHANGED <<shellVars, chatVars>>

Provision == Shows("provisioning") /\ PanelActions /\ UNCHANGED <<shellVars, chatVars>>

External == Deploy \/ (Shows("provisioning") /\ Deployment /\ UNCHANGED <<shellVars, chatVars>>)

Bounded == moves' + nextId' + edits' + others' <= MaxClicks

Next ==
    \/ (ClickEntry \/ submit \/ select \/ Provision \/ External) /\ Bounded
    \/ AnswerChat \/ AnswerRead \/ AnswerApplied \/ AnswerPoll
    \/ \E agent \in Watched(config) : (agent \in probes /\ AnswerProbe(agent)) \/ Reprobe(agent)

\* Each request settles and the probes' timers fire.
Fairness ==
    /\ WF_vars(AnswerChat) /\ WF_vars(AnswerRead) /\ WF_vars(AnswerApplied)
    /\ \A a \in UNION {Watched(d) : d \in {x \in Docs : Builds(x)}} :
          WF_vars(a \in probes /\ AnswerProbe(a)) /\ WF_vars(a \in Watched(config) /\ Reprobe(a))

Spec == Init /\ [][Next]_vars /\ Fairness

-----------------------------------------------------------------------------
\* Of a file that builds, every entry of the sidebar and every panel's own URL open
\* the panel they name from wherever the user is, under the mount the application is
\* served from; and a URL that names no panel opens the first of the sidebar.
LinksOpenTheirPanels ==
    LET routes == Items(Routes(config))
        order  == sidebarOrder(Routes(config), Listed(config.groups))
    IN /\ BaseOf(path) = Mount
       /\ \A r \in routes :
             /\ splitPanelPath(panelHref(path, config, r.id), config) = r.id
             /\ mountFor(config, r.id) # None \/ r.id \in {q.id : q \in Items(Listed(config.routes))}
       /\ Items(order) = routes /\ Len(order) = Cardinality(routes)
       /\ \A r \in routes : ~r.hidden =>
             \E k \in DOMAIN order : order[k].id = splitPanelPath(Append(Mount, ""), config)
                                     /\ \A j \in 1 .. k - 1 : order[j].hidden

\* The store of turns follows the requests, also those of a chat that was left: a
\* turn is open exactly while its request is out, its trace is its own answer's,
\* and the trace read is the selected turn's.
TurnsFollowRequests ==
    /\ \A k \in DOMAIN turns :
          /\ turns[k].id = nextId - k
          /\ turns[k].open <=> \E q \in requests : q.turn = turns[k].id
          /\ turns[k].trace \in {None, turns[k].id}
    /\ TraceAsked \in {None, selected}

\* In the chat on the page every answer follows its question, at most one question
\* is out, sent with all that went before it but the failures; and an answer says
\* it came from the corpus only if a document reached it, else why not.
AnswerFollowsQuestion ==
    /\ \A i \in DOMAIN messages :
          IF messages[i].role = "assistant"
          THEN i > 1 /\ messages[i - 1].role = "user" /\ messages[i - 1].turn = messages[i].turn
          ELSE i < Len(messages) => messages[i + 1].role = "assistant"
    /\ busy <=> \E q \in requests : q.mine
    /\ \A q \in requests : q.mine =>
          /\ Last(messages) = Message("user", q.turn, FALSE, None)
          /\ q.history = historyFor(Front(messages))
    /\ \A m \in Items(messages) : m.attribution # None =>
          LET documents == {s \in DOMAIN m.attribution.composed : m.attribution.composed[s] > 0}
          IN /\ m.attribution.attributed <=> documents # {}
             /\ m.attribution.attributed <=> m.attribution.reasons = {}

Distinct(rags) == Cardinality({rags[i].name : i \in DOMAIN rags}) = Len(rags)

\* What differs between two meshes: their units, every field of the endpoint (LLMView,
\* but for its topology, which nothing on the panel edits) and the parameters.
LLMFields == {"inCluster", "endpoint", "chatModel", "embedModel", "chatModels", "tierModel"}

Changes(from, to) ==
    {<<"rag", r.name>> : r \in (Items(from.rags) \ Items(to.rags))
                                  \cup (Items(to.rags) \ Items(from.rags))}
    \cup {<<"llm", f>> : f \in {g \in LLMFields : from.llm[g] # to.llm[g]}}
    \cup {<<"params", f>> : f \in {g \in DOMAIN to.params : from.params[g] # to.params[g]}}

\* What an apply changes without a word: the chat and the embedding model have
\* inputs on the panel and are applied with the rest, and the preview never lists
\* them ("the operator sees exactly what an apply will change",
\* provisioningApi.ts:144-145).
Unlisted == {<<"llm", "chatModel">>, <<"llm", "embedModel">>}

\* But for those two models, what an apply changes in the deployment is exactly what
\* the operator was shown, however long its answer takes and whatever is edited,
\* read again or left meanwhile, if nobody else changed the mesh since it was read
\* and the units' names are distinct.
AppliedWasPreviewed ==
    \A a \in applies :
        a.of = mesh /\ Distinct(a.view.rags) /\ Distinct(mesh.rags) =>
            a.preview = Changes(mesh, a.view) \ Unlisted

\* No panel waits for ever: the chat becomes free again, a read of the mesh ends and
\* an apply ends, whatever fails.
PanelsSettle == []<>~busy /\ []<>~prov.loading /\ []<>~prov.applying

\* A panel hidden because its agents were absent comes back once they are deployed.
AbsentPanelsReturn ==
    [](running = Watched(config) => <>(absentPanels(config, presence) = {}))

=============================================================================
