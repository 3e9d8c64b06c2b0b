---------------------------- MODULE ShellConfig ----------------------------
(***************************************************************************)
(* The kit shell's reading of ui.yaml (ui-kit/src/shell): the checks the   *)
(* build makes of the file, the routes and the sidebar read from it, and   *)
(* the URL scheme, in which the last segment is the panel and the segments *)
(* before it the mount the application is served under.                    *)
(*                                                                         *)
(* A document is [version, id, routes, panels, groups, agents, backend].   *)
(* A field left out is None, one of the wrong type Ill.                    *)
(***************************************************************************)
EXTENDS Integers, FiniteSets, Sequences, SequencesExt, Ordering

CONSTANTS
    None, Ill,
    KitPanels,   \* the kit's panels: export |-> the agents its manifest names
    Declared,    \* what a manifest says for "the agents ui.yaml monitors"
    Registry,    \* the panel ids the application has a component for
    Malformed    \* paths that are not one lower-case segment

Kit == "kit"

Items(s) == {s[i] : i \in DOMAIN s}

-----------------------------------------------------------------------------
\* Validation.  A problem is a tuple naming the rule and the place.

Listed(list)  == IF list \in {None, Ill} THEN <<>> ELSE list
Entries(list) == At(Listed(list), {i \in DOMAIN Listed(list) : Listed(list)[i] # Ill})
Text(value)   == IF value \in {None, Ill} THEN "" ELSE value

IllFields(place, entry) == {<<"type", place, f>> : f \in {g \in DOMAIN entry : entry[g] = Ill}}

EntryProblems(list, i, entry) ==
    IF entry = Ill THEN {<<"mapping", list, i>>}
    ELSE IllFields(<<list, i>>, entry)
         \cup IF list \in {"agents", "groups"} /\ entry.label = None
              THEN {<<"no label", list, i>>} ELSE {}

structuralProblems(doc) ==
    IllFields("doc", doc)
    \cup UNION {UNION {EntryProblems(list, i, Listed(doc[list])[i]) : i \in DOMAIN Listed(doc[list])} :
                   list \in {"routes", "panels", "agents", "groups"}}
    \cup IF doc.backend \in {None, Ill} THEN {} ELSE IllFields("backend", doc.backend)

\* The ids and paths claimed, in the order they are checked.
Claims(doc) ==
    [k \in DOMAIN Entries(doc.routes) |->
        [id |-> Text(Entries(doc.routes)[k].id), path |-> Text(Entries(doc.routes)[k].path)]]
    \o [k \in DOMAIN Entries(doc.panels) |->
        [id |-> Text(Entries(doc.panels)[k].id), path |-> Text(Entries(doc.panels)[k].route)]]

\* Mutant: only ids must differ.
ClaimProblemsOfIds(claims) ==
    {<<"no id", k>> : k \in {j \in DOMAIN claims : claims[j].id = ""}}
    \cup {<<"duplicate id", k>> : k \in {j \in DOMAIN claims :
            claims[j].id # "" /\ \E i \in 1 .. j - 1 : claims[i].id = claims[j].id}}
    \cup {<<"path", k>> : k \in {j \in DOMAIN claims : claims[j].path \in Malformed \cup {""}}}

ClaimProblems(claims) ==
    LET bad(k) == claims[k].path \in Malformed \cup {""}
        taken(k, field) == \E j \in 1 .. k - 1 : claims[j][field] = claims[k][field]
    IN {<<"no id", k>> : k \in {j \in DOMAIN claims : claims[j].id = ""}}
       \cup {<<"duplicate id", k>> : k \in {j \in DOMAIN claims : claims[j].id # "" /\ taken(j, "id")}}
       \cup {<<"path", k>> : k \in {j \in DOMAIN claims : bad(j)}}
       \cup {<<"collides", k>> : k \in {j \in DOMAIN claims : ~bad(j) /\ taken(j, "path")}}

GroupIds(doc) == {Listed(doc.groups)[i].id : i \in DOMAIN Listed(doc.groups)}

PanelProblems(doc, k) ==
    LET panel == Entries(doc.panels)[k]
        broken == [package |-> Text(panel.package) = "",
                   export  |-> panel.package = Kit /\ Text(panel.export) = "",
                   group   |-> Text(panel.group) \notin GroupIds(doc) \cup {""}]
    IN {<<"panel", k, rule>> : rule \in {r \in DOMAIN broken : broken[r]}}

AgentProblems(agents) ==
    {<<"agent", k>> : k \in {j \in DOMAIN agents :
        \/ Text(agents[j].name) = ""
        \/ \E i \in 1 .. j - 1 : Text(agents[i].name) = Text(agents[j].name)}}

\* A query path is [absolute, prefix, suffixed]: does it start with a slash, what
\* comes before the trace query suffix, does it end in it.
BackendProblems(backend) ==
    IF backend \in {None, Ill} THEN {}
    ELSE {<<"backend name">> : n \in {b \in {backend.name} : Text(b) = ""}}
         \cup {<<"query path">> : p \in {b \in {backend.path} :
                  b \notin {None, Ill} /\ ~(b.absolute /\ b.suffixed)}}

validateUIConfig(doc) ==
    structuralProblems(doc)
    \cup (IF \/ doc.version \in {None, 1} /\ Entries(doc.panels) # <<>>
             \/ doc.version \notin {None, 1, 2} THEN {<<"version">>} ELSE {})
    \cup (IF Text(doc.id) = "" THEN {<<"id">>} ELSE {})
    \cup ClaimProblems(Claims(doc))
    \cup UNION {PanelProblems(doc, k) : k \in DOMAIN Entries(doc.panels)}
    \cup AgentProblems(Entries(doc.agents))
    \cup BackendProblems(doc.backend)

compositionProblems(doc) ==
    {<<"mount", k>> : k \in {j \in DOMAIN Listed(doc.panels) :
        LET panel == Listed(doc.panels)[j]
        IN IF panel.package = Kit THEN panel.export \notin DOMAIN KitPanels
           ELSE panel.id \notin Registry}}

\* The build serves a file without problems.
Builds(doc) == validateUIConfig(doc) = {} /\ compositionProblems(doc) = {}

-----------------------------------------------------------------------------
\* Routing.

Routes(doc) ==
    [k \in DOMAIN Listed(doc.routes) |->
        [id |-> doc.routes[k].id, path |-> doc.routes[k].path, hidden |-> FALSE,
         group |-> IF doc.routes[k].id \in GroupIds(doc) THEN doc.routes[k].id ELSE None]]
    \o [k \in DOMAIN Listed(doc.panels) |->
        [id |-> doc.panels[k].id, path |-> doc.panels[k].route, hidden |-> doc.panels[k].hidden,
         group |-> doc.panels[k].group]]

\* How many groups stand above a route's own: those of lower order, or of the same
\* order and declared before it.  All do above a route of no known group.
GroupsAbove(route, groups) ==
    Cardinality({g \in DOMAIN groups : \A own \in DOMAIN groups :
        groups[own].id = route.group =>
            \/ groups[g].order < groups[own].order
            \/ groups[g].order = groups[own].order /\ g < own})

\* The places of the routes that go before one another in the sidebar.
SidebarFirst(routes, groups) ==
    {p \in (DOMAIN routes) \X (DOMAIN routes) :
        LET above(i) == GroupsAbove(routes[i], groups)
        IN \/ above(p[1]) < above(p[2])
           \/ above(p[1]) = above(p[2]) /\ p[1] < p[2]}

\* Groups by order, then as declared; then the entries of no known group.
sidebarOrder(routes, groups) ==
    LET ordered == Ordered(DOMAIN routes, SidebarFirst(routes, groups))
    IN [k \in DOMAIN ordered |-> routes[ordered[k]]]

Visible(routes) == SelectSeq(routes, LAMBDA r : ~r.hidden)

DefaultPanel(doc) ==
    LET order == sidebarOrder(Routes(doc), Listed(doc.groups))
        shown == {k \in DOMAIN order : ~order[k].hidden}
    IN IF shown # {} THEN order[First(shown)].id
       ELSE IF Routes(doc) # <<>> THEN Routes(doc)[1].id ELSE ""

\* The agents a kit panel watches.
monitoredBy(doc, panel) ==
    IF panel.package # Kit THEN {}
    ELSE IF KitPanels[panel.export] = Declared
         THEN {Listed(doc.agents)[i].name : i \in DOMAIN Listed(doc.agents)}
         ELSE KitPanels[panel.export]

Watched(doc) == UNION {monitoredBy(doc, p) : p \in Items(Listed(doc.panels))}

\* A panel none of whose agents is deployed has no entry.
absentPanels(doc, presence) ==
    {p.id : p \in {x \in Items(Listed(doc.panels)) :
        /\ monitoredBy(doc, x) # {}
        /\ \A agent \in monitoredBy(doc, x) : presence[agent] = "absent"}}

Sidebar(doc, presence) ==
    sidebarOrder(SelectSeq(Visible(Routes(doc)), LAMBDA r : r.id \notin absentPanels(doc, presence)),
                 Listed(doc.groups))

-----------------------------------------------------------------------------
\* URLs.  A location is the sequence of its segments; "" in the last place is a
\* trailing slash.

BaseOf(path) == Front(path)

splitPanelPath(path, doc) ==
    LET named == {k \in DOMAIN Routes(doc) : Routes(doc)[k].path = Last(path)}
    IN IF named # {} THEN Routes(doc)[First(named)].id ELSE DefaultPanel(doc)

panelHref(path, doc, panel) ==
    LET named == {k \in DOMAIN Routes(doc) : Routes(doc)[k].id = panel}
    IN Append(BaseOf(path), IF named = {} THEN "" ELSE Routes(doc)[First(named)].path)

\* The component mounted: the application's, or the kit's.
mountFor(doc, panel) ==
    LET panels == Listed(doc.panels)
        named  == {k \in DOMAIN panels : panels[k].id = panel}
    IN IF panel \in Registry THEN "local"
       ELSE IF /\ named # {} /\ panels[First(named)].package = Kit
               /\ panels[First(named)].export \in DOMAIN KitPanels THEN "kit"
       ELSE None

=============================================================================
