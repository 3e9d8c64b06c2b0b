------------------------------ MODULE FleetView ------------------------------
(***************************************************************************)
(* What the observer's page makes of one fleet answer and of the traces it *)
(* reads (fleetApi.ts, Topology/, AgentCard/): one card per pod, the names *)
(* units go by, which traces are read and the graph drawn from them.       *)
(*                                                                         *)
(* A name is a sequence of letters, in which "#" stands for a dash and a   *)
(* generated segment (a replica-set or pod hash, an ordinal).              *)
(***************************************************************************)
EXTENDS Integers, FiniteSets, Sequences, SequencesExt, Ordering

CONSTANT None

Elements(s) == {s[i] : i \in DOMAIN s}

-----------------------------------------------------------------------------
\* Cards.  A join is a sequence of items [pod, signal, body], or None when the
\* answer has none.

Joins == <<"machine", "state", "tools", "events">>

ItemsOf(joins, join) == IF joins[join] = None THEN <<>> ELSE joins[join]

PodsIn(items) == {items[i].pod : i \in DOMAIN items} \ {None}

\* The item a join holds for a pod: the last one read.
ItemOf(items, pod) ==
    items[CHOOSE i \in DOMAIN items :
             items[i].pod = pod /\ \A j \in DOMAIN items : items[j].pod = pod => j <= i]

AllItems(joins) ==
    ItemsOf(joins, "machine") \o ItemsOf(joins, "state")
       \o ItemsOf(joins, "tools") \o ItemsOf(joins, "events")

\* The items that are the first to name their pod.
FirstOf(items) ==
    {i \in DOMAIN items : items[i].pod # None /\ \A j \in 1 .. i - 1 : items[j].pod # items[i].pod}

\* The pods in the order the joins name them first.
PodOrder(joins) ==
    [k \in DOMAIN At(AllItems(joins), FirstOf(AllItems(joins))) |->
        At(AllItems(joins), FirstOf(AllItems(joins)))[k].pod]

\* Mutant: the joins are zipped by place.
CardByPlace(joins, pod) ==
    LET k == CHOOSE i \in DOMAIN PodOrder(joins) : PodOrder(joins)[i] = pod
        at(join) == IF k \in DOMAIN ItemsOf(joins, join) THEN ItemsOf(joins, join)[k] ELSE None
        body(join) == IF at(join) = None THEN None ELSE at(join).body
    IN [pod |-> pod, machine |-> body("machine"), state |-> body("state"),
        tools |-> body("tools"), events |-> body("events"),
        reachable |-> at("state") # None /\ at("state").signal = "AgentMonitorRead"]

\* One card: each join fills its field with the pod's item; a pod the state join
\* did not read is not reachable.
Card(joins, pod) ==
    LET held(join) == pod \in PodsIn(ItemsOf(joins, join))
        item(join) == ItemOf(ItemsOf(joins, join), pod)
        body(join) == IF held(join) THEN item(join).body ELSE None
    IN [pod |-> pod, machine |-> body("machine"), state |-> body("state"),
        tools |-> body("tools"), events |-> body("events"),
        reachable |-> held("state") /\ item("state").signal = "AgentMonitorRead"]

fleetAgents(joins) == [k \in DOMAIN PodOrder(joins) |-> Card(joins, PodOrder(joins)[k])]

-----------------------------------------------------------------------------
\* Names.

StartsWith(name, prefix) ==
    Len(name) >= Len(prefix) /\ SubSeq(name, 1, Len(prefix)) = prefix

commonNamePrefix(names) ==
    IF names = <<>> THEN <<>>
    ELSE LET shared == {k \in 0 .. Len(names[1]) :
                          \A i \in DOMAIN names : StartsWith(names[i], SubSeq(names[1], 1, k))}
         IN SubSeq(names[1], 1, CHOOSE k \in shared : \A j \in shared : j <= k)

WithoutPrefix(name, prefix) ==
    IF StartsWith(name, prefix) /\ Len(name) > Len(prefix)
    THEN SubSeq(name, Len(prefix) + 1, Len(name)) ELSE name

CutGenerated(name) ==
    IF Len(name) > 1 /\ name[Len(name)] = "#" THEN SubSeq(name, 1, Len(name) - 1) ELSE name

shortUnitName(name, prefix) == CutGenerated(CutGenerated(WithoutPrefix(name, prefix)))

\* An agent's rank in the application's reading order: the names it comes after,
\* which are all of them for an agent the order does not name.
Rank(name, order) == Cardinality({k \in DOMAIN order : \A j \in 1 .. k : order[j] # name})

\* The cards by rank, those of one rank as the joins named them.
orderAgents(cards, prefix, order) ==
    LET rank(i) == Rank(shortUnitName(cards[i].pod, prefix), order)
        before  == {p \in (DOMAIN cards) \X (DOMAIN cards) :
                      \/ rank(p[1]) < rank(p[2])
                      \/ rank(p[1]) = rank(p[2]) /\ p[1] < p[2]}
    IN [k \in DOMAIN Ordered(DOMAIN cards, before) |-> cards[Ordered(DOMAIN cards, before)[k]]]

-----------------------------------------------------------------------------
\* The inventory.  A deployment, service or pod is [name, component, labels],
\* component or None; a deployment's labels are its selector.

PrefixOf(data) == commonNamePrefix([i \in DOMAIN data.deployments |-> data.deployments[i].name])

\* The names of the units that serve the monitor.
AgentNames(data) ==
    LET prefix == PrefixOf(data)
        names  == {d.name : d \in Elements(data.deployments)}
    IN ({d.component : d \in Elements(data.deployments)} \ {None})
       \cup ({SubSeq(n, Len(prefix) + 1, Len(n)) : n \in names} \ {<<>>})
       \cup {shortUnitName(p, prefix) : p \in Elements(PodOrder(data.joins))}

\* The mesh's services by name.
MeshServices(data) ==
    [n \in {s.name : s \in Elements(data.services)} |-> WithoutPrefix(n, PrefixOf(data))]

DeployedUnits(data) ==
    {shortUnitName(d.name, PrefixOf(data)) : d \in Elements(data.deployments)}

BackingServices(data) ==
    {MeshServices(data)[n] : n \in DOMAIN MeshServices(data)} \ DeployedUnits(data)

-----------------------------------------------------------------------------
\* The traces read: [id, root, spans, walks] summaries, newest first.

MaxSpans == 3
DiversePicks == 2
MaxPicks == 3

\* Past the first picks a root already seen is skipped, and there is a last pick.
PickOf(picked, trace) ==
    IF \/ Len(picked) >= MaxPicks
       \/ Len(picked) >= DiversePicks /\ \E p \in Elements(picked) : p.root = trace.root
    THEN picked ELSE Append(picked, trace)

Largest(traces) ==
    traces[CHOOSE i \in DOMAIN traces :
              \A j \in DOMAIN traces :
                 /\ Len(traces[j].spans) <= Len(traces[i].spans)
                 /\ Len(traces[j].spans) = Len(traces[i].spans) => i <= j]

Eligible(traces) == SelectSeq(traces, LAMBDA t : Len(t.spans) <= MaxSpans)

\* Small recent traces with distinct roots, and the largest one.
selectTopologyTraces(traces) ==
    LET eligible == Eligible(traces)
        picked   == FoldLeft(PickOf, <<>>, eligible)
    IN IF eligible = <<>> \/ Largest(eligible) \in Elements(picked) THEN picked
       ELSE Append(picked, Largest(eligible))

\* Per service, the longest walk.
requestWalks(traces) ==
    LET walks == UNION {{t} \X DOMAIN t.walks : t \in Elements(traces)}
        of(s) == {w \in walks : w[2] = s}
    IN [s \in {w[2] : w \in walks} |->
          (CHOOSE w \in of(s) : \A v \in of(s) : v[1].walks[s] <= w[1].walks[s])[1].walks[s]]

-----------------------------------------------------------------------------
\* The graph.  A span is [id, parent, service, address], address or None.

Loopback == <<"localhost">>
DockerHost == <<"docker host">>
Observer == <<"o">>

\* The service a span's parent belongs to, in whichever order the spans come.
ServiceOf(spans, id) ==
    LET holders == {i \in DOMAIN spans : spans[i].id = id /\ spans[i].service # None}
    IN IF id = None \/ holders = {} THEN None
       ELSE spans[CHOOSE i \in holders : \A j \in holders : j <= i].service

TargetOf(address, mesh) ==
    CASE address \in {None, Loopback} -> None
      [] address = DockerHost -> [id |-> address, kind |-> "host"]
      [] OTHER -> IF address \in DOMAIN mesh THEN [id |-> mesh[address], kind |-> "service"]
                  ELSE [id |-> address, kind |-> "external"]

\* Mutant: a parent is known only if its span came first.
CallerSoFar(spans, i) ==
    LET caller == ServiceOf(SubSeq(spans, 1, i), spans[i].parent)
    IN IF spans[i].service = None \/ caller = spans[i].service THEN None ELSE caller

\* The other service a span was called from, and the unit it calls out to.
Caller(spans, i) ==
    LET caller == ServiceOf(spans, spans[i].parent)
    IN IF spans[i].service = None \/ caller = spans[i].service THEN None ELSE caller

Callee(spans, i, mesh) ==
    LET target == TargetOf(spans[i].address, mesh)
    IN IF spans[i].service = None \/ target = None THEN None
       ELSE IF target.id = spans[i].service THEN None ELSE target

EdgesAt(spans, i, mesh) ==
    LET s == spans[i].service
        mesh1 == IF Caller(spans, i) = None THEN <<>>
                 ELSE << [from |-> Caller(spans, i), to |-> s,
                          kind |-> IF Caller(spans, i) = Observer THEN "poll" ELSE "mesh"] >>
        out1  == IF Callee(spans, i, mesh) = None THEN <<>>
                 ELSE << [from |-> s, to |-> Callee(spans, i, mesh).id,
                          kind |-> IF s = Observer THEN "poll" ELSE "egress"] >>
    IN mesh1 \o out1

\* Every edge seen, once per span that shows it.
Edges(spans, mesh) == FlattenSeq([i \in DOMAIN spans |-> EdgesAt(spans, i, mesh)])

Count(edges, e) == Cardinality({i \in DOMAIN edges : edges[i] = e})

\* The nodes with their kinds: the first mention decides, the inventory's first.
Nodes(spans, agents, mesh, units, backing) ==
    LET kindOf(id, kind) == IF id \in agents THEN "agent" ELSE kind
        at(i) == IF spans[i].service = None THEN <<>>
                 ELSE << [id |-> spans[i].service, kind |-> kindOf(spans[i].service, "service")] >>
                   \o (IF Caller(spans, i) = None THEN <<>>
                       ELSE << [id |-> Caller(spans, i), kind |-> kindOf(Caller(spans, i), "service")] >>)
                   \o (IF Callee(spans, i, mesh) = None THEN <<>>
                       ELSE << [id |-> Callee(spans, i, mesh).id,
                                kind |-> kindOf(Callee(spans, i, mesh).id, Callee(spans, i, mesh).kind)] >>)
        mentions == FlattenSeq([i \in DOMAIN spans |-> at(i)])
        seen     == {m.id : m \in Elements(mentions)} \ (units \cup backing)
        first(id) == mentions[CHOOSE i \in DOMAIN mentions :
                        mentions[i].id = id /\ \A j \in 1 .. i - 1 : mentions[j].id # id]
    IN {[id |-> u, kind |-> "agent"] : u \in units}
       \cup {[id |-> b, kind |-> "service"] : b \in backing}
       \cup {first(id) : id \in seen}

\* What the figure draws of a fleet answer and the traces read.
buildTopologyState(data, traces) ==
    LET spans == FlattenSeq([i \in DOMAIN traces |-> traces[i].spans])
        mesh  == MeshServices(data)
    IN [nodes |-> Nodes(spans, AgentNames(data), mesh, DeployedUnits(data), BackingServices(data)),
        edges |-> Edges(spans, mesh),
        walks |-> requestWalks(traces)]

\* Units no call was seen of are drawn dimmed.
Quiet(nodes, edges) ==
    {n.id : n \in {m \in nodes : \A e \in Elements(edges) : m.id \notin {e.from, e.to}}}

=============================================================================
