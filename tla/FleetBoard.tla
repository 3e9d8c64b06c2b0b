----------------------------- MODULE FleetBoard -----------------------------
(***************************************************************************)
(* The observer's page (useFleet.ts, topologyState.ts, Observer.tsx): a    *)
(* timer polls the fleet whether or not the poll before has answered, and  *)
(* every new fleet answer makes the figure read the recent traces again,   *)
(* the figure drawn before staying up until the new one lands.             *)
(*                                                                         *)
(* The mesh and its traces change while the page reads.                    *)
(***************************************************************************)
EXTENDS FleetView

CONSTANTS
    Fleets,     \* fleet answers the observer may give, in the order they come
    Orders,     \* reading orders an application may give its agents
    Collected,  \* trace lists the backend may hold, in the order they come
    MaxPolls    \* bound: polls of a behaviour

ASSUME FleetAssumption == Fleets # <<>> /\ Collected # <<>> /\ MaxPolls \in Nat \ {0}

\* A body is named for the pod it was read from.
ReadFrom(items) ==
    /\ items \in Seq(Elements(items))
    /\ \A i \in DOMAIN items : items[i].body \in {None, items[i].pod}

ASSUME ItemsAssumption ==
    /\ \A f \in DOMAIN Fleets : \A j \in DOMAIN Joins : ReadFrom(ItemsOf(Fleets[f].joins, Joins[j]))
    /\ Fleets \in Seq(Elements(Fleets)) /\ \A order \in Orders : order \in Seq(Elements(order))

VARIABLES
    fleet,     \* the answer the observer gives now
    traces,    \* the list the trace backend holds now
    polls,     \* polls in flight [n, step, fleet]: the fleet read, then the state read
    ticks,     \* polls so far, which number them
    status,    \* connecting, polling, connected or error
    shown,     \* the fleet data on the page [n, fleet]; n = 0 before any
    answered,  \* history: the polls whose fleet was read
    overlap,   \* history: a poll began while another was out
    figure,    \* the topology [status, n, fleet, traces]
    reads,     \* topology reads in flight [n, fleet, step, picked], n of the data
    live       \* the data whose read counts

pollVars   == <<polls, ticks, status, shown, answered, overlap>>
figureVars == <<figure, reads, live>>
vars == <<fleet, traces, pollVars, figureVars>>

Empty == 0   \* no fleet data yet

DataOf(f) ==
    IF f = Empty THEN [joins |-> [machine |-> None, state |-> None, tools |-> None, events |-> None],
                       pods |-> <<>>, deployments |-> <<>>, services |-> <<>>]
    ELSE Fleets[f]

FirstRead(n, f) == [n |-> n, fleet |-> f, step |-> "list", picked |-> <<>>]

Init ==
    /\ fleet = 1 /\ traces = 1
    /\ polls = {[n |-> 1, step |-> "fleet", fleet |-> Empty]} /\ ticks = 1
    /\ status = "polling" /\ shown = [n |-> 0, fleet |-> Empty]
    /\ answered = {} /\ overlap = FALSE
    /\ figure = [status |-> "deriving", n |-> 0, fleet |-> Empty, traces |-> <<>>]
    /\ reads = {FirstRead(0, Empty)} /\ live = 0

-----------------------------------------------------------------------------
\* The mesh goes on (external).

Change ==
    /\ \/ fleet < Len(Fleets) /\ fleet' = fleet + 1 /\ UNCHANGED traces
       \/ traces < Len(Collected) /\ traces' = traces + 1 /\ UNCHANGED fleet
    /\ UNCHANGED <<pollVars, figureVars>>

-----------------------------------------------------------------------------
\* The polls.

Tick ==
    /\ ticks < MaxPolls
    /\ ticks' = ticks + 1
    /\ polls' = polls \cup {[n |-> ticks', step |-> "fleet", fleet |-> Empty]}
    /\ status' = "polling"
    /\ overlap' = (overlap \/ polls # {})
    /\ UNCHANGED <<fleet, traces, shown, answered, figureVars>>

\* Mutant: a failed poll says nothing.
StatusAfterFailureKept == status

StatusAfterFailure == "error"

FleetRead(p) ==
    /\ p.step = "fleet"
    /\ polls' = (polls \ {p}) \cup {[p EXCEPT !.step = "state", !.fleet = fleet]}
    /\ answered' = answered \cup {p.n}
    /\ UNCHANGED <<fleet, traces, ticks, status, shown, overlap, figureVars>>

\* The data shown before stays.
FleetFailed(p) ==
    /\ p.step = "fleet"
    /\ polls' = polls \ {p}
    /\ status' = StatusAfterFailure
    /\ UNCHANGED <<fleet, traces, ticks, shown, answered, overlap, figureVars>>

\* The state read never fails a poll.  New data re-derives the figure, and the
\* read for the data before counts no more.
StateAnswered(p) ==
    /\ p.step = "state"
    /\ polls' = polls \ {p}
    /\ status' = "connected"
    /\ shown' = [n |-> p.n, fleet |-> p.fleet]
    /\ live' = p.n
    /\ reads' = reads \cup {FirstRead(p.n, p.fleet)}
    /\ UNCHANGED <<fleet, traces, ticks, answered, overlap, figure>>

-----------------------------------------------------------------------------
\* The figure.

\* Mutant: the effect's cleanup is missing.
CountsLate(r) == r.n \in Nat
Counts(r) == r.n = live

Degraded(r) == [status |-> "no traces", n |-> r.n, fleet |-> r.fleet, traces |-> <<>>]

TraceListRead(r) ==
    /\ r.step = "list"
    /\ reads' = (reads \ {r})
                  \cup {[r EXCEPT !.step = "traces", !.picked = selectTopologyTraces(Collected[traces])]}
    /\ UNCHANGED <<fleet, traces, pollVars, figure, live>>

TraceListFailed(r) ==
    /\ r.step = "list"
    /\ reads' = reads \ {r}
    /\ figure' = IF Counts(r) THEN Degraded(r) ELSE figure
    /\ UNCHANGED <<fleet, traces, pollVars, live>>

\* The traces that fail to be read are dropped.
TracesRead(r, failing) ==
    /\ r.step = "traces"
    /\ reads' = reads \ {r}
    /\ LET got == SelectSeq(r.picked, LAMBDA t : t.id \notin failing)
       IN figure' = IF ~Counts(r) THEN figure
                    ELSE IF \A i \in DOMAIN got : got[i].spans = <<>> THEN Degraded(r)
                    ELSE [status |-> "ready", n |-> r.n, fleet |-> r.fleet, traces |-> got]
    /\ UNCHANGED <<fleet, traces, pollVars, live>>

-----------------------------------------------------------------------------
Picked(r) == {r.picked[i].id : i \in DOMAIN r.picked}

Answers ==
    \/ \E p \in polls : FleetRead(p) \/ FleetFailed(p) \/ StateAnswered(p)
    \/ \E r \in reads : TraceListRead(r) \/ TraceListFailed(r)
    \/ \E r \in reads : \E failing \in SUBSET Picked(r) : TracesRead(r, failing)

Next == Change \/ Tick \/ Answers

\* A fetch settles.  The timer is bounded here, so it owes nothing.
Spec == Init /\ [][Next]_vars /\ WF_vars(Answers)

-----------------------------------------------------------------------------
Data == DataOf(shown.fleet)

\* The cards are the pods': every pod a join names has one card, wherever the
\* application's reading order puts it, every field on it was read from that pod,
\* and it is reachable only if its state was read.
CardsAreTheirPods ==
    LET cards == fleetAgents(Data.joins)
        named == UNION {PodsIn(ItemsOf(Data.joins, Joins[j])) : j \in DOMAIN Joins}
    IN /\ {c.pod : c \in Elements(cards)} = named /\ Len(cards) = Cardinality(named)
       /\ \A order \in Orders :
             LET drawn == orderAgents(cards, PrefixOf(Data), order)
             IN Elements(drawn) = Elements(cards) /\ Len(drawn) = Len(cards)
       /\ \A c \in Elements(cards) :
             /\ \A f \in {c.machine, c.state, c.tools, c.events} : f \in {None, c.pod}
             /\ c.reachable => \E i \in DOMAIN Data.joins.state :
                                  /\ Data.joins.state[i].pod = c.pod
                                  /\ Data.joins.state[i].signal = "AgentMonitorRead"

\* The figure shows what the traces show and no more, between nodes it draws and
\* in whichever order the spans come: a mesh edge counts the spans called from
\* another service, an egress edge the spans that name a peer by its address.  The
\* observer's edges count both, so one of its calls counts twice when its span
\* names the unit that answers and the unit's span is seen as well.
\* Every deployed unit is a node of it.  The traces it reads are the ones that
\* cover most: a trace of every root, unless the picks ran out, and the largest.
FigureIsObserved ==
    LET data  == DataOf(figure.fleet)
        state == buildTopologyState(data, figure.traces)
        spans == FlattenSeq([i \in DOMAIN figure.traces |-> figure.traces[i].spans])
        ids   == {n.id : n \in state.nodes}
        calls(a, b) == {c \in (DOMAIN spans) \X (DOMAIN spans) :
                          /\ spans[c[1]].id = spans[c[2]].parent
                          /\ spans[c[1]].service = a /\ spans[c[2]].service = b}
        outs(a, b) == {i \in DOMAIN spans :
                         LET target == TargetOf(spans[i].address, MeshServices(data))
                         IN spans[i].service = a /\ target # None /\ target.id = b}
        drawn(a, b, kind) == Count(state.edges, [from |-> a, to |-> b, kind |-> kind])
        services == {spans[i].service : i \in DOMAIN spans} \ {None}
        list   == Eligible(Collected[traces])
        picked == selectTopologyTraces(Collected[traces])
    IN /\ figure.status = "ready" =>
            /\ \A e \in Elements(state.edges) :
                  /\ e.from \in services /\ e.to \in ids /\ e.from # e.to
                  /\ e.kind = "poll" <=> e.from = Observer
            /\ \A a \in services : \A b \in ids \ {a} :
                  LET called == Cardinality(calls(a, b))
                      named  == Cardinality(outs(a, b))
                  IN IF a = Observer THEN drawn(a, b, "poll") = called + named
                     ELSE drawn(a, b, "mesh") = called /\ drawn(a, b, "egress") = named
            /\ DeployedUnits(data) \subseteq ids
            /\ ids \ Quiet(state.nodes, state.edges)
                 = UNION {{e.from, e.to} : e \in Elements(state.edges)}
            /\ \A i \in DOMAIN figure.traces : \A s \in DOMAIN figure.traces[i].walks :
                  state.walks[s] >= figure.traces[i].walks[s]
       /\ list # <<>> => Largest(list) \in Elements(picked)
       /\ Len(picked) < MaxPicks =>
             \A t \in Elements(list) : \E p \in Elements(picked) : p.root = t.root

\* While no poll overlaps another the page shows the last fleet read; and once
\* its traces are read the figure is of the fleet on the page, however late the
\* reads for earlier fleets answer.
PageFollowsFleet ==
    /\ ~overlap /\ polls = {} => \A n \in answered : n <= shown.n
    /\ (\A r \in reads : r.n # live) => figure.n = shown.n

\* The page stops polling and deriving when the polls end, whatever fails.
BoardSettles == <>[](status \in {"connected", "error"} /\ figure.status # "deriving")

=============================================================================
