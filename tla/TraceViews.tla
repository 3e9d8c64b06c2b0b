----------------------------- MODULE TraceViews -----------------------------
(***************************************************************************)
(* A collected trace as the trace panels of the UI show it: the model the  *)
(* kit makes of the collector's spans (traceApi.ts), the span tree, the    *)
(* timeline, the steps and the agents of a window (traceLayout.ts,         *)
(* traceGroups.ts), and the story category of a span.                      *)
(*                                                                         *)
(* A collected span is a record                                            *)
(*   id, parent (an id or None), name, service,                            *)
(*   start, end : times in the collector's resolution                      *)
(*   command, signal, target (a string or None), iteration                 *)
(*   attrs  : the set of its other attributes                              *)
(*   failed : whether its status is an error                               *)
(* and a trace is the sequence of them as served.                          *)
(***************************************************************************)
EXTENDS Integers, Sequences, FiniteSets, SequencesExt, FiniteSetsExt

CONSTANTS
    None,          \* an absent field
    Milli,         \* units of the collector's resolution in a millisecond
    RequestNames,  \* span names that start with "machine_request"
    ToolNames,     \* span names that start with "execute_tool"
    ResponseWords, \* commands that compose the response
    ForcedWords,   \* commands that force a tool call (..._via_tool)
    ServiceOfHost, \* the service a peer's host belongs to, or None
    PeerKind       \* "model", "store" or "peer", by the host heuristic

ASSUME MilliAssumption == Milli \in Nat \ {0}

\* A stable sort by a numeric key, as Array.prototype.sort.
SortedBy(seq, Key(_)) ==
    LET before(i, j) == \/ Key(seq[i]) < Key(seq[j])
                        \/ Key(seq[i]) = Key(seq[j]) /\ i < j
        order == SortSeq([i \in DOMAIN seq |-> i], before)
    IN  [i \in DOMAIN seq |-> seq[order[i]]]

MapSeq(seq, Op(_)) == [i \in DOMAIN seq |-> Op(seq[i])]

StartOf(span) == span.start

EndOf(span) == span.start + span.duration

(***************************************************************************)
(* traceApi.ts                                                             *)
(***************************************************************************)
\* Date keeps milliseconds only.
IsoToUs(t) == (t \div Milli) * Milli

ToSpan(s) ==
    [id |-> s.id, parent |-> s.parent, name |-> s.name, service |-> s.service,
     start |-> IsoToUs(s.start), duration |-> IsoToUs(s.end) - IsoToUs(s.start),
     command |-> s.command, target |-> s.target, signal |-> s.signal,
     attrs |-> s.attrs, failed |-> s.failed]

\* One model call, one span: a child without a command that has its parent's
\* name is folded into the parent, and its children move up to the
\* grandparent.  Both passes go over the spans in order and see the updates
\* of the spans before.
FoldChild(acc, id) ==
    LET span   == acc.at[id]
        parent == acc.at[span.parent]
    IN  IF \/ span.command # None
           \/ span.parent \notin DOMAIN acc.at
           \/ parent.name # span.name
        THEN acc
        ELSE [at |-> [acc.at EXCEPT ![span.parent] =
                        [parent EXCEPT !.attrs  = @ \cup span.attrs,
                                       !.target = IF @ = None THEN span.target ELSE @,
                                       !.failed = @ \/ span.failed]],
              absorbed |-> acc.absorbed \cup {id}]

MoveUp(acc, id) ==
    IF acc.at[id].parent \in acc.absorbed
    THEN [acc EXCEPT !.at[id].parent = acc.at[acc.at[id].parent].parent]
    ELSE acc

MergeAdapterDuplicates(spans) ==
    LET ids  == MapSeq(spans, LAMBDA s : s.id)
        all  == [id \in Range(ids) |-> CHOOSE s \in Range(spans) : s.id = id]
        fold == FoldLeft(MoveUp,
                         FoldLeft(FoldChild, [at |-> all, absorbed |-> {}], ids), ids)
    IN  MapSeq(SelectSeq(ids, LAMBDA id : id \notin fold.absorbed),
               LAMBDA id : fold.at[id])

ToModel(trace) ==
    LET spans == MergeAdapterDuplicates(SortedBy(MapSeq(trace, ToSpan), StartOf))
    IN  [spans    |-> spans,
         start    |-> Min({StartOf(s) : s \in Range(spans)}),
         end      |-> Max({EndOf(s) : s \in Range(spans)}),
         services |-> {s.service : s \in Range(spans)}]

(***************************************************************************)
(* traceLayout.ts, the span tree.  A forest is a record                    *)
(*   span : the span of each node                                          *)
(*   kids : the sequence of the children of each node                      *)
(*   roots: the sequence of the roots                                      *)
(***************************************************************************)
\* Mutant: a span whose parent was not collected is dropped.
SpanTreeDropsOrphans(spans) ==
    LET ids  == {s.id : s \in Range(spans)}
        isRoot(s)    == s.parent = None
        idsOf(seq)   == MapSeq(SortedBy(seq, StartOf), LAMBDA s : s.id)
    IN  [span  |-> [id \in ids |-> CHOOSE s \in Range(spans) : s.id = id],
         kids  |-> [id \in ids |-> idsOf(SelectSeq(spans, LAMBDA s : s.parent = id))],
         roots |-> idsOf(SelectSeq(spans, isRoot))]

SpanTree(spans) ==
    LET ids  == {s.id : s \in Range(spans)}
        isRoot(s)    == s.parent \notin ids \/ s.parent = s.id
        idsOf(seq)   == MapSeq(SortedBy(seq, StartOf), LAMBDA s : s.id)
        childrenOf(id) == SelectSeq(spans, LAMBDA s : s.parent = id /\ ~isRoot(s))
    IN  [span  |-> [id \in ids |-> CHOOSE s \in Range(spans) : s.id = id],
         kids  |-> [id \in ids |-> idsOf(childrenOf(id))],
         roots |-> idsOf(SelectSeq(spans, isRoot))]

\* The nodes below a node.  Parentage is acyclic, so depth is bounded by the
\* number of nodes.
Below(forest, id) ==
    LET grow[k \in 0..Cardinality(DOMAIN forest.kids)] ==
            IF k = 0 THEN Range(forest.kids[id])
            ELSE grow[k - 1] \cup UNION {Range(forest.kids[n]) : n \in grow[k - 1]}
    IN  grow[Cardinality(DOMAIN forest.kids)]

Descendants(forest, id) == Cardinality(Below(forest, id))

\* The several roots of one service stand under one synthetic node.
GroupId(service) == <<"service-group", service>>

GroupRootsByService(forest) ==
    LET rootsOf(v) == SelectSeq(forest.roots, LAMBDA id : forest.span[id].service = v)
        services   == {forest.span[id].service : id \in Range(forest.roots)}
        grouped    == {v \in services : Len(rootsOf(v)) > 1}
        groupSpan(v) ==
            LET from == Min({forest.span[id].start : id \in Range(rootsOf(v))})
                to   == Max({EndOf(forest.span[id]) : id \in Range(rootsOf(v))})
            IN  [id |-> GroupId(v), parent |-> None, name |-> GroupId(v),
                 service |-> v, start |-> from, duration |-> to - from,
                 command |-> None, target |-> None, signal |-> None,
                 attrs |-> {}, failed |-> FALSE]
        nodes  == [n \in {GroupId(v) : v \in grouped} |-> groupSpan(n[2])] @@ forest.span
        single == SelectSeq(forest.roots,
                            LAMBDA id : forest.span[id].service \notin grouped)
        tops   == single \o SetToSeq({GroupId(v) : v \in grouped})
    IN  [span  |-> nodes,
         kids  |-> [n \in {GroupId(v) : v \in grouped} |-> rootsOf(n[2])] @@ forest.kids,
         roots |-> SortedBy(tops, LAMBDA n : nodes[n].start)]

\* The forest narrowed to the nodes that match (hits) and their ancestors.
FilterTree(forest, hits) ==
    LET kept == {n \in DOMAIN forest.span : ({n} \cup Below(forest, n)) \cap hits # {}}
        in(n) == n \in kept
    IN  [roots |-> SelectSeq(forest.roots, in), matched |-> Cardinality(hits),
         span  |-> [n \in kept |-> forest.span[n]],
         kids  |-> [n \in kept |-> SelectSeq(forest.kids[n], in)]]

\* Waterfall.tsx: the rows from top to bottom, a collapsed node hiding all
\* that is below it.
WaterfallRows(forest, collapsed) ==
    LET under[n \in DOMAIN forest.kids] ==
            IF n \in collapsed THEN <<n>>
            ELSE <<n>> \o FlattenSeq(MapSeq(forest.kids[n], LAMBDA kid : under[kid]))
    IN  FlattenSeq(MapSeq(forest.roots, LAMBDA n : under[n]))

(***************************************************************************)
(* traceLayout.ts, the timeline of a window [from, to).                    *)
(***************************************************************************)
\* Mutant: a span that outlasts the window is left out of it.
LiesWithin(span, from, to) == span.start >= from /\ EndOf(span) <= to

Overlaps(span, from, to) == span.start < to /\ EndOf(span) > from

\* A lane per service, and one per outside peer a span of the window called.
TimelineLanes(model, from, to) ==
    LET inWindow == SelectSeq(model.spans, LAMBDA s : Overlaps(s, from, to))
        outside(s) == /\ s.target # None
                      /\ ServiceOfHost[s.target] \notin model.services
        laneOf(v)  == [name |-> v, external |-> FALSE,
                       spans |-> SelectSeq(inWindow, LAMBDA s : s.service = v)]
        peerOf(h)  == [name |-> h, external |-> TRUE,
                       spans |-> SelectSeq(inWindow, LAMBDA s : outside(s) /\ s.target = h)]
    IN  {laneOf(s.service) : s \in Range(inWindow)}
        \cup {peerOf(s.target) : s \in {t \in Range(inWindow) : outside(t)}}

TimelineSequence(model, from, to) ==
    LET isCall(s) == \/ s.command # None
                     \/ s.name \in ToolNames \cup RequestNames
                     \/ s.parent = None
    IN  SortedBy(SelectSeq(model.spans, LAMBDA s : Overlaps(s, from, to) /\ isCall(s)),
                 StartOf)

(***************************************************************************)
(* traceGroups.ts, the window's spans as steps, as agents and as handoffs. *)
(***************************************************************************)
WindowSpans(model, from, to) ==
    SelectSeq(model.spans, LAMBDA s : s.start >= from /\ s.start < to)

\* The agent the request entered: the earliest machine_request, if any.
TraceRootService(model) ==
    LET requests == SelectSeq(model.spans, LAMBDA s : s.name \in RequestNames)
    IN  IF requests # <<>> THEN requests[1].service ELSE model.spans[1].service

StepGroups(model, from, to) ==
    LET root     == TraceRootService(model)
        inWindow == WindowSpans(model, from, to)
        isAnchor(s) == s.service = root /\ s.command # None
        anchors  == SortedBy(SelectSeq(inWindow, isAnchor), StartOf)
        \* the last anchor that started by then, the first when none had
        slot(s)  == Max({1} \cup {i \in DOMAIN anchors :
                                    \A j \in 1..i : anchors[j].start <= s.start})
        group(i) == SortedBy(<<anchors[i]>> \o
                             SelectSeq(inWindow, LAMBDA s : ~isAnchor(s) /\ slot(s) = i),
                             StartOf)
    IN  IF anchors # <<>>
        THEN [i \in DOMAIN anchors |-> [anchor |-> anchors[i], spans |-> group(i)]]
        ELSE IF inWindow = <<>> THEN <<>>
             ELSE <<[anchor |-> inWindow[1], spans |-> inWindow]>>

AgentGroups(model, from, to) ==
    LET spans == SortedBy(WindowSpans(model, from, to), StartOf)
    IN  {[service |-> v, spans |-> SelectSeq(spans, LAMBDA s : s.service = v)]
           : v \in {s.service : s \in Range(spans)}}

Continuations(span, spans) ==
    {[direction |-> "received", span |-> p.id] : p \in
        {q \in Range(spans) : q.id = span.parent /\ q.service # span.service}}
    \cup
    {[direction |-> "sent", span |-> c.id] : c \in
        {q \in Range(spans) : q.parent = span.id /\ q.service # span.service}}

(***************************************************************************)
(* traceLayout.ts, the story category of a span when the application ships *)
(* no declared surface.  The attribute "chat" marks a model call.          *)
(***************************************************************************)
SpanCategory(span, model) ==
    LET structural == span.name \in RequestNames \/ (span.parent = None /\ span.command = None)
        entered    == span.service = TraceRootService(model)
    IN  IF structural THEN IF entered THEN "input" ELSE "handoff"
        ELSE IF span.command \in ResponseWords THEN "response"
        ELSE IF "chat" \in span.attrs \/ span.command \in ForcedWords THEN "model call"
        ELSE IF span.target = None THEN "step"
        ELSE IF PeerKind[span.target] = "model" THEN "model call"
        ELSE IF PeerKind[span.target] = "store" THEN "store call"
        ELSE IF ServiceOfHost[span.target] \in model.services THEN "agent call"
        ELSE "external call"

=============================================================================
