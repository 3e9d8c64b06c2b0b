----------------------------- MODULE SpanExplorer -----------------------------
(***************************************************************************)
(* The collector's Explore page (Explore.tsx, client.ts) and the analytics *)
(* behind it (analytics.go, analytics_compute.go): a heatmap of span starts*)
(* by duration, read once when the page is mounted; a region dragged over  *)
(* it; and the breakdown of the spans of that region against the others.   *)
(*                                                                         *)
(* Time is in milliseconds from the first span the collector may hold.  A  *)
(* span is a record [start, dur, trace].  Attributes, scores and the caps  *)
(* on rankings and exemplars are left out: a breakdown is its filter and   *)
(* the spans inside.                                                       *)
(***************************************************************************)
EXTENDS Integers, FiniteSets, Sequences

CONSTANTS
    Spools,      \* the sets of spans the collector may come to hold
    Buckets,     \* time buckets asked for
    Edges,       \* duration edges of the heatmap, the first being 0
    None,
    MaxSelections      \* bound: breakdowns asked for by one mount of the page

VARIABLES
    spool,      \* the spans collected
    stats,      \* [status, spans]: the heatmap's spans, once read
    drag,       \* [start, end]: the cells the drag began and stands at, or None
    over,       \* the pointer is over the heatmap
    breakdown,  \* the last breakdown set [n, rect, inside], or None
    failed,     \* the breakdown panel shows an error
    asks,       \* breakdowns in flight [n, rect, filter]
    selections, \* breakdowns asked for, which number them
    raced       \* history: an answer came after one of a later breakdown

-----------------------------------------------------------------------------
\* The heatmap.

Cells == (0 .. Buckets - 1) \X (0 .. Len(Edges) - 1)

Starts(spans) == {s.start : s \in spans}

Earliest(times) == CHOOSE t \in times : \A u \in times : t <= u
Latest(times)   == CHOOSE t \in times : \A u \in times : t >= u

\* The first and last start; an instant is widened to one millisecond.
timeRange(spans) ==
    LET from == Earliest(Starts(spans))
        to   == Latest(Starts(spans))
    IN  [from |-> from, to |-> IF to <= from THEN from + 1 ELSE to]

\* Bucket boundaries are rounded down.
TimeEdge(spans, i) ==
    LET range == timeRange(spans)
    IN  range.from + ((range.to - range.from) * i) \div Buckets

\* The last start falls into the last bucket.
timeBucketIndex(spans, start) ==
    LET range == timeRange(spans)
        i     == ((start - range.from) * Buckets) \div (range.to - range.from)
    IN  IF i >= Buckets THEN Buckets - 1 ELSE i

\* The last duration bucket has no upper edge.
durationBucketIndex(dur) ==
    LET within == {i \in 1 .. Len(Edges) - 1 : Edges[i] <= dur /\ dur < Edges[i + 1]}
    IN  IF within = {} THEN Len(Edges) - 1 ELSE (CHOOSE i \in within : TRUE) - 1

CellOf(spans, s) == <<timeBucketIndex(spans, s.start), durationBucketIndex(s.dur)>>

-----------------------------------------------------------------------------
\* The region, and the filter that stands for it.

Within(a, b, x) == (a <= x /\ x <= b) \/ (b <= x /\ x <= a)

\* The cells highlighted between the two the drag spans.
Region(a, b) == {c \in Cells : Within(a[1], b[1], c[1]) /\ Within(a[2], b[2], c[2])}

Low(a, b)  == IF a < b THEN a ELSE b
High(a, b) == IF a < b THEN b ELSE a

\* Mutant: the region ends where its last column begins.
selectionEndsEarly(spans, a, b) ==
    LET r1 == High(a[2], b[2])
    IN  [startMs |-> TimeEdge(spans, Low(a[1], b[1])),
         endMs   |-> TimeEdge(spans, High(a[1], b[1])),
         minDur  |-> Edges[Low(a[2], b[2]) + 1],
         maxDur  |-> IF r1 < Len(Edges) - 1 THEN Edges[r1 + 2] ELSE None]

selectionFromCells(spans, a, b) ==
    LET r1 == High(a[2], b[2])
    IN  [startMs |-> TimeEdge(spans, Low(a[1], b[1])),
         endMs   |-> TimeEdge(spans, High(a[1], b[1]) + 1),
         minDur  |-> Edges[Low(a[2], b[2]) + 1],
         maxDur  |-> IF r1 < Len(Edges) - 1 THEN Edges[r1 + 2] ELSE None]

\* The filter takes starts and durations from its lower bounds up to, and
\* without, its upper ones.
matches(f, s) ==
    /\ f.startMs <= s.start /\ s.start < f.endMs
    /\ f.minDur <= s.dur
    /\ f.maxDur # None => s.dur < f.maxDur

Inside(f, spans) == {s \in spans : matches(f, s)}

-----------------------------------------------------------------------------
\* The page, left and mounted.

Unmount ==
    /\ spool' = {} /\ stats' = [status |-> "unmounted", spans |-> {}]
    /\ drag' = [start |-> None, end |-> None] /\ over' = FALSE
    /\ breakdown' = None /\ failed' = FALSE
    /\ asks' = {} /\ selections' = 0 /\ raced' = FALSE

InitExplore ==
    /\ spool = {} /\ stats = [status |-> "unmounted", spans |-> {}]
    /\ drag = [start |-> None, end |-> None] /\ over = FALSE
    /\ breakdown = None /\ failed = FALSE
    /\ asks = {} /\ selections = 0 /\ raced = FALSE

\* Mounted, the page reads the heatmap of whatever is collected by then.
MountExplore ==
    /\ spool' \in Spools /\ stats' = [status |-> "loading", spans |-> {}]
    /\ UNCHANGED <<drag, over, breakdown, failed, asks, selections, raced>>

\* The collector goes on collecting under the page.
Arrive ==
    /\ stats.status = "ok"
    /\ \E more \in Spools : spool \subseteq more /\ spool # more /\ spool' = more
    /\ UNCHANGED <<stats, drag, over, breakdown, failed, asks, selections, raced>>

AnswerStats(ok) ==
    /\ stats.status = "loading"
    /\ stats' = IF ~ok THEN [stats EXCEPT !.status = "error"]
                ELSE [status |-> IF spool = {} THEN "empty" ELSE "ok", spans |-> spool]
    /\ UNCHANGED <<spool, drag, over, breakdown, failed, asks, selections, raced>>

-----------------------------------------------------------------------------
\* The drag.  Nothing ends it: a cell entered moves its end whether or not the
\* button is down, and a release or the pointer's leaving asks for its region.

onDown(c) ==
    /\ stats.status = "ok"
    /\ drag' = [start |-> c, end |-> c] /\ over' = TRUE
    /\ UNCHANGED <<spool, stats, breakdown, failed, asks, selections, raced>>

onMove(c) ==
    /\ stats.status = "ok"
    /\ drag' = IF drag.start # None THEN [drag EXCEPT !.end = c] ELSE drag
    /\ over' = TRUE
    /\ UNCHANGED <<spool, stats, breakdown, failed, asks, selections, raced>>

applySelection(a, b) ==
    /\ selections < MaxSelections
    /\ failed' = FALSE
    /\ selections' = selections + 1
    /\ asks' = asks \cup {[n |-> selections', rect |-> Region(a, b),
                           filter |-> selectionFromCells(stats.spans, a, b)]}

\* The button is released over the map, or the pointer leaves it.
onUp(leaves) ==
    /\ over /\ over' = ~leaves
    /\ IF drag.start # None THEN applySelection(drag.start, drag.end)
       ELSE UNCHANGED <<failed, asks, selections>>
    /\ UNCHANGED <<spool, stats, drag, breakdown, raced>>

\* An answer sets the breakdown whatever was asked since, and an error stays
\* beside the breakdown before it.
AnswerBreakdown(r, ok) ==
    /\ asks' = asks \ {r}
    /\ IF ok THEN /\ breakdown' = [n |-> r.n, rect |-> r.rect, inside |-> Inside(r.filter, spool)]
                  /\ UNCHANGED failed
             ELSE failed' = TRUE /\ UNCHANGED breakdown
    /\ raced' = (raced \/ \E n \in r.n + 1 .. selections : \A x \in asks : x.n # n)
    /\ UNCHANGED <<spool, stats, drag, over, selections>>

\* The traces the page links to.
ExemplarIds ==
    {s.trace : s \in IF breakdown # None THEN breakdown.inside ELSE stats.spans}

ExploreAnswers ==
    \/ \E ok \in BOOLEAN : AnswerStats(ok) \/ \E r \in asks : AnswerBreakdown(r, ok)

ExploreNext ==
    \/ ExploreAnswers \/ Arrive
    \/ \E c \in Cells : onDown(c) \/ onMove(c)
    \/ \E leaves \in BOOLEAN : onUp(leaves)

-----------------------------------------------------------------------------
\* The spans a filter of the region takes are those its cells count, but for the
\* ones a boundary is rounded onto, and for the latest, which the last column
\* counts and its filter leaves out.
FilterIsOfRegion ==
    drag.start # None =>
        LET spans   == stats.spans
            region  == Region(drag.start, drag.end)
            range   == timeRange(spans)
            counted == {s \in spans : CellOf(spans, s) \in region}
            taken   == Inside(selectionFromCells(spans, drag.start, drag.end), spans)
            rounded == {TimeEdge(spans, i) : i \in
                          {j \in 1 .. Buckets - 1 : ((range.to - range.from) * j) % Buckets # 0}}
        IN  \A s \in (counted \ taken) \cup (taken \ counted) :
                \/ s.start \in rounded
                \/ s.start = range.to /\ s \in counted

\* The region highlighted once the pointer has left the map is the one last
\* asked for, and once every answer is in, and in the order of the asking, the
\* breakdown is of that region or the panel says that it failed.
BreakdownIsOfRegion ==
    ~over /\ drag.start # None /\ asks = {} /\ ~raced /\ ~failed =>
        /\ breakdown # None
        /\ breakdown.n = selections
        /\ breakdown.rect = Region(drag.start, drag.end)

\* The region highlighted and the breakdown beside it belong together.
RegionIsExplained == FilterIsOfRegion /\ BreakdownIsOfRegion

=============================================================================
