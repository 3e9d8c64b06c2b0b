----------------------------- MODULE CollectorApp -----------------------------
(***************************************************************************)
(* The collector's application (panels.ts, Traces.tsx, Explore.tsx): the   *)
(* kit's trace panel and the Explore page, one mounted at a time.  A page  *)
(* that is left loses its state, and the answers to its reads set nothing; *)
(* an exemplar of the Explore page opens its trace in the trace panel.     *)
(***************************************************************************)
EXTENDS TraceReader

CONSTANTS Spools, Buckets, Edges, MaxSelections

ASSUME HeatmapAssumption ==
    /\ Buckets \in Nat \ {0}
    /\ Edges \in Seq(Nat) /\ Len(Edges) > 0 /\ Edges[1] = 0
    /\ \A i, j \in 1 .. Len(Edges) : i < j => Edges[i] < Edges[j]
    /\ None \notin Nat

ASSUME SpoolsAssumption ==
    \A spans \in Spools : IsFiniteSet(spans) /\ \A s \in spans : s.start \in Nat /\ s.dur \in Nat

VARIABLES spool, stats, drag, over, breakdown, failed, asks, selections, raced

Explore == INSTANCE SpanExplorer

\* No breakdown is the page's null.
ASSUME BreakdownAssumption ==
    None \notin [n : Nat, rect : SUBSET Explore!Cells, inside : SUBSET UNION Spools]

pageVars == <<spool, stats, drag, over, breakdown, failed, asks, selections, raced>>
appVars == <<vars, pageVars>>

AppInit == Init /\ Explore!InitExplore

OnExplore == screen = "explore"

\* The sidebar's link to the Explore page, which reads as well when it is mounted
\* (the bound leaves a read for the way back).
GoExplore ==
    /\ ~OnExplore /\ made + 1 < MaxReads
    /\ made' = made + 1
    /\ screen' = "explore" /\ opened' = None /\ shown' = [status |-> "unmounted"]
    /\ offset' = 0 /\ showAll' = FALSE /\ seen' = {}
    /\ chosen' = {} /\ focus' = None /\ models' = {} /\ asked' = {}
    /\ reads' = {} /\ live' = 0
    /\ UNCHANGED arrived
    /\ Explore!MountExplore

\* The sidebar's link to the traces.
GoTraces ==
    /\ OnExplore
    /\ MountList
    /\ UNCHANGED <<arrived, storyVars>>
    /\ Explore!Unmount

\* A link to one of the exemplars.
OpenExemplar(t) ==
    /\ OnExplore /\ t \in Explore!ExemplarIds
    /\ screen' = "trace" /\ opened' = t
    /\ Ask([kind |-> "trace", trace |-> t])
    /\ shown' = Loading
    /\ UNCHANGED <<arrived, listVars, storyVars>>
    /\ Explore!Unmount

AppAnswers ==
    \/ Answers /\ UNCHANGED pageVars
    \/ Explore!ExploreAnswers /\ UNCHANGED vars

AppNext ==
    \/ (Collect \/ Answers) /\ UNCHANGED pageVars
    \/ ~OnExplore /\ Operator /\ UNCHANGED pageVars
    \/ OnExplore /\ Explore!ExploreNext /\ UNCHANGED vars
    \/ GoExplore \/ GoTraces
    \/ \E t \in 1 .. Traces : OpenExemplar(t)

\* A fetch settles.
AppSpec == AppInit /\ [][AppNext]_appVars /\ WF_appVars(AppAnswers)

-----------------------------------------------------------------------------
\* The region highlighted and the breakdown beside it belong together
\* (SpanExplorer).
RegionIsExplained == Explore!RegionIsExplained

\* Every read of either page ends: neither says it is loading for good.
ReadsEnd ==
    <>[](/\ reads = {} /\ asks = {}
         /\ screen \in {"list", "trace"} => shown.status # "loading"
         /\ stats.status # "loading")
=============================================================================
