---------------------------- MODULE TurnFigures ----------------------------
(***************************************************************************)
(* The story of a turn as the UI shows it: on one side the declared        *)
(* machine of an agent with the run laid over it (MachineDetail.tsx), on   *)
(* the other the collected trace in a waterfall and in the window of a     *)
(* brush (Waterfall.tsx, Timeline.tsx, WindowBrush.tsx).                   *)
(*                                                                         *)
(* The run itself is the engine's loop (loop_runner.go): the row of the    *)
(* current state and signal is taken, the machine moves to its next state  *)
(* and the row's command runs there and emits the next signal.  A row      *)
(* without a command only moves, and a $tool row runs a word that is only  *)
(* known at run time.  The walk is what the run's spans record.            *)
(***************************************************************************)
EXTENDS MachineFigure, TraceViews

CONSTANTS
    Inputs,      \* the pairs of a machine and a trace to look at
    StartSignal, \* the signal a run starts with
    Signals,     \* the signals commands emit
    ToolAction,  \* the action "$tool"
    Tools,       \* the words a $tool row may run
    MaxSteps,    \* bound: commands of a run
    MaxClicks    \* bound: uses of the panels' controls

ASSUME ToolsAssumption == {Undefined, ToolAction} \cap Tools = {} /\ ToolAction # Undefined

ASSUME BoundsAssumption == MaxSteps \in Nat /\ MaxClicks \in Nat

VARIABLES
    machine,    \* the declared machine
    trace,      \* the collected trace
    model,      \* the kit's model of it
    at,         \* the run's state
    signal,     \* the run's last signal
    walk,       \* the commands the run has executed
    left,       \* history: states out of which the run dispatched a declared word
    moved,      \* history: what the run's last row ran, "word", "tool" or "none"
    showAll,    \* MachineDetail: every state shown
    window,     \* Timeline: the brush's window of the trace
    query,      \* Waterfall: the command pinned as filter, or None
    collapsed,  \* Waterfall: the nodes folded away
    clicks      \* bounds the clicks

run   == <<at, signal, walk, left, moved>>
panel == <<showAll, window, query, collapsed>>
vars  == <<machine, trace, model, run, panel, clicks>>

\* The brush covers [start, start + total); total is at least one unit.
FullWindow == [from |-> model.start, to |-> Max({model.end, model.start + 1})]

Init ==
    /\ \E input \in Inputs : machine = input[1] /\ trace = input[2]
    /\ model = ToModel(trace)
    /\ at = IF machine.initial # Undefined THEN machine.initial ELSE machine.states[1]
    /\ signal = StartSignal
    /\ walk = <<>>
    /\ left = {}
    /\ moved = "none"
    /\ showAll = FALSE
    /\ window = FullWindow
    /\ query = None
    /\ collapsed = {}
    /\ clicks = 0

-----------------------------------------------------------------------------
\* The engine.

CanTake(row) ==
    /\ at \notin machine.terminal
    /\ row.state = at
    /\ row.signal = signal

\* The span of a command bears the name of the command, which for a $tool row
\* is the tool's.
WordsOf(row) == IF row.action = ToolAction THEN Tools ELSE {row.action}

Dispatch(row, command, emitted) ==
    /\ CanTake(row)
    /\ row.action # Undefined
    /\ command \in WordsOf(row)
    /\ Len(walk) < MaxSteps
    /\ at' = row.next
    /\ signal' = emitted
    /\ walk' = Append(walk, [command |-> command, signal |-> emitted])
    /\ left' = IF row.action = ToolAction THEN left ELSE left \cup {row.state}
    /\ moved' = IF row.action = ToolAction THEN "tool" ELSE "word"
    /\ UNCHANGED <<machine, trace, model, panel, clicks>>

\* A row without a command leads to a terminal state.
MoveOnly(row) ==
    /\ CanTake(row)
    /\ row.action = Undefined
    /\ at' = row.next
    /\ moved' = "none"
    /\ UNCHANGED <<machine, trace, model, signal, walk, left, panel, clicks>>

-----------------------------------------------------------------------------
\* The panels' controls.

Reduced == IF showAll THEN machine ELSE HappyPath(machine)

Fold == CollapseChains(Reduced)

Overlay == WalkOverlay(Reduced, Fold, VisitedStates(machine, walk))

FullForest == GroupRootsByService(SpanTree(model.spans))

Matches(span) == query = None \/ span.command = query

Shown ==
    IF query = None
    THEN [matched |-> Len(model.spans)] @@ FullForest
    ELSE FilterTree(FullForest, {n \in DOMAIN FullForest.span : Matches(FullForest.span[n])})

ShownRows == WaterfallRows(Shown, collapsed)

Click ==
    /\ clicks < MaxClicks
    /\ clicks' = clicks + 1
    /\ UNCHANGED <<machine, trace, model, run>>

ToggleStates ==
    /\ Click
    /\ showAll' = ~showAll
    /\ UNCHANGED <<window, query, collapsed>>

\* The start handle stops short of the end handle, and the other way round.
MoveStart(t) ==
    /\ Click
    /\ window' = [window EXCEPT !.from = Min({t, window.to - 1})]
    /\ UNCHANGED <<showAll, query, collapsed>>

MoveEnd(t) ==
    /\ Click
    /\ window' = [window EXCEPT !.to = Max({t, window.from + 1})]
    /\ UNCHANGED <<showAll, query, collapsed>>

\* A command chip pins the filter to its command, and unpins it again.
Pin(command) ==
    /\ Click
    /\ query' = IF query = command THEN None ELSE command
    /\ UNCHANGED <<showAll, window, collapsed>>

Toggle(node) ==
    /\ Click
    /\ collapsed' = IF node \in collapsed THEN collapsed \ {node} ELSE collapsed \cup {node}
    /\ UNCHANGED <<showAll, window, query>>

CollapseToRoots ==
    /\ Click
    /\ collapsed' = {n \in Range(Shown.roots) : Shown.kids[n] # <<>>}
    /\ UNCHANGED <<showAll, window, query>>

Next ==
    \/ \E row \in Rows(machine), emitted \in Signals :
           \E command \in WordsOf(row) : Dispatch(row, command, emitted)
    \/ \E row \in Rows(machine) : MoveOnly(row)
    \/ ToggleStates
    \/ \E t \in FullWindow.from..FullWindow.to : MoveStart(t) \/ MoveEnd(t)
    \/ \E n \in Range(ShownRows) : Shown.span[n].command # None /\ Pin(Shown.span[n].command)
    \/ \E n \in Range(ShownRows) : Shown.kids[n] # <<>> /\ Toggle(n)
    \/ CollapseToRoots

Spec == Init /\ [][Next]_vars

-----------------------------------------------------------------------------

\* collapseChains folds runs that have one way in: the drawn boxes share the
\* states of the reduced machine out among them, and a row that leads into a
\* box from outside leads to the state the box is drawn for.
FoldsAreRuns ==
    LET boxes == Range(Fold.drawn)
        box(s) == DrawnAs(Fold, s)
    IN  /\ \A b, c \in boxes :
             b # c => MembersOf(Reduced, Fold, b) \cap MembersOf(Reduced, Fold, c) = {}
        /\ UNION {MembersOf(Reduced, Fold, b) : b \in boxes} = States(Reduced)
        /\ \A row \in Rows(Reduced) :
             box(row.state) # box(row.next) => box(row.next) = row.next

\* layoutMachine layers the drawn figure by distance: the arrows lead at most
\* one layer down, a state in a lower layer has an arrow from the layer above,
\* and what no arrow reaches stands past all that is reached.
LayersAreDistances ==
    LET figure  == Figure(Reduced, Fold)
        layer   == LayoutMachine(figure)
        reached == DOMAIN Depths(figure)
        past    == States(figure) \ reached
    IN  /\ \A row \in Rows(figure) :
             row.state \in reached => /\ row.next \in reached
                                      /\ layer[row.next] <= layer[row.state] + 1
        /\ \A s \in reached : layer[s] > 0 =>
             \E row \in Rows(figure) : row.next = s /\ layer[row.state] + 1 = layer[s]
        /\ \A s \in past, t \in reached : layer[t] < layer[s]

\* The figure is of the machine: folded and layered, it keeps every state, and
\* shows where each leads.
LayoutIsOfMachine == FoldsAreRuns /\ LayersAreDistances

\* Each row of the machine that names a word names one of its own, and no $tool
\* row runs a word that a row names.
WordsAreOwn ==
    LET named == {r \in Rows(machine) : r.action \notin {Undefined, ToolAction}}
    IN  /\ \A r, q \in named : r.action = q.action => r = q
        /\ (\E r \in Rows(machine) : r.action = ToolAction)
               => Tools \cap {r.action : r \in named} = {}

\* The overlay of a walk (visitedStates, walkOverlay): a box with a state that
\* the run dispatched a declared word out of is marked, and when every row has a
\* word of its own a box is filled only if the run left all the states it
\* stands for in that way.  A state left by a $tool row gets no mark from it: no
\* row names the word its span bears.
OverlayIsEarned ==
    LET earned == left \cup {LayoutInitial(machine)}
        members(box) == MembersOf(Reduced, Fold, box)
    IN  walk # <<>> =>
          /\ \A s \in left \cap States(Reduced) :
               DrawnAs(Fold, s) \in Overlay.visited \cup Overlay.partly
          /\ WordsAreOwn => \A box \in Overlay.visited : members(box) \subseteq earned

\* finalState and activeStage follow the run: while every row has a word of its
\* own and the run's last row dispatched it, the final state drawn is the state
\* the run is in, and the stage opened is a view that shows it.  After a $tool
\* row no final state is drawn, rather than a wrong one.
FiguresFollowRun ==
    WordsAreOwn =>
        /\ moved = "word" =>
             /\ FinalState(machine, walk) = at
             /\ LET stage == ActiveStage(machine, walk)
                IN  stage # Undefined =>
                      \/ at = SharedSink(machine)
                      \/ at \in States(TagView(WithoutSink(machine), stage))
        /\ moved = "tool" => FinalState(machine, walk) = Undefined

\* Whatever was collapsed for the drawing, the figure tells of the words the
\* machine names which the run dispatched, where such a word left it, and nothing
\* the run did not do; what a $tool row ran is not on it.
RunIsDrawnTruly == OverlayIsEarned /\ FiguresFollowRun

\* The waterfall drops no span: whatever is filtered and folded, the rows are
\* distinct, and with the counts shown at the folded rows they account for every
\* node of the tree; unfiltered, those are the spans and the service groups.
WaterfallShowsAll ==
    LET hidden == {n \in Range(ShownRows) : n \in collapsed}
    IN  /\ IsInjective(ShownRows)
        /\ Cardinality(DOMAIN Shown.span) =
             Len(ShownRows) + FoldSet(LAMBDA n, sum : sum + Descendants(Shown, n), 0, hidden)
        /\ query # None =>
             Shown.matched = Cardinality({s \in Range(model.spans) : s.command = query})

\* mergeAdapterDuplicates: "A failed wire call fails the model call it belongs
\* to" -- a failed span of the trace is shown failed, itself or as its parent.
FailuresAreShown ==
    \A s \in Range(trace) : s.failed =>
        \E t \in Range(model.spans) : t.failed /\ t.id \in {s.id, s.parent}

\* The readings of a window agree (Timeline.tsx): the steps share out the spans
\* that start in it, each step holding what started after its anchor and before
\* the next, and so do the agents; the lanes hold every such span that lasts,
\* the sequence every such step; and a hop to another agent is told at both of
\* its ends.
WindowReadingsAgree ==
    LET inWindow == WindowSpans(model, window.from, window.to)
        steps    == StepGroups(model, window.from, window.to)
        lanes    == TimelineLanes(model, window.from, window.to)
        agents   == AgentGroups(model, window.from, window.to)
        members(i) == Range(steps[i].spans)
    IN  /\ UNION {members(i) : i \in DOMAIN steps} = Range(inWindow)
        /\ \A i, j \in DOMAIN steps : i < j =>
             /\ members(i) \cap members(j) = {}
             /\ \A s \in members(i), t \in members(j) : s.start <= t.start
        /\ \A s \in Range(inWindow) : s.duration > 0 =>
             /\ \E lane \in lanes : ~lane.external /\ lane.name = s.service
                                    /\ s \in Range(lane.spans)
             /\ s.command # None =>
                  s \in Range(TimelineSequence(model, window.from, window.to))
        /\ UNION {Range(g.spans) : g \in agents} = Range(inWindow)
        /\ \A g, h \in agents : g # h => Range(g.spans) \cap Range(h.spans) = {}
        /\ \A s, t \in Range(model.spans) :
             [direction |-> "sent", span |-> t.id] \in Continuations(s, model.spans)
                 <=> [direction |-> "received", span |-> s.id] \in Continuations(t, model.spans)

\* traceRootService: pod clocks skew, yet the earliest request of the trace is
\* the story's input, and no request of another service is.
EntryIsInput ==
    LET requests == SelectSeq(model.spans, LAMBDA s : s.name \in RequestNames)
    IN  \A i \in DOMAIN requests :
          (SpanCategory(requests[i], model) = "input")
              <=> requests[i].service = requests[1].service

\* The span tree, the fold of adapter duplicates and the categories lose and
\* misplace nothing of the trace.
TraceIsShownWhole == WaterfallShowsAll /\ FailuresAreShown /\ EntryIsInput

=============================================================================
