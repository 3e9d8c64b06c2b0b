--------------------------- MODULE MachineFigure ---------------------------
(***************************************************************************)
(* The figure of a declared machine: what the machine panels of the UI     *)
(* draw from the declaration an agent's monitor serves, and how the        *)
(* commands a turn ran are laid over it.  The panel is pure: everything    *)
(* here is a function of the machine and of the walk.                      *)
(*                                                                         *)
(* A machine is a record                                                   *)
(*   states   : the declared names, in declaration order                   *)
(*   initial  : the initial state, or Undefined                            *)
(*   terminal : the set of terminal states                                 *)
(*   rows     : the transitions in order, records [state, signal, next,    *)
(*              action], the action Undefined when the row dispatches none *)
(*   views    : the declared view tags in order                            *)
(*   tags     : the sequence of tags each state carries                    *)
(* A walk is the sequence of [command, signal] steps of one service.  A    *)
(* box of a folded figure is named by the state it is drawn for: the code  *)
(* adds " +n" to the label, which the name determines.                     *)
(***************************************************************************)
EXTENDS Naturals, Sequences, FiniteSets, SequencesExt, FiniteSetsExt

CONSTANTS
    Undefined,      \* a JavaScript undefined
    FailureSignals  \* the signals DEGRADATION_SIGNAL matches

ASSUME UndefinedAssumption == Undefined \notin FailureSignals

States(m) == Range(m.states)
Rows(m)   == Range(m.rows)

(***************************************************************************)
(* machineCollapse.ts: the failure edges hidden.                           *)
(***************************************************************************)
IsForward(row) == row.signal \notin FailureSignals

HappyPath(m) ==
    LET kept    == SelectSeq(m.rows, IsForward)
        touched == UNION {{row.state, row.next} : row \in Range(kept)}
        stays(s) == s = m.states[1] \/ s \in touched
    IN  [m EXCEPT !.states   = SelectSeq(@, stays),
                  !.terminal = {s \in @ : s \in States(m) /\ stays(s)},
                  !.rows     = kept]

(***************************************************************************)
(* machineCollapse.ts: runs of states folded into their heads.  Outgoing   *)
(* and incoming rows are counted with their multiplicity.                  *)
(***************************************************************************)
Outgoing(m, s) == SelectSeq(m.rows, LAMBDA row : row.state = s)
Incoming(m, s) == SelectSeq(m.rows, LAMBDA row : row.next = s)

\* Mutant: a state with several ways in is folded as well.
AbsorbableJoins(m, s) ==
    /\ s \in States(m) \ ({m.states[1]} \cup m.terminal)
    /\ Len(Outgoing(m, s)) = 1
    /\ Incoming(m, s) # <<>> /\ Incoming(m, s)[1].state # s
    /\ Outgoing(m, s)[1].next # s

Absorbable(m, s) ==
    /\ s \in States(m) \ ({m.states[1]} \cup m.terminal)
    /\ Len(Incoming(m, s)) = 1
    /\ Len(Outgoing(m, s)) = 1
    /\ Incoming(m, s)[1].state # s
    /\ Outgoing(m, s)[1].next # s

\* The state the first declared row of s leads to.
FirstNext(m, s) ==
    IF s \in States(m) /\ Outgoing(m, s) # <<>> THEN Outgoing(m, s)[1].next
                                                ELSE Undefined

\* The states head swallows, given those already absorbed: the walk along the
\* first rows stops at a state that is not absorbable or is already taken.
Swallowed(m, taken, head) ==
    LET n == Len(m.states)
        cursor[k \in 0..n] == IF k = 0 THEN head ELSE FirstNext(m, cursor[k - 1])
        free(k) == /\ Absorbable(m, cursor[k])
                   /\ cursor[k] \notin taken \cup {cursor[j] : j \in 1..(k - 1)}
        length  == Max({k \in 0..n : \A j \in 1..k : free(j)})
    IN  {cursor[k] : k \in 1..length}

\* The fold: the states drawn in order, and the head of each absorbed state.
CollapseChains(m) ==
    FoldLeft(LAMBDA fold, s :
                 IF s \in DOMAIN fold.by THEN fold
                 ELSE LET links == Swallowed(m, DOMAIN fold.by, s)
                      IN  [drawn |-> Append(fold.drawn, s),
                           by    |-> [x \in links |-> s] @@ fold.by],
             [drawn |-> <<>>, by |-> [x \in {} |-> Undefined]],
             m.states)

DrawnAs(fold, s) == IF s \in DOMAIN fold.by THEN fold.by[s] ELSE s

\* The declared states a drawn box stands for; a box no state is drawn as
\* stands for itself.
MembersOf(m, fold, box) ==
    LET members == {s \in States(m) : DrawnAs(fold, s) = box}
    IN  IF members = {} THEN {box} ELSE members

\* The folded figure, a machine without words: the links inside a box are
\* dropped, and rows that draw the same arrow are drawn once.
Figure(m, fold) ==
    LET isLink(row) == /\ DrawnAs(fold, row.state) = DrawnAs(fold, row.next)
                       /\ row.next \in DOMAIN fold.by
        arrow(row)  == [state |-> DrawnAs(fold, row.state), signal |-> row.signal,
                        next  |-> DrawnAs(fold, row.next)]
    IN  [states   |-> fold.drawn,
         initial  |-> IF m.initial = Undefined THEN Undefined ELSE DrawnAs(fold, m.initial),
         terminal |-> m.terminal \cap Range(fold.drawn),
         rows     |-> FoldLeft(LAMBDA arrows, row :
                                  IF isLink(row) \/ arrow(row) \in Range(arrows)
                                  THEN arrows ELSE Append(arrows, arrow(row)),
                               <<>>, m.rows)]

(***************************************************************************)
(* machineLayout.ts: the layer of each state.  Depths are relaxed over the *)
(* rows, in order, at most one pass per declared state.                    *)
(***************************************************************************)
LayoutInitial(m) == IF m.initial \in States(m) THEN m.initial ELSE m.states[1]

\* Mutant: the first depth found for a state stands.
RelaxOnce(depth, row) ==
    IF row.state \in DOMAIN depth /\ row.next \notin DOMAIN depth
    THEN (row.next :> depth[row.state] + 1) @@ depth
    ELSE depth

Relax(depth, row) ==
    IF /\ row.state \in DOMAIN depth
       /\ row.next \notin DOMAIN depth \/ depth[row.state] + 1 < depth[row.next]
    THEN (row.next :> depth[row.state] + 1) @@ depth
    ELSE depth

Depths(m) ==
    LET pass[k \in 0..Len(m.states)] ==
            IF k = 0 THEN LayoutInitial(m) :> 0
                     ELSE FoldLeft(Relax, pass[k - 1], m.rows)
    IN  pass[Len(m.states)]

\* A state no row reaches stands in a layer of its own past the rest.
LayoutMachine(m) ==
    LET depth == Depths(m)
        past  == Max(Range(depth)) + 1
    IN  [s \in States(m) |-> IF s \in DOMAIN depth THEN depth[s] ELSE past]

(***************************************************************************)
(* machineViews.ts: the walk joined with the declaration.                  *)
(***************************************************************************)
Commands(walk) == {step.command : step \in Range(walk)}

DispatchedWords(m) == {row.action : row \in Rows(m)} \ {Undefined}

VisitedStates(m, walk) ==
    IF walk = <<>> THEN {}
    ELSE {row.state : row \in {r \in Rows(m) : r.action \in Commands(walk)}}
         \cup {IF m.initial # Undefined THEN m.initial ELSE m.states[1]}

\* Where the walk left the machine, as the figure reports it.
FinalState(m, walk) ==
    IF walk = <<>> THEN Undefined
    ELSE LET last    == Last(walk)
             ran     == SelectSeq(m.rows, LAMBDA r : r.action = last.command)
             exactly == SelectSeq(ran, LAMBDA r : r.signal = last.signal)
         IN  IF exactly # <<>> THEN exactly[1].next
             ELSE IF ran # <<>> THEN ran[1].next ELSE Undefined

\* Mutant: one member walked fills the box.
WalkOverlayAny(m, fold, walked) ==
    LET filled == {box \in Range(fold.drawn) : MembersOf(m, fold, box) \cap walked # {}}
    IN  [visited |-> filled, partly |-> {}]

\* The fill of the folded figure: a box is walked when all its members were.
WalkOverlay(m, fold, walked) ==
    LET ran(box)  == MembersOf(m, fold, box) \cap walked
        boxes     == Range(fold.drawn)
        filled    == {box \in boxes : MembersOf(m, fold, box) \subseteq walked}
    IN  [visited |-> filled,
         partly  |-> {box \in boxes \ filled : ran(box) # {}}]

(***************************************************************************)
(* machineTags.ts: the machine cut along its view tags.                    *)
(***************************************************************************)
Carries(m, s, tag) == tag \in Range(m.tags[s])

TagView(m, tag) ==
    LET states == SelectSeq(m.states, LAMBDA s : Carries(m, s, tag))
        inView(row) == {row.state, row.next} \subseteq Range(states)
        rows   == SelectSeq(m.rows, inView)
    IN  [states   |-> states,
         initial  |-> IF states = <<>> THEN Undefined ELSE states[1],
         terminal |-> Range(states) \ {row.state : row \in Range(rows)},
         rows     |-> rows]

SharedSink(m) ==
    LET everywhere == {s \in States(m) : \A tag \in Range(m.views) : Carries(m, s, tag)}
    IN  IF Len(m.views) >= 2 /\ Cardinality(everywhere) = 1
        THEN CHOOSE s \in everywhere : TRUE ELSE Undefined

WithoutSink(m) ==
    LET sink == SharedSink(m)
    IN  IF sink = Undefined THEN m
        ELSE [m EXCEPT !.states   = SelectSeq(@, LAMBDA s : s # sink),
                       !.terminal = @ \ {sink},
                       !.rows     = SelectSeq(@, LAMBDA r : sink \notin {r.state, r.next})]

\* The first tag of the state the last declared command of the walk led to;
\* of two rows with one word the later declared counts.
ActiveStage(m, walk) ==
    LET known == SelectSeq(walk, LAMBDA step : step.command \in DispatchedWords(m))
        reached == Last(SelectSeq(m.rows, LAMBDA r : r.action = Last(known).command)).next
    IN  IF m.views = <<>> \/ known = <<>> THEN Undefined
        ELSE IF m.tags[reached] = <<>> THEN Undefined ELSE m.tags[reached][1]

=============================================================================
