---------------------------- MODULE DocsWorkbench ----------------------------
(***************************************************************************)
(* The documentation curator's workbench (Documentation.tsx, apiClient.ts):*)
(* one page that reads the document index, shows the document the URL      *)
(* selects, opens files over it, and lets the operator validate the        *)
(* document, ask for a patch and decide on it.                             *)
(*                                                                         *)
(* A document read carries no mark of the selection it was made for: its   *)
(* answer is shown whenever it comes.  The curator panel below a document  *)
(* keeps its state for as long as the page keeps drawing a document, so it *)
(* is numbered by the drawing it belongs to, and an answer for one that is *)
(* gone sets nothing.                                                      *)
(***************************************************************************)
EXTENDS DocumentIndex

CONSTANTS
    Index,       \* the entries of the document index, in its order
    Contents,    \* what the curator may serve of each document: [path -> contents]
    ShownOf(_, _), \* the texts the page shows of a document (DocumentView)
    StateDiagram, \* presentation.state_diagram of the UX declaration is not false
    None,
    MaxMoves,    \* bound: navigations of a behaviour
    MaxCalls,    \* bound: curator calls of a behaviour
    MaxReads     \* bound: reads of a machine definition

Docs == {Index[i].path : i \in DOMAIN Index}
Verdicts == {"approve", "reject"}
CallKinds == {"validate", "suggest"} \cup Verdicts
CallAnswers == {"data", "empty", "failed"}

ASSUME DocsAssumption ==
    None \notin Docs \cup CallKinds /\ DOMAIN Contents = Docs /\ StateDiagram \in BOOLEAN
ASSUME BoundsAssumption == MaxMoves \in Nat /\ MaxCalls \in Nat /\ MaxReads \in Nat

VARIABLES
    ux,        \* the module's one read of the UX declaration: pending, ok, failed
    index,     \* the document index: pending, ok, failed
    selected,  \* the document the URL names, or None
    detail,    \* the document shown [path, content], or None
    loading,   \* detailLoading
    reads,     \* document reads in flight [n, doc]
    moves,     \* navigations so far; numbers the reads
    panel,     \* the curator panel: number, validation, suggestion, decision, busy
    calls,     \* curator calls in flight [panel, kind, doc, patch]
    made,      \* curator calls so far; numbers the patches
    decided,   \* decisions the curator recorded [patch, kind], in order
    toggle,    \* the diagram's second tab: number, definition, loading; or None
    opens,     \* toggles drawn so far, which number them
    fetches,   \* definitions being read [toggle, doc]
    fetched,   \* definition reads so far
    raced,     \* history: a navigation began while a document was being read
    lost       \* history: the last document read failed

pageVars   == <<selected, detail, loading, reads, moves, raced, lost>>
panelVars  == <<panel, calls, made, decided>>
toggleVars == <<toggle, opens, fetches, fetched>>
vars == <<ux, index, pageVars, panelVars, toggleVars>>

Fresh(n) == [number |-> n, validation |-> None, suggestion |-> None, decision |-> None,
             busy |-> None]

Init ==
    /\ ux = "pending" /\ index = "pending"
    /\ selected \in Docs \cup {None}
    /\ detail = None
    /\ loading = (selected # None)
    /\ reads = IF selected = None THEN {} ELSE {[n |-> 0, doc |-> selected]}
    /\ moves = 0
    /\ panel = Fresh(0)
    /\ calls = {} /\ made = 0 /\ decided = <<>>
    /\ toggle = None /\ opens = 0 /\ fetches = {} /\ fetched = 0
    /\ raced = FALSE /\ lost = FALSE

-----------------------------------------------------------------------------
\* The declaration is read once; a failure is kept like an answer, and every
\* read that goes through a declared route fails with it.
AnswerUX(ok) ==
    /\ ux = "pending"
    /\ ux' = IF ok THEN "ok" ELSE "failed"
    /\ UNCHANGED <<index, pageVars, panelVars, toggleVars>>

\* What a read through a declared route can yield.
CanYield(ok) == ux # "pending" /\ (ok => ux = "ok")

-----------------------------------------------------------------------------
\* What is drawn of the page.

DrawnWith(i, d, l) == i = "ok" /\ d # None /\ ~l

Drawn == DrawnWith(index, detail, loading)

\* Mutant: the panel outlives the document it was drawn for.
PanelKept(drawn) == panel

\* React keeps the panel while a document stays drawn and mounts a new one when
\* one is drawn again, whichever document it is.
PanelOver(drawn) ==
    IF Drawn /\ drawn THEN panel
    ELSE IF drawn THEN Fresh(panel.number + 1)
    ELSE Fresh(panel.number)

HasToggle(i, d, l) ==
    /\ DrawnWith(i, d, l)
    /\ StateDiagram
    /\ HasStateDiagram(d.content)
    /\ HasMachine(d.content, IsSemanticModel(Index, d.path))

\* The same for the diagram's tabs, which only some documents have.
DrawToggle(i, d, l) ==
    IF ~HasToggle(i, d, l) THEN toggle' = None /\ UNCHANGED opens
    ELSE IF toggle # None THEN UNCHANGED <<toggle, opens>>
    ELSE /\ opens' = opens + 1
         /\ toggle' = [number |-> opens + 1, definition |-> None, loading |-> FALSE]

Redraw ==
    /\ panel' = PanelOver(DrawnWith(index', detail', loading'))
    /\ DrawToggle(index', detail', loading')
    /\ UNCHANGED <<calls, made, decided, fetches, fetched>>

-----------------------------------------------------------------------------
\* The page.

AnswerIndex(ok) ==
    /\ index = "pending"
    /\ CanYield(ok)
    /\ index' = IF ok THEN "ok" ELSE "failed"
    /\ UNCHANGED <<ux, pageVars>>
    /\ Redraw

\* Mutant: the page goes on drawing the document while the next one is read.
NavigateInPlace(d) ==
    /\ moves < MaxMoves
    /\ d # selected
    /\ selected' = d
    /\ moves' = moves + 1
    /\ raced' = (raced \/ reads # {})
    /\ detail' = IF d = None THEN None ELSE detail
    /\ reads' = IF d = None THEN reads ELSE reads \cup {[n |-> moves', doc |-> d]}
    /\ UNCHANGED <<ux, index, loading, lost>>
    /\ Redraw

\* The URL changes.  The document read before is not given up.
Navigate(d) ==
    /\ moves < MaxMoves
    /\ d # selected
    /\ selected' = d
    /\ moves' = moves + 1
    /\ raced' = (raced \/ reads # {})
    /\ IF d = None
       THEN detail' = None /\ UNCHANGED <<loading, reads>>
       ELSE /\ loading' = TRUE
            /\ reads' = reads \cup {[n |-> moves', doc |-> d]}
            /\ UNCHANGED detail
    /\ UNCHANGED <<ux, index, lost>>
    /\ Redraw

\* A sidebar entry (once the index is shown), or the browser's back and forward.
Visit(d) == (index = "ok" \/ moves > 0) /\ Navigate(d)

\* A card of the welcome page opens the first document of its category.
OpenCard(category) ==
    /\ index = "ok" /\ selected = None
    /\ Grouped(Index, category) # <<>>
    /\ Navigate(Grouped(Index, category)[1].path)

\* A text of the drawn document links to the document its name leads to.
FollowLink(d) ==
    /\ Drawn
    /\ \E t \in ShownOf(detail.content, IsSemanticModel(Index, detail.path)) :
          d \in LinksIn(t, Index)
    /\ Navigate(d)

\* Mutant: a failure leaves the page loading.
AnswerDocAndHang(r, ok) ==
    /\ CanYield(ok)
    /\ IF ok THEN \E c \in Contents[r.doc] : detail' = [path |-> r.doc, content |-> c]
       ELSE UNCHANGED detail
    /\ lost' = ~ok
    /\ loading' = (loading /\ ~ok)
    /\ reads' = reads \ {r}
    /\ UNCHANGED <<ux, index, selected, moves, raced>>
    /\ Redraw

\* A document's answer, whichever document is selected by now; a failure leaves
\* the document shown before.
AnswerDoc(r, ok) ==
    /\ CanYield(ok)
    /\ IF ok THEN \E c \in Contents[r.doc] : detail' = [path |-> r.doc, content |-> c]
       ELSE UNCHANGED detail
    /\ lost' = ~ok
    /\ loading' = FALSE
    /\ reads' = reads \ {r}
    /\ UNCHANGED <<ux, index, selected, moves, raced>>
    /\ Redraw

-----------------------------------------------------------------------------
\* The curator panel: one call at a time.

CallCurator(kind, patch) ==
    /\ Drawn /\ made < MaxCalls
    /\ made' = made + 1
    /\ calls' = calls \cup {[panel |-> panel.number, kind |-> kind, doc |-> detail.path,
                             patch |-> patch]}
    /\ panel' = [panel EXCEPT !.busy = kind]
    /\ UNCHANGED <<ux, index, pageVars, decided, toggleVars>>

Idle == panel.busy = None

runValidation == Idle /\ CallCurator("validate", 0)

createSuggestion == Idle /\ CallCurator("suggest", made + 1)

decide(kind) ==
    /\ Idle /\ panel.suggestion # None
    /\ CallCurator(kind, panel.suggestion.patch)

\* What an answer makes of the panel.  An answer without data is no failure: what
\* the panel showed in its place goes away.
Answered(c, empty) ==
    LET given(v) == IF empty THEN None ELSE v
    IN CASE c.kind = "validate" -> [panel EXCEPT !.busy = None, !.validation = given(c.doc)]
         [] c.kind = "suggest"  ->
              [panel EXCEPT !.busy = None, !.decision = None,
                            !.suggestion = given([patch |-> c.patch, doc |-> c.doc])]
         [] OTHER ->
              [panel EXCEPT !.busy = None,
                            !.decision = given([patch |-> c.patch, kind |-> c.kind])]

\* The curator's answer: it may have done the work and the answer be lost, and
\* the panel that asked may be gone.
AnswerCall(c, done, answer) ==
    /\ answer = "data" => done
    /\ calls' = calls \ {c}
    /\ decided' = IF done /\ c.kind \in Verdicts
                  THEN Append(decided, [patch |-> c.patch, kind |-> c.kind]) ELSE decided
    /\ panel' = IF ~Drawn \/ c.panel # panel.number THEN panel
                ELSE IF answer # "failed" THEN Answered(c, answer = "empty")
                ELSE [panel EXCEPT !.busy = None]
    /\ UNCHANGED <<ux, index, pageVars, made, toggleVars>>

-----------------------------------------------------------------------------
\* The diagram's second tab reads the machine's definition until it has one.

ShowDefinition ==
    /\ toggle # None /\ toggle.definition = None /\ fetched < MaxReads
    /\ fetched' = fetched + 1
    /\ fetches' = fetches \cup {[n |-> fetched', toggle |-> toggle.number, doc |-> detail.path]}
    /\ toggle' = [toggle EXCEPT !.loading = TRUE]
    /\ UNCHANGED <<ux, index, pageVars, panelVars, opens>>

AnswerDefinition(f, ok) ==
    /\ fetches' = fetches \ {f}
    /\ toggle' = IF toggle = None \/ f.toggle # toggle.number THEN toggle
                 ELSE [toggle EXCEPT !.loading = FALSE,
                                     !.definition = IF ok THEN f.doc ELSE @]
    /\ UNCHANGED <<ux, index, pageVars, panelVars, opens, fetched>>

-----------------------------------------------------------------------------
Answers ==
    \/ \E ok \in BOOLEAN : AnswerUX(ok) \/ AnswerIndex(ok)
    \/ \E r \in reads, ok \in BOOLEAN : AnswerDoc(r, ok)
    \/ \E c \in calls, done \in BOOLEAN, answer \in CallAnswers : AnswerCall(c, done, answer)
    \/ \E f \in fetches, ok \in BOOLEAN : AnswerDefinition(f, ok)

Operator ==
    \/ \E d \in Docs \cup {None} : Visit(d)
    \/ \E d \in Docs : FollowLink(d)
    \/ \E i \in DOMAIN Index : OpenCard(Index[i].category)
    \/ runValidation \/ createSuggestion
    \/ \E kind \in Verdicts : decide(kind)
    \/ ShowDefinition

Next == Answers \/ Operator

\* A fetch settles: the browser resolves or rejects it.  The operator owes nothing.
Spec == Init /\ [][Next]_vars /\ WF_vars(Answers)

-----------------------------------------------------------------------------

\* The document shown is the one the URL selects, unless its read failed or the
\* operator moved on while a document was still being read.
ShownIsSelected ==
    Drawn /\ ~raced /\ ~lost => detail.path = selected

\* What the curator said, and the machine definition, are of the document they
\* stand under, under the same condition.
ReportsAreOfDocument ==
    Drawn /\ ~raced /\ ~lost =>
        /\ panel.validation \in {None, detail.path}
        /\ panel.suggestion # None => panel.suggestion.doc = detail.path
        /\ toggle # None => toggle.definition \in {None, detail.path}

\* The decision shown beside a suggestion is a decision on that suggestion.
DecisionIsOfSuggestion ==
    panel.decision # None =>
        /\ panel.suggestion # None
        /\ panel.decision.patch = panel.suggestion.patch

\* The panel has one call out at most, and says it is busy exactly while it has.
OneCallAtATime ==
    Drawn => LET mine == {c \in calls : c.panel = panel.number}
             IN /\ Cardinality(mine) <= 1
                /\ panel.busy # None <=> mine # {}

\* The panel under a document is that document's, its decision is on the
\* suggestion it stands beside, and one call at a time can change it.
PanelIsOfDocument == ReportsAreOfDocument /\ DecisionIsOfSuggestion /\ OneCallAtATime

\* The page stops loading, and unless a read failed or was overtaken it then
\* shows the document selected.
PageSettles ==
    <>[](/\ ~loading
         /\ selected # None /\ index = "ok" /\ ~raced /\ ~lost =>
               detail # None /\ detail.path = selected)

=============================================================================
