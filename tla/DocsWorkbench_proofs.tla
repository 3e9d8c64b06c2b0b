------------------------ MODULE DocsWorkbench_proofs ------------------------
(***************************************************************************)
(* Proofs about DocsWorkbench for every index, every content the curator   *)
(* may serve and every way of drawing it: the document shown is the one    *)
(* selected, and the panel and the tab below it are that document's.       *)
(***************************************************************************)
EXTENDS DocsWorkbench, FiniteSetTheorems, TLAPS

-----------------------------------------------------------------------------
(* The inductive invariant.  Until a navigation overtakes a read:           *)

(* one document at most is being read, the selected one, and the page is    *)
(* loading exactly while it is;                                             *)
ReadsSelected ==
    ~raced =>
        /\ \A r \in reads : r.doc = selected
        /\ \A r, q \in reads : r = q
        /\ loading <=> reads # {}

(* with no read out, the document shown is the selected one, or the last    *)
(* read failed;                                                             *)
ShowsSelected ==
    ~raced /\ ~lost /\ ~loading /\ detail # None => detail.path = selected

(* Numbers: no call and no read of a definition is of a panel or a tab that *)
(* is still to come, and a tab is only there while its document is drawn.   *)
PanelShape ==
    /\ panel = [number |-> panel.number, validation |-> panel.validation,
                suggestion |-> panel.suggestion, decision |-> panel.decision,
                busy |-> panel.busy]
    /\ panel.number \in Nat

PanelNumbers == \A c \in calls : c.panel \in Nat /\ c.panel <= panel.number

ToggleNumbers ==
    /\ opens \in Nat
    /\ toggle # None =>
           toggle = [number |-> toggle.number, definition |-> toggle.definition,
                     loading |-> toggle.loading]
    /\ \A f \in fetches : f.toggle \in Nat /\ f.toggle <= opens
    /\ toggle # None => Drawn /\ toggle.number \in Nat /\ toggle.number <= opens

(* The calls of the panel that is drawn.                                    *)
Mine == {c \in calls : c.panel = panel.number}

(* What the panel and the tab wait for, and what they hold, is of the       *)
(* document drawn;                                                          *)
PanelOfDocument ==
    ~raced /\ Drawn =>
        /\ \A c \in Mine : c.doc = detail.path
        /\ panel.validation \in {None, detail.path}
        /\ panel.suggestion # None => panel.suggestion.doc = detail.path

ToggleOfDocument ==
    ~raced /\ toggle # None =>
        /\ \A f \in fetches : f.toggle = toggle.number => f.doc = detail.path
        /\ toggle.definition \in {None, detail.path}

(* and, raced or not, a call for a decision is on the suggestion that       *)
(* stands, which no other call can change meanwhile.                        *)
OneCall ==
    Drawn => /\ \A c, d \in Mine : c = d
             /\ panel.busy # None <=> Mine # {}

DecisionsAsked ==
    Drawn => \A c \in Mine :
                 c.kind \notin {"validate", "suggest"} =>
                     panel.suggestion # None /\ panel.suggestion.patch = c.patch

PageInv == ReadsSelected /\ ShowsSelected
CallsInv == PanelShape /\ PanelNumbers /\ OneCall /\ DecisionsAsked /\ DecisionIsOfSuggestion
OwnInv == ToggleNumbers /\ PanelOfDocument /\ ToggleOfDocument

WorkbenchInv == PageInv /\ CallsInv /\ OwnInv

-----------------------------------------------------------------------------
(* The steps, as the proofs take them.                                      *)

Asks(kind, patch) ==
    /\ Idle /\ CallCurator(kind, patch)
    /\ kind \in CallKinds
    /\ kind \notin {"validate", "suggest"} =>
           panel.suggestion # None /\ patch = panel.suggestion.patch

LEMMA Steps ==
    ASSUME [Next]_vars
    PROVE  \/ UNCHANGED vars
           \/ \E ok \in BOOLEAN : AnswerUX(ok) \/ AnswerIndex(ok)
           \/ \E r \in reads, ok \in BOOLEAN : AnswerDoc(r, ok)
           \/ \E c \in calls, done \in BOOLEAN, answer \in CallAnswers : AnswerCall(c, done, answer)
           \/ \E f \in fetches, ok \in BOOLEAN : AnswerDefinition(f, ok)
           \/ \E d : Navigate(d)
           \/ \E kind, patch : Asks(kind, patch)
           \/ ShowDefinition
<1>1. CASE UNCHANGED vars
  BY <1>1
<1>2. CASE Answers
  BY <1>2, Zenon DEF Answers
<1>3. CASE Operator
  <2>1. CASE \/ \E d \in Docs \cup {None} : Visit(d)
             \/ \E d \in Docs : FollowLink(d)
             \/ \E i \in DOMAIN Index : OpenCard(Index[i].category)
    BY <2>1, Zenon DEF Visit, FollowLink, OpenCard
  <2>2. CASE runValidation
    BY <2>2 DEF runValidation, Asks, CallKinds
  <2>3. CASE createSuggestion
    BY <2>3 DEF createSuggestion, Asks, CallKinds
  <2>4. ASSUME NEW kind \in Verdicts, decide(kind) PROVE \E k, patch : Asks(k, patch)
    BY <2>4 DEF decide, Asks, CallKinds
  <2>5. CASE ShowDefinition
    BY <2>5
  <2> QED
    BY <1>3, <2>1, <2>2, <2>3, <2>4, <2>5 DEF Operator
<1> QED
  BY <1>1, <1>2, <1>3 DEF Next

-----------------------------------------------------------------------------
(* The page. *)

LEMMA PageInit == Init => PageInv
<1> SUFFICES ASSUME Init PROVE PageInv
  OBVIOUS
<1>0. /\ loading <=> selected # None
      /\ selected = None => reads = {}
      /\ selected # None => reads = {[n |-> 0, doc |-> selected]}
      /\ detail = None
  BY Zenon DEF Init
<1>1. ReadsSelected
  <2>1. CASE selected = None
    BY <1>0, <2>1 DEF ReadsSelected
  <2>2. CASE selected # None
    <3> DEFINE read == [n |-> 0, doc |-> selected]
    <3>1. read.doc = selected
      OBVIOUS
    <3>2. loading /\ reads = {read}
      BY <1>0, <2>2
    <3> HIDE DEF read
    <3> QED
      BY <3>1, <3>2 DEF ReadsSelected
  <2> QED
    BY <2>1, <2>2
<1>2. ShowsSelected
  BY <1>0 DEF ShowsSelected
<1> QED
  BY <1>1, <1>2 DEF PageInv

LEMMA PageStep == PageInv /\ [Next]_vars => PageInv'
<1> SUFFICES ASSUME PageInv, [Next]_vars PROVE PageInv'
  OBVIOUS
<1>0. ReadsSelected /\ ShowsSelected
  BY DEF PageInv
<1>1. CASE UNCHANGED pageVars
  BY <1>0, <1>1 DEF pageVars, PageInv, ReadsSelected, ShowsSelected
<1>2. ASSUME NEW r \in reads, NEW ok \in BOOLEAN, AnswerDoc(r, ok) PROVE PageInv'
  <2>1. /\ reads' = reads \ {r} /\ selected' = selected /\ raced' = raced
        /\ ~loading'
        /\ lost' <=> ~ok
        /\ ok => detail'.path = r.doc
    <3>1. /\ reads' = reads \ {r} /\ selected' = selected /\ raced' = raced
          /\ ~loading'
          /\ lost' <=> ~ok
      BY <1>2, Zenon DEF AnswerDoc
    <3>2. ok => \E c \in Contents[r.doc] : detail' = [path |-> r.doc, content |-> c]
      BY <1>2, Zenon DEF AnswerDoc
    <3> QED
      BY <3>1, <3>2
  <2>2. ReadsSelected'
    BY <1>0, <2>1 DEF ReadsSelected
  <2>3. ShowsSelected'
    BY <1>0, <2>1 DEF ReadsSelected, ShowsSelected
  <2> QED
    BY <2>2, <2>3 DEF PageInv
<1>3. ASSUME NEW d, Navigate(d) PROVE PageInv'
  <2>1. /\ selected' = d /\ lost' = lost
        /\ ~raced' => ~raced /\ reads = {}
        /\ d = None => detail' = None /\ (loading' <=> loading) /\ reads' = reads
        /\ d # None => loading' /\ reads' = reads \cup {[n |-> moves', doc |-> d]}
    BY <1>3, Zenon DEF Navigate
  <2>2. ReadsSelected'
    <3> SUFFICES ASSUME ~raced' PROVE ReadsSelected'
      BY DEF ReadsSelected
    <3>1. ~raced /\ reads = {} /\ ~loading
      BY <1>0, <2>1 DEF ReadsSelected
    <3>2. CASE d = None
      BY <2>1, <3>1, <3>2 DEF ReadsSelected
    <3>3. CASE d # None
      <4> DEFINE read == [n |-> moves', doc |-> d]
      <4>1. read.doc = d
        OBVIOUS
      <4>2. loading' /\ reads' = {read}
        BY <2>1, <3>1, <3>3
      <4> HIDE DEF read
      <4> QED
        BY <2>1, <4>1, <4>2 DEF ReadsSelected
    <3> QED
      BY <3>2, <3>3
  <2>3. ShowsSelected'
    BY <2>1 DEF ShowsSelected
  <2> QED
    BY <2>2, <2>3 DEF PageInv
<1>4. \/ UNCHANGED pageVars
      \/ \E r \in reads, ok \in BOOLEAN : AnswerDoc(r, ok)
      \/ \E d : Navigate(d)
  BY Steps, Zenon DEF vars, AnswerUX, AnswerIndex, AnswerCall, AnswerDefinition, Asks, CallCurator,
     ShowDefinition
<1> QED
  BY <1>1, <1>2, <1>3, <1>4

-----------------------------------------------------------------------------
(* The panel. *)

LEMMA CallsInit == Init => CallsInv
<1> SUFFICES ASSUME Init PROVE CallsInv
  OBVIOUS
<1>1. panel = Fresh(0) /\ calls = {} /\ ~Drawn /\ toggle = None
  BY DEF Init, Drawn, DrawnWith
<1>2. PanelShape
  BY <1>1 DEF PanelShape, Fresh
<1>3. PanelNumbers /\ OneCall /\ DecisionsAsked /\ DecisionIsOfSuggestion
  BY <1>1 DEF PanelNumbers, OneCall, DecisionsAsked, DecisionIsOfSuggestion, Fresh
<1> QED
  BY <1>2, <1>3 DEF CallsInv

(* What drawing the page again makes of the panel and the tab.              *)
LEMMA Redrawn ==
    ASSUME Redraw
    PROVE  /\ Drawn /\ Drawn' => panel' = panel
           /\ ~Drawn /\ Drawn' => panel' = Fresh(panel.number + 1)
           /\ ~Drawn' => panel' = Fresh(panel.number)
           /\ toggle' # None => Drawn'
           /\ \/ toggle' = None /\ opens' = opens
              \/ toggle # None /\ toggle' = toggle /\ opens' = opens
              \/ /\ opens' = opens + 1
                 /\ toggle' = [number |-> opens + 1, definition |-> None, loading |-> FALSE]
           /\ calls' = calls /\ fetches' = fetches
<1>1. DrawnWith(index', detail', loading') <=> Drawn'
  BY DEF Drawn, DrawnWith
<1>2. panel' = IF Drawn /\ Drawn' THEN panel
               ELSE IF Drawn' THEN Fresh(panel.number + 1) ELSE Fresh(panel.number)
  BY <1>1 DEF Redraw, PanelOver
<1>3. DrawToggle(index', detail', loading')
  BY DEF Redraw
<1>4. HasToggle(index', detail', loading') => Drawn'
  BY <1>1 DEF HasToggle
<1> QED
  BY <1>2, <1>3, <1>4 DEF DrawToggle, Redraw

LEMMA RedrawCalls ==
    ASSUME CallsInv, Redraw
    PROVE  CallsInv'
<1>0. PanelShape /\ PanelNumbers /\ OneCall /\ DecisionsAsked /\ DecisionIsOfSuggestion
  BY DEF CallsInv
<1>1. PanelShape'
  BY <1>0, Redrawn DEF PanelShape, Fresh
<1>2. CASE panel' = panel /\ Drawn
  BY <1>0, <1>1, <1>2, Redrawn
     DEF CallsInv, PanelNumbers, OneCall, DecisionsAsked, DecisionIsOfSuggestion, Mine
<1>3. CASE Drawn' /\ panel' = Fresh(panel.number + 1)
  <2>1. Mine' = {} /\ PanelNumbers'
    BY <1>0, <1>3, Redrawn DEF PanelNumbers, Mine, Fresh, PanelShape
  <2> QED
    BY <1>1, <1>3, <2>1 DEF CallsInv, OneCall, DecisionsAsked, DecisionIsOfSuggestion, Fresh
<1>4. CASE ~Drawn' /\ panel' = Fresh(panel.number)
  <2>1. PanelNumbers'
    BY <1>0, <1>4, Redrawn DEF PanelNumbers, Fresh
  <2> QED
    BY <1>1, <1>4, <2>1 DEF CallsInv, OneCall, DecisionsAsked, DecisionIsOfSuggestion, Fresh
<1> QED
  BY <1>2, <1>3, <1>4, Redrawn

LEMMA AskCalls ==
    ASSUME CallsInv, NEW kind, NEW patch, Asks(kind, patch)
    PROVE  CallsInv'
<1> DEFINE c == [panel |-> panel.number, kind |-> kind, doc |-> detail.path, patch |-> patch]
<1>0. PanelShape /\ PanelNumbers /\ OneCall /\ DecisionsAsked /\ DecisionIsOfSuggestion
  BY DEF CallsInv
<1>1. /\ Drawn /\ Drawn' /\ panel.busy = None /\ kind # None
      /\ calls' = calls \cup {c} /\ panel' = [panel EXCEPT !.busy = kind]
      /\ kind \notin {"validate", "suggest"} =>
             panel.suggestion # None /\ patch = panel.suggestion.patch
  BY DocsAssumption DEF Asks, CallCurator, Idle, Drawn, pageVars, CallKinds
<1>2. c.panel = panel.number /\ c.kind = kind /\ c.patch = patch
  OBVIOUS
<1> HIDE DEF c
<1>3. /\ panel' = [number |-> panel.number, validation |-> panel.validation,
                   suggestion |-> panel.suggestion, decision |-> panel.decision,
                   busy |-> kind]
      /\ panel.number \in Nat
  BY <1>0, <1>1 DEF PanelShape
<1>4. Mine = {}
  BY <1>0, <1>1 DEF OneCall
<1>5. Mine' = {c}
  BY <1>1, <1>2, <1>3, <1>4 DEF Mine
<1>6. PanelShape' /\ PanelNumbers'
  BY <1>0, <1>1, <1>2, <1>3 DEF PanelShape, PanelNumbers
<1>7. OneCall'
  BY <1>1, <1>3, <1>5 DEF OneCall
<1>8. DecisionsAsked'
  BY <1>1, <1>2, <1>3, <1>5 DEF DecisionsAsked
<1>9. DecisionIsOfSuggestion'
  BY <1>0, <1>3 DEF DecisionIsOfSuggestion
<1> QED
  BY <1>6, <1>7, <1>8, <1>9 DEF CallsInv

(* What an answer leaves of the panel: only the call of the panel drawn can *)
(* change it, and only when it came back.                                   *)
LEMMA AnsweredIs ==
    ASSUME PanelShape, NEW c \in calls, NEW done \in BOOLEAN, NEW answer \in CallAnswers,
           AnswerCall(c, done, answer)
    PROVE  /\ calls' = calls \ {c} /\ (Drawn' <=> Drawn)
           /\ panel'.number = panel.number /\ PanelShape'
           /\ ~Drawn \/ c \notin Mine => panel' = panel
           /\ Drawn /\ c \in Mine =>
                /\ panel'.busy = None
                /\ panel'.validation \in {None, panel.validation, c.doc}
                /\ \/ panel'.suggestion = panel.suggestion /\ panel'.decision = panel.decision
                   \/ panel'.suggestion \in {None, [patch |-> c.patch, doc |-> c.doc]}
                      /\ panel'.decision = None
                   \/ /\ panel'.suggestion = panel.suggestion
                      /\ c.kind \notin {"validate", "suggest"}
                      /\ panel'.decision = None \/ panel'.decision.patch = c.patch
<1> DEFINE empty == answer = "empty"
           given(v) == IF empty THEN None ELSE v
<1>1. /\ calls' = calls \ {c}
      /\ UNCHANGED <<index, detail, loading>>
      /\ panel' = IF ~Drawn \/ c.panel # panel.number THEN panel
                  ELSE IF answer # "failed" THEN Answered(c, empty)
                  ELSE [panel EXCEPT !.busy = None]
  BY DEF AnswerCall, pageVars
<1>2. Drawn' <=> Drawn
  BY <1>1 DEF Drawn
<1>3. CASE ~Drawn \/ c \notin Mine
  BY <1>1, <1>2, <1>3 DEF Mine, PanelShape
<1>4. CASE Drawn /\ c \in Mine
  <2>1. panel' = IF answer # "failed" THEN Answered(c, empty) ELSE [panel EXCEPT !.busy = None]
    BY <1>1, <1>4 DEF Mine
  <2>2. CASE answer = "failed"
    BY <1>1, <1>2, <1>4, <2>1, <2>2 DEF PanelShape
  <2>3. CASE answer # "failed" /\ c.kind = "validate"
    <3>1. panel' = [panel EXCEPT !.busy = None, !.validation = given(c.doc)]
      BY <2>1, <2>3, Zenon DEF Answered
    <3>2. panel' = [number |-> panel.number, validation |-> given(c.doc),
                    suggestion |-> panel.suggestion, decision |-> panel.decision, busy |-> None]
      BY <3>1 DEF PanelShape
    <3> QED
      BY <1>1, <1>2, <1>4, <3>2 DEF PanelShape
  <2>4. CASE answer # "failed" /\ c.kind = "suggest"
    <3>1. panel' = [panel EXCEPT !.busy = None, !.decision = None,
                                 !.suggestion = given([patch |-> c.patch, doc |-> c.doc])]
      BY <2>1, <2>4 DEF Answered
    <3>2. panel' = [number |-> panel.number, validation |-> panel.validation,
                    suggestion |-> given([patch |-> c.patch, doc |-> c.doc]),
                    decision |-> None, busy |-> None]
      BY <3>1 DEF PanelShape
    <3> QED
      BY <1>1, <1>2, <1>4, <3>2 DEF PanelShape
  <2>5. CASE answer # "failed" /\ c.kind \notin {"validate", "suggest"}
    <3>1. panel' = [panel EXCEPT !.busy = None,
                                 !.decision = given([patch |-> c.patch, kind |-> c.kind])]
      BY <2>1, <2>5 DEF Answered
    <3>2. panel' = [number |-> panel.number, validation |-> panel.validation,
                    suggestion |-> panel.suggestion,
                    decision |-> given([patch |-> c.patch, kind |-> c.kind]), busy |-> None]
      BY <3>1 DEF PanelShape
    <3> QED
      BY <1>1, <1>2, <1>4, <2>5, <3>2 DEF PanelShape
  <2> QED
    BY <2>2, <2>3, <2>4, <2>5
<1> QED
  BY <1>3, <1>4

LEMMA AnswerCalls ==
    ASSUME CallsInv, NEW c \in calls, NEW done \in BOOLEAN, NEW answer \in CallAnswers,
           AnswerCall(c, done, answer)
    PROVE  CallsInv'
<1>0. PanelShape /\ PanelNumbers /\ OneCall /\ DecisionsAsked /\ DecisionIsOfSuggestion
  BY DEF CallsInv
<1>1. /\ calls' = calls \ {c} /\ (Drawn' <=> Drawn)
      /\ panel'.number = panel.number /\ PanelShape'
  BY <1>0, AnsweredIs
<1>2. Mine' = Mine \ {c} /\ PanelNumbers'
  BY <1>0, <1>1 DEF Mine, PanelNumbers
<1>3. CASE ~Drawn \/ c \notin Mine
  <2>1. panel' = panel
    BY <1>0, <1>3, AnsweredIs
  <2> QED
    BY <1>0, <1>1, <1>2, <1>3, <2>1 DEF CallsInv, OneCall, DecisionsAsked, DecisionIsOfSuggestion
<1>4. CASE Drawn /\ c \in Mine
  <2>1. Mine' = {}
    BY <1>0, <1>2, <1>4 DEF OneCall
  <2>2. OneCall' /\ DecisionsAsked'
    BY <1>0, <1>4, <2>1, AnsweredIs DEF OneCall, DecisionsAsked
  <2>3. DecisionIsOfSuggestion'
    <3>1. CASE panel'.suggestion = panel.suggestion /\ panel'.decision = panel.decision
      BY <1>0, <3>1 DEF DecisionIsOfSuggestion
    <3>2. CASE panel'.decision = None
      BY <3>2 DEF DecisionIsOfSuggestion
    <3>3. CASE /\ panel'.suggestion = panel.suggestion
               /\ c.kind \notin {"validate", "suggest"}
               /\ panel'.decision = None \/ panel'.decision.patch = c.patch
      BY <1>0, <1>4, <3>3 DEF DecisionIsOfSuggestion, DecisionsAsked
    <3> QED
      BY <1>0, <1>4, <3>1, <3>2, <3>3, AnsweredIs
  <2> QED
    BY <1>1, <1>2, <2>2, <2>3 DEF CallsInv
<1> QED
  BY <1>3, <1>4

LEMMA CallsStep == CallsInv /\ [Next]_vars => CallsInv'
<1> SUFFICES ASSUME CallsInv, [Next]_vars PROVE CallsInv'
  OBVIOUS
<1>1. CASE UNCHANGED <<panel, calls, index, detail, loading>>
  BY <1>1 DEF CallsInv, PanelShape, PanelNumbers, OneCall, DecisionsAsked,
              DecisionIsOfSuggestion, Mine, Drawn
<1>2. \/ UNCHANGED <<panel, calls, index, detail, loading>>
      \/ Redraw
      \/ \E c \in calls, done \in BOOLEAN, answer \in CallAnswers : AnswerCall(c, done, answer)
      \/ \E kind, patch : Asks(kind, patch)
  BY Steps, Zenon DEF vars, pageVars, panelVars, AnswerUX, AnswerIndex, AnswerDoc,
     AnswerDefinition, Navigate, ShowDefinition
<1> QED
  BY <1>1, <1>2, RedrawCalls, AskCalls, AnswerCalls

-----------------------------------------------------------------------------
(* Whose document the panel and the tab are. *)

LEMMA OwnInit == Init => OwnInv
<1> SUFFICES ASSUME Init PROVE OwnInv
  OBVIOUS
<1>1. panel = Fresh(0) /\ calls = {} /\ fetches = {} /\ opens = 0 /\ toggle = None /\ ~Drawn
  BY DEF Init, Drawn, DrawnWith
<1> QED
  BY <1>1 DEF OwnInv, ToggleNumbers, PanelOfDocument, ToggleOfDocument

LEMMA RedrawOwn ==
    ASSUME OwnInv, PanelShape, PanelNumbers, Redraw, ~raced' => ~raced,
           ~raced' /\ Drawn /\ Drawn' => detail'.path = detail.path
    PROVE  OwnInv'
<1>0. ToggleNumbers /\ PanelOfDocument /\ ToggleOfDocument
  BY DEF OwnInv
<1>1. calls' = calls /\ fetches' = fetches
  BY Redrawn
<1>2. PanelOfDocument'
  <2> SUFFICES ASSUME ~raced', Drawn' PROVE PanelOfDocument'
    BY DEF PanelOfDocument
  <2>1. CASE Drawn
    <3>1. panel' = panel /\ detail'.path = detail.path
      BY <2>1, Redrawn
    <3> QED
      BY <1>0, <1>1, <2>1, <3>1 DEF PanelOfDocument, Mine
  <2>2. CASE ~Drawn
    <3>1. panel' = Fresh(panel.number + 1)
      BY <2>2, Redrawn
    <3>2. Mine' = {}
      BY <1>1, <3>1 DEF Mine, PanelNumbers, PanelShape, Fresh
    <3> QED
      BY <3>1, <3>2 DEF PanelOfDocument, Fresh
  <2> QED
    BY <2>1, <2>2
<1>3. CASE toggle' = None /\ opens' = opens
  BY <1>0, <1>1, <1>2, <1>3 DEF OwnInv, ToggleNumbers, ToggleOfDocument
<1>4. CASE toggle # None /\ toggle' = toggle /\ opens' = opens
  <2>1. Drawn' /\ Drawn
    BY <1>0, <1>4, Redrawn DEF ToggleNumbers
  <2>2. ToggleNumbers'
    BY <1>0, <1>1, <1>4, <2>1 DEF ToggleNumbers
  <2>3. ToggleOfDocument'
    BY <1>0, <1>1, <1>4, <2>1 DEF ToggleOfDocument
  <2> QED
    BY <1>2, <2>2, <2>3 DEF OwnInv
<1>5. CASE /\ opens' = opens + 1
           /\ toggle' = [number |-> opens + 1, definition |-> None, loading |-> FALSE]
  <2>1. toggle'.number = opens + 1 /\ toggle'.definition = None
    BY <1>5
  <2>2. toggle' = [number |-> toggle'.number, definition |-> toggle'.definition,
                   loading |-> toggle'.loading]
    BY <1>5
  <2>3. toggle' # None => Drawn'
    BY Redrawn
  <2>4. ToggleNumbers'
    BY <1>0, <1>1, <1>5, <2>1, <2>2, <2>3 DEF ToggleNumbers
  <2>5. ToggleOfDocument'
    BY <1>0, <1>1, <2>1 DEF ToggleOfDocument, ToggleNumbers
  <2> QED
    BY <1>2, <2>4, <2>5 DEF OwnInv
<1> QED
  BY <1>3, <1>4, <1>5, Redrawn

LEMMA AskOwn ==
    ASSUME OwnInv, CallsInv, NEW kind, NEW patch, Asks(kind, patch)
    PROVE  OwnInv'
<1> DEFINE c == [panel |-> panel.number, kind |-> kind, doc |-> detail.path, patch |-> patch]
<1>0. ToggleNumbers /\ PanelOfDocument /\ ToggleOfDocument /\ PanelShape
  BY DEF OwnInv, CallsInv
<1>1. /\ calls' = calls \cup {c} /\ panel' = [panel EXCEPT !.busy = kind]
      /\ UNCHANGED <<index, detail, loading, raced, toggle, opens, fetches>>
  BY DEF Asks, CallCurator, pageVars, toggleVars
<1>2. c.panel = panel.number /\ c.doc = detail.path
  OBVIOUS
<1> HIDE DEF c
<1>3. panel' = [number |-> panel.number, validation |-> panel.validation,
                suggestion |-> panel.suggestion, decision |-> panel.decision,
                busy |-> kind]
  BY <1>0, <1>1 DEF PanelShape
<1>4. Mine' \subseteq Mine \cup {c} /\ (Drawn' <=> Drawn)
  BY <1>1, <1>3 DEF Mine, Drawn
<1>5. PanelOfDocument'
  BY <1>0, <1>1, <1>2, <1>3, <1>4 DEF PanelOfDocument
<1>6. ToggleNumbers' /\ ToggleOfDocument'
  BY <1>0, <1>1, <1>4 DEF ToggleNumbers, ToggleOfDocument
<1> QED
  BY <1>5, <1>6 DEF OwnInv

LEMMA AnswerOwn ==
    ASSUME OwnInv, CallsInv, NEW c \in calls, NEW done \in BOOLEAN, NEW answer \in CallAnswers,
           AnswerCall(c, done, answer)
    PROVE  OwnInv'
<1>0. ToggleNumbers /\ PanelOfDocument /\ ToggleOfDocument /\ PanelShape
  BY DEF OwnInv, CallsInv
<1>1. UNCHANGED <<index, detail, loading, raced, toggle, opens, fetches>>
  BY DEF AnswerCall, pageVars, toggleVars
<1>2. calls' = calls \ {c} /\ (Drawn' <=> Drawn) /\ panel'.number = panel.number
  BY <1>0, AnsweredIs
<1>3. Mine' \subseteq Mine
  BY <1>2 DEF Mine
<1>4. PanelOfDocument'
  <2> SUFFICES ASSUME ~raced', Drawn' PROVE PanelOfDocument'
    BY DEF PanelOfDocument
  <2>1. CASE c \notin Mine
    <3>1. panel' = panel
      BY <1>0, <2>1, AnsweredIs
    <3> QED
      BY <1>0, <1>1, <1>2, <1>3, <3>1 DEF PanelOfDocument
  <2>2. CASE c \in Mine
    <3>1. c.doc = detail.path
      BY <1>0, <1>1, <1>2, <2>2 DEF PanelOfDocument
    <3>2. /\ panel'.validation \in {None, panel.validation, c.doc}
          /\ \/ panel'.suggestion = panel.suggestion
             \/ panel'.suggestion \in {None, [patch |-> c.patch, doc |-> c.doc]}
      BY <1>0, <1>2, <2>2, AnsweredIs
    <3>3. [patch |-> c.patch, doc |-> c.doc].doc = c.doc
      OBVIOUS
    <3> QED
      BY <1>0, <1>1, <1>2, <1>3, <3>1, <3>2, <3>3 DEF PanelOfDocument
  <2> QED
    BY <2>1, <2>2
<1>5. ToggleNumbers' /\ ToggleOfDocument'
  BY <1>0, <1>1, <1>2 DEF ToggleNumbers, ToggleOfDocument
<1> QED
  BY <1>4, <1>5 DEF OwnInv

(* Reading a definition leaves the panel alone.                             *)
LEMMA TabOwn ==
    ASSUME OwnInv,
           \/ ShowDefinition
           \/ \E f \in fetches, ok \in BOOLEAN : AnswerDefinition(f, ok)
    PROVE  OwnInv'
<1>0. ToggleNumbers /\ PanelOfDocument /\ ToggleOfDocument
  BY DEF OwnInv
<1>1. UNCHANGED <<index, detail, loading, raced, panel, calls, opens>>
  BY DEF ShowDefinition, AnswerDefinition, pageVars, panelVars
<1>2. PanelOfDocument' /\ (Drawn' <=> Drawn)
  BY <1>0, <1>1 DEF PanelOfDocument, Mine, Drawn
<1>3. CASE ShowDefinition
  <2> DEFINE f == [n |-> fetched', toggle |-> toggle.number, doc |-> detail.path]
  <2>1. /\ toggle # None /\ fetches' = fetches \cup {f}
        /\ toggle' = [toggle EXCEPT !.loading = TRUE]
    BY <1>3, Zenon DEF ShowDefinition
  <2>2. f.toggle = toggle.number /\ f.doc = detail.path
    OBVIOUS
  <2> HIDE DEF f
  <2>3. toggle' = [number |-> toggle.number, definition |-> toggle.definition, loading |-> TRUE]
    BY <1>0, <2>1 DEF ToggleNumbers
  <2>4. ToggleNumbers'
    BY <1>0, <1>1, <1>2, <2>1, <2>2, <2>3 DEF ToggleNumbers
  <2>5. ToggleOfDocument'
    BY <1>0, <1>1, <2>1, <2>2, <2>3 DEF ToggleOfDocument
  <2> QED
    BY <1>2, <2>4, <2>5 DEF OwnInv
<1>4. ASSUME NEW f \in fetches, NEW ok \in BOOLEAN, AnswerDefinition(f, ok)
      PROVE  OwnInv'
  <2>1. /\ fetches' = fetches \ {f}
        /\ toggle = None \/ f.toggle # toggle.number => toggle' = toggle
        /\ toggle # None /\ f.toggle = toggle.number =>
              toggle' = [toggle EXCEPT !.loading = FALSE,
                                       !.definition = IF ok THEN f.doc ELSE @]
    BY <1>4, Zenon DEF AnswerDefinition
  <2>2. CASE toggle' = toggle
    BY <1>0, <1>1, <1>2, <2>1, <2>2 DEF OwnInv, ToggleNumbers, ToggleOfDocument
  <2>3. CASE toggle # None /\ f.toggle = toggle.number
    <3>1. toggle' = [number |-> toggle.number,
                     definition |-> IF ok THEN f.doc ELSE toggle.definition,
                     loading |-> FALSE]
      BY <1>0, <2>1, <2>3 DEF ToggleNumbers
    <3>2. /\ toggle'.number = toggle.number
          /\ toggle'.definition \in {f.doc, toggle.definition}
          /\ toggle' = [number |-> toggle'.number, definition |-> toggle'.definition,
                        loading |-> toggle'.loading]
      BY <3>1
    <3>3. ToggleNumbers'
      BY <1>0, <1>1, <1>2, <2>1, <2>3, <3>2 DEF ToggleNumbers
    <3>4. ToggleOfDocument'
      BY <1>0, <1>1, <2>1, <2>3, <3>2 DEF ToggleOfDocument
    <3> QED
      BY <1>2, <3>3, <3>4 DEF OwnInv
  <2> QED
    BY <2>1, <2>2, <2>3
<1> QED
  BY <1>3, <1>4

LEMMA OwnStep == WorkbenchInv /\ [Next]_vars => OwnInv'
<1> SUFFICES ASSUME PageInv, CallsInv, OwnInv, [Next]_vars PROVE OwnInv'
  BY DEF WorkbenchInv
<1>0. PanelShape /\ PanelNumbers /\ ReadsSelected
  BY DEF CallsInv, PageInv
<1>1. CASE UNCHANGED <<index, detail, loading, raced, panel, calls, toggle, opens, fetches>>
  BY <1>1 DEF OwnInv, ToggleNumbers, PanelOfDocument, ToggleOfDocument, Mine, Drawn
<1>2. ASSUME NEW ok \in BOOLEAN, AnswerIndex(ok) PROVE OwnInv'
  <2>1. Redraw /\ detail' = detail /\ raced' = raced
    BY <1>2 DEF AnswerIndex, pageVars
  <2> QED
    BY <1>0, <2>1, RedrawOwn
<1>3. ASSUME NEW r \in reads, NEW ok \in BOOLEAN, AnswerDoc(r, ok) PROVE OwnInv'
  <2>1. Redraw /\ raced' = raced
    BY <1>3 DEF AnswerDoc
  <2>2. ~raced => ~Drawn
    BY <1>0, <1>3 DEF ReadsSelected, Drawn, DrawnWith
  <2> QED
    BY <1>0, <2>1, <2>2, RedrawOwn
<1>4. ASSUME NEW d, Navigate(d) PROVE OwnInv'
  <2>1. /\ Redraw
        /\ ~raced' => ~raced
        /\ d = None => detail' = None
        /\ d # None => loading'
    BY <1>4, Zenon DEF Navigate
  <2>2. ~Drawn'
    BY <2>1 DEF Drawn, DrawnWith
  <2> QED
    BY <1>0, <2>1, <2>2, RedrawOwn
<1>5. \/ UNCHANGED <<index, detail, loading, raced, panel, calls, toggle, opens, fetches>>
      \/ \E ok \in BOOLEAN : AnswerIndex(ok)
      \/ \E r \in reads, ok \in BOOLEAN : AnswerDoc(r, ok)
      \/ \E c \in calls, done \in BOOLEAN, answer \in CallAnswers : AnswerCall(c, done, answer)
      \/ \E f \in fetches, ok \in BOOLEAN : AnswerDefinition(f, ok)
      \/ \E d : Navigate(d)
      \/ \E kind, patch : Asks(kind, patch)
      \/ ShowDefinition
  BY Steps, Zenon DEF vars, pageVars, panelVars, toggleVars, AnswerUX
<1> QED
  BY <1>1, <1>2, <1>3, <1>4, <1>5, AnswerOwn, TabOwn, AskOwn

-----------------------------------------------------------------------------
(* Theorems. *)

LEMMA WorkbenchInvariant == Spec => []WorkbenchInv
<1>1. Init => WorkbenchInv
  BY PageInit, CallsInit, OwnInit DEF WorkbenchInv
<1>2. WorkbenchInv /\ [Next]_vars => WorkbenchInv'
  BY PageStep, CallsStep, OwnStep DEF WorkbenchInv
<1> QED
  BY <1>1, <1>2, PTL DEF Spec

(* An answer carries no mark of the selection it was asked for, and still   *)
(* the document shown is the one the URL selects, for as long as the        *)
(* operator lets each read come in (Documentation.tsx).                     *)
THEOREM DocumentShownIsSelected == Spec => []ShownIsSelected
<1>1. WorkbenchInv => ShownIsSelected
  BY DEF WorkbenchInv, PageInv, ShowsSelected, ShownIsSelected, Drawn, DrawnWith
<1> QED
  BY <1>1, WorkbenchInvariant, PTL

(* However the curator's answers, the definitions and the navigations       *)
(* interleave, what stands under a document is about that document, a       *)
(* decision is on the suggestion beside it, and the panel has one call out. *)
THEOREM PanelStandsUnderItsDocument == Spec => []PanelIsOfDocument
<1>1. WorkbenchInv => PanelIsOfDocument
  <2> SUFFICES ASSUME WorkbenchInv PROVE PanelIsOfDocument
    OBVIOUS
  <2>1. ReportsAreOfDocument
    BY DEF WorkbenchInv, OwnInv, PanelOfDocument, ToggleOfDocument, ReportsAreOfDocument
  <2>2. DecisionIsOfSuggestion
    BY DEF WorkbenchInv, CallsInv
  <2>3. OneCallAtATime
    <3> SUFFICES ASSUME Drawn
                 PROVE  Cardinality(Mine) <= 1 /\ (panel.busy # None <=> Mine # {})
      BY DEF OneCallAtATime, Mine
    <3>1. (\A c, d \in Mine : c = d) /\ (panel.busy # None <=> Mine # {})
      BY DEF WorkbenchInv, CallsInv, OneCall
    <3>2. CASE Mine = {}
      BY <3>1, <3>2, FS_EmptySet
    <3>3. ASSUME NEW c \in Mine PROVE Cardinality(Mine) <= 1
      <4>1. Mine = {c}
        BY <3>1
      <4> QED
        BY <4>1, FS_Singleton
    <3> QED
      BY <3>1, <3>2, <3>3
  <2> QED
    BY <2>1, <2>2, <2>3 DEF PanelIsOfDocument
<1> QED
  BY <1>1, WorkbenchInvariant, PTL
=============================================================================
