----------------------------- MODULE TraceReader -----------------------------
(***************************************************************************)
(* The trace panel's reads (useTrace.ts, traceApi.ts, TracePanel.tsx,      *)
(* TraceList.tsx, StoryOverlay.tsx): the backend's list page by page, the  *)
(* trace a row opens, and the story window over an application's chats.    *)
(*                                                                         *)
(* The three hooks read alike: an effect asks, its cleanup deactivates it, *)
(* and an answer for a deactivated effect sets nothing.  A read is numbered*)
(* by its effect, and "live" is the number of the mounted component's.     *)
(*                                                                         *)
(* Traces are numbered in the order they start; the backend lists the      *)
(* newest first and goes on collecting while the operator reads.           *)
(***************************************************************************)
EXTENDS Naturals, FiniteSets, Sequences

CONSTANTS
    Traces,      \* the traces that will be collected: 1 .. Traces
    Single,      \* those of one span
    PageSize,
    Chats,       \* the application's chats [id, turns], turns being traces
    Current,     \* the chat the story window opens from, or None
    None,
    MaxReads     \* bound: effects of a behaviour

ASSUME TracesAssumption == Traces \in Nat /\ Single \subseteq 1 .. Traces
ASSUME ChatsAssumption == Chats \in Seq([id : STRING, turns : Seq(1 .. Traces)])
ASSUME PageAssumption == PageSize \in Nat \ {0} /\ MaxReads \in Nat

VARIABLES
    arrived,   \* traces collected so far
    screen,    \* list, trace or story: the component mounted
    opened,    \* the trace the detail shows, or None
    offset,    \* the page the list asks for
    showAll,   \* single-span traces are listed
    shown,     \* the mounted hook's state [status, ...]
    chosen,    \* the chats the story overlays
    focus,     \* the trace the story focuses, or None
    models,    \* the traces the story holds
    asked,     \* the traces of the story's last read
    reads,     \* reads in flight [n, of]: of a page, a trace or several
    made,      \* effects so far, which number the reads
    live,      \* the effect whose answer counts
    seen       \* history: the traces the list has shown since it was mounted

listVars  == <<offset, showAll, seen>>
storyVars == <<chosen, focus, models, asked>>
readVars  == <<reads, made, live>>
vars == <<arrived, screen, opened, shown, listVars, storyVars, readVars>>

-----------------------------------------------------------------------------
\* The backend (external): its list, newest first, and one page of it.

Listing == [i \in 1 .. arrived |-> arrived + 1 - i]

Collect ==
    /\ arrived < Traces
    /\ arrived' = arrived + 1
    /\ UNCHANGED <<screen, opened, shown, listVars, storyVars, readVars>>

Least(a, b) == IF a < b THEN a ELSE b

PageAt(o) == [traces |-> SubSeq(Listing, o + 1, Least(o + PageSize, arrived)),
              total |-> arrived, offset |-> o]

\* What comes of a request.
Responses == {"unreachable", "not found", "error", "no JSON", "no spans", "ok"}

-----------------------------------------------------------------------------
\* What a read makes of its response.

\* Mutant: a body that is no JSON is not caught, and the effect never settles.
TraceStatusUncaught(response) ==
    CASE response \in {"not found", "no spans"} -> "empty"
      [] response \in {"unreachable", "error"} -> "unavailable"
      [] response = "no JSON" -> "loading"
      [] OTHER -> "ok"

TraceStatus(response) ==
    CASE response \in {"not found", "no spans"} -> "empty"
      [] response \in {"unreachable", "error", "no JSON"} -> "unavailable"
      [] OTHER -> "ok"

ListStatus(response) == IF response = "ok" THEN "ok" ELSE "unavailable"

\* A read of several drops the ones that fail.
Obtained(ids, failing) == {t \in ids : t <= arrived /\ t \notin failing}

-----------------------------------------------------------------------------
\* The effects.

Ask(of) ==
    /\ made < MaxReads
    /\ made' = made + 1
    /\ live' = made'
    /\ reads' = reads \cup {[n |-> made', of |-> of]}

Loading == [status |-> "loading"]

\* Mutant: the cleanup is missing, and a late answer counts.
CountsLate(r) == r.of.kind = screen

\* An answer counts for the effect that asked.
Counts(r) == r.n = live

-----------------------------------------------------------------------------
\* The list.

AskPage(o) ==
    /\ Ask([kind |-> "list", offset |-> o])
    /\ offset' = o
    /\ shown' = Loading

\* The list is mounted at its newest page, whatever page was left.
MountList ==
    /\ screen' = "list" /\ opened' = None
    /\ showAll' = FALSE /\ seen' = {}
    /\ AskPage(0)

Init ==
    /\ arrived = 0
    /\ screen = "list" /\ opened = None
    /\ offset = 0 /\ showAll = FALSE /\ seen = {}
    /\ shown = Loading
    /\ chosen = {} /\ focus = None /\ models = {} /\ asked = {}
    /\ reads = {[n |-> 1, of |-> [kind |-> "list", offset |-> 0]]} /\ made = 1 /\ live = 1

PageShown == screen = "list" /\ shown.status = "ok"

Rows(page) == {page.traces[i] : i \in DOMAIN page.traces}

\* The rows drawn: single-span traces are hidden unless asked for.
RowsShown == IF showAll THEN Rows(shown.page) ELSE Rows(shown.page) \ Single

AnswerPage(r, response) ==
    /\ r.of.kind = "list"
    /\ reads' = reads \ {r}
    /\ IF ~Counts(r) THEN UNCHANGED <<shown, seen>>
       ELSE IF ListStatus(response) = "ok"
       THEN /\ shown' = [status |-> "ok", page |-> PageAt(r.of.offset)]
            /\ seen' = seen \cup Rows(PageAt(r.of.offset))
       ELSE shown' = [status |-> "unavailable"] /\ UNCHANGED seen
    /\ UNCHANGED <<arrived, screen, opened, offset, showAll, storyVars, made, live>>

ToggleShowAll ==
    /\ PageShown
    /\ showAll' = ~showAll
    /\ UNCHANGED <<arrived, screen, opened, shown, offset, seen, storyVars, readVars>>

\* The pages beside the one shown.
NewerOffset(page) == IF page.offset < PageSize THEN 0 ELSE page.offset - PageSize

\* Mutant: the next page starts one row late.
OlderOffsetPast(page) == page.offset + PageSize + 1
OlderOffset(page) == page.offset + PageSize

Newer ==
    /\ PageShown /\ shown.page.offset # 0
    /\ AskPage(NewerOffset(shown.page))
    /\ UNCHANGED <<arrived, screen, opened, showAll, seen, storyVars>>

Older ==
    /\ PageShown /\ shown.page.offset + PageSize < shown.page.total
    /\ AskPage(OlderOffset(shown.page))
    /\ UNCHANGED <<arrived, screen, opened, showAll, seen, storyVars>>

-----------------------------------------------------------------------------
\* The trace a row opens, and the way back.

Open(t) ==
    /\ PageShown /\ t \in RowsShown
    /\ screen' = "trace" /\ opened' = t
    /\ Ask([kind |-> "trace", trace |-> t])
    /\ shown' = Loading
    /\ UNCHANGED <<arrived, listVars, storyVars>>

AnswerTrace(r, response) ==
    /\ r.of.kind = "trace"
    /\ reads' = reads \ {r}
    /\ shown' = IF Counts(r)
                THEN [status |-> TraceStatus(response), trace |-> r.of.trace]
                ELSE shown
    /\ UNCHANGED <<arrived, screen, opened, listVars, storyVars, made, live>>

Back == screen = "trace" /\ MountList /\ UNCHANGED <<arrived, storyVars>>

-----------------------------------------------------------------------------
\* The story window.

TurnsOf(c)  == {Chats[c].turns[i] : i \in DOMAIN Chats[c].turns}
IdOf(c)     == Chats[c].id

\* The chats that carry a trace; the launching one stands first.
Told == {c \in DOMAIN Chats : Chats[c].turns # <<>>}

First ==
    IF \E c \in Told : IdOf(c) = Current THEN CHOOSE c \in Told : IdOf(c) = Current
    ELSE CHOOSE c \in Told : \A d \in Told : c <= d

\* Opened on no chat, the window takes the first; on no turn, its last turn.
Anchor == IF Current # None THEN {Current} ELSE IF Told = {} THEN {} ELSE {IdOf(First)}

InitialFocus(turn) ==
    IF turn # None THEN turn
    ELSE IF Told = {} THEN None
    ELSE Chats[First].turns[Len(Chats[First].turns)]

Visible(ids) == {c \in Told : IdOf(c) \in ids}

\* Mutant: only the turns of the visible chats are read.
TraceIdsOfVisible(ids, f) == UNION {TurnsOf(c) : c \in Visible(ids)}

\* The traces read: those turns and the focus, wherever it stands.
TraceIds(ids, f) == ({f} \ {None}) \cup UNION {TurnsOf(c) : c \in Visible(ids)}

AskTraces(ids, f) ==
    /\ asked' = TraceIds(ids, f)
    /\ IF asked' = asked /\ screen = "story" THEN UNCHANGED readVars
       ELSE Ask([kind |-> "story", traces |-> asked'])

OpenStory(turn) ==
    /\ screen # "story"
    /\ screen' = "story" /\ opened' = None /\ shown' = Loading
    /\ chosen' = Anchor /\ focus' = InitialFocus(turn) /\ models' = {}
    /\ AskTraces(chosen', focus')
    /\ UNCHANGED <<arrived, listVars>>

\* A chat is ticked, or unticked unless it is the only one.
Picked(id) ==
    IF id \notin chosen THEN chosen \cup {id}
    ELSE IF Cardinality(chosen) > 1 THEN chosen \ {id}
    ELSE chosen

Pick(c) ==
    /\ screen = "story" /\ c \in Told
    /\ chosen' = Picked(IdOf(c))
    /\ AskTraces(chosen', focus)
    /\ UNCHANGED <<arrived, screen, opened, shown, listVars, focus, models>>

Focus(t) ==
    /\ screen = "story" /\ t # focus
    /\ \E c \in Visible(chosen) : t \in TurnsOf(c)
    /\ focus' = t
    /\ AskTraces(chosen, t)
    /\ UNCHANGED <<arrived, screen, opened, shown, listVars, chosen, models>>

\* The traces are read one by one and set together, the failing ones dropped.
AnswerStory(r, failing) ==
    /\ r.of.kind = "story"
    /\ reads' = reads \ {r}
    /\ models' = IF Counts(r) THEN Obtained(r.of.traces, failing) ELSE models
    /\ UNCHANGED <<arrived, screen, opened, shown, listVars, chosen, focus, asked, made, live>>

CloseStory ==
    /\ screen = "story"
    /\ MountList
    /\ UNCHANGED <<arrived, storyVars>>

\* The trace the tabs read: the focus, or whichever arrived first.
FocusModels == IF focus \in models THEN {focus} ELSE models

-----------------------------------------------------------------------------
Answers ==
    \/ \E r \in reads, response \in Responses : AnswerPage(r, response) \/ AnswerTrace(r, response)
    \/ \E r \in {x \in reads : x.of.kind = "story"} :
          \E failing \in SUBSET r.of.traces : AnswerStory(r, failing)

Operator ==
    \/ ToggleShowAll \/ Newer \/ Older \/ Back \/ CloseStory
    \/ \E t \in 1 .. Traces : Open(t) \/ Focus(t)
    \/ \E turn \in 1 .. Traces \cup {None} : OpenStory(turn)
    \/ \E c \in DOMAIN Chats : Pick(c)

Next == Collect \/ Answers \/ Operator

\* A fetch settles.  The operator and the backend's collecting owe nothing.
Spec == Init /\ [][Next]_vars /\ WF_vars(Answers)

-----------------------------------------------------------------------------
\* What the list and the detail show is what they asked for last.
PanelShowsAsked ==
    /\ PageShown => shown.page.offset = offset
    /\ screen = "trace" /\ shown.status = "ok" => shown.trace = opened

\* The story reads the focused turn though its chat is hidden, holds no trace it
\* no longer asks for once its read is answered, and overlays a chat unless it
\* was opened from one that carries no trace.
StoryHoldsFocus ==
    screen = "story" =>
        /\ focus \in asked \cup {None}
        /\ (\A r \in reads : r.n # live) => models \subseteq asked
        /\ focus \in models => FocusModels = {focus}
        /\ chosen # {} \/ Told = {}
        /\ (Current = None \/ \E c \in Told : IdOf(c) = Current) => Visible(chosen) # {} \/ Told = {}

\* Whatever screen is mounted shows what it asked for last, however late the
\* answers to what was asked before.
ShownIsAsked == PanelShowsAsked /\ StoryHoldsFocus

\* Paging to older traces passes none, though traces arrive at the head of the
\* list all the while: from the page shown up to the newest trace shown since the
\* list was mounted, every one was shown.  And no page beyond the first is blank.
NothingIsSkipped ==
    PageShown =>
        /\ \A low \in Rows(shown.page), high \in seen : \A t \in low .. high : t \in seen
        /\ offset > 0 => shown.page.traces # <<>>
=============================================================================
