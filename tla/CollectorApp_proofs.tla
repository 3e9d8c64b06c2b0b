-------------------------- MODULE CollectorApp_proofs --------------------------
(***************************************************************************)
(* What the collector's pages keep for every page size, every number of    *)
(* traces, chats and reads, and every heatmap: each screen shows what it   *)
(* asked for last, paging to older traces passes none, and the breakdown   *)
(* beside the heatmap is of the region it highlights.                      *)
(***************************************************************************)
EXTENDS CollectorApp, FiniteSetTheorems, SequenceTheorems, WellFoundedInduction, TLAPS

Typed ==
    /\ arrived \in Nat /\ offset \in Nat
    /\ made \in Nat /\ live \in Nat /\ live <= made
    /\ seen \subseteq Nat
    /\ \A r \in reads : r.n \in Nat /\ r.n <= made

\* The read that counts is the one the mounted screen asked.
Asking(of) ==
    /\ screen = "list"  => of = [kind |-> "list", offset |-> offset]
    /\ screen = "trace" => of = [kind |-> "trace", trace |-> opened]
    /\ screen = "story" => of = [kind |-> "story", traces |-> asked]
    /\ screen # "explore"

Matched ==
    /\ screen \in {"list", "trace", "story", "explore"}
    /\ \A r \in reads : r.n = live => Asking(r.of)

\* The traces on a page of a listing of a traces.
PageSpan(a, o) == {t \in 1 .. a : a + 1 - o - PageSize <= t /\ t <= a - o}

\* The page shown is of some earlier listing.
Paged ==
    /\ offset > 0 => offset < arrived
    /\ PageShown =>
          /\ shown.page.offset = offset
          /\ shown.page.total \in Nat /\ shown.page.total <= arrived
          /\ offset > 0 => offset < shown.page.total
          /\ Rows(shown.page) = PageSpan(shown.page.total, offset)
    /\ screen = "trace" /\ shown.status = "ok" => shown.trace = opened

\* Where the page shown ends, or the page to come would at the latest begin.
Bottom == IF PageShown THEN shown.page.total + 1 - offset - PageSize ELSE arrived + 1 - offset

Seen ==
    screen = "list" =>
        \A high \in seen, t \in Nat \ {0} : Bottom <= t /\ t <= high => t \in seen

ToldIds == {IdOf(c) : c \in Told}

Story ==
    screen = "story" =>
        /\ asked = TraceIds(chosen, focus)
        /\ (\A r \in reads : r.n # live) => models \subseteq asked
        /\ IsFiniteSet(chosen)
        /\ chosen # {} \/ Told = {}
        /\ (Current = None \/ \E c \in Told : IdOf(c) = Current) => chosen \subseteq ToldIds

ReaderInv == Typed /\ Matched /\ Paged /\ Seen /\ Story

-----------------------------------------------------------------------------
\* Numbers have a least.
LEMMA LeastOf ==
    ASSUME NEW S \in SUBSET Nat, S # {}
    PROVE  \E m \in S : \A i \in S : m <= i
<1> DEFINE less == {ss \in Nat \X Nat : ss[1] < ss[2]}
<1>1. IsWellFoundedOn(less, Nat)
  <2>1. less = OpToRel(<, Nat)
    BY Zenon DEF OpToRel
  <2>2. QED
    BY <2>1, NatLessThanWellFounded, Zenon
<1>2. PICK m \in S : \A i \in S : <<i, m>> \notin less
  <2> HIDE DEF less
  <2>1. QED
    BY <1>1, WFMin, Zenon
<1>3. ASSUME NEW i \in S
      PROVE  m <= i
  <2>1. i \in Nat /\ m \in Nat /\ ~(i < m)
    BY <1>2
  <2>2. QED
    BY <2>1
<1>4. QED
  BY <1>3

-----------------------------------------------------------------------------
\* Pages.

\* A page of the backend's listing holds the traces it stands for.
LEMMA PageRows ==
    ASSUME Typed, NEW o \in Nat
    PROVE  /\ PageAt(o).offset = o /\ PageAt(o).total = arrived
           /\ Rows(PageAt(o)) = PageSpan(arrived, o)
<1> DEFINE last == Least(o + PageSize, arrived)
           page == SubSeq(Listing, o + 1, last)
<1>1. last \in Nat /\ last <= arrived /\ last <= o + PageSize
      /\ (last = arrived \/ last = o + PageSize)
  BY PageAssumption DEF Typed, Least
<1>2. Listing \in Seq(Nat) /\ Len(Listing) = arrived
      /\ \A i \in 1 .. arrived : Listing[i] = arrived + 1 - i
  <2>1. arrived \in Nat
    BY DEF Typed
  <2>2. \A i \in 1 .. arrived : arrived + 1 - i \in Nat
    BY <2>1
  <2>3. Listing \in [1 .. arrived -> Nat]
    BY <2>2 DEF Listing
  <2> QED BY <2>1, <2>3 DEF Listing
<1> HIDE DEF last
<1>3. DOMAIN page = 1 .. (IF o < last THEN last - o ELSE 0)
      /\ \A i \in DOMAIN page : page[i] = arrived + 1 - (o + i)
  <2>1. \A i \in o + 1 .. last : Listing[i] \in Nat /\ Listing[i] = arrived + 1 - i
    <3> TAKE i \in o + 1 .. last
    <3>1. i \in 1 .. arrived
      BY <1>1 DEF Typed
    <3> QED BY <1>2, <3>1 DEF Typed
  <2>2. /\ page \in Seq(Nat)
        /\ Len(page) = IF o + 1 <= last THEN last - (o + 1) + 1 ELSE 0
        /\ \A i \in 1 .. last - (o + 1) + 1 : page[i] = Listing[o + 1 + i - 1]
    <3> HIDE DEF Listing
    <3> o + 1 \in Int /\ last \in Int
      BY <1>1
    <3> QED BY <2>1, SubSeqProperties
  <2>3. DOMAIN page = 1 .. (IF o < last THEN last - o ELSE 0)
    BY <1>1, <2>2
  <2> HIDE DEF page
  <2>4. ASSUME NEW i \in DOMAIN page
        PROVE  page[i] = arrived + 1 - (o + i)
    <3>1. i \in 1 .. last - (o + 1) + 1 /\ o + 1 + i - 1 \in o + 1 .. last
          /\ o + 1 + i - 1 = o + i
      BY <1>1, <2>3
    <3> QED BY <2>1, <2>2, <3>1
  <2> QED BY <2>3, <2>4
<1> HIDE DEF page
<1>4. Rows(PageAt(o)) = {page[i] : i \in DOMAIN page}
  BY DEF Rows, PageAt, last, page
<1>5. ASSUME NEW i \in DOMAIN page
      PROVE  page[i] \in PageSpan(arrived, o)
  <2>1. i \in Nat /\ 1 <= i /\ i <= last - o /\ page[i] = arrived + 1 - (o + i)
    BY <1>1, <1>3
  <2>2. arrived \in Nat /\ PageSize \in Nat
    BY PageAssumption DEF Typed
  <2> QED BY <1>1, <2>1, <2>2 DEF PageSpan
<1>6. ASSUME NEW t \in PageSpan(arrived, o)
      PROVE  \E i \in DOMAIN page : page[i] = t
  <2>1. t \in 1 .. arrived /\ arrived + 1 - o - PageSize <= t /\ t <= arrived - o
    BY DEF PageSpan
  <2>2. arrived + 1 - o - t \in DOMAIN page
    BY <1>1, <1>3, <2>1, PageAssumption DEF Typed
  <2> DEFINE i == arrived + 1 - o - t
  <2>3. page[i] = arrived + 1 - (o + i)
    BY <1>3, <2>2
  <2>4. arrived + 1 - (o + i) = t
    BY <2>1 DEF Typed
  <2> QED BY <2>2, <2>3, <2>4
<1> QED BY <1>4, <1>5, <1>6 DEF PageAt

-----------------------------------------------------------------------------
\* Asking.

\* The read asked last is the one that counts, and it is new.
LEMMA AskIsLive ==
    ASSUME Typed, NEW of, Ask(of)
    PROVE  /\ made' \in Nat /\ live' = made'
           /\ \A r \in reads' : r.n \in Nat /\ r.n <= made' /\ (r.n = live' => r.of = of)
           /\ \E r \in reads' : r.n = live'
<1>1. made' = made + 1 /\ live' = made + 1 /\ made \in Nat
      /\ reads' = reads \cup {[n |-> made + 1, of |-> of]}
  BY DEF Typed, Ask
<1>2. \A r \in reads : r.n \in Nat /\ r.n <= made
  BY DEF Typed
<1> DEFINE new == [n |-> made + 1, of |-> of]
<1>3. new.n = made + 1 /\ new.of = of /\ new \in reads'
  BY <1>1
<1>4. ASSUME NEW r \in reads'
      PROVE  r.n \in Nat /\ r.n <= made + 1 /\ (r.n = made + 1 => r.of = of)
  <2>1. r \in reads \/ r = new
    BY <1>1
  <2> HIDE DEF new
  <2>2. CASE r \in reads
    BY <1>1, <1>2, <2>2
  <2> QED BY <1>1, <1>3, <2>1, <2>2
<1> HIDE DEF new
<1> QED BY <1>1, <1>3, <1>4

\* A list mounted anew keeps the invariant, whatever was mounted before.
LEMMA MountKeeps ==
    ASSUME Typed, MountList, UNCHANGED arrived
    PROVE  ReaderInv'
<1> DEFINE page == [kind |-> "list", offset |-> 0]
<1>1. /\ screen' = "list" /\ seen' = {} /\ offset' = 0 /\ shown' = [status |-> "loading"]
      /\ Ask(page) /\ arrived' = arrived
  BY DEF MountList, AskPage, Loading
<1>2. Typed'
  BY <1>1, AskIsLive DEF Typed
<1>3. Matched'
  BY <1>1, AskIsLive DEF Matched, Asking
<1>4. ~PageShown'
  BY <1>1 DEF PageShown
<1>5. Paged'
  BY <1>1, <1>4 DEF Paged
<1>6. Seen' /\ Story'
  BY <1>1 DEF Seen, Story
<1> QED BY <1>2, <1>3, <1>5, <1>6 DEF ReaderInv

\* A trace opened, from a row or from an exemplar.
LEMMA OpenKeeps ==
    ASSUME Typed, Paged, NEW t, Ask([kind |-> "trace", trace |-> t]),
           screen' = "trace", opened' = t, shown' = Loading, UNCHANGED <<arrived, listVars>>
    PROVE  ReaderInv'
<1>1. arrived' = arrived /\ offset' = offset /\ seen' = seen /\ shown' = [status |-> "loading"]
  BY DEF listVars, Loading
<1>2. Typed'
  BY <1>1, AskIsLive DEF Typed
<1>3. Matched'
  BY AskIsLive DEF Matched, Asking
<1>4. Paged'
  BY <1>1 DEF Paged, PageShown
<1>5. Seen' /\ Story'
  BY DEF Seen, Story
<1> QED BY <1>2, <1>3, <1>4, <1>5 DEF ReaderInv

\* The Explore page mounted: the trace panel is gone.
LEMMA GoExploreKeeps ==
    ASSUME Typed, GoExplore
    PROVE  ReaderInv'
<1>1. /\ made' = made + 1 /\ screen' = "explore" /\ offset' = 0 /\ seen' = {}
      /\ reads' = {} /\ live' = 0 /\ arrived' = arrived
  BY DEF GoExplore
<1>2. Typed'
  BY <1>1 DEF Typed
<1>3. Matched' /\ Paged' /\ Seen' /\ Story'
  BY <1>1 DEF Matched, Paged, PageShown, Seen, Story
<1> QED BY <1>2, <1>3 DEF ReaderInv

\* A step of the page, seen or not, that leaves the story's screen as it is.
LEMMA StoryStands ==
    ASSUME Story, UNCHANGED <<screen, storyVars>>,
           screen # "story" \/ \A r \in reads : r.n = live => r \in reads',
           UNCHANGED live
    PROVE  Story'
<1>1. /\ screen' = screen /\ chosen' = chosen /\ focus' = focus
      /\ models' = models /\ asked' = asked /\ live' = live
  BY DEF storyVars
<1> QED BY <1>1 DEF Story

\* The bottom of what the list has shown only rises.
LEMMA SeenStands ==
    ASSUME Seen, Typed, Typed', Paged, PageAssumption, screen = "list", seen' = seen, 
           Bottom \in Int, Bottom' \in Int, Bottom <= Bottom'
    PROVE  Seen'
<1> SUFFICES ASSUME NEW high \in seen, NEW t \in Nat \ {0}, Bottom' <= t, t <= high
             PROVE  t \in seen
  BY DEF Seen
<1>1. high \in Nat
  BY DEF Typed
<1>2. Bottom <= t
  OBVIOUS
<1> QED BY <1>2 DEF Seen

LEMMA BottomIsInt ==
    ASSUME Typed, Paged
    PROVE  /\ Bottom \in Int /\ Bottom <= arrived + 1 - offset
           /\ PageShown => Bottom = shown.page.total + 1 - offset - PageSize
           /\ ~PageShown => Bottom = arrived + 1 - offset
<1>1. arrived \in Nat /\ offset \in Nat /\ PageSize \in Nat
  BY PageAssumption DEF Typed
<1>2. PageShown => shown.page.total \in Nat /\ shown.page.total <= arrived
  BY DEF Paged
<1> QED BY <1>1, <1>2 DEF Bottom

-----------------------------------------------------------------------------
\* The panel's steps.

\* The read that counts is of the kind the screen mounted asks for.
LEMMA LiveIsOfScreen ==
    ASSUME Matched, NEW r \in reads, r.n = live
    PROVE  /\ r.of.kind = "list"  => screen = "list" /\ r.of.offset = offset
           /\ r.of.kind = "trace" => screen = "trace" /\ r.of.trace = opened
           /\ r.of.kind = "story" => screen = "story" /\ r.of.traces = asked
<1>1. Asking(r.of) /\ screen \in {"list", "trace", "story"}
  BY DEF Matched, Asking
<1>2. CASE screen = "list"
  <2>1. r.of = [kind |-> "list", offset |-> offset]
    BY <1>1, <1>2 DEF Asking
  <2> QED BY <1>2, <2>1
<1>3. CASE screen = "trace"
  <2>1. r.of = [kind |-> "trace", trace |-> opened]
    BY <1>1, <1>3 DEF Asking
  <2> QED BY <1>3, <2>1
<1>4. CASE screen = "story"
  <2>1. r.of = [kind |-> "story", traces |-> asked]
    BY <1>1, <1>4 DEF Asking
  <2> QED BY <1>4, <2>1
<1> QED BY <1>1, <1>2, <1>3, <1>4

LEMMA CollectKeeps ==
    ASSUME ReaderInv, Collect
    PROVE  ReaderInv'
<1> USE DEF ReaderInv
<1>1. /\ arrived' = arrived + 1 /\ screen' = screen /\ opened' = opened /\ shown' = shown
      /\ offset' = offset /\ seen' = seen /\ made' = made /\ live' = live /\ reads' = reads
      /\ UNCHANGED storyVars
  BY DEF Collect, listVars, readVars
<1>2. Typed'
  BY <1>1 DEF Typed
<1>3. Matched'
  BY <1>1 DEF Matched, Asking, storyVars
<1>4. PageShown' = PageShown
  BY <1>1 DEF PageShown
<1>5. Paged'
  <2>1. arrived \in Nat /\ offset \in Nat
    BY DEF Typed
  <2>2. offset' > 0 => offset' < arrived'
    BY <1>1, <2>1 DEF Paged
  <2>3. PageShown' => shown'.page.total <= arrived'
    BY <1>1, <1>4, <2>1 DEF Paged
  <2> QED BY <1>1, <1>4, <2>2, <2>3 DEF Paged
<1>6. Seen'
  <2>1. CASE screen = "list"
    <3>1. Bottom <= Bottom' /\ Bottom' \in Int /\ Bottom \in Int
      BY <1>1, <1>2, <1>4, <1>5, BottomIsInt, PageAssumption DEF Bottom, Paged, Typed
    <3> QED BY <1>1, <1>2, <2>1, <3>1, PageAssumption, SeenStands
  <2>2. CASE screen # "list"
    BY <1>1, <2>2 DEF Seen
  <2> QED BY <2>1, <2>2
<1>7. Story'
  BY <1>1, StoryStands
<1> QED BY <1>2, <1>3, <1>5, <1>6, <1>7

LEMMA AnswerPageKeeps ==
    ASSUME ReaderInv, NEW r \in reads, NEW response, AnswerPage(r, response)
    PROVE  ReaderInv'
<1> USE DEF ReaderInv
<1> DEFINE page == PageAt(r.of.offset)
<1>1. /\ r.of.kind = "list" /\ reads' = reads \ {r}
      /\ arrived' = arrived /\ screen' = screen /\ opened' = opened /\ offset' = offset
      /\ made' = made /\ live' = live /\ UNCHANGED storyVars
  BY DEF AnswerPage
<1>2. Matched'
  BY <1>1 DEF Matched, Asking, storyVars
<1>3. Story'
  <2>1. screen # "story" \/ \A x \in reads : x.n = live => x \in reads'
    BY <1>1, LiveIsOfScreen
  <2> QED BY <1>1, <2>1, StoryStands
<1>4. CASE ~Counts(r)
  <2>1. shown' = shown /\ seen' = seen
    BY <1>4 DEF AnswerPage
  <2>2. Typed' /\ Paged' /\ Seen'
    BY <1>1, <2>1 DEF Typed, Paged, PageShown, Seen, Bottom
  <2> QED BY <1>2, <1>3, <2>2
<1>5. CASE Counts(r) /\ ListStatus(response) # "ok"
  <2>1. shown' = [status |-> "unavailable"] /\ seen' = seen
    BY <1>5 DEF AnswerPage
  <2>2. Typed' /\ ~PageShown'
    BY <1>1, <2>1 DEF Typed, PageShown
  <2>3. Paged'
    BY <1>1, <2>1, <2>2 DEF Paged
  <2>4. Seen'
    <3>1. CASE screen = "list"
      <4>1. Bottom' = arrived + 1 - offset /\ Bottom' \in Int
        BY <1>1, <2>2 DEF Bottom, Typed
      <4> QED BY <1>1, <2>1, <2>2, <3>1, <4>1, BottomIsInt, PageAssumption, SeenStands
    <3> QED BY <1>1, <3>1 DEF Seen
  <2> QED BY <1>2, <1>3, <2>2, <2>3, <2>4
<1>6. CASE Counts(r) /\ ListStatus(response) = "ok"
  <2>1. shown' = [status |-> "ok", page |-> page] /\ seen' = seen \cup Rows(page)
    BY <1>6 DEF AnswerPage
  <2>2. screen = "list" /\ r.of.offset = offset
    BY <1>1, <1>6, LiveIsOfScreen DEF Counts
  <2>3. /\ page.offset = offset /\ page.total = arrived
        /\ Rows(page) = PageSpan(arrived, offset)
    BY <2>2, PageRows DEF Typed
  <2> HIDE DEF page
  <2>4. Typed'
    <3>1. PageSpan(arrived, offset) \subseteq Nat
      BY DEF PageSpan
    <3> QED BY <1>1, <2>1, <2>3, <3>1 DEF Typed
  <2>5. PageShown' /\ shown'.page = page
    BY <1>1, <2>1, <2>2 DEF PageShown
  <2>6. Paged'
    BY <1>1, <2>2, <2>3, <2>4, <2>5 DEF Paged, Typed
  <2>7. Seen'
    <3>1. Bottom' = arrived + 1 - offset - PageSize
      BY <1>1, <2>3, <2>5 DEF Bottom
    <3>2. ASSUME NEW high \in seen \cup PageSpan(arrived, offset), NEW t \in Nat \ {0},
                 arrived + 1 - offset - PageSize <= t, t <= high
          PROVE  t \in seen \cup PageSpan(arrived, offset)
      <4>1. arrived \in Nat /\ offset \in Nat /\ PageSize \in Nat /\ seen \subseteq Nat
        BY PageAssumption DEF Typed
      <4>2. CASE t <= arrived - offset
        BY <3>2, <4>1, <4>2 DEF PageSpan
      <4>3. CASE t > arrived - offset
        <5>1. high \in seen
          BY <3>2, <4>1, <4>3 DEF PageSpan
        <5>2. Bottom <= t
          BY <4>1, <4>3, BottomIsInt
        <5> QED BY <2>2, <3>2, <5>1, <5>2 DEF Seen
      <4> QED BY <4>1, <4>2, <4>3
    <3> QED BY <2>1, <2>3, <3>1, <3>2 DEF Seen
  <2> QED BY <1>2, <1>3, <2>4, <2>6, <2>7
<1> QED BY <1>4, <1>5, <1>6

LEMMA ToggleKeeps ==
    ASSUME ReaderInv, ToggleShowAll
    PROVE  ReaderInv'
BY DEF ToggleShowAll, ReaderInv, Typed, Matched, Asking, Paged, PageShown, Seen, Bottom, Story,
       storyVars, readVars

\* Another page is asked for, from the page shown.
LEMMA TurnKeeps ==
    ASSUME ReaderInv, PageShown, NEW o \in Nat, AskPage(o),
           o > 0 => o < shown.page.total, o <= offset + PageSize,
           UNCHANGED <<arrived, screen, opened, showAll, seen, storyVars>>
    PROVE  ReaderInv'
<1> USE DEF ReaderInv
<1>1. /\ arrived' = arrived /\ screen' = screen /\ seen' = seen /\ offset' = o
      /\ shown' = [status |-> "loading"] /\ Ask([kind |-> "list", offset |-> o])
      /\ screen = "list"
  BY DEF AskPage, Loading, PageShown
<1>2. Typed'
  BY <1>1, AskIsLive DEF Typed
<1>3. Matched'
  BY <1>1, AskIsLive DEF Matched, Asking
<1>4. ~PageShown'
  BY <1>1 DEF PageShown
<1>5. Paged'
  <2>1. arrived \in Nat /\ shown.page.total \in Nat /\ shown.page.total <= arrived
    BY DEF Paged, Typed
  <2> QED BY <1>1, <1>4, <2>1 DEF Paged
<1>6. Seen'
  <2>1. arrived \in Nat /\ offset \in Nat /\ PageSize \in Nat
        /\ shown.page.total \in Nat /\ shown.page.total <= arrived
    BY PageAssumption DEF Paged, Typed
  <2>2. Bottom = shown.page.total + 1 - offset - PageSize /\ Bottom' = arrived + 1 - o
    BY <1>1, <1>4 DEF Bottom
  <2>3. Bottom \in Int /\ Bottom' \in Int /\ Bottom <= Bottom'
    BY <2>1, <2>2
  <2> QED BY <1>1, <1>2, <2>3, PageAssumption, SeenStands
<1>7. Story'
  BY <1>1 DEF Story
<1> QED BY <1>2, <1>3, <1>5, <1>6, <1>7

LEMMA NewerKeeps ==
    ASSUME ReaderInv, Newer
    PROVE  ReaderInv'
<1> DEFINE o == NewerOffset(shown.page)
<1>1. PageShown /\ AskPage(o) /\ UNCHANGED <<arrived, screen, opened, showAll, seen, storyVars>>
  BY DEF Newer
<1>2. /\ shown.page.offset = offset /\ offset \in Nat /\ PageSize \in Nat /\ shown.page.total \in Nat
      /\ offset > 0 => offset < shown.page.total
  BY <1>1, PageAssumption DEF ReaderInv, Typed, Paged
<1>3. o \in Nat /\ o <= offset
  BY <1>2 DEF NewerOffset
<1> HIDE DEF o
<1> QED BY <1>1, <1>2, <1>3, TurnKeeps

LEMMA OlderKeeps ==
    ASSUME ReaderInv, Older
    PROVE  ReaderInv'
<1> DEFINE o == OlderOffset(shown.page)
<1>1. PageShown /\ AskPage(o) /\ shown.page.offset + PageSize < shown.page.total
      /\ UNCHANGED <<arrived, screen, opened, showAll, seen, storyVars>>
  BY DEF Older
<1>2. shown.page.offset = offset /\ offset \in Nat /\ PageSize \in Nat /\ shown.page.total \in Nat
  BY <1>1, PageAssumption DEF ReaderInv, Typed, Paged
<1>3. o = offset + PageSize
  BY <1>2 DEF OlderOffset
<1> HIDE DEF o
<1> QED BY <1>1, <1>2, <1>3, TurnKeeps

LEMMA AnswerTraceKeeps ==
    ASSUME ReaderInv, NEW r \in reads, NEW response, AnswerTrace(r, response)
    PROVE  ReaderInv'
<1> USE DEF ReaderInv
<1>1. /\ r.of.kind = "trace" /\ reads' = reads \ {r}
      /\ arrived' = arrived /\ screen' = screen /\ opened' = opened /\ offset' = offset
      /\ seen' = seen /\ made' = made /\ live' = live /\ UNCHANGED storyVars
  BY DEF AnswerTrace, listVars
<1>2. Typed'
  BY <1>1 DEF Typed
<1>3. Matched'
  BY <1>1 DEF Matched, Asking, storyVars
<1>4. Story'
  <2>1. screen # "story" \/ \A x \in reads : x.n = live => x \in reads'
    BY <1>1, LiveIsOfScreen
  <2> QED BY <1>1, <2>1, StoryStands
<1>5. CASE ~Counts(r)
  <2>1. shown' = shown
    BY <1>5 DEF AnswerTrace
  <2>2. Paged' /\ Seen'
    BY <1>1, <2>1 DEF Paged, PageShown, Seen, Bottom
  <2> QED BY <1>2, <1>3, <1>4, <2>2
<1>6. CASE Counts(r)
  <2>1. shown' = [status |-> TraceStatus(response), trace |-> r.of.trace]
    BY <1>6 DEF AnswerTrace
  <2>2. screen = "trace" /\ r.of.trace = opened
    BY <1>1, <1>6, LiveIsOfScreen DEF Counts
  <2>3. Paged' /\ Seen'
    BY <1>1, <2>1, <2>2 DEF Paged, PageShown, Seen
  <2> QED BY <1>2, <1>3, <1>4, <2>3
<1> QED BY <1>5, <1>6

-----------------------------------------------------------------------------
\* The story window.

LEMMA FirstIsTold ==
    ASSUME Told # {}
    PROVE  First \in Told
<1>1. CASE \E c \in Told : IdOf(c) = Current
  BY <1>1 DEF First
<1>2. CASE ~ \E c \in Told : IdOf(c) = Current
  <2>1. Told \subseteq Nat
    BY ChatsAssumption DEF Told
  <2>2. \E c \in Told : \A d \in Told : c <= d
    BY <2>1, LeastOf
  <2> QED BY <1>2, <2>2 DEF First
<1> QED BY <1>1, <1>2

\* The chats the window opens on.
LEMMA AnchorStands ==
    /\ IsFiniteSet(Anchor) /\ (Anchor # {} \/ Told = {})
    /\ (Current = None \/ \E c \in Told : IdOf(c) = Current) => Anchor \subseteq ToldIds
<1>1. Told = {} \/ First \in Told
  BY FirstIsTold
<1>2. \A x : IsFiniteSet({x})
  BY FS_Singleton
<1>3. IsFiniteSet({})
  BY FS_EmptySet
<1> QED BY <1>1, <1>2, <1>3 DEF Anchor, ToldIds

LEMMA OpenStoryKeeps ==
    ASSUME ReaderInv, NEW turn, OpenStory(turn)
    PROVE  ReaderInv'
<1> USE DEF ReaderInv
<1> DEFINE of == [kind |-> "story", traces |-> asked']
<1>1. /\ screen' = "story" /\ shown' = [status |-> "loading"] /\ chosen' = Anchor
      /\ models' = {} /\ asked' = TraceIds(chosen', focus') /\ Ask(of)
      /\ arrived' = arrived /\ offset' = offset /\ seen' = seen
  BY DEF OpenStory, AskTraces, Loading, listVars
<1>2. Typed'
  BY <1>1, AskIsLive DEF Typed
<1>3. Matched'
  BY <1>1, AskIsLive DEF Matched, Asking
<1>4. Paged' /\ Seen'
  BY <1>1 DEF Paged, PageShown, Seen
<1>5. Story'
  BY <1>1, AnchorStands DEF Story
<1> QED BY <1>2, <1>3, <1>4, <1>5

\* The story's traces are asked for anew, or are those asked for.
LEMMA AskTracesKeeps ==
    ASSUME ReaderInv, screen = "story", AskTraces(chosen', focus'),
           UNCHANGED <<arrived, screen, opened, shown, listVars, models>>,
           IsFiniteSet(chosen'), chosen' # {} \/ Told = {},
           (Current = None \/ \E c \in Told : IdOf(c) = Current) => chosen' \subseteq ToldIds
    PROVE  ReaderInv'
<1> USE DEF ReaderInv
<1>1. /\ arrived' = arrived /\ screen' = screen /\ shown' = shown /\ offset' = offset
      /\ seen' = seen /\ models' = models /\ opened' = opened
      /\ asked' = TraceIds(chosen', focus')
  BY DEF AskTraces, listVars
<1>2. Paged' /\ Seen'
  BY <1>1 DEF Paged, PageShown, Seen
<1>3. CASE asked' = asked
  <2>1. reads' = reads /\ made' = made /\ live' = live
    BY <1>3 DEF AskTraces, readVars
  <2>2. Typed' /\ Matched' /\ Story'
    BY <1>1, <1>3, <2>1 DEF Typed, Matched, Asking, Story
  <2> QED BY <1>2, <2>2
<1>4. CASE asked' # asked
  <2>1. Ask([kind |-> "story", traces |-> asked'])
    BY <1>4 DEF AskTraces
  <2>2. Typed' /\ Matched'
    BY <1>1, <2>1, AskIsLive DEF Typed, Matched, Asking
  <2>3. Story'
    BY <1>1, <2>1, AskIsLive DEF Story
  <2> QED BY <1>2, <2>2, <2>3
<1> QED BY <1>3, <1>4

LEMMA PickKeeps ==
    ASSUME ReaderInv, NEW c, Pick(c)
    PROVE  ReaderInv'
<1> DEFINE id == IdOf(c)
<1>1. /\ screen = "story" /\ c \in Told /\ chosen' = Picked(id) /\ focus' = focus
      /\ AskTraces(chosen', focus')
      /\ UNCHANGED <<arrived, screen, opened, shown, listVars, models>>
  BY DEF Pick
<1>2. /\ IsFiniteSet(chosen)
      /\ (Current = None \/ \E d \in Told : IdOf(d) = Current) => chosen \subseteq ToldIds
      /\ chosen # {} \/ Told = {}
  BY <1>1 DEF ReaderInv, Story
<1>3. id \in ToldIds
  BY <1>1 DEF ToldIds
<1> HIDE DEF id
<1>4. CASE id \notin chosen
  <2>1. chosen' = chosen \cup {id}
    BY <1>1, <1>4 DEF Picked
  <2>2. IsFiniteSet(chosen')
    BY <1>2, <2>1, FS_AddElement
  <2> QED BY <1>1, <1>2, <1>3, <2>1, <2>2, AskTracesKeeps
<1>5. CASE id \in chosen /\ Cardinality(chosen) > 1
  <2>1. chosen' = chosen \ {id}
    BY <1>1, <1>5 DEF Picked
  <2>2. IsFiniteSet(chosen') /\ Cardinality(chosen') = Cardinality(chosen) - 1
        /\ Cardinality(chosen) \in Nat
    BY <1>2, <1>5, <2>1, FS_RemoveElement, FS_CardinalityType
  <2>3. chosen' # {}
    BY <1>5, <2>2, FS_EmptySet
  <2> QED BY <1>1, <1>2, <2>1, <2>2, <2>3, AskTracesKeeps
<1>6. CASE id \in chosen /\ ~(Cardinality(chosen) > 1)
  <2>1. chosen' = chosen
    BY <1>1, <1>6 DEF Picked
  <2> QED BY <1>1, <1>2, <2>1, AskTracesKeeps
<1> QED BY <1>4, <1>5, <1>6

LEMMA FocusKeeps ==
    ASSUME ReaderInv, NEW t, Focus(t)
    PROVE  ReaderInv'
<1>1. /\ screen = "story" /\ chosen' = chosen /\ focus' = t /\ AskTraces(chosen', focus')
      /\ UNCHANGED <<arrived, screen, opened, shown, listVars, models>>
  BY DEF Focus
<1>2. /\ IsFiniteSet(chosen)
      /\ (Current = None \/ \E d \in Told : IdOf(d) = Current) => chosen \subseteq ToldIds
      /\ chosen # {} \/ Told = {}
  BY <1>1 DEF ReaderInv, Story
<1> QED BY <1>1, <1>2, AskTracesKeeps

LEMMA AnswerStoryKeeps ==
    ASSUME ReaderInv, NEW r \in reads, NEW failing, AnswerStory(r, failing)
    PROVE  ReaderInv'
<1> USE DEF ReaderInv
<1>1. /\ r.of.kind = "story" /\ reads' = reads \ {r} /\ shown' = shown
      /\ arrived' = arrived /\ screen' = screen /\ opened' = opened /\ offset' = offset
      /\ seen' = seen /\ made' = made /\ live' = live
      /\ chosen' = chosen /\ focus' = focus /\ asked' = asked
      /\ models' = IF Counts(r) THEN Obtained(r.of.traces, failing) ELSE models
  BY DEF AnswerStory, listVars
<1>2. Typed' /\ Matched' /\ Paged' /\ Seen'
  BY <1>1 DEF Typed, Matched, Asking, Paged, PageShown, Seen, Bottom
<1>3. Story'
  <2>1. CASE Counts(r)
    <3>1. screen = "story" /\ r.of.traces = asked
      BY <1>1, <2>1, LiveIsOfScreen DEF Counts
    <3>2. models' \subseteq asked
      BY <1>1, <2>1, <3>1 DEF Obtained
    <3> QED BY <1>1, <3>1, <3>2 DEF Story
  <2>2. CASE ~Counts(r)
    BY <1>1, <2>2 DEF Story, Counts
  <2> QED BY <2>1, <2>2
<1> QED BY <1>2, <1>3

-----------------------------------------------------------------------------
\* The invariant, and what follows from it.

LEMMA ReaderInit ==
    ASSUME AppInit
    PROVE  ReaderInv
<1> DEFINE first == [n |-> 1, of |-> [kind |-> "list", offset |-> 0]]
<1>1. /\ arrived = 0 /\ screen = "list" /\ offset = 0 /\ seen = {}
      /\ shown = [status |-> "loading"] /\ reads = {first} /\ made = 1 /\ live = 1
  BY DEF AppInit, Init, Loading
<1>2. first.n = 1 /\ first.of = [kind |-> "list", offset |-> 0]
  OBVIOUS
<1> HIDE DEF first
<1>3. Typed /\ Matched
  BY <1>1, <1>2 DEF Typed, Matched, Asking
<1>4. Paged /\ Seen /\ Story
  BY <1>1 DEF Paged, PageShown, Seen, Story
<1> QED BY <1>3, <1>4 DEF ReaderInv

LEMMA ReaderStutters ==
    ASSUME ReaderInv, UNCHANGED vars
    PROVE  ReaderInv'
BY DEF vars, listVars, storyVars, readVars, ReaderInv, Typed, Matched, Asking, Paged, PageShown,
       Seen, Bottom, Story

LEMMA ReaderStep ==
    ASSUME ReaderInv, [AppNext]_appVars
    PROVE  ReaderInv'
<1>1. CASE Collect
  BY <1>1, CollectKeeps
<1>2. CASE Answers
  <2>1. ASSUME NEW r \in reads, NEW response, AnswerPage(r, response)
        PROVE  ReaderInv'
    BY <2>1, AnswerPageKeeps
  <2>2. ASSUME NEW r \in reads, NEW response, AnswerTrace(r, response)
        PROVE  ReaderInv'
    BY <2>2, AnswerTraceKeeps
  <2>3. ASSUME NEW r \in reads, NEW failing, AnswerStory(r, failing)
        PROVE  ReaderInv'
    BY <2>3, AnswerStoryKeeps
  <2> QED BY <1>2, <2>1, <2>2, <2>3 DEF Answers
<1>3. CASE Operator
  <2>1. CASE ToggleShowAll
    BY <2>1, ToggleKeeps
  <2>2. CASE Newer
    BY <2>2, NewerKeeps
  <2>3. CASE Older
    BY <2>3, OlderKeeps
  <2>4. CASE Back \/ CloseStory
    BY <2>4, MountKeeps DEF Back, CloseStory, ReaderInv
  <2>5. ASSUME NEW t, Open(t)
        PROVE  ReaderInv'
    BY <2>5, OpenKeeps DEF Open, ReaderInv
  <2>6. ASSUME NEW t, Focus(t)
        PROVE  ReaderInv'
    BY <2>6, FocusKeeps
  <2>7. ASSUME NEW turn, OpenStory(turn)
        PROVE  ReaderInv'
    BY <2>7, OpenStoryKeeps
  <2>8. ASSUME NEW c, Pick(c)
        PROVE  ReaderInv'
    BY <2>8, PickKeeps
  <2> QED BY <1>3, <2>1, <2>2, <2>3, <2>4, <2>5, <2>6, <2>7, <2>8 DEF Operator
<1>4. CASE GoExplore
  BY <1>4, GoExploreKeeps DEF ReaderInv
<1>5. CASE GoTraces
  BY <1>5, MountKeeps DEF GoTraces, ReaderInv
<1>6. ASSUME NEW t, OpenExemplar(t)
      PROVE  ReaderInv'
  BY <1>6, OpenKeeps DEF OpenExemplar, ReaderInv
<1>7. CASE UNCHANGED vars
  BY <1>7, ReaderStutters
<1> QED BY <1>1, <1>2, <1>3, <1>4, <1>5, <1>6, <1>7 DEF AppNext, appVars

LEMMA ReaderInvariant == AppSpec => []ReaderInv
<1>1. AppInit => ReaderInv
  BY ReaderInit
<1>2. ReaderInv /\ [AppNext]_appVars => ReaderInv'
  BY ReaderStep
<1> QED BY <1>1, <1>2, PTL DEF AppSpec

\* Whatever screen is mounted shows what it asked for last, whatever is in flight
\* (ShownIsAsked).
THEOREM ScreenShowsAsked == AppSpec => []ShownIsAsked
<1>1. ReaderInv => ShownIsAsked
  <2> SUFFICES ASSUME ReaderInv PROVE ShownIsAsked
    OBVIOUS
  <2>1. PanelShowsAsked
    BY DEF ReaderInv, Paged, PanelShowsAsked
  <2>2. ASSUME screen = "story"
        PROVE  /\ focus \in asked \cup {None}
               /\ (\A r \in reads : r.n # live) => models \subseteq asked
               /\ chosen # {} \/ Told = {}
               /\ (Current = None \/ \E c \in Told : IdOf(c) = Current) => chosen \subseteq ToldIds
    BY <2>2 DEF ReaderInv, Story, TraceIds
  <2>3. ASSUME chosen \subseteq ToldIds, chosen # {}
        PROVE  Visible(chosen) # {}
    BY <2>3 DEF Visible, ToldIds
  <2>4. focus \in models => FocusModels = {focus}
    BY DEF FocusModels
  <2>5. StoryHoldsFocus
    BY <2>2, <2>3, <2>4 DEF StoryHoldsFocus
  <2> QED BY <2>1, <2>5 DEF ShownIsAsked
<1> QED BY <1>1, ReaderInvariant, PTL

\* Paging back passes no trace and comes to no blank page, whatever is collected
\* meanwhile and however many answers are late (NothingIsSkipped).
THEOREM PagingIsComplete == AppSpec => []NothingIsSkipped
<1>1. ReaderInv => NothingIsSkipped
  <2> SUFFICES ASSUME ReaderInv, PageShown PROVE
        /\ \A low \in Rows(shown.page), high \in seen : \A t \in low .. high : t \in seen
        /\ offset > 0 => shown.page.traces # <<>>
    BY DEF NothingIsSkipped
  <2> DEFINE total == shown.page.total
  <2>1. /\ total \in Nat /\ offset \in Nat /\ PageSize \in Nat \ {0} /\ seen \subseteq Nat
        /\ Rows(shown.page) = PageSpan(total, offset)
        /\ offset > 0 => offset < total
        /\ Bottom = total + 1 - offset - PageSize
        /\ screen = "list"
    BY PageAssumption DEF ReaderInv, Typed, Paged, Bottom, PageShown
  <2> HIDE DEF total
  <2>2. ASSUME NEW low \in PageSpan(total, offset), NEW high \in seen, NEW t \in low .. high
        PROVE  t \in seen
    <3>1. low \in Nat \ {0} /\ Bottom <= low
      BY <2>1 DEF PageSpan
    <3>2. t \in Nat \ {0} /\ Bottom <= t /\ t <= high
      BY <2>1, <3>1
    <3> QED BY <2>1, <3>2 DEF ReaderInv, Seen
  <2>3. ASSUME offset > 0
        PROVE  shown.page.traces # <<>>
    <3>1. total - offset \in PageSpan(total, offset)
      BY <2>1, <2>3 DEF PageSpan
    <3>2. Rows(shown.page) # {}
      BY <2>1, <3>1
    <3> QED BY <3>2 DEF Rows
  <2> QED BY <2>1, <2>2, <2>3
<1> QED BY <1>1, ReaderInvariant, PTL

-----------------------------------------------------------------------------
\* A region's filter and its cells.

\* Integer division, as the theorem needs it.
LEMMA DivBounds ==
    ASSUME NEW a \in Int, NEW b \in Nat \ {0}
    PROVE  /\ a \div b \in Int /\ a % b \in Int
           /\ b * (a \div b) <= a /\ a < b * (a \div b) + b
           /\ a % b = 0 <=> b * (a \div b) = a
OBVIOUS

\* A positive factor keeps the order.
LEMMA Scales ==
    ASSUME NEW a \in Nat \ {0}, NEW i \in Int, NEW j \in Int
    PROVE  i <= j <=> a * i <= a * j
OBVIOUS

\* A column's lower boundary, rounded down, lets in what is below the column only on
\* the boundary.
LEMMA Boundary ==
    ASSUME NEW w \in Nat \ {0}, NEW b \in Nat \ {0}, NEW x \in Nat, NEW c \in Nat
    PROVE  LET p == (x * b) \div w
               q == (w * c) \div b
           IN /\ p \in Int /\ q \in Int
              /\ c <= p => q <= x
              /\ p < c /\ q <= x => x = q /\ (w * c) % b # 0
<1> DEFINE p == (x * b) \div w
           q == (w * c) \div b
<1>1. /\ p \in Int /\ w * p <= x * b /\ x * b < w * p + w
  <2>1. x * b \in Int
    OBVIOUS
  <2>2. QED
    BY <2>1, DivBounds
<1>2. /\ q \in Int /\ b * q <= w * c /\ w * c < b * q + b
      /\ (w * c) % b = 0 <=> b * q = w * c
  <2>1. w * c \in Int
    OBVIOUS
  <2>2. QED
    BY <2>1, DivBounds
<1> HIDE DEF p, q
<1>3. ASSUME c <= p PROVE q <= x
  <2>1. w * c <= w * p
    BY <1>1, <1>3, Scales
  <2>2. b * q <= b * x
    BY <1>1, <1>2, <2>1
  <2>3. QED
    BY <1>2, <2>2, Scales
<1>4. ASSUME p < c, q <= x PROVE x = q /\ (w * c) % b # 0
  <2>1. w * (p + 1) <= w * c
    <3>1. p + 1 <= c /\ p + 1 \in Int
      BY <1>1, <1>4
    <3>2. QED
      BY <3>1, Scales
  <2>2. b * x < w * c
    BY <1>1, <2>1
  <2>3. b * x < b * (q + 1)
    BY <1>2, <2>2
  <2>4. ~(q + 1 <= x)
    <3>1. q + 1 \in Int
      BY <1>2
    <3>2. b * (q + 1) \in Int /\ b * x \in Int
      BY <1>2
    <3>3. QED
      BY <2>3, <3>1, <3>2, Scales
  <2>5. x = q
    BY <1>2, <1>4, <2>4
  <2>6. b * q # w * c
    BY <2>2, <2>5
  <2>7. QED
    BY <1>2, <2>5, <2>6
<1>5. QED
  BY <1>1, <1>2, <1>3, <1>4 DEF p, q

\* A quotient of naturals is one.
LEMMA Quotient ==
    ASSUME NEW a \in Nat, NEW b \in Nat \ {0}
    PROVE  a \div b \in Nat
<1> DEFINE d == a \div b
<1>1. d \in Int /\ a < b * d + b
  BY DivBounds
<1> HIDE DEF d
<1>2. b * 0 < b * (d + 1)
  BY <1>1
<1>3. ~(d + 1 <= 0)
  <2>1. d + 1 \in Int /\ b * (d + 1) \in Int /\ b * 0 \in Int
    BY <1>1
  <2>2. QED
    BY <1>2, <2>1, Scales
<1>4. QED
  BY <1>1, <1>3 DEF d

\* The boundary after the last column is the range's end.
LEMMA WholeIsLast ==
    ASSUME NEW w \in Nat, NEW b \in Nat \ {0}
    PROVE  (w * b) \div b = w
<1> DEFINE d == (w * b) \div b
<1>1. d \in Int /\ b * d <= w * b /\ w * b < b * d + b
  <2>1. w * b \in Int
    OBVIOUS
  <2>2. QED
    BY <2>1, DivBounds
<1> HIDE DEF d
<1>2. b * d <= b * w /\ b * w < b * (d + 1)
  BY <1>1
<1>3. d <= w
  BY <1>1, <1>2, Scales
<1>4. ~(d + 1 <= w)
  <2>1. d + 1 \in Int /\ b * w \in Int /\ b * (d + 1) \in Int
    BY <1>1
  <2>2. QED
    BY <1>2, <2>1, Scales
<1>5. QED
  BY <1>1, <1>3, <1>4 DEF d

\* Of finitely many spans one started last: the fewest that would have none have one fewer
\* with none, those after any of them.
LEMMA LatestSpan ==
    ASSUME NEW spans \in Spools, spans # {}
    PROVE  \E g \in spans : \A r \in spans : g.start >= r.start
<1> DEFINE Endless(T) == T # {} /\ \A g \in T : \E r \in T : r.start > g.start
           sizes   == {Cardinality(T) : T \in {U \in SUBSET spans : Endless(U)}}
<1>1. IsFiniteSet(spans) /\ \A s \in spans : s.start \in Nat
  BY SpoolsAssumption
<1>2. ASSUME Endless(spans) PROVE FALSE
  <2>1. sizes \in SUBSET Nat /\ sizes # {}
    <3>1. \A T \in SUBSET spans : Cardinality(T) \in Nat
      BY <1>1, FS_Subset, FS_CardinalityType
    <3>2. QED
      BY <1>2, <3>1
  <2>2. PICK m \in sizes : \A i \in sizes : m <= i
    <3> HIDE DEF sizes
    <3>1. QED
      BY <2>1, LeastOf
  <2>3. PICK T \in SUBSET spans : Endless(T) /\ Cardinality(T) = m
    OBVIOUS
  <2>4. PICK t \in T : TRUE
    BY <2>3
  <2> DEFINE later == {u \in T : u.start > t.start}
  <2>5. /\ later \in SUBSET T /\ later \in SUBSET spans /\ later # T
        /\ \A s \in T : s.start \in Nat
    <3>1. t.start \in Nat
      BY <1>1, <2>4
    <3>2. t \notin later
      BY <3>1
    <3>3. QED
      BY <1>1, <2>4, <3>2
  <2>6. Endless(later)
    <3>1. later # {}
      BY <2>3
    <3>2. ASSUME NEW g \in later PROVE \E r \in later : r.start > g.start
      <4>1. PICK r \in T : r.start > g.start
        BY <2>3
      <4>2. r.start \in Nat /\ g.start \in Nat /\ t.start \in Nat /\ g.start > t.start
        BY <2>5
      <4>3. r \in later
        BY <4>1, <4>2
      <4>4. QED
        BY <4>1, <4>3
    <3> HIDE DEF later
    <3>3. QED
      BY <3>1, <3>2
  <2>7. IsFiniteSet(T) /\ Cardinality(T) \in Nat
    BY <1>1, FS_Subset, FS_CardinalityType
  <2>8. Cardinality(later) \in Nat /\ Cardinality(later) <= Cardinality(T)
        /\ Cardinality(later) # Cardinality(T)
    <3> HIDE DEF later
    <3>1. QED
      BY <2>5, <2>7, FS_Subset, FS_CardinalityType
  <2>9. Cardinality(later) \in sizes
    <3> HIDE DEF later, Endless
    <3>1. QED
      BY <2>5, <2>6
  <2>10. Cardinality(T) <= Cardinality(later)
    <3> HIDE DEF later, sizes
    <3>1. QED
      BY <2>2, <2>3, <2>9
  <2> HIDE DEF later, sizes
  <2>11. QED
    BY <2>7, <2>8, <2>10
<1>3. PICK g \in spans : \A r \in spans : ~(r.start > g.start)
  BY <1>2
<1>4. QED
  BY <1>1, <1>3

\* A span starts within the heatmap's time range, which is not empty.
LEMMA RangeOf ==
    ASSUME NEW spans \in Spools, NEW s \in spans
    PROVE  LET range == Explore!timeRange(spans)
           IN /\ range.from \in Nat /\ range.to \in Nat /\ range.from < range.to
              /\ s.start \in Nat /\ range.from <= s.start /\ s.start <= range.to
<1> DEFINE times == Explore!Starts(spans)
           from  == Explore!Earliest(times)
           to    == Explore!Latest(times)
<1>1. \A r \in spans : r.start \in Nat
  BY SpoolsAssumption
<1>2. s.start \in times /\ times \subseteq Nat
  BY <1>1 DEF Explore!Starts
<1>3. \E t \in times : \A u \in times : t <= u
  <2> HIDE DEF times
  <2>1. QED
    BY <1>2, LeastOf
<1>4. \E t \in times : \A u \in times : t >= u
  <2>1. PICK g \in spans : \A r \in spans : g.start >= r.start
    BY LatestSpan
  <2>2. QED
    BY <2>1 DEF Explore!Starts
<1>5. from \in times /\ \A u \in times : from <= u
  BY <1>3 DEF Explore!Earliest
<1>6. to \in times /\ \A u \in times : to >= u
  BY <1>4 DEF Explore!Latest
<1>7. Explore!timeRange(spans) = [from |-> from, to |-> IF to <= from THEN from + 1 ELSE to]
  BY DEF Explore!timeRange
<1> DEFINE range == Explore!timeRange(spans)
<1>8. range.from = from /\ range.to = IF to <= from THEN from + 1 ELSE to
  BY <1>7
<1> HIDE DEF from, to, times, range
<1>9. from \in Nat /\ to \in Nat /\ s.start \in Nat /\ from <= s.start /\ s.start <= to
  BY <1>2, <1>5, <1>6
<1>10. /\ range.from \in Nat /\ range.to \in Nat /\ range.from < range.to
       /\ s.start \in Nat /\ range.from <= s.start /\ s.start <= range.to
  BY <1>8, <1>9
<1>11. QED
  BY <1>10 DEF range

\* The columns l to h count the spans their boundaries take, but for those on a rounded
\* boundary and the latest.
LEMMA Columns ==
    ASSUME NEW spans \in Spools, NEW s \in spans,
           NEW l \in 0 .. Buckets - 1, NEW h \in 0 .. Buckets - 1
    PROVE  LET range   == Explore!timeRange(spans)
               k       == Explore!timeBucketIndex(spans, s.start)
               taken   == /\ Explore!TimeEdge(spans, l) <= s.start
                          /\ s.start < Explore!TimeEdge(spans, h + 1)
               rounded == {Explore!TimeEdge(spans, i) : i \in
                             {j \in 1 .. Buckets - 1 : ((range.to - range.from) * j) % Buckets # 0}}
           IN /\ k \in 0 .. Buckets - 1
              /\ l <= k /\ k <= h /\ ~taken => s.start \in rounded \/ s.start = range.to
              /\ taken /\ ~(l <= k /\ k <= h) => s.start \in rounded
<1> DEFINE range   == Explore!timeRange(spans)
           k       == Explore!timeBucketIndex(spans, s.start)
           w       == range.to - range.from
           x       == s.start - range.from
           p       == (x * Buckets) \div w
           m       == h + 1
           ql      == (w * l) \div Buckets
           qm      == (w * m) \div Buckets
           rl      == (w * l) % Buckets
           rm      == (w * m) % Buckets
           lo      == Explore!TimeEdge(spans, l)
           hi      == Explore!TimeEdge(spans, m)
           rounded == {Explore!TimeEdge(spans, i) : i \in {j \in 1 .. Buckets - 1 : (w * j) % Buckets # 0}}
<1>1. /\ range.from \in Nat /\ range.to \in Nat /\ s.start \in Nat
      /\ w \in Nat \ {0} /\ x \in Nat /\ x <= w
      /\ s.start = range.from + x /\ range.to = range.from + w
  BY RangeOf
<1>2. lo = range.from + ql /\ hi = range.from + qm
  BY DEF Explore!TimeEdge
<1>3. k = IF p >= Buckets THEN Buckets - 1 ELSE p
  BY DEF Explore!timeBucketIndex
<1>4. Buckets \in Nat \ {0}
  BY HeatmapAssumption
<1> HIDE DEF range, w, x
<1>5. /\ ql \in Int /\ (l <= p => ql <= x) /\ (p < l /\ ql <= x => x = ql /\ rl # 0)
      /\ qm \in Int /\ (m <= p => qm <= x) /\ (p < m /\ qm <= x => x = qm /\ rm # 0)
  <2>1. l \in Nat /\ m \in Nat
    BY <1>4
  <2> HIDE DEF m
  <2>2. QED
    BY <1>1, <1>4, <2>1, Boundary
<1>6. p \in Nat
  <2>1. x * Buckets \in Nat
    BY <1>1, <1>4
  <2>2. QED
    BY <1>1, <2>1, Quotient
<1>7. h = Buckets - 1 => qm = w
  <2>1. h = Buckets - 1 => m = Buckets
    BY <1>4
  <2> HIDE DEF m
  <2>2. QED
    BY <1>1, <1>4, <2>1, WholeIsLast
<1>8. /\ l \in 1 .. Buckets - 1 /\ rl # 0 /\ x = ql => s.start \in rounded
      /\ m \in 1 .. Buckets - 1 /\ rm # 0 /\ x = qm => s.start \in rounded
  <2>1. (x = ql => lo = s.start) /\ (x = qm => hi = s.start)
    BY <1>1, <1>2
  <2> HIDE DEF m, ql, qm
  <2>2. QED
    BY <2>1
<1>9. m = h + 1 /\ l \in Int /\ h \in Int
  BY <1>4
<1> HIDE DEF k, p, m, ql, qm, rl, rm, rounded, lo, hi
<1>10. k \in 0 .. Buckets - 1
  BY <1>3, <1>4, <1>6
<1>11. ASSUME l <= k, k <= h, ~(lo <= s.start /\ s.start < hi)
       PROVE  s.start \in rounded \/ s.start = range.to
  <2>1. l <= p
    BY <1>3, <1>4, <1>6, <1>11
  <2>2. lo <= s.start
    BY <1>1, <1>2, <1>5, <2>1
  <2>3. qm <= x /\ qm \in Int
    BY <1>1, <1>2, <1>5, <1>11, <2>2
  <2>4. CASE h = Buckets - 1
    <3>1. qm = w
      BY <1>7, <2>4
    <3>2. QED
      BY <1>1, <2>3, <3>1
  <2>5. CASE h # Buckets - 1
    <3>1. p < m /\ m \in 1 .. Buckets - 1
      BY <1>3, <1>4, <1>6, <1>9, <1>11, <2>5
    <3>2. x = qm /\ rm # 0
      BY <1>5, <1>9, <2>3, <3>1
    <3>3. QED
      BY <1>8, <3>1, <3>2
  <2>6. QED
    BY <2>4, <2>5
<1>12. ASSUME lo <= s.start, s.start < hi, ~(l <= k /\ k <= h)
       PROVE  s.start \in rounded
  <2>1. CASE k < l
    <3>1. p < l /\ l \in 1 .. Buckets - 1
      BY <1>3, <1>4, <1>6, <2>1
    <3>2. ql <= x
      BY <1>1, <1>2, <1>5, <1>12
    <3>3. x = ql /\ rl # 0
      BY <1>5, <1>9, <3>1, <3>2
    <3>4. QED
      BY <1>8, <3>1, <3>3
  <2>2. CASE k > h
    <3>1. m <= p
      BY <1>3, <1>4, <1>6, <1>9, <2>2
    <3>2. qm <= x
      BY <1>5, <1>9, <3>1
    <3>3. QED
      BY <1>1, <1>2, <1>5, <1>12, <3>2
  <2>3. QED
    BY <1>10, <1>12, <2>1, <2>2
<1>13. QED
  BY <1>10, <1>11, <1>12, Zenon DEF range, k, w, m, rounded, lo, hi

\* The rows l to h count the durations from the lower edge of l up to the upper one of h.
LEMMA DurationRows ==
    ASSUME NEW dur \in Nat, NEW l \in 0 .. Len(Edges) - 1, NEW h \in 0 .. Len(Edges) - 1
    PROVE  LET k == Explore!durationBucketIndex(dur)
           IN /\ k \in 0 .. Len(Edges) - 1
              /\ l <= k <=> Edges[l + 1] <= dur
              /\ k <= h <=> (h < Len(Edges) - 1 => dur < Edges[h + 2])
<1> DEFINE n      == Len(Edges)
           within == {i \in 1 .. n - 1 : Edges[i] <= dur /\ dur < Edges[i + 1]}
           k      == Explore!durationBucketIndex(dur)
<1>1. /\ n \in Nat \ {0} /\ \A i \in 1 .. n : Edges[i] \in Nat
      /\ \A i, j \in 1 .. n : i < j => Edges[i] < Edges[j]
      /\ Edges[1] = 0
  BY HeatmapAssumption
<1>2. k = IF within = {} THEN n - 1 ELSE (CHOOSE i \in within : TRUE) - 1
  BY DEF Explore!durationBucketIndex
<1>3. n = Len(Edges)
  OBVIOUS
<1> HIDE DEF n, k
<1>4. CASE within = {}
  <2>1. Edges[n] <= dur
    <3> SUFFICES ASSUME ~(Edges[n] <= dur) PROVE FALSE
      OBVIOUS
    <3> DEFINE above == {i \in 1 .. n : dur < Edges[i]}
    <3>1. n \in above /\ above \subseteq Nat
      BY <1>1
    <3>2. PICK m \in above : \A i \in above : m <= i
      BY <3>1, LeastOf
    <3> HIDE DEF above
    <3>3. m \in 1 .. n /\ dur < Edges[m] /\ m # 1
      BY <1>1, <3>2 DEF above
    <3>4. m - 1 \in 1 .. n - 1 /\ m - 1 \in 1 .. n /\ (m - 1) + 1 = m
      BY <1>1, <3>3
    <3>5. ~(dur < Edges[m - 1])
      <4>1. m - 1 \notin above
        BY <3>2, <3>4
      <4>2. QED
        BY <3>4, <4>1 DEF above
    <3>6. Edges[m - 1] <= dur
      BY <1>1, <3>4, <3>5
    <3>7. m - 1 \in within
      BY <3>3, <3>4, <3>6
    <3>8. QED
      BY <1>4, <3>7
  <2>2. k = n - 1
    BY <1>2, <1>4
  <2>3. Edges[l + 1] <= dur
    <3>1. l + 1 \in 1 .. n
      BY <1>1, <1>3
    <3>2. l + 1 = n \/ Edges[l + 1] < Edges[n]
      BY <1>1, <3>1
    <3>3. QED
      BY <1>1, <2>1, <3>1, <3>2
  <2>4. h < n - 1 => ~(dur < Edges[h + 2])
    <3> SUFFICES ASSUME h < n - 1 PROVE ~(dur < Edges[h + 2])
      OBVIOUS
    <3>1. h + 2 \in 1 .. n
      BY <1>1, <1>3
    <3>2. h + 2 = n \/ Edges[h + 2] < Edges[n]
      BY <1>1, <3>1
    <3>3. QED
      BY <1>1, <2>1, <3>1, <3>2
  <2>5. QED
    BY <1>1, <1>3, <2>2, <2>3, <2>4 DEF k
<1>5. CASE within # {}
  <2>1. PICK i \in within : k = i - 1
    BY <1>2, <1>5
  <2>2. i \in 1 .. n - 1 /\ Edges[i] <= dur /\ dur < Edges[i + 1] /\ i + 1 \in 1 .. n /\ i \in 1 .. n
    BY <1>1, <2>1
  <2>3. l <= k <=> Edges[l + 1] <= dur
    <3>1. l + 1 \in 1 .. n
      BY <1>1, <1>3
    <3>2. CASE l + 1 <= i
      <4>1. Edges[l + 1] <= Edges[i]
        BY <1>1, <2>2, <3>1, <3>2
      <4>2. QED
        BY <1>1, <2>1, <2>2, <3>1, <3>2, <4>1
    <3>3. CASE l + 1 > i
      <4>1. Edges[i + 1] <= Edges[l + 1]
        BY <1>1, <2>2, <3>1, <3>3
      <4>2. QED
        BY <1>1, <2>1, <2>2, <3>1, <3>3, <4>1
    <3>4. QED
      BY <2>2, <3>1, <3>2, <3>3
  <2>4. k <= h <=> (h < n - 1 => dur < Edges[h + 2])
    <3>1. h \in 0 .. n - 1
      BY <1>3
    <3>2. CASE h = n - 1
      BY <1>1, <2>1, <2>2, <3>2
    <3>3. CASE h < n - 1 /\ i - 1 <= h
      <4>1. h + 2 \in 1 .. n /\ i + 1 <= h + 2
        BY <1>1, <2>2, <3>1, <3>3
      <4>2. Edges[i + 1] <= Edges[h + 2]
        BY <1>1, <2>2, <4>1
      <4>3. QED
        BY <1>1, <2>1, <2>2, <3>3, <4>1, <4>2
    <3>4. CASE h < n - 1 /\ i - 1 > h
      <4>1. h + 2 \in 1 .. n /\ h + 2 <= i
        BY <1>1, <2>2, <3>1, <3>4
      <4>2. Edges[h + 2] <= Edges[i]
        BY <1>1, <2>2, <4>1
      <4>3. QED
        BY <1>1, <2>1, <2>2, <3>4, <4>1, <4>2
    <3>5. QED
      BY <1>1, <2>2, <3>1, <3>2, <3>3, <3>4
  <2>5. QED
    BY <1>1, <1>3, <2>1, <2>2, <2>3, <2>4 DEF k
<1>6. QED
  BY <1>4, <1>5

\* Between two cells, in whichever order.
LEMMA Spans ==
    ASSUME NEW a \in Int, NEW b \in Int, NEW x \in Int
    PROVE  Explore!Within(a, b, x) <=> Explore!Low(a, b) <= x /\ x <= Explore!High(a, b)
BY DEF Explore!Within, Explore!Low, Explore!High

\* What the filter of a region and its cells disagree on.
LEMMA FilterOfRegion ==
    ASSUME NEW spans \in Spools, NEW s \in spans, NEW a \in Explore!Cells, NEW b \in Explore!Cells
    PROVE  LET region  == Explore!Region(a, b)
               range   == Explore!timeRange(spans)
               counted == Explore!CellOf(spans, s) \in region
               taken   == Explore!matches(Explore!selectionFromCells(spans, a, b), s)
               rounded == {Explore!TimeEdge(spans, i) : i \in
                             {j \in 1 .. Buckets - 1 : ((range.to - range.from) * j) % Buckets # 0}}
           IN /\ counted /\ ~taken => s.start \in rounded \/ s.start = range.to
              /\ taken /\ ~counted => s.start \in rounded
<1> DEFINE range   == Explore!timeRange(spans)
           rounded == {Explore!TimeEdge(spans, i) : i \in
                         {j \in 1 .. Buckets - 1 : ((range.to - range.from) * j) % Buckets # 0}}
           k  == Explore!timeBucketIndex(spans, s.start)
           r  == Explore!durationBucketIndex(s.dur)
           c0 == Explore!Low(a[1], b[1])
           c1 == Explore!High(a[1], b[1])
           r0 == Explore!Low(a[2], b[2])
           r1 == Explore!High(a[2], b[2])
           f  == Explore!selectionFromCells(spans, a, b)
           lo == Explore!TimeEdge(spans, c0)
           hi == Explore!TimeEdge(spans, c1 + 1)
           inTime == lo <= s.start /\ s.start < hi
           inDur  == Edges[r0 + 1] <= s.dur /\ (r1 < Len(Edges) - 1 => s.dur < Edges[r1 + 2])
<1>1. /\ a[1] \in 0 .. Buckets - 1 /\ b[1] \in 0 .. Buckets - 1
      /\ a[2] \in 0 .. Len(Edges) - 1 /\ b[2] \in 0 .. Len(Edges) - 1
  BY DEF Explore!Cells
<1>2. Buckets \in Nat /\ Len(Edges) \in Nat /\ s.dur \in Nat
  BY HeatmapAssumption, SpoolsAssumption
<1>3. /\ c0 \in 0 .. Buckets - 1 /\ c1 \in 0 .. Buckets - 1
      /\ r0 \in 0 .. Len(Edges) - 1 /\ r1 \in 0 .. Len(Edges) - 1
  BY <1>1 DEF Explore!Low, Explore!High
<1>4. /\ k \in 0 .. Buckets - 1
      /\ c0 <= k /\ k <= c1 /\ ~inTime => s.start \in rounded \/ s.start = range.to
      /\ inTime /\ ~(c0 <= k /\ k <= c1) => s.start \in rounded
  <2> HIDE DEF c0, c1
  <2>1. QED
    BY <1>3, Columns
<1>5. r \in 0 .. Len(Edges) - 1 /\ (r0 <= r /\ r <= r1 <=> inDur)
  <2> HIDE DEF r0, r1
  <2>1. QED
    BY <1>2, <1>3, DurationRows
<1>6. Explore!CellOf(spans, s) \in Explore!Region(a, b) <=> (c0 <= k /\ k <= c1) /\ (r0 <= r /\ r <= r1)
  <2>1. Explore!CellOf(spans, s) = <<k, r>>
    BY DEF Explore!CellOf
  <2>2. <<k, r>> \in Explore!Cells
    BY <1>4, <1>5 DEF Explore!Cells
  <2>3. /\ Explore!Within(a[1], b[1], k) <=> c0 <= k /\ k <= c1
        /\ Explore!Within(a[2], b[2], r) <=> r0 <= r /\ r <= r1
    <3> HIDE DEF k, r
    <3>1. a[1] \in Int /\ b[1] \in Int /\ k \in Int /\ a[2] \in Int /\ b[2] \in Int /\ r \in Int
      BY <1>1, <1>2, <1>4, <1>5
    <3>2. QED
      BY <3>1, Spans
  <2> HIDE DEF k, r, c0, c1, r0, r1
  <2>4. QED
    BY <2>1, <2>2, <2>3 DEF Explore!Region
<1>7. Explore!matches(f, s) <=> inTime /\ inDur
  <2>1. /\ f.startMs = lo /\ f.endMs = hi /\ f.minDur = Edges[r0 + 1]
        /\ f.maxDur = IF r1 < Len(Edges) - 1 THEN Edges[r1 + 2] ELSE None
    BY DEF Explore!selectionFromCells
  <2>2. r1 < Len(Edges) - 1 => Edges[r1 + 2] # None
    <3> HIDE DEF r1
    <3>1. r1 < Len(Edges) - 1 => Edges[r1 + 2] \in Nat
      BY <1>3, HeatmapAssumption
    <3>2. QED
      BY <3>1, HeatmapAssumption
  <2> HIDE DEF f, lo, hi, r0, r1
  <2>3. QED
    BY <2>1, <2>2 DEF Explore!matches
<1> HIDE DEF range, rounded, k, r, c0, c1, r0, r1, f, lo, hi
<1>8. QED
  BY <1>4, <1>5, <1>6, <1>7, Zenon DEF range, rounded, f

-----------------------------------------------------------------------------
\* The Explore page.

Ends == Explore!Cells \cup {None}
Statuses == {"unmounted", "loading", "empty", "ok", "error"}

ExploreTyped ==
    /\ stats \in [status : Statuses, spans : Spools \cup {{}}]
    /\ spool \in Spools \cup {{}}
    /\ drag \in [start : Ends, end : Ends]
    /\ selections \in Nat
    /\ breakdown # None => breakdown \in [n : Nat, rect : SUBSET Explore!Cells,
                                          inside : SUBSET UNION Spools]

\* A region is dragged over a heatmap that was read, on a page that is mounted.
Dragged ==
    /\ screen # "explore" => stats.status = "unmounted"
    /\ stats.status = "ok" => stats.spans \in Spools
    /\ drag.start # None => stats.status = "ok" /\ drag.start \in Explore!Cells /\ drag.end \in Explore!Cells

Numbered ==
    /\ \A r \in asks : r.n \in 1 .. selections /\ r.rect \subseteq Explore!Cells
    /\ breakdown # None => breakdown.n <= selections

\* Once the pointer has left the map, the selection last asked for is the region's.
LastIsRegion ==
    ~over /\ drag.start # None =>
        /\ selections > 0
        /\ \A r \in asks : r.n = selections => r.rect = Explore!Region(drag.start, drag.end)
        /\ breakdown # None /\ breakdown.n = selections =>
              breakdown.rect = Explore!Region(drag.start, drag.end)

\* An answer to it was set, unless it failed or a later one was passed.
LastIsAnswered ==
    ~raced /\ ~failed /\ selections > 0 /\ (\A r \in asks : r.n # selections) =>
        breakdown # None /\ breakdown.n = selections

ExploreInv == ExploreTyped /\ Dragged /\ Numbered /\ LastIsRegion /\ LastIsAnswered

exploreVars == <<screen, pageVars>>

LEMMA RegionIsCells ==
    ASSUME NEW a, NEW b
    PROVE  Explore!Region(a, b) \subseteq Explore!Cells
BY DEF Explore!Region

\* What a breakdown sets is one.
LEMMA BreakdownIsNone ==
    ASSUME NEW n \in Nat, NEW rect \in SUBSET Explore!Cells, NEW inside \in SUBSET UNION Spools
    PROVE  [n |-> n, rect |-> rect, inside |-> inside] # None
BY BreakdownAssumption

LEMMA InsideIsSpans ==
    ASSUME ExploreTyped, NEW f
    PROVE  Explore!Inside(f, spool) \in SUBSET UNION Spools
BY DEF ExploreTyped, Explore!Inside

LEMMA ExploreStutters ==
    ASSUME ExploreInv, UNCHANGED exploreVars
    PROVE  ExploreInv'
BY DEF exploreVars, pageVars, ExploreInv, ExploreTyped, Dragged, Numbered, LastIsRegion, LastIsAnswered

\* A page that is not mounted shows nothing.
LEMMA UnmountKeeps ==
    ASSUME Explore!Unmount
    PROVE  ExploreInv'
<1>1. /\ spool' = {} /\ stats' = [status |-> "unmounted", spans |-> {}]
      /\ drag' = [start |-> None, end |-> None]
      /\ breakdown' = None /\ asks' = {} /\ selections' = 0
  BY DEF Explore!Unmount
<1>2. over' = FALSE /\ failed' = FALSE /\ raced' = FALSE
  BY DEF Explore!Unmount
<1>3. drag'.start = None /\ stats'.status = "unmounted"
  BY <1>1
<1>4. ExploreTyped'
  BY <1>1, <1>2 DEF ExploreTyped, Ends, Statuses
<1>5. Dragged' /\ Numbered' /\ LastIsRegion' /\ LastIsAnswered'
  BY <1>1, <1>3 DEF Dragged, Numbered, LastIsRegion, LastIsAnswered
<1>6. QED
  BY <1>4, <1>5 DEF ExploreInv

LEMMA MountExploreKeeps ==
    ASSUME ExploreInv, GoExplore
    PROVE  ExploreInv'
<1>1. /\ screen # "explore" /\ spool' \in Spools /\ stats' = [status |-> "loading", spans |-> {}]
      /\ UNCHANGED <<drag, over, breakdown, failed, asks, selections, raced>>
  BY DEF GoExplore, OnExplore, Explore!MountExplore
<1>2. drag.start = None
  BY <1>1 DEF ExploreInv, Dragged
<1>3. stats'.status = "loading" /\ screen' = "explore"
  BY <1>1 DEF GoExplore
<1>4. ExploreTyped' /\ Numbered' /\ LastIsRegion' /\ LastIsAnswered'
  BY <1>1, <1>3 DEF ExploreInv, ExploreTyped, Statuses, Numbered, LastIsRegion, LastIsAnswered
<1>5. Dragged'
  BY <1>1, <1>2, <1>3 DEF Dragged
<1>6. QED
  BY <1>4, <1>5 DEF ExploreInv

LEMMA ArriveKeeps ==
    ASSUME ExploreInv, Explore!Arrive, UNCHANGED screen
    PROVE  ExploreInv'
<1>1. /\ spool' \in Spools
      /\ UNCHANGED <<stats, drag, over, breakdown, failed, asks, selections, raced>>
  BY DEF Explore!Arrive
<1>2. QED
  BY <1>1 DEF ExploreInv, ExploreTyped, Dragged, Numbered, LastIsRegion, LastIsAnswered

LEMMA AnswerStatsKeeps ==
    ASSUME ExploreInv, NEW ok \in BOOLEAN, Explore!AnswerStats(ok), UNCHANGED screen
    PROVE  ExploreInv'
<1>1. /\ stats.status = "loading"
      /\ ~ok => stats' = [stats EXCEPT !.status = "error"]
      /\ ok /\ spool = {} => stats' = [status |-> "empty", spans |-> spool]
      /\ ok /\ spool # {} => stats' = [status |-> "ok", spans |-> spool]
      /\ UNCHANGED <<spool, drag, over, breakdown, failed, asks, selections, raced>>
  BY DEF Explore!AnswerStats
<1>2. drag.start = None /\ screen = "explore"
  BY <1>1 DEF ExploreInv, Dragged
<1>3. stats \in [status : Statuses, spans : Spools \cup {{}}] /\ spool \in Spools \cup {{}}
  BY DEF ExploreInv, ExploreTyped
<1>4. stats' \in [status : Statuses, spans : Spools \cup {{}}]
      /\ (stats'.status = "ok" => stats'.spans \in Spools)
  <2>1. CASE ok
    BY <1>1, <1>3, <2>1 DEF Statuses
  <2>2. CASE ~ok
    <3>1. stats' = [stats EXCEPT !.status = "error"]
      BY <1>1, <2>2
    <3>2. stats'.status = "error"
      BY <1>3, <3>1 DEF Statuses
    <3>3. stats' \in [status : Statuses, spans : Spools \cup {{}}]
      BY <1>3, <3>1 DEF Statuses
    <3>4. QED
      BY <3>2, <3>3
  <2>3. QED
    BY <2>1, <2>2
<1>5. ExploreTyped'
  BY <1>1, <1>4 DEF ExploreInv, ExploreTyped
<1>6. Dragged'
  BY <1>1, <1>2, <1>4 DEF Dragged
<1>7. Numbered' /\ LastIsRegion' /\ LastIsAnswered'
  BY <1>1 DEF ExploreInv, Numbered, LastIsRegion, LastIsAnswered
<1>8. QED
  BY <1>5, <1>6, <1>7 DEF ExploreInv

\* The button is pressed on a cell, or the pointer enters one.
LEMMA DragKeeps ==
    ASSUME ExploreInv, NEW c \in Explore!Cells, Explore!onDown(c) \/ Explore!onMove(c), UNCHANGED screen
    PROVE  ExploreInv'
<1>1. /\ stats.status = "ok" /\ over' = TRUE
      /\ UNCHANGED <<spool, stats, breakdown, failed, asks, selections, raced>>
  BY DEF Explore!onDown, Explore!onMove
<1>2. drag \in [start : Ends, end : Ends]
      /\ (drag.start # None => drag.start \in Explore!Cells /\ drag.end \in Explore!Cells)
  BY DEF ExploreInv, ExploreTyped, Dragged
<1>3. \/ drag' = [start |-> c, end |-> c]
      \/ drag.start # None /\ drag' = [drag EXCEPT !.end = c]
      \/ drag.start = None /\ drag' = drag
  BY DEF Explore!onDown, Explore!onMove
<1>4. drag' \in [start : Ends, end : Ends]
      /\ (drag'.start # None => drag'.start \in Explore!Cells /\ drag'.end \in Explore!Cells)
  <2>1. c \in Ends
    BY DEF Ends
  <2>2. QED
    BY <1>2, <1>3, <2>1
<1>5. ExploreTyped'
  BY <1>1, <1>4 DEF ExploreInv, ExploreTyped
<1>6. Dragged'
  BY <1>1, <1>4 DEF ExploreInv, Dragged
<1>7. Numbered' /\ LastIsRegion' /\ LastIsAnswered'
  BY <1>1 DEF ExploreInv, Numbered, LastIsRegion, LastIsAnswered
<1>8. QED
  BY <1>5, <1>6, <1>7 DEF ExploreInv

LEMMA UpKeeps ==
    ASSUME ExploreInv, NEW leaves \in BOOLEAN, Explore!onUp(leaves), UNCHANGED screen
    PROVE  ExploreInv'
<1>1. /\ over /\ over' = ~leaves
      /\ UNCHANGED <<spool, stats, drag, breakdown, raced>>
  BY DEF Explore!onUp
<1>2. CASE drag.start = None
  <2>1. UNCHANGED <<failed, asks, selections>>
    BY <1>2 DEF Explore!onUp
  <2>2. QED
    BY <1>1, <1>2, <2>1 DEF ExploreInv, ExploreTyped, Dragged, Numbered, LastIsRegion, LastIsAnswered
<1>3. CASE drag.start # None
  <2> DEFINE region == Explore!Region(drag.start, drag.end)
             new    == [n |-> selections + 1, rect |-> region,
                        filter |-> Explore!selectionFromCells(stats.spans, drag.start, drag.end)]
  <2>1. failed' = FALSE /\ selections' = selections + 1 /\ asks' = asks \cup {new}
    BY <1>3 DEF Explore!onUp, Explore!applySelection
  <2>2. new.n = selections + 1 /\ new.rect = region /\ region \subseteq Explore!Cells
    BY RegionIsCells
  <2>3. selections \in Nat
    BY DEF ExploreInv, ExploreTyped
  <2> HIDE DEF new, region
  <2>4. ExploreTyped'
    BY <1>1, <2>1, <2>3 DEF ExploreInv, ExploreTyped
  <2>5. Dragged'
    BY <1>1 DEF ExploreInv, Dragged
  <2>6. \A r \in asks' : /\ r.n \in 1 .. selections' /\ r.rect \subseteq Explore!Cells
                         /\ r.n = selections' => r.rect = region
    <3> SUFFICES ASSUME NEW r \in asks'
                 PROVE  /\ r.n \in 1 .. selections + 1 /\ r.rect \subseteq Explore!Cells
                        /\ r.n = selections + 1 => r.rect = region
      BY <2>1
    <3>1. CASE r \in asks
      <4>1. r.n \in 1 .. selections /\ r.rect \subseteq Explore!Cells
        BY <3>1 DEF ExploreInv, Numbered
      <4>2. QED
        BY <2>3, <4>1
    <3>2. CASE r = new
      BY <2>2, <2>3, <3>2
    <3>3. QED
      BY <2>1, <3>1, <3>2
  <2>7. breakdown # None => breakdown.n \in Nat /\ breakdown.n <= selections
    BY DEF ExploreInv, ExploreTyped, Numbered
  <2>8. Numbered'
    BY <1>1, <2>1, <2>3, <2>6, <2>7 DEF Numbered
  <2>9. LastIsRegion'
    BY <1>1, <2>1, <2>3, <2>6, <2>7 DEF LastIsRegion, region
  <2>10. LastIsAnswered'
    BY <2>1, <2>2 DEF LastIsAnswered
  <2>11. QED
    BY <2>4, <2>5, <2>8, <2>9, <2>10 DEF ExploreInv
<1>4. QED
  BY <1>2, <1>3

LEMMA AnswerBreakdownKeeps ==
    ASSUME ExploreInv, NEW r \in asks, NEW ok \in BOOLEAN, Explore!AnswerBreakdown(r, ok), UNCHANGED screen
    PROVE  ExploreInv'
<1>1. /\ asks' = asks \ {r}
      /\ UNCHANGED <<spool, stats, drag, over, selections>>
  BY DEF Explore!AnswerBreakdown
<1>2. raced' = (raced \/ \E n \in r.n + 1 .. selections : \A x \in asks : x.n # n)
  BY DEF Explore!AnswerBreakdown
<1>3. /\ selections \in Nat /\ r.n \in 1 .. selections /\ r.rect \subseteq Explore!Cells
      /\ Explore!Inside(r.filter, spool) \in SUBSET UNION Spools
  BY InsideIsSpans DEF ExploreInv, ExploreTyped, Numbered
<1> DEFINE given == [n |-> r.n, rect |-> r.rect, inside |-> Explore!Inside(r.filter, spool)]
<1>4. /\ given \in [n : Nat, rect : SUBSET Explore!Cells, inside : SUBSET UNION Spools]
      /\ given # None /\ given.n = r.n /\ given.rect = r.rect
  BY <1>3, BreakdownIsNone
<1>5. /\ ok => breakdown' = given /\ UNCHANGED failed
      /\ ~ok => failed' = TRUE /\ UNCHANGED breakdown
  BY DEF Explore!AnswerBreakdown
<1> HIDE DEF given
<1>6. ExploreTyped'
  <2>1. breakdown' # None => breakdown' \in [n : Nat, rect : SUBSET Explore!Cells,
                                              inside : SUBSET UNION Spools]
    BY <1>4, <1>5 DEF ExploreInv, ExploreTyped
  <2>2. QED
    BY <1>1, <2>1 DEF ExploreInv, ExploreTyped
<1>7. Dragged'
  BY <1>1 DEF ExploreInv, Dragged
<1>8. Numbered'
  <2>1. breakdown' # None => breakdown'.n <= selections
    BY <1>3, <1>4, <1>5 DEF ExploreInv, Numbered
  <2>2. QED
    BY <1>1, <2>1 DEF ExploreInv, Numbered
<1>9. LastIsRegion'
  <2> SUFFICES ASSUME ~over, drag.start # None
               PROVE  /\ selections > 0
                      /\ \A x \in asks' : x.n = selections => x.rect = Explore!Region(drag.start, drag.end)
                      /\ breakdown' # None /\ breakdown'.n = selections =>
                            breakdown'.rect = Explore!Region(drag.start, drag.end)
    BY <1>1 DEF LastIsRegion
  <2> DEFINE region == Explore!Region(drag.start, drag.end)
  <2>1. /\ selections > 0 /\ \A x \in asks : x.n = selections => x.rect = region
        /\ breakdown # None /\ breakdown.n = selections => breakdown.rect = region
    BY DEF ExploreInv, LastIsRegion
  <2> HIDE DEF region
  <2>2. breakdown' # None /\ breakdown'.n = selections => breakdown'.rect = region
    BY <1>4, <1>5, <2>1
  <2>3. QED
    BY <1>1, <2>1, <2>2 DEF region
<1>10. LastIsAnswered'
  <2> SUFFICES ASSUME ~raced', ~failed', selections > 0, \A x \in asks' : x.n # selections
               PROVE  breakdown' # None /\ breakdown'.n = selections
    BY <1>1 DEF LastIsAnswered
  <2>1. ok /\ breakdown' = given
    BY <1>5
  <2>2. r.n = selections
    <3> SUFFICES ASSUME r.n # selections PROVE FALSE
      OBVIOUS
    <3>1. selections \in r.n + 1 .. selections
      BY <1>3
    <3>2. PICK x \in asks : x.n = selections
      BY <1>2, <3>1
    <3>3. QED
      BY <1>1, <3>2
  <2>3. QED
    BY <1>4, <2>1, <2>2
<1>11. QED
  BY <1>6, <1>7, <1>8, <1>9, <1>10 DEF ExploreInv

LEMMA ExploreBegins == AppInit => ExploreInv
<1> SUFFICES ASSUME AppInit PROVE ExploreInv
  OBVIOUS
<1>1. /\ spool = {} /\ stats = [status |-> "unmounted", spans |-> {}]
      /\ drag = [start |-> None, end |-> None]
      /\ breakdown = None /\ asks = {} /\ selections = 0
  BY DEF AppInit, Explore!InitExplore
<1>2. over = FALSE /\ failed = FALSE /\ raced = FALSE
  BY DEF AppInit, Explore!InitExplore
<1>3. drag.start = None /\ stats.status = "unmounted"
  BY <1>1
<1>4. ExploreTyped
  BY <1>1, <1>2 DEF ExploreTyped, Ends, Statuses
<1>5. Dragged /\ Numbered /\ LastIsRegion /\ LastIsAnswered
  BY <1>1, <1>3 DEF Dragged, Numbered, LastIsRegion, LastIsAnswered
<1>6. QED
  BY <1>4, <1>5 DEF ExploreInv

\* The trace panel's steps leave the Explore page as it is.
LEMMA PanelKeepsExplore ==
    ASSUME ExploreInv, UNCHANGED pageVars,
           screen' = screen \/ screen # "explore"
    PROVE  ExploreInv'
<1>1. CASE screen' = screen
  BY <1>1, ExploreStutters DEF exploreVars
<1>2. CASE screen # "explore"
  <2>1. stats.status = "unmounted" /\ drag.start = None
    BY <1>2 DEF ExploreInv, Dragged
  <2>2. /\ stats' = stats /\ drag' = drag /\ spool' = spool /\ over' = over /\ breakdown' = breakdown
        /\ failed' = failed /\ asks' = asks /\ selections' = selections /\ raced' = raced
    BY DEF pageVars
  <2>3. Dragged'
    BY <2>1, <2>2 DEF Dragged
  <2>4. ExploreTyped' /\ Numbered' /\ LastIsRegion' /\ LastIsAnswered'
    BY <2>2 DEF ExploreInv, ExploreTyped, Numbered, LastIsRegion, LastIsAnswered
  <2>5. QED
    BY <2>3, <2>4 DEF ExploreInv
<1>3. QED
  BY <1>1, <1>2

LEMMA ExploreStep == ExploreInv /\ [AppNext]_appVars => ExploreInv'
<1> SUFFICES ASSUME ExploreInv, [AppNext]_appVars PROVE ExploreInv'
  OBVIOUS
<1>1. CASE (Collect \/ Answers) /\ UNCHANGED pageVars
  <2>1. UNCHANGED screen
    BY <1>1 DEF Collect, Answers, AnswerPage, AnswerTrace, AnswerStory
  <2>2. QED
    BY <1>1, <2>1, PanelKeepsExplore
<1>2. CASE ~OnExplore /\ Operator /\ UNCHANGED pageVars
  BY <1>2, PanelKeepsExplore DEF OnExplore
<1>3. CASE OnExplore /\ Explore!ExploreNext /\ UNCHANGED vars
  <2>1. UNCHANGED screen
    BY <1>3 DEF vars
  <2>2. CASE Explore!ExploreAnswers
    <3>1. \/ \E ok \in BOOLEAN : Explore!AnswerStats(ok)
          \/ \E ok \in BOOLEAN, r \in asks : Explore!AnswerBreakdown(r, ok)
      BY <2>2 DEF Explore!ExploreAnswers
    <3>2. QED
      BY <2>1, <3>1, AnswerStatsKeeps, AnswerBreakdownKeeps
  <2>3. CASE Explore!Arrive
    BY <2>1, <2>3, ArriveKeeps
  <2>4. CASE \E c \in Explore!Cells : Explore!onDown(c) \/ Explore!onMove(c)
    BY <2>1, <2>4, DragKeeps
  <2>5. CASE \E leaves \in BOOLEAN : Explore!onUp(leaves)
    BY <2>1, <2>5, UpKeeps
  <2>6. QED
    BY <1>3, <2>2, <2>3, <2>4, <2>5 DEF Explore!ExploreNext
<1>4. CASE GoExplore
  BY <1>4, MountExploreKeeps
<1>5. CASE GoTraces \/ \E t \in 1 .. Traces : OpenExemplar(t)
  BY <1>5, UnmountKeeps DEF GoTraces, OpenExemplar
<1>6. CASE UNCHANGED appVars
  <2>1. UNCHANGED exploreVars
    BY <1>6 DEF appVars, vars, exploreVars
  <2>2. QED
    BY <2>1, ExploreStutters
<1>7. QED
  BY <1>1, <1>2, <1>3, <1>4, <1>5, <1>6 DEF AppNext

LEMMA ExploreInvariant == AppSpec => []ExploreInv
<1>1. QED
  BY ExploreBegins, ExploreStep, PTL DEF AppSpec

\* The region highlighted and the breakdown beside it belong together, for every spool,
\* every number of columns and all duration edges: its filter takes the spans its cells
\* count, but for those a boundary is rounded onto and the latest, and once the answers
\* are in the breakdown is of that region (RegionIsExplained).
THEOREM RegionIsAlwaysExplained == AppSpec => []RegionIsExplained
<1>1. ASSUME ExploreInv PROVE RegionIsExplained
  <2>1. Explore!FilterIsOfRegion
    <3> SUFFICES ASSUME drag.start # None PROVE Explore!FilterIsOfRegion
      BY DEF Explore!FilterIsOfRegion
    <3>1. stats.spans \in Spools /\ drag.start \in Explore!Cells /\ drag.end \in Explore!Cells
      BY <1>1 DEF ExploreInv, Dragged
    <3> DEFINE spans   == stats.spans
               region  == Explore!Region(drag.start, drag.end)
               range   == Explore!timeRange(spans)
               f       == Explore!selectionFromCells(spans, drag.start, drag.end)
               rounded == {Explore!TimeEdge(spans, i) : i \in
                             {j \in 1 .. Buckets - 1 : ((range.to - range.from) * j) % Buckets # 0}}
               counted == {s \in spans : Explore!CellOf(spans, s) \in region}
               taken   == Explore!Inside(f, spans)
    <3>2. ASSUME NEW s \in spans
          PROVE  /\ s \in counted /\ s \notin taken => s.start \in rounded \/ s.start = range.to
                 /\ s \in taken /\ s \notin counted => s.start \in rounded
      <4>1. s \in counted <=> Explore!CellOf(spans, s) \in region
        OBVIOUS
      <4>2. s \in taken <=> Explore!matches(f, s)
        BY DEF Explore!Inside
      <4>3. /\ Explore!CellOf(spans, s) \in region /\ ~Explore!matches(f, s) =>
                  s.start \in rounded \/ s.start = range.to
            /\ Explore!matches(f, s) /\ Explore!CellOf(spans, s) \notin region => s.start \in rounded
        BY <3>1, FilterOfRegion, Zenon
      <4> HIDE DEF counted, taken, rounded, range, region, f, spans
      <4>4. QED
        BY <4>1, <4>2, <4>3
    <3>3. counted \subseteq spans /\ taken \subseteq spans
      BY DEF Explore!Inside
    <3> HIDE DEF counted, taken, rounded, range
    <3>4. \A s \in (counted \ taken) \cup (taken \ counted) :
              s.start \in rounded \/ (s.start = range.to /\ s \in counted)
      BY <3>2, <3>3
    <3>5. QED
      BY <3>4, Zenon DEF Explore!FilterIsOfRegion, counted, taken, rounded, range
  <2>2. Explore!BreakdownIsOfRegion
    BY <1>1 DEF ExploreInv, LastIsRegion, LastIsAnswered, Explore!BreakdownIsOfRegion
  <2>3. QED
    BY <2>1, <2>2 DEF RegionIsExplained, Explore!RegionIsExplained
<1>2. QED
  BY <1>1, ExploreInvariant, PTL
=============================================================================
