--------------------------- MODULE MCDocsWorkbench ---------------------------
(***************************************************************************)
(* A small documentation tree for DocsWorkbench: a semantic model with its *)
(* machine, whose lifecycle names the other document, and a requirements   *)
(* document, which the curator may serve with lists of every one or two    *)
(* items of the six shapes below, with a road map, or empty.               *)
(***************************************************************************)
EXTENDS DocumentPage, TLC

MCIndex == << [name |-> "sm-loop", path |-> "loop", category |-> "semantic-model", short |-> "sm-loop"],
              [name |-> "srd01-core", path |-> "core", category |-> "srd", short |-> "srd01"] >>

T(x) == Text(<<x>>)

States ==
    List(<< Map(<<Entry("name", T("Idle")), Entry("meaning", T("waits")), Entry("emits", T("go"))>>),
            Map(<<Entry("name", T("Done")), Entry("meaning", T("terminal"))>>) >>)

Signals ==
    List(<< Map(<<Entry("name", T("go")), Entry("trigger", T("asked")), Entry("source", T("timer"))>>) >>)

Machine ==
    Map(<< Entry("title", T("Loop")),
           Entry("lifecycle", Text(<<"Idle", "->", "Done", "srd01">>)),
           Entry("states", States),
           Entry("signals", Signals),
           Entry("configuration", Map(<< Entry("machine", T("configs/loop.yaml")),
                                         Entry("tools", List(<<T("configs/a.yaml"), T("configs/b.yaml")>>)) >>)) >>)

\* The shapes of a list's item: a text, a list in a list, and maps of one or two
\* fields, which hold a text, a list or a map.  Their texts bear a mark.
Item(shape, mark) ==
    LET t(x) == T(x \o mark)
    IN CASE shape = 1 -> t("a")
         [] shape = 2 -> List(<<t("a"), List(<<t("b")>>), Map(<<Entry("a", t("c"))>>)>>)
         [] shape = 3 -> Map(<<Entry("a", t("a"))>>)
         [] shape = 4 -> Map(<<Entry("b", Map(<<Entry("c", t("a"))>>))>>)
         [] shape = 5 -> Map(<<Entry("a", t("a")), Entry("c", t("b"))>>)
         [] shape = 6 -> Map(<<Entry("b", t("a")),
                               Entry("a", List(<<t("b"), Map(<<Entry("a", t("c"))>>)>>))>>)

Shapes == 6

\* A map with its fields the other way round.
Turned(v) ==
    IF v.kind = "map" THEN Map([i \in DOMAIN v.entries |-> v.entries[Len(v.entries) + 1 - i]])
                      ELSE v

\* A field per list of one or two items that begins with a shape of from..to.
ListFields(from, to) ==
    LET second == Shapes + 1
        list(n) == LET s == from + n \div second
                   IN IF n % second = 0 THEN <<s>> ELSE <<s, n % second>>
        item(l, i) == IF i = 1 THEN Item(l[i], ToString(<<l, i>>))
                               ELSE Turned(Item(l[i], ToString(<<l, i>>)))
        field(l) == Entry(ToString(l), List([i \in DOMAIN l |-> item(l, i)]))
    IN [k \in 1..((to - from + 1) * second) |-> field(list(k - 1))]

\* Releases: with further fields; the same below a field, where they are no road
\* map; and one without requirements.
Release(mark) ==
    Map(<< Entry("version", T("v" \o mark)), Entry("name", T("n" \o mark)),
           Entry("srds", List(<<T("srd01"), T("s" \o mark)>>)),
           Entry("use_cases", List(<<Map(<<Entry("id", T("u" \o mark))>>)>>)),
           Entry("follow_up", T("f" \o mark)) >>)

RoadMap ==
    << Entry("releases", List(<<Release("1"), Release("2")>>)),
       Entry("archive", Map(<<Entry("releases", List(<<Release("3"), Release("4")>>))>>)),
       Entry("Releases", List(<<Release("5"), Map(<<Entry("version", T("v6"))>>)>>)) >>

Requirements(fields) ==
    Map(<< Entry("id", T("srd01")), Entry("version", T("1.0")),
           Entry("purpose", Text(<<"why", "sm-loop">>)),
           Entry("requirements", Map(<<Entry("R1", Map(<<Entry("title", T("Core"))>>))>>)) >>
        \o fields)

MCContents ==
    [loop |-> {Machine},
     core |-> {Requirements(ListFields(1, 3)), Requirements(ListFields(4, 6)),
               Requirements(RoadMap), Map(<<>>)}]
\* What the page shows of each, computed once.
Drawings ==
    [c \in UNION {MCContents[d] : d \in DOMAIN MCContents} |->
        [isModel \in BOOLEAN |-> ShownTexts(c, isModel)]]
MCShownOf(content, isModel) == Drawings[content][isModel]
=============================================================================
