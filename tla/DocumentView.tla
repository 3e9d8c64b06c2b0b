---------------------------- MODULE DocumentView ----------------------------
(***************************************************************************)
(* How the documentation page draws one document (Documentation.tsx): which*)
(* texts of a YAML document end up on the page, and which list becomes a   *)
(* table.                                                                  *)
(***************************************************************************)
EXTENDS DocumentIndex

\* The texts a value holds, wherever they stand.
RECURSIVE TextsOf(_)
TextsOf(v) ==
    CASE v.kind = "text" -> {v.text}
      [] v.kind = "list" -> UNION {TextsOf(x) : x \in Elements(v.items)}
      [] v.kind = "map"  -> UNION {TextsOf(e.value) : e \in Elements(v.entries)}

\* The texts left when a value is written into one cell: a list is joined, a map
\* reads [object Object].
RECURSIVE Written(_)
Written(v) ==
    CASE v.kind = "text" -> {v.text}
      [] v.kind = "list" -> UNION {Written(x) : x \in Elements(v.items)}
      [] v.kind = "map"  -> {}

-----------------------------------------------------------------------------
\* Lists.

IsRelease(item) == HasText(item, "version") /\ HasList(item, "srds")

ReleaseKeys == {"version", "name", "status", "srds"}

ReleaseTexts(item) ==
    UNION {Written(FieldOf(item, k)) : k \in KeysOf(item) \cap ReleaseKeys}

\* A list of releases is a roadmap under the heading "Releases", which is the
\* heading of the field "releases" of a document; below, a key is its own heading.
LabelOf(key) == IF key = "releases" THEN "Releases" ELSE key

IsRoadmap(label, items) ==
    label = "Releases" /\ \A x \in Elements(items) : IsRelease(x)

\* Mutant: every list of maps becomes a table of the first one's columns.
ListKindOfFirst(items) ==
    IF (\E i \in DOMAIN items : items[i].kind # "map") \/ Len(items) < 2 THEN "cards"
    ELSE IF Cardinality(KeysOf(items[1])) >= 2 THEN "columns" ELSE "pairs"

\* Two maps or more make a table of columns when they have the same keys, and a
\* table of pairs when the first of them has one key.
ListKind(items) ==
    IF (\E i \in DOMAIN items : items[i].kind # "map") \/ Len(items) < 2 THEN "cards"
    ELSE IF /\ \A i \in DOMAIN items : KeysOf(items[i]) = KeysOf(items[1])
            /\ Cardinality(KeysOf(items[1])) >= 2 THEN "columns"
    ELSE IF Cardinality(KeysOf(items[1])) = 1 THEN "pairs"
    ELSE "cards"

CardTexts(item) ==
    IF item.kind = "map" THEN UNION {Written(e.value) : e \in Elements(item.entries)}
    ELSE Written(item)

ItemTexts(items, item) ==
    CASE ListKind(items) = "columns" ->
            UNION {Written(FieldOf(item, k)) : k \in KeysOf(items[1]) \cap KeysOf(item)}
      [] ListKind(items) = "pairs" -> Written(item.entries[1].value)
      [] OTHER -> CardTexts(item)

\* The texts a section shows; a map nests one section per entry.
RECURSIVE SectionTexts(_, _)
SectionTexts(label, v) ==
    CASE v.kind = "text" -> {v.text}
      [] v.kind = "list" ->
            IF IsRoadmap(label, v.items)
            THEN UNION {ReleaseTexts(x) : x \in Elements(v.items)}
            ELSE UNION {ItemTexts(v.items, x) : x \in Elements(v.items)}
      [] v.kind = "map" -> UNION {SectionTexts(e.key, e.value) : e \in Elements(v.entries)}

-----------------------------------------------------------------------------
\* Documents: maps of fields.

TextFields == {"purpose", "problem", "overview", "summary", "executive_summary",
               "what_this_does", "why_we_build_this", "trigger", "lifecycle",
               "pipeline_diagram"}
SkipFields == {"id", "title", "version", "states", "signals", "configuration", "requirements"}
                 \cup TextFields

\* The configuration of a semantic model: the paths, one or several per key.
PathTexts(v) ==
    CASE v.kind = "text" -> {v.text}
      [] v.kind = "list" -> {x.text : x \in {y \in Elements(v.items) : y.kind = "text"}}
      [] OTHER -> {}

ConfigurationTexts(content, isModel) ==
    IF isModel /\ HasKey(content, "configuration")
    THEN UNION {PathTexts(e.value) : e \in Elements(FieldOf(content, "configuration").entries)}
    ELSE {}

StateTexts(content, field, keys) ==
    IF HasList(content, field)
    THEN UNION {UNION {Written(FieldOf(x, k)) : k \in keys \cap KeysOf(x)} :
                  x \in Elements(FieldOf(content, field).items)}
    ELSE {}

\* Every text the page shows of a document.
ShownTexts(content, isModel) ==
    LET header == UNION {Written(FieldOf(content, k)) : k \in KeysOf(content) \cap {"id", "title"}}
        drawn  == {e \in Elements(content.entries) : e.key \in TextFields \/ e.key \notin SkipFields}
    IN header \cup UNION {SectionTexts(LabelOf(e.key), e.value) : e \in drawn}
         \cup ConfigurationTexts(content, isModel)
         \cup StateTexts(content, "states", {"name", "meaning"})
         \cup StateTexts(content, "signals", {"name", "trigger"})

=============================================================================
