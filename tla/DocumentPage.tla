---------------------------- MODULE DocumentPage ----------------------------
(***************************************************************************)
(* The workbench with the drawing of its documents: what the operator can  *)
(* read, and follow, of the document shown.                                *)
(***************************************************************************)
EXTENDS DocsWorkbench, DocumentView

\* The texts of the maps a value holds: written into one cell of a table or a
\* card, a map reads [object Object].
RECURSIVE InMaps(_)
InMaps(v) ==
    CASE v.kind = "text" -> {}
      [] v.kind = "list" -> UNION {InMaps(x) : x \in Elements(v.items)}
      [] v.kind = "map"  -> TextsOf(v)

\* Of a map of which only some keys have a place: the other keys, and the maps
\* under those that have.
BesideKeys(item, keys) ==
    UNION {IF e.key \in keys THEN InMaps(e.value) ELSE TextsOf(e.value) :
             e \in Elements(item.entries)}

\* What a section leaves out: further fields of a release in the roadmap, maps
\* inside the fields of an item, and, in a list of maps of which the first has one
\* field, the further fields of the later ones.
RECURSIVE LeftOut(_, _)
LeftOut(label, v) ==
    LET items == Elements(v.items)
        pairs == /\ Len(v.items) >= 2 /\ \A x \in items : x.kind = "map"
                 /\ Len(v.items[1].entries) = 1
        further == UNION {UNION {TextsOf(x.entries[j].value) : j \in 2..Len(x.entries)} : x \in items}
    IN CASE v.kind = "text" -> {}
         [] v.kind = "map" -> UNION {LeftOut(e.key, e.value) : e \in Elements(v.entries)}
         [] IsRoadmap(label, v.items) -> UNION {BesideKeys(x, ReleaseKeys) : x \in items}
         [] OTHER ->
              UNION {IF x.kind = "map" THEN UNION {InMaps(e.value) : e \in Elements(x.entries)}
                     ELSE InMaps(x) : x \in items}
              \cup IF pairs THEN further ELSE {}

\* What a field of a document leaves out.
FieldLeftOut(key, v, isModel) ==
    LET cards(keys) == IF v.kind = "list" THEN UNION {BesideKeys(x, keys) : x \in Elements(v.items)}
                                          ELSE TextsOf(v)
    IN CASE key \in {"version", "requirements"} -> TextsOf(v)
         [] key \in {"id", "title"}             -> InMaps(v)
         [] key = "configuration"               ->
              IF isModel THEN UNION {TextsOf(e.value) \ PathTexts(e.value) : e \in Elements(v.entries)}
              ELSE TextsOf(v)
         [] key = "states"                      -> cards({"name", "meaning"})
         [] key = "signals"                     -> cards({"name", "trigger"})
         [] OTHER                               -> LeftOut(LabelOf(key), v)

\* The page draws the document but for what it is known to leave out: the version
\* and the requirements, a configuration that is not a semantic model's and what
\* of it is no path, the fields of a release, a state or a signal that its table
\* has no column for, a second field in a table of pairs, and a map inside an item
\* of a list.  No other text is lost, whatever the shapes of the document's lists;
\* the raw text below the drawing has them all.
DocumentIsDrawn ==
    Drawn =>
        LET isModel == IsSemanticModel(Index, detail.path)
            content == detail.content
        IN \A e \in Elements(content.entries) :
              \A t \in TextsOf(e.value) \ ShownOf(content, isModel) :
                  t \in FieldLeftOut(e.key, e.value, isModel)

=============================================================================
