--------------------------- MODULE DocumentIndex ---------------------------
(***************************************************************************)
(* The documents of the documentation page and the index it reads them by  *)
(* (Documentation.tsx): which name leads to which document, which document *)
(* has a diagram and a machine, and the groups of the sidebar.             *)
(*                                                                         *)
(* A YAML value is a text, a list of values or a map of entries in their   *)
(* order.  A text is a sequence of fragments: names the page may link, or  *)
(* words it does not.  Wording and layout are left out.                    *)
(***************************************************************************)
EXTENDS Naturals, FiniteSets, Sequences

Text(fragments) == [kind |-> "text", text |-> fragments]
List(items)     == [kind |-> "list", items |-> items]
Map(entries)    == [kind |-> "map", entries |-> entries]
Entry(k, v)     == [key |-> k, value |-> v]

Elements(s) == {s[i] : i \in DOMAIN s}

KeysOf(map)      == {e.key : e \in Elements(map.entries)}
HasKey(map, k)   == map.kind = "map" /\ k \in KeysOf(map)
FieldOf(map, k)  == (CHOOSE e \in Elements(map.entries) : e.key = k).value
HasText(map, k)  == HasKey(map, k) /\ FieldOf(map, k).kind = "text"
HasList(map, k)  == HasKey(map, k) /\ FieldOf(map, k).kind = "list"

\* A diagram needs a list of states and a lifecycle that names a transition.
Arrow == "->"

HasStateDiagram(content) ==
    /\ HasList(content, "states") /\ FieldOf(content, "states").items # <<>>
    /\ HasText(content, "lifecycle") /\ Arrow \in Elements(FieldOf(content, "lifecycle").text)

\* The machine file whose definition can be read beside the diagram.
HasMachine(content, isModel) ==
    isModel /\ HasKey(content, "configuration") /\ HasText(FieldOf(content, "configuration"), "machine")

-----------------------------------------------------------------------------
\* The index: entries [name, path, category, short], where short is the id a
\* name starts with (srd01, sm-loop) or the name itself.

\* What each name leads to: a later document takes a name from an earlier one.
DocIndex(docs) ==
    LET names(d) == {d.name, d.path, d.short}
        keys == UNION {names(docs[i]) : i \in DOMAIN docs}
        last(k) == CHOOSE i \in DOMAIN docs :
                      /\ k \in names(docs[i])
                      /\ \A j \in DOMAIN docs : k \in names(docs[j]) => j <= i
    IN [k \in keys |-> docs[last(k)].path]

\* The documents a text links to.
LinksIn(fragments, docs) ==
    {DocIndex(docs)[f] : f \in Elements(fragments) \cap DOMAIN DocIndex(docs)}

\* The entries of a category, in the order of the index.
Grouped(docs, category) == SelectSeq(docs, LAMBDA d : d.category = category)

IsSemanticModel(docs, path) ==
    \E i \in DOMAIN docs : docs[i].path = path /\ docs[i].category = "semantic-model"

=============================================================================
