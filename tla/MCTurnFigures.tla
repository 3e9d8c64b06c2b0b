---------------------------- MODULE MCTurnFigures ----------------------------
(***************************************************************************)
(* Small machines and traces for TurnFigures.  A machine has four states   *)
(* s1..s4, declared in that order, s4 terminal; s1 and s2 have up to two   *)
(* rows and s3 up to one.  The second row of a state is a second choice or *)
(* a failure.  Words are the rows' own, shared by the rows into one state, *)
(* or the rows' own with $tool in the second rows.  A trace has three      *)
(* spans.                                                                  *)
(***************************************************************************)
EXTENDS TurnFigures

CONSTANTS DeclaredInOrder  \* a state that may be folded follows its source

StateNames == <<"s1", "s2", "s3", "s4">>
Names      == Range(StateNames)

MCFailureSignals == {"fail"}
MCSignals        == {"ok", "alt", "fail"}

\* The targets of a state's rows, in order.
Fan(n) == UNION {{f \in [1..k -> Names] : IsInjective(f)} : k \in 0..n}

\* A row without a command leads to the terminal state.
RowsOf(s, targets, second, words) ==
    [i \in DOMAIN targets |->
        [state  |-> s, next |-> targets[i],
         signal |-> IF i = 1 THEN "ok" ELSE second,
         action |-> CASE targets[i] = "s4" /\ i = 1  -> Undefined
                      [] words = "shared"           -> <<targets[i]>>
                      [] words = "tool" /\ i = 2    -> ToolAction
                      [] OTHER                      -> <<s, targets[i]>>]]

\* One of the tools is the word of a row of some machines.
MCTools == {<<"tool">>, <<"s2", "s3">>}

TagsOf == [s \in Names |->
    CASE s = "s1" -> <<"intake", "answer">>
      [] s = "s2" -> <<"intake">>
      [] s = "s3" -> <<"answer">>
      [] s = "s4" -> <<"intake", "answer">>]

Machine(one, two, three, second, words) ==
    [states |-> StateNames, initial |-> "s1", terminal |-> {"s4"},
     rows   |-> RowsOf("s1", one, second, words) \o RowsOf("s2", two, second, words)
                \o RowsOf("s3", three, second, words),
     views  |-> <<"intake", "answer">>,
     tags   |-> IF words # "shared" THEN TagsOf ELSE [TagsOf EXCEPT !["s1"] = <<"intake">>]]

Position(m, s) == CHOOSE i \in DOMAIN m.states : m.states[i] = s

InOrder(m) ==
    \A row \in Rows(m) :
        Absorbable(HappyPath(m), row.next) \/ Absorbable(m, row.next) =>
            Position(m, row.state) < Position(m, row.next)

Machines ==
    {m \in {Machine(one, two, three, second, words) :
               one \in {f \in Fan(2) : f # <<>> /\ "s1" \notin Range(f)},
               two \in Fan(2), three \in {<<>>, <<"s1">>, <<"s2">>, <<"s4">>},
               <<second, words>> \in {<<"alt", "own">>, <<"alt", "shared">>, <<"alt", "tool">>,
                                     <<"fail", "own">>}} :
        DeclaredInOrder => InOrder(m)}

-----------------------------------------------------------------------------
\* The spans of a trace: a request, an executed word, the adapter's copy of
\* that word, and a span of another kind; only the adapter's span has the name
\* of another.  Times are half milliseconds.
Kinds == {"request", "word", "adapter", "other"}

Shape(kind, id) ==
    [name    |-> CASE kind = "request" -> <<"machine_request", id>>
                   [] kind = "other"   -> <<"iteration", id>>
                   [] OTHER            -> <<"execute_tool", "ask">>,
     command |-> IF kind = "word" THEN "ask" ELSE None,
     target  |-> IF kind = "adapter" THEN "llm" ELSE IF kind = "other" THEN "peer" ELSE None,
     attrs   |-> IF kind = "word" THEN {"chat"} ELSE {}]

MCRequestNames == {<<"machine_request", id>> : id \in {"a", "b", "c"}}
MCToolNames    == {<<"execute_tool", "ask">>}

MCServiceOfHost == [h \in {"llm", "peer"} |-> IF h = "peer" THEN "rag" ELSE None]
MCPeerKind      == [h \in {"llm", "peer"} |-> IF h = "peer" THEN "peer" ELSE "model"]

CollectedSpan(id, kind, parent, service, start, length, failed) ==
    [id |-> <<id>>, parent |-> parent, service |-> service, start |-> start,
     end |-> start + length, signal |-> "ok", iteration |-> start,
     failed |-> failed] @@ Shape(kind, id)

\* An adapter's span is the child of the span of the word it served.
Traces ==
    {<<CollectedSpan("a", k1, None, "chat", 2, 5, FALSE),
       CollectedSpan("b", k2, p2, v2, t2, d2, FALSE),
       CollectedSpan("c", k3, p3, v3, t3, 2, TRUE)>> :
       k1 \in {"request", "word"},
       <<k2, p2>> \in ({"request", "word"} \X {None, <<"a">>})
                      \cup {<<"adapter", <<"a">>>>},
       <<k3, p3>> \in ({"word", "other"} \X {<<"lost">>, <<"a">>})
                      \cup (Kinds \X {<<"b">>}),
       <<v2, v3>> \in {<<"chat", "rag">>, <<"rag", "rag">>, <<"rag", "chat">>},
       <<t2, d2, t3>> \in {<<0, 2, 4>>, <<4, 1, 0>>, <<4, 1, 4>>}}

Adapted(t) ==
    \A s \in Range(t) : s.target = "llm" =>
        \E p \in Range(t) : p.id = s.parent /\ p.command # None

\* The other half of an input has nothing to do or to click on.
AnyTrace   == <<CollectedSpan("a", "request", None, "chat", 0, 2, FALSE)>>
AnyMachine == Machine(<<>>, <<>>, <<>>, "alt", "own")

MCInputs == (Machines \X {AnyTrace}) \cup ({AnyMachine} \X {t \in Traces : Adapted(t)})

=============================================================================
