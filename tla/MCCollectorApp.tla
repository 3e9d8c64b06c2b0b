---------------------------- MODULE MCCollectorApp ----------------------------
(***************************************************************************)
(* A backend of five traces, one of a single span, read two at a time, and *)
(* three chats, the last of which carries no trace.  The spans explored    *)
(* start on both sides of a boundary that is rounded and at the ends of    *)
(* the time range, with durations on and beside the only inner edge.       *)
(***************************************************************************)
EXTENDS CollectorApp

MCChats == << [id |-> "c1", turns |-> <<1, 3>>],
              [id |-> "c2", turns |-> <<4>>],
              [id |-> "c3", turns |-> <<>>] >>

Span(t, s, d) == [trace |-> t, start |-> s, dur |-> d]

MCSpans == << Span(1, 10, 3), Span(2, 10, 5), Span(3, 11, 9), Span(4, 13, 0),
              Span(5, 12, 5), Span(5, 15, 4) >>

\* Nothing, an instant, and six spans.
MCSpools == {{MCSpans[i] : i \in 1 .. n} : n \in {0, 1, 6}}

MCEdges == <<0, 5>>
=============================================================================
