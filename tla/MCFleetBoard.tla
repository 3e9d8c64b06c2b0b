---------------------------- MODULE MCFleetBoard ----------------------------
(***************************************************************************)
(* A small mesh for FleetBoard: a chat agent "c", the observer "o" and a   *)
(* store "s" under the prefix "m-"; joins that list the pods in different  *)
(* orders, lack one or hold an item without a pod; and traces whose spans  *)
(* come in both orders, the observer's with the address of the unit they   *)
(* poll.                                                                   *)
(***************************************************************************)
EXTENDS FleetBoard

PodC == <<"m", "-", "c", "#", "#">>
PodO == <<"m", "-", "o", "#", "#">>

Item(pod, signal) == [pod |-> pod, signal |-> signal, body |-> IF signal = "AgentMonitorRead" THEN pod ELSE None]
Good(pod) == Item(pod, "AgentMonitorRead")
Bad(pod)  == Item(pod, "CommandError")

Unit(name, component) ==
    [name |-> name, component |-> component, labels |-> {<<"app", name>>}]

MeshC == Unit(<<"m", "-", "c">>, <<"c">>)
MeshO == Unit(<<"m", "-", "o">>, None)
Store == Unit(<<"m", "-", "s">>, None)

MCFleets ==
    << [joins |-> [machine |-> <<Good(PodC), Good(PodO)>>, state |-> <<Good(PodO), Bad(PodC)>>,
                   tools |-> None, events |-> <<Good(None), Good(PodC)>>],
        pods |-> <<Unit(PodC, <<"c">>), Unit(PodO, None)>>,
        deployments |-> <<MeshC, MeshO>>, services |-> <<MeshC, Store>>],
       [joins |-> [machine |-> None, state |-> <<Good(PodC)>>, tools |-> <<Good(PodO), Good(PodC)>>,
                   events |-> <<>>],
        pods |-> <<Unit(PodC, <<"c">>)>>,
        deployments |-> <<MeshC>>, services |-> <<MeshC>>] >>

Span(id, parent, service, address) ==
    [id |-> id, parent |-> parent, service |-> service, address |-> address]

Turn  == [id |-> "t1", root |-> <<"c">>, walks |-> [c |-> 2],
          spans |-> << Span(2, 1, <<"e">>, <<"m", "-", "s">>), Span(1, None, <<"c">>, Loopback) >>]
Short == [id |-> "t2", root |-> <<"c">>, walks |-> [c |-> 1],
          spans |-> << Span(3, None, <<"c">>, DockerHost) >>]
Polls == [id |-> "t3", root |-> <<"o">>, walks |-> [o |-> 1],
          spans |-> << Span(5, 4, <<"c">>, None), Span(4, None, <<"o">>, <<"m", "-", "c">>),
                       Span(14, None, <<"o">>, <<"m", "-", "c">>) >>]
Large == [id |-> "t4", root |-> <<"c">>, walks |-> [c |-> 3],
          spans |-> << Span(6, None, <<"c">>, <<"api">>), Span(7, 6, <<"e">>, None), Span(8, 9, None, None) >>]
Huge  == [id |-> "t5", root |-> <<"e">>, walks |-> [e |-> 1],
          spans |-> << Span(10, None, <<"e">>, None), Span(11, 10, <<"e">>, None),
                       Span(12, 10, <<"e">>, None), Span(13, 10, <<"c">>, None) >>]

MCCollected == << <<Short, Turn, Large, Polls, Huge>>, <<Polls, Short, Turn>> >>

MCOrders == { <<>>, << <<"o">>, <<"c">> >>, << <<"o">>, <<"s">>, <<"o">> >> }
=============================================================================
