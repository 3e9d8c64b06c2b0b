----------------------------- MODULE MCChatApp -----------------------------
(***************************************************************************)
(* Small values for ChatApp: the chatbot's own ui.yaml, one of kit panels  *)
(* with groups and routes, and files with one fault each, which must not   *)
(* build; a deployment of two units.                                       *)
(***************************************************************************)
EXTENDS ChatApp

Panel(id, package, export, route, group, hidden) ==
    [id |-> id, package |-> package, export |-> export, route |-> route, group |-> group,
     hidden |-> hidden]
Local(id) == Panel(id, "local", None, id, None, FALSE)

Doc(routes, panels, groups, agents, backend) ==
    [version |-> 2, id |-> "ui", routes |-> routes, panels |-> panels, groups |-> groups,
     agents |-> agents, backend |-> backend]

Agent(name) == [name |-> name, label |-> name]
Backend == [name |-> "collector", path |-> [absolute |-> TRUE, prefix |-> "proxy", suffixed |-> TRUE]]

Chatbot == Doc(None, <<Local("chat"), Local("observability"), Local("provisioning")>>, None,
               <<Agent("bot"), Agent("rag")>>, Backend)

Groups == << [id |-> "late", label |-> "Late", order |-> 2], [id |-> "early", label |-> "Early", order |-> 1] >>

Observer == Doc(<<[id |-> "late", path |-> "late"]>>,
                <<Panel("fleet", Kit, "Fleet", "fleet", "late", FALSE),
                  Panel("machine", Kit, "Machine", "machine", "early", FALSE),
                  Panel("chat", "local", None, "talk", None, TRUE)>>,
                Groups, <<Agent("bot"), Agent("rag")>>, None)

Plain == <<Local("chat"), Local("provisioning")>>
Kit1(export, route) == Panel("fleet", Kit, export, route, None, FALSE)

Faulty ==
    { [Chatbot EXCEPT !.panels = <<Local("chat"), Panel("observability", "local", None, "chat", None, FALSE)>>],
      [Chatbot EXCEPT !.panels = <<Local("chat"), Panel("chat", "local", None, "talk", None, FALSE)>>],
      [Chatbot EXCEPT !.panels = Append(Plain, Kit1(None, "fleet"))],
      [Chatbot EXCEPT !.panels = Append(Plain, Kit1("Nosuch", "fleet"))],
      [Chatbot EXCEPT !.panels = Append(Plain, Kit1("Fleet", "a/b"))],
      [Chatbot EXCEPT !.panels = Append(Plain, Local("nosuch"))],
      [Chatbot EXCEPT !.panels = Append(Plain, Ill)],
      [Chatbot EXCEPT !.panels = <<Panel("chat", "local", None, "chat", "nosuch", FALSE)>>],
      [Chatbot EXCEPT !.panels = <<Panel(Ill, "local", None, "chat", None, FALSE)>>],
      [Chatbot EXCEPT !.version = 1], [Chatbot EXCEPT !.version = 3], [Chatbot EXCEPT !.id = None],
      [Chatbot EXCEPT !.agents = <<Agent("bot"), Agent("bot")>>],
      [Chatbot EXCEPT !.agents = <<[name |-> "bot", label |-> None]>>],
      [Chatbot EXCEPT !.backend = [Backend EXCEPT !.path.suffixed = FALSE]],
      [Chatbot EXCEPT !.routes = Ill] }

MCDocs == {Chatbot, Observer} \cup Faulty
MCKitPanels == [Fleet |-> Declared, Machine |-> {"bot"}]

Response(composed, failed, unselected) ==
    [composed |-> composed, failed |-> failed, excluded |-> {}, unselected |-> unselected]
MCResponses == { Response([rag0 |-> 1, rag1 |-> 0], {}, {}), Response([rag0 |-> 0], {"rag1"}, {}) }

Rag(n) == [name |-> n, collection |-> n, model |-> "e", replicas |-> 1]
LLM(inCluster) == [inCluster |-> inCluster, endpoint |-> "in", chatModel |-> "m", embedModel |-> "e",
                   chatModels |-> {"m"}, tierModel |-> ""]
Mesh1 == [rags |-> <<Rag(0), Rag(1)>>, llm |-> LLM(TRUE), params |-> [nResults |-> 1, chunkCap |-> 0]]
Mesh2 == [rags |-> <<Rag(0)>>, llm |-> LLM(FALSE), params |-> [nResults |-> 1, chunkCap |-> 0]]

MCOthers == {Mesh2}
MCRagEdits == {<<"name", 1>>}
MCLLMEdits == {<<"chatModel", "n">>, <<"tierModel", "t">>}
MCParamEdits == {}
MCMount == <<"ui">>
MCOpenedAt == {"", "fleet"}
=============================================================================
