---------------------------- MODULE Provisioning ----------------------------
(***************************************************************************)
(* The chatbot's provisioning panel (ProvisioningPanel.tsx,                *)
(* provisioningApi.ts): with a token it reads the deployed mesh, keeps a   *)
(* draft of it the operator edits, previews the differences, applies the   *)
(* draft and polls the rollout.  The deployment is external: another       *)
(* operator may change it at any time.                                     *)
(*                                                                         *)
(* A mesh is [rags, llm, params]; a rag is [name, collection, model,       *)
(* replicas], named by its number.  The tier's inputs are there for an     *)
(* in-cluster endpoint.  The actions take the panel as mounted.            *)
(***************************************************************************)
EXTENDS Integers, FiniteSets, Sequences, SequencesExt

CONSTANTS
    Unset,      \* no value yet
    Deployed,   \* the mesh deployed at first
    Others,     \* meshes another operator may set it to
    RagEdits,   \* what a rag card may write: fields of a rag
    LLMEdits,   \* what the endpoint's and the tier's inputs may write
    ParamEdits, \* what the parameters' inputs may write
    MaxRags,    \* bound: rag cards of a draft
    MaxEdits,   \* bound: edits of a behaviour
    MaxOthers,  \* bound: changes others make to the mesh
    MaxRollouts \* bound: rollout polls in flight

\* A mesh lists its units, and has its endpoint and its parameters.
IsMesh(m) == {"rags", "llm", "params"} \subseteq DOMAIN m /\ m.rags \in Seq(ToSet(m.rags))

ASSUME MeshAssumption == \A m \in {Deployed} \cup Others : IsMesh(m)

VARIABLES
    mesh,     \* the deployed mesh
    phase,    \* its rollout: progressing or complete
    prov,     \* the panel [token, state, draft, error, loading, applying, applied, rollout]
    edits,    \* edits so far
    others,   \* changes others made so far
    meshRead, \* its read of the mesh is in flight
    applies,  \* applies in flight [view, preview, of, mine]
    rollouts  \* rollout polls in flight: the phase each was asked in

provVars == <<mesh, phase, prov, edits, others, meshRead, applies, rollouts>>

Blank == [token |-> FALSE, state |-> Unset, draft |-> Unset, error |-> FALSE,
          loading |-> FALSE, applying |-> FALSE, applied |-> FALSE, rollout |-> Unset]

ProvInit ==
    /\ mesh = Deployed /\ phase = "complete"
    /\ prov = Blank /\ edits = 0 /\ others = 0 /\ meshRead = FALSE
    /\ applies = {} /\ rollouts = <<>>

-----------------------------------------------------------------------------
\* The differences.

\* The units by name; of two with one name, the later.
ByName(rags) ==
    [n \in {rags[i].name : i \in DOMAIN rags} |->
        rags[CHOOSE i \in DOMAIN rags :
                rags[i].name = n /\ \A j \in DOMAIN rags : rags[j].name = n => j <= i]]

\* Where the endpoint is, the model list and the tier's model have a line; the
\* chat and the embedding model have none.
Previewed == {"inCluster", "endpoint", "chatModels", "tierModel"}

\* Mutant: removed units are left out.
DiffWithoutRemovals(current, draft) ==
    LET cur == ByName(current.rags)  next == ByName(draft.rags)
    IN {<<"rag", n>> : n \in {m \in DOMAIN next : m \notin DOMAIN cur \/ cur[m] # next[m]}}
       \cup {<<"llm", f>> : f \in {g \in Previewed : current.llm[g] # draft.llm[g]}}
       \cup {<<"params", f>> : f \in {g \in DOMAIN draft.params :
                                         current.params[g] # draft.params[g]}}

\* One line per unit added, changed or removed and per field changed.
diffMesh(current, draft) ==
    LET cur == ByName(current.rags)  next == ByName(draft.rags)
    IN {<<"rag", n>> : n \in {m \in DOMAIN next : m \notin DOMAIN cur \/ cur[m] # next[m]}}
       \cup {<<"rag", n>> : n \in DOMAIN cur \ DOMAIN next}
       \cup {<<"llm", f>> : f \in {g \in Previewed : current.llm[g] # draft.llm[g]}}
       \cup {<<"params", f>> : f \in {g \in DOMAIN draft.params :
                                         current.params[g] # draft.params[g]}}

Diff == IF Unset \in {prov.state, prov.draft} THEN {} ELSE diffMesh(prov.state, prov.draft)

-----------------------------------------------------------------------------
\* Reading the mesh.

\* The button is disabled while a read is out.
ReadMesh(panel) == /\ prov' = [panel EXCEPT !.loading = TRUE, !.error = FALSE]
                   /\ meshRead' = TRUE

SubmitToken ==
    /\ ~prov.token
    /\ ReadMesh([prov EXCEPT !.token = TRUE])
    /\ UNCHANGED <<mesh, phase, edits, others, applies, rollouts>>

Reload ==
    /\ prov.token /\ ~prov.loading
    /\ ReadMesh(prov)
    /\ UNCHANGED <<mesh, phase, edits, others, applies, rollouts>>

\* Mutant: only an answer ends the read.
ReadFailureKeptOpen == [prov EXCEPT !.error = TRUE]
ReadFailure == [prov EXCEPT !.error = TRUE, !.loading = FALSE]

\* The state read seeds the draft, whatever was edited.
AnswerMesh ==
    /\ meshRead /\ meshRead' = FALSE
    /\ \/ prov' = [prov EXCEPT !.state = mesh, !.draft = mesh, !.loading = FALSE]
       \/ prov' = ReadFailure
    /\ UNCHANGED <<mesh, phase, edits, others, applies, rollouts>>

-----------------------------------------------------------------------------
\* Editing the draft.

withRag(m, i, rag)  == [m EXCEPT !.rags[i] = rag]
removeRag(m, i) == [m EXCEPT !.rags = RemoveAt(m.rags, i)]
addRag(m) ==
    [m EXCEPT !.rags = Append(m.rags, [name |-> Len(m.rags), collection |-> Len(m.rags),
                                       model |-> m.llm.embedModel, replicas |-> 1])]

\* An input writes one field: <<field, value>>.
withLLM(m, e)   == [m EXCEPT !.llm[e[1]] = e[2]]
withParam(m, e) == [m EXCEPT !.params[e[1]] = e[2]]

\* Every card edits one field of its unit.
DraftsOf(m) ==
    {withRag(m, i, [m.rags[i] EXCEPT ![e[1]] = e[2]]) : i \in DOMAIN m.rags, e \in RagEdits}
    \cup {removeRag(m, i) : i \in DOMAIN m.rags}
    \cup (IF Len(m.rags) < MaxRags THEN {addRag(m)} ELSE {})
    \cup {withLLM(m, e) :
              e \in {w \in LLMEdits : w[1] \in {"endpoint", "chatModel"} \/ m.llm.inCluster}}
    \cup {withParam(m, e) : e \in ParamEdits}

Edit ==
    /\ prov.draft # Unset /\ edits < MaxEdits
    /\ edits' = edits + 1
    /\ \E draft \in DraftsOf(prov.draft) : prov' = [prov EXCEPT !.draft = draft]
    /\ UNCHANGED <<mesh, phase, others, meshRead, applies, rollouts>>

-----------------------------------------------------------------------------
\* Applying.

Apply ==
    /\ ~prov.applying /\ Diff # {}
    /\ prov' = [prov EXCEPT !.applying = TRUE]
    /\ applies' = applies \cup {[view |-> prov.draft, preview |-> Diff, of |-> prov.state, mine |-> TRUE]}
    /\ UNCHANGED <<mesh, phase, edits, others, meshRead, rollouts>>

\* The deployment takes the draft whole; its answer may be lost.  The state shown
\* is not read again.  The first accepted apply starts the rollout's polls.
AnswerApply(a) ==
    /\ applies' = applies \ {a}
    /\ \E taken, ok \in BOOLEAN :
          /\ ok => taken
          /\ IF taken THEN mesh' = a.view /\ phase' = "progressing" ELSE UNCHANGED <<mesh, phase>>
          /\ IF ~a.mine THEN UNCHANGED <<prov, rollouts>>
             ELSE /\ prov' = [prov EXCEPT !.applying = FALSE, !.applied = @ \/ ok]
                  /\ rollouts' = IF ok /\ ~prov.applied THEN <<"progressing">> ELSE rollouts
    /\ UNCHANGED <<edits, others, meshRead>>

-----------------------------------------------------------------------------
\* The rollout.  The timer does not wait for the poll before.

PollRollout ==
    /\ prov.applied /\ Len(rollouts) < MaxRollouts
    /\ rollouts' = Append(rollouts, phase)
    /\ UNCHANGED <<mesh, phase, prov, edits, others, meshRead, applies>>

\* The phase read is that of some moment of the call; a failure is swallowed.
AnswerRollout(k) ==
    /\ rollouts' = RemoveAt(rollouts, k)
    /\ \/ prov' = [prov EXCEPT !.rollout = rollouts[k]]
       \/ prov' = [prov EXCEPT !.rollout = phase]
       \/ UNCHANGED prov
    /\ UNCHANGED <<mesh, phase, edits, others, meshRead, applies>>

\* Leaving the panel drops its state; an apply that is out is still answered.
Unmounted ==
    /\ prov' = Blank /\ meshRead' = FALSE /\ rollouts' = <<>>
    /\ applies' = {[a EXCEPT !.mine = FALSE] : a \in applies}
    /\ UNCHANGED <<mesh, phase, edits, others>>

\* The deployment goes on (external).
Deployment ==
    /\ \/ phase = "progressing" /\ phase' = "complete" /\ UNCHANGED <<mesh, others>>
       \/ /\ others < MaxOthers /\ others' = others + 1
          /\ \E m \in Others \ {mesh} : mesh' = m /\ phase' = "progressing"
    /\ UNCHANGED <<prov, edits, meshRead, applies, rollouts>>

PanelActions == SubmitToken \/ Reload \/ Edit \/ Apply \/ PollRollout

=============================================================================
