# Verification of the declarative-agents runtime

The repository holds a profile-driven agent runtime (`agent-core`), an operator,
applications with their user interfaces, and build tooling. This directory models two
parts of it in TLA+. The first is the core: the engine that steps a declared state
machine, the for_each iterator, the checkpoint store and rollback. The second is what
the operator of a mesh sees of it: the panels that draw machines and traces, the
monitor, fleet and documentation pages, the collector's pages and the chatbot's
application, whose asynchronous reads are where those go wrong. TLC checks the modules
on small instances; TLAPS proves the invariants that matter most for every value of
the constants. `PROJECT.json` names, for every definition, the source lines it models,
and for every property a mutated definition that breaks it.

In the text below `core/` is `agent-core/internal/runtime/core/` and `kit/` is
`applications/ui-kit/src/`.

## Inventory

| Component | State | Operations | Interaction | What makes it correct |
|---|---|---|---|---|
| Engine loop (`core/loop*.go`) | machine state, signal, iteration, tokens, execution log, checkpoint error, status | `done`: context check, budget, transition lookup, dispatch, record, save, stop | calls commands, saves to the Checkpoint port, reads the registry | steps are numbered by the log; a reported outcome is stored; budgets hold; every run ends |
| for_each (`core/loop_iterator*.go`) | the frame: items, next index, outcomes, halted | open frame, sequential item, parallel batch, join | inside the engine loop; its frame travels in the checkpoint | outcomes are the items' results, in order; the join reports what happened; no item is lost or repeated by a resume |
| Parallel pool (`core/loop_iterator_parallel.go`) | unbuffered channel, workers, pool context | feed, receive, publish, cancel | goroutines inside one batch | returns; dispatches each item at most once; leaves a prefix |
| Resume (`core/resume.go`) | none | load, restore counters, log and frame | Checkpoint port to engine | no stored step is lost, numbering continues |
| Checkpoint ports (`core/checkpoint.go`) | the stored position and log | Save, Load, Revert, finalize | engine, rollback | atomic steps |
| Dolt adapter (`checkpoint/dolt`) | per-run branch, `main`, adapter flags | Save, Load, Merge, Revert | SQL server, which fails at any statement | implements the port through failure and crash |
| Rollback (`tools/lifecycle`) | the loaded log, report | Load, Revert, receipt walk, report | store, and effects outside it | stored steps keep their effects; nothing goes unreported |
| Command execution (`core/dispatch.go`) | result channel, timer | execute, time out, recover | engine | one result per dispatch |
| Machine spec (`core/machine.go`) | transition table | load, validate | engine | a row for what may happen; validation only warns of rows that leave a terminal state |
| Request-signal host (`core/signal_*.go`, `cmd/agent/main.go`) | run ownership, positions remembered, checkpoints per run | admit, execute, release | HTTP listeners to engine | one dispatch per run; no stale admission |
| REST server and await (`tools/rest`) | event queue, pending list, stopped channel | enqueue, await, stop, restore | handlers and awaiting commands | no event lost or delivered twice |
| OTLP receiver and relay (`tools/otlp`) | spool, write-ahead log | append, drain, retry, recover | network | nothing acknowledged is lost |
| Monitor recorder (`observability/monitor`) | run records | record, query | engine hooks | order and bounds |
| Operator (`operator/internal/controller`) | Kubernetes objects | reconcile | API server | convergence |
| Build targets (`magefiles`) | tag gates, image leases | schedule, lease | processes | exclusive lease, gate order |
| Machine and trace figures (`kit/panels/MachineView`, `kit/panels/TracePanel`, `kit/api/traceApi.ts`) | fold, search, window of one figure | fold chains, layer, overlay a walk, build and filter the span tree, brush a window | drawn from a declared machine and a collected trace | a figure shows what ran: no span, failure or edge lost or invented; the readings of one window agree |
| Agent monitor (`kit/hooks/useAgentMonitor.ts`) | picked agent, status, events, timers, requests, stream | mount, poll, stream, switch, read declarations | an agent's monitor through a proxy | shows only the picked agent; one reader; status settles |
| Documentation workbench (`documentation-curator/ui/docs`) | URL, selected document, panel, cached configuration | navigate, read, validate, patch, decide | curator agent over HTTP | the document drawn is the one selected; an answer reaches the document it was asked for |
| Trace reader (`kit/hooks/useTrace.ts`, `kit/panels/TracePanel`) | list and page, trace opened, story | page, open, overlay chats, focus | trace backend, which goes on collecting | shows what it asked last; paging skips nothing |
| Collector application (`collector/ui`, `tools/otlp/analytics*.go`) | heatmap, drag, breakdown | read, drag, ask, open an exemplar | trace reader beside it | the filter is the region; the breakdown is of the region |
| Fleet and topology (`kit/hooks/useFleet.ts`, `kit/panels/Topology`, `kit/api/fleetApi.ts`) | fleet shown, figure | poll, join, pick traces, derive the graph | observer agent and trace backend | a card is its pod; an edge was observed; the page follows the fleet |
| UI shell (`kit/shell`) | configuration, path, presence of agents | validate ui.yaml, route, probe | every application | a link opens its panel; an absent panel comes back |
| Chatbot application (`chatbot-mesh/agents/chatbot/ui`) | turns, chips, mesh draft, rollout | send, end, select, edit, preview, apply | chat agent and provisioner | a turn ends as its own request did; what is applied was previewed |
| LLM, files, exec, object store, planning, evaluation, loading, validation | data | conversions, I/O, sequential pipelines | commands of the engine | per-function contracts |

The behaviours that are hard here: a crash between a command's effect and the save
that records it; saves that fail with or without effect; a resume in the middle of a
for_each; a batch whose results are committed one save at a time; goroutines around a
channel, a select and a cancelled context; a store that needs three SQL statements to
finish a run; a rollback that changes the store and the world separately; pages whose
reads outlive the component that asked, answer out of order, or answer for a selection
that has moved on; and figures derived from lists that come in any order. The
`hazards` of PROJECT.json list them, at their lines.

## Modules

### AgentLoop: the engine

One run and its successive processes. `pc` is where the runner stands: `loop` is the
head of `done()`, `exec` a command in flight, `commit` a batch being committed, `save`
and `after` the end of `dispatch`, `ended` a finished run, `down` no process.

| Action | Code |
|---|---|
| `StartRun`, `Resume`, `Crash` | `Loop`, `LoadResume`; the process dies |
| `stopForContext`, `Current` | `stopForContext`, `applyBudget` |
| `dispatchIteratorItem`, `dispatchIteratorJoin`, `dispatchParallelIterator` | `doneIterator` |
| `stopForUnhandledTransition`, `StepParallel`, `StepTerminal`, `stopForNilCommand`, `StepCommand` | the cases of `done` after the transition lookup |
| `Execute`, `ExecuteBatch`, `CommitResult`, `saveCheckpoint` | `dispatch`, `runParallelIteratorCommands`, `commitParallelIteratorResults`, `saveCheckpoint` |
| `stopForSuspend`, `stopForCheckpointFailure`, `stopAfterDispatch` | the functions of these names |
| `Cancel` | the context is cancelled, at any moment |

The table is a constant: rows with an action or none, the results the action may
return (signal and cost), and a for_each. `stored` is the checkpoint store; a Save may
fail with or without effect. `Registries` says whether a resumed process still has the
iterator's action.

Abstractions: a result is a signal and a cost; prompts, outputs, receipts, redaction
and metrics are left out; domain and conversation snapshots are opaque, and a
snapshot that fails is a failed Save. The store keeps the log of a finished run (Dolt
reaps it; see DoltCheckpoint). ExecuteBatch takes the pool as one step with the
results of a prefix of the batch, a proper one only when a result halts or the run is
cancelled; ForEachPool shows that this is what the pool returns (BatchIsPrefix).

`MCAgentLoop` gives two tables: plain rows with a sequential collect_all for_each and a
fail_fast one behind it, and parallel collect_all, fail_fast and serial-only rows.

### LoopStore: the engine as client of its store

`LoopStore` reads what the run left in the store as the log of CheckpointPort: nothing, a
log, or the end, which is a position in a terminal state. `Port` is the abstract store
with that mapping and `KeepsPort` says that the engine uses its store as the port allows:
between two saves lies one entry, and nothing follows the end. DoltCheckpoint implements
the same abstraction, so the engine and the adapter meet in it from both sides. LoopStore
also names what the theorems ask of a machine (`BudgetIsOwn`, `ItemsRunOn`, `NoEach`).

### ForEachPool: the workers of a batch

A feeder, workers, an unbuffered channel, the pool's context and the run's. The select
takes any ready case; a parked select takes the first that becomes ready. Publishing a
result and cancelling the pool are two steps.

### CheckpointPort and DoltCheckpoint

`CheckpointPort` is what the engine and rollback rely on: one value, changed by atomic
Save, finalize and Revert steps. `DoltCheckpoint` is the adapter: a branch of commits,
each with the machine row and the step rows; the terminal Save reaps the rows, merges
into `main`, deletes the branch. Its refinement mapping is what a fresh adapter's
Load would answer. Every SQL statement may fail without effect (`Fail`) or with it
(the `Unreported` actions); the process may crash between any two. `Callers` chooses
who saves: plain rows, which stop at a failed Save, or the items of a for_each, which
do not.

### ReceiptRollback

Uses the store of CheckpointPort directly (its Save, finalize and Revert steps), keeps
the effects in force outside the store in `world`, and models one call of
checkpoint_rollback as Load, Revert, the walk entry by entry, and the report, with a
crash possible between any two steps. Between calls the run resumes and adds steps.
Compensatable tools and reversible tools share the policy "undo", since only the
answer of Undo tells them apart; a missing builder, receipt or reverser is among the
failures. Without a registry every entry fails, whatever its policy
(`receipt_rollback.go:252`).

### MachineFigure, TraceViews and TurnFigures: the figures

`MachineFigure` and `TraceViews` are the pure parts: the folding of chains of states,
the layers, tags and stages of a machine, the walk of a run laid over it; and of a
trace the conversion of the collector's spans (merging the two spans of one model call
and keeping milliseconds only), the span tree, its grouping, search and folds, the
timeline, steps and agents of a window. `TurnFigures` runs a turn of a declared machine
with the engine's own rule (row of state and signal, command, next signal), records its
spans, and turns the panel's controls meanwhile. A row whose action is `$tool` runs the
command its signal names at run time, and the walk records that name. Coordinates,
colours and texts are left out, and so are rows with a for_each, whose join runs no
command.

### AgentMonitor: a live panel

A mount is numbered; a request, timer or stream carries the number of the mount whose
`active` flag the code would check. Agents are deployed, refuse and are removed; every
read succeeds, fails or is refused; the operator switches between agents. The
declarations of machines and tools (`useDeclared.ts`) are read beside.

### DocumentIndex, DocsWorkbench, DocumentView and DocumentPage: the documentation page

`DocumentIndex` is the index and what it tells of a document; `DocsWorkbench` is the page:
history and links, overlapping reads that carry no mark of their selection, the
configuration and its `state_diagram` flag, and the curator panel, numbered by the drawing
it belongs to, whose calls may also answer without data. `raced` remembers
that reads overlapped, and the property is stated for when none did (see the
divergences). Which texts of a document the page shows is its parameter `ShownOf`;
`DocumentView` is the code's answer to that, whatever the shape of the document's lists,
recursively, and `DocumentPage` puts the two together: it names what the page leaves out
(`FieldLeftOut`), and DocumentIsDrawn says that it loses nothing else. A value the page
cannot draw at all (a map as the name of a state or a release, an empty map in a table of
pairs) stops its drawing and is not modelled. The page's own reads and calls do
not depend on it, so the theorems of DocsWorkbench hold for every way of drawing.

### TraceReader, SpanExplorer and CollectorApp: the collector's pages

`TraceReader` is the three hooks of the trace panel: the list and its pages over a
backend that goes on collecting, the trace a row opens, and the story window over an
application's chats. Their effects are numbered, `live` being the one whose answer
counts. `SpanExplorer` is the Explore page with the analytics behind it: the heatmap,
its cells, the drag, the filter made of a region, and breakdowns in flight.
`CollectorApp` mounts one or the other, as the application's routes do; an exemplar
of the one opens a trace in the other.

### FleetView and FleetBoard: the observer's page

`FleetView` joins the four reads of a fleet by pod, shortens the units' names, picks the
traces to read and derives the graph of who called whom. `FleetBoard` polls whether or
not the poll before was answered, and derives the figure again for every answer.
`Ordering`, which FleetView and ShellConfig share, says what the pages' sort, filter and
find leave: an item's place is given by the number of those before it.

### ShellConfig, ChatApp and Provisioning: the chatbot's application

`ShellConfig` is the shell's validation of ui.yaml, its routes and sidebar. `ChatApp`
composes it with the application: panels mounted by URL, turns in a store that outlives
them, the observability panel's selection, probes of the agents panels need; and with
`Provisioning`, the panel that reads, edits, previews and applies the mesh.

## Runs

| Run | Question | Bounds | States |
|---|---|---|---|
| `loop_sequential` | stored progress and its outcomes, frames and joins interrupted and resumed anywhere, growth of the stored log, termination | 0, 1 or 3 items, two frames in a row, 10 iterations and 6 tokens, 2 restarts, 1 failed save | 61,527 |
| `loop_parallel` | outcomes are durable, batches read as if run one by one and the store is used as the port allows, under budgets a batch straddles and a missing action | 0, 1 or 3 items, 8 iterations and 3 tokens, 2 restarts, 1 failed save | 137,651 |
| `loop_each_save_failure` | violation: after a failed save a sequential for_each goes on with its next item | 3 items, no restart | |
| `for_each_pool` | the pool returns a prefix, and ends | 4 items, 3 workers | 12,952 |
| `dolt_checkpoint` | the adapter implements the port, stays whole and keeps a run's history | 4 steps, 3 restarts or rollbacks, 2 failures | 10,233 |
| `rollback_walk` | stored steps stand, receipts play once, nothing goes unreported | 4 steps, 3 rollbacks, with and without a registry | 105,121 |
| `turn_figures` | the figures of a machine and of a trace show what ran | machines of 4 states and up to 5 rows, whose words are their own, shared or `$tool`; turns of 2 commands with every timing; traces of 3 spans; 1 click | 71,220 |
| `agent_monitor` | one reader, of the picked agent, whose status settles | 2 agents, 2 mounts, 2 deployments or removals, 2 frames | 197,990 |
| `docs_workbench` | the page draws the selected document, whole, and settles | lists of every one or two items of six shapes, road maps, states and signals with further fields, an empty document; 2 moves, 3 calls | 161,458 |
| `collector_app` | each screen shows what it asked, paging skips nothing, the region is explained, reads end | 5 traces, pages of 2, 3 chats, 4 reads, 6 spans in 2 by 2 cells, 2 selections | 421,307 |
| `fleet_board` | cards, figure and page follow the fleet | 2 fleets, 2 trace lists of up to 5 traces, 2 polls | 24,914 |
| `chat_app` | links, turns, answers, previews and probes of the whole application | 18 configurations, 2 turns, 4 clicks, 2 edits, 1 other operator | 172,548 |

Why the bounds are enough. A run interacts with its own past through one stored
checkpoint, so one crash and one failed save already give every combination of
in-memory and stored position, and a second crash one of a resumed run; three items
have a first, a last and one between; the iteration budget is smaller than the longest
path, so that it is hit inside a frame, between frames and inside a batch; the token
budget of the parallel machine runs out in the middle of a batch of three, so that after a
resume the rest of the batch is committed in the terminal state the budget led to, which is
where the store is saved over the run's end. Four items
on three workers leave a worker a second item while the feeder is parked. Two statement
failures and three restarts cover a terminal Save that fails, is finished by a Load
that fails, and finished again. Three rollbacks cover a retry of a retry; the effects
carry distinct numbers, so a step that is run again after a rollback is told from the
one it replaces.

On the pages a late answer meets at most one newer selection at a time: the code keeps
one flag per effect, so two reads of a kind give every order of answers and a third
gives the return to what was read first. Five traces of two a page have a first page,
one in the middle and a short last one, and can shift by a page while it is read. The six shapes
of an item are a text, a list and maps of one or two fields, flat and nested; a list's kind
is told by looking at its items, so two of them give every mixture. The
spans lie on both sides of a rounded bucket boundary, on a duration edge, and at both
ends of the range. The machines have a branch, a loop, a chain and failure rows. The
configurations hold each fault the validation names once, beside sound ones.

CHECK_DEADLOCK FALSE stands where the system really stops: a run that ended (loop,
Dolt), an exhausted bound on restarts or rollbacks, and a page on which nothing is in
flight and the bounded operator has no step left. The pool is checked for deadlock;
`Returned` is its proper end.

## Divergences

The violation run states what a document of the repository says; the `findings` of
PROJECT.json quote it and tell what the trace shows: after a failed Save a sequential
for_each goes on with its next item (`loop_iterator.go:143`).

Others were met while modelling. They are in the modules as the code has them, and the
properties are stated for the cases they leave:

- A spent token budget does not stop a parallel frame (`loop_runner.go:136`).
- A command routed on BudgetExhausted becomes the outcome of the open frame's next
  item (`loop_iterator.go:99`); the scenario critic's machine has such a row
  (`applications/catalog/agents/scenario-critic/machine.yaml:233`).
- After a failed Save inside a for_each the missing entry is never written, and Revert
  may then land on a commit another run left on main under the same step
  (`dolt_checkpoint.go:217`, `:407`): with `Callers` "items" HistoryIsKept and
  StoreIsWhole fail, so `dolt_checkpoint` takes callers that stop.
- The pool's feeder may hand out an item after the halt (`loop_iterator_parallel.go:198`);
  what it leaves is a prefix all the same.
- A rollback whose walk failed has reverted the store already; a retry finds nothing to
  walk and reports clean.
- A fold depends on the order of declaration: TurnFigures takes machines declared in the
  order of their chains (`DeclaredInOrder`).
- Overlapping reads of the documentation page may show the older document
  (`Documentation.tsx:1171`), and overlapping polls of the fleet the older fleet
  (`useFleet.ts:25`): `raced` and `overlap` name those histories.
- Nothing ends a drag on the heatmap: cells entered after the release move its end, and
  leaving asks again; an older breakdown that answers late replaces the newer
  (`Explore.tsx:85-105`). The latest span is counted by the last column, whose filter
  leaves it out, and bucket boundaries are rounded onto spans.
- Declarations are read once per agent, so an agent deployed later is drawn without
  them (`useDeclared.ts:26`).
- The preview of a mesh, which says that the operator "sees exactly what an apply will
  change" (`provisioningApi.ts:144-145`), does not list the chat and the embedding model:
  the panel has inputs for both and an apply sends them (`:129-134`, `:162-172`).
  AppliedWasPreviewed compares every other field and names the two (`Unlisted`). The
  preview does not tell rags of one name apart either, and a change that another operator
  made since the mesh was read is overwritten unseen.
- The walk of a run is matched to rows by the command's name (`machineViews.ts:46-51`). A
  `$tool` row's command has another (`core/machine.go:189-191`, `:458-462`,
  `core/dispatch.go:46`), so the state it ran in is not marked, or another row of the state
  is that has the tool for its action. The request machine of the chatbot has such a row
  (`applications/chatbot-mesh/agents/chatbot/request-machine.yaml:143`). RunIsDrawnTruly asks
  a mark only of the states left by a row that names its command.
- The page drops fields of a document that the raw text below the drawing has: those of a
  release that its table has no column for (`Documentation.tsx:674-721`; `use_cases` and
  `follow_up` of `agent-core/docs/road-map.md`), those of a state or a signal beside the two
  shown (`:1285-1311`), and the others DocumentPage names.
- A call of the observer counts twice in the figure of the fleet when its own span names the
  unit's address and the unit's span is collected as well (`topologyGraph.ts:95-108`: both
  have the key of one `poll` edge). FigureIsObserved counts as the code does.

## Fairness

Liveness is checked in `loop_sequential` and `for_each_pool`, and on the pages.
`AgentLoop!FairSpec` asks weak fairness of the loop's own steps: `coreLoop` is a single
goroutine that always takes its next step, and a dispatch returns because `safeExecute`
answers on the command timeout or on cancellation. Nothing is asked of crashes, resumes,
cancellation or failures. Under it a run ends or its process dies.
`ForEachPool!FairPoolSpec` asks weak fairness of the feeder and of each worker: Go schedules
runnable goroutines, and a dispatched item returns within the command timeout. A parallel
item that is not context-aware runs on a context that cannot be cancelled
(`loop_iterator_parallel.go:174-178`), so with the timeout disabled the pool ends only if
that command does.

The pages ask weak fairness of what the browser owes: a fetch settles (with an answer,
an error or a refusal; the model chooses), a timer that was set fires, and a stream
that was opened delivers or ends. Nothing is asked of the operator, of agents coming
and going, of other operators or of the backend's collecting. What then must happen is
that a page stops saying it is loading (ReadsEnd, PageSettles, BoardSettles,
PanelsSettle), that a status tells what holds (StatusSettles), and that a panel hidden
for its agent comes back with it (AbsentPanelsReturn).

## Proofs

| Module | Theorem | Says |
|---|---|---|
| `AgentLoop_proofs` | `TypeCorrect` | every variable and stored checkpoint keeps its type |
| | `StepNumbersHold` | an entry's iteration is its place in the log |
| | `StoredLogOnlyGrows` | no durable step is dropped or rewritten |
| | `OutcomesAreDurable` | a reported success, exhausted budget or suspension is stored |
| | `IterationsAreBudgeted` | past MaxIterations only BudgetExhausted rows run |
| | `ItemsAreDurable` | at a dispatch boundary log and frame are in the store; a frame's outcomes are what its last entries did |
| | `BatchesLeaveSerialLogs` | a batch leaves the log a sequential run would have left, also cut short |
| | `AllSuccessIsAll` | all_success only after every item, sequential or parallel |
| | `FramesEndAsTheySay` | nothing of a sequential frame after an item that halts it |
| | `EngineKeepsPort` | while no save failed, a save adds the one new entry or ends the run, and nothing follows the end |
| | `EngineImplementsPort` | a run none of whose saves fails implements CheckpointPort |
| | `SingleRunsStop` | of a machine without a for_each no command is recorded after a failed save |
| | `SingleRunsImplementPort` | such a machine implements CheckpointPort also when saves fail |
| | `PoolReturnsPrefix` | a returned pool leaves a prefix of the batch |
| | `PoolDispatchesOnce` | no item runs twice |
| | `ReturnedPoolIsABatch` | what a returned pool leaves is a batch as the loop's ExecuteBatch takes it |
| `DoltCheckpoint_proofs` | `DoltImplementsPort` | every step of the adapter is one of CheckpointPort, or none |
| | `StoreIsAlwaysWhole` | Load answers every acknowledged Save, without a hole; main has no step rows |
| | `HistoryIsAlwaysKept` | a rollback hits its target, the branch goes after the merge, the end is final |
| `AgentMonitor_proofs` | `TypeCorrect` | every variable of the panel and its agents keeps its type |
| | `PickedIsShown` | the panel shows nothing of an agent it no longer watches |
| | `ReaderIsOne` | at most one stream and one poll loop read for the panel |
| | `NewestAreShown` | the events shown are the newest, in order, up to the limit |
| `CollectorApp_proofs` | `ScreenShowsAsked` | whatever screen is mounted shows what it asked for last |
| | `PagingIsComplete` | paging to older traces skips none and comes to no blank page |
| | `RegionIsAlwaysExplained` | a region's filter takes what its cells count, but for the boundaries' rounding, and the breakdown is of the region |
| `DocsWorkbench_proofs` | `DocumentShownIsSelected` | the document drawn is the one the URL selects, unless reads overlapped |
| | `PanelStandsUnderItsDocument` | the curator panel and the machine tab are of the document above them, and a decision is on the suggestion beside it |
| `FleetBoard_proofs` | `CardsAreOfTheirPods` | each pod an answer names has one card, with its own readings |
| | `PageIsOfFleet` | without overlapping polls the page shows the last fleet read, and the figure comes to be of it |
| `ChatApp_proofs` | `TurnsAlwaysFollow` | a turn is open exactly while its request is out, wherever the user is |
| | `AnswersAlwaysFollow` | every answer stands under its question, sent with what was said before it |
| | `AppliesAreAlwaysPreviewed` | but for the chat and embedding models, an apply changes what was previewed |
| | `LinksAlwaysOpen` | of a ui.yaml that builds every link opens its panel, each route stands once in the sidebar, and a bare URL opens the first shown there |
| `ReceiptRollback_proofs` | `RollbackTypes` | every variable of a rollback and of the store keeps its type |
| | `StoredStepsAlwaysStand` | no step the store holds has been undone |
| | `WalksAreReported` | a walk's answer accounts for every entry past its target |
| | `UndoneOnceHolds` | no receipt is played on an effect already undone |

They hold for every machine, table, budget, number of items and workers, agents, mounts,
documents and ways of drawing them, traces, page sizes, chats, fleets, reading orders,
polls and ui.yaml files, under the assumptions the modules name: `LoopAssumption` (the
constants have their types; None is no frame, row or checkpoint), `FinalizedAssumption` (the
end of a run is no log), `CallersAssumption` and `DoltAssumption` (the three callers; nil
is no log, branch or table; the bounds are numbers), `PoolAssumption` (there is a worker,
finitely many items), `RollbackAssumption` (None and Finalized differ and are no logs; the
bounds are numbers), AgentMonitor's on its agents and limits, `DocsAssumption` and
`BoundsAssumption` (the curator serves the documents of its index), `ChatsAssumption` and
`PageAssumption` (chats are a sequence of named turns; a page holds a trace),
`HeatmapAssumption` (there is a column, and the duration edges go up from 0),
`SpoolsAssumption` and `BreakdownAssumption` (a spool is finite, and None is no breakdown),
`FleetAssumption` and `ItemsAssumption` (the answers are lists, and what was read from a
pod is named for it), `TurnsAssumption` (the store's limit is a number), `ShellAssumption`
(the lists of a file are lists, whatever is in them) and `MeshAssumption` (a mesh that is
deployed lists its units).

The argument for the loop. `TypeInv` is TypeOK with what each place of `pc` adds: a
frame's progress stays within its items, and a batch is in flight or being committed
only while its frame is active. The log invariants
are not inductive alone: a resume restores the log from the store and the counters
from the position in it, so numbering needs `Numbers`, which says at each place by how
much the iteration is ahead of the log, in memory and for what is stored. Growth of the
store needs `Extends`: what is stored is a prefix of what the process holds. Durability
needs `Durable`, which ties the place after a save to the store or to the error mark.
The budget needs `Budget`, which bounds what a batch in flight may still record.
Each is proved preserved action by action.

Some of this, and the frames, need something of the machine, named where it is used and
checked by TLC of the machines of the runs (`MCMachineAssumption`):

- `EndsAreFinal`: no row leaves a terminal state. Machine validation only warns of one
  (`core/machine_diagnostics.go:98-104`), so it is a condition and no assumption. Durability
  of outcomes, items and batches and the use of the store as a port need it; StepNumbersHold,
  StoredLogOnlyGrows, IterationsAreBudgeted, AllSuccessIsAll, FramesEndAsTheySay and
  SingleRunsStop do not.
- `BudgetEndsFrames`: in a state the items of a for_each run in, a BudgetExhausted row
  only ends the run. `recordIteratorOutcome` does not ask where a result comes from, so
  a command run there is recorded as an outcome of the open frame. The machines of the
  repository with a for_each meet it, but for the scenario critic, which tears down on
  BudgetExhausted within its teardown frame; for that machine ProgressIsDurable fails.
- `OutcomesAreDistinct`: no signal both continues and aborts, a serial-only action does
  not continue on CommandError, and all_success is a signal of its own. The observer,
  whose joins coincide, is outside what AllSuccessIsAll says: there the signal of a join
  tells nothing.
- `SequentialRows` and `ActionsStay` for FramesEndAsTheySay: the property is about
  sequential frames, and a resume that lost the frame's action halts the frame without an
  outcome, so that its join may say all_success (`loop_iterator.go:127`).

The argument for the frames. `Where`: the state of an open frame, in memory or stored, is
one the items of a for_each run in, or terminal; with `BudgetEndsFrames` the table is then
only asked on an exhausted budget, and its row ends the run. `Frames`: the outcomes of a
frame, in memory or stored, are the results of the last entries of the log it stands beside,
each dispatched by the frame's signal (`Recorded`), unless the frame was rejected when it
was resumed; and a command or a batch under way within a frame is of the frame's row and
fits in the items that are left. `Progress` compares the frame in memory with the stored
one, at the places where a resume would have to find them equal. `Shapes`: a frame has an
outcome for each item it is past, and one that is halted has an outcome that failed.
`Marks`: a frame with an outcome that halts it bears the mark, in memory and in the store,
so that no further item of it is dispatched, after a resume either. The hard step is the
commit of a batch: its results are recorded and saved one by one, so a crash between two
leaves a stored frame in the middle of the batch, and it must have the same relation to the
stored log as a frame after a sequential item.

Three further conditions on a machine are for the port: `BudgetIsOwn`, no command, join or
resume reports the loop's own BudgetExhausted signal; `ItemsRunOn`, the items of a for_each
do not run in a terminal state; and `NoEach`, there is no for_each. TLC checks the first
two of the machines of the runs.

The argument for the engine's use of its store. `InStep`: while no save failed, the log in
memory is the one in the store, and one entry longer only at the save. What makes it hard
is the end. A run that is closed in the store is usually over in memory, but a batch whose
last results are still being committed goes on in the terminal state that a spent token
budget led to (`loop_runner.go:136`), and so does a frame that is resumed there: the engine
then saves over a finished run. `Ends` says that only a spent budget does this, and that
such a run stays in a terminal state, so that every later save finds the run closed and
leaves it closed; `Own` gives that BudgetExhausted means a spent budget, which stays spent
(`BudgetStaysSpent`), so no frame can bring the run back out of the terminal state.
With `NoEach` a failed save is the last step of a process (`Single`), which is why
FailedSaveStops, violated with a for_each, holds for these machines, and why the port is
then kept without any proviso on saves.

The argument for the Dolt adapter. A run is in one of two conditions. `Going(L)`: the
database holds exactly the log `L`, its branch being the chain of the commits of L's
prefixes, each with the rows of that prefix (`Holds`), and the engine's log is `L`, or `L`
and the entry being saved (`Follows`). `Over`: the end is in the database, at the tip of
the branch or on main without a branch, and nothing but a Save of the end is under way.
A commit takes `L` to `Append(L, e)` or ends the run, a rollback takes it to a prefix,
because a chain names each step once (`ChainCut`); everything else, failures and crashes
included, keeps the condition, and `Stored` is a function of it (`AnswerHeld`,
`AnswerEnded`). So the port's step is read off the two conditions. The lemmas on data say
that rows without a hole load as the log they are of (`RowsLoad`): the row with k rows
before it is the one of index k, by the cardinality of an interval, so that no
induction over the sort is needed. The hypothesis `ItemsAreSaved` excludes what the
code gets wrong (see the divergences): an item of a for_each whose Save fails in a state
that is not terminal.

The argument for the pool. `PoolInv` says that the items run or done are exactly
`1 .. fed`, each in one place (`Accounted`, `DispatchedOnce`); that the feeder closes
before all items are fed only with a cancelled context, that a cancelled context has a
halting result or a cancelled run behind it, and that a worker only leaves a closed
channel (`Reasons`). When every worker has exited no item is running, so the done
ones are `1 .. fed`. `ReturnedPoolIsABatch` carries this over to the loop: whatever the
items answered, ExecuteBatch has a step that takes just these results, with halting and
cancelling read as the loop reads them.

The argument for the rollback. `RollbackInv` adds to the properties, for the store,
that the effects of the stored log are increasing and that each is in force exactly
when its tool's policy has an effect (`Stored`); and for a walk, that the store holds
the prefix up to the target, that the entries the walk has not come to are still in
force, and that those behind it are gone or listed (`UnderWay`). Undoing one entry
never touches a stored one because the effects are ordered; a receipt is never played
twice because what the walk comes to next is in force. Both need the Revert to come
before the walk.

The argument for the pages. Each has the same core: the read that counts is the one the
mounted component asked. In AgentMonitor that is tied through the number of the mount;
in CollectorApp `Matched` says that a read with the live number asks what the screen
asks, so that a late answer of another kind cannot count. For the paging, `Seen` keeps
that every trace from `Bottom` up to the newest shown was shown, where `Bottom` is the
end of the page shown, or while a page is awaited where it would begin if it answered
now: traces that arrive only raise it, so a page that answers late overlaps the one
before and never leaves a gap. `PageRows` ties a page of the listing to the interval of
traces it stands for. The story's anchor needs a least chat, which is there because the
order of numbers is well-founded. In FleetBoard `Alone` says that polls that do not
overlap are numbered by the last tick, and `Drawn` that data on the page has its figure
or a read that counts.

On the documentation page an answer does not say what it answers. `WorkbenchInv` therefore
keeps, for as long as no navigation overtook a read, that every read out is of the
selected document and that the page is loading exactly while one is (`ReadsSelected`), so
that the document shown is the selected one when it is not loading (`ShowsSelected`); and
for the panel and the tab, numbered by the drawing they belong to, that a call or read with
the present number is for the document drawn (`PanelOfDocument`, `ToggleOfDocument`), all
others having lower numbers. That a decision is on the suggestion that stands needs that a
panel has one call out, raced or not.

The cards are sorted, and so is the sidebar; a sort is given by places, and that a total
order gives each item of a finite set one place is proved by counting: a later item has
more before it, so the counts are distinct numbers below the size of the set, and take all
of them (`OrderedPlaces`, `EachAtOnePlace`). With it a card per pod survives the reading order
(`OrderKeepsCards`), for every order an application gives, also one that names a unit twice
or none. `Given` says that every answer on the page or under way is one the observer gave.

For the shell the validation is what makes the links work: `ClaimsAreApart` reads from the
absence of problems that ids and paths are told apart, `RoutesAreApart` carries that from
what was checked to the routes that are used, since a file without problems has no entry
that the checks pass over (`EntriesAreListed`). A path that is no panel's is then empty or
unknown, and the first of the sidebar is opened.

For the heatmap the filter's boundaries and the cells' columns are both quotients, rounded
down. `Boundary` compares them by products alone: a start in column p reaches every boundary
up to p, and one further on only if it lies on it and it was rounded; `Columns` applies it
to both sides of a region, and adds the last column, which takes in the latest start. The
rows need no rounding (`DurationRows`). The latest start is there because a spool is finite
(`LatestSpan`). The breakdown is of the region by `LastIsRegion`, the selection last asked
for is that of the region highlighted, and `LastIsAnswered`, which says when an answer to it
is the one shown; `raced` is what both allow for.

In ChatApp the store and the chat are tied to the requests: each request is of a turn of
its own (`Store`), and a chat that is busy ends in the question of the one request that is
its own (`Talk`), which leaving the panel takes from it. That the history was sent whole is
stated of the messages before the question, so that nothing need be said of the filter. For
the previews `ProvInv` carries with an apply the two meshes it was asked with, and
`DiffIsChanges` shows that the comparison by names finds the units that differ, neither
more nor fewer, when no two share a name, and every other field but the two models the
preview does not list: as many names as units make the naming injective
(`DistinctNames`).

Only model-checked: liveness (RunEnds, PoolReturns and those of the pages), which the
prover does not reach; the figures of machines and traces (TurnFigures) and the figure of
the fleet (FigureIsObserved), which fold over sequences, so that what they compute for
every input needs an induction over data; and DocumentIsDrawn, whose nested values only
recursive operators read (DocumentView), which the prover does not admit. FailedSaveStops
fails, as its run shows, but for machines without a for_each, for which it is proved.

## Plan

Done, the engine first because everything else serves it: AgentLoop, ForEachPool, LoopStore
and their proofs, CheckpointPort and DoltCheckpoint with its proofs, ReceiptRollback and
its proofs; then the user interfaces, from the figures and the monitor to the pages that
compose: TurnFigures, AgentMonitor and its proofs, DocsWorkbench and its proofs,
CollectorApp and its proofs, FleetBoard and its proofs, ChatApp and its proofs.

Next modules, in order:

1. `SignalHost`: admission, `RunOwnership`, the per-run checkpoint and the remembered
   position of the request-signal host, several requests for one run; an abstract
   specification of one dispatch per run.
2. `RestAwait`: queue, pending list, await over several sources, stop and restore;
   no event lost or delivered twice.
3. `SafeExecute`: result, timer and context racing for one dispatch, with detached
   commands, implementing the one-step dispatch of AgentLoop.
4. A run that rolls itself back: AgentLoop and ReceiptRollback over one store, with a
   suspension in a terminal state.
5. The OTLP spool and write-ahead log, the monitor recorder, the image lease and gate
   scheduler, the operator's reconciler.
6. The bench's pages, whose launcher stops polling for a run it does not show.

Next theorems: mutual exclusion of SignalHost; that an event of RestAwait is delivered once.

## Not modelled

PROJECT.json lists every component with its status and reason. In short: conversions,
prompts, declarations, loading and validation are sequential code over data; LLM, file,
exec, service and object-store tools are I/O, which the models see as results and
effects; profiles and charts are inputs of the engine. Of the user interfaces the bench's
pages, the storage banner, the configuration and source viewers and everything that is
only layout or wording are left out: they read like the pages modelled and keep no state
of their own, or none but what they show.
