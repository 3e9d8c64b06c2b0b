----------------------------- MODULE AgentLoop -----------------------------
(***************************************************************************)
(* The declarative engine of agent-core (internal/runtime/core): one run   *)
(* of a transition table.  A runner repeats done(): check the context,     *)
(* apply the budget, look the (state, signal) pair up, dispatch the row's  *)
(* command, append an Entry to the execution log, save a checkpoint and    *)
(* decide whether to stop.  A row with a for_each expands its action over  *)
(* an array, one item at a time or in a parallel batch, and then joins.    *)
(*                                                                         *)
(* A process may crash between any two steps and be resumed from the last  *)
(* stored checkpoint (resume.go).  The checkpoint store is the port of     *)
(* checkpoint.go: a Save is atomic, and a Save that reports an error may   *)
(* or may not have been stored.                                            *)
(***************************************************************************)
EXTENDS Naturals, Sequences

CONSTANTS
    State, Signal,     \* the machine's vocabulary
    Initial,           \* LoopParams.InitialState
    Terminal,          \* states for which IsTerminal holds
    Declared,          \* run_status declared by terminal states: a function
    Table,             \* the transition table: <<state, signal>> -> row
    Seed, ResumeSignal, AwaitApproval, BudgetExhausted, CommandError,
    MaxIterations, MaxTokens,  \* Budget; 0 means unlimited
    ItemCounts,        \* lengths a for_each selector may resolve to
    Registries,        \* on resume, may the for_each action be registered?
    Persistent,        \* FALSE: the Noop adapter is configured
    None               \* nil

(* Bounds of the model, no part of the program. *)
CONSTANTS MaxRestarts, MaxFailures

VARIABLES
    pc,          \* where the runner is; "down" when no process runs
    state, signal, iteration, tokens,   \* loopRunner and RunResult counters
    execution,   \* loopRunner.execution
    iterator,    \* loopRunner.iterator: the active for_each frame, or None
    saveErr,     \* checkpointSaveErr # nil; never cleared
    status,      \* RunResult.Status, "" while the run goes on
    cancelled,   \* ctx.Err() # nil
    known,       \* Registry.Resolve finds the iterator's action
    job,         \* the dispatch in flight
    batch,       \* parallel results not committed yet
    suspend,     \* a committed parallel result asked for approval
    stored,      \* what the checkpoint store holds, or None
    restarts, failures  \* crashes and resumes, failed saves (bounds)

store == <<stored, saveErr, failures>>
counters == <<iteration, tokens, execution>>
flight == <<job, batch, suspend>>
outside == <<cancelled, known, restarts>>
vars == <<pc, state, signal, counters, iterator, status, flight, store, outside>>

-----------------------------------------------------------------------------
(* Data. *)

Result == [signal : Signal, cost : Nat]

EachSpec == [parallel : BOOLEAN, serialOnly : BOOLEAN, failFast : BOOLEAN,
             continueOn : SUBSET Signal, abortOn : SUBSET Signal,
             joinNext : State, allSuccess : Signal, partial : Signal,
             failed : Signal, empty : Signal]

Row == [next : State, action : BOOLEAN, emits : SUBSET Result,
        each : EachSpec \cup {None}]

EachKeys == {k \in DOMAIN Table : Table[k].each # None}

Frame == [key : EachKeys, items : Nat, next : Nat, outcomes : Seq(Signal),
          halted : BOOLEAN]

FrameSlot == Frame \cup {None}

Entry == [iteration : Nat, from : State, to : State, signal : Signal,
          result : Signal]

Checkpoint == [state : State, signal : Signal, iteration : Nat, tokens : Nat,
               iterator : FrameSlot, execution : Seq(Entry)]

Job == [from : State, trans : Signal, emits : SUBSET Result,
        after : {"stop", "item", "batch"}, size : Nat]

Statuses == {"succeeded", "failed", "budget_exceeded", "cancelled", "suspended"}
RunStatus == Statuses \cup {""}

Place == {"down", "loop", "exec", "commit", "save", "after", "ended"}
StoreSlot == Checkpoint \cup {None}

ASSUME LoopAssumption ==
    /\ Initial \in State
    /\ Terminal \subseteq State
    /\ {Seed, ResumeSignal, AwaitApproval, BudgetExhausted, CommandError} \subseteq Signal
    /\ DOMAIN Declared \subseteq Terminal
    /\ \A s \in DOMAIN Declared : Declared[s] \in Statuses
    /\ DOMAIN Table \subseteq State \X Signal
    /\ \A k \in DOMAIN Table : Table[k] \in Row
    /\ MaxIterations \in Nat /\ MaxTokens \in Nat
    /\ ItemCounts \subseteq Nat
    /\ Registries \subseteq BOOLEAN
    /\ Persistent \in BOOLEAN
    /\ MaxRestarts \in Nat /\ MaxFailures \in Nat
    /\ None \notin EachSpec /\ None \notin Frame /\ None \notin Checkpoint

NoJob == [from |-> Initial, trans |-> Seed, emits |-> {}, after |-> "stop", size |-> 0]

Only(sig) == {[signal |-> sig, cost |-> 0]}

TerminalStatusForState(s) == IF s \in DOMAIN Declared THEN Declared[s] ELSE "failed"

EachOf(f) == Table[f.key].each
BodyState(f) == Table[f.key].next

-----------------------------------------------------------------------------
(* Helpers of the loop. *)

BudgetOffByOne ==   \* mutant: > for >=
    \/ MaxIterations > 0 /\ iteration > MaxIterations
    \/ MaxTokens > 0 /\ tokens > MaxTokens

coreBudgetExceeded ==
    \/ MaxIterations > 0 /\ iteration >= MaxIterations
    \/ MaxTokens > 0 /\ tokens >= MaxTokens

(* r.signal after applyBudget. *)
Current == IF coreBudgetExceeded THEN BudgetExhausted ELSE signal

Halts(spec, sig) == \/ sig \in spec.abortOn
                    \/ sig \notin spec.continueOn /\ spec.failFast

newIteratorSnapshot(key, n) ==
    [key |-> key, items |-> n, next |-> 0, outcomes |-> <<>>, halted |-> FALSE]

recordIteratorOutcome(f, sig) ==
    IF f = None \/ f.next >= f.items THEN f
    ELSE [f EXCEPT !.outcomes = Append(@, sig),
                   !.halted = @ \/ Halts(EachOf(f), sig),
                   !.next = @ + 1]

failedCount(f) == {i \in DOMAIN f.outcomes : f.outcomes[i] \notin EachOf(f).continueOn}

iteratorJoinSignal(f) ==
    LET failed == failedCount(f) IN
    CASE failed # {} /\ (f.halted \/ EachOf(f).failFast) -> EachOf(f).failed
      [] failed = 1 .. f.items -> EachOf(f).failed
      [] failed # {} -> EachOf(f).partial
      [] OTHER -> EachOf(f).allSuccess

(* What prepareIterator makes of the row for key: the next state, whether   *)
(* a command was built, what it may return, and the active frame after it.  *)
Choices(key) ==
    LET row == Table[key]
        plain == [next |-> row.next, action |-> row.action, emits |-> row.emits,
                  frame |-> iterator]
    IN IF row.each = None THEN {plain}
       ELSE {[plain EXCEPT !.action = TRUE, !.emits = Only(CommandError)]}
            \cup (IF 0 \in ItemCounts
                  THEN {[plain EXCEPT !.action = TRUE, !.emits = Only(row.each.empty),
                                      !.next = row.each.joinNext]}
                  ELSE {})
            \cup {[plain EXCEPT !.frame = newIteratorSnapshot(key, n)] :
                      n \in ItemCounts \ {0}}

FramelessPosition(s, sig, it, f, log, tok) ==   \* mutant: iterator not folded in
    [state |-> s, signal |-> sig, iteration |-> it, tokens |-> tok,
     iterator |-> None, execution |-> log]

Position(s, sig, it, f, log, tok) ==
    [state |-> s, signal |-> sig, iteration |-> it, tokens |-> tok,
     iterator |-> f, execution |-> log]

SaveUnnoticed(cp) ==   \* mutant: recordCheckpointFailure forgotten
    IF Persistent
    THEN \/ stored' = cp /\ UNCHANGED <<saveErr, failures>>
         \/ /\ failures < MaxFailures
            /\ failures' = failures + 1
            /\ UNCHANGED saveErr
            /\ stored' \in {stored, cp}
    ELSE UNCHANGED store

(* Checkpoint.Save: stored, or failed with or without effect.               *)
Save(cp) ==
    IF Persistent
    THEN \/ stored' = cp /\ UNCHANGED <<saveErr, failures>>
         \/ /\ failures < MaxFailures
            /\ failures' = failures + 1
            /\ saveErr' = TRUE
            /\ stored' \in {stored, cp}
    ELSE UNCHANGED store

-----------------------------------------------------------------------------
(* The process. *)

Init ==
    /\ pc = "down" /\ state = Initial /\ signal = Seed
    /\ iteration = 0 /\ tokens = 0 /\ execution = <<>>
    /\ iterator = None /\ status = "" /\ saveErr = FALSE
    /\ cancelled = FALSE /\ known = TRUE
    /\ job = NoJob /\ batch = <<>> /\ suspend = FALSE
    /\ stored = None /\ restarts = 0 /\ failures = 0

(* newLoopRunner without a checkpoint to resume: the process is fresh.      *)
StartRun ==
    /\ pc = "down" /\ stored = None
    /\ pc' = "loop"
    /\ UNCHANGED <<state, signal, counters, iterator, status, flight, store, outside>>

(* What LoadResume seeds a run with.                                        *)
InitialIterations(cp) == cp.iteration

NoHistory(cp) == <<>>   \* mutant
InitialExecution(cp) == cp.execution

(* LoadResume: the position, counters, log and frame come from the store,   *)
(* the signal from the machine.  A finalized checkpoint is reported and not *)
(* re-entered.                                                              *)
Resume ==
    /\ pc \in {"down", "ended"} /\ stored # None /\ restarts < MaxRestarts
    /\ restarts' = restarts + 1
    /\ state' = stored.state /\ signal' = ResumeSignal
    /\ iteration' = InitialIterations(stored) /\ tokens' = stored.tokens
    /\ execution' = InitialExecution(stored) /\ iterator' = stored.iterator
    /\ saveErr' = FALSE /\ cancelled' = FALSE
    /\ known' \in Registries
    /\ job' = NoJob /\ batch' = <<>> /\ suspend' = FALSE
    /\ IF stored.state \in Terminal
       THEN pc' = "ended" /\ status' = TerminalStatusForState(stored.state)
       ELSE pc' = "loop" /\ status' = ""
    /\ UNCHANGED <<stored, failures>>

(* The process dies: everything but the store is lost.                      *)
Crash ==
    /\ pc \notin {"down", "ended"} /\ restarts < MaxRestarts
    /\ restarts' = restarts + 1
    /\ pc' = "down" /\ state' = Initial /\ signal' = Seed
    /\ iteration' = 0 /\ tokens' = 0 /\ execution' = <<>>
    /\ iterator' = None /\ status' = "" /\ saveErr' = FALSE
    /\ cancelled' = FALSE /\ known' = TRUE
    /\ job' = NoJob /\ batch' = <<>> /\ suspend' = FALSE
    /\ UNCHANGED <<stored, failures>>

(* The caller's context ends: a signal, a deadline (Budget.MaxDuration).    *)
Cancel ==
    /\ pc \notin {"down", "ended"} /\ ~cancelled
    /\ cancelled' = TRUE
    /\ UNCHANGED <<pc, state, signal, counters, iterator, status, flight, store,
                   known, restarts>>

Stop(st) == pc' = "ended" /\ status' = st

-----------------------------------------------------------------------------
(* One iteration of done(), up to the dispatch. *)

stopForContext ==
    /\ pc = "loop" /\ cancelled
    /\ Stop("cancelled")
    /\ UNCHANGED <<state, signal, counters, iterator, flight, store, outside>>

Dispatch(from, trans, emits, after) ==
    /\ iteration' = iteration + 1
    /\ job' = [from |-> from, trans |-> trans, emits |-> emits, after |-> after,
               size |-> 0]
    /\ pc' = "exec"

InIterator == pc = "loop" /\ ~cancelled /\ iterator # None /\ Current # BudgetExhausted

HaltIgnored == iterator.next < iterator.items   \* mutant
OpenFrame == ~iterator.halted /\ iterator.next < iterator.items

dispatchIteratorItem ==
    /\ InIterator /\ OpenFrame /\ ~EachOf(iterator).parallel
    /\ IF known
       THEN /\ Dispatch(BodyState(iterator), iterator.key[2],
                        Table[iterator.key].emits, "item")
            /\ UNCHANGED iterator
       ELSE /\ iterator' = [iterator EXCEPT !.halted = TRUE]
            /\ UNCHANGED <<pc, iteration, job>>
    /\ UNCHANGED <<state, signal, tokens, execution, batch, suspend, status, store, outside>>

dispatchIteratorJoin ==
    /\ InIterator /\ ~OpenFrame
    /\ state' = EachOf(iterator).joinNext
    /\ iterator' = None
    /\ Dispatch(state, iteratorJoinSignal(iterator), Only(iteratorJoinSignal(iterator)),
                "stop")
    /\ UNCHANGED <<signal, tokens, execution, batch, suspend, status, store, outside>>

(* parallelIteratorCommands: how many items the iteration budget admits.    *)
BatchSize(f) ==
    LET left == f.items - f.next
        available == IF MaxIterations > iteration THEN MaxIterations - iteration ELSE 0
    IN IF MaxIterations > 0 /\ available < left THEN available ELSE left

(* dispatchParallelIterator on frame f: reject the batch, find it empty, or *)
(* hand it to the workers.                                                  *)
DispatchBatch(f) ==
    IF ~known \/ (EachOf(f).serialOnly /\ BatchSize(f) > 0)
    THEN /\ iterator' = [f EXCEPT !.outcomes = Append(@, CommandError),
                                  !.next = @ + 1, !.halted = TRUE]
         /\ pc' = "loop"
         /\ UNCHANGED <<job, suspend>>
    ELSE /\ iterator' = f
         /\ suspend' = FALSE
         /\ IF BatchSize(f) = 0
            THEN pc' = "loop" /\ UNCHANGED job
            ELSE /\ pc' = "exec"
                 /\ job' = [from |-> state, trans |-> f.key[2],
                            emits |-> Table[f.key].emits, after |-> "batch",
                            size |-> BatchSize(f)]

dispatchParallelIterator ==
    /\ InIterator /\ OpenFrame /\ EachOf(iterator).parallel
    /\ DispatchBatch(iterator)
    /\ UNCHANGED <<state, signal, counters, batch, status, store, outside>>

AtTransition == pc = "loop" /\ ~cancelled /\ ~InIterator

UnhandledIgnored ==   \* mutant: the loop tries the pair again
    /\ AtTransition /\ <<state, Current>> \notin DOMAIN Table
    /\ signal' = Current
    /\ UNCHANGED <<pc, status, state, counters, iterator, flight, store, outside>>

stopForUnhandledTransition ==
    /\ AtTransition /\ <<state, Current>> \notin DOMAIN Table
    /\ signal' = Current
    /\ Stop("failed")
    /\ UNCHANGED <<state, counters, iterator, flight, store, outside>>

Parallel(c) == c.frame # None /\ EachOf(c.frame).parallel

(* With the action gone and no item left, dispatchParallelIterator indexes  *)
(* past Items and panics: the process dies, which is Crash.                 *)
StepParallel(c) ==
    /\ Parallel(c) /\ (known \/ c.frame.next < c.frame.items)
    /\ signal' = Current /\ state' = c.next
    /\ DispatchBatch(c.frame)
    /\ UNCHANGED <<counters, batch, status, store, outside>>

(* stopForTerminal on an actionless row: no Entry, no iteration.            *)
StepTerminal(c) ==
    /\ ~Parallel(c) /\ ~c.action /\ c.next \in Terminal
    /\ signal' = Current /\ state' = c.next
    /\ IF state # c.next
       THEN Save(Position(c.next, Current, iteration, iterator, execution, tokens))
       ELSE UNCHANGED store
    /\ Stop(IF saveErr' THEN "failed" ELSE TerminalStatusForState(c.next))
    /\ UNCHANGED <<counters, iterator, flight, outside>>

stopForNilCommand(c) ==
    /\ ~Parallel(c) /\ ~c.action /\ c.next \notin Terminal
    /\ signal' = Current /\ state' = c.next
    /\ iteration' = iteration + 1
    /\ Stop("failed")
    /\ UNCHANGED <<tokens, execution, iterator, flight, store, outside>>

StepCommand(c) ==
    /\ ~Parallel(c) /\ c.action
    /\ signal' = Current /\ state' = c.next /\ iterator' = c.frame
    /\ Dispatch(state, Current, c.emits, "stop")
    /\ UNCHANGED <<tokens, execution, batch, suspend, status, store, outside>>

nextTransition ==
    /\ AtTransition /\ <<state, Current>> \in DOMAIN Table
    /\ \E c \in Choices(<<state, Current>>) :
           StepParallel(c) \/ StepTerminal(c) \/ stopForNilCommand(c) \/ StepCommand(c)

-----------------------------------------------------------------------------
(* The dispatch: execute, record, save, decide. *)

(* dispatch and commitParallelIteratorResults share this tail.              *)
Record(r, from, n) ==
    /\ signal' = r.signal
    /\ tokens' = tokens + r.cost
    /\ iterator' = recordIteratorOutcome(iterator, r.signal)
    /\ execution' = Append(execution,
           [iteration |-> n, from |-> from, to |-> state, signal |-> job.trans,
            result |-> r.signal])
    /\ pc' = "save"

Execute ==
    /\ pc = "exec" /\ job.after # "batch"
    /\ \E r \in job.emits : Record(r, job.from, iteration)
    /\ UNCHANGED <<state, iteration, status, flight, store, outside>>

(* The workers: jobs are fed in order until a halting result or the context *)
(* cancels the feed, and every fed job finishes, so the results are those   *)
(* of a prefix of the batch.                                                *)
ExecuteBatch ==
    /\ pc = "exec" /\ job.after = "batch"
    /\ \E k \in 0 .. job.size : \E results \in [1 .. k -> job.emits] :
           /\ k < job.size => \/ cancelled
                              \/ \E i \in 1 .. k :
                                     Halts(EachOf(iterator), results[i].signal)
           /\ batch' = results
           /\ pc' = IF k = 0 THEN "after" ELSE "commit"
    /\ UNCHANGED <<state, signal, counters, iterator, status, job, suspend, store, outside>>

CommitResult ==
    /\ pc = "commit"
    /\ iteration' = iteration + 1
    /\ LET from == IF iterator.next = 0 THEN iterator.key[1] ELSE BodyState(iterator)
       IN Record(batch[1], from, iteration + 1)
    /\ batch' = Tail(batch)
    /\ suspend' = (suspend \/ batch[1].signal = AwaitApproval)
    /\ UNCHANGED <<state, status, job, store, outside>>

saveCheckpoint ==
    /\ pc = "save"
    /\ Save(Position(state, signal, iteration, iterator, execution, tokens))
    /\ pc' = IF batch # <<>> THEN "commit" ELSE "after"
    /\ UNCHANGED <<state, signal, counters, iterator, status, flight, outside>>

(* stopForSuspend: failed rather than suspended when the save failed.       *)
Suspends == IF job.after = "batch" THEN suspend ELSE signal = AwaitApproval

stopForSuspend ==
    /\ pc = "after" /\ Suspends
    /\ signal' = AwaitApproval
    /\ Stop(IF saveErr THEN "failed" ELSE "suspended")
    /\ UNCHANGED <<state, counters, iterator, flight, store, outside>>

stopForCheckpointFailure == saveErr

(* stopAfterDispatch, and the shorter decision of the two iterator paths.   *)
stopAfterDispatch ==
    /\ pc = "after" /\ ~Suspends
    /\ CASE job.after = "item" -> pc' = "loop" /\ UNCHANGED status
         [] job.after # "item" /\ stopForCheckpointFailure -> Stop("failed")
         [] job.after # "item" /\ ~stopForCheckpointFailure /\ cancelled -> Stop("cancelled")
         [] job.after = "stop" /\ ~stopForCheckpointFailure /\ ~cancelled /\ state \in Terminal ->
                Stop(TerminalStatusForState(state))
         [] OTHER -> pc' = "loop" /\ UNCHANGED status
    /\ UNCHANGED <<state, signal, counters, iterator, flight, store, outside>>

-----------------------------------------------------------------------------
Decide == \/ stopForContext \/ stopForUnhandledTransition \/ nextTransition
          \/ dispatchIteratorItem \/ dispatchIteratorJoin \/ dispatchParallelIterator

Finish == \/ Execute \/ ExecuteBatch \/ CommitResult \/ saveCheckpoint
          \/ stopForSuspend \/ stopAfterDispatch

Next == StartRun \/ Resume \/ Crash \/ Cancel \/ Decide \/ Finish

Spec == Init /\ [][Next]_vars

(* The loop never blocks by itself; a command returns because dispatch      *)
(* bounds it by CommandTimeout (dispatch.go).  Nothing forces a crash, a    *)
(* cancellation or a resume.                                                *)
FairSpec == Spec /\ WF_vars(StartRun) /\ WF_vars(Decide) /\ WF_vars(Finish)

-----------------------------------------------------------------------------
(* What a machine must be for the theorems that name it.                    *)

(* No row leaves a terminal state.  The machine diagnostics only warn of    *)
(* such a row (machine_diagnostics.go:98-104).                              *)
EndsAreFinal == \A k \in DOMAIN Table : k[1] \notin Terminal

(* The states an open frame's items run in.                                 *)
Bodies == {Table[k].next : k \in EachKeys}

(* With a frame open the exhausted budget only ends the run: a command      *)
(* dispatched there would be recorded as an outcome of the frame.           *)
BudgetEndsFrames ==
    \A k \in DOMAIN Table :
        k[1] \in Bodies /\ k[2] = BudgetExhausted =>
            Table[k].action = FALSE /\ Table[k].each = None /\ Table[k].next \in Terminal

(* An outcome that aborts is not a success, nor is a rejected batch, and    *)
(* the joins have signals of their own.                                     *)
OutcomesAreDistinct ==
    \A k \in EachKeys :
        LET each == Table[k].each
        IN /\ each.continueOn \cap each.abortOn = {}
           /\ each.serialOnly => CommandError \notin each.continueOn
           /\ each.allSuccess \notin {each.partial, each.failed}

(* Every for_each runs its items one by one.                                *)
SequentialRows == \A k \in EachKeys : ~Table[k].each.parallel

(* A resume finds the action the run was using.                             *)
ActionsStay == Registries \subseteq {TRUE}

-----------------------------------------------------------------------------
(* Properties. *)

Prefix(s, t) == Len(s) <= Len(t) /\ \A i \in 1 .. Len(s) : s[i] = t[i]

TypeOK ==
    /\ pc \in Place
    /\ state \in State /\ signal \in Signal
    /\ iteration \in Nat /\ tokens \in Nat /\ execution \in Seq(Entry)
    /\ iterator \in FrameSlot
    /\ saveErr \in BOOLEAN /\ cancelled \in BOOLEAN /\ known \in BOOLEAN
    /\ status \in RunStatus
    /\ job \in Job /\ batch \in Seq(Result) /\ suspend \in BOOLEAN
    /\ stored \in StoreSlot
    /\ restarts \in Nat /\ failures \in Nat

(* A step's position in the log is its iteration number, across crashes,    *)
(* for_each batches, joins and resumes.  Rollback resolves a step by its    *)
(* iteration (receipt_rollback.go), so a gap or a repeat would undo the     *)
(* wrong steps.                                                             *)
StepNumbers ==
    /\ \A i \in 1 .. Len(execution) : execution[i].iteration = i
    /\ stored # None => stored.iteration = Len(stored.execution)

(* The store holds exactly the run's position and log.                      *)
StoredNow == /\ stored # None
             /\ stored.state = state
             /\ stored.iteration = iteration
             /\ stored.execution = execution

(* A run that reports success, an exceeded budget or a suspension is in the *)
(* store as reported: what stopForSuspend and stopForTerminal promise.      *)
OutcomeIsDurable ==
    Persistent /\ status \in {"succeeded", "budget_exceeded", "suspended"} => StoredNow

(* Between dispatches nothing recorded is missing from the store, unless a  *)
(* save failed; for_each progress included, so that a resume continues at   *)
(* the next item not dispatched.                                            *)
BoundaryIsDurable ==
    Persistent /\ pc = "loop" /\ ~saveErr /\ execution # <<>> =>
        /\ stored # None
        /\ stored.execution = execution
        /\ stored.tokens = tokens
        /\ iterator # None /\ ~iterator.halted =>
               iterator.next = IF stored.iterator = None THEN 0 ELSE stored.iterator.next

(* Past MaxIterations only what the machine routes on BudgetExhausted runs, *)
(* also when a parallel batch straddles the limit.                          *)
IterationBudget ==
    MaxIterations > 0 =>
        \A i \in 1 .. Len(execution) :
            execution[i].iteration > MaxIterations => execution[i].signal = BudgetExhausted

(* Every outcome a join will report is the result of an entry of the log    *)
(* dispatched by the frame's own row.  (A rejected batch reports its error  *)
(* without a dispatch.)                                                     *)
OutcomesAreItems ==
    iterator # None =>
        LET n == Len(iterator.outcomes)
            rejected == EachOf(iterator).serialOnly \/ ~known
        IN ~rejected =>
            \A i \in 1 .. n :
                /\ n <= Len(execution)
                /\ execution[Len(execution) - n + i].result = iterator.outcomes[i]
                /\ execution[Len(execution) - n + i].signal = iterator.key[2]

(* A sequential frame loses nothing: what its items did is recorded once,   *)
(* under the frame's row, and is in the store before the next item.         *)
ProgressIsDurable == BoundaryIsDurable /\ OutcomesAreItems

(* A parallel batch leaves the log a sequential run would have left: its    *)
(* steps are numbered on, stay within the budget, and are the frame's       *)
(* outcomes in order, also when a crash or a failed save cut the commit of  *)
(* the batch short (loop_iterator_parallel.go:59-84).                       *)
BatchesAreSerial == StepNumbers /\ IterationBudget /\ OutcomesAreItems

(* A frame joins with all_success only when every item ran and succeeded.   *)
AllSuccessMeansAll ==
    [][iterator # None /\ pc = "loop" /\ pc' = "exec" /\ iterator' = None
       /\ job'.trans = EachOf(iterator).allSuccess
       => /\ Len(iterator.outcomes) = iterator.items
          /\ \A i \in 1 .. iterator.items :
                 iterator.outcomes[i] \in EachOf(iterator).continueOn]_vars

(* The stored log only ever grows at its end: no crash, failed save or      *)
(* resume rewrites or drops a step that was once durable.                   *)
StoredLogGrows ==
    [][stored # None => stored' # None /\ Prefix(stored.execution, stored'.execution)]_vars

(* After a failed save no further command is recorded: the loop stops at    *)
(* that dispatch boundary (loop_runner.go:41-42 and 324-325).               *)
FailedSaveStops == [][saveErr /\ saveErr' => execution' = execution]_vars

(* Once one of its outcomes halts a frame, no further item of it is         *)
(* dispatched, also when the frame was resumed from the store in between.   *)
NoItemAfterHalt ==
    [][/\ iterator # None
       /\ \E i \in DOMAIN iterator.outcomes : Halts(EachOf(iterator), iterator.outcomes[i])
       /\ pc = "loop" /\ pc' = "exec"
       => job'.after = "stop"]_vars

(* A frame of a sequential for_each ends as its outcomes say: at the first  *)
(* that halts it, and with all_success only after every item succeeded.     *)
FramesEndTruly == NoItemAfterHalt /\ AllSuccessMeansAll

(* A run comes to an end, or its process dies.                              *)
RunEnds == pc = "loop" ~> pc \in {"ended", "down"}
=============================================================================
