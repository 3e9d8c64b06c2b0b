--------------------------- MODULE DoltCheckpoint ---------------------------
(***************************************************************************)
(* The Dolt-backed checkpoint adapter (internal/runtime/checkpoint/dolt).  *)
(* A run lives on its own branch; every Save is one commit holding the     *)
(* machine row and the step rows; a terminal Save reaps the step rows,     *)
(* merges the branch into main and deletes it.  Each statement may fail,   *)
(* with or without its effect, and the process may die between any two; a  *)
(* fresh adapter's Load then picks the lifecycle up from the database.     *)
(*                                                                         *)
(* The caller is the engine: it appends an entry and saves.  Plain rows    *)
(* stop at a failed Save and at a terminal state; the items of a           *)
(* sequential for_each do neither (loop_iterator.go:143).                  *)
(***************************************************************************)
EXTENDS Naturals, Sequences, FiniteSets, SequencesExt

CONSTANTS
    Callers,     \* who may save: "rows", or after a first row the "items" of a
                 \* for_each, or "terminal items": items in a terminal body state
    OtherSteps,  \* step indexes that commits of other runs on main name
    None, Finalized

(* Bounds of the model, no part of the program. *)
CONSTANTS MaxSteps, MaxRestarts, MaxFailures

VARIABLES
    main,        \* this run's rows on main, or None
    branch,      \* the commits of this run on its branch, or None: no branch
    caller,      \* one of Callers, for the whole behaviour
    pc,          \* "down", "idle" (the engine), the adapter's next statement, "ended"
    op,          \* the call the statements belong to: "save" or "load"
    log, position,             \* the engine's Execution and Position
    persisted,                 \* persistedExecution, or None
    finalizing, merged, finalized,  \* DoltCheckpoint fields
    acked,       \* what the engine was last told is stored (a history variable)
    restarts, failures         \* bounds

database == <<main, branch>>
adapter == <<persisted, finalizing, merged, finalized>>
engine == <<log, position, acked>>
vars == <<database, adapter, engine, caller, pc, op, restarts, failures>>

-----------------------------------------------------------------------------

(* Entry: an iteration, and the process that dispatched it.                 *)
Entry == [iteration : 1 .. MaxSteps, process : 0 .. MaxRestarts]

(* The machine row is the engine's position; a step row has its index.      *)
Machine == [final : BOOLEAN, iteration : 0 .. MaxSteps]
Rows == UNION {[index -> Entry] : index \in SUBSET (0 .. MaxSteps)}
Tables == [machine : Machine, rows : Rows]
Commit == [step : Nat \cup {None}, tables : Tables]

ASSUME CallersAssumption == Callers \subseteq {"rows", "items", "terminal items"}

(* nil and the closed run are no log, no branch and no table.               *)
ASSUME DoltAssumption ==
    /\ OtherSteps \subseteq Nat
    /\ MaxSteps \in Nat /\ MaxRestarts \in Nat /\ MaxFailures \in Nat
    /\ Finalized # None
    /\ {None, Finalized} \cap Seq(Entry) = {}
    /\ None \notin Seq(Commit) /\ None \notin Tables /\ None \notin Machine

NoRows == [i \in {} |-> None]
NoTables == [machine |-> None, rows |-> NoRows]

(* The tables at the tip of the branch; main's until this run commits.      *)
Tip == IF branch = <<>> THEN NoTables ELSE Last(branch).tables

(* The row with this many rows before it.                                   *)
RowAfter(rows, before) ==
    rows[CHOOSE i \in DOMAIN rows : Cardinality({j \in DOMAIN rows : j < i}) = before]

(* loadExecution: the rows in the order of their index.                     *)
loadExecution(rows) ==
    [i \in 1 .. Cardinality(DOMAIN rows) |-> RowAfter(rows, i - 1)]

OneRowTooMany(rows, log_) ==   \* mutant
    [i \in {j \in DOMAIN rows : j + 2 < Len(log_)} |-> rows[i]]
(* reconcileExecution: drop the tail the last entry replaces.               *)
reconcileExecution(rows, log_) ==
    [i \in {j \in DOMAIN rows : j + 1 < Len(log_)} |-> rows[i]]

writeStep(rows, log_) ==
    [i \in DOMAIN rows \cup {Len(log_) - 1} |->
        IF i + 1 = Len(log_) THEN Last(log_) ELSE rows[i]]

reapRunHistory(rows) == NoRows

finalizationOnly == position.final /\ persisted # None /\ persisted = log

(* The commit a Save makes of the engine's position and log.                *)
NextCommit ==
    LET kept == IF finalizationOnly THEN Tip.rows ELSE reconcileExecution(Tip.rows, log)
        written == IF finalizationOnly \/ log = <<>> THEN kept ELSE writeStep(kept, log)
    IN [step |-> IF finalizationOnly \/ log = <<>> THEN None ELSE Len(log) - 1,
        tables |-> [machine |-> position,
                    rows |-> IF position.final THEN reapRunHistory(written) ELSE written]]

-----------------------------------------------------------------------------
Init ==
    /\ main = None /\ branch = None /\ caller \in Callers
    /\ pc = "idle" /\ op = "save"
    /\ log = <<>> /\ position = [final |-> FALSE, iteration |-> 0]
    /\ persisted = None /\ finalizing = FALSE /\ merged = FALSE /\ finalized = FALSE
    /\ acked = None
    /\ restarts = 0 /\ failures = 0

(* Items come from an earlier entry, which a plain row saved.               *)
InForEach == caller # "rows" /\ Len(log) > 1

(* The process and its adapter are gone.                                    *)
Exit ==
    /\ pc' = "down"
    /\ log' = <<>> /\ position' = [final |-> FALSE, iteration |-> 0]
    /\ persisted' = None /\ finalizing' = FALSE /\ merged' = FALSE /\ finalized' = FALSE

Crash ==
    /\ pc \notin {"down", "ended"} /\ restarts < MaxRestarts
    /\ restarts' = restarts + 1
    /\ Exit
    /\ UNCHANGED <<caller, database, acked, op, failures>>

(* The call returns an error: a failed Load ends the process, and so does   *)
(* a failed Save, except in a sequential for_each.                          *)
ReturnError ==
    /\ IF op = "save" /\ InForEach
       THEN pc' = "idle" /\ UNCHANGED <<log, position, adapter>>
       ELSE Exit
    /\ UNCHANGED <<caller, op, acked, restarts>>

(* A statement fails without effect.                                        *)
Fail ==
    /\ pc \in {"prepare", "commit", "merge", "delete"} /\ failures < MaxFailures
    /\ failures' = failures + 1
    /\ ReturnError
    /\ UNCHANGED database

-----------------------------------------------------------------------------
(* The engine dispatches a command and saves, or takes an actionless        *)
(* terminal row and saves the same log.                                     *)
Dispatch ==
    /\ pc = "idle" /\ position.iteration < MaxSteps
    /\ \E final \in CASE caller = "rows" -> BOOLEAN
                        [] caller = "items" -> {FALSE}
                        [] caller = "terminal items" -> {log # <<>>} :
           position' = [final |-> final, iteration |-> position.iteration + 1]
    /\ log' = Append(log, [iteration |-> position.iteration + 1, process |-> restarts])
    /\ pc' = "save" /\ op' = "save"
    /\ UNCHANGED <<caller, database, adapter, acked, restarts, failures>>

stopForTerminal ==
    /\ pc = "idle" /\ ~position.final /\ caller = "rows"
    /\ position' = [position EXCEPT !.final = TRUE]
    /\ pc' = "save" /\ op' = "save"
    /\ UNCHANGED <<caller, database, adapter, log, acked, restarts, failures>>

Closed == finalized \/ (finalizing /\ ~position.final)

(* Save: a finalized or finalizing adapter writes no second checkpoint.     *)
Save ==
    /\ pc = "save"
    /\ IF Closed
       THEN ReturnError
       ELSE /\ pc' = IF finalizing THEN "merge" ELSE "prepare"
            /\ UNCHANGED <<caller, adapter, engine, op, restarts>>
    /\ UNCHANGED <<database, failures>>

prepare ==
    /\ pc = "prepare"
    /\ branch' = IF branch = None THEN <<>> ELSE branch
    /\ pc' = "commit"
    /\ UNCHANGED <<caller, main, adapter, engine, op, restarts, failures>>

(* The SQL transaction is durable at DOLT_COMMIT.                           *)
commitDoltTransaction ==
    /\ pc = "commit"
    /\ branch' = Append(branch, NextCommit)
    /\ persisted' = log
    /\ finalizing' = position.final
    /\ IF position.final
       THEN pc' = "merge" /\ UNCHANGED acked
       ELSE pc' = "idle" /\ acked' = [log |-> log, final |-> FALSE]
    /\ UNCHANGED <<caller, main, merged, finalized, log, position, op, restarts, failures>>

(* tx.Commit fails, or the answer to DOLT_COMMIT is lost, after the commit. *)
CommitUnreported ==
    /\ pc = "commit" /\ failures < MaxFailures
    /\ failures' = failures + 1
    /\ branch' = Append(branch, NextCommit)
    /\ ReturnError
    /\ UNCHANGED main

mainHasTerminalMarker == main # None /\ main.machine.final

MergedMain == IF merged \/ mainHasTerminalMarker THEN main ELSE Tip

Merge ==
    /\ pc = "merge"
    /\ main' = MergedMain
    /\ merged' = TRUE
    /\ pc' = "delete"
    /\ UNCHANGED <<caller, branch, persisted, finalizing, finalized, engine, op, restarts, failures>>

MergeUnreported ==
    /\ pc = "merge" /\ failures < MaxFailures
    /\ failures' = failures + 1
    /\ main' = MergedMain
    /\ ReturnError
    /\ UNCHANGED branch

DeleteBranch ==
    /\ pc = "delete"
    /\ branch' = None
    /\ finalizing' = FALSE /\ finalized' = TRUE
    /\ IF op = "save"
       THEN /\ acked' = [log |-> log, final |-> TRUE]
            /\ pc' = IF InForEach THEN "idle" ELSE "ended"
       ELSE pc' = "ended" /\ UNCHANGED acked
    /\ UNCHANGED <<caller, main, persisted, merged, log, position, op, restarts, failures>>

DeleteUnreported ==
    /\ pc = "delete" /\ failures < MaxFailures
    /\ failures' = failures + 1
    /\ branch' = None
    /\ ReturnError
    /\ UNCHANGED main

-----------------------------------------------------------------------------
isTerminal(p) == p.final

(* Load by the fresh adapter of a resuming process.  Without a branch or a  *)
(* machine row the answer is ErrNoCheckpoint and nothing changes.           *)
loadFinalized ==
    /\ pc = "down" /\ branch = None /\ mainHasTerminalMarker
    /\ finalized' = TRUE /\ pc' = "ended"
    /\ UNCHANGED <<caller, database, persisted, finalizing, merged, engine, op, restarts, failures>>

Load ==
    /\ pc = "down" /\ branch # None /\ Tip.machine # None
    /\ op' = "load"
    /\ position' = Tip.machine
    /\ log' = loadExecution(Tip.rows)
    /\ persisted' = log'
    /\ finalizing' = isTerminal(Tip.machine)
    /\ pc' = IF isTerminal(Tip.machine) THEN "merge" ELSE "idle"
    /\ UNCHANGED <<caller, database, merged, finalized, acked, restarts, failures>>

NextCommits(step) == {i \in DOMAIN branch : branch[i].step = step + 1}   \* mutant
(* The commits of the run whose message names a step.                       *)
CommitsOf(step) == {i \in DOMAIN branch : branch[i].step = step}

(* checkpoint_rollback, run beside the stopped run on an adapter without a  *)
(* terminal predicate: load, resolve the iteration to its place in the log, *)
(* and reset the branch to the newest commit in its history that names that *)
(* place.  The branch's history reaches back into main's, where commits of  *)
(* other runs name the same steps.                                          *)
Revert ==
    /\ pc = "down" /\ branch # None /\ Tip.machine # None /\ restarts < MaxRestarts
    /\ restarts' = restarts + 1
    /\ \E step \in 0 .. Len(loadExecution(Tip.rows)) - 1 :
           /\ CommitsOf(step) # {} \/ step \in OtherSteps
           /\ branch' = IF CommitsOf(step) = {} THEN <<>>
                        ELSE SubSeq(branch, 1, CHOOSE i \in CommitsOf(step) :
                                                   \A j \in CommitsOf(step) : j <= i)
           /\ acked' = [log |-> SubSeq(loadExecution(Tip.rows), 1, step + 1), final |-> FALSE]
    /\ UNCHANGED <<caller, main, adapter, log, position, pc, op, failures>>

-----------------------------------------------------------------------------
Next == \/ Dispatch \/ stopForTerminal
        \/ Save \/ prepare \/ commitDoltTransaction \/ CommitUnreported
        \/ Merge \/ MergeUnreported \/ DeleteBranch \/ DeleteUnreported
        \/ Load \/ loadFinalized \/ Revert
        \/ Fail \/ Crash

Spec == Init /\ [][Next]_vars

-----------------------------------------------------------------------------
(* Properties. *)

(* What a fresh adapter's Load would answer now.                            *)
Stored ==
    LET tables == IF branch # None THEN Tip ELSE IF main # None THEN main ELSE NoTables
    IN IF tables.machine = None THEN None
       ELSE IF tables.machine.final THEN Finalized
       ELSE loadExecution(tables.rows)

Port == INSTANCE CheckpointPort WITH saved <- Stored

(* The adapter implements the port: between any two statements, after any   *)
(* failure or crash, Load answers the old or the new checkpoint and nothing *)
(* in between (srd036 R4.4, R5.4, R6.4).                                    *)
ImplementsPort == Port!PortSpec

(* A Save that reported success is never lost: Load answers its log, a log  *)
(* that continues it, or that the run is finalized.                         *)
AckedIsStored ==
    acked # None =>
        \/ Stored = Finalized
        \/ /\ ~acked.final /\ Stored # None
           /\ IsPrefix(acked.log, Stored)

(* The loaded log is complete: one entry per iteration, which is what       *)
(* Revert and resume take a step's index for.                               *)
LoadIsComplete ==
    Stored \notin {None, Finalized} =>
        /\ Len(Stored) = Tip.machine.iteration
        /\ \A i \in 1 .. Len(Stored) : Stored[i].iteration = i

(* After a rollback Load answers the log as of the target step, never what  *)
(* another run committed under the same index (srd036 R6.4, R6.5).          *)
RevertHitsTarget ==
    [][pc = "down" /\ pc' = "down" /\ branch' # branch => Stored' = acked'.log]_vars

(* Once a terminal Save reported success nothing is written for the run.    *)
FinalizedIsClosed ==
    [][acked # None /\ acked.final => UNCHANGED <<database, acked>>]_vars

(* The branch is only deleted once main says the run is over.               *)
BranchDeletedLast ==
    [][branch # None /\ branch' = None => main # None /\ main.machine.final]_vars

(* Execution data never reaches main (dolt_checkpoint.go:165-168).          *)
MainHoldsNoSteps == main # None => main.rows = NoRows

(* Between any two statements the store is whole: it answers every Save     *)
(* that was acknowledged, has no hole, and keeps the runs apart.            *)
StoreIsWhole == AckedIsStored /\ LoadIsComplete /\ MainHoldsNoSteps

(* No step of the adapter loses a run's history: a rollback resets to a     *)
(* commit of the run itself, the branch goes only after the merge, and      *)
(* nothing is written after the end.                                        *)
HistoryIsKept == RevertHitsTarget /\ BranchDeletedLast /\ FinalizedIsClosed
=============================================================================
