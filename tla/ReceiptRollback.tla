--------------------------- MODULE ReceiptRollback ---------------------------
(***************************************************************************)
(* checkpoint_rollback (internal/tools/lifecycle): load the log of a       *)
(* stopped run, resolve the target iteration to a step, Revert the store   *)
(* to it, then walk the loaded entries past it backwards and undo each     *)
(* effect from its receipt.  The store is what CheckpointPort promises;    *)
(* the effects live outside it, and the process may die between any two    *)
(* steps.  Between rollbacks the run resumes, adds steps, and stops again. *)
(***************************************************************************)
EXTENDS Naturals, Sequences, FiniteSets

CONSTANTS
    Policies,    \* rollback policies of the run's tools: "undo",
                 \* "irreversible", "noop"
    None, Finalized

(* Bounds of the model, no part of the program. *)
CONSTANTS MaxSteps, MaxRollbacks

Effects == 1 .. MaxSteps   \* one per dispatch of the run, in order

(* Entry: the iteration, the tool's policy, and the effect its receipt names. *)
Entry == [iteration : 1 .. MaxSteps, policy : Policies, effect : Effects]

ASSUME RollbackAssumption ==
    /\ MaxSteps \in Nat /\ MaxRollbacks \in Nat
    /\ None # Finalized /\ None \notin Seq(Entry) /\ Finalized \notin Seq(Entry)

VARIABLES
    saved,       \* the store: None, the execution log, or Finalized
    world,       \* the effects in force outside the store
    dispatched,  \* commands dispatched so far
    pc,          \* "stopped", or the rollback's next step: "revert", "walk"
    execution,   \* opts.Execution, as loaded
    registry,    \* opts.Registry # nil
    targetStep,  \* place of the target's entry in it
    step,        \* the walk's place in it
    report,      \* reversed, failed, skipped, pending: the effects of each list
    result,      \* what the last rollback answered: "none", "error", "partial", "done"
    rollbacks    \* bound

call == <<execution, registry, targetStep, step>>
vars == <<saved, world, dispatched, pc, call, report, result, rollbacks>>

Store == INSTANCE CheckpointPort

-----------------------------------------------------------------------------
NoReport == [reversed |-> {}, failed |-> {}, skipped |-> {}, pending |-> {}]

Init ==
    /\ saved = None /\ world = {} /\ dispatched = 0
    /\ pc = "stopped" /\ execution = <<>> /\ registry = TRUE
    /\ targetStep = 0 /\ step = 0
    /\ report = NoReport /\ result = "none" /\ rollbacks = 0

Loadable == saved \notin {None, Finalized}

(* The run resumes, dispatches one command and saves its entry.  A noop     *)
(* policy declares that the command has no effect.                          *)
Step ==
    /\ pc = "stopped" /\ dispatched < MaxSteps
    /\ dispatched' = dispatched + 1
    /\ \E policy \in Policies :
           /\ Store!PortSave([iteration |-> Len(Store!Log) + 1, policy |-> policy,
                              effect |-> dispatched'])
           /\ world' = IF policy = "noop" THEN world ELSE world \cup {dispatched'}
    /\ result' = "none" /\ report' = NoReport
    /\ UNCHANGED <<pc, call, rollbacks>>

Finish ==
    /\ pc = "stopped" /\ Loadable
    /\ Store!PortFinalize
    /\ result' = "none" /\ report' = NoReport
    /\ UNCHANGED <<world, dispatched, pc, call, rollbacks>>

(* The entry of an iteration.                                               *)
resolveTargetStep(iteration) == {i \in DOMAIN saved : saved[i].iteration = iteration}

(* Load, then resolveTargetStep: an error of either changes nothing.        *)
Load ==
    /\ pc = "stopped" /\ rollbacks < MaxRollbacks
    /\ rollbacks' = rollbacks + 1
    /\ report' = NoReport
    /\ \/ /\ result' = "error"
          /\ UNCHANGED <<pc, call>>
       \/ /\ Loadable
          /\ \E iteration \in 1 .. MaxSteps : \E i \in resolveTargetStep(iteration) :
                 targetStep' = i
          /\ execution' = saved /\ step' = Len(saved)
          /\ registry' \in BOOLEAN
          /\ pc' = "revert" /\ result' = "none"
    /\ UNCHANGED <<saved, world, dispatched>>

NothingReverted == saved' = saved   \* mutant
Reverted == Store!PortRevert(targetStep)

(* Revert: an error may come with or without its effect.                    *)
Revert ==
    /\ pc = "revert"
    /\ \/ Reverted /\ pc' = "walk" /\ result' = result
       \/ /\ Reverted \/ saved' = saved
          /\ pc' = "stopped" /\ result' = "error"
    /\ UNCHANGED <<world, dispatched, call, report, rollbacks>>

OneEarly == step > targetStep + 1        \* mutant
OneFurther == step >= targetStep         \* mutant
Walking == step > targetStep

(* One entry of the walk.  Without a registry every entry fails, whatever   *)
(* its policy.  A missing builder, receipt or reverser is a failure; so is  *)
(* an Undo that returns CommandError, whatever it did.                      *)
undoEntry ==
    /\ pc = "walk" /\ Walking
    /\ LET entry == execution[step]
       IN \/ /\ ~registry
             /\ report' = [report EXCEPT !.failed = @ \cup {entry.effect}]
             /\ UNCHANGED world
          \/ /\ registry /\ entry.policy = "irreversible"
             /\ report' = [report EXCEPT !.skipped = @ \cup {entry.effect}]
             /\ UNCHANGED world
          \/ /\ registry /\ entry.policy = "noop"
             /\ report' = [report EXCEPT !.reversed = @ \cup {entry.effect}]
             /\ UNCHANGED world
          \/ /\ registry /\ entry.policy = "undo"
             /\ \/ /\ report' = [report EXCEPT !.reversed = @ \cup {entry.effect}]
                   /\ world' = world \ {entry.effect}
                \/ /\ report' = [report EXCEPT !.pending = @ \cup {entry.effect}]
                   /\ UNCHANGED world
                \/ /\ report' = [report EXCEPT !.failed = @ \cup {entry.effect}]
                   /\ world' \in {world, world \ {entry.effect}}
    /\ step' = step - 1
    /\ UNCHANGED <<saved, dispatched, pc, execution, registry, targetStep, result, rollbacks>>

Report ==
    /\ pc = "walk" /\ ~Walking
    /\ pc' = "stopped"
    /\ result' = IF report.failed = {} THEN "done" ELSE "partial"
    /\ UNCHANGED <<saved, world, dispatched, call, report, rollbacks>>

(* The process dies inside the rollback.                                    *)
Crash ==
    /\ pc # "stopped"
    /\ pc' = "stopped" /\ report' = NoReport /\ result' = "none"
    /\ UNCHANGED <<saved, world, dispatched, call, rollbacks>>

Next == Step \/ Finish \/ Load \/ Revert \/ undoEntry \/ Report \/ Crash

Spec == Init /\ [][Next]_vars

-----------------------------------------------------------------------------
(* Properties. *)

TypeOK ==
    /\ saved \in {None, Finalized} \/ saved \in Seq(Entry)
    /\ world \subseteq Effects /\ dispatched \in 0 .. MaxSteps
    /\ pc \in {"stopped", "revert", "walk"}
    /\ execution \in Seq(Entry) /\ registry \in BOOLEAN
    /\ targetStep \in 0 .. Len(execution) /\ step \in targetStep .. Len(execution)
    /\ report \in [{"reversed", "failed", "skipped", "pending"} -> SUBSET Effects]
    /\ result \in {"none", "error", "partial", "done"}
    /\ rollbacks \in 0 .. MaxRollbacks

HasEffect(entry) == entry.policy # "noop"

(* Every step the store still holds has its effect in force: because the    *)
(* store is reverted before the walk starts, a crash or a failure anywhere  *)
(* in a rollback never leaves a log that a resume would take for work that  *)
(* was in fact undone (receipt_rollback.go:110-120).                        *)
StoredStepsStand ==
    Loadable => \A i \in DOMAIN saved : HasEffect(saved[i]) => saved[i].effect \in world

(* A receipt is played at most once: over any sequence of rollbacks, also   *)
(* failed and repeated ones, the walk only undoes effects not yet undone.   *)
UndoneOnce ==
    [][\A e \in Effects : e \in report'.reversed \ report.reversed =>
           e \in world \/ ~HasEffect(execution[step])]_vars

(* The answer of a walk leaves nothing unsaid: an effect past the target    *)
(* among the loaded entries is gone, or listed as failed, skipped or        *)
(* pending, and only a report without failures is ToolDone (srd026 R3.7).   *)
WalkIsReported ==
    result \in {"partial", "done"} =>
        /\ \A i \in targetStep + 1 .. Len(execution) :
               execution[i].effect \in world =>
                   execution[i].effect \in report.failed \cup report.skipped \cup report.pending
        /\ result = "done" => report.failed = {}

=============================================================================
