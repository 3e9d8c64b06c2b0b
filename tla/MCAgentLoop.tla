---------------------------- MODULE MCAgentLoop ----------------------------
(* Machines on which TLC checks AgentLoop. *)
EXTENDS LoopStore, TLC

MCSignal == {"seed", "resume", "await", "budget", "error",
             "ok", "all", "some", "none", "nothing"}

MCState == {"work", "each", "joined", "again", "done", "failed", "over"}
MCTerminal == {"done", "failed", "over"}
(* "failed" declares no run_status: the engine fails closed.                *)
MCDeclared == ("done" :> "succeeded") @@ ("over" :> "budget_exceeded")

Res(sig, cost) == [signal |-> sig, cost |-> cost]
Do(next, emits) == [next |-> next, action |-> TRUE, emits |-> emits, each |-> None]
Goto(next) == [next |-> next, action |-> FALSE, emits |-> {}, each |-> None]
ForEach(next, emits, spec) == [next |-> next, action |-> TRUE, emits |-> emits, each |-> spec]

EachOver(parallel, failFast, serial) ==
    [parallel |-> parallel, serialOnly |-> serial, failFast |-> failFast,
     continueOn |-> {"ok"}, abortOn |-> {"await"}, joinNext |-> "joined",
     allSuccess |-> "all", partial |-> "some", failed |-> "none", empty |-> "nothing"]

Frontal ==
    (<<"work", "seed">> :> Do("work", {Res("ok", 1), Res("error", 0), Res("await", 0)}))
    @@ (<<"work", "resume">> :> Do("work", {Res("ok", 0)}))
    @@ (<<"work", "error">> :> Do("failed", {Res("ok", 0)}))
    @@ (<<"work", "budget">> :> Goto("over"))
    @@ (<<"each", "budget">> :> Goto("over"))
    @@ (<<"each", "error">> :> Goto("failed"))
    @@ (<<"joined", "budget">> :> Goto("over"))

Joined ==
    (<<"joined", "all">> :> Goto("done")) @@ (<<"joined", "some">> :> Do("done", {Res("ok", 0)}))
    @@ (<<"joined", "none">> :> Goto("failed")) @@ (<<"joined", "nothing">> :> Goto("work"))

Items == {Res("ok", 1), Res("error", 0), Res("await", 0)}

Again == (<<"again", "budget">> :> Goto("over")) @@ (<<"again", "error">> :> Goto("failed"))

(* collect_all, then fail_fast when some items failed.                      *)
SequentialTable ==
    (<<"joined", "some">> :> ForEach("again", Items, EachOver(FALSE, TRUE, FALSE)))
    @@ Again @@ Frontal @@ Joined
    @@ (<<"work", "ok">> :> ForEach("each", Items, EachOver(FALSE, FALSE, FALSE)))

(* collect_all, then fail_fast, then an action that may not run in parallel. *)
ParallelTable ==
    (<<"joined", "some">> :> ForEach("again", Items, EachOver(TRUE, TRUE, FALSE)))
    @@ (<<"joined", "nothing">> :> ForEach("again", Items, EachOver(TRUE, FALSE, TRUE)))
    @@ Again @@ Frontal @@ Joined
    @@ (<<"work", "ok">> :> ForEach("each", Items, EachOver(TRUE, FALSE, FALSE)))

(* The machines meet what the theorems on frames ask of a machine.         *)
ASSUME MCMachineAssumption ==
    EndsAreFinal /\ BudgetEndsFrames /\ BudgetIsOwn /\ ItemsRunOn /\ OutcomesAreDistinct

=============================================================================
