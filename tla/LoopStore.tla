----------------------------- MODULE LoopStore -----------------------------
(***************************************************************************)
(* The engine as the client of its checkpoint store: what the run leaves   *)
(* in the store, seen as the log CheckpointPort promises.  A position in a *)
(* terminal state is the run's last.                                       *)
(***************************************************************************)
EXTENDS AgentLoop

CONSTANT Finalized

ASSUME FinalizedAssumption ==
    Finalized # None /\ Finalized \notin Seq(Entry) /\ None \notin Seq(Entry)

(* What Load would answer: loadCheckpoint of resume.go.                     *)
saved == CASE stored = None -> None
           [] stored # None /\ stored.state \in Terminal -> Finalized
           [] OTHER -> stored.execution

Port == INSTANCE CheckpointPort

(* BudgetExhausted is the loop's own signal: no command, join or resume     *)
(* reports it.                                                              *)
BudgetIsOwn ==
    /\ BudgetExhausted \notin {Seed, ResumeSignal, CommandError}
    /\ \A k \in DOMAIN Table : \A r \in Table[k].emits : r.signal # BudgetExhausted
    /\ \A k \in EachKeys :
          LET each == Table[k].each
          IN BudgetExhausted \notin {each.allSuccess, each.partial, each.failed, each.empty}

(* Items run in states the run can leave.                                   *)
ItemsRunOn == Bodies \cap Terminal = {}

(* Every row runs one command.                                             *)
NoEach == EachKeys = {}

(* One save of the port: the entry just recorded, or the end.               *)
Saves ==
    \/ stored' # None /\ stored'.execution # <<>>
         /\ Port!PortSave(stored'.execution[Len(stored'.execution)])
    \/ Port!PortFinalize

(* The engine uses its store as the port allows, in every dispatch path and *)
(* across crashes and resumes: a save adds the one entry recorded since the *)
(* last, nothing is saved after a terminal position, and no log is replaced *)
(* by a shorter one.  Once a save has failed the log in the store may lag   *)
(* (loop_runner.go:41-42, FailedSaveStops).                                 *)
KeepsPort == [][saveErr \/ Saves]_saved
=============================================================================
