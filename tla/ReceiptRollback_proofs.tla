----------------------- MODULE ReceiptRollback_proofs -----------------------
(* A rollback keeps the effects of what it leaves stored, plays a receipt   *)
(* once, and reports what it leaves in force: for any number of steps,      *)
(* rollbacks and crashes.                                                   *)
EXTENDS ReceiptRollback, TLAPS

(* The log that Load would hand to a rollback, <<>> when there is none.     *)
StoredLog == IF Loadable THEN saved ELSE <<>>

Ordered(log) == \A i, j \in 1 .. Len(log) : i < j => log[i].effect < log[j].effect

(* An entry's effect is in force if and only if it has one.                 *)
InForce(entry) == HasEffect(entry) <=> entry.effect \in world

Listed(r, effect) == effect \in r.failed \cup r.skipped \cup r.pending

Stored ==
    /\ world \subseteq 1 .. dispatched
    /\ Len(StoredLog) <= dispatched
    /\ Ordered(StoredLog)
    /\ \A i \in 1 .. Len(StoredLog) : StoredLog[i].effect <= dispatched
    /\ \A i \in 1 .. Len(StoredLog) : InForce(StoredLog[i])

Reverting ==
    /\ StoredLog = execution /\ step = Len(execution)
    /\ targetStep \in 1 .. Len(execution)
    /\ report = NoReport /\ result = "none"

(* The store holds the entries up to the target; of the others the first    *)
(* ones still wait for the walk, and the rest are accounted for.            *)
UnderWay ==
    /\ StoredLog = SubSeq(execution, 1, targetStep) /\ result = "none"
    /\ Ordered(execution)
    /\ \A i \in 1 .. step : InForce(execution[i])
    /\ \A i \in step + 1 .. Len(execution) :
           execution[i].effect \in world => Listed(report, execution[i].effect)

RollbackInv ==
    /\ TypeOK /\ Stored /\ WalkIsReported
    /\ pc = "revert" => Reverting
    /\ pc = "walk" => UnderWay

-----------------------------------------------------------------------------
(* Facts about logs. *)

LEMMA StoredLogType == ASSUME TypeOK PROVE StoredLog \in Seq(Entry)
BY DEF TypeOK, StoredLog, Loadable

LEMMA EntryType == \A e \in Entry : e.effect \in Effects /\ e.effect \in Nat
BY RollbackAssumption DEF Entry, Effects

LEMMA OrderedPrefix ==
    ASSUME NEW log \in Seq(Entry), Ordered(log), NEW n \in 0 .. Len(log)
    PROVE  Ordered(SubSeq(log, 1, n)) /\ Len(SubSeq(log, 1, n)) = n
           /\ \A i \in 1 .. n : SubSeq(log, 1, n)[i] = log[i]
BY DEF Ordered

LEMMA SeqIsLoadable ==
    ASSUME saved' \in Seq(Entry) PROVE Loadable' /\ StoredLog' = saved'
BY RollbackAssumption DEF Loadable, StoredLog

LEMMA FinalizedIsEmpty ==
    ASSUME saved' = Finalized PROVE StoredLog' = <<>>
BY DEF Loadable, StoredLog

LEMMA SameStore ==
    ASSUME saved' = saved PROVE StoredLog' = StoredLog /\ Loadable' = Loadable
BY DEF Loadable, StoredLog

(* What a Step appends, and to which log.                                   *)
LEMMA SavedEntry ==
    ASSUME TypeOK, NEW e, Store!PortSave(e)
    PROVE  Store!Log = StoredLog /\ saved' = Append(StoredLog, e)
BY RollbackAssumption DEF TypeOK, StoredLog, Loadable, Store!PortSave, Store!Log

LEMMA RevertedLog ==
    ASSUME TypeOK, Reverted
    PROVE  /\ targetStep \in 1 .. Len(StoredLog)
           /\ saved' = SubSeq(StoredLog, 1, targetStep)
           /\ saved' \in Seq(Entry)
<1>1. Loadable /\ StoredLog = saved /\ saved \in Seq(Entry)
  BY DEF TypeOK, Reverted, Store!PortRevert, Loadable, StoredLog
<1>2. targetStep \in 1 .. Len(saved) /\ saved' = SubSeq(saved, 1, targetStep)
  BY DEF Reverted, Store!PortRevert
<1>3. SubSeq(saved, 1, targetStep) \in Seq(Entry)
  BY <1>1, <1>2
<1>4. QED
  BY <1>1, <1>2, <1>3

-----------------------------------------------------------------------------
(* The invariant holds at first and is preserved by each action. *)

LEMMA RollbackInit == Init => RollbackInv
<1> SUFFICES ASSUME Init PROVE RollbackInv
  OBVIOUS
<1>1. StoredLog = <<>> /\ saved = None /\ pc = "stopped" /\ result = "none"
  BY DEF Init, StoredLog, Loadable
<1>2. NoReport \in [{"reversed", "failed", "skipped", "pending"} -> SUBSET Effects]
  BY DEF NoReport
<1>3. TypeOK
  BY <1>1, <1>2, RollbackAssumption DEF Init, TypeOK
<1>4. Stored
  BY <1>1 DEF Stored, Ordered, Init
<1>5. QED
  BY <1>1, <1>3, <1>4 DEF RollbackInv, WalkIsReported

LEMMA StepInv ==
    ASSUME RollbackInv, Step PROVE RollbackInv'
<1>1. PICK policy \in Policies :
          /\ Store!PortSave([iteration |-> Len(Store!Log) + 1, policy |-> policy,
                             effect |-> dispatched'])
          /\ world' = IF policy = "noop" THEN world ELSE world \cup {dispatched'}
  BY DEF Step
<1> DEFINE e == [iteration |-> Len(Store!Log) + 1, policy |-> policy, effect |-> dispatched']
<1>2. TypeOK /\ Stored /\ StoredLog \in Seq(Entry)
  BY StoredLogType DEF RollbackInv
<1>3. Store!Log = StoredLog /\ saved' = Append(StoredLog, e)
  BY <1>1, <1>2, SavedEntry
<1>4. dispatched \in Nat /\ dispatched' = dispatched + 1 /\ dispatched' \in 1 .. MaxSteps
  BY <1>2, RollbackAssumption DEF Step, TypeOK
<1>5. e \in Entry
  <2>1. Len(StoredLog) + 1 \in 1 .. MaxSteps
    BY <1>2, <1>4, RollbackAssumption DEF Stored
  <2>2. QED
    BY <2>1, <1>3, <1>4 DEF Entry, Effects
<1>6. saved' \in Seq(Entry) /\ Len(saved') = Len(StoredLog) + 1
  BY <1>2, <1>3, <1>5
<1>7. StoredLog' = saved'
  BY <1>6, SeqIsLoadable
<1>8. /\ \A i \in 1 .. Len(StoredLog) : saved'[i] = StoredLog[i]
      /\ saved'[Len(StoredLog) + 1] = e
  BY <1>2, <1>3, <1>5
<1>9. \A i \in 1 .. Len(StoredLog) : StoredLog[i] \in Entry /\ StoredLog[i].effect \in Nat
  <2>1. \A i \in 1 .. Len(StoredLog) : StoredLog[i] \in Entry
    BY <1>2
  <2>2. QED
    BY <2>1, EntryType
<1>10. /\ result' = "none" /\ report' = NoReport /\ pc' = "stopped"
       /\ UNCHANGED <<execution, registry, targetStep, step, rollbacks>>
  BY DEF Step, call
<1>11. TypeOK'
  <2>1. NoReport \in [{"reversed", "failed", "skipped", "pending"} -> SUBSET Effects]
    BY DEF NoReport
  <2>2. world' \subseteq Effects
    BY <1>1, <1>2, <1>4 DEF TypeOK, Effects
  <2>3. QED
    BY <1>2, <1>4, <1>6, <1>10, <2>1, <2>2 DEF TypeOK
<1>12. Stored'
  <2>1. Len(saved') <= dispatched' /\ world' \subseteq 1 .. dispatched'
    BY <1>1, <1>2, <1>4, <1>6 DEF Stored
  <2>2. ASSUME NEW i \in 1 .. Len(saved') 
               PROVE  /\ saved'[i].effect <= dispatched'
                      /\ HasEffect(saved'[i]) <=> saved'[i].effect \in world'
    <3>1. CASE i = Len(StoredLog) + 1
      <4>1. saved'[i].effect = dispatched' /\ saved'[i].policy = policy
        BY <3>1, <1>8
      <4>2. dispatched' \notin world
        BY <1>2, <1>4 DEF Stored
      <4>3. QED
        BY <4>1, <4>2, <1>1, <1>4 DEF HasEffect
    <3>2. CASE i # Len(StoredLog) + 1
      <4>1. i \in 1 .. Len(StoredLog) /\ saved'[i] = StoredLog[i]
        BY <3>2, <1>6, <1>8
      <4>2. StoredLog[i].effect <= dispatched /\ InForce(StoredLog[i])
        BY <4>1, <1>2 DEF Stored
      <4>3. StoredLog[i].effect # dispatched' /\ StoredLog[i].effect <= dispatched'
        BY <4>1, <4>2, <1>4, <1>9
      <4>4. StoredLog[i].effect \in world' <=> StoredLog[i].effect \in world
        BY <4>3, <1>1
      <4>5. QED
        BY <4>1, <4>2, <4>3, <4>4 DEF InForce, HasEffect
    <3>3. QED
      BY <3>1, <3>2
  <2>3. Ordered(saved')
    <3> SUFFICES ASSUME NEW i \in 1 .. Len(saved'), NEW j \in 1 .. Len(saved'), i < j
                 PROVE  saved'[i].effect < saved'[j].effect
      BY DEF Ordered
    <3>1. i \in 1 .. Len(StoredLog) /\ saved'[i] = StoredLog[i]
      BY <1>6, <1>8
    <3>2. CASE j = Len(StoredLog) + 1
      BY <3>1, <3>2, <1>2, <1>4, <1>8, <1>9 DEF Stored
    <3>3. CASE j # Len(StoredLog) + 1
      <4>1. j \in 1 .. Len(StoredLog) /\ saved'[j] = StoredLog[j]
        BY <3>3, <1>6, <1>8
      <4>2. QED
        BY <3>1, <4>1, <1>2 DEF Stored, Ordered
    <3>4. QED
      BY <3>2, <3>3
  <2>4. QED
    BY <1>7, <2>1, <2>2, <2>3 DEF Stored, Ordered, InForce, HasEffect
<1>13. QED
  BY <1>10, <1>11, <1>12 DEF RollbackInv, WalkIsReported

LEMMA FinishInv ==
    ASSUME RollbackInv, Finish PROVE RollbackInv'
<1>1. saved' = Finalized /\ StoredLog' = <<>>
  BY FinalizedIsEmpty DEF Finish, Store!PortFinalize
<1>2. /\ result' = "none" /\ report' = NoReport /\ pc' = "stopped"
      /\ UNCHANGED <<world, dispatched, execution, registry, targetStep, step, rollbacks>>
  BY DEF Finish, call
<1>3. NoReport \in [{"reversed", "failed", "skipped", "pending"} -> SUBSET Effects]
  BY DEF NoReport
<1>4. TypeOK'
  BY <1>1, <1>2, <1>3 DEF RollbackInv, TypeOK
<1>5. Stored'
  BY <1>1, <1>2 DEF RollbackInv, TypeOK, Stored, Ordered
<1>6. QED
  BY <1>2, <1>4, <1>5 DEF RollbackInv, WalkIsReported

(* An action that leaves the store and the effects alone.                   *)
LEMMA StoredUntouched ==
    ASSUME Stored, UNCHANGED <<saved, world, dispatched>> PROVE Stored'
<1>1. StoredLog' = StoredLog
  BY SameStore
<1>2. QED
  BY <1>1 DEF Stored, Ordered, InForce, HasEffect

LEMMA LoadInv ==
    ASSUME RollbackInv, Load PROVE RollbackInv'
<1>1. Stored' /\ StoredLog' = StoredLog
  BY StoredUntouched, SameStore DEF RollbackInv, Load
<1>2. NoReport \in [{"reversed", "failed", "skipped", "pending"} -> SUBSET Effects]
  BY DEF NoReport
<1>3. /\ UNCHANGED <<saved, world, dispatched>> /\ report' = NoReport
      /\ rollbacks' \in 0 .. MaxRollbacks
  BY RollbackAssumption DEF RollbackInv, TypeOK, Load
<1>4. CASE result' = "error" /\ UNCHANGED <<pc, call>>
  <2>1. pc' = "stopped" /\ UNCHANGED <<execution, registry, targetStep, step>>
    BY <1>4 DEF Load, call
  <2>2. TypeOK'
    BY <1>2, <1>3, <1>4, <2>1 DEF RollbackInv, TypeOK
  <2>3. QED
    BY <1>1, <1>4, <2>1, <2>2 DEF RollbackInv, WalkIsReported
<1>5. CASE /\ Loadable
           /\ \E iteration \in 1 .. MaxSteps : \E i \in resolveTargetStep(iteration) :
                  targetStep' = i
           /\ execution' = saved /\ step' = Len(saved) /\ registry' \in BOOLEAN
           /\ pc' = "revert" /\ result' = "none"
  <2>1. saved \in Seq(Entry) /\ StoredLog = saved
    BY <1>5 DEF RollbackInv, TypeOK, Loadable, StoredLog
  <2>2. targetStep' \in 1 .. Len(saved)
    BY <1>5, <2>1 DEF resolveTargetStep
  <2>3. TypeOK'
    BY <1>2, <1>3, <1>5, <2>1, <2>2 DEF RollbackInv, TypeOK
  <2>4. Reverting'
    BY <1>1, <1>3, <1>5, <2>1, <2>2 DEF Reverting, NoReport
  <2>5. QED
    BY <1>1, <1>5, <2>3, <2>4 DEF RollbackInv, WalkIsReported
<1>6. QED
  BY <1>4, <1>5 DEF Load

LEMMA RevertInv ==
    ASSUME RollbackInv, Revert PROVE RollbackInv'
<1>1. TypeOK /\ Stored /\ Reverting /\ StoredLog \in Seq(Entry)
  BY StoredLogType DEF RollbackInv, Revert
<1>2. UNCHANGED <<world, dispatched, execution, registry, targetStep, step, report, rollbacks>>
  BY DEF Revert, call
<1>3. CASE Reverted
  <2>1. /\ targetStep \in 1 .. Len(StoredLog)
        /\ saved' = SubSeq(StoredLog, 1, targetStep) /\ saved' \in Seq(Entry)
    BY <1>1, <1>3, RevertedLog
  <2>2. StoredLog' = saved'
    BY <2>1, SeqIsLoadable
  <2>3. /\ Ordered(StoredLog') /\ Len(StoredLog') = targetStep
        /\ \A i \in 1 .. targetStep : StoredLog'[i] = StoredLog[i]
    BY <1>1, <2>1, <2>2, OrderedPrefix DEF Stored
  <2>4. Stored'
    <3>1. targetStep <= dispatched
      BY <1>1, <2>1 DEF Stored, TypeOK
    <3>2. \A i \in 1 .. targetStep : StoredLog[i].effect <= dispatched /\ InForce(StoredLog[i])
      BY <1>1, <2>1 DEF Stored
    <3>3. \A i \in 1 .. Len(StoredLog') :
              /\ StoredLog'[i].effect <= dispatched'
              /\ HasEffect(StoredLog'[i]) <=> StoredLog'[i].effect \in world'
      BY <1>2, <2>3, <3>2 DEF InForce, HasEffect
    <3>4. QED
      BY <1>1, <1>2, <2>3, <3>1, <3>3 DEF Stored, Ordered, InForce, HasEffect
  <2>5. CASE pc' = "walk" /\ result' = result
    <3>1. \A i \in 1 .. Len(execution) : InForce(execution[i])
      BY <1>1 DEF Reverting, Stored
    <3>2. UnderWay'
      BY <1>1, <1>2, <2>1, <2>2, <2>5, <3>1
         DEF UnderWay, Reverting, Stored, Ordered, InForce, HasEffect
    <3>3. TypeOK'
      BY <1>1, <1>2, <2>1, <2>5 DEF TypeOK
    <3>4. QED
      BY <1>1, <2>4, <2>5, <3>2, <3>3 DEF RollbackInv, WalkIsReported, Reverting
  <2>6. CASE pc' = "stopped" /\ result' = "error"
    <3>1. TypeOK'
      BY <1>1, <1>2, <2>1, <2>6 DEF TypeOK
    <3>2. QED
      BY <2>4, <2>6, <3>1 DEF RollbackInv, WalkIsReported
  <2>7. QED
    BY <2>5, <2>6 DEF Revert
<1>4. CASE saved' = saved /\ pc' = "stopped" /\ result' = "error"
  <2>1. Stored'
    BY <1>1, <1>2, <1>4, StoredUntouched
  <2>2. TypeOK'
    BY <1>1, <1>2, <1>4 DEF TypeOK
  <2>3. QED
    BY <1>4, <2>1, <2>2 DEF RollbackInv, WalkIsReported
<1>5. QED
  BY <1>3, <1>4 DEF Revert

(* What one step of the walk does to the effects and the report.            *)
LEMMA UndoEffect ==
    ASSUME RollbackInv, undoEntry
    PROVE  /\ step \in targetStep + 1 .. Len(execution) /\ execution[step] \in Entry
           /\ world' \subseteq world /\ world \ {execution[step].effect} \subseteq world'
           /\ report' \in [{"reversed", "failed", "skipped", "pending"} -> SUBSET Effects]
           /\ \A e \in Effects : Listed(report, e) => Listed(report', e)
           /\ execution[step].effect \in world' => Listed(report', execution[step].effect)
<1> DEFINE e == execution[step]
           lists == {"reversed", "failed", "skipped", "pending"}
<1>1. TypeOK /\ UnderWay /\ Walking
  BY DEF RollbackInv, undoEntry
<1>2. step \in targetStep + 1 .. Len(execution) /\ step \in 1 .. Len(execution)
  BY <1>1 DEF TypeOK, Walking
<1>3. e \in Entry
  BY <1>1, <1>2 DEF TypeOK
<1>4. e.effect \in Effects
  BY <1>3, EntryType
<1>5. InForce(e)
  BY <1>1, <1>2 DEF UnderWay, TypeOK
<1>6. report \in [{"reversed", "failed", "skipped", "pending"} -> SUBSET Effects]
  BY <1>1 DEF TypeOK
<1> DEFINE Grows == /\ report' \in [lists -> SUBSET Effects]
                    /\ \A k \in {"failed", "skipped", "pending"} : report[k] \subseteq report'[k]
<1>7. Grows => \A f \in Effects : Listed(report, f) => Listed(report', f)
  BY DEF Listed
<1> DEFINE Undone == /\ Grows /\ world' \subseteq world /\ world \ {e.effect} \subseteq world'
                     /\ e.effect \in world' => \/ e.effect \in report'.failed
                                              \/ e.effect \in report'.skipped
                                              \/ e.effect \in report'.pending
<1>8. Undone => (e.effect \in world' => Listed(report', e.effect))
  BY DEF Listed
<1> HIDE DEF e
<1>9. Undone
  <2>1. CASE e.policy = "irreversible"
             /\ report' = [report EXCEPT !.skipped = @ \cup {e.effect}] /\ UNCHANGED world
    BY <1>4, <1>6, <2>1
  <2>2. CASE e.policy = "noop"
             /\ report' = [report EXCEPT !.reversed = @ \cup {e.effect}] /\ UNCHANGED world
    <3>1. e.effect \notin world
      BY <1>5, <2>2 DEF InForce, HasEffect
    <3>2. QED
      BY <1>4, <1>6, <2>2, <3>1
  <2>3. CASE report' = [report EXCEPT !.reversed = @ \cup {e.effect}]
             /\ world' = world \ {e.effect}
    BY <1>4, <1>6, <2>3
  <2>4. CASE report' = [report EXCEPT !.pending = @ \cup {e.effect}] /\ UNCHANGED world
    BY <1>4, <1>6, <2>4
  <2>5. CASE report' = [report EXCEPT !.failed = @ \cup {e.effect}]
             /\ world' \in {world, world \ {e.effect}}
    BY <1>4, <1>6, <2>5
  <2>6. QED
    BY <2>1, <2>2, <2>3, <2>4, <2>5 DEF undoEntry, e
<1>10. QED
  BY <1>2, <1>3, <1>7, <1>8, <1>9, Zenon DEF e

LEMMA UndoInv ==
    ASSUME RollbackInv, undoEntry PROVE RollbackInv'
<1>1. TypeOK /\ Stored /\ UnderWay /\ StoredLog \in Seq(Entry) /\ execution \in Seq(Entry)
  BY StoredLogType DEF RollbackInv, undoEntry, TypeOK
<1>2. /\ step' = step - 1 /\ pc' = "walk" /\ result' = result
      /\ UNCHANGED <<saved, dispatched, execution, registry, targetStep, rollbacks>>
  BY DEF undoEntry
<1>3. /\ step \in targetStep + 1 .. Len(execution) /\ execution[step] \in Entry
      /\ world' \subseteq world /\ world \ {execution[step].effect} \subseteq world'
      /\ report' \in [{"reversed", "failed", "skipped", "pending"} -> SUBSET Effects]
      /\ \A e \in Effects : Listed(report, e) => Listed(report', e)
      /\ execution[step].effect \in world' => Listed(report', execution[step].effect)
  BY UndoEffect
<1>4. targetStep \in 0 .. Len(execution) /\ step - 1 \in targetStep .. Len(execution)
  BY <1>1, <1>3 DEF TypeOK
<1>5. \A i \in 1 .. Len(execution) : execution[i] \in Entry /\ execution[i].effect \in Nat
  <2>1. \A i \in 1 .. Len(execution) : execution[i] \in Entry
    BY <1>1
  <2>2. QED
    BY <2>1, EntryType
<1>6. TypeOK'
  <2>1. world' \subseteq Effects
    BY <1>1, <1>3 DEF TypeOK
  <2>2. step' \in targetStep' .. Len(execution')
    BY <1>2, <1>4
  <2>3. QED
    BY <1>1, <1>2, <1>3, <2>1, <2>2 DEF TypeOK
<1>7. ASSUME NEW i \in 1 .. step - 1
      PROVE  HasEffect(execution[i]) <=> execution[i].effect \in world'
  <2>1. i \in 1 .. step /\ i \in 1 .. Len(execution) /\ step \in 1 .. Len(execution) /\ i < step
    BY <1>3, <1>4
  <2>2. execution[i].effect < execution[step].effect
    BY <1>1, <2>1 DEF UnderWay, Ordered
  <2>3. execution[i].effect # execution[step].effect
    BY <1>5, <2>1, <2>2
  <2>4. HasEffect(execution[i]) <=> execution[i].effect \in world
    BY <1>1, <2>1 DEF UnderWay, InForce
  <2>5. QED
    BY <1>3, <2>3, <2>4
<1>8. StoredLog' = StoredLog /\ StoredLog = SubSeq(execution, 1, targetStep)
  BY <1>1, <1>2, SameStore DEF UnderWay
<1>9. Len(StoredLog) = targetStep /\ \A i \in 1 .. targetStep : StoredLog[i] = execution[i]
  BY <1>1, <1>4, <1>8, OrderedPrefix DEF UnderWay
<1>10. Stored'
  <2>1. \A i \in 1 .. Len(StoredLog) : HasEffect(StoredLog[i]) <=> StoredLog[i].effect \in world'
    BY <1>3, <1>4, <1>7, <1>9
  <2>2. QED
    BY <1>1, <1>2, <1>3, <1>8, <2>1 DEF Stored, Ordered, InForce, HasEffect
<1>11. ASSUME NEW i \in step .. Len(execution), execution[i].effect \in world'
       PROVE  Listed(report', execution[i].effect)
  <2>1. CASE i = step
    BY <1>3, <1>11, <2>1
  <2>2. CASE i # step
    <3>1. i \in step + 1 .. Len(execution) /\ i \in 1 .. Len(execution)
      BY <1>3, <1>4, <2>2
    <3>2. Listed(report, execution[i].effect)
      BY <1>1, <1>3, <1>11, <3>1 DEF UnderWay
    <3>3. execution[i].effect \in Effects
      BY <1>5, <3>1, EntryType
    <3>4. QED
      BY <1>3, <3>2, <3>3
  <2>3. QED
    BY <2>1, <2>2
<1>12. UnderWay'
  <2>1. \A i \in 1 .. step' : HasEffect(execution'[i]) <=> execution'[i].effect \in world'
    BY <1>2, <1>7
  <2>2. \A i \in step' + 1 .. Len(execution') :
            execution'[i].effect \in world' => Listed(report', execution[i].effect)
    BY <1>2, <1>3, <1>4, <1>11
  <2>3. QED
    BY <1>1, <1>2, <1>8, <2>1, <2>2 DEF UnderWay, Ordered, InForce, HasEffect, Listed
<1>13. QED
  BY <1>1, <1>2, <1>6, <1>10, <1>12 DEF RollbackInv, WalkIsReported, UnderWay

LEMMA ReportInv ==
    ASSUME RollbackInv, Report PROVE RollbackInv'
<1>1. TypeOK /\ Stored /\ UnderWay /\ ~Walking
  BY DEF RollbackInv, Report
<1>2. /\ pc' = "stopped"
      /\ result' = IF report.failed = {} THEN "done" ELSE "partial"
      /\ UNCHANGED <<saved, world, dispatched, execution, registry, targetStep, step,
                      report, rollbacks>>
  BY DEF Report, call
<1>3. TypeOK'
  BY <1>1, <1>2 DEF TypeOK
<1>4. Stored'
  BY <1>1, <1>2, StoredUntouched
<1>5. step = targetStep
  BY <1>1 DEF TypeOK, Walking
<1>6. WalkIsReported'
  BY <1>1, <1>2, <1>5 DEF WalkIsReported, UnderWay, Listed
<1>7. QED
  BY <1>2, <1>3, <1>4, <1>6 DEF RollbackInv

LEMMA CrashInv ==
    ASSUME RollbackInv, Crash PROVE RollbackInv'
<1>1. /\ pc' = "stopped" /\ report' = NoReport /\ result' = "none"
      /\ UNCHANGED <<saved, world, dispatched, execution, registry, targetStep, step, rollbacks>>
  BY DEF Crash, call
<1>2. NoReport \in [{"reversed", "failed", "skipped", "pending"} -> SUBSET Effects]
  BY DEF NoReport
<1>3. TypeOK'
  BY <1>1, <1>2 DEF RollbackInv, TypeOK
<1>4. Stored'
  BY <1>1, StoredUntouched DEF RollbackInv
<1>5. QED
  BY <1>1, <1>3, <1>4 DEF RollbackInv, WalkIsReported

LEMMA StutterInv ==
    ASSUME RollbackInv, UNCHANGED vars PROVE RollbackInv'
<1>1. UNCHANGED <<saved, world, dispatched, pc, execution, registry, targetStep, step, report,
                  result, rollbacks>>
  BY DEF vars, call
<1>2. Stored' /\ StoredLog' = StoredLog
  BY <1>1, StoredUntouched, SameStore DEF RollbackInv
<1>3. TypeOK' /\ WalkIsReported'
  BY <1>1 DEF RollbackInv, TypeOK, WalkIsReported
<1>4. pc' = "revert" => Reverting'
  BY <1>1, <1>2 DEF RollbackInv, Reverting
<1>5. pc' = "walk" => UnderWay'
  BY <1>1, <1>2 DEF RollbackInv, UnderWay, Ordered, InForce, HasEffect, Listed
<1>6. QED
  BY <1>2, <1>3, <1>4, <1>5 DEF RollbackInv

(* The store and the walk stay consistent through every rollback, resume    *)
(* and crash.                                                               *)
THEOREM RollbackInvariant == Spec => []RollbackInv
<1>1. Init => RollbackInv
  BY RollbackInit
<1>2. ASSUME RollbackInv, [Next]_vars PROVE RollbackInv'
  BY <1>2, StepInv, FinishInv, LoadInv, RevertInv, UndoInv, ReportInv, CrashInv, StutterInv
     DEF Next
<1>3. QED
  BY <1>1, <1>2, PTL DEF Spec

-----------------------------------------------------------------------------
(* The results. *)

(* Every variable of a rollback and of the store keeps its type.            *)
THEOREM RollbackTypes == Spec => []TypeOK
<1>1. RollbackInv => TypeOK
  BY DEF RollbackInv
<1>2. QED
  BY <1>1, RollbackInvariant, PTL

(* No rollback, failed, crashed or repeated, undoes a step that stays in    *)
(* the store (receipt_rollback.go:110-120).                                 *)
THEOREM StoredStepsAlwaysStand == Spec => []StoredStepsStand
<1>1. RollbackInv => StoredStepsStand
  BY DEF RollbackInv, Stored, StoredLog, StoredStepsStand, TypeOK, Loadable, InForce
<1>2. QED
  BY <1>1, RollbackInvariant, PTL

(* The answer of a walk accounts for every entry past the target            *)
(* (srd026 R3.7).                                                           *)
THEOREM WalksAreReported == Spec => []WalkIsReported
<1>1. RollbackInv => WalkIsReported
  BY DEF RollbackInv
<1>2. QED
  BY <1>1, RollbackInvariant, PTL

(* A receipt is played at most once: what the walk undoes was in force, for *)
(* the entries it has not come to are the ones an earlier call left alone.  *)
THEOREM UndoneOnceHolds == Spec => UndoneOnce
<1> DEFINE Once == \A e \in Effects : e \in report'.reversed \ report.reversed =>
                       e \in world \/ ~HasEffect(execution[step])
<1>1. ASSUME RollbackInv, [Next]_vars PROVE Once
  <2>1. CASE undoEntry
    <3>1. TypeOK /\ UnderWay /\ Walking
      BY <1>1, <2>1 DEF RollbackInv, undoEntry
    <3>2. step \in 1 .. step
      BY <3>1 DEF TypeOK, Walking
    <3>3. HasEffect(execution[step]) => execution[step].effect \in world
      BY <3>1, <3>2 DEF UnderWay, InForce
    <3>4. report'.reversed \subseteq report.reversed \cup {execution[step].effect}
      BY <2>1, <3>1 DEF undoEntry, TypeOK
    <3>5. QED
      BY <3>3, <3>4
  <2>2. CASE Step \/ Finish \/ Load \/ Crash
    <3>1. report' = NoReport
      BY <2>2 DEF Step, Finish, Load, Crash
    <3>2. QED
      BY <3>1 DEF NoReport
  <2>3. CASE Revert \/ Report \/ UNCHANGED vars
    <3>1. report' = report
      BY <2>3 DEF Revert, Report, vars
    <3>2. QED
      BY <3>1
  <2>4. QED
    BY <1>1, <2>1, <2>2, <2>3 DEF Next
<1>2. RollbackInv /\ [Next]_vars => [Once]_vars
  BY <1>1
<1>3. QED
  BY <1>2, RollbackInvariant, PTL DEF Spec, UndoneOnce
=============================================================================
