-------------------------- MODULE AgentLoop_proofs --------------------------
(***************************************************************************)
(* Proofs about AgentLoop for every machine, budget and schedule: the type *)
(* invariant, and the safety properties that checkpoints and rollback rest *)
(* on.                                                                     *)
(***************************************************************************)
EXTENDS LoopStore, ForEachPool, TLAPS

-----------------------------------------------------------------------------
(* Facts about the data. *)

(* A frame's row is a for_each row of the table.                            *)
LEMMA FrameRow ==
    ASSUME NEW f \in Frame
    PROVE  /\ f.key \in DOMAIN Table
           /\ f.key[1] \in State /\ f.key[2] \in Signal
           /\ EachOf(f) \in EachSpec /\ BodyState(f) \in State
           /\ Table[f.key].emits \in SUBSET Result
<1>1. f.key \in EachKeys
  BY DEF Frame
<1>2. f.key \in DOMAIN Table /\ Table[f.key].each # None
  BY <1>1 DEF EachKeys
<1>3. f.key \in State \X Signal /\ Table[f.key] \in Row
  BY <1>2, LoopAssumption
<1>4. QED
  BY <1>2, <1>3 DEF Row, EachOf, BodyState

(* Recording an outcome keeps a frame a frame.                              *)
LEMMA OutcomeType ==
    ASSUME NEW f \in FrameSlot, NEW sig \in Signal
    PROVE  recordIteratorOutcome(f, sig) \in FrameSlot
<1>1. CASE f = None
  BY <1>1 DEF recordIteratorOutcome
<1>2. CASE f # None
  <2>1. f \in Frame
    BY <1>2 DEF FrameSlot
  <2>2. EachOf(f) \in EachSpec
    BY <2>1, FrameRow
  <2>3. f.halted \in BOOLEAN /\ Halts(EachOf(f), sig) \in BOOLEAN
    BY <2>1 DEF Frame, Halts
  <2>4. (f.halted \/ Halts(EachOf(f), sig)) \in BOOLEAN
    BY <2>3
  <2>5. Append(f.outcomes, sig) \in Seq(Signal) /\ f.next + 1 \in Nat
    BY <2>1 DEF Frame
  <2>6. QED
    BY <2>1, <2>4, <2>5 DEF recordIteratorOutcome, Frame, FrameSlot
<1>3. QED
  BY <1>1, <1>2

(* What prepareIterator may return.                                         *)
Choice == [next : State, action : BOOLEAN, emits : SUBSET Result,
           frame : FrameSlot]

LEMMA ChoiceType ==
    ASSUME NEW key \in DOMAIN Table, TypeOK, NEW c \in Choices(key)
    PROVE  c \in Choice
<1> DEFINE row == Table[key]
<1> DEFINE plain == [next |-> row.next, action |-> row.action, emits |-> row.emits,
                     frame |-> iterator]
<1>1. row \in Row
  BY LoopAssumption
<1>2. plain \in Choice
  BY <1>1 DEF Choice, Row, TypeOK
<1>3. ASSUME NEW sig \in Signal PROVE Only(sig) \in SUBSET Result
  BY <1>3 DEF Only, Result
<1>4. CASE row.each = None
  BY <1>2, <1>4 DEF Choices
<1>5. CASE row.each # None
  <2>1. row.each \in EachSpec
    BY <1>1, <1>5 DEF Row
  <2>2. row.each.empty \in Signal /\ row.each.joinNext \in State
    BY <2>1 DEF EachSpec
  <2>3. CommandError \in Signal
    BY LoopAssumption
  <2>4. [plain EXCEPT !.action = TRUE, !.emits = Only(CommandError)] \in Choice
    BY <1>2, <1>3, <2>3 DEF Choice
  <2>5. [plain EXCEPT !.action = TRUE, !.emits = Only(row.each.empty),
                      !.next = row.each.joinNext] \in Choice
    BY <1>2, <1>3, <2>2 DEF Choice
  <2>6. ASSUME NEW n \in ItemCounts \ {0}
        PROVE  [plain EXCEPT !.frame = newIteratorSnapshot(key, n)] \in Choice
    <3>1. newIteratorSnapshot(key, n) \in Frame
      <4>1. key \in EachKeys
        BY <1>5 DEF EachKeys
      <4>2. n \in Nat
        BY LoopAssumption
      <4>3. <<>> \in Seq(Signal)
        OBVIOUS
      <4> HIDE DEF row, plain
      <4>4. QED
        BY <4>1, <4>2, <4>3 DEF newIteratorSnapshot, Frame
    <3>2. QED
      BY <1>2, <3>1 DEF Choice, FrameSlot
  <2>7. QED
    BY <1>5, <2>4, <2>5, <2>6 DEF Choices
<1>6. QED
  BY <1>4, <1>5

LEMMA ChoiceFrame ==
    ASSUME NEW key \in DOMAIN Table, NEW c \in Choices(key)
    PROVE  \/ c.frame = iterator
           \/ \E n \in ItemCounts \ {0} : c.frame = newIteratorSnapshot(key, n)
<1> DEFINE row == Table[key]
<1> DEFINE plain == [next |-> row.next, action |-> row.action, emits |-> row.emits,
                     frame |-> iterator]
<1>1. CASE row.each = None
  BY <1>1 DEF Choices
<1>2. CASE row.each # None
  <2>1. \/ c = [plain EXCEPT !.action = TRUE, !.emits = Only(CommandError)]
        \/ c = [plain EXCEPT !.action = TRUE, !.emits = Only(row.each.empty),
                             !.next = row.each.joinNext]
        \/ \E n \in ItemCounts \ {0} : c = [plain EXCEPT !.frame = newIteratorSnapshot(key, n)]
    BY <1>2 DEF Choices
  <2>2. ASSUME NEW n \in ItemCounts \ {0},
               c = [plain EXCEPT !.frame = newIteratorSnapshot(key, n)]
        PROVE  c.frame = newIteratorSnapshot(key, n)
    BY <2>2
  <2>3. QED
    BY <2>1, <2>2
<1>3. QED
  BY <1>1, <1>2

(* How many items a batch takes, and that the budget admits them.           *)
LEMMA BatchSizeType ==
    ASSUME NEW f \in Frame, iteration \in Nat, f.next <= f.items
    PROVE  /\ BatchSize(f) \in Nat
           /\ BatchSize(f) <= f.items - f.next
           /\ MaxIterations > 0 /\ iteration <= MaxIterations =>
                  iteration + BatchSize(f) <= MaxIterations
<1>1. f.next \in Nat /\ f.items \in Nat /\ MaxIterations \in Nat
  BY LoopAssumption DEF Frame
<1>2. QED
  BY <1>1 DEF BatchSize

-----------------------------------------------------------------------------
(* Type correctness.  The frame's progress stays within its items, and a    *)
(* result is only committed for a frame that is active: without that the    *)
(* types are not inductive.                                                 *)

Values ==
    /\ pc \in Place
    /\ state \in State /\ signal \in Signal
    /\ iteration \in Nat /\ tokens \in Nat /\ execution \in Seq(Entry)
    /\ iterator \in FrameSlot
    /\ status \in RunStatus
    /\ job \in Job /\ batch \in Seq(Result)
    /\ stored \in StoreSlot
    /\ restarts \in Nat /\ failures \in Nat

Flags == saveErr \in BOOLEAN /\ cancelled \in BOOLEAN /\ known \in BOOLEAN /\ suspend \in BOOLEAN

InRange(f) == f # None => f.next <= f.items

Phases ==
    /\ InRange(iterator)
    /\ stored # None => InRange(stored.iterator)
    /\ pc = "exec" /\ job.after = "batch" => iterator # None
    /\ pc = "commit" => batch # <<>> /\ iterator # None
    /\ pc = "save" /\ batch # <<>> => iterator # None
    /\ pc \in {"down", "loop", "exec", "after"} => batch = <<>>

TypeInv == Values /\ Flags /\ Phases

LEMMA TypeParts == TypeOK <=> Values /\ Flags
BY DEF TypeOK, Values, Flags

LEMMA CurrentType == ASSUME Values PROVE Current \in Signal
BY LoopAssumption DEF Current, Values

LEMMA TerminalStatusType == \A s : TerminalStatusForState(s) \in Statuses
BY LoopAssumption DEF TerminalStatusForState, Statuses

(* The position a save writes.                                              *)
LEMMA PositionType ==
    ASSUME Values, NEW s \in State, NEW sig \in Signal
    PROVE  Position(s, sig, iteration, iterator, execution, tokens) \in Checkpoint
BY DEF Position, Checkpoint, Values

LEMMA SaveType ==
    ASSUME Values, Flags, Phases, NEW s \in State, NEW sig \in Signal,
           Save(Position(s, sig, iteration, iterator, execution, tokens))
    PROVE  /\ stored' \in StoreSlot
           /\ stored' # None => InRange(stored'.iterator)
           /\ failures' \in Nat
           /\ saveErr' \in BOOLEAN
<1> DEFINE cp == Position(s, sig, iteration, iterator, execution, tokens)
<1>1. cp \in Checkpoint /\ cp.iterator = iterator
  BY PositionType DEF Position
<1> HIDE DEF cp
<1>2. stored' \in {stored, cp}
  BY DEF Save, store, cp
<1>3. stored' \in StoreSlot
  BY <1>1, <1>2 DEF Values, StoreSlot
<1>4. stored' # None => InRange(stored'.iterator)
  BY <1>1, <1>2 DEF Phases
<1>5. failures' \in Nat
  <2>1. failures' = failures \/ failures' = failures + 1
    BY Zenon DEF Save, store
  <2>2. QED
    BY <2>1 DEF Values
<1>6. saveErr' \in BOOLEAN
  <2>1. saveErr' = saveErr \/ saveErr' = TRUE
    BY Zenon DEF Save, store
  <2>2. QED
    BY <2>1 DEF Flags
<1>7. QED
  BY <1>3, <1>4, <1>5, <1>6

LEMMA DispatchBatchType ==
    ASSUME Values, Flags, NEW f \in Frame, f.next <= f.items, known \/ f.next < f.items,
           DispatchBatch(f)
    PROVE  /\ iterator' \in Frame /\ InRange(iterator')
           /\ pc' \in {"loop", "exec"}
           /\ job' \in Job
           /\ suspend' \in BOOLEAN
<1>1. BatchSize(f) \in Nat /\ BatchSize(f) <= f.items - f.next
  BY BatchSizeType DEF Values
<1>2. f.key[2] \in Signal /\ Table[f.key].emits \in SUBSET Result
  BY FrameRow
<1>3. f.next \in Nat /\ f.items \in Nat
  BY DEF Frame
<1>4. [from |-> state, trans |-> f.key[2], emits |-> Table[f.key].emits,
       after |-> "batch", size |-> BatchSize(f)] \in Job
  BY <1>1, <1>2 DEF Job, Values
<1>5. CASE ~known \/ (EachOf(f).serialOnly /\ BatchSize(f) > 0)
  <2>1. Append(f.outcomes, CommandError) \in Seq(Signal) /\ f.next + 1 \in Nat
    <3>1. CommandError \in Signal
      BY LoopAssumption
    <3>2. QED
      BY <1>3, <3>1 DEF Frame
  <2>2. f.next < f.items
    <3>1. CASE ~known
      BY <3>1
    <3>2. CASE BatchSize(f) > 0
      BY <1>1, <1>3, <3>2
    <3>3. QED
      BY <1>5, <3>1, <3>2
  <2>3. [f EXCEPT !.outcomes = Append(@, CommandError), !.next = @ + 1, !.halted = TRUE]
          \in Frame
    BY <2>1 DEF Frame
  <2>4. iterator' = [f EXCEPT !.outcomes = Append(@, CommandError), !.next = @ + 1,
                              !.halted = TRUE]
        /\ pc' = "loop" /\ job' = job /\ suspend' = suspend
    BY <1>5 DEF DispatchBatch
  <2>5. iterator' \in Frame /\ iterator'.next = f.next + 1 /\ iterator'.items = f.items
    BY <2>3, <2>4 DEF Frame
  <2>6. InRange(iterator')
    BY <1>3, <2>2, <2>5 DEF InRange
  <2>7. job' \in Job
    BY <2>4 DEF Values
  <2>8. suspend' \in BOOLEAN
    BY <2>4 DEF Flags
  <2>9. QED
    BY <2>4, <2>5, <2>6, <2>7, <2>8
<1>6. CASE ~(~known \/ (EachOf(f).serialOnly /\ BatchSize(f) > 0))
  <2>1. iterator' = f /\ suspend' = FALSE
    BY <1>6 DEF DispatchBatch
  <2>2. pc' \in {"loop", "exec"} /\ job' \in Job
    BY <1>4, <1>6 DEF DispatchBatch, Values
  <2>3. suspend' \in BOOLEAN
    BY <2>1
  <2>4. QED
    BY <2>1, <2>2, <2>3 DEF InRange
<1>7. QED
  BY <1>5, <1>6

LEMMA StatusNames == {"failed", "cancelled", "suspended"} \subseteq RunStatus
BY DEF RunStatus, Statuses

LEMMA EmptyLogs == <<>> \in Seq(Entry) /\ <<>> \in Seq(Result)
OBVIOUS

LEMMA NoJobType == NoJob \in Job
<1>1. Initial \in State /\ Seed \in Signal
  BY LoopAssumption
<1>2. QED
  BY <1>1 DEF NoJob, Job

LEMMA DispatchType ==
    ASSUME Values, NEW from \in State, NEW trans \in Signal, NEW emits \in SUBSET Result,
           NEW after \in {"stop", "item"}, Dispatch(from, trans, emits, after)
    PROVE  /\ iteration' \in Nat /\ pc' = "exec"
           /\ job' \in Job /\ job'.after # "batch"
<1>1. iteration' \in Nat /\ pc' = "exec"
  BY DEF Dispatch, Values
<1>2. job' = [from |-> from, trans |-> trans, emits |-> emits, after |-> after, size |-> 0]
  BY DEF Dispatch
<1>3. job' \in Job /\ job'.after # "batch"
  BY <1>2 DEF Job
<1>4. QED
  BY <1>1, <1>3

(* Record appends one entry and advances the frame by at most one item.     *)
LEMMA RecordType ==
    ASSUME Values, Phases, NEW r \in Result, NEW from \in State, NEW n \in Nat,
           Record(r, from, n)
    PROVE  /\ signal' \in Signal /\ tokens' \in Nat /\ execution' \in Seq(Entry)
           /\ iterator' \in FrameSlot /\ InRange(iterator') /\ pc' = "save"
           /\ iterator # None => iterator' # None
<1>1. r.signal \in Signal /\ r.cost \in Nat
  BY DEF Result
<1>2. signal' \in Signal /\ tokens' \in Nat /\ pc' = "save"
  BY <1>1 DEF Record, Values
<1>3. job.trans \in Signal /\ state \in State
  BY DEF Values, Job
<1>4. [iteration |-> n, from |-> from, to |-> state, signal |-> job.trans,
       result |-> r.signal] \in Entry
  BY <1>1, <1>3 DEF Entry
<1>5. execution' \in Seq(Entry)
  BY <1>4 DEF Record, Values
<1>6. iterator' = recordIteratorOutcome(iterator, r.signal) /\ iterator \in FrameSlot
  BY DEF Record, Values
<1>7. iterator' \in FrameSlot
  BY <1>1, <1>6, OutcomeType
<1>8. CASE iterator = None
  <2>1. iterator' = None
    BY <1>6, <1>8 DEF recordIteratorOutcome
  <2>2. QED
    BY <1>2, <1>5, <1>7, <1>8, <2>1 DEF InRange
<1>9. CASE iterator # None
  <2>1. iterator \in Frame /\ iterator.next <= iterator.items
    BY <1>6, <1>9 DEF FrameSlot, Phases, InRange
  <2>2. iterator.next \in Nat /\ iterator.items \in Nat
    BY <2>1 DEF Frame
  <2>3. CASE iterator.next >= iterator.items
    <3>1. iterator' = iterator
      BY <1>6, <2>3 DEF recordIteratorOutcome
    <3>2. QED
      BY <1>2, <1>5, <1>7, <1>9, <2>1, <3>1 DEF InRange
  <2>4. CASE iterator.next < iterator.items
    <3>1. iterator' = [iterator EXCEPT
                          !.outcomes = Append(@, r.signal),
                          !.halted = @ \/ Halts(EachOf(iterator), r.signal),
                          !.next = @ + 1]
      BY <1>6, <1>9, <2>2, <2>4 DEF recordIteratorOutcome
    <3>2. iterator'.next = iterator.next + 1 /\ iterator'.items = iterator.items
      BY <2>1, <3>1 DEF Frame
    <3>3. iterator'.next <= iterator'.items
      BY <2>2, <2>4, <3>2
    <3>4. iterator' \in Frame
      <4>1. EachOf(iterator) \in EachSpec
        BY <2>1, FrameRow
      <4>2. (iterator.halted \/ Halts(EachOf(iterator), r.signal)) \in BOOLEAN
        BY <2>1, <4>1 DEF Frame, Halts
      <4>3. Append(iterator.outcomes, r.signal) \in Seq(Signal) /\ iterator.next + 1 \in Nat
        BY <1>1, <2>1 DEF Frame
      <4>4. QED
        BY <2>1, <3>1, <4>2, <4>3 DEF Frame
    <3>5. iterator' # None
      BY <3>4, LoopAssumption
    <3>6. QED
      BY <1>2, <1>5, <1>7, <3>3, <3>5 DEF InRange
  <2>5. QED
    BY <2>2, <2>3, <2>4
<1>10. QED
  BY <1>8, <1>9

LEMMA TypeInit == Init => TypeInv
<1> SUFFICES ASSUME Init PROVE TypeInv
  OBVIOUS
<1>1. Values
  <2>1. /\ Initial \in State /\ Seed \in Signal
    BY LoopAssumption
  <2>2. pc \in Place /\ status \in RunStatus
    BY DEF Init, Place, RunStatus
  <2>3. iterator \in FrameSlot /\ stored \in StoreSlot
    BY DEF Init, FrameSlot, StoreSlot
  <2>4. execution = <<>> /\ batch = <<>>
    BY Zenon DEF Init
  <2>5. /\ state = Initial /\ signal = Seed /\ job = NoJob
        /\ iteration = 0 /\ tokens = 0 /\ restarts = 0 /\ failures = 0
    BY DEF Init
  <2>6. QED
    BY <2>1, <2>2, <2>3, <2>4, <2>5, NoJobType, EmptyLogs DEF Values
<1>2. Flags
  BY Zenon DEF Init, Flags
<1>3. Phases
  BY DEF Init, Phases, InRange
<1>4. QED
  BY <1>1, <1>2, <1>3 DEF TypeInv

(* Starting, resuming, losing and cancelling a process.                     *)
LEMMA TypeProcess ==
    ASSUME TypeInv, StartRun \/ Resume \/ Crash \/ Cancel
    PROVE  TypeInv'
<1> USE DEF store, counters, flight, outside
<1>0. Values /\ Flags /\ Phases
  BY DEF TypeInv
<1>1. CASE StartRun
  <2>1. Values'
    BY <1>0, <1>1 DEF Values, StartRun, Place
  <2>2. Flags'
    BY <1>0, <1>1, Zenon DEF Flags, StartRun
  <2>3. Phases'
    BY <1>0, <1>1 DEF Phases, StartRun
  <2>4. QED
    BY <2>1, <2>2, <2>3 DEF TypeInv
<1>2. CASE Resume
  <2>1. stored \in Checkpoint /\ InRange(stored.iterator)
    BY <1>0, <1>2 DEF Resume, Values, StoreSlot, Phases
  <2>2. /\ stored.state \in State /\ stored.iteration \in Nat /\ stored.tokens \in Nat
        /\ stored.execution \in Seq(Entry) /\ stored.iterator \in FrameSlot
    BY <2>1 DEF Checkpoint
  <2>3. ResumeSignal \in Signal
    BY LoopAssumption
  <2>4. /\ state' \in State /\ signal' \in Signal /\ iteration' \in Nat /\ tokens' \in Nat
        /\ execution' \in Seq(Entry) /\ iterator' \in FrameSlot
    BY <1>2, <2>2, <2>3 DEF Resume, InitialIterations, InitialExecution
  <2>5. pc' \in {"ended", "loop"} /\ status' \in RunStatus
    BY <1>2, TerminalStatusType DEF Resume, RunStatus
  <2>6. job' = NoJob /\ batch' = <<>>
    BY <1>2, Zenon DEF Resume
  <2>7. stored' = stored /\ restarts' = restarts + 1 /\ failures' = failures
    BY <1>2, Zenon DEF Resume
  <2>8. Values'
    BY <1>0, <2>4, <2>5, <2>6, <2>7, NoJobType, EmptyLogs DEF Values, Place
  <2>9. Flags'
    <3>1. known' \in Registries /\ Registries \subseteq BOOLEAN
      BY <1>2, LoopAssumption, Zenon DEF Resume
    <3>2. saveErr' = FALSE /\ cancelled' = FALSE /\ suspend' = FALSE
      BY <1>2, Zenon DEF Resume
    <3>3. QED
      BY <3>1, <3>2, Zenon DEF Flags
  <2>10. Phases'
    <3>1. iterator' = stored.iterator
      BY <1>2 DEF Resume
    <3>2. QED
      BY <2>1, <2>5, <2>6, <2>7, <3>1 DEF Phases, InRange
  <2>11. QED
    BY <2>8, <2>9, <2>10 DEF TypeInv
<1>3. CASE Crash
  <2>1. Initial \in State /\ Seed \in Signal
    BY LoopAssumption
  <2>2. pc' = "down" /\ pc' \in Place /\ status' \in RunStatus
    BY <1>3 DEF Crash, Place, RunStatus
  <2>3. iterator' = None /\ iterator' \in FrameSlot
    BY <1>3 DEF Crash, FrameSlot
  <2>4. execution' = <<>> /\ batch' = <<>> /\ job' = NoJob
        /\ iteration' = 0 /\ tokens' = 0
    BY <1>3, Zenon DEF Crash
  <2>5. stored' = stored /\ restarts' = restarts + 1 /\ failures' = failures
    BY <1>3, Zenon DEF Crash
  <2>6. Values'
    <3>1. state' \in State /\ signal' \in Signal
      BY <1>3, <2>1 DEF Crash
    <3>2. QED
      BY <1>0, <2>2, <2>3, <2>4, <2>5, <3>1, NoJobType, EmptyLogs DEF Values
  <2>7. Flags'
    <3>1. saveErr' = FALSE /\ cancelled' = FALSE /\ known' = TRUE /\ suspend' = FALSE
      BY <1>3, Zenon DEF Crash
    <3>2. QED
      BY <3>1, Zenon DEF Flags
  <2>8. Phases'
    BY <1>0, <2>2, <2>3, <2>4, <2>5 DEF Phases, InRange
  <2>9. QED
    BY <2>6, <2>7, <2>8 DEF TypeInv
<1>4. CASE Cancel
  <2>1. Values'
    BY <1>0, <1>4 DEF Values, Cancel
  <2>2. Flags'
    <3>1. cancelled' = TRUE /\ saveErr' = saveErr /\ known' = known /\ suspend' = suspend
      BY <1>4 DEF Cancel
    <3>2. QED
      BY <1>0, <3>1, Zenon DEF Flags
  <2>3. Phases'
    BY <1>0, <1>4 DEF Phases, Cancel
  <2>4. QED
    BY <2>1, <2>2, <2>3 DEF TypeInv
<1>5. QED
  BY <1>1, <1>2, <1>3, <1>4

(* The decisions of the loop outside nextTransition.                        *)
LEMMA TypeDecide ==
    ASSUME TypeInv,
           \/ stopForContext \/ stopForUnhandledTransition
           \/ dispatchIteratorItem \/ dispatchIteratorJoin \/ dispatchParallelIterator
    PROVE  TypeInv'
<1> USE DEF store, counters, flight, outside
<1>0. Values /\ Flags /\ Phases
  BY DEF TypeInv
<1>1. CASE stopForContext
  <2>1. pc' = "ended" /\ status' = "cancelled"
    BY <1>1, Zenon DEF stopForContext, Stop
  <2>2. Values'
    BY <1>0, <1>1, <2>1 DEF Values, stopForContext, Place, RunStatus, Statuses
  <2>3. Flags'
    BY <1>0, <1>1, Zenon DEF Flags, stopForContext
  <2>4. Phases'
    BY <1>0, <1>1, <2>1 DEF Phases, stopForContext
  <2>5. QED
    BY <2>2, <2>3, <2>4 DEF TypeInv
<1>2. CASE stopForUnhandledTransition
  <2>1. pc' = "ended" /\ status' = "failed" /\ signal' = Current
    BY <1>2, Zenon DEF stopForUnhandledTransition, Stop
  <2>2. Values'
    BY <1>0, <1>2, <2>1, CurrentType
       DEF Values, stopForUnhandledTransition, Place, RunStatus, Statuses
  <2>3. Flags'
    BY <1>0, <1>2, Zenon DEF Flags, stopForUnhandledTransition
  <2>4. Phases'
    BY <1>0, <1>2, <2>1 DEF Phases, stopForUnhandledTransition
  <2>5. QED
    BY <2>2, <2>3, <2>4 DEF TypeInv
<1>3. ASSUME InIterator
      PROVE  /\ pc = "loop" /\ batch = <<>> /\ iterator # None
             /\ iterator \in Frame /\ InRange(iterator)
             /\ iterator.next \in Nat /\ iterator.items \in Nat
  BY <1>0, <1>3 DEF InIterator, Phases, Values, FrameSlot, Frame
<1>4. CASE dispatchIteratorItem
  <2>1. /\ pc = "loop" /\ batch = <<>> /\ iterator # None
        /\ iterator \in Frame /\ InRange(iterator) /\ OpenFrame
    BY <1>3, <1>4 DEF dispatchIteratorItem
  <2>2. /\ state' = state /\ signal' = signal /\ tokens' = tokens /\ execution' = execution
        /\ batch' = batch /\ status' = status /\ stored' = stored
        /\ failures' = failures /\ restarts' = restarts
    BY <1>4, Zenon DEF dispatchIteratorItem
  <2>3. /\ iteration' \in Nat /\ pc' \in {"loop", "exec"} /\ job' \in Job
        /\ pc' = "exec" => job'.after # "batch"
        /\ iterator' \in Frame /\ InRange(iterator')
    <3>1. CASE known
      <4>1. Dispatch(BodyState(iterator), iterator.key[2], Table[iterator.key].emits, "item")
            /\ iterator' = iterator
        BY <1>4, <3>1 DEF dispatchIteratorItem
      <4>2. /\ BodyState(iterator) \in State /\ iterator.key[2] \in Signal
            /\ Table[iterator.key].emits \in SUBSET Result
        BY <2>1, FrameRow
      <4>3. iteration' \in Nat /\ pc' = "exec" /\ job' \in Job /\ job'.after # "batch"
        BY <1>0, <4>1, <4>2, DispatchType
      <4>4. QED
        BY <2>1, <4>1, <4>3
    <3>2. CASE ~known
      <4>1. /\ iterator' = [iterator EXCEPT !.halted = TRUE]
            /\ pc' = pc /\ iteration' = iteration /\ job' = job
        BY <1>4, <3>2 DEF dispatchIteratorItem
      <4>2. iterator' \in Frame /\ iterator'.next = iterator.next
            /\ iterator'.items = iterator.items
        BY <2>1, <4>1 DEF Frame
      <4>3. InRange(iterator')
        BY <2>1, <4>2 DEF InRange
      <4>4. QED
        BY <1>0, <2>1, <4>1, <4>2, <4>3 DEF Values
    <3>3. QED
      BY <3>1, <3>2
  <2>4. Values'
    BY <1>0, <2>2, <2>3 DEF Values, Place, FrameSlot
  <2>5. Flags'
    BY <1>0, <1>4, Zenon DEF Flags, dispatchIteratorItem
  <2>6. Phases'
    BY <1>0, <2>1, <2>2, <2>3 DEF Phases
  <2>7. QED
    BY <2>4, <2>5, <2>6 DEF TypeInv
<1>5. CASE dispatchIteratorJoin
  <2>1. iterator \in Frame /\ EachOf(iterator) \in EachSpec /\ batch = <<>>
    BY <1>3, <1>5, FrameRow DEF dispatchIteratorJoin
  <2>2. iteratorJoinSignal(iterator) \in Signal
    BY <2>1 DEF iteratorJoinSignal, EachSpec
  <2>3. Only(iteratorJoinSignal(iterator)) \in SUBSET Result
    BY <2>2 DEF Only, Result
  <2>4. state' \in State /\ iterator' = None
    BY <1>5, <2>1 DEF dispatchIteratorJoin, EachSpec
  <2>5. iteration' \in Nat /\ pc' = "exec" /\ job' \in Job /\ job'.after # "batch"
    <3>1. Dispatch(state, iteratorJoinSignal(iterator),
                   Only(iteratorJoinSignal(iterator)), "stop")
      BY <1>5 DEF dispatchIteratorJoin
    <3>2. QED
      BY <1>0, <2>2, <2>3, <3>1, DispatchType DEF Values
  <2>6. /\ signal' = signal /\ tokens' = tokens /\ execution' = execution
        /\ batch' = batch /\ status' = status /\ stored' = stored
        /\ failures' = failures /\ restarts' = restarts
    BY <1>5, Zenon DEF dispatchIteratorJoin
  <2>7. Values'
    BY <1>0, <2>4, <2>5, <2>6 DEF Values, Place, FrameSlot
  <2>8. Flags'
    BY <1>0, <1>5, Zenon DEF Flags, dispatchIteratorJoin
  <2>9. Phases'
    BY <1>0, <2>1, <2>4, <2>5, <2>6 DEF Phases, InRange
  <2>10. QED
    BY <2>7, <2>8, <2>9 DEF TypeInv
<1>6. CASE dispatchParallelIterator
  <2>1. /\ iterator \in Frame /\ batch = <<>>
        /\ iterator.next < iterator.items /\ iterator.next <= iterator.items
    BY <1>3, <1>6 DEF dispatchParallelIterator, OpenFrame
  <2>2. DispatchBatch(iterator)
    BY <1>6 DEF dispatchParallelIterator
  <2>3. /\ iterator' \in Frame /\ InRange(iterator') /\ pc' \in {"loop", "exec"}
        /\ job' \in Job /\ suspend' \in BOOLEAN
    BY <1>0, <2>1, <2>2, DispatchBatchType
  <2>4. /\ state' = state /\ signal' = signal /\ iteration' = iteration /\ tokens' = tokens
        /\ execution' = execution /\ batch' = batch /\ status' = status /\ stored' = stored
        /\ failures' = failures /\ restarts' = restarts
    BY <1>6, Zenon DEF dispatchParallelIterator
  <2>5. Values'
    BY <1>0, <2>3, <2>4 DEF Values, Place, FrameSlot
  <2>6. Flags'
    BY <1>0, <1>6, <2>3, Zenon DEF Flags, dispatchParallelIterator
  <2>7. Phases'
    <3>1. iterator' # None
      BY <2>3, LoopAssumption
    <3>2. QED
      BY <1>0, <2>1, <2>3, <2>4, <3>1 DEF Phases
  <2>8. QED
    BY <2>5, <2>6, <2>7 DEF TypeInv
<1>7. QED
  BY <1>1, <1>2, <1>4, <1>5, <1>6

(* A new frame starts at its first item, an old one is in range already.    *)
LEMMA ChoiceInRange ==
    ASSUME Phases, NEW key \in DOMAIN Table, NEW c \in Choices(key)
    PROVE  InRange(c.frame)
<1>1. \/ c.frame = iterator
      \/ \E n \in ItemCounts \ {0} : c.frame = newIteratorSnapshot(key, n)
  BY ChoiceFrame
<1>2. CASE c.frame = iterator
  BY <1>2 DEF Phases
<1>3. ASSUME NEW n \in ItemCounts \ {0}, c.frame = newIteratorSnapshot(key, n)
      PROVE  InRange(c.frame)
  <2>1. n \in Nat
    BY LoopAssumption
  <2>2. c.frame.next = 0 /\ c.frame.items = n
    BY <1>3 DEF newIteratorSnapshot
  <2>3. QED
    BY <2>1, <2>2 DEF InRange
<1>4. QED
  BY <1>1, <1>2, <1>3

(* The row the loop looks up.                                               *)
LEMMA TypeTransition ==
    ASSUME TypeInv, nextTransition
    PROVE  TypeInv'
<1> USE DEF store, counters, flight, outside
<1>0. Values /\ Flags /\ Phases /\ TypeOK
  BY TypeParts DEF TypeInv
<1>1. PICK c \in Choices(<<state, Current>>) :
          StepParallel(c) \/ StepTerminal(c) \/ stopForNilCommand(c) \/ StepCommand(c)
  BY DEF nextTransition
<1>2. c \in Choice
  BY <1>0, ChoiceType DEF nextTransition
<1>3. /\ c.next \in State /\ c.emits \in SUBSET Result /\ c.frame \in FrameSlot
  BY <1>2 DEF Choice
<1>4. Current \in Signal
  BY <1>0, CurrentType
<1>5. pc = "loop" /\ batch = <<>>
  BY <1>0 DEF nextTransition, AtTransition, Phases
<1>6. InRange(c.frame)
  BY <1>0, ChoiceInRange DEF nextTransition
<1>7. CASE StepParallel(c)
  <2>1. c.frame # None /\ DispatchBatch(c.frame) /\ (known \/ c.frame.next < c.frame.items)
    BY <1>7 DEF StepParallel, Parallel
  <2>2. c.frame \in Frame /\ c.frame.next <= c.frame.items
    BY <1>3, <1>6, <2>1 DEF FrameSlot, InRange
  <2>3. /\ iterator' \in Frame /\ InRange(iterator') /\ pc' \in {"loop", "exec"}
        /\ job' \in Job /\ suspend' \in BOOLEAN
    BY <1>0, <2>1, <2>2, DispatchBatchType
  <2>4. /\ state' = c.next /\ signal' = Current /\ iteration' = iteration /\ tokens' = tokens
        /\ execution' = execution /\ batch' = batch /\ status' = status /\ stored' = stored
        /\ failures' = failures /\ restarts' = restarts
    BY <1>7, Zenon DEF StepParallel
  <2>5. Values'
    BY <1>0, <1>3, <1>4, <2>3, <2>4 DEF Values, Place, FrameSlot
  <2>6. Flags'
    BY <1>0, <1>7, <2>3, Zenon DEF Flags, StepParallel
  <2>7. Phases'
    <3>1. iterator' # None
      BY <2>3, LoopAssumption
    <3>2. QED
      BY <1>0, <1>5, <2>3, <2>4, <3>1 DEF Phases
  <2>8. QED
    BY <2>5, <2>6, <2>7 DEF TypeInv
<1>8. CASE StepTerminal(c)
  <2>1. /\ pc' = "ended" /\ status' \in RunStatus
    <3>1. pc' = "ended" /\ status' = IF saveErr' THEN "failed" ELSE TerminalStatusForState(c.next)
      BY <1>8, Zenon DEF StepTerminal, Stop
    <3>2. QED
      BY <3>1, TerminalStatusType DEF RunStatus, Statuses
  <2>2. /\ stored' \in StoreSlot /\ failures' \in Nat
        /\ stored' # None => InRange(stored'.iterator)
        /\ saveErr' \in BOOLEAN
    <3>1. CASE state # c.next
      <4>1. Save(Position(c.next, Current, iteration, iterator, execution, tokens))
        BY <1>8, <3>1 DEF StepTerminal
      <4>2. QED
        BY <1>0, <1>3, <1>4, <4>1, SaveType
    <3>2. CASE state = c.next
      <4>1. stored' = stored /\ failures' = failures /\ saveErr' = saveErr
        BY <1>8, <3>2, Zenon DEF StepTerminal
      <4>2. saveErr' \in BOOLEAN
        BY <1>0, <4>1, Zenon DEF Flags
      <4>3. QED
        BY <1>0, <4>1, <4>2 DEF Values, Phases
    <3>3. QED
      BY <3>1, <3>2
  <2>3. /\ state' = c.next /\ signal' = Current /\ iteration' = iteration /\ tokens' = tokens
        /\ execution' = execution /\ batch' = batch /\ restarts' = restarts
        /\ iterator' = iterator /\ job' = job
    BY <1>8, Zenon DEF StepTerminal
  <2>4. Values'
    BY <1>0, <1>3, <1>4, <2>1, <2>2, <2>3 DEF Values, Place
  <2>5. Flags'
    BY <1>0, <1>8, <2>2, Zenon DEF Flags, StepTerminal
  <2>6. Phases'
    BY <1>0, <2>1, <2>2, <2>3 DEF Phases
  <2>7. QED
    BY <2>4, <2>5, <2>6 DEF TypeInv
<1>9. CASE stopForNilCommand(c)
  <2>1. /\ pc' = "ended" /\ status' = "failed" /\ state' = c.next /\ signal' = Current
        /\ iteration' = iteration + 1 /\ tokens' = tokens /\ execution' = execution
        /\ batch' = batch /\ restarts' = restarts /\ iterator' = iterator /\ job' = job
        /\ stored' = stored /\ failures' = failures
    BY <1>9, Zenon DEF stopForNilCommand, Stop
  <2>2. Values'
    <3>1. pc' \in Place /\ status' \in RunStatus
      BY <2>1, StatusNames DEF Place
    <3>2. QED
      BY <1>0, <1>3, <1>4, <2>1, <3>1 DEF Values
  <2>3. Flags'
    BY <1>0, <1>9, Zenon DEF Flags, stopForNilCommand
  <2>4. Phases'
    BY <1>0, <1>9, <2>1 DEF Phases, stopForNilCommand
  <2>5. QED
    BY <2>2, <2>3, <2>4 DEF TypeInv
<1>10. CASE StepCommand(c)
  <2>1. Dispatch(state, Current, c.emits, "stop")
    BY <1>10 DEF StepCommand
  <2>2. iteration' \in Nat /\ pc' = "exec" /\ job' \in Job /\ job'.after # "batch"
    BY <1>0, <1>3, <1>4, <2>1, DispatchType DEF Values
  <2>3. /\ state' = c.next /\ signal' = Current /\ iterator' = c.frame
        /\ tokens' = tokens /\ execution' = execution /\ batch' = batch
        /\ status' = status /\ stored' = stored /\ failures' = failures
        /\ restarts' = restarts
    BY <1>10, Zenon DEF StepCommand
  <2>4. Values'
    BY <1>0, <1>3, <1>4, <2>2, <2>3 DEF Values, Place
  <2>5. Flags'
    BY <1>0, <1>10, Zenon DEF Flags, StepCommand
  <2>6. Phases'
    BY <1>0, <1>5, <1>6, <2>2, <2>3 DEF Phases, InRange
  <2>7. QED
    BY <2>4, <2>5, <2>6 DEF TypeInv
<1>11. QED
  BY <1>1, <1>7, <1>8, <1>9, <1>10

LEMMA TypeExecute ==
    ASSUME TypeInv, Execute \/ ExecuteBatch \/ CommitResult
    PROVE  TypeInv'
<1> USE DEF store, counters, flight, outside
<1>0. Values /\ Flags /\ Phases
  BY DEF TypeInv
<1>1. /\ job.from \in State /\ job.emits \in SUBSET Result /\ job.size \in Nat
  BY <1>0 DEF Values, Job
<1>2. CASE Execute
  <2>1. PICK r \in job.emits : Record(r, job.from, iteration)
    BY <1>2 DEF Execute
  <2>2. r \in Result /\ iteration \in Nat
    BY <1>0, <1>1 DEF Values
  <2>3. /\ signal' \in Signal /\ tokens' \in Nat /\ execution' \in Seq(Entry)
        /\ iterator' \in FrameSlot /\ InRange(iterator') /\ pc' = "save"
    BY <1>0, <1>1, <2>1, <2>2, RecordType
  <2>4. /\ state' = state /\ iteration' = iteration /\ status' = status /\ job' = job
        /\ batch' = batch /\ stored' = stored /\ failures' = failures
        /\ restarts' = restarts /\ pc = "exec"
    BY <1>2, Zenon DEF Execute
  <2>5. Values'
    BY <1>0, <2>3, <2>4 DEF Values, Place
  <2>6. Flags'
    BY <1>0, <1>2, Zenon DEF Flags, Execute
  <2>7. Phases'
    BY <1>0, <2>3, <2>4 DEF Phases
  <2>8. QED
    BY <2>5, <2>6, <2>7 DEF TypeInv
<1>3. CASE ExecuteBatch
  <2>1. PICK k \in 0 .. job.size : \E results \in [1 .. k -> job.emits] :
             batch' = results /\ pc' = IF k = 0 THEN "after" ELSE "commit"
    BY <1>3 DEF ExecuteBatch
  <2>2. k \in Nat /\ batch' \in [1 .. k -> Result]
    BY <1>1, <2>1
  <2>3. batch' \in Seq(Result) /\ Len(batch') = k
    BY <2>2
  <2>4. pc' \in {"after", "commit"} /\ (pc' = "after" => batch' = <<>>)
        /\ (pc' = "commit" => batch' # <<>>)
    BY <2>1, <2>3
  <2>5. /\ state' = state /\ signal' = signal /\ iteration' = iteration /\ tokens' = tokens
        /\ execution' = execution /\ iterator' = iterator /\ status' = status
        /\ job' = job /\ stored' = stored /\ failures' = failures /\ restarts' = restarts
    BY <1>3, Zenon DEF ExecuteBatch
  <2>6. iterator # None
    BY <1>0, <1>3 DEF ExecuteBatch, Phases
  <2>7. Values'
    BY <1>0, <2>3, <2>4, <2>5 DEF Values, Place
  <2>8. Flags'
    BY <1>0, <1>3, Zenon DEF Flags, ExecuteBatch
  <2>9. Phases'
    BY <1>0, <2>4, <2>5, <2>6 DEF Phases
  <2>10. QED
    BY <2>7, <2>8, <2>9 DEF TypeInv
<1>4. CASE CommitResult
  <2> DEFINE from == IF iterator.next = 0 THEN iterator.key[1] ELSE BodyState(iterator)
  <2>1. pc = "commit" /\ batch # <<>> /\ iterator # None /\ iterator \in Frame
    BY <1>0, <1>4 DEF CommitResult, Phases, Values, FrameSlot
  <2>2. batch[1] \in Result /\ Tail(batch) \in Seq(Result)
    BY <1>0, <2>1 DEF Values
  <2>3. from \in State
    BY <2>1, FrameRow
  <2>4. Record(batch[1], from, iteration + 1)
    BY <1>4 DEF CommitResult
  <2>5. iteration + 1 \in Nat
    BY <1>0 DEF Values
  <2> HIDE DEF from
  <2>6. /\ signal' \in Signal /\ tokens' \in Nat /\ execution' \in Seq(Entry)
        /\ iterator' \in FrameSlot /\ InRange(iterator') /\ pc' = "save"
        /\ iterator' # None
    BY <1>0, <2>1, <2>2, <2>3, <2>4, <2>5, RecordType
  <2>7. /\ state' = state /\ iteration' = iteration + 1 /\ status' = status /\ job' = job
        /\ batch' = Tail(batch) /\ stored' = stored /\ failures' = failures
        /\ restarts' = restarts
    BY <1>4, Zenon DEF CommitResult
  <2>8. Values'
    BY <1>0, <2>2, <2>5, <2>6, <2>7 DEF Values, Place
  <2>9. Flags'
    <3>1. saveErr' = saveErr /\ cancelled' = cancelled /\ known' = known
          /\ suspend' = (suspend \/ batch[1].signal = AwaitApproval)
      BY <1>4, Zenon DEF CommitResult
    <3>2. QED
      BY <1>0, <3>1, Zenon DEF Flags
  <2>10. Phases'
    BY <1>0, <2>6, <2>7 DEF Phases
  <2>11. QED
    BY <2>8, <2>9, <2>10 DEF TypeInv
<1>5. QED
  BY <1>2, <1>3, <1>4

LEMMA TypeFinish ==
    ASSUME TypeInv, saveCheckpoint \/ stopForSuspend \/ stopAfterDispatch
    PROVE  TypeInv'
<1> USE DEF store, counters, flight, outside
<1>0. Values /\ Flags /\ Phases
  BY DEF TypeInv
<1>1. CASE saveCheckpoint
  <2>1. Save(Position(state, signal, iteration, iterator, execution, tokens))
    BY <1>1 DEF saveCheckpoint
  <2>2. /\ stored' \in StoreSlot /\ failures' \in Nat /\ saveErr' \in BOOLEAN
        /\ stored' # None => InRange(stored'.iterator)
    <3>1. state \in State /\ signal \in Signal
      BY <1>0 DEF Values
    <3>2. QED
      BY <1>0, <2>1, <3>1, SaveType
  <2>3. /\ state' = state /\ signal' = signal /\ iteration' = iteration /\ tokens' = tokens
        /\ execution' = execution /\ iterator' = iterator /\ status' = status
        /\ job' = job /\ batch' = batch /\ restarts' = restarts
        /\ pc = "save" /\ pc' = IF batch # <<>> THEN "commit" ELSE "after"
    BY <1>1, Zenon DEF saveCheckpoint
  <2>4. Values'
    BY <1>0, <2>2, <2>3 DEF Values, Place
  <2>5. Flags'
    BY <1>0, <1>1, <2>2, Zenon DEF Flags, saveCheckpoint
  <2>6. Phases'
    BY <1>0, <2>2, <2>3 DEF Phases
  <2>7. QED
    BY <2>4, <2>5, <2>6 DEF TypeInv
<1>2. CASE stopForSuspend
  <2>1. /\ pc' = "ended" /\ signal' = AwaitApproval
        /\ status' = IF saveErr THEN "failed" ELSE "suspended"
        /\ state' = state /\ iteration' = iteration /\ tokens' = tokens
        /\ execution' = execution /\ iterator' = iterator /\ stored' = stored
        /\ job' = job /\ batch' = batch /\ restarts' = restarts /\ failures' = failures
    BY <1>2, Zenon DEF stopForSuspend, Stop
  <2>2. status' \in RunStatus
    BY <2>1, StatusNames
  <2>3. Values'
    BY <1>0, <2>1, <2>2, LoopAssumption DEF Values, Place
  <2>4. Flags'
    BY <1>0, <1>2, Zenon DEF Flags, stopForSuspend
  <2>5. Phases'
    BY <1>0, <2>1 DEF Phases
  <2>6. QED
    BY <2>3, <2>4, <2>5 DEF TypeInv
<1>3. CASE stopAfterDispatch
  <2>1. /\ state' = state /\ signal' = signal /\ iteration' = iteration /\ tokens' = tokens
        /\ execution' = execution /\ iterator' = iterator /\ stored' = stored
        /\ job' = job /\ batch' = batch /\ restarts' = restarts /\ failures' = failures
        /\ pc = "after"
    BY <1>3, Zenon DEF stopAfterDispatch
  <2>2. pc' \in {"loop", "ended"} /\ status' \in RunStatus
    <3>1. \/ pc' = "loop" /\ UNCHANGED status
          \/ Stop("failed") \/ Stop("cancelled") \/ Stop(TerminalStatusForState(state))
      BY <1>3 DEF stopAfterDispatch
    <3>2. TerminalStatusForState(state) \in RunStatus
      BY TerminalStatusType DEF RunStatus
    <3>3. status \in RunStatus
      BY <1>0 DEF Values
    <3>4. QED
      BY <3>1, <3>2, <3>3, StatusNames DEF Stop
  <2>3. Values'
    BY <1>0, <2>1, <2>2 DEF Values, Place
  <2>4. Flags'
    BY <1>0, <1>3, Zenon DEF Flags, stopAfterDispatch
  <2>5. Phases'
    BY <1>0, <2>1, <2>2 DEF Phases
  <2>6. QED
    BY <2>3, <2>4, <2>5 DEF TypeInv
<1>4. QED
  BY <1>1, <1>2, <1>3

LEMMA TypeStutter == TypeInv /\ UNCHANGED vars => TypeInv'
<1> SUFFICES ASSUME TypeInv, UNCHANGED vars PROVE TypeInv'
  OBVIOUS
<1> USE DEF vars, store, counters, flight, outside
<1>1. Values'
  BY DEF TypeInv, Values
<1>2. Flags'
  BY Zenon DEF TypeInv, Flags
<1>3. Phases'
  BY DEF TypeInv, Phases
<1>4. QED
  BY <1>1, <1>2, <1>3 DEF TypeInv

LEMMA TypeStep == TypeInv /\ [Next]_vars => TypeInv'
BY TypeProcess, TypeDecide, TypeTransition, TypeExecute, TypeFinish, TypeStutter
   DEF Next, Decide, Finish

LEMMA TypeInvariant == Spec => []TypeInv
BY TypeInit, TypeStep, PTL DEF Spec

(* Every variable of the runner and every checkpoint of the store keeps its *)
(* type, whatever the machine, the budget and the interleaving of crashes,  *)
(* failed saves and cancellation.                                           *)
THEOREM TypeCorrect == Spec => []TypeOK
<1>1. TypeInv => TypeOK
  BY TypeParts DEF TypeInv
<1>2. QED
  BY <1>1, TypeInvariant, PTL

-----------------------------------------------------------------------------
(***************************************************************************)
(* The execution log and the store: steps are numbered by their place in   *)
(* the log, a durable step is never lost or rewritten, a reported outcome  *)
(* is durable, and the iteration budget bounds what the machine does not   *)
(* route.                                                                  *)
(***************************************************************************)
(* One save: what it may leave in the store.                                *)
Written(s) == /\ stored' # None
              /\ stored'.state = s
              /\ stored'.iteration = iteration
              /\ stored'.execution = execution

SaveEffect(s) == /\ stored' = stored \/ Written(s)
                 /\ Persistent /\ ~saveErr' => Written(s)

LEMMA SaveLeaves ==
    ASSUME Values, NEW s \in State, NEW sig \in Signal,
           Save(Position(s, sig, iteration, iterator, execution, tokens))
    PROVE  SaveEffect(s)
<1> DEFINE cp == Position(s, sig, iteration, iterator, execution, tokens)
<1>1. /\ cp # None /\ cp.state = s /\ cp.iteration = iteration
      /\ cp.execution = execution
  <2>1. cp \in Checkpoint
    BY PositionType
  <2>2. QED
    BY <2>1, LoopAssumption DEF Position
<1> HIDE DEF cp
<1>2. Save(cp)
  BY DEF cp
<1>3. stored' \in {stored, cp} /\ (Persistent /\ ~saveErr' => stored' = cp)
  BY <1>2, Zenon DEF Save, store
<1>4. stored' = cp => Written(s)
  BY <1>1 DEF Written
<1>5. QED
  BY <1>3, <1>4, Zenon DEF SaveEffect

(* The rest of a batch that the budget admits.                              *)
LEMMA BatchWithinBudget ==
    ASSUME NEW f \in Frame, iteration \in Nat, f.next <= f.items, BatchSize(f) # 0,
           MaxIterations > 0
    PROVE  iteration + BatchSize(f) <= MaxIterations
<1>1. f.next \in Nat /\ f.items \in Nat /\ MaxIterations \in Nat
  BY LoopAssumption DEF Frame
<1>2. QED
  BY <1>1 DEF BatchSize

-----------------------------------------------------------------------------
(* What a decision of the loop does to the log, the counters and the store. *)

Dispatched ==
    \/ /\ job'.after # "batch" /\ iteration' = iteration + 1
       /\ coreBudgetExceeded => job'.trans = BudgetExhausted
    \/ /\ job'.after = "batch" /\ iteration' = iteration /\ suspend' = FALSE
       /\ MaxIterations > 0 => iteration + job'.size <= MaxIterations

Decided ==
    /\ pc = "loop" /\ execution' = execution
    /\ pc' \in {"loop", "exec", "ended"}
    /\ pc' = "loop" => iteration' = iteration /\ stored' = stored /\ status' = status
    /\ pc' = "exec" => Dispatched /\ stored' = stored /\ status' = status
    /\ pc' = "ended" =>
           \/ /\ stored' = stored
              /\ EndsAreFinal => status' \in {"cancelled", "failed"}
           \/ /\ SaveEffect(state') /\ iteration' = iteration
              /\ status' = IF saveErr' THEN "failed" ELSE TerminalStatusForState(state')

LEMMA BatchDecided ==
    ASSUME Values, NEW f \in Frame, f.next <= f.items, DispatchBatch(f),
           pc = "loop", execution' = execution, iteration' = iteration,
           stored' = stored, status' = status
    PROVE  Decided
<1>1. CASE ~known \/ (EachOf(f).serialOnly /\ BatchSize(f) > 0)
  <2>1. pc' = "loop"
    BY <1>1 DEF DispatchBatch
  <2>2. QED
    BY <2>1 DEF Decided
<1>2. CASE ~(~known \/ (EachOf(f).serialOnly /\ BatchSize(f) > 0))
  <2>1. suspend' = FALSE /\ IF BatchSize(f) = 0 THEN pc' = "loop" /\ UNCHANGED job
                            ELSE /\ pc' = "exec"
                                 /\ job' = [from |-> state, trans |-> f.key[2],
                                            emits |-> Table[f.key].emits,
                                            after |-> "batch", size |-> BatchSize(f)]
    BY <1>2, Zenon DEF DispatchBatch
  <2>2. CASE BatchSize(f) = 0
    BY <2>1, <2>2 DEF Decided
  <2>3. CASE BatchSize(f) # 0
    <3>1. MaxIterations > 0 => iteration + BatchSize(f) <= MaxIterations
      BY <2>3, BatchWithinBudget DEF Values
    <3>2. pc' = "exec" /\ job'.after = "batch" /\ job'.size = BatchSize(f)
      BY <2>1, <2>3
    <3>3. Dispatched
      BY <2>1, <3>1, <3>2, Zenon DEF Dispatched
    <3>4. QED
      BY <3>2, <3>3 DEF Decided
  <2>4. QED
    BY <2>2, <2>3
<1>3. QED
  BY <1>1, <1>2

LEMMA StepDecided ==
    ASSUME Values, pc = "loop", execution' = execution, stored' = stored, status' = status,
           NEW from, NEW trans, NEW emits, NEW after \in {"stop", "item"},
           Dispatch(from, trans, emits, after),
           coreBudgetExceeded => trans = BudgetExhausted
    PROVE  Decided
<1>1. /\ iteration' = iteration + 1 /\ pc' = "exec"
      /\ job' = [from |-> from, trans |-> trans, emits |-> emits, after |-> after, size |-> 0]
  BY DEF Dispatch
<1>2. job'.after # "batch" /\ job'.trans = trans
  BY <1>1
<1>3. Dispatched
  BY <1>1, <1>2, Zenon DEF Dispatched
<1>4. QED
  BY <1>1, <1>3 DEF Decided

LEMMA LoopDecides ==
    ASSUME TypeInv, Decide
    PROVE  Decided
<1> USE DEF store, counters, flight, outside
<1>0. Values /\ Phases /\ TypeOK
  BY TypeParts DEF TypeInv
<1>1. CASE stopForContext
  <2>1. pc = "loop" /\ execution' = execution /\ pc' = "ended" /\ stored' = stored
        /\ status' = "cancelled"
    BY <1>1, Zenon DEF stopForContext, Stop
  <2>2. QED
    BY <2>1 DEF Decided
<1>2. CASE stopForUnhandledTransition
  <2>1. pc = "loop" /\ execution' = execution /\ pc' = "ended" /\ stored' = stored
        /\ status' = "failed"
    BY <1>2, Zenon DEF stopForUnhandledTransition, Stop, AtTransition
  <2>2. QED
    BY <2>1 DEF Decided
<1>3. ASSUME InIterator
      PROVE  /\ pc = "loop" /\ ~coreBudgetExceeded
             /\ iterator \in Frame /\ iterator.next <= iterator.items
  <2>1. pc = "loop" /\ iterator # None /\ Current # BudgetExhausted
    BY <1>3, Zenon DEF InIterator
  <2>2. ~coreBudgetExceeded
    BY <2>1, Zenon DEF Current
  <2>3. QED
    BY <1>0, <2>1, <2>2 DEF Phases, InRange, Values, FrameSlot
<1>4. CASE dispatchIteratorItem
  <2>1. InIterator /\ execution' = execution /\ stored' = stored /\ status' = status
    BY <1>4, Zenon DEF dispatchIteratorItem
  <2>2. CASE known
    <3>1. Dispatch(BodyState(iterator), iterator.key[2], Table[iterator.key].emits, "item")
      BY <1>4, <2>2, Zenon DEF dispatchIteratorItem
    <3>2. QED
      BY <1>0, <1>3, <2>1, <3>1, StepDecided
  <2>3. CASE ~known
    <3>1. pc' = pc /\ iteration' = iteration
      BY <1>4, <2>3, Zenon DEF dispatchIteratorItem
    <3>2. QED
      BY <1>3, <2>1, <3>1 DEF Decided
  <2>4. QED
    BY <2>2, <2>3
<1>5. CASE dispatchIteratorJoin
  <2>1. InIterator /\ execution' = execution /\ stored' = stored /\ status' = status
        /\ Dispatch(state, iteratorJoinSignal(iterator),
                    Only(iteratorJoinSignal(iterator)), "stop")
    BY <1>5, Zenon DEF dispatchIteratorJoin
  <2>2. QED
    BY <1>0, <1>3, <2>1, StepDecided
<1>6. CASE dispatchParallelIterator
  <2>1. InIterator /\ DispatchBatch(iterator) /\ execution' = execution
        /\ iteration' = iteration /\ stored' = stored /\ status' = status
    BY <1>6, Zenon DEF dispatchParallelIterator
  <2>2. QED
    BY <1>0, <1>3, <2>1, BatchDecided
<1>7. CASE nextTransition
  <2>1. PICK c \in Choices(<<state, Current>>) :
            StepParallel(c) \/ StepTerminal(c) \/ stopForNilCommand(c) \/ StepCommand(c)
    BY <1>7 DEF nextTransition
  <2>2. pc = "loop" /\ <<state, Current>> \in DOMAIN Table /\ Current \in Signal
    BY <1>0, <1>7, CurrentType DEF nextTransition, AtTransition
  <2>3. c.next \in State /\ c.frame \in FrameSlot
    BY <1>0, <2>2, ChoiceType DEF Choice
  <2>4. CASE StepParallel(c)
    <3>1. c.frame # None /\ DispatchBatch(c.frame) /\ execution' = execution
          /\ iteration' = iteration /\ stored' = stored /\ status' = status
      BY <2>4, Zenon DEF StepParallel, Parallel
    <3>2. c.frame \in Frame /\ c.frame.next <= c.frame.items
      BY <1>0, <2>2, <2>3, <3>1, ChoiceInRange DEF InRange, FrameSlot
    <3>3. QED
      BY <1>0, <2>2, <3>1, <3>2, BatchDecided
  <2>5. CASE StepTerminal(c)
    <3>1. /\ pc' = "ended" /\ execution' = execution /\ iteration' = iteration
          /\ state' = c.next
          /\ status' = IF saveErr' THEN "failed" ELSE TerminalStatusForState(c.next)
      BY <2>5, Zenon DEF StepTerminal, Stop
    <3>2. CASE state = c.next
      <4>1. ~EndsAreFinal
        BY <2>2, <2>5, <3>2 DEF StepTerminal, EndsAreFinal
      <4>2. stored' = stored
        BY <2>5, <3>2, Zenon DEF StepTerminal, store
      <4>3. QED
        BY <2>2, <3>1, <4>1, <4>2 DEF Decided
    <3>3. CASE state # c.next
      <4>1. Save(Position(c.next, Current, iteration, iterator, execution, tokens))
        BY <2>5, <3>3, Zenon DEF StepTerminal
      <4>2. SaveEffect(c.next)
        BY <1>0, <2>2, <2>3, <4>1, SaveLeaves
      <4>3. QED
        BY <2>2, <3>1, <4>2 DEF Decided
    <3>4. QED
      BY <3>2, <3>3
  <2>6. CASE stopForNilCommand(c)
    <3>1. pc' = "ended" /\ execution' = execution /\ stored' = stored /\ status' = "failed"
      BY <2>6, Zenon DEF stopForNilCommand, Stop
    <3>2. QED
      BY <2>2, <3>1 DEF Decided
  <2>7. CASE StepCommand(c)
    <3>1. Dispatch(state, Current, c.emits, "stop") /\ execution' = execution
          /\ stored' = stored /\ status' = status
      BY <2>7, Zenon DEF StepCommand
    <3>2. coreBudgetExceeded => Current = BudgetExhausted
      BY Zenon DEF Current
    <3>3. QED
      BY <1>0, <2>2, <3>1, <3>2, StepDecided
  <2>8. QED
    BY <2>1, <2>4, <2>5, <2>6, <2>7
<1>8. QED
  BY <1>1, <1>2, <1>4, <1>5, <1>6, <1>7 DEF Decide

-----------------------------------------------------------------------------
(* The inductive invariant: how log, counters, store and outcome relate at  *)
(* each place of the loop.                                                  *)

Numbered(log) == \A i \in 1 .. Len(log) : log[i].iteration = i

(* Inside a dispatch the iteration is already counted, its entry is not.    *)
Numbers ==
    /\ Numbered(execution)
    /\ stored # None => /\ Numbered(stored.execution)
                        /\ stored.iteration = Len(stored.execution)
    /\ pc \in {"down", "loop", "commit", "save", "after"} => iteration = Len(execution)
    /\ pc = "exec" => iteration = IF job.after = "batch" THEN Len(execution)
                                  ELSE Len(execution) + 1

(* The log of a live run extends the stored one.                            *)
Extends == stored # None /\ pc # "down" => Prefix(stored.execution, execution)

Durable ==
    /\ pc # "ended" => status = ""
    /\ pc = "exec" /\ job.after = "batch" => suspend = FALSE
    /\ Persistent /\ pc = "after" /\ ~saveErr /\ (job.after = "batch" => suspend) => StoredNow
    /\ OutcomeIsDurable

LEMMA PrefixReflexive == ASSUME NEW s \in Seq(Entry) PROVE Prefix(s, s)
BY DEF Prefix

LEMMA PrefixAppend ==
    ASSUME NEW s \in Seq(Entry), NEW t \in Seq(Entry), NEW e \in Entry, Prefix(s, t)
    PROVE  Prefix(s, Append(t, e))
BY DEF Prefix

LEMMA NumberedAppend ==
    ASSUME NEW s \in Seq(Entry), NEW e \in Entry, Numbered(s), e.iteration = Len(s) + 1
    PROVE  Numbered(Append(s, e)) /\ Len(Append(s, e)) = Len(s) + 1
<1>1. Len(Append(s, e)) = Len(s) + 1
  OBVIOUS
<1>2. ASSUME NEW i \in 1 .. Len(s) + 1 PROVE Append(s, e)[i].iteration = i
  <2>1. CASE i = Len(s) + 1
    BY <2>1
  <2>2. CASE i # Len(s) + 1
    BY <2>2 DEF Numbered
  <2>3. QED
    BY <2>1, <2>2
<1>3. QED
  BY <1>1, <1>2 DEF Numbered

(* The entry a dispatch appends.                                            *)
LEMMA RecordAppends ==
    ASSUME Values, NEW r \in Result, NEW from \in State, NEW n \in Nat, Record(r, from, n)
    PROVE  \E e \in Entry : /\ e.iteration = n /\ e.signal = job.trans
                            /\ execution' = Append(execution, e)
<1> DEFINE e == [iteration |-> n, from |-> from, to |-> state, signal |-> job.trans,
                 result |-> r.signal]
<1>1. e \in Entry
  BY DEF Entry, Values, Job, Result
<1>2. execution' = Append(execution, e)
  BY DEF Record
<1>3. QED
  BY <1>1, <1>2

-----------------------------------------------------------------------------
(* A step of a dispatch either appends one entry or leaves the log alone.   *)

Appends ==
    /\ stored' = stored /\ status' = status /\ pc' = "save"
    /\ \E e \in Entry : /\ execution' = Append(execution, e)
                        /\ e.iteration = iteration' /\ e.signal = job.trans
    /\ \/ /\ pc = "exec" /\ job.after # "batch" /\ iteration' = iteration /\ batch' = batch
       \/ /\ pc = "commit" /\ iteration' = iteration + 1 /\ batch # <<>>
          /\ batch' = Tail(batch)

LEMMA ExecuteAppends == TypeInv /\ Execute => Appends
<1> SUFFICES ASSUME TypeInv, Execute PROVE Appends
  OBVIOUS
<1>1. Values
  BY DEF TypeInv
<1>2. /\ stored' = stored /\ status' = status /\ pc = "exec" /\ job.after # "batch"
      /\ iteration' = iteration /\ batch' = batch
  BY Zenon DEF Execute, store, flight
<1>3. PICK r \in job.emits : Record(r, job.from, iteration)
  BY DEF Execute
<1>4. r \in Result /\ job.from \in State /\ iteration \in Nat
  BY <1>1 DEF Values, Job
<1>5. \E e \in Entry : /\ e.iteration = iteration /\ e.signal = job.trans
                       /\ execution' = Append(execution, e)
  BY <1>1, <1>3, <1>4, RecordAppends
<1>6. pc' = "save"
  BY <1>3 DEF Record
<1>7. QED
  BY <1>2, <1>5, <1>6 DEF Appends

LEMMA CommitAppends == TypeInv /\ CommitResult => Appends
<1> SUFFICES ASSUME TypeInv, CommitResult PROVE Appends
  OBVIOUS
<1> DEFINE from == IF iterator.next = 0 THEN iterator.key[1] ELSE BodyState(iterator)
<1>1. Values /\ Phases
  BY DEF TypeInv
<1>2. /\ stored' = stored /\ status' = status /\ pc = "commit"
      /\ iteration' = iteration + 1 /\ batch' = Tail(batch)
  BY Zenon DEF CommitResult, store
<1>3. batch # <<>> /\ iterator \in Frame
  BY <1>1, <1>2 DEF Phases, Values, FrameSlot
<1>4. batch[1] \in Result /\ iteration + 1 \in Nat
  BY <1>1, <1>3 DEF Values
<1>5. from \in State
  BY <1>3, FrameRow
<1>6. Record(batch[1], from, iteration + 1)
  BY DEF CommitResult
<1> HIDE DEF from
<1>7. \E e \in Entry : /\ e.iteration = iteration + 1 /\ e.signal = job.trans
                       /\ execution' = Append(execution, e)
  BY <1>1, <1>4, <1>5, <1>6, RecordAppends
<1>8. pc' = "save"
  BY <1>6 DEF Record
<1>9. QED
  BY <1>2, <1>3, <1>7, <1>8 DEF Appends

-----------------------------------------------------------------------------
(* Every step, as far as the log is concerned.                              *)

Same == /\ state' = state /\ iteration' = iteration /\ execution' = execution
        /\ stored' = stored /\ job' = job /\ suspend' = suspend /\ saveErr' = saveErr

Idle == Same /\ batch' = batch /\ status' = status
        /\ \/ pc' = pc
           \/ pc = "down" /\ pc' = "loop" /\ stored = None

Resumed ==
    /\ stored # None /\ stored' = stored
    /\ state' = stored.state /\ iteration' = stored.iteration
    /\ execution' = stored.execution /\ batch' = <<>>
    /\ \/ pc' = "loop" /\ status' = ""
       \/ pc' = "ended"

Crashed == /\ pc' = "down" /\ iteration' = 0 /\ execution' = <<>> /\ status' = ""
           /\ stored' = stored /\ batch' = <<>>

RanBatch ==
    /\ Same /\ status' = status /\ pc = "exec" /\ job.after = "batch"
    /\ pc' \in {"after", "commit"}
    /\ Len(batch') <= job.size

Saved ==
    /\ pc = "save" /\ pc' = IF batch # <<>> THEN "commit" ELSE "after"
    /\ SaveEffect(state) /\ status' = status
    /\ state' = state /\ iteration' = iteration /\ execution' = execution
    /\ job' = job /\ suspend' = suspend /\ batch' = batch

Finished ==
    /\ Same /\ batch' = batch /\ pc = "after"
    /\ \/ pc' = "loop" /\ status' = status
       \/ pc' = "ended" /\ status' \in {"cancelled", "failed"}
       \/ pc' = "ended" /\ ~saveErr /\ (job.after = "batch" => suspend)

LEMMA IdleSteps == StartRun \/ Cancel \/ UNCHANGED vars => Idle
<1> USE DEF store, counters, flight, outside, Idle, Same
<1>1. StartRun => Idle
  BY Zenon DEF StartRun
<1>2. Cancel => Idle
  BY Zenon DEF Cancel
<1>3. UNCHANGED vars => Idle
  BY Zenon DEF vars
<1>4. QED
  BY <1>1, <1>2, <1>3

LEMMA ResumeSteps == Resume => Resumed
<1> SUFFICES ASSUME Resume PROVE Resumed
  OBVIOUS
<1>1. /\ stored # None /\ stored' = stored /\ batch' = <<>>
      /\ state' = stored.state /\ iteration' = InitialIterations(stored)
      /\ execution' = InitialExecution(stored)
  BY Zenon DEF Resume
<1>2. (pc' = "loop" /\ status' = "") \/ pc' = "ended"
  BY Zenon DEF Resume
<1>3. QED
  BY <1>1, <1>2, Zenon DEF Resumed, InitialIterations, InitialExecution

LEMMA CrashSteps == Crash => Crashed
BY Zenon DEF Crash, Crashed

LEMMA BatchSteps == TypeInv /\ ExecuteBatch => RanBatch
<1> SUFFICES ASSUME TypeInv, ExecuteBatch PROVE RanBatch
  OBVIOUS
<1>1. Same /\ status' = status /\ pc = "exec" /\ job.after = "batch"
  BY Zenon DEF ExecuteBatch, Same, store, counters
<1>2. PICK k \in 0 .. job.size : \E results \in [1 .. k -> job.emits] :
          batch' = results /\ pc' = IF k = 0 THEN "after" ELSE "commit"
  BY DEF ExecuteBatch
<1>3. job.size \in Nat
  BY DEF TypeInv, Values, Job
<1>4. k <= job.size /\ Len(batch') = k
  BY <1>2, <1>3
<1>5. QED
  BY <1>1, <1>2, <1>4 DEF RanBatch

LEMMA SaveSteps == TypeInv /\ saveCheckpoint => Saved
<1> SUFFICES ASSUME TypeInv, saveCheckpoint PROVE Saved
  OBVIOUS
<1>1. Values
  BY DEF TypeInv
<1>2. Save(Position(state, signal, iteration, iterator, execution, tokens))
  BY DEF saveCheckpoint
<1>3. SaveEffect(state)
  BY <1>1, <1>2, SaveLeaves DEF Values
<1>4. /\ pc = "save" /\ pc' = IF batch # <<>> THEN "commit" ELSE "after"
      /\ status' = status /\ state' = state /\ iteration' = iteration
      /\ execution' = execution /\ job' = job /\ suspend' = suspend /\ batch' = batch
  BY Zenon DEF saveCheckpoint, counters, flight
<1>5. QED
  BY <1>3, <1>4 DEF Saved

LEMMA FinishSteps == stopForSuspend \/ stopAfterDispatch => Finished
<1> USE DEF store, counters, flight, outside
<1>1. ASSUME stopForSuspend PROVE Finished
  <2>1. Same /\ batch' = batch /\ pc = "after" /\ Suspends /\ pc' = "ended"
        /\ status' = IF saveErr THEN "failed" ELSE "suspended"
    BY <1>1, Zenon DEF stopForSuspend, Stop, Same
  <2>2. job.after = "batch" => suspend
    BY <2>1, Zenon DEF Suspends
  <2>3. QED
    BY <2>1, <2>2 DEF Finished
<1>2. ASSUME stopAfterDispatch PROVE Finished
  <2>1. Same /\ batch' = batch /\ pc = "after"
    BY <1>2, Zenon DEF stopAfterDispatch, Same
  <2>2. \/ pc' = "loop" /\ status' = status
        \/ Stop("failed") \/ Stop("cancelled")
        \/ job.after = "stop" /\ ~stopForCheckpointFailure /\ pc' = "ended"
    BY <1>2 DEF stopAfterDispatch, Stop
  <2>3. QED
    BY <2>1, <2>2 DEF Finished, Stop, stopForCheckpointFailure
<1>3. QED
  BY <1>1, <1>2

LEMMA Effects ==
    ASSUME TypeInv, [Next]_vars
    PROVE  \/ Idle \/ Resumed \/ Crashed \/ (Decided /\ batch' = batch)
           \/ Appends \/ RanBatch \/ Saved \/ Finished
<1>1. Decide => batch' = batch
  BY DEF Decide, stopForContext, stopForUnhandledTransition, nextTransition,
         dispatchIteratorItem, dispatchIteratorJoin, dispatchParallelIterator,
         StepParallel, StepTerminal, stopForNilCommand, StepCommand, flight
<1>2. QED
  BY <1>1, IdleSteps, ResumeSteps, CrashSteps, LoopDecides, ExecuteAppends,
     CommitAppends, BatchSteps, SaveSteps, FinishSteps DEF Next, Finish

-----------------------------------------------------------------------------
(* Step numbers.                                                            *)

LEMMA NumbersInit == Init => Numbers
<1> SUFFICES ASSUME Init PROVE Numbers
  OBVIOUS
<1>1. pc = "down" /\ iteration = 0 /\ execution = <<>> /\ stored = None
  BY Zenon DEF Init
<1>2. Numbered(<<>>) /\ Len(<<>>) = 0
  BY DEF Numbered
<1>3. QED
  BY <1>1, <1>2 DEF Numbers

LEMMA NumbersSaved ==
    ASSUME Numbers, Numbered(execution), iteration = Len(execution), NEW s, SaveEffect(s)
    PROVE  stored' # None => /\ Numbered(stored'.execution)
                             /\ stored'.iteration = Len(stored'.execution)
<1>1. CASE stored' = stored
  BY <1>1 DEF Numbers
<1>2. CASE Written(s)
  BY <1>2 DEF Written
<1>3. QED
  BY <1>1, <1>2, Zenon DEF SaveEffect

LEMMA NumbersStep ==
    ASSUME TypeInv, TypeInv', Numbers, [Next]_vars
    PROVE  Numbers'
<1>0. /\ execution \in Seq(Entry) /\ Len(execution) \in Nat
      /\ Numbered(execution)
  BY DEF TypeInv, Values, Numbers
<1>1. CASE Idle
  BY <1>1 DEF Idle, Same, Numbers, Numbered
<1>2. CASE Resumed
  <2>1. pc' \in {"loop", "ended"}
    BY <1>2 DEF Resumed
  <2>2. QED
    BY <1>2, <2>1 DEF Resumed, Numbers, Numbered
<1>3. CASE Crashed
  <2>1. Numbered(<<>>) /\ Len(<<>>) = 0
    BY DEF Numbered
  <2>2. QED
    BY <1>3, <2>1 DEF Crashed, Numbers, Numbered
<1>4. CASE Decided
  <2>1. iteration = Len(execution) /\ execution' = execution
        /\ pc' \in {"loop", "exec", "ended"}
    BY <1>4 DEF Decided, Numbers
  <2>2. stored' # None => /\ Numbered(stored'.execution)
                          /\ stored'.iteration = Len(stored'.execution)
    <3>1. CASE stored' = stored
      BY <3>1 DEF Numbers
    <3>2. CASE SaveEffect(state')
      BY <1>0, <2>1, <3>2, NumbersSaved
    <3>3. QED
      BY <1>4, <3>1, <3>2 DEF Decided
  <2>3. pc' = "loop" => iteration' = Len(execution')
    BY <1>4, <2>1 DEF Decided
  <2>4. pc' = "exec" => iteration' = IF job'.after = "batch" THEN Len(execution')
                                     ELSE Len(execution') + 1
    BY <1>4, <2>1 DEF Decided, Dispatched
  <2>5. QED
    BY <1>0, <2>1, <2>2, <2>3, <2>4 DEF Numbers, Numbered
<1>5. CASE Appends
  <2>1. PICK e \in Entry : /\ execution' = Append(execution, e)
                           /\ e.iteration = iteration' /\ e.signal = job.trans
    BY <1>5 DEF Appends
  <2>2. iteration' = Len(execution) + 1
    BY <1>5 DEF Appends, Numbers
  <2>3. Numbered(Append(execution, e)) /\ Len(Append(execution, e)) = Len(execution) + 1
    BY <1>0, <2>1, <2>2, NumberedAppend
  <2>4. stored' = stored /\ pc' = "save"
    BY <1>5 DEF Appends
  <2>5. QED
    BY <2>1, <2>2, <2>3, <2>4 DEF Numbers, Numbered
<1>6. CASE RanBatch
  BY <1>6 DEF RanBatch, Same, Numbers, Numbered
<1>7. CASE Saved
  <2>1. iteration = Len(execution) /\ execution' = execution /\ iteration' = iteration
        /\ pc' \in {"commit", "after"} /\ SaveEffect(state)
    BY <1>7 DEF Saved, Numbers
  <2>2. stored' # None => /\ Numbered(stored'.execution)
                          /\ stored'.iteration = Len(stored'.execution)
    BY <1>0, <2>1, NumbersSaved
  <2>3. QED
    BY <1>0, <2>1, <2>2 DEF Numbers, Numbered
<1>8. CASE Finished
  <2>1. pc' \in {"loop", "ended"} /\ pc = "after"
    BY <1>8 DEF Finished
  <2>2. QED
    BY <1>8, <2>1 DEF Finished, Same, Numbers, Numbered
<1>9. QED
  BY <1>1, <1>2, <1>3, <1>4, <1>5, <1>6, <1>7, <1>8, Effects

(* Steps are numbered by their place in the log, in memory and in the       *)
(* store: rollback may address a step by its iteration.                     *)
THEOREM StepNumbersHold == Spec => []StepNumbers
<1>1. Numbers => StepNumbers
  BY DEF Numbers, Numbered, StepNumbers
<1>2. TypeInv /\ TypeInv' /\ Numbers /\ [Next]_vars => Numbers'
  BY NumbersStep
<1>3. QED
  BY <1>1, <1>2, NumbersInit, TypeInvariant, PTL DEF Spec

-----------------------------------------------------------------------------
(* The stored log only grows.                                               *)

LEMMA ExtendsInit == Init => Extends
BY DEF Init, Extends

LEMMA SavedExtends ==
    ASSUME TypeInv, Extends, pc # "down", NEW s, SaveEffect(s), execution' = execution
    PROVE  stored' # None => Prefix(stored'.execution, execution')
<1>1. CASE stored' = stored
  BY <1>1 DEF Extends
<1>2. CASE Written(s)
  BY <1>2, PrefixReflexive DEF Written, TypeInv, Values
<1>3. QED
  BY <1>1, <1>2, Zenon DEF SaveEffect

LEMMA StoredType ==
    ASSUME TypeInv, stored # None PROVE stored.execution \in Seq(Entry)
BY DEF TypeInv, Values, StoreSlot, Checkpoint

LEMMA ExtendsStep ==
    ASSUME TypeInv, Extends, [Next]_vars
    PROVE  Extends'
<1>0. execution \in Seq(Entry)
  BY DEF TypeInv, Values
<1>1. CASE Idle
  BY <1>1 DEF Idle, Same, Extends
<1>2. CASE Resumed
  BY <1>2, StoredType, PrefixReflexive DEF Resumed, Extends
<1>3. CASE Crashed
  BY <1>3 DEF Crashed, Extends
<1>4. CASE Decided
  <2>1. pc = "loop" /\ execution' = execution
    BY <1>4 DEF Decided
  <2>2. CASE stored' = stored
    BY <2>1, <2>2 DEF Extends
  <2>3. CASE SaveEffect(state')
    BY <2>1, <2>3, SavedExtends DEF Extends
  <2>4. QED
    BY <1>4, <2>2, <2>3 DEF Decided
<1>5. CASE Appends
  <2>1. PICK e \in Entry : execution' = Append(execution, e)
    BY <1>5 DEF Appends
  <2>2. stored' = stored /\ pc # "down"
    BY <1>5 DEF Appends
  <2>3. QED
    BY <1>0, <2>1, <2>2, StoredType, PrefixAppend DEF Extends
<1>6. CASE RanBatch
  BY <1>6 DEF RanBatch, Same, Extends
<1>7. CASE Saved
  BY <1>7, SavedExtends DEF Saved, Extends
<1>8. CASE Finished
  BY <1>8 DEF Finished, Same, Extends
<1>9. QED
  BY <1>1, <1>2, <1>3, <1>4, <1>5, <1>6, <1>7, <1>8, Effects

LEMMA StoreGrows ==
    ASSUME TypeInv, Extends, [Next]_vars, stored # None
    PROVE  stored' # None /\ Prefix(stored.execution, stored'.execution)
<1>1. CASE stored' = stored
  BY <1>1, StoredType, PrefixReflexive
<1>2. ASSUME NEW s, Written(s), pc # "down"
      PROVE  stored' # None /\ Prefix(stored.execution, stored'.execution)
  BY <1>2 DEF Written, Extends
<1>3. \/ stored' = stored
      \/ pc # "down" /\ \E s : Written(s)
  BY Effects DEF Idle, Same, Resumed, Crashed, Decided, Appends, RanBatch, Saved, Finished,
                 SaveEffect
<1>4. QED
  BY <1>1, <1>2, <1>3

(* No crash, failed save, resume or later step drops or rewrites a step     *)
(* that was durable once.                                                   *)
THEOREM StoredLogOnlyGrows == Spec => StoredLogGrows
<1> DEFINE Grows == stored # None => stored' # None /\ Prefix(stored.execution, stored'.execution)
<1>1. TypeInv /\ Extends /\ [Next]_vars => Extends'
  BY ExtendsStep
<1>2. TypeInv /\ Extends /\ [Next]_vars => [Grows]_vars
  BY StoreGrows
<1>3. QED
  BY <1>1, <1>2, ExtendsInit, TypeInvariant, PTL DEF Spec, StoredLogGrows

-----------------------------------------------------------------------------
(* Reported outcomes are durable.                                           *)

Promised == {"succeeded", "budget_exceeded", "suspended"}

LEMMA DurableInit == Init => Durable
<1> SUFFICES ASSUME Init PROVE Durable
  OBVIOUS
<1>1. pc = "down" /\ status = ""
  BY Zenon DEF Init
<1>2. QED
  BY <1>1 DEF Durable, OutcomeIsDurable

LEMMA WrittenIsStored ==
    ASSUME NEW s, Written(s), state' = s, iteration' = iteration, execution' = execution
    PROVE  StoredNow'
BY DEF Written, StoredNow

LEMMA DurableStep ==
    ASSUME EndsAreFinal, Durable, TypeInv, TypeInv', [Next]_vars
    PROVE  Durable'
<1>0. saveErr \in BOOLEAN /\ saveErr' \in BOOLEAN /\ Persistent \in BOOLEAN
  BY LoopAssumption, Zenon DEF TypeInv, Flags
<1>1. CASE Idle
  <2>1. StoredNow' <=> StoredNow
    BY <1>1 DEF Idle, Same, StoredNow
  <2>2. pc' = pc \/ (pc = "down" /\ pc' = "loop")
    BY <1>1 DEF Idle
  <2>3. status' = status /\ job' = job /\ suspend' = suspend /\ saveErr' = saveErr
    BY <1>1, Zenon DEF Idle, Same
  <2>4. QED
    BY <2>1, <2>2, <2>3 DEF Durable, OutcomeIsDurable
<1>2. CASE Resumed
  <2>1. StoredNow'
    BY <1>2 DEF Resumed, StoredNow
  <2>2. QED
    BY <1>2, <2>1 DEF Resumed, Durable, OutcomeIsDurable
<1>3. CASE Crashed
  BY <1>3 DEF Crashed, Durable, OutcomeIsDurable
<1>4. CASE Decided
  <2>1. pc = "loop" /\ status = ""
    BY <1>4 DEF Decided, Durable
  <2>2. CASE pc' = "loop"
    BY <1>4, <2>1, <2>2 DEF Decided, Durable, OutcomeIsDurable
  <2>3. CASE pc' = "exec"
    <3>1. status' = "" /\ (job'.after = "batch" => suspend' = FALSE)
      BY <1>4, <2>1, <2>3 DEF Decided, Dispatched
    <3>2. QED
      BY <2>3, <3>1 DEF Durable, OutcomeIsDurable
  <2>4. CASE pc' = "ended"
    <3>1. CASE status' \in {"cancelled", "failed"}
      BY <2>4, <3>1 DEF Durable, OutcomeIsDurable
    <3>2. CASE /\ SaveEffect(state') /\ iteration' = iteration
               /\ status' = IF saveErr' THEN "failed" ELSE TerminalStatusForState(state')
      <4>1. CASE saveErr'
        <5>1. status' = "failed"
          BY <3>2, <4>1
        <5>2. QED
          BY <2>4, <5>1 DEF Durable, OutcomeIsDurable
      <4>2. CASE ~saveErr'
        <5>1. Persistent => Written(state')
          BY <3>2, <4>2, Zenon DEF SaveEffect
        <5>2. Persistent => StoredNow'
          BY <1>4, <3>2, <5>1, WrittenIsStored DEF Decided
        <5>3. QED
          BY <2>4, <5>2 DEF Durable, OutcomeIsDurable
      <4>3. QED
        BY <4>1, <4>2
    <3>3. QED
      BY <1>4, <2>4, <3>1, <3>2 DEF Decided
  <2>5. QED
    BY <1>4, <2>2, <2>3, <2>4 DEF Decided
<1>5. CASE Appends
  <2>1. pc' = "save" /\ status' = ""
    BY <1>5 DEF Appends, Durable
  <2>2. QED
    BY <2>1 DEF Durable, OutcomeIsDurable
<1>6. CASE RanBatch
  <2>1. /\ pc' \in {"after", "commit"} /\ status' = "" /\ suspend' = FALSE
        /\ job'.after = "batch"
    BY <1>6 DEF RanBatch, Same, Durable
  <2>2. QED
    BY <2>1 DEF Durable, OutcomeIsDurable
<1>7. CASE Saved
  <2>1. pc' \in {"commit", "after"} /\ status' = ""
    BY <1>7 DEF Saved, Durable
  <2>2. Persistent /\ ~saveErr' => Written(state)
    BY <1>7, Zenon DEF Saved, SaveEffect
  <2>3. Persistent /\ ~saveErr' => StoredNow'
    BY <1>7, <2>2, WrittenIsStored DEF Saved
  <2>4. QED
    BY <2>1, <2>3 DEF Durable, OutcomeIsDurable
<1>8. CASE Finished
  <2>1. StoredNow' <=> StoredNow
    BY <1>8 DEF Finished, Same, StoredNow
  <2>2. pc = "after" /\ status = ""
    BY <1>8 DEF Finished, Durable
  <2>3. CASE pc' = "loop" /\ status' = status
    BY <2>2, <2>3 DEF Durable, OutcomeIsDurable
  <2>4. CASE pc' = "ended" /\ status' \in {"cancelled", "failed"}
    BY <2>4 DEF Durable, OutcomeIsDurable
  <2>5. CASE pc' = "ended" /\ ~saveErr /\ (job.after = "batch" => suspend)
    <3>1. Persistent => StoredNow
      BY <2>2, <2>5 DEF Durable
    <3>2. QED
      BY <2>1, <2>5, <3>1 DEF Durable, OutcomeIsDurable
  <2>6. QED
    BY <1>8, <2>3, <2>4, <2>5 DEF Finished
<1>9. QED
  BY <1>1, <1>2, <1>3, <1>4, <1>5, <1>6, <1>7, <1>8, Effects

(* A run that reports success, an exceeded budget or a suspension to its    *)
(* caller has its final position and whole log in the store.                *)
THEOREM OutcomesAreDurable == ASSUME EndsAreFinal PROVE Spec => []OutcomeIsDurable
<1>1. Durable => OutcomeIsDurable
  BY DEF Durable
<1>2. TypeInv /\ TypeInv' /\ Durable /\ [Next]_vars => Durable'
  BY DurableStep
<1>3. QED
  BY <1>1, <1>2, DurableInit, TypeInvariant, PTL DEF Spec

-----------------------------------------------------------------------------
(* The iteration budget.                                                    *)

WithinBudget(log) ==
    \A i \in 1 .. Len(log) :
        log[i].iteration > MaxIterations => log[i].signal = BudgetExhausted

LEMMA BudgetAppend ==
    ASSUME NEW s \in Seq(Entry), NEW e \in Entry, WithinBudget(s),
           e.iteration > MaxIterations => e.signal = BudgetExhausted
    PROVE  WithinBudget(Append(s, e))
<1> SUFFICES ASSUME NEW i \in 1 .. Len(Append(s, e)),
                    Append(s, e)[i].iteration > MaxIterations
             PROVE  Append(s, e)[i].signal = BudgetExhausted
  BY DEF WithinBudget
<1>1. CASE i = Len(s) + 1
  BY <1>1
<1>2. CASE i # Len(s) + 1
  BY <1>2 DEF WithinBudget
<1>3. QED
  BY <1>1, <1>2

Budget ==
    MaxIterations > 0 =>
        /\ WithinBudget(execution)
        /\ stored # None => WithinBudget(stored.execution)
        /\ pc = "exec" => IF job.after = "batch" THEN iteration + job.size <= MaxIterations
                          ELSE iteration > MaxIterations => job.trans = BudgetExhausted
        /\ pc \in {"commit", "save"} /\ batch # <<>> => iteration + Len(batch) <= MaxIterations

LEMMA BudgetInit == Init => Budget
<1> SUFFICES ASSUME Init PROVE Budget
  OBVIOUS
<1>1. pc = "down" /\ execution = <<>> /\ stored = None
  BY Zenon DEF Init
<1>2. WithinBudget(<<>>)
  BY DEF WithinBudget
<1>3. QED
  BY <1>1, <1>2 DEF Budget

LEMMA BudgetSaved ==
    ASSUME MaxIterations > 0, Budget, NEW s, SaveEffect(s)
    PROVE  stored' # None => WithinBudget(stored'.execution)
<1>1. CASE stored' = stored
  BY <1>1 DEF Budget
<1>2. CASE Written(s)
  BY <1>2 DEF Written, Budget
<1>3. QED
  BY <1>1, <1>2, Zenon DEF SaveEffect

LEMMA BudgetStep ==
    ASSUME TypeInv, Budget, [Next]_vars
    PROVE  Budget'
<1> SUFFICES ASSUME MaxIterations > 0
             PROVE  Budget'
  BY DEF Budget
<1>0. /\ execution \in Seq(Entry) /\ iteration \in Nat /\ MaxIterations \in Nat
      /\ batch \in Seq(Result) /\ Len(batch) \in Nat /\ job.size \in Nat
      /\ WithinBudget(execution)
      /\ pc \in {"exec", "loop"} => batch = <<>>
  BY LoopAssumption DEF TypeInv, Values, Job, Phases, Budget
<1>1. CASE Idle
  <2>1. pc' = pc \/ pc' = "loop"
    BY <1>1 DEF Idle
  <2>2. /\ execution' = execution /\ stored' = stored /\ job' = job
        /\ iteration' = iteration /\ batch' = batch
    BY <1>1, Zenon DEF Idle, Same
  <2>3. QED
    BY <2>1, <2>2 DEF Budget, WithinBudget
<1>2. CASE Resumed
  BY <1>2 DEF Resumed, Budget, WithinBudget
<1>3. CASE Crashed
  <2>1. WithinBudget(<<>>)
    BY DEF WithinBudget
  <2>2. QED
    BY <1>3, <2>1 DEF Crashed, Budget, WithinBudget
<1>4. CASE Decided /\ batch' = batch
  <2>1. pc = "loop" /\ execution' = execution /\ pc' \in {"loop", "exec", "ended"}
    BY <1>4 DEF Decided
  <2>2. stored' # None => WithinBudget(stored'.execution)
    <3>1. CASE stored' = stored
      BY <3>1 DEF Budget
    <3>2. CASE SaveEffect(state')
      BY <3>2, BudgetSaved
    <3>3. QED
      BY <1>4, <3>1, <3>2 DEF Decided
  <2>3. ASSUME pc' = "exec"
        PROVE  IF job'.after = "batch" THEN iteration' + job'.size <= MaxIterations
               ELSE iteration' > MaxIterations => job'.trans = BudgetExhausted
    <3>1. Dispatched
      BY <1>4, <2>3 DEF Decided
    <3>2. CASE job'.after = "batch"
      BY <3>1, <3>2 DEF Dispatched
    <3>3. CASE job'.after # "batch"
      <4>1. iteration' = iteration + 1 /\ (coreBudgetExceeded => job'.trans = BudgetExhausted)
        BY <3>1, <3>3 DEF Dispatched
      <4>2. iteration' > MaxIterations => coreBudgetExceeded
        BY <1>0, <4>1 DEF coreBudgetExceeded
      <4>3. QED
        BY <3>3, <4>1, <4>2
    <3>4. QED
      BY <3>2, <3>3
  <2>4. QED
    BY <1>0, <2>1, <2>2, <2>3 DEF Budget, WithinBudget
<1>5. CASE Appends
  <2>1. PICK e \in Entry : /\ execution' = Append(execution, e)
                           /\ e.iteration = iteration' /\ e.signal = job.trans
    BY <1>5 DEF Appends
  <2>2. stored' = stored /\ pc' = "save"
    BY <1>5 DEF Appends
  <2>3. CASE /\ pc = "exec" /\ job.after # "batch" /\ iteration' = iteration
             /\ batch' = batch
    <3>1. iteration > MaxIterations => job.trans = BudgetExhausted
      BY <2>3 DEF Budget
    <3>2. WithinBudget(Append(execution, e))
      BY <1>0, <2>1, <2>3, <3>1, BudgetAppend
    <3>3. QED
      BY <1>0, <2>1, <2>2, <2>3, <3>2 DEF Budget, WithinBudget
  <2>4. CASE /\ pc = "commit" /\ iteration' = iteration + 1 /\ batch # <<>>
             /\ batch' = Tail(batch)
    <3>1. iteration + Len(batch) <= MaxIterations
      BY <2>4 DEF Budget
    <3>2. Len(batch) >= 1 /\ Len(batch') = Len(batch) - 1
      BY <1>0, <2>4
    <3>3. e.iteration <= MaxIterations
      BY <1>0, <2>1, <2>4, <3>1, <3>2
    <3>4. WithinBudget(Append(execution, e))
      <4>1. ~(e.iteration > MaxIterations)
        BY <1>0, <2>1, <2>4, <3>3
      <4>2. QED
        BY <1>0, <4>1, BudgetAppend
    <3>5. iteration' + Len(batch') <= MaxIterations
      BY <1>0, <2>4, <3>1, <3>2
    <3>6. QED
      BY <2>1, <2>2, <3>4, <3>5 DEF Budget, WithinBudget
  <2>5. QED
    BY <1>5, <2>3, <2>4 DEF Appends
<1>6. CASE RanBatch
  <2>1. /\ execution' = execution /\ stored' = stored /\ iteration' = iteration
        /\ pc' \in {"after", "commit"} /\ Len(batch') <= job.size
        /\ iteration + job.size <= MaxIterations
    BY <1>6 DEF RanBatch, Same, Budget
  <2>2. QED
    BY <1>0, <2>1 DEF Budget, WithinBudget
<1>7. CASE Saved
  <2>1. /\ execution' = execution /\ iteration' = iteration /\ batch' = batch
        /\ pc = "save" /\ pc' = IF batch # <<>> THEN "commit" ELSE "after"
        /\ SaveEffect(state)
    BY <1>7, Zenon DEF Saved
  <2>2. stored' # None => WithinBudget(stored'.execution)
    BY <2>1, BudgetSaved
  <2>3. QED
    BY <1>0, <2>1, <2>2 DEF Budget, WithinBudget
<1>8. CASE Finished
  <2>1. execution' = execution /\ stored' = stored /\ pc' \in {"loop", "ended"}
    BY <1>8 DEF Finished, Same
  <2>2. QED
    BY <1>0, <2>1 DEF Budget, WithinBudget
<1>9. QED
  BY <1>1, <1>2, <1>3, <1>4, <1>5, <1>6, <1>7, <1>8, Effects

(* Whatever the batches, resumes and failures, the only steps past          *)
(* MaxIterations are those the machine routes on BudgetExhausted.           *)
THEOREM IterationsAreBudgeted == Spec => []IterationBudget
<1>1. Budget => IterationBudget
  BY DEF Budget, WithinBudget, IterationBudget
<1>2. TypeInv /\ Budget /\ [Next]_vars => Budget'
  BY BudgetStep
<1>3. QED
  BY <1>1, <1>2, BudgetInit, TypeInvariant, PTL DEF Spec

-----------------------------------------------------------------------------
(***************************************************************************)
(* The for_each frames: a frame's outcomes are the last entries of the     *)
(* log, also across crashes, failed saves and batches; its progress is in  *)
(* the store at every dispatch boundary; and it ends as its outcomes say.  *)
(***************************************************************************)
-----------------------------------------------------------------------------
(* What a decision of the loop does to the frame. *)

(* The loop takes the row for the current state and signal.                 *)
Moves == /\ ~cancelled /\ ~InIterator /\ <<state, Current>> \in DOMAIN Table
         /\ Table[<<state, Current>>].each = None => state' = Table[<<state, Current>>].next

New(f) == /\ <<state, Current>> \in EachKeys
          /\ \E n \in Nat \ {0} : f = newIteratorSnapshot(<<state, Current>>, n)

(* The row taken runs a command.                                            *)
Runs == Table[<<state, Current>>].action \/ Table[<<state, Current>>].each # None

SavesFrame ==
    /\ Moves
    /\ iterator # None /\ EachOf(iterator).parallel => Runs
    /\ stored' # None /\ stored'.state = state' /\ stored'.iterator = iterator
    /\ stored'.execution = execution /\ stored'.tokens = tokens

EndsHere == /\ pc' = "ended" /\ iterator' = iterator /\ job' = job
            /\ state' = state \/ Moves
            /\ stored' = stored \/ SavesFrame

TakesItem ==
    /\ InIterator /\ OpenFrame /\ ~EachOf(iterator).parallel /\ iterator' = iterator
    /\ state' = state /\ pc' = "exec" /\ job'.after = "item" /\ job'.trans = iterator.key[2]

LosesAction ==
    /\ InIterator /\ ~known /\ iterator' = [iterator EXCEPT !.halted = TRUE]
    /\ pc' = "loop" /\ state' = state /\ signal' = signal /\ iteration' = iteration
    /\ job' = job

Joins ==
    /\ InIterator /\ ~OpenFrame /\ iterator' = None
    /\ pc' = "exec" /\ job'.after = "stop" /\ job'.trans = iteratorJoinSignal(iterator)

(* The three ends of dispatchParallelIterator on frame f.                   *)
Refuses(f) ==
    /\ ~known \/ EachOf(f).serialOnly
    /\ iterator' \in Frame /\ iterator'.key = f.key /\ iterator'.items = f.items
    /\ iterator'.outcomes = Append(f.outcomes, CommandError)
    /\ iterator'.next = f.next + 1 /\ iterator'.halted = TRUE
    /\ pc' = "loop" /\ job' = job

Starves(f) == BatchSize(f) = 0 /\ iterator' = f /\ pc' = "loop" /\ job' = job

Feeds(f) ==
    /\ known /\ ~EachOf(f).serialOnly
    /\ iterator' = f /\ pc' = "exec"
    /\ job'.after = "batch" /\ job'.trans = f.key[2]
    /\ job'.size \in Nat \ {0} /\ f.next + job'.size <= f.items

TakesBatch ==
    \E f \in Frame :
        /\ EachOf(f).parallel
        /\ Refuses(f) \/ Starves(f) \/ Feeds(f)
        /\ \/ f = iterator /\ InIterator /\ OpenFrame /\ state' = state
           \/ f = iterator /\ Moves
           \/ Moves /\ New(f) /\ state' = BodyState(f)

RunsCommand ==
    /\ Moves /\ Runs
    /\ iterator' = iterator \/ (New(iterator') /\ state' = BodyState(iterator'))
    /\ pc' = "exec" /\ job'.after = "stop" /\ job'.trans = Current

FrameDecided ==
    /\ pc = "loop" /\ pc' # "down"
    /\ execution' = execution /\ tokens' = tokens /\ batch' = batch
    /\ known' = known /\ cancelled' = cancelled
    /\ \/ EndsHere
       \/ /\ stored' = stored /\ saveErr' = saveErr
          /\ TakesItem \/ LosesAction \/ Joins \/ TakesBatch \/ RunsCommand

(* A new frame is one a row of the table just opened.                       *)
LEMMA NewFrame ==
    ASSUME NEW f, New(f)
    PROVE  /\ f \in Frame
           /\ f.key = <<state, Current>> /\ f.items # 0 /\ f.next = 0
           /\ f.outcomes = <<>> /\ f.halted = FALSE
<1>1. <<>> \in Seq(Signal)
  OBVIOUS
<1>2. QED
  BY <1>1 DEF New, newIteratorSnapshot, Frame

LEMMA ChoiceOpens ==
    ASSUME NEW c \in Choices(<<state, Current>>), <<state, Current>> \in DOMAIN Table
    PROVE  /\ c.frame = iterator \/ (New(c.frame) /\ c.next = BodyState(c.frame))
           /\ c.action => Runs
           /\ Table[<<state, Current>>].each = None =>
                  c.next = Table[<<state, Current>>].next
<1> DEFINE key == <<state, Current>>
<1> DEFINE row == Table[key]
<1> DEFINE plain == [next |-> row.next, action |-> row.action, emits |-> row.emits,
                     frame |-> iterator]
<1>1. CASE row.each = None
  <2>1. c = plain
    BY <1>1 DEF Choices
  <2>2. QED
    BY <1>1, <2>1 DEF Runs
<1>2. CASE row.each # None
  <2>1. key \in EachKeys
    BY <1>2 DEF EachKeys
  <2>2. \A n \in ItemCounts \ {0} : n \in Nat \ {0}
    BY LoopAssumption
  <2>3. \/ c = [plain EXCEPT !.action = TRUE, !.emits = Only(CommandError)]
        \/ c = [plain EXCEPT !.action = TRUE, !.emits = Only(row.each.empty),
                             !.next = row.each.joinNext]
        \/ \E n \in ItemCounts \ {0} : c = [plain EXCEPT !.frame = newIteratorSnapshot(key, n)]
    BY <1>2 DEF Choices
  <2>4. ASSUME NEW n \in ItemCounts \ {0},
               c = [plain EXCEPT !.frame = newIteratorSnapshot(key, n)]
        PROVE  New(c.frame) /\ c.next = BodyState(c.frame)
    <3>1. c.frame = newIteratorSnapshot(key, n) /\ c.next = row.next
      BY <2>4
    <3>2. c.frame.key = key
      BY <3>1 DEF newIteratorSnapshot
    <3>3. QED
      BY <2>1, <2>2, <3>1, <3>2 DEF New, BodyState
  <2>5. c.frame = iterator \/ (New(c.frame) /\ c.next = BodyState(c.frame))
    BY <2>3, <2>4
  <2>6. Runs
    BY <1>2 DEF Runs
  <2>7. QED
    BY <1>2, <2>5, <2>6
<1>3. QED
  BY <1>1, <1>2

(* A save by the loop takes the frame along.                                *)
LEMMA SaveKeepsFrame ==
    ASSUME Values, NEW s \in State, NEW sig \in Signal,
           Save(Position(s, sig, iteration, iterator, execution, tokens))
    PROVE  /\ \/ stored' = stored
              \/ /\ stored' # None /\ stored'.state = s /\ stored'.iterator = iterator
                 /\ stored'.execution = execution /\ stored'.tokens = tokens
           /\ Persistent /\ ~saveErr' =>
                 /\ stored' # None /\ stored'.state = s /\ stored'.iterator = iterator
                 /\ stored'.execution = execution /\ stored'.tokens = tokens
<1> DEFINE cp == Position(s, sig, iteration, iterator, execution, tokens)
<1>1. /\ cp # None /\ cp.state = s /\ cp.iterator = iterator
      /\ cp.execution = execution /\ cp.tokens = tokens
  <2>1. cp \in Checkpoint
    BY PositionType
  <2>2. QED
    BY <2>1, LoopAssumption DEF Position
<1> HIDE DEF cp
<1>2. Save(cp)
  BY DEF cp
<1>3. stored' \in {stored, cp} /\ (Persistent /\ ~saveErr' => stored' = cp)
  BY <1>2, Zenon DEF Save, store
<1>4. QED
  BY <1>1, <1>3

(* What becomes of a batch.                                                 *)
LEMMA BatchEnds ==
    ASSUME Values, Flags, NEW f \in Frame, f.next <= f.items, known \/ f.next < f.items,
           DispatchBatch(f)
    PROVE  Refuses(f) \/ Starves(f) \/ Feeds(f)
<1>1. BatchSize(f) \in Nat /\ BatchSize(f) <= f.items - f.next
  BY BatchSizeType DEF Values
<1>2. f.next \in Nat /\ f.items \in Nat
  BY DEF Frame
<1>3. CASE ~known \/ (EachOf(f).serialOnly /\ BatchSize(f) > 0)
  <2>1. /\ iterator' = [f EXCEPT !.outcomes = Append(@, CommandError), !.next = @ + 1,
                                 !.halted = TRUE]
        /\ pc' = "loop" /\ job' = job
    BY <1>3 DEF DispatchBatch
  <2>2. iterator' \in Frame
    BY DispatchBatchType
  <2>3. /\ iterator'.key = f.key /\ iterator'.items = f.items
        /\ iterator'.outcomes = Append(f.outcomes, CommandError)
        /\ iterator'.next = f.next + 1 /\ iterator'.halted = TRUE
    BY <2>1 DEF Frame
  <2>4. QED
    BY <1>3, <2>1, <2>2, <2>3 DEF Refuses
<1>4. CASE ~(~known \/ (EachOf(f).serialOnly /\ BatchSize(f) > 0))
  <2>1. iterator' = f /\ IF BatchSize(f) = 0 THEN pc' = "loop" /\ UNCHANGED job
                         ELSE /\ pc' = "exec"
                              /\ job' = [from |-> state, trans |-> f.key[2],
                                         emits |-> Table[f.key].emits,
                                         after |-> "batch", size |-> BatchSize(f)]
    BY <1>4, Zenon DEF DispatchBatch
  <2>2. CASE BatchSize(f) = 0
    BY <2>1, <2>2 DEF Starves
  <2>3. CASE BatchSize(f) # 0
    <3>1. known /\ ~EachOf(f).serialOnly
      BY <1>1, <1>4, <2>3
    <3>2. f.next + BatchSize(f) <= f.items
      BY <1>1, <1>2
    <3>3. pc' = "exec" /\ job'.after = "batch" /\ job'.trans = f.key[2]
          /\ job'.size = BatchSize(f)
      BY <2>1, <2>3
    <3>4. QED
      BY <1>1, <2>1, <2>3, <3>1, <3>2, <3>3 DEF Feeds
  <2>4. QED
    BY <2>2, <2>3
<1>5. QED
  BY <1>3, <1>4

LEMMA LoopDecidesFrame ==
    ASSUME TypeInv, Decide
    PROVE  FrameDecided
<1> USE DEF store, counters, flight, outside
<1>0. Values /\ Phases /\ TypeOK
  BY TypeParts DEF TypeInv
<1>a. ASSUME InIterator
      PROVE  pc = "loop" /\ iterator \in Frame /\ iterator.next <= iterator.items
  BY <1>a, <1>0 DEF InIterator, Phases, InRange, Values, FrameSlot
<1>1. CASE stopForContext
  <2>1. /\ pc = "loop" /\ pc' = "ended" /\ iterator' = iterator /\ stored' = stored
        /\ execution' = execution /\ tokens' = tokens /\ batch' = batch
        /\ known' = known /\ cancelled' = cancelled /\ job' = job /\ state' = state
    BY <1>1, Zenon DEF stopForContext, Stop
  <2>2. QED
    BY <2>1 DEF FrameDecided, EndsHere
<1>2. CASE stopForUnhandledTransition
  <2>1. /\ pc = "loop" /\ pc' = "ended" /\ iterator' = iterator /\ stored' = stored
        /\ execution' = execution /\ tokens' = tokens /\ batch' = batch
        /\ known' = known /\ cancelled' = cancelled /\ job' = job /\ state' = state
    BY <1>2, Zenon DEF stopForUnhandledTransition, Stop, AtTransition
  <2>2. QED
    BY <2>1 DEF FrameDecided, EndsHere
<1>3. CASE dispatchIteratorItem
  <2>1. /\ InIterator /\ OpenFrame /\ ~EachOf(iterator).parallel
        /\ execution' = execution /\ tokens' = tokens /\ batch' = batch
        /\ known' = known /\ cancelled' = cancelled
        /\ stored' = stored /\ saveErr' = saveErr /\ signal' = signal /\ state' = state
    BY <1>3, Zenon DEF dispatchIteratorItem
  <2>2. CASE known
    <3>1. /\ Dispatch(BodyState(iterator), iterator.key[2], Table[iterator.key].emits, "item")
          /\ iterator' = iterator
      BY <1>3, <2>2, Zenon DEF dispatchIteratorItem
    <3>2. TakesItem
      BY <2>1, <3>1 DEF Dispatch, TakesItem
    <3>3. QED
      BY <1>a, <2>1, <3>2 DEF FrameDecided, TakesItem
  <2>3. CASE ~known
    <3>1. /\ iterator' = [iterator EXCEPT !.halted = TRUE]
          /\ pc' = pc /\ iteration' = iteration /\ job' = job
      BY <1>3, <2>3, Zenon DEF dispatchIteratorItem
    <3>2. LosesAction
      BY <1>a, <2>1, <2>3, <3>1 DEF LosesAction
    <3>3. QED
      BY <1>a, <2>1, <3>2 DEF FrameDecided, LosesAction
  <2>4. QED
    BY <2>2, <2>3
<1>4. CASE dispatchIteratorJoin
  <2>1. /\ InIterator /\ ~OpenFrame /\ iterator' = None
        /\ execution' = execution /\ tokens' = tokens /\ batch' = batch
        /\ known' = known /\ cancelled' = cancelled
        /\ stored' = stored /\ saveErr' = saveErr
        /\ Dispatch(state, iteratorJoinSignal(iterator),
                    Only(iteratorJoinSignal(iterator)), "stop")
    BY <1>4, Zenon DEF dispatchIteratorJoin
  <2>2. Joins
    BY <2>1 DEF Dispatch, Joins
  <2>3. QED
    BY <1>a, <2>1, <2>2 DEF FrameDecided, Joins
<1>b. TakesBatch => pc' \in {"loop", "exec"}
  BY DEF TakesBatch, Refuses, Starves, Feeds
<1>5. CASE dispatchParallelIterator
  <2>1. /\ InIterator /\ OpenFrame /\ EachOf(iterator).parallel /\ DispatchBatch(iterator)
        /\ execution' = execution /\ tokens' = tokens /\ batch' = batch
        /\ known' = known /\ cancelled' = cancelled
        /\ stored' = stored /\ saveErr' = saveErr /\ state' = state
    BY <1>5, Zenon DEF dispatchParallelIterator
  <2>2. Refuses(iterator) \/ Starves(iterator) \/ Feeds(iterator)
    BY <1>0, <1>a, <2>1, TypeParts, BatchEnds DEF OpenFrame
  <2>3. TakesBatch
    BY <1>a, <2>1, <2>2 DEF TakesBatch
  <2>4. QED
    BY <1>a, <1>b, <2>1, <2>3 DEF FrameDecided
<1>6. CASE nextTransition
  <2>1. PICK c \in Choices(<<state, Current>>) :
            StepParallel(c) \/ StepTerminal(c) \/ stopForNilCommand(c) \/ StepCommand(c)
    BY <1>6 DEF nextTransition
  <2>2. pc = "loop" /\ ~cancelled /\ ~InIterator /\ <<state, Current>> \in DOMAIN Table /\ Current \in Signal
    BY <1>0, <1>6, CurrentType DEF nextTransition, AtTransition
  <2>3. c.next \in State /\ c.frame \in FrameSlot /\ InRange(c.frame)
    BY <1>0, <2>2, ChoiceType, ChoiceInRange DEF Choice
  <2>4. /\ c.frame = iterator \/ (New(c.frame) /\ c.next = BodyState(c.frame))
        /\ c.action => Runs
        /\ Table[<<state, Current>>].each = None => c.next = Table[<<state, Current>>].next
    BY <2>2, ChoiceOpens
  <2>a. state' = c.next
    BY <2>1, Zenon DEF StepParallel, StepTerminal, stopForNilCommand, StepCommand
  <2>b. Moves
    BY <2>2, <2>4, <2>a DEF Moves
  <2>5. CASE StepParallel(c)
    <3>1. /\ c.frame # None /\ EachOf(c.frame).parallel /\ DispatchBatch(c.frame)
          /\ known \/ c.frame.next < c.frame.items
          /\ execution' = execution /\ tokens' = tokens /\ batch' = batch
          /\ known' = known /\ cancelled' = cancelled
          /\ stored' = stored /\ saveErr' = saveErr
      BY <2>5, Zenon DEF StepParallel, Parallel
    <3>2. c.frame \in Frame /\ c.frame.next <= c.frame.items
      BY <2>3, <3>1 DEF InRange, FrameSlot
    <3>3. Refuses(c.frame) \/ Starves(c.frame) \/ Feeds(c.frame)
      BY <1>0, <3>1, <3>2, TypeParts, BatchEnds
    <3>4. TakesBatch
      BY <2>4, <2>a, <2>b, <3>1, <3>2, <3>3 DEF TakesBatch
    <3>5. QED
      BY <1>b, <2>2, <3>1, <3>4 DEF FrameDecided
  <2>6. CASE StepTerminal(c)
    <3>1. /\ pc' = "ended" /\ execution' = execution /\ iterator' = iterator
          /\ tokens' = tokens /\ batch' = batch /\ known' = known /\ cancelled' = cancelled
          /\ job' = job
      BY <2>6, Zenon DEF StepTerminal, Stop
    <3>3. \/ Save(Position(c.next, Current, iteration, iterator, execution, tokens))
          \/ stored' = stored
      BY <2>6, Zenon DEF StepTerminal, store
    <3>4. iterator # None /\ EachOf(iterator).parallel => Runs
      <4>1. ~Parallel(c) /\ ~c.action
        BY <2>6, Zenon DEF StepTerminal
      <4>2. CASE c.frame = iterator
        BY <4>1, <4>2 DEF Parallel
      <4>3. CASE New(c.frame)
        BY <2>2, <4>3 DEF New, EachKeys, Runs
      <4>4. QED
        BY <2>4, <4>2, <4>3
    <3>5. stored' = stored \/ SavesFrame
      BY <1>0, <2>2, <2>3, <2>a, <2>b, <3>3, <3>4, SaveKeepsFrame DEF SavesFrame
    <3>6. QED
      BY <2>2, <2>b, <3>1, <3>5 DEF FrameDecided, EndsHere
  <2>7. CASE stopForNilCommand(c)
    <3>1. /\ pc' = "ended" /\ execution' = execution /\ stored' = stored
          /\ iterator' = iterator /\ tokens' = tokens /\ batch' = batch
          /\ known' = known /\ cancelled' = cancelled /\ job' = job
      BY <2>7, Zenon DEF stopForNilCommand, Stop
    <3>2. QED
      BY <2>2, <2>b, <3>1 DEF FrameDecided, EndsHere
  <2>8. CASE StepCommand(c)
    <3>1. /\ Dispatch(state, Current, c.emits, "stop") /\ iterator' = c.frame /\ c.action
          /\ execution' = execution /\ tokens' = tokens /\ batch' = batch
          /\ known' = known /\ cancelled' = cancelled
          /\ stored' = stored /\ saveErr' = saveErr
      BY <2>8, Zenon DEF StepCommand
    <3>2. RunsCommand
      <4>1. pc' = "exec" /\ job'.after = "stop" /\ job'.trans = Current
        BY <3>1 DEF Dispatch
      <4>2. QED
        BY <2>4, <2>a, <2>b, <3>1, <4>1 DEF RunsCommand
    <3>3. QED
      BY <2>2, <3>1, <3>2 DEF FrameDecided, RunsCommand
  <2>9. QED
    BY <2>1, <2>5, <2>6, <2>7, <2>8
<1>7. QED
  BY <1>1, <1>2, <1>3, <1>4, <1>5, <1>6 DEF Decide

-----------------------------------------------------------------------------
(* Every other step, as far as the frame is concerned.                      *)

FrameKept ==
    /\ state' = state /\ iterator' = iterator /\ execution' = execution
    /\ tokens' = tokens /\ job' = job /\ known' = known

FrameIdle ==
    /\ FrameKept /\ stored' = stored /\ saveErr' = saveErr /\ batch' = batch
    /\ signal' = signal /\ iteration' = iteration
    /\ cancelled => cancelled'
    /\ pc' = pc \/ (pc = "down" /\ pc' = "loop")

FrameResumed ==
    /\ stored # None /\ stored' = stored /\ saveErr' = FALSE
    /\ state' = stored.state /\ iterator' = stored.iterator /\ execution' = stored.execution
    /\ tokens' = stored.tokens /\ batch' = <<>> /\ job' = NoJob
    /\ known' \in Registries /\ pc' \in {"loop", "ended"}

FrameLost ==
    /\ pc' = "down" /\ iterator' = None /\ execution' = <<>> /\ batch' = <<>>
    /\ stored' = stored /\ job' = NoJob /\ known' = TRUE

FrameRecords ==
    /\ stored' = stored /\ job' = job /\ known' = known /\ state' = state /\ pc' = "save"
    /\ \E e \in Entry : /\ execution' = Append(execution, e) /\ e.signal = job.trans
                        /\ iterator' = recordIteratorOutcome(iterator, e.result)
    /\ \/ pc = "exec" /\ batch' = batch
       \/ pc = "commit" /\ batch # <<>> /\ batch' = Tail(batch)

FrameRan ==
    /\ FrameKept /\ stored' = stored /\ pc = "exec" /\ job.after = "batch"
    /\ Len(batch') <= job.size
    /\ \/ pc' = "commit"
       \/ pc' = "after" /\ batch' = <<>> /\ (job.size # 0 => cancelled')

FrameSaved ==
    /\ FrameKept /\ pc = "save" /\ batch' = batch
    /\ pc' = IF batch # <<>> THEN "commit" ELSE "after"
    /\ \/ stored' = stored
       \/ /\ stored' # None /\ stored'.state = state /\ stored'.iterator = iterator
          /\ stored'.execution = execution /\ stored'.tokens = tokens
    /\ Persistent /\ ~saveErr' =>
          /\ stored' # None /\ stored'.state = state /\ stored'.iterator = iterator
          /\ stored'.execution = execution /\ stored'.tokens = tokens

FrameFinished ==
    /\ FrameKept /\ stored' = stored /\ saveErr' = saveErr /\ batch' = batch
    /\ pc = "after" /\ pc' \in {"loop", "ended"}
    /\ pc' = "loop" => job.after = "item" \/ ~cancelled

LEMMA FrameIdles == StartRun \/ Cancel \/ UNCHANGED vars => FrameIdle
<1> USE DEF store, counters, flight, outside, FrameKept
<1>1. ASSUME StartRun PROVE FrameIdle
  <2>1. /\ FrameKept /\ stored' = stored /\ saveErr' = saveErr /\ batch' = batch
        /\ signal' = signal /\ iteration' = iteration
        /\ cancelled' = cancelled /\ pc = "down" /\ pc' = "loop"
    BY <1>1, Zenon DEF StartRun
  <2>2. QED
    BY <2>1 DEF FrameIdle
<1>2. ASSUME Cancel PROVE FrameIdle
  <2>1. /\ FrameKept /\ stored' = stored /\ saveErr' = saveErr /\ batch' = batch
        /\ signal' = signal /\ iteration' = iteration
        /\ cancelled' = TRUE /\ pc' = pc
    BY <1>2, Zenon DEF Cancel
  <2>2. QED
    BY <2>1 DEF FrameIdle
<1>3. ASSUME UNCHANGED vars PROVE FrameIdle
  <2>1. /\ FrameKept /\ stored' = stored /\ saveErr' = saveErr /\ batch' = batch
        /\ signal' = signal /\ iteration' = iteration
        /\ cancelled' = cancelled /\ pc' = pc
    BY <1>3, Zenon DEF vars
  <2>2. QED
    BY <2>1 DEF FrameIdle
<1>4. QED
  BY <1>1, <1>2, <1>3

LEMMA FrameResumes == Resume => FrameResumed
<1> SUFFICES ASSUME Resume PROVE FrameResumed
  OBVIOUS
<1>1. /\ stored # None /\ stored' = stored /\ saveErr' = FALSE
      /\ state' = stored.state /\ iterator' = stored.iterator /\ execution' = InitialExecution(stored)
      /\ tokens' = stored.tokens /\ batch' = <<>> /\ job' = NoJob
      /\ known' \in Registries
  BY Zenon DEF Resume
<1>2. pc' = "loop" \/ pc' = "ended"
  BY Zenon DEF Resume
<1>3. QED
  BY <1>1, <1>2 DEF FrameResumed, InitialExecution

LEMMA FrameIsLost == Crash => FrameLost
BY Zenon DEF Crash, FrameLost

(* The entry and the outcome of a recorded result.                          *)
LEMMA RecordsOutcome ==
    ASSUME Values, NEW r \in Result, NEW from \in State, NEW n \in Nat, Record(r, from, n)
    PROVE  /\ pc' = "save"
           /\ \E e \in Entry : /\ execution' = Append(execution, e) /\ e.signal = job.trans
                               /\ iterator' = recordIteratorOutcome(iterator, e.result)
<1> DEFINE e == [iteration |-> n, from |-> from, to |-> state, signal |-> job.trans,
                 result |-> r.signal]
<1>1. e \in Entry
  BY DEF Entry, Values, Job, Result
<1>2. execution' = Append(execution, e) /\ pc' = "save"
  BY DEF Record
<1>3. e.signal = job.trans /\ e.result = r.signal
  OBVIOUS
<1>4. iterator' = recordIteratorOutcome(iterator, r.signal)
  BY DEF Record
<1> HIDE DEF e
<1>5. QED
  BY <1>1, <1>2, <1>3, <1>4

LEMMA FrameIsRecorded == TypeInv /\ (Execute \/ CommitResult) => FrameRecords
<1> SUFFICES ASSUME TypeInv, Execute \/ CommitResult PROVE FrameRecords
  OBVIOUS
<1>1. Values /\ Phases
  BY DEF TypeInv
<1>2. CASE Execute
  <2>1. stored' = stored /\ pc = "exec" /\ batch' = batch /\ job' = job /\ known' = known
        /\ state' = state
    BY <1>2, Zenon DEF Execute, store, flight, outside
  <2>2. PICK r \in job.emits : Record(r, job.from, iteration)
    BY <1>2 DEF Execute
  <2>3. r \in Result /\ job.from \in State /\ iteration \in Nat
    BY <1>1 DEF Values, Job
  <2>4. QED
    BY <1>1, <2>1, <2>2, <2>3, RecordsOutcome DEF FrameRecords
<1>3. CASE CommitResult
  <2> DEFINE from == IF iterator.next = 0 THEN iterator.key[1] ELSE BodyState(iterator)
  <2>1. /\ stored' = stored /\ pc = "commit" /\ batch' = Tail(batch) /\ job' = job
        /\ known' = known /\ state' = state
    BY <1>3, Zenon DEF CommitResult, store, outside
  <2>2. batch # <<>> /\ iterator \in Frame
    BY <1>1, <2>1 DEF Phases, Values, FrameSlot
  <2>3. batch[1] \in Result /\ iteration + 1 \in Nat
    BY <1>1, <2>2 DEF Values
  <2>4. from \in State
    BY <2>2, FrameRow
  <2>5. Record(batch[1], from, iteration + 1)
    BY <1>3 DEF CommitResult
  <2> HIDE DEF from
  <2>6. QED
    BY <1>1, <2>1, <2>2, <2>3, <2>4, <2>5, RecordsOutcome DEF FrameRecords
<1>4. QED
  BY <1>2, <1>3

LEMMA FrameRuns == TypeInv /\ ExecuteBatch => FrameRan
<1> SUFFICES ASSUME TypeInv, ExecuteBatch PROVE FrameRan
  OBVIOUS
<1>1. FrameKept /\ stored' = stored /\ pc = "exec" /\ job.after = "batch"
      /\ cancelled' = cancelled
  BY Zenon DEF ExecuteBatch, FrameKept, store, counters, outside
<1>2. PICK k \in 0 .. job.size : \E results \in [1 .. k -> job.emits] :
          /\ k < job.size => \/ cancelled
                             \/ \E i \in 1 .. k :
                                    Halts(EachOf(iterator), results[i].signal)
          /\ batch' = results /\ pc' = IF k = 0 THEN "after" ELSE "commit"
  BY DEF ExecuteBatch
<1>3. job.size \in Nat
  BY DEF TypeInv, Values, Job
<1>4. k <= job.size /\ Len(batch') = k
  BY <1>2, <1>3
<1>5. CASE k = 0
  <2>1. PICK results \in [1 .. 0 -> job.emits] :
            /\ 0 < job.size => \/ cancelled
                               \/ \E i \in 1 .. 0 :
                                      Halts(EachOf(iterator), results[i].signal)
            /\ batch' = results /\ pc' = "after"
    BY <1>2, <1>5
  <2>2. job.size # 0 => cancelled
    BY <1>3, <2>1
  <2>3. batch' = <<>>
    BY <2>1
  <2>4. QED
    BY <1>1, <1>4, <2>1, <2>2, <2>3 DEF FrameRan
<1>6. CASE k # 0
  BY <1>1, <1>2, <1>4, <1>6 DEF FrameRan
<1>7. QED
  BY <1>5, <1>6

LEMMA FrameIsSaved == TypeInv /\ saveCheckpoint => FrameSaved
<1> SUFFICES ASSUME TypeInv, saveCheckpoint PROVE FrameSaved
  OBVIOUS
<1>1. Values /\ state \in State /\ signal \in Signal
  BY DEF TypeInv, Values
<1>2. Save(Position(state, signal, iteration, iterator, execution, tokens))
  BY DEF saveCheckpoint
<1>3. /\ pc = "save" /\ pc' = IF batch # <<>> THEN "commit" ELSE "after"
      /\ FrameKept /\ batch' = batch
  BY Zenon DEF saveCheckpoint, FrameKept, counters, flight, outside
<1>4. QED
  BY <1>1, <1>2, <1>3, SaveKeepsFrame DEF FrameSaved

LEMMA FrameFinishes == stopForSuspend \/ stopAfterDispatch => FrameFinished
<1> USE DEF store, counters, flight, outside
<1>1. ASSUME stopForSuspend PROVE FrameFinished
  <2>1. FrameKept /\ stored' = stored /\ saveErr' = saveErr /\ batch' = batch
        /\ pc = "after" /\ pc' = "ended"
    BY <1>1, Zenon DEF stopForSuspend, Stop, FrameKept
  <2>2. QED
    BY <2>1 DEF FrameFinished
<1>2. ASSUME stopAfterDispatch PROVE FrameFinished
  <2>1. FrameKept /\ stored' = stored /\ saveErr' = saveErr /\ batch' = batch /\ pc = "after"
    BY <1>2, Zenon DEF stopAfterDispatch, FrameKept
  <2>2. \/ pc' = "loop" /\ (job.after = "item" \/ ~cancelled)
        \/ pc' = "ended"
    BY <1>2 DEF stopAfterDispatch, Stop
  <2>3. QED
    BY <2>1, <2>2 DEF FrameFinished
<1>3. QED
  BY <1>1, <1>2

LEMMA FrameEffects ==
    ASSUME TypeInv, [Next]_vars
    PROVE  \/ FrameIdle \/ FrameResumed \/ FrameLost \/ FrameDecided
           \/ FrameRecords \/ FrameRan \/ FrameSaved \/ FrameFinished
BY FrameIdles, FrameResumes, FrameIsLost, LoopDecidesFrame, FrameIsRecorded,
   FrameRuns, FrameIsSaved, FrameFinishes DEF Next, Finish

-----------------------------------------------------------------------------
(* The frame is recorded: its outcomes are the results of the last entries  *)
(* of the log, under the frame's signal.  A frame that refused its batch    *)
(* reports an error no entry has; it can only join, and is never stored.    *)

Recorded(f, log) ==
    /\ Len(f.outcomes) <= Len(log)
    /\ \A i \in 1 .. Len(f.outcomes) :
           /\ log[Len(log) - Len(f.outcomes) + i].result = f.outcomes[i]
           /\ log[Len(log) - Len(f.outcomes) + i].signal = f.key[2]

Rejected ==
    /\ pc \in {"loop", "ended"} /\ iterator.halted
    /\ EachOf(iterator).serialOnly \/ ~known
    /\ pc = "loop" => Current # BudgetExhausted \/ EachOf(iterator).parallel

Frames ==
    /\ iterator # None => Recorded(iterator, execution) \/ Rejected
    /\ stored # None /\ stored.iterator # None => Recorded(stored.iterator, stored.execution)
    /\ pc = "exec" /\ iterator # None =>
           /\ job.trans = iterator.key[2] /\ iterator.next < iterator.items
           /\ job.after = "batch" => job.size # 0 /\ iterator.next + job.size <= iterator.items
    /\ pc \in {"commit", "save"} /\ batch # <<>> =>
           /\ iterator # None /\ job.trans = iterator.key[2]
           /\ iterator.next + Len(batch) <= iterator.items

LEMMA RecordedNew ==
    ASSUME NEW f, f.outcomes = <<>>, NEW log \in Seq(Entry)
    PROVE  Recorded(f, log)
BY DEF Recorded

(* A result recorded in the log and in the frame keeps them together.       *)
LEMMA RecordedAppend ==
    ASSUME NEW f \in Frame, NEW g \in Frame, NEW log \in Seq(Entry), NEW e \in Entry,
           Recorded(f, log), e.signal = f.key[2],
           g.key = f.key, g.outcomes = Append(f.outcomes, e.result)
    PROVE  Recorded(g, Append(log, e))
<1> DEFINE n == Len(f.outcomes)
<1> DEFINE m == Len(log)
<1> DEFINE h == Append(log, e)
<1>1. f.outcomes \in Seq(Signal) /\ e.result \in Signal /\ n \in Nat /\ m \in Nat
  BY DEF Frame, Entry
<1>2. /\ Len(g.outcomes) = n + 1 /\ g.outcomes[n + 1] = e.result
      /\ \A i \in 1 .. n : g.outcomes[i] = f.outcomes[i]
  BY <1>1
<1>3. Len(h) = m + 1 /\ h[m + 1] = e /\ \A i \in 1 .. m : h[i] = log[i]
  BY <1>1
<1>4. n <= m /\ \A i \in 1 .. n : /\ log[m - n + i].result = f.outcomes[i]
                                  /\ log[m - n + i].signal = f.key[2]
  BY DEF Recorded
<1> HIDE DEF n, m, h
<1>5. ASSUME NEW i \in 1 .. n + 1
      PROVE  /\ h[m + 1 - (n + 1) + i].result = g.outcomes[i]
             /\ h[m + 1 - (n + 1) + i].signal = g.key[2]
  <2>1. CASE i = n + 1
    <3>1. m + 1 - (n + 1) + i = m + 1
      BY <1>1, <2>1
    <3>2. QED
      BY <1>2, <1>3, <2>1, <3>1
  <2>2. CASE i # n + 1
    <3>1. i \in 1 .. n
      BY <1>1, <2>2
    <3>2. m + 1 - (n + 1) + i = m - n + i /\ m - n + i \in 1 .. m
      BY <1>1, <1>4, <3>1
    <3>3. QED
      BY <1>2, <1>3, <1>4, <3>1, <3>2
  <2>3. QED
    BY <2>1, <2>2
<1>6. n + 1 <= m + 1
  BY <1>1, <1>4
<1>7. Recorded(g, h)
  <2>1. Len(g.outcomes) <= Len(h)
    BY <1>2, <1>3, <1>6
  <2>2. ASSUME NEW i \in 1 .. Len(g.outcomes)
        PROVE  /\ h[Len(h) - Len(g.outcomes) + i].result = g.outcomes[i]
               /\ h[Len(h) - Len(g.outcomes) + i].signal = g.key[2]
    <3>1. i \in 1 .. n + 1
      BY <1>2
    <3>2. Len(h) - Len(g.outcomes) = m + 1 - (n + 1)
      BY <1>1, <1>2, <1>3
    <3>3. QED
      BY <1>5, <3>1, <3>2
  <2>3. QED
    BY <2>1, <2>2, Zenon DEF Recorded
<1>8. QED
  BY <1>7 DEF h

(* What one outcome does to the frame.                                      *)
LEMMA OutcomeOf ==
    ASSUME NEW f \in Frame, NEW sig \in Signal, f.next < f.items
    PROVE  LET g == recordIteratorOutcome(f, sig)
           IN /\ g \in Frame /\ g.key = f.key /\ g.items = f.items
              /\ g.outcomes = Append(f.outcomes, sig) /\ g.next = f.next + 1
              /\ g.halted <=> f.halted \/ Halts(EachOf(f), sig)
<1> DEFINE g == recordIteratorOutcome(f, sig)
<1>1. f.next \in Nat /\ f.items \in Nat /\ f # None
  BY LoopAssumption DEF Frame
<1>2. ~(f = None \/ f.next >= f.items)
  BY <1>1
<1>3. g = [f EXCEPT !.outcomes = Append(@, sig),
                    !.halted = @ \/ Halts(EachOf(f), sig), !.next = @ + 1]
  BY <1>2, Zenon DEF recordIteratorOutcome
<1>4. /\ g.key = f.key /\ g.items = f.items
      /\ g.outcomes = Append(f.outcomes, sig) /\ g.next = f.next + 1
      /\ g.halted <=> f.halted \/ Halts(EachOf(f), sig)
  BY <1>3 DEF Frame
<1>5. g \in FrameSlot
  BY OutcomeType DEF FrameSlot
<1>6. g # None
  <2>1. EachOf(f) \in EachSpec
    BY FrameRow
  <2>2. f.halted \in BOOLEAN /\ Append(f.outcomes, sig) \in Seq(Signal) /\ f.next + 1 \in Nat
    BY <1>1 DEF Frame
  <2>3. (f.halted \/ Halts(EachOf(f), sig)) \in BOOLEAN
    OBVIOUS
  <2>4. g \in Frame
    BY <1>3, <2>2, <2>3 DEF Frame
  <2>5. QED
    BY <2>4, LoopAssumption
<1>7. QED
  BY <1>4, <1>5, <1>6 DEF FrameSlot

-----------------------------------------------------------------------------
(* Where a frame is open: in the state its items run in, or, with the       *)
(* budget spent, in the terminal state that ended it.                       *)

Where ==
    /\ iterator # None => state \in Bodies \cup Terminal
    /\ stored # None /\ stored.iterator # None => stored.state \in Bodies \cup Terminal

LEMMA NewRuns == ASSUME NEW f, New(f) PROVE Runs
BY DEF New, EachKeys, Runs

(* With a frame open the table is only asked on an exhausted budget.        *)
LEMMA OpenMoves ==
    ASSUME EndsAreFinal, BudgetEndsFrames, Where, pc = "loop", iterator # None, Moves
    PROVE  Current = BudgetExhausted /\ ~Runs /\ state' \in Terminal
<1> DEFINE key == <<state, Current>>
<1>1. key \in DOMAIN Table /\ key[1] = state /\ key[2] = Current
  BY DEF Moves
<1>2. state \in Bodies
  BY <1>1 DEF Where, EndsAreFinal
<1>3. Current = BudgetExhausted
  BY DEF Moves, InIterator
<1>4. Table[key].action = FALSE /\ Table[key].each = None /\ Table[key].next \in Terminal
  BY <1>1, <1>2, <1>3 DEF BudgetEndsFrames
<1>5. QED
  BY <1>3, <1>4 DEF Moves, Runs

LEMMA WhereInit == Init => Where
<1> SUFFICES ASSUME Init PROVE Where
  OBVIOUS
<1>1. iterator = None /\ stored = None
  BY Zenon DEF Init
<1>2. QED
  BY <1>1 DEF Where

LEMMA BodyOfFrame == ASSUME NEW f \in Frame PROVE BodyState(f) \in Bodies
BY DEF Frame, BodyState, Bodies

LEMMA WhereStep ==
    ASSUME EndsAreFinal, BudgetEndsFrames, TypeInv, Where, [Next]_vars
    PROVE  Where'
<1>0. iterator \in FrameSlot /\ None \notin Frame
  BY LoopAssumption DEF TypeInv, Values
<1>1. ASSUME state' = state, iterator' # None => iterator # None, stored' = stored
      PROVE  Where'
  BY <1>1 DEF Where
<1>2. CASE FrameIdle \/ FrameRan \/ FrameFinished
  BY <1>1, <1>2 DEF FrameIdle, FrameRan, FrameFinished, FrameKept
<1>3. CASE FrameResumed
  BY <1>3 DEF FrameResumed, Where
<1>4. CASE FrameLost
  BY <1>4 DEF FrameLost, Where
<1>5. CASE FrameRecords
  <2>1. iterator' # None => iterator # None
    BY <1>5 DEF FrameRecords, recordIteratorOutcome
  <2>2. QED
    BY <1>1, <1>5, <2>1 DEF FrameRecords
<1>6. CASE FrameSaved
  <2>1. /\ state' = state /\ iterator' = iterator
        /\ stored' = stored \/ (stored'.state = state /\ stored'.iterator = iterator)
    BY <1>6 DEF FrameSaved, FrameKept
  <2>2. QED
    BY <2>1 DEF Where
<1>7. CASE FrameDecided
  <2>0. pc = "loop"
    BY <1>7 DEF FrameDecided
  <2>1. CASE EndsHere
    <3>1. /\ iterator' = iterator /\ (state' = state \/ Moves)
          /\ \/ stored' = stored
             \/ stored'.state = state' /\ stored'.iterator = iterator
      BY <2>1 DEF EndsHere, SavesFrame
    <3>2. iterator' # None => state' \in Bodies \cup Terminal
      BY <2>0, <3>1, OpenMoves DEF Where
    <3>3. QED
      BY <3>1, <3>2 DEF Where
  <2>2. CASE TakesItem /\ stored' = stored
    BY <1>1, <2>2 DEF TakesItem
  <2>3. CASE LosesAction /\ stored' = stored
    BY <1>1, <2>3 DEF LosesAction, InIterator
  <2>4. CASE Joins /\ stored' = stored
    BY <2>4 DEF Joins, Where
  <2>5. CASE TakesBatch /\ stored' = stored
    <3>1. PICK f \in Frame :
            \/ f = iterator /\ InIterator /\ OpenFrame /\ state' = state
            \/ f = iterator /\ Moves
            \/ Moves /\ New(f) /\ state' = BodyState(f)
      BY <2>5 DEF TakesBatch
    <3>2. state' \in Bodies \cup Terminal
      BY <1>0, <2>0, <3>1, OpenMoves, BodyOfFrame DEF Where
    <3>3. QED
      BY <2>5, <3>2 DEF Where
  <2>6. CASE RunsCommand /\ stored' = stored
    <3>1. CASE iterator' = iterator
      BY <2>0, <2>6, <3>1, OpenMoves DEF RunsCommand, Where
    <3>2. CASE New(iterator') /\ state' = BodyState(iterator')
      BY <2>6, <3>2, NewFrame, BodyOfFrame DEF Where
    <3>3. QED
      BY <2>6, <3>1, <3>2 DEF RunsCommand
  <2>7. QED
    BY <1>7, <2>1, <2>2, <2>3, <2>4, <2>5, <2>6 DEF FrameDecided
<1>8. QED
  BY <1>2, <1>3, <1>4, <1>5, <1>6, <1>7, FrameEffects

LEMMA FramesInit == Init => Frames
<1> SUFFICES ASSUME Init PROVE Frames
  OBVIOUS
<1>1. pc = "down" /\ iterator = None /\ stored = None
  BY Zenon DEF Init
<1>2. QED
  BY <1>1 DEF Frames

LEMMA FramesDecide ==
    ASSUME EndsAreFinal, BudgetEndsFrames, TypeInv, Where, Frames, FrameDecided
    PROVE  Frames'
<1>0. /\ iterator \in FrameSlot /\ execution \in Seq(Entry) /\ None \notin Frame
      /\ pc = "loop" /\ batch = <<>> /\ execution' = execution /\ batch' = batch
      /\ known' = known /\ tokens' = tokens
  BY LoopAssumption DEF TypeInv, Values, Phases, FrameDecided
<1>a. stored' = stored => (stored' # None /\ stored'.iterator # None
                           => Recorded(stored'.iterator, stored'.execution))
  BY DEF Frames
<1>1. CASE EndsHere
  <2>1. pc' = "ended" /\ iterator' = iterator
    BY <1>1 DEF EndsHere
  <2>2. iterator' # None => Recorded(iterator', execution') \/ Rejected'
    BY <1>0, <2>1 DEF Frames, Rejected, Recorded, EachOf
  <2>3. CASE stored' = stored
    BY <1>a, <2>1, <2>2, <2>3 DEF Frames
  <2>4. CASE SavesFrame
    <3>1. /\ Moves /\ stored'.iterator = iterator
          /\ stored'.execution = execution
          /\ iterator # None /\ EachOf(iterator).parallel => Runs
      BY <2>4 DEF SavesFrame
    <3>2. iterator # None => ~Rejected
      <4>1. SUFFICES ASSUME iterator # None, Rejected PROVE FALSE
        OBVIOUS
      <4>2. Current = BudgetExhausted /\ ~Runs
        BY <1>0, <3>1, <4>1, OpenMoves
      <4>3. QED
        BY <1>0, <3>1, <4>1, <4>2 DEF Rejected
    <3>3. iterator # None => Recorded(iterator, execution)
      BY <3>2 DEF Frames
    <3>4. stored' # None /\ stored'.iterator # None
              => Recorded(stored'.iterator, stored'.execution)
      BY <3>1, <3>3
    <3>5. QED
      BY <2>1, <2>2, <3>4 DEF Frames
  <2>5. QED
    BY <1>1, <2>3, <2>4 DEF EndsHere
<1>2. CASE TakesItem /\ stored' = stored
  <2>1. /\ OpenFrame /\ iterator' = iterator /\ iterator # None /\ pc' = "exec"
        /\ job'.after = "item" /\ job'.trans = iterator.key[2]
    BY <1>2 DEF TakesItem, InIterator
  <2>2. Recorded(iterator, execution) /\ iterator.next < iterator.items
    BY <2>1 DEF Frames, Rejected, OpenFrame
  <2>3. Recorded(iterator', execution')
    BY <1>0, <2>1, <2>2
  <2>4. QED
    BY <1>a, <1>2, <2>1, <2>2, <2>3 DEF Frames
<1>3. CASE LosesAction /\ stored' = stored
  <2>1. /\ iterator # None /\ Current # BudgetExhausted /\ pc' = "loop" /\ ~known
        /\ iterator' = [iterator EXCEPT !.halted = TRUE]
        /\ signal' = signal /\ iteration' = iteration
    BY <1>3 DEF LosesAction, InIterator
  <2>2. iterator'.halted
    BY <1>0, <2>1 DEF FrameSlot, Frame
  <2>3. Current' # BudgetExhausted
    BY <1>0, <2>1 DEF Current, coreBudgetExceeded
  <2>4. Rejected'
    BY <1>0, <2>1, <2>2, <2>3 DEF Rejected
  <2>5. QED
    BY <1>a, <1>3, <2>1, <2>4 DEF Frames
<1>4. CASE Joins /\ stored' = stored
  <2>1. iterator' = None /\ pc' = "exec"
    BY <1>4 DEF Joins
  <2>2. QED
    BY <1>a, <1>4, <2>1 DEF Frames
<1>5. CASE TakesBatch /\ stored' = stored
  <2>1. PICK f \in Frame :
            /\ EachOf(f).parallel
            /\ Refuses(f) \/ Starves(f) \/ Feeds(f)
            /\ f = iterator \/ New(f)
    BY <1>5 DEF TakesBatch
  <2>2. CASE Refuses(f)
    <3>1. EachOf(iterator') = EachOf(f) /\ pc' = "loop" /\ iterator'.halted
          /\ (~known \/ EachOf(f).serialOnly)
      BY <2>2 DEF Refuses, EachOf
    <3>2. Rejected'
      BY <1>0, <2>1, <3>1 DEF Rejected, EachOf
    <3>3. QED
      BY <1>a, <1>5, <3>1, <3>2 DEF Frames
  <2>3. CASE Starves(f)
    <3>1. iterator' = f /\ pc' = "loop"
      BY <2>3 DEF Starves
    <3>2. CASE New(f)
      <4>1. Recorded(f, execution)
        BY <1>0, <3>2, NewFrame, RecordedNew
      <4>2. QED
        BY <1>0, <1>a, <1>5, <3>1, <4>1 DEF Frames
    <3>3. CASE f = iterator
      <4>1. f # None
        BY <1>0
      <4>2. CASE Recorded(f, execution)
        BY <1>0, <1>a, <1>5, <3>1, <4>2 DEF Frames
      <4>3. CASE Rejected
        <5>1. Rejected'
          BY <1>0, <2>1, <3>1, <3>3, <4>3 DEF Rejected, EachOf
        <5>2. QED
          BY <1>a, <1>5, <3>1, <5>1 DEF Frames
      <4>4. QED
        BY <3>3, <4>1, <4>2, <4>3 DEF Frames
    <3>4. QED
      BY <2>1, <3>2, <3>3
  <2>4. CASE Feeds(f)
    <3>1. /\ known /\ ~EachOf(f).serialOnly /\ iterator' = f /\ pc' = "exec"
          /\ job'.after = "batch" /\ job'.trans = f.key[2]
          /\ job'.size \in Nat \ {0} /\ f.next + job'.size <= f.items
      BY <2>4 DEF Feeds
    <3>2. Recorded(f, execution)
      <4>1. CASE New(f)
        BY <1>0, <4>1, NewFrame, RecordedNew
      <4>2. CASE f = iterator
        BY <1>0, <3>1, <4>2 DEF Frames, Rejected
      <4>3. QED
        BY <2>1, <4>1, <4>2
    <3>3. f.next < f.items
      <4>1. f.next \in Nat /\ f.items \in Nat
        BY DEF Frame
      <4>2. QED
        BY <3>1, <4>1
    <3>4. QED
      BY <1>0, <1>a, <1>5, <3>1, <3>2, <3>3 DEF Frames
  <2>5. QED
    BY <2>1, <2>2, <2>3, <2>4
<1>6. CASE RunsCommand /\ stored' = stored
  <2>1. /\ (iterator = None /\ iterator' = None) \/ New(iterator')
        /\ pc' = "exec" /\ job'.after = "stop" /\ job'.trans = Current
    BY <1>0, <1>6, OpenMoves DEF RunsCommand
  <2>2. CASE iterator' = None
    BY <1>a, <1>6, <2>1, <2>2 DEF Frames
  <2>3. CASE New(iterator')
    <3>1. /\ iterator' \in Frame /\ iterator'.key = <<state, Current>>
          /\ iterator'.items # 0 /\ iterator'.next = 0 /\ iterator'.outcomes = <<>>
      BY <2>3, NewFrame
    <3>2. Recorded(iterator', execution')
      BY <1>0, <3>1, RecordedNew
    <3>3. iterator'.key[2] = Current /\ iterator'.next < iterator'.items
      BY <3>1 DEF Frame
    <3>4. QED
      BY <1>a, <1>6, <2>1, <3>2, <3>3 DEF Frames
  <2>4. QED
    BY <2>1, <2>2, <2>3
<1>7. QED
  BY <1>1, <1>2, <1>3, <1>4, <1>5, <1>6 DEF FrameDecided

LEMMA FramesRecord ==
    ASSUME TypeInv, Frames, FrameRecords
    PROVE  Frames'
<1>0. /\ iterator \in FrameSlot /\ execution \in Seq(Entry) /\ None \notin Frame
      /\ batch \in Seq(Result) /\ stored' = stored /\ job' = job /\ pc' = "save"
  BY LoopAssumption DEF TypeInv, Values, FrameRecords
<1>1. PICK e \in Entry : /\ execution' = Append(execution, e) /\ e.signal = job.trans
                         /\ iterator' = recordIteratorOutcome(iterator, e.result)
  BY DEF FrameRecords
<1>2. \/ pc = "exec" /\ batch' = batch /\ batch = <<>>
      \/ pc = "commit" /\ batch # <<>> /\ batch' = Tail(batch)
  BY DEF FrameRecords, TypeInv, Phases
<1>3. stored' # None /\ stored'.iterator # None
          => Recorded(stored'.iterator, stored'.execution)
  BY <1>0 DEF Frames
<1>4. CASE iterator = None
  <2>1. iterator' = None
    BY <1>1, <1>4 DEF recordIteratorOutcome
  <2>2. batch' = <<>>
    BY <1>2, <1>4 DEF Frames
  <2>3. QED
    BY <1>0, <1>3, <2>1, <2>2 DEF Frames
<1>5. CASE iterator # None
  <2>1. iterator \in Frame /\ iterator.next \in Nat /\ iterator.items \in Nat
        /\ Len(batch) \in Nat /\ e.result \in Signal
    BY <1>0, <1>5 DEF FrameSlot, Frame, Entry
  <2>2. Recorded(iterator, execution)
    BY <1>2, <1>5 DEF Frames, Rejected
  <2>3. job.trans = iterator.key[2] /\ iterator.next < iterator.items
    <3>1. CASE pc = "exec"
      BY <1>5, <3>1 DEF Frames
    <3>2. CASE pc = "commit" /\ batch # <<>>
      <4>1. job.trans = iterator.key[2] /\ iterator.next + Len(batch) <= iterator.items
        BY <3>2 DEF Frames
      <4>2. Len(batch) # 0
        BY <1>0, <3>2
      <4>3. QED
        BY <2>1, <4>1, <4>2
    <3>3. QED
      BY <1>2, <3>1, <3>2
  <2>4. /\ iterator' \in Frame /\ iterator'.key = iterator.key
        /\ iterator'.items = iterator.items
        /\ iterator'.outcomes = Append(iterator.outcomes, e.result)
        /\ iterator'.next = iterator.next + 1
    BY <1>1, <2>1, <2>3, OutcomeOf
  <2>5. Recorded(iterator', execution')
    BY <1>0, <1>1, <2>1, <2>2, <2>3, <2>4, RecordedAppend
  <2>6. ASSUME batch' # <<>>
        PROVE  iterator'.next + Len(batch') <= iterator'.items
    <3>1. pc = "commit" /\ batch # <<>> /\ batch' = Tail(batch)
      BY <1>2, <2>6
    <3>2. Len(batch') = Len(batch) - 1
      BY <1>0, <3>1
    <3>3. iterator.next + Len(batch) <= iterator.items
      BY <3>1 DEF Frames
    <3>4. QED
      BY <2>1, <2>4, <3>2, <3>3
  <2>7. job'.trans = iterator'.key[2] /\ iterator' # None
    BY <1>0, <2>3, <2>4
  <2>8. QED
    BY <1>0, <1>3, <2>5, <2>6, <2>7 DEF Frames
<1>6. QED
  BY <1>4, <1>5

LEMMA FramesStep ==
    ASSUME EndsAreFinal, BudgetEndsFrames, TypeInv, Where, Frames, [Next]_vars
    PROVE  Frames'
<1>0. /\ iterator \in FrameSlot /\ batch \in Seq(Result) /\ job.size \in Nat
      /\ pc = "exec" /\ job.after = "batch" => iterator # None
  BY DEF TypeInv, Values, Job, Phases
<1>1. CASE FrameIdle
  <2>1. pc' = pc \/ (pc = "down" /\ pc' = "loop")
    BY <1>1 DEF FrameIdle
  <2>2. /\ iterator' = iterator /\ execution' = execution /\ tokens' = tokens
        /\ job' = job /\ known' = known /\ stored' = stored /\ batch' = batch
        /\ signal' = signal /\ iteration' = iteration
    BY <1>1, Zenon DEF FrameIdle, FrameKept
  <2>3. Current' = Current
    BY <2>2 DEF Current, coreBudgetExceeded
  <2>4. ASSUME Rejected PROVE Rejected'
    BY <2>1, <2>2, <2>3, <2>4 DEF Rejected, EachOf
  <2>5. QED
    BY <2>1, <2>2, <2>4 DEF Frames, Recorded
<1>2. CASE FrameResumed
  <2>1. /\ stored # None /\ stored' = stored /\ iterator' = stored.iterator
        /\ execution' = stored.execution /\ batch' = <<>> /\ pc' \in {"loop", "ended"}
    BY <1>2 DEF FrameResumed
  <2>2. iterator' # None => Recorded(iterator', execution')
    BY <2>1 DEF Frames
  <2>3. QED
    BY <2>1, <2>2 DEF Frames
<1>3. CASE FrameLost
  BY <1>3 DEF FrameLost, Frames
<1>4. CASE FrameDecided
  BY <1>4, FramesDecide
<1>5. CASE FrameRecords
  BY <1>5, FramesRecord
<1>6. CASE FrameRan
  <2>1. /\ iterator' = iterator /\ execution' = execution /\ job' = job
        /\ stored' = stored /\ pc = "exec" /\ job.after = "batch" /\ iterator # None
        /\ Len(batch') <= job.size /\ pc' \in {"after", "commit"}
    BY <1>0, <1>6 DEF FrameRan, FrameKept
  <2>2. /\ Recorded(iterator, execution) /\ job.trans = iterator.key[2]
        /\ iterator.next + job.size <= iterator.items
    BY <2>1 DEF Frames, Rejected
  <2>3. iterator.next + Len(batch') <= iterator.items
    <3>1. iterator.next \in Nat /\ iterator.items \in Nat
      BY <1>0, <2>1 DEF FrameSlot, Frame
    <3>2. QED
      BY <1>0, <2>1, <2>2, <3>1
  <2>4. QED
    BY <2>1, <2>2, <2>3 DEF Frames
<1>7. CASE FrameSaved
  <2>1. /\ iterator' = iterator /\ execution' = execution /\ job' = job
        /\ pc = "save" /\ batch' = batch
        /\ pc' = IF batch # <<>> THEN "commit" ELSE "after"
    BY <1>7 DEF FrameSaved, FrameKept
  <2>2. iterator # None => Recorded(iterator, execution)
    BY <2>1 DEF Frames, Rejected
  <2>3. stored' # None /\ stored'.iterator # None
            => Recorded(stored'.iterator, stored'.execution)
    BY <1>7, <2>2 DEF FrameSaved, Frames
  <2>4. QED
    BY <2>1, <2>2, <2>3 DEF Frames
<1>8. CASE FrameFinished
  <2>1. /\ iterator' = iterator /\ execution' = execution /\ stored' = stored
        /\ pc = "after" /\ pc' \in {"loop", "ended"}
    BY <1>8 DEF FrameFinished, FrameKept
  <2>2. iterator # None => Recorded(iterator, execution)
    BY <2>1 DEF Frames, Rejected
  <2>3. QED
    BY <2>1, <2>2 DEF Frames
<1>9. QED
  BY <1>1, <1>2, <1>3, <1>4, <1>5, <1>6, <1>7, <1>8, FrameEffects

LEMMA FramesInvariant == ASSUME EndsAreFinal, BudgetEndsFrames PROVE Spec => [](Where /\ Frames)
<1>1. TypeInv /\ Where /\ Frames /\ [Next]_vars => Where' /\ Frames'
  BY WhereStep, FramesStep
<1>2. QED
  BY <1>1, WhereInit, FramesInit, TypeInvariant, PTL DEF Spec

(* The outcomes a join reports are results the log holds, in order.         *)
LEMMA FramesAreItems == Frames => OutcomesAreItems
<1> SUFFICES ASSUME Frames, iterator # None, ~(EachOf(iterator).serialOnly \/ ~known),
                    NEW i \in 1 .. Len(iterator.outcomes)
             PROVE  LET n == Len(iterator.outcomes)
                    IN /\ n <= Len(execution)
                       /\ execution[Len(execution) - n + i].result = iterator.outcomes[i]
                       /\ execution[Len(execution) - n + i].signal = iterator.key[2]
  BY DEF OutcomesAreItems
<1>1. Recorded(iterator, execution)
  BY DEF Frames, Rejected
<1>2. QED
  BY <1>1 DEF Recorded

-----------------------------------------------------------------------------
(* Progress: at a dispatch boundary the store holds the run, frame and all. *)

Holds(cp) == cp # None /\ cp.execution = execution /\ cp.tokens = tokens

Progress ==
    /\ pc = "down" => execution = <<>>
    /\ Persistent /\ ~saveErr =>
        /\ pc = "loop" /\ execution # <<>> =>
               /\ Holds(stored)
               /\ \/ stored.iterator = iterator
                  \/ iterator # None /\ iterator.halted
                  \/ iterator # None /\ iterator.next = 0 /\ stored.iterator = None
        /\ pc = "after" =>
               \/ Holds(stored) /\ stored.iterator = iterator
               \/ job.after = "batch" /\ cancelled

LEMMA ProgressInit == Init => Progress
<1> SUFFICES ASSUME Init PROVE Progress
  OBVIOUS
<1>1. pc = "down" /\ execution = <<>>
  BY Zenon DEF Init
<1>2. QED
  BY <1>1 DEF Progress

LEMMA ProgressDecide ==
    ASSUME EndsAreFinal, BudgetEndsFrames, TypeInv, Where, Progress, FrameDecided
    PROVE  Progress'
<1>1. pc = "loop" /\ pc' # "down" /\ execution' = execution /\ tokens' = tokens
  BY DEF FrameDecided
<1>2. CASE EndsHere
  <2>1. pc' = "ended"
    BY <1>2 DEF EndsHere
  <2>2. QED
    BY <2>1 DEF Progress
<1>3. CASE TakesItem \/ Joins \/ RunsCommand
  <2>1. pc' = "exec"
    BY <1>3 DEF TakesItem, Joins, RunsCommand
  <2>2. QED
    BY <2>1 DEF Progress
<1>4. ASSUME stored' = stored, saveErr' = saveErr, pc' = "loop",
             \/ iterator' = iterator
             \/ iterator' # None /\ iterator'.halted
             \/ iterator' # None /\ iterator'.next = 0 /\ iterator = None
      PROVE  Progress'
  BY <1>1, <1>4 DEF Progress, Holds
<1>5. CASE LosesAction /\ stored' = stored /\ saveErr' = saveErr
  <2>1. /\ iterator # None /\ iterator' = [iterator EXCEPT !.halted = TRUE]
        /\ pc' = "loop" /\ iterator \in FrameSlot
    BY <1>5 DEF LosesAction, InIterator, TypeInv, Values
  <2>2. iterator' \in Frame /\ iterator'.halted
    BY <2>1 DEF FrameSlot, Frame
  <2>3. QED
    BY <1>4, <1>5, <2>1, <2>2, LoopAssumption
<1>6. CASE TakesBatch /\ stored' = stored /\ saveErr' = saveErr
  <2>1. PICK f \in Frame :
            /\ Refuses(f) \/ Starves(f) \/ Feeds(f)
            /\ f = iterator \/ (Moves /\ New(f))
    BY <1>6 DEF TakesBatch
  <2>2. CASE Refuses(f)
    <3>1. pc' = "loop" /\ iterator' \in Frame /\ iterator'.halted
      BY <2>2 DEF Refuses
    <3>2. QED
      BY <1>4, <1>6, <3>1, LoopAssumption
  <2>3. CASE Starves(f)
    <3>1. pc' = "loop" /\ iterator' = f /\ f # None
      BY <2>3, LoopAssumption DEF Starves
    <3>2. CASE f = iterator
      BY <1>4, <1>6, <3>1, <3>2
    <3>3. CASE Moves /\ New(f)
      <4>1. iterator = None
        BY <1>1, <3>3, OpenMoves, NewRuns
      <4>2. f.next = 0
        BY <3>3, NewFrame
      <4>3. QED
        BY <1>4, <1>6, <3>1, <4>1, <4>2
    <3>4. QED
      BY <2>1, <3>2, <3>3
  <2>4. CASE Feeds(f)
    BY <2>4 DEF Feeds, Progress
  <2>5. QED
    BY <2>1, <2>2, <2>3, <2>4
<1>7. QED
  BY <1>2, <1>3, <1>5, <1>6 DEF FrameDecided

LEMMA ProgressStep ==
    ASSUME EndsAreFinal, BudgetEndsFrames, TypeInv, Where, Frames, Progress, [Next]_vars
    PROVE  Progress'
<1>1. CASE FrameIdle
  <2>1. pc' = pc \/ (pc = "down" /\ pc' = "loop")
    BY <1>1 DEF FrameIdle
  <2>2. /\ iterator' = iterator /\ execution' = execution /\ tokens' = tokens
        /\ job' = job /\ stored' = stored /\ saveErr' = saveErr
        /\ cancelled => cancelled'
    BY <1>1 DEF FrameIdle, FrameKept
  <2>3. QED
    BY <2>1, <2>2 DEF Progress, Holds
<1>2. CASE FrameResumed
  <2>1. /\ stored # None /\ stored' = stored /\ iterator' = stored.iterator
        /\ execution' = stored.execution /\ tokens' = stored.tokens
        /\ pc' \in {"loop", "ended"}
    BY <1>2 DEF FrameResumed
  <2>2. QED
    BY <2>1 DEF Progress, Holds
<1>3. CASE FrameLost
  BY <1>3 DEF FrameLost, Progress
<1>4. CASE FrameDecided
  BY <1>4, ProgressDecide
<1>5. CASE FrameRecords
  BY <1>5 DEF FrameRecords, Progress
<1>6. CASE FrameRan
  <2>1. /\ pc = "exec" /\ job.after = "batch" /\ job' = job
        /\ pc' = "commit" \/ (pc' = "after" /\ (job.size # 0 => cancelled'))
    BY <1>6 DEF FrameRan, FrameKept
  <2>2. job.size # 0
    BY <2>1 DEF Frames, TypeInv, Phases
  <2>3. QED
    BY <2>1, <2>2 DEF Progress
<1>7. CASE FrameSaved
  <2>1. /\ iterator' = iterator /\ execution' = execution /\ tokens' = tokens
        /\ pc' \in {"commit", "after"}
    BY <1>7 DEF FrameSaved, FrameKept
  <2>2. Persistent /\ ~saveErr' => Holds(stored)' /\ stored'.iterator = iterator'
    BY <1>7, <2>1 DEF FrameSaved, Holds
  <2>3. QED
    BY <2>1, <2>2 DEF Progress
<1>8. CASE FrameFinished
  <2>1. /\ iterator' = iterator /\ execution' = execution /\ tokens' = tokens
        /\ stored' = stored /\ saveErr' = saveErr
        /\ pc = "after" /\ pc' \in {"loop", "ended"}
        /\ pc' = "loop" => job.after = "item" \/ ~cancelled
    BY <1>8 DEF FrameFinished, FrameKept
  <2>2. QED
    BY <2>1 DEF Progress, Holds
<1>9. QED
  BY <1>1, <1>2, <1>3, <1>4, <1>5, <1>6, <1>7, <1>8, FrameEffects

LEMMA ProgressIsBoundary == Progress => BoundaryIsDurable
BY DEF Progress, Holds, BoundaryIsDurable

(* A for_each loses nothing: what an item did is in the log once, under the *)
(* frame's row, and in the store, with the frame's progress, before the     *)
(* next item is dispatched, whatever crashes and resumes come between, as   *)
(* long as no save failed.                                                  *)
THEOREM ItemsAreDurable == ASSUME EndsAreFinal, BudgetEndsFrames PROVE Spec => []ProgressIsDurable
<1>1. TypeInv /\ Where /\ Frames /\ Progress /\ [Next]_vars => Progress'
  BY ProgressStep
<1>2. Frames /\ Progress => ProgressIsDurable
  BY FramesAreItems, ProgressIsBoundary DEF ProgressIsDurable
<1>3. QED
  BY <1>1, <1>2, ProgressInit, FramesInvariant, TypeInvariant, PTL DEF Spec

(* A parallel batch leaves the log a sequential for_each would have left:   *)
(* numbered on, within the budget, its outcomes the frame's in order.       *)
THEOREM BatchesLeaveSerialLogs ==
    ASSUME EndsAreFinal, BudgetEndsFrames PROVE Spec => []BatchesAreSerial
<1>1. StepNumbers /\ IterationBudget /\ Frames => BatchesAreSerial
  BY FramesAreItems DEF BatchesAreSerial
<1>2. QED
  BY <1>1, StepNumbersHold, IterationsAreBudgeted, FramesInvariant, PTL

-----------------------------------------------------------------------------
(***************************************************************************)
(* The engine is a client of the checkpoint port: each save adds the entry *)
(* recorded since the last or closes the run, and a closed run stays so.   *)
(* The hard case is a batch that goes on in the terminal state the spent   *)
(* token budget led to: it saves positions of a run already closed.        *)
(***************************************************************************)
(* The exhausted budget is the loop's own finding.                          *)
Own ==
    /\ pc # "ended" /\ signal = BudgetExhausted => coreBudgetExceeded
    /\ pc = "exec" => \A r \in job.emits : r.signal # BudgetExhausted
    /\ \A i \in 1 .. Len(batch) : batch[i].signal # BudgetExhausted

(* The store holds the run's end.                                           *)
Closed == stored # None /\ stored.state \in Terminal

(* Only a frame keeps a run going in a terminal state, and only with the    *)
(* budget spent; so does a run that is closed in the store.                 *)
Ends ==
    /\ pc = "down" => iterator = None
    /\ pc = "loop" /\ iterator # None /\ state \in Terminal => coreBudgetExceeded
    /\ pc \in {"exec", "commit", "save", "after"} /\ job.after # "stop" /\ state \in Terminal =>
           coreBudgetExceeded
    /\ pc \in {"loop", "exec", "commit", "save"} /\ Closed =>
           state \in Terminal /\ coreBudgetExceeded
    /\ pc = "after" /\ Closed => state \in Terminal
    /\ pc = "commit" \/ (pc = "save" /\ batch # <<>>) => job.after = "batch"

(* The log in the store, and the run's: one entry apart before a save.      *)
InStore == IF stored = None THEN <<>> ELSE stored.execution

InStep ==
    /\ pc = "down" => execution = <<>>
    /\ Persistent /\ ~saveErr =>
        /\ pc \in {"loop", "exec", "commit", "after"} => execution = InStore
        /\ pc = "save" => \E e \in Entry : execution = Append(InStore, e)

(* The counters of a process only rise. *)
Rises == iteration <= iteration' /\ tokens <= tokens'

LEMMA BudgetStaysSpent ==
    ASSUME Values, Values', Rises, coreBudgetExceeded
    PROVE  coreBudgetExceeded'
BY LoopAssumption DEF Values, Rises, coreBudgetExceeded

LEMMA DecideRises ==
    ASSUME TypeInv, Decide
    PROVE  Rises
<1> USE DEF counters
<1>1. iteration \in Nat /\ tokens \in Nat
  BY DEF TypeInv, Values
<1>2. ASSUME iteration' = iteration \/ iteration' = iteration + 1, tokens' = tokens
      PROVE  Rises
  BY <1>1, <1>2 DEF Rises
<1>3. CASE stopForContext \/ stopForUnhandledTransition \/ dispatchParallelIterator
  <2>1. iteration' = iteration /\ tokens' = tokens
    BY <1>3, Zenon DEF stopForContext, stopForUnhandledTransition, dispatchParallelIterator
  <2>2. QED
    BY <1>2, <2>1
<1>4. CASE dispatchIteratorItem
  <2>1. (iteration' = iteration \/ iteration' = iteration + 1) /\ tokens' = tokens
    BY <1>4, Zenon DEF dispatchIteratorItem, Dispatch
  <2>2. QED
    BY <1>2, <2>1
<1>5. CASE dispatchIteratorJoin
  <2>1. iteration' = iteration + 1 /\ tokens' = tokens
    BY <1>5, Zenon DEF dispatchIteratorJoin, Dispatch
  <2>2. QED
    BY <1>2, <2>1
<1>6. CASE nextTransition
  <2>1. PICK c \in Choices(<<state, Current>>) :
            StepParallel(c) \/ StepTerminal(c) \/ stopForNilCommand(c) \/ StepCommand(c)
    BY <1>6 DEF nextTransition
  <2>2. (iteration' = iteration \/ iteration' = iteration + 1) /\ tokens' = tokens
    BY <2>1, Zenon DEF StepParallel, StepTerminal, stopForNilCommand, StepCommand, Dispatch
  <2>3. QED
    BY <1>2, <2>2
<1>7. QED
  BY <1>3, <1>4, <1>5, <1>6 DEF Decide

LEMMA FinishRises ==
    ASSUME TypeInv, Finish
    PROVE  Rises
<1> USE DEF counters
<1>1. Values /\ iteration \in Nat /\ tokens \in Nat
  BY DEF TypeInv, Values
<1>2. ASSUME iteration' = iteration \/ iteration' = iteration + 1, 
             NEW cost \in Nat, tokens' = tokens + cost
      PROVE  Rises
  BY <1>1, <1>2 DEF Rises
<1>3. CASE Execute
  <2>1. PICK r \in job.emits : Record(r, job.from, iteration)
    BY <1>3 DEF Execute
  <2>2. r.cost \in Nat
    BY <1>1 DEF Values, Job, Result
  <2>3. iteration' = iteration /\ tokens' = tokens + r.cost
    BY <1>3, <2>1, Zenon DEF Execute, Record
  <2>4. QED
    BY <1>2, <2>2, <2>3
<1>4. CASE CommitResult
  <2>1. batch # <<>>
    BY <1>4 DEF CommitResult, TypeInv, Phases
  <2>2. batch[1] \in Result
    BY <1>1, <2>1 DEF Values
  <2>3. iteration' = iteration + 1 /\ tokens' = tokens + batch[1].cost
    BY <1>4, Zenon DEF CommitResult, Record
  <2>4. batch[1].cost \in Nat
    BY <2>2 DEF Result
  <2>5. QED
    BY <1>2, <2>3, <2>4
<1>5. CASE ExecuteBatch \/ saveCheckpoint \/ stopForSuspend \/ stopAfterDispatch
  <2>1. iteration' = iteration /\ tokens' = tokens
    BY <1>5, Zenon DEF ExecuteBatch, saveCheckpoint, stopForSuspend, stopAfterDispatch
  <2>2. QED
    BY <1>1, <2>1 DEF Rises
<1>6. QED
  BY <1>3, <1>4, <1>5 DEF Finish

(* A step of a process that lives on.                                       *)
LEMMA SpentForGood ==
    ASSUME TypeInv, TypeInv', [Next]_vars, coreBudgetExceeded
    PROVE  coreBudgetExceeded' \/ Resume \/ Crash
<1>1. Values /\ Values' /\ iteration \in Nat /\ tokens \in Nat
  BY DEF TypeInv, Values
<1>2. CASE StartRun \/ Cancel \/ UNCHANGED vars
  <2>1. iteration' = iteration /\ tokens' = tokens
    BY <1>2, Zenon DEF StartRun, Cancel, vars, counters
  <2>2. Rises
    BY <1>1, <2>1 DEF Rises
  <2>3. QED
    BY <1>1, <2>2, BudgetStaysSpent
<1>3. CASE Decide \/ Finish
  BY <1>1, <1>3, DecideRises, FinishRises, BudgetStaysSpent
<1>4. QED
  BY <1>2, <1>3 DEF Next

(* What a dispatch may return is never the exhausted budget.                *)
Ours(emits) == \A r \in emits : r.signal # BudgetExhausted

LEMMA JoinIsOurs ==
    ASSUME BudgetIsOwn, NEW f \in Frame
    PROVE  Ours(Only(iteratorJoinSignal(f)))
<1>1. f.key \in EachKeys
  BY DEF Frame
<1>2. BudgetExhausted \notin {EachOf(f).allSuccess, EachOf(f).partial, EachOf(f).failed}
  BY <1>1 DEF BudgetIsOwn, EachOf
<1>3. iteratorJoinSignal(f) \in {EachOf(f).allSuccess, EachOf(f).partial, EachOf(f).failed}
  BY DEF iteratorJoinSignal
<1>4. iteratorJoinSignal(f) # BudgetExhausted
  BY <1>2, <1>3
<1>5. QED
  BY <1>4 DEF Ours, Only

LEMMA RowIsOurs ==
    ASSUME BudgetIsOwn, NEW k \in DOMAIN Table
    PROVE  Ours(Table[k].emits)
BY DEF BudgetIsOwn, Ours

LEMMA ChoiceIsOurs ==
    ASSUME BudgetIsOwn, NEW key \in DOMAIN Table, NEW c \in Choices(key)
    PROVE  Ours(c.emits)
<1> DEFINE row == Table[key]
<1> DEFINE plain == [next |-> row.next, action |-> row.action, emits |-> row.emits,
                     frame |-> iterator]
<1>1. Ours(row.emits)
  BY RowIsOurs
<1>2. CASE row.each = None
  <2>1. c = plain
    BY <1>2 DEF Choices
  <2>2. QED
    BY <1>1, <2>1
<1>3. CASE row.each # None
  <2>1. BudgetExhausted \notin {CommandError, row.each.empty}
    BY <1>3 DEF BudgetIsOwn, EachKeys
  <2>2. Ours(Only(CommandError)) /\ Ours(Only(row.each.empty))
    BY <2>1 DEF Ours, Only
  <2>3. \/ c = [plain EXCEPT !.action = TRUE, !.emits = Only(CommandError)]
        \/ c = [plain EXCEPT !.action = TRUE, !.emits = Only(row.each.empty),
                             !.next = row.each.joinNext]
        \/ \E n \in ItemCounts \ {0} : c = [plain EXCEPT !.frame = newIteratorSnapshot(key, n)]
    BY <1>3 DEF Choices
  <2>4. c.emits \in {row.emits, Only(CommandError), Only(row.each.empty)}
    BY <2>3
  <2>5. QED
    BY <1>1, <2>2, <2>4
<1>4. QED
  BY <1>2, <1>3

LEMMA BatchIsOurs ==
    ASSUME BudgetIsOwn, NEW f \in Frame, DispatchBatch(f)
    PROVE  pc' = "exec" => Ours(job'.emits)
<1>1. Ours(Table[f.key].emits)
  BY RowIsOurs DEF Frame, EachKeys
<1>2. pc' = "exec" => job'.emits = Table[f.key].emits
  BY DEF DispatchBatch
<1>3. QED
  BY <1>1, <1>2

(* The signal and the possible results of what the loop decides.            *)
Asks == /\ pc = "loop" /\ batch' = batch
        /\ signal' = signal \/ signal' = Current
        /\ pc' = "exec" => Ours(job'.emits)

LEMMA DecideAsks ==
    ASSUME BudgetIsOwn, TypeInv, Decide
    PROVE  Asks
<1> USE DEF store, counters, flight, outside
<1>0. Values /\ Phases /\ TypeOK
  BY TypeParts DEF TypeInv
<1>a. ASSUME InIterator
      PROVE  pc = "loop" /\ iterator \in Frame /\ iterator.key \in DOMAIN Table
  BY <1>a, <1>0 DEF InIterator, Values, FrameSlot, Frame, EachKeys
<1>1. CASE stopForContext \/ stopForUnhandledTransition
  <2>1. pc = "loop" /\ batch' = batch /\ pc' = "ended" /\ signal' \in {signal, Current}
    BY <1>1, Zenon DEF stopForContext, stopForUnhandledTransition, Stop, AtTransition
  <2>2. QED
    BY <2>1 DEF Asks
<1>2. CASE dispatchIteratorItem
  <2>1. InIterator /\ batch' = batch /\ signal' = signal
    BY <1>2, Zenon DEF dispatchIteratorItem
  <2>2. pc' = pc \/ job'.emits = Table[iterator.key].emits
    BY <1>2 DEF dispatchIteratorItem, Dispatch
  <2>3. Ours(Table[iterator.key].emits)
    BY <1>a, <2>1, RowIsOurs
  <2>4. QED
    BY <1>a, <2>1, <2>2, <2>3 DEF Asks
<1>3. CASE dispatchIteratorJoin
  <2>1. InIterator /\ batch' = batch /\ signal' = signal
        /\ job'.emits = Only(iteratorJoinSignal(iterator))
    BY <1>3 DEF dispatchIteratorJoin, Dispatch
  <2>2. QED
    BY <1>a, <2>1, JoinIsOurs DEF Asks
<1>4. CASE dispatchParallelIterator
  <2>1. InIterator /\ batch' = batch /\ signal' = signal /\ DispatchBatch(iterator)
    BY <1>4, Zenon DEF dispatchParallelIterator
  <2>2. QED
    BY <1>a, <2>1, BatchIsOurs DEF Asks
<1>5. CASE nextTransition
  <2>1. PICK c \in Choices(<<state, Current>>) :
            StepParallel(c) \/ StepTerminal(c) \/ stopForNilCommand(c) \/ StepCommand(c)
    BY <1>5 DEF nextTransition
  <2>2. pc = "loop" /\ <<state, Current>> \in DOMAIN Table /\ Current \in Signal
    BY <1>0, <1>5, CurrentType DEF nextTransition, AtTransition
  <2>3. batch' = batch /\ signal' = Current
    BY <2>1, Zenon DEF StepParallel, StepTerminal, stopForNilCommand, StepCommand
  <2>4. CASE StepParallel(c)
    <3>1. c.frame # None /\ DispatchBatch(c.frame)
      BY <2>4, Zenon DEF StepParallel, Parallel
    <3>2. c.frame \in Frame
      BY <1>0, <2>2, <3>1, ChoiceType DEF Choice, FrameSlot
    <3>3. QED
      BY <2>2, <2>3, <3>1, <3>2, BatchIsOurs DEF Asks
  <2>5. CASE StepTerminal(c) \/ stopForNilCommand(c)
    <3>1. pc' = "ended"
      BY <2>5, Zenon DEF StepTerminal, stopForNilCommand, Stop
    <3>2. QED
      BY <2>2, <2>3, <3>1 DEF Asks
  <2>6. CASE StepCommand(c)
    <3>1. job'.emits = c.emits
      BY <2>6 DEF StepCommand, Dispatch
    <3>2. QED
      BY <2>2, <2>3, <3>1, ChoiceIsOurs DEF Asks
  <2>7. QED
    BY <2>1, <2>4, <2>5, <2>6
<1>6. QED
  BY <1>1, <1>2, <1>3, <1>4, <1>5 DEF Decide

LEMMA OwnInit == BudgetIsOwn /\ Init => Own
<1> SUFFICES ASSUME BudgetIsOwn, Init PROVE Own
  OBVIOUS
<1>1. signal = Seed /\ pc = "down" /\ batch = <<>> /\ Seed # BudgetExhausted
  BY Zenon DEF Init, BudgetIsOwn
<1>2. QED
  BY <1>1 DEF Own

LEMMA OwnStep ==
    ASSUME BudgetIsOwn, TypeInv, TypeInv', Own, [Next]_vars
    PROVE  Own'
<1> USE DEF store, counters, flight, outside
<1>0. Values /\ Phases /\ Values' /\ Seed # BudgetExhausted /\ ResumeSignal # BudgetExhausted
  BY DEF TypeInv, BudgetIsOwn
<1>1. CASE StartRun \/ Cancel \/ UNCHANGED vars
  <2>1. /\ signal' = signal /\ batch' = batch /\ job' = job
        /\ pc' = pc \/ (pc = "down" /\ pc' = "loop")
    BY <1>1, Zenon DEF StartRun, Cancel, vars
  <2>2. coreBudgetExceeded' = coreBudgetExceeded
    BY <1>1 DEF StartRun, Cancel, vars, coreBudgetExceeded
  <2>3. QED
    BY <2>1, <2>2 DEF Own
<1>2. CASE Resume \/ Crash
  <2>1. signal' \in {Seed, ResumeSignal} /\ batch' = <<>> /\ pc' # "exec"
    BY <1>2, Zenon DEF Resume, Crash
  <2>2. QED
    BY <1>0, <2>1 DEF Own
<1>3. CASE Decide
  <2>1. Asks
    BY <1>3, DecideAsks
  <2>2. coreBudgetExceeded => coreBudgetExceeded'
    BY <1>0, <1>3, DecideRises, BudgetStaysSpent
  <2>3. Current = BudgetExhausted => coreBudgetExceeded
    BY <2>1 DEF Own, Current, Asks
  <2>4. QED
    BY <2>1, <2>2, <2>3 DEF Own, Asks, Ours
<1>4. CASE Execute
  <2>1. PICK r \in job.emits : Record(r, job.from, iteration)
    BY <1>4 DEF Execute
  <2>2. pc = "exec" /\ batch' = batch /\ pc' = "save" /\ signal' = r.signal
    BY <1>4, <2>1, Zenon DEF Execute, Record
  <2>3. QED
    BY <2>1, <2>2 DEF Own
<1>5. CASE CommitResult
  <2>1. pc = "commit" /\ batch' = Tail(batch) /\ pc' = "save" /\ signal' = batch[1].signal
    BY <1>5, Zenon DEF CommitResult, Record
  <2>2. batch # <<>> /\ batch \in Seq(Result)
    BY <1>0, <2>1 DEF Phases, Values
  <2>3. \A i \in 1 .. Len(batch') : batch'[i] = batch[i + 1] /\ i + 1 \in 1 .. Len(batch)
    BY <2>1, <2>2
  <2>4. QED
    BY <2>1, <2>2, <2>3 DEF Own
<1>6. CASE ExecuteBatch
  <2>1. pc = "exec" /\ signal' = signal /\ pc' # "exec" /\ pc' # "ended"
    BY <1>6 DEF ExecuteBatch
  <2>2. PICK k \in 0 .. job.size : \E results \in [1 .. k -> job.emits] : batch' = results
    BY <1>6 DEF ExecuteBatch
  <2>3. \A i \in 1 .. Len(batch') : batch'[i] \in job.emits
    BY <2>2
  <2>4. coreBudgetExceeded => coreBudgetExceeded'
    BY <1>0, <1>6, FinishRises, BudgetStaysSpent DEF Finish
  <2>5. QED
    BY <2>1, <2>3, <2>4 DEF Own
<1>7. CASE saveCheckpoint \/ stopAfterDispatch
  <2>1. signal' = signal /\ batch' = batch /\ pc' # "exec" /\ pc # "ended"
    BY <1>7 DEF saveCheckpoint, stopAfterDispatch, Stop
  <2>2. coreBudgetExceeded => coreBudgetExceeded'
    BY <1>0, <1>7, FinishRises, BudgetStaysSpent DEF Finish
  <2>3. QED
    BY <2>1, <2>2 DEF Own
<1>8. CASE stopForSuspend
  <2>1. batch' = batch /\ pc' = "ended"
    BY <1>8, Zenon DEF stopForSuspend, Stop
  <2>2. QED
    BY <2>1 DEF Own
<1>9. QED
  BY <1>1, <1>2, <1>3, <1>4, <1>5, <1>6, <1>7, <1>8 DEF Next, Finish

-----------------------------------------------------------------------------
LEMMA EndsInit == Init => Ends /\ InStep
<1> SUFFICES ASSUME Init PROVE Ends /\ InStep
  OBVIOUS
<1>1. pc = "down" /\ iterator = None /\ execution = <<>>
  BY Zenon DEF Init
<1>2. QED
  BY <1>1 DEF Ends, InStep

(* What the loop still dispatches, it dispatches in a run not yet at its    *)
(* end, and at its end only a batch of the open frame.                      *)
LEMMA EndsDecide ==
    ASSUME EndsAreFinal, ItemsRunOn, Own, Ends, FrameDecided, pc' # "ended",
           coreBudgetExceeded => coreBudgetExceeded'
    PROVE  /\ stored' = stored /\ saveErr' = saveErr /\ ~Closed /\ pc' \in {"loop", "exec"}
           /\ (pc' = "exec" => job'.after # "stop") /\ state' \in Terminal => coreBudgetExceeded'
<1>1. pc = "loop" /\ stored' = stored /\ saveErr' = saveErr
  BY DEF FrameDecided, EndsHere
<1>2. Moves => state \notin Terminal
  BY DEF Moves, EndsAreFinal
<1>3. Current = BudgetExhausted => coreBudgetExceeded
  BY <1>1 DEF Own, Current
<1>4. InIterator => ~coreBudgetExceeded /\ state \notin Terminal
  <2>1. InIterator => iterator # None /\ Current # BudgetExhausted
    BY Zenon DEF InIterator
  <2>2. coreBudgetExceeded => Current = BudgetExhausted
    BY Zenon DEF Current
  <2>3. QED
    BY <1>1, <2>1, <2>2 DEF Ends
<1>5. CASE TakesItem \/ LosesAction
  <2>1. InIterator /\ state' = state /\ pc' \in {"loop", "exec"}
    BY <1>5 DEF TakesItem, LosesAction
  <2>2. QED
    BY <1>1, <1>4, <2>1 DEF Ends
<1>6. CASE Joins
  <2>1. InIterator /\ pc' = "exec" /\ job'.after = "stop"
    BY <1>6 DEF Joins
  <2>2. QED
    BY <1>1, <1>4, <2>1 DEF Ends
<1>7. CASE RunsCommand
  <2>1. Moves /\ pc' = "exec" /\ job'.after = "stop"
    BY <1>7 DEF RunsCommand
  <2>2. QED
    BY <1>1, <1>2, <2>1 DEF Ends
<1>8. CASE TakesBatch
  <2>1. PICK f \in Frame :
            /\ pc' \in {"loop", "exec"}
            /\ \/ f = iterator /\ InIterator /\ state' = state
               \/ f = iterator /\ Moves
               \/ Moves /\ New(f) /\ state' = BodyState(f)
    BY <1>8 DEF TakesBatch, Refuses, Starves, Feeds
  <2>2. CASE InIterator /\ state' = state
    BY <1>1, <1>4, <2>1, <2>2 DEF Ends
  <2>3. CASE f = iterator /\ Moves
    <3>1. Current = BudgetExhausted
      BY <1>1, <2>3, LoopAssumption DEF Moves, InIterator
    <3>2. QED
      BY <1>1, <1>2, <1>3, <2>1, <2>3, <3>1 DEF Ends
  <2>4. CASE Moves /\ New(f) /\ state' = BodyState(f)
    <3>1. state' \notin Terminal
      BY <2>4, BodyOfFrame DEF ItemsRunOn
    <3>2. QED
      BY <1>1, <1>2, <2>1, <2>4, <3>1 DEF Ends
  <2>5. QED
    BY <2>1, <2>2, <2>3, <2>4
<1>9. QED
  BY <1>1, <1>5, <1>6, <1>7, <1>8 DEF FrameDecided, EndsHere

(* At the end of a run only the budget keeps the loop going.                *)
LEMMA TerminalStops ==
    ASSUME stopAfterDispatch, pc' = "loop", state \in Terminal
    PROVE  job.after # "stop"
<1>1. SUFFICES ASSUME job.after = "stop" PROVE FALSE
  OBVIOUS
<1>2. Stop("failed") \/ Stop("cancelled") \/ Stop(TerminalStatusForState(state))
  BY <1>1 DEF stopAfterDispatch
<1>3. QED
  BY <1>2 DEF Stop

LEMMA EndsStep ==
    ASSUME EndsAreFinal, BudgetIsOwn, ItemsRunOn, TypeInv, TypeInv', Own, Ends, [Next]_vars
    PROVE  Ends'
<1>0. Phases /\ iterator \in FrameSlot
  BY DEF TypeInv, Values
<1>1. coreBudgetExceeded => coreBudgetExceeded' \/ Resume \/ Crash
  BY SpentForGood
<1>2. CASE StartRun \/ Cancel \/ UNCHANGED vars
  <2>1. /\ iterator' = iterator /\ state' = state /\ job' = job /\ batch' = batch
        /\ stored' = stored
        /\ pc' = pc \/ (pc = "down" /\ pc' = "loop" /\ stored = None)
    BY <1>2, Zenon DEF StartRun, Cancel, vars, flight, store
  <2>2. coreBudgetExceeded' = coreBudgetExceeded
    BY <1>2 DEF StartRun, Cancel, vars, counters, coreBudgetExceeded
  <2>3. QED
    BY <2>1, <2>2 DEF Ends, Closed
<1>3. CASE Resume
  <2>1. /\ stored' = stored /\ state' = stored.state
        /\ pc' = "ended" \/ (pc' = "loop" /\ stored.state \notin Terminal)
    BY <1>3, Zenon DEF Resume
  <2>2. QED
    BY <2>1 DEF Ends, Closed
<1>4. CASE Crash
  <2>1. pc' = "down" /\ iterator' = None
    BY <1>4, Zenon DEF Crash
  <2>2. QED
    BY <2>1 DEF Ends
<1>5. CASE Decide
  <2>1. FrameDecided /\ (coreBudgetExceeded => coreBudgetExceeded')
    BY <1>5, LoopDecidesFrame, DecideRises, BudgetStaysSpent DEF TypeInv
  <2>2. CASE pc' = "ended"
    BY <2>2 DEF Ends
  <2>3. CASE pc' # "ended"
    BY <2>1, <2>3, EndsDecide DEF Ends, Closed
  <2>4. QED
    BY <2>2, <2>3
<1>6. ASSUME Finish PROVE coreBudgetExceeded => coreBudgetExceeded'
  BY <1>6, FinishRises, BudgetStaysSpent DEF TypeInv
<1>7. CASE Execute
  <2>1. /\ pc = "exec" /\ job.after # "batch" /\ batch' = batch
        /\ state' = state /\ job' = job /\ stored' = stored
    BY <1>7, Zenon DEF Execute, flight, store
  <2>2. pc' = "save" /\ batch' = <<>>
    BY <1>0, <1>7, <2>1, FrameIsRecorded DEF FrameRecords, Phases
  <2>3. QED
    BY <1>6, <1>7, <2>1, <2>2 DEF Ends, Closed, Finish
<1>8. CASE CommitResult
  <2>1. pc = "commit" /\ state' = state /\ job' = job /\ stored' = stored
    BY <1>8, Zenon DEF CommitResult, store
  <2>2. pc' = "save"
    BY <1>8, FrameIsRecorded DEF FrameRecords
  <2>3. QED
    BY <1>6, <1>8, <2>1, <2>2 DEF Ends, Closed, Finish
<1>9. CASE ExecuteBatch
  <2>1. FrameRan
    BY <1>9, FrameRuns
  <2>2. /\ pc = "exec" /\ job.after = "batch" /\ pc' \in {"commit", "after"}
        /\ state' = state /\ job' = job /\ stored' = stored
    BY <2>1 DEF FrameRan, FrameKept
  <2>3. QED
    BY <1>6, <1>9, <2>2 DEF Ends, Closed, Finish
<1>10. CASE saveCheckpoint
  <2>1. FrameSaved
    BY <1>10, FrameIsSaved
  <2>2. /\ pc = "save" /\ pc' = IF batch # <<>> THEN "commit" ELSE "after"
        /\ state' = state /\ job' = job /\ batch' = batch
        /\ stored' = stored \/ stored'.state = state
    BY <2>1 DEF FrameSaved, FrameKept
  <2>3. Closed' => state \in Terminal
    BY <2>2 DEF Ends, Closed
  <2>4. batch # <<>> /\ state \in Terminal => coreBudgetExceeded
    BY <2>2 DEF Ends
  <2>5. QED
    BY <1>6, <1>10, <2>2, <2>3, <2>4 DEF Ends, Finish
<1>11. CASE stopForSuspend \/ stopAfterDispatch
  <2>1. FrameFinished
    BY <1>11, FrameFinishes
  <2>2. /\ pc = "after" /\ pc' \in {"loop", "ended"}
        /\ state' = state /\ stored' = stored /\ job' = job
    BY <2>1 DEF FrameFinished, FrameKept
  <2>3. CASE pc' = "ended"
    BY <2>3 DEF Ends
  <2>4. CASE pc' = "loop"
    <3>1. stopAfterDispatch
      BY <1>11, <2>4 DEF stopForSuspend, Stop
    <3>2. state \in Terminal => coreBudgetExceeded
      BY <2>2, <2>4, <3>1, TerminalStops DEF Ends
    <3>3. QED
      BY <1>6, <1>11, <2>2, <2>4, <3>2 DEF Ends, Closed, Finish
  <2>5. QED
    BY <2>2, <2>3, <2>4
<1>12. QED
  BY <1>2, <1>3, <1>4, <1>5, <1>7, <1>8, <1>9, <1>10, <1>11 DEF Next, Finish

LEMMA InStepStep ==
    ASSUME ItemsRunOn, TypeInv, TypeInv', Own, Ends, InStep, [Next]_vars
    PROVE  InStep'
<1>1. ASSUME execution' = execution, stored' = stored, saveErr' = saveErr,
             \/ pc' = pc
             \/ pc' = "ended"
             \/ pc \in {"loop", "exec", "commit", "after"} /\ pc' \in {"loop", "exec", "commit", "after"}
      PROVE  InStep'
  BY <1>1 DEF InStep, InStore
<1>2. CASE StartRun \/ Cancel \/ UNCHANGED vars
  <2>1. execution' = execution /\ stored' = stored /\ saveErr' = saveErr
        /\ (pc' = pc \/ (pc = "down" /\ pc' = "loop" /\ stored = None))
    BY <1>2, Zenon DEF StartRun, Cancel, vars, counters, store
  <2>2. CASE pc' = pc
    BY <1>1, <2>1, <2>2
  <2>3. CASE pc = "down" /\ pc' = "loop" /\ stored = None
    BY <2>1, <2>3 DEF InStep, InStore
  <2>4. QED
    BY <2>1, <2>2, <2>3
<1>3. CASE Resume
  BY <1>3, FrameResumes DEF FrameResumed, InStep, InStore
<1>4. CASE Crash
  BY <1>4, FrameIsLost DEF FrameLost, InStep
<1>5. CASE Decide
  <2>1. FrameDecided
    BY <1>5, LoopDecidesFrame
  <2>2. CASE pc' = "ended"
    BY <2>2 DEF InStep
  <2>3. CASE pc' # "ended"
    <3>1. /\ pc = "loop" /\ execution' = execution /\ stored' = stored /\ saveErr' = saveErr
          /\ pc' \in {"loop", "exec"}
      BY <2>1, <2>3 DEF FrameDecided, EndsHere, TakesItem, LosesAction, Joins, TakesBatch,
                        Refuses, Starves, Feeds, RunsCommand
    <3>2. QED
      BY <1>1, <3>1
  <2>4. QED
    BY <2>2, <2>3
<1>6. CASE Execute \/ CommitResult
  <2>1. saveErr' = saveErr /\ pc \in {"exec", "commit"}
    BY <1>6, Zenon DEF Execute, CommitResult, store
  <2>2. /\ stored' = stored /\ pc' = "save"
        /\ \E e \in Entry : execution' = Append(execution, e)
    BY <1>6, FrameIsRecorded DEF FrameRecords
  <2>3. QED
    BY <2>1, <2>2 DEF InStep, InStore
<1>7. CASE ExecuteBatch
  <2>1. saveErr' = saveErr /\ stored' = stored /\ execution' = execution
    BY <1>7, Zenon DEF ExecuteBatch, store, counters
  <2>2. pc = "exec" /\ pc' \in {"commit", "after"}
    BY <1>7, FrameRuns DEF FrameRan
  <2>3. QED
    BY <1>1, <2>1, <2>2
<1>8. CASE saveCheckpoint
  <2>1. FrameSaved
    BY <1>8, FrameIsSaved
  <2>2. pc' \in {"commit", "after"} /\ execution' = execution
    BY <2>1 DEF FrameSaved, FrameKept
  <2>3. Persistent /\ ~saveErr' => stored' # None /\ stored'.execution = execution
    BY <2>1 DEF FrameSaved
  <2>4. QED
    BY <2>2, <2>3 DEF InStep, InStore
<1>9. CASE stopForSuspend \/ stopAfterDispatch
  <2>1. FrameFinished
    BY <1>9, FrameFinishes
  <2>2. QED
    BY <1>1, <2>1 DEF FrameFinished, FrameKept
<1>10. QED
  BY <1>2, <1>3, <1>4, <1>5, <1>6, <1>7, <1>8, <1>9 DEF Next, Finish

-----------------------------------------------------------------------------
(* A save in the eyes of the port. *)

LEMMA LogsAreLogs ==
    ASSUME TypeInv
    PROVE  /\ stored # None => stored.state \in State /\ stored.execution \in Seq(Entry)
           /\ InStore \in Seq(Entry)
           /\ saved = Finalized <=> Closed
           /\ ~Closed => Port!Log = InStore
<1>1. stored # None => stored.state \in State /\ stored.execution \in Seq(Entry)
  BY DEF TypeInv, Values, StoreSlot, Checkpoint
<1>2. InStore \in Seq(Entry)
  BY <1>1, EmptyLogs DEF InStore
<1>3. CASE stored = None
  <2>1. saved = None
    BY <1>3 DEF saved
  <2>2. QED
    BY <1>1, <1>2, <1>3, <2>1, FinalizedAssumption DEF Closed, Port!Log, InStore
<1>4. CASE Closed
  <2>1. saved = Finalized
    BY <1>4 DEF saved, Closed
  <2>2. QED
    BY <1>1, <1>2, <1>4, <2>1
<1>5. CASE stored # None /\ ~Closed
  <2>1. saved = stored.execution
    BY <1>5 DEF saved, Closed
  <2>2. saved # None /\ saved # Finalized
    BY <1>1, <1>5, <2>1, FinalizedAssumption
  <2>3. QED
    BY <1>1, <1>2, <1>5, <2>1, <2>2 DEF Port!Log, InStore
<1>6. QED
  BY <1>3, <1>4, <1>5

(* A store that changes is one that is configured.                          *)
LEMMA OnlyAPortSaves ==
    ASSUME NEW cp, Save(cp), stored' # stored
    PROVE  Persistent
BY DEF Save, store

(* The row into a terminal state writes the run's end, or nothing.          *)
LEMMA LoopClosesOnly ==
    ASSUME TypeInv, Decide, stored' # stored
    PROVE  Closed'
<1> USE DEF store
<1>1. TypeOK /\ Values
  BY TypeParts DEF TypeInv
<1>2. nextTransition
  BY Zenon DEF Decide, stopForContext, stopForUnhandledTransition, dispatchIteratorItem,
               dispatchIteratorJoin, dispatchParallelIterator
<1>3. PICK c \in Choices(<<state, Current>>) :
          StepParallel(c) \/ StepTerminal(c) \/ stopForNilCommand(c) \/ StepCommand(c)
  BY <1>2 DEF nextTransition
<1>4. StepTerminal(c)
  BY <1>3, Zenon DEF StepParallel, stopForNilCommand, StepCommand
<1>5. c.next \in Terminal /\ c.next \in State /\ Current \in Signal
      /\ Save(Position(c.next, Current, iteration, iterator, execution, tokens))
  BY <1>1, <1>4, CurrentType, LoopAssumption DEF StepTerminal
<1>6. SaveEffect(c.next)
  BY <1>1, <1>5, SaveLeaves
<1>7. QED
  BY <1>5, <1>6 DEF SaveEffect, Written, Closed

LEMMA PortStep ==
    ASSUME TypeInv, TypeInv', Ends, InStep, [Next]_vars, ~saveErr
    PROVE  Saves \/ saved' = saved
<1>1. stored' = stored => saved' = saved
  BY DEF saved
<1>2. CASE stored' = stored
  BY <1>1, <1>2
<1>3. CASE stored' # stored /\ Closed'
  <2>1. saved' = Finalized
    BY <1>3 DEF saved, Closed
  <2>2. QED
    BY <2>1 DEF Saves, Port!PortFinalize
<1>4. CASE stored' # stored /\ ~Closed'
  <2>1. saveCheckpoint
    <3>1. StartRun \/ Cancel \/ UNCHANGED vars \/ Resume \/ Crash => stored' = stored
      BY Zenon DEF StartRun, Cancel, vars, store, Resume, Crash
    <3>2. Execute \/ ExecuteBatch \/ CommitResult \/ stopForSuspend \/ stopAfterDispatch => stored' = stored
      BY Zenon DEF Execute, ExecuteBatch, CommitResult, stopForSuspend, stopAfterDispatch, store
    <3>3. ~Decide
      BY <1>4, LoopClosesOnly
    <3>4. QED
      BY <1>4, <3>1, <3>2, <3>3 DEF Next, Finish
  <2>2. Persistent
    BY <1>4, <2>1, OnlyAPortSaves DEF saveCheckpoint
  <2>3. pc = "save" /\ stored' # None /\ stored'.state = state /\ stored'.execution = execution
    BY <1>4, <2>1, FrameIsSaved DEF FrameSaved
  <2>4. PICK e \in Entry : execution = Append(InStore, e)
    BY <2>2, <2>3 DEF InStep
  <2>5. ~Closed
    BY <1>4, <2>3 DEF Ends, Closed
  <2>6. saved # Finalized /\ Port!Log = InStore /\ InStore \in Seq(Entry)
    BY <2>5, LogsAreLogs
  <2>7. saved' = execution
    BY <1>4, <2>3 DEF saved, Closed
  <2>8. stored'.execution # <<>> /\ stored'.execution[Len(stored'.execution)] = e
    BY <2>3, <2>4, <2>6
  <2>9. Port!PortSave(e)
    BY <2>4, <2>6, <2>7 DEF Port!PortSave
  <2>10. QED
    BY <2>3, <2>8, <2>9 DEF Saves
<1>5. QED
  BY <1>2, <1>3, <1>4

LEMMA PortInvariant ==
    ASSUME EndsAreFinal, BudgetIsOwn, ItemsRunOn
    PROVE  Spec => [](TypeInv /\ Own /\ Ends /\ InStep)
<1>1. Init => Own /\ Ends /\ InStep
  BY OwnInit, EndsInit
<1>2. TypeInv /\ TypeInv' /\ Own /\ Ends /\ InStep /\ [Next]_vars => Own' /\ Ends' /\ InStep'
  BY OwnStep, EndsStep, InStepStep
<1>3. QED
  BY <1>1, <1>2, TypeInvariant, PTL DEF Spec

(* As long as no save failed, what a run does to its store is what the port *)
(* allows, whatever dispatch path, crash or resume it goes through: a save  *)
(* adds the one entry recorded since the last, and nothing follows the end. *)
THEOREM EngineKeepsPort ==
    ASSUME EndsAreFinal, BudgetIsOwn, ItemsRunOn
    PROVE  Spec => KeepsPort
<1>1. TypeInv /\ TypeInv' /\ Ends /\ InStep /\ [Next]_vars => [saveErr \/ Saves]_saved
  BY PortStep
<1>2. QED
  BY <1>1, PortInvariant, PTL DEF Spec, KeepsPort

LEMMA SavesAreOfThePort ==
    ASSUME TypeInv', Saves
    PROVE  Port!PortNext
<1>1. CASE Port!PortFinalize
  BY <1>1 DEF Port!PortNext
<1>2. CASE /\ stored' # None /\ stored'.execution # <<>>
           /\ Port!PortSave(stored'.execution[Len(stored'.execution)])
  <2>1. stored'.execution \in Seq(Entry)
    BY <1>2 DEF TypeInv, Values, StoreSlot, Checkpoint
  <2>2. stored'.execution[Len(stored'.execution)] \in Entry
    BY <1>2, <2>1
  <2>3. QED
    BY <1>2, <2>2 DEF Port!PortNext
<1>3. QED
  BY <1>1, <1>2 DEF Saves

(* A run none of whose saves fails implements the port's specification.     *)
THEOREM EngineImplementsPort ==
    ASSUME EndsAreFinal, BudgetIsOwn, ItemsRunOn
    PROVE  Spec /\ []~saveErr => Port!PortSpec
<1>1. Init => Port!PortInit
  <2>1. Init => stored = None
    BY Zenon DEF Init
  <2>2. QED
    BY <2>1 DEF saved, Port!PortInit
<1>2. TypeInv' /\ ~saveErr /\ [saveErr \/ Saves]_saved => [Port!PortNext]_saved
  BY SavesAreOfThePort
<1>3. QED
  BY <1>1, <1>2, EngineKeepsPort, TypeInvariant, PTL DEF Spec, KeepsPort, Port!PortSpec

-----------------------------------------------------------------------------
(* Without a for_each a failed save ends the run at once, as promised; the  *)
(* port is kept also then.  (With one, FailedSaveStops is violated.)        *)

Single ==
    /\ pc \in {"exec", "save", "after"} => job.after = "stop"
    /\ saveErr => pc \in {"after", "ended"}

LEMMA NoFrames ==
    ASSUME NoEach, TypeInv
    PROVE  Frame = {} /\ iterator = None /\ pc # "commit" /\ (pc = "save" => batch = <<>>)
<1>1. Frame = {}
  BY DEF NoEach, Frame
<1>2. iterator = None
  BY <1>1 DEF TypeInv, Values, FrameSlot
<1>3. QED
  BY <1>1, <1>2 DEF TypeInv, Phases

LEMMA FailureStops ==
    ASSUME stopAfterDispatch, pc' = "loop", saveErr
    PROVE  job.after # "stop"
<1>1. SUFFICES ASSUME job.after = "stop" PROVE FALSE
  OBVIOUS
<1>2. Stop("failed")
  BY <1>1 DEF stopAfterDispatch, stopForCheckpointFailure
<1>3. QED
  BY <1>2 DEF Stop

LEMMA SingleStep ==
    ASSUME NoEach, TypeInv, Single, [Next]_vars
    PROVE  Single'
<1>0. Frame = {} /\ iterator = None /\ pc # "commit" /\ (pc = "save" => batch = <<>>)
  BY NoFrames
<1>1. CASE StartRun \/ Cancel \/ UNCHANGED vars
  BY <1>1, FrameIdles DEF FrameIdle, FrameKept, Single
<1>2. CASE Resume
  BY <1>2, FrameResumes DEF FrameResumed, Single
<1>3. CASE Crash
  <2>1. pc' = "down" /\ saveErr' = FALSE
    BY <1>3, Zenon DEF Crash
  <2>2. QED
    BY <2>1 DEF Single
<1>4. CASE Decide
  <2>1. FrameDecided
    BY <1>4, LoopDecidesFrame
  <2>2. CASE pc' = "ended"
    BY <2>2 DEF Single
  <2>3. CASE pc' # "ended"
    <3>1. ~InIterator
      BY <1>0 DEF InIterator
    <3>2. pc = "loop" /\ saveErr' = saveErr /\ RunsCommand
      BY <1>0, <2>1, <2>3, <3>1 DEF FrameDecided, EndsHere, TakesItem, LosesAction, Joins,
                                    TakesBatch
    <3>3. QED
      BY <3>2 DEF RunsCommand, Single
  <2>4. QED
    BY <2>2, <2>3
<1>5. CASE Execute
  <2>1. pc = "exec" /\ job' = job /\ saveErr' = saveErr
    BY <1>5, Zenon DEF Execute, flight, store
  <2>2. pc' = "save"
    BY <1>5, FrameIsRecorded DEF FrameRecords
  <2>3. QED
    BY <2>1, <2>2 DEF Single
<1>6. CASE CommitResult
  BY <1>0, <1>6 DEF CommitResult
<1>7. CASE ExecuteBatch
  BY <1>7 DEF ExecuteBatch, Single
<1>8. CASE saveCheckpoint
  BY <1>0, <1>8, FrameIsSaved DEF FrameSaved, FrameKept, Single
<1>9. CASE stopForSuspend \/ stopAfterDispatch
  <2>1. /\ pc = "after" /\ pc' \in {"loop", "ended"} /\ saveErr' = saveErr /\ job' = job
    BY <1>9, FrameFinishes DEF FrameFinished, FrameKept
  <2>2. pc' = "loop" => stopAfterDispatch
    BY <1>9 DEF stopForSuspend, Stop
  <2>3. QED
    BY <2>1, <2>2, FailureStops DEF Single
<1>10. QED
  BY <1>1, <1>2, <1>3, <1>4, <1>5, <1>6, <1>7, <1>8, <1>9 DEF Next, Finish

LEMMA SingleInvariant == ASSUME NoEach PROVE Spec => [](TypeInv /\ Single)
<1>1. Init => Single
  <2>1. Init => pc = "down" /\ saveErr = FALSE
    BY Zenon DEF Init
  <2>2. QED
    BY <2>1 DEF Single
<1>2. TypeInv /\ Single /\ [Next]_vars => Single'
  BY SingleStep
<1>3. QED
  BY <1>1, <1>2, TypeInvariant, PTL DEF Spec

(* After a failed save a run without a for_each records no further command. *)
THEOREM SingleRunsStop == ASSUME NoEach PROVE Spec => FailedSaveStops
<1>1. TypeInv /\ Single /\ [Next]_vars =>
          [saveErr /\ saveErr' => execution' = execution]_vars
  <2> SUFFICES ASSUME TypeInv, Single, [Next]_vars, saveErr, saveErr'
               PROVE  execution' = execution
    OBVIOUS
  <2>1. pc \in {"after", "ended"}
    BY DEF Single
  <2>2. ~Resume
    BY FrameResumes DEF FrameResumed
  <2>3. ~Crash
    BY Zenon DEF Crash
  <2>4. FrameIdle \/ FrameFinished
    BY <2>1, <2>2, <2>3, FrameIdles, FrameFinishes
       DEF Next, Finish, Decide, Execute, ExecuteBatch, CommitResult, saveCheckpoint,
           stopForContext, stopForUnhandledTransition, nextTransition, AtTransition,
           dispatchIteratorItem, dispatchIteratorJoin, dispatchParallelIterator, InIterator
  <2>5. QED
    BY <2>4 DEF FrameIdle, FrameFinished, FrameKept
<1>2. QED
  BY <1>1, SingleInvariant, PTL DEF Spec, FailedSaveStops

(* A run without a for_each implements the port's specification, also when  *)
(* saves fail, with or without effect.                                      *)
THEOREM SingleRunsImplementPort ==
    ASSUME EndsAreFinal, BudgetIsOwn, NoEach
    PROVE  Spec => Port!PortSpec
<1>1. ItemsRunOn
  BY DEF ItemsRunOn, Bodies, NoEach
<1>2. Init => Port!PortInit
  <2>1. Init => stored = None
    BY Zenon DEF Init
  <2>2. QED
    BY <2>1 DEF saved, Port!PortInit
<1>3. TypeInv /\ TypeInv' /\ Single /\ [Next]_vars /\ [saveErr \/ Saves]_saved =>
          [Port!PortNext]_saved
  <2> SUFFICES ASSUME TypeInv, TypeInv', Single, [Next]_vars, [saveErr \/ Saves]_saved
               PROVE  [Port!PortNext]_saved
    OBVIOUS
  <2>1. CASE saveErr
    <3>1. pc \in {"after", "ended"}
      BY <2>1 DEF Single
    <3>2. ~Decide /\ ~saveCheckpoint
      BY <3>1 DEF Decide, saveCheckpoint, stopForContext, stopForUnhandledTransition,
                  nextTransition, AtTransition, dispatchIteratorItem, dispatchIteratorJoin,
                  dispatchParallelIterator, InIterator
    <3>3. StartRun \/ Cancel \/ UNCHANGED vars \/ Resume \/ Crash => stored' = stored
      BY Zenon DEF StartRun, Cancel, vars, store, Resume, Crash
    <3>4. Execute \/ ExecuteBatch \/ CommitResult \/ stopForSuspend \/ stopAfterDispatch => stored' = stored
      BY Zenon DEF Execute, ExecuteBatch, CommitResult, stopForSuspend, stopAfterDispatch, store
    <3>5. stored' = stored
      BY <3>2, <3>3, <3>4 DEF Next, Finish
    <3>6. QED
      BY <3>5 DEF saved
  <2>2. CASE ~saveErr
    BY <2>2, SavesAreOfThePort
  <2>3. QED
    BY <2>1, <2>2
<1>4. QED
  BY <1>1, <1>2, <1>3, EngineKeepsPort, SingleInvariant, TypeInvariant, PTL
     DEF Spec, KeepsPort, Port!PortSpec

-----------------------------------------------------------------------------
(* How a frame ends. *)

(* A frame counts its outcomes, and halts only on one that failed.          *)
Shaped(f) == Len(f.outcomes) = f.next /\ (f.halted => failedCount(f) # {})

Shapes ==
    /\ known
    /\ iterator # None => Shaped(iterator)
    /\ stored # None /\ stored.iterator # None => Shaped(stored.iterator)

LEMMA ShapedNew == ASSUME NEW f, New(f) PROVE Shaped(f)
<1>1. f.next = 0 /\ f.outcomes = <<>> /\ f.halted = FALSE
  BY NewFrame
<1>2. Len(<<>>) = 0
  OBVIOUS
<1>3. QED
  BY <1>1, <1>2 DEF Shaped

LEMMA ShapedAppend ==
    ASSUME NEW f \in Frame, NEW g \in Frame, NEW sig \in Signal, Shaped(f),
           g.key = f.key, g.outcomes = Append(f.outcomes, sig), g.next = f.next + 1,
           g.halted => f.halted \/ sig \notin EachOf(f).continueOn
    PROVE  Shaped(g)
<1>1. f.outcomes \in Seq(Signal) /\ Len(f.outcomes) = f.next /\ f.next \in Nat
  BY DEF Frame, Shaped
<1>2. /\ Len(g.outcomes) = g.next /\ g.outcomes[f.next + 1] = sig
      /\ \A i \in 1 .. f.next : g.outcomes[i] = f.outcomes[i]
      /\ DOMAIN g.outcomes = 1 .. f.next + 1 /\ DOMAIN f.outcomes = 1 .. f.next
  BY <1>1
<1>3. EachOf(g) = EachOf(f)
  BY DEF EachOf
<1>4. CASE sig \notin EachOf(f).continueOn
  <2>1. f.next + 1 \in failedCount(g)
    BY <1>1, <1>2, <1>3, <1>4 DEF failedCount
  <2>2. QED
    BY <1>2, <2>1 DEF Shaped
<1>5. CASE failedCount(f) # {}
  <2>1. PICK i \in 1 .. f.next : f.outcomes[i] \notin EachOf(f).continueOn
    BY <1>2, <1>5 DEF failedCount
  <2>2. i \in 1 .. f.next + 1
    BY <1>1
  <2>3. i \in failedCount(g)
    BY <1>2, <1>3, <2>1, <2>2 DEF failedCount
  <2>4. QED
    BY <1>2, <2>3 DEF Shaped
<1>6. CASE ~g.halted
  BY <1>2, <1>6 DEF Shaped
<1>7. QED
  BY <1>4, <1>5, <1>6 DEF Shaped

LEMMA ShapesInit == Init => Shapes
<1> SUFFICES ASSUME Init PROVE Shapes
  OBVIOUS
<1>1. iterator = None /\ stored = None /\ known = TRUE
  BY Zenon DEF Init
<1>2. QED
  BY <1>1 DEF Shapes

LEMMA ShapesDecide ==
    ASSUME OutcomesAreDistinct, TypeInv, Shapes, FrameDecided
    PROVE  Shapes'
<1>0. known' = known /\ known /\ None \notin Frame /\ CommandError \in Signal
  BY LoopAssumption DEF FrameDecided, Shapes
<1>a. ASSUME stored' = stored, iterator' # None => Shaped(iterator')
      PROVE  Shapes'
  BY <1>0, <1>a DEF Shapes
<1>b. ASSUME iterator' = iterator PROVE iterator' # None => Shaped(iterator')
  BY <1>b DEF Shapes
<1>1. CASE EndsHere
  <2>1. iterator' = iterator /\ (stored' = stored \/ stored'.iterator = iterator)
    BY <1>1 DEF EndsHere, SavesFrame
  <2>2. QED
    BY <1>0, <2>1 DEF Shapes
<1>2. CASE TakesItem /\ stored' = stored
  <2>1. iterator' = iterator
    BY <1>2 DEF TakesItem
  <2>2. QED
    BY <1>2, <1>a, <1>b, <2>1
<1>3. CASE LosesAction
  BY <1>0, <1>3 DEF LosesAction
<1>4. CASE Joins /\ stored' = stored
  BY <1>4, <1>a DEF Joins
<1>5. CASE TakesBatch /\ stored' = stored
  <2>1. PICK f \in Frame : /\ Refuses(f) \/ Starves(f) \/ Feeds(f)
                           /\ f = iterator \/ New(f)
    BY <1>5 DEF TakesBatch
  <2>2. Shaped(f)
    BY <1>0, <2>1, ShapedNew DEF Shapes
  <2>3. CASE Refuses(f)
    <3>1. /\ EachOf(f).serialOnly /\ iterator' \in Frame /\ iterator'.key = f.key
          /\ iterator'.outcomes = Append(f.outcomes, CommandError)
          /\ iterator'.next = f.next + 1
      BY <1>0, <2>3 DEF Refuses
    <3>2. CommandError \notin EachOf(f).continueOn
      BY <3>1 DEF OutcomesAreDistinct, EachOf, Frame
    <3>3. Shaped(iterator')
      BY <1>0, <2>2, <3>1, <3>2, ShapedAppend
    <3>4. QED
      BY <1>5, <1>a, <3>3
  <2>4. CASE Starves(f) \/ Feeds(f)
    <3>1. iterator' = f
      BY <2>4 DEF Starves, Feeds
    <3>2. QED
      BY <1>5, <1>a, <2>2, <3>1
  <2>5. QED
    BY <2>1, <2>3, <2>4
<1>6. CASE RunsCommand /\ stored' = stored
  <2>1. iterator' = iterator \/ New(iterator')
    BY <1>6 DEF RunsCommand
  <2>2. iterator' # None => Shaped(iterator')
    BY <1>b, <2>1, ShapedNew
  <2>3. QED
    BY <1>6, <1>a, <2>2
<1>7. QED
  BY <1>1, <1>2, <1>3, <1>4, <1>5, <1>6 DEF FrameDecided

LEMMA ShapesStep ==
    ASSUME OutcomesAreDistinct, ActionsStay, TypeInv, Shapes, [Next]_vars
    PROVE  Shapes'
<1>1. CASE FrameIdle
  BY <1>1 DEF FrameIdle, FrameKept, Shapes
<1>2. CASE FrameResumed
  BY <1>2 DEF FrameResumed, Shapes, ActionsStay
<1>3. CASE FrameLost
  BY <1>3 DEF FrameLost, Shapes
<1>4. CASE FrameDecided
  BY <1>4, ShapesDecide
<1>5. CASE FrameRecords
  <2>1. stored' = stored /\ known' = known
    BY <1>5 DEF FrameRecords
  <2>2. PICK e \in Entry : iterator' = recordIteratorOutcome(iterator, e.result)
    BY <1>5 DEF FrameRecords
  <2>3. CASE iterator = None \/ iterator.next >= iterator.items
    <3>1. iterator' = iterator
      BY <2>2, <2>3 DEF recordIteratorOutcome
    <3>2. QED
      BY <2>1, <3>1 DEF Shapes
  <2>4. CASE ~(iterator = None \/ iterator.next >= iterator.items)
    <3>1. iterator \in Frame /\ iterator.next < iterator.items /\ e.result \in Signal
      <4>1. iterator \in Frame /\ iterator.next \in Nat /\ iterator.items \in Nat
        BY <2>4 DEF TypeInv, Values, FrameSlot, Frame
      <4>2. QED
        BY <2>4, <4>1 DEF Entry
    <3>2. /\ iterator' \in Frame /\ iterator'.key = iterator.key
          /\ iterator'.outcomes = Append(iterator.outcomes, e.result)
          /\ iterator'.next = iterator.next + 1
          /\ iterator'.halted <=> iterator.halted \/ Halts(EachOf(iterator), e.result)
      BY <2>2, <3>1, OutcomeOf
    <3>3. Halts(EachOf(iterator), e.result) => e.result \notin EachOf(iterator).continueOn
      BY <3>1 DEF Halts, OutcomesAreDistinct, EachOf, Frame
    <3>4. Shaped(iterator)
      BY <2>4 DEF Shapes
    <3>5. Shaped(iterator')
      BY <3>1, <3>2, <3>3, <3>4, ShapedAppend
    <3>6. QED
      BY <2>1, <3>5 DEF Shapes
  <2>5. QED
    BY <2>3, <2>4
<1>6. CASE FrameRan
  BY <1>6 DEF FrameRan, FrameKept, Shapes
<1>7. CASE FrameSaved
  <2>1. /\ iterator' = iterator /\ known' = known
        /\ stored' = stored \/ stored'.iterator = iterator
    BY <1>7 DEF FrameSaved, FrameKept
  <2>2. QED
    BY <2>1 DEF Shapes
<1>8. CASE FrameFinished
  BY <1>8 DEF FrameFinished, FrameKept, Shapes
<1>9. QED
  BY <1>1, <1>2, <1>3, <1>4, <1>5, <1>6, <1>7, <1>8, FrameEffects

(* Only a join closes a frame while the loop goes on.                       *)
LEMMA OnlyJoinsClose ==
    ASSUME TypeInv, [Next]_vars, iterator # None, pc = "loop", pc' = "exec", iterator' = None
    PROVE  Joins
<1>1. None \notin Frame
  BY LoopAssumption
<1>2. ~FrameIdle /\ ~FrameResumed /\ ~FrameLost /\ ~FrameRecords /\ ~FrameRan
      /\ ~FrameSaved /\ ~FrameFinished
  BY DEF FrameIdle, FrameResumed, FrameLost, FrameRecords, FrameRan, FrameSaved,
         FrameFinished
<1>3. FrameDecided
  BY <1>2, FrameEffects
<1>4. ~EndsHere /\ ~TakesItem /\ ~LosesAction
  BY DEF EndsHere, TakesItem, LosesAction
<1>5. ~TakesBatch
  BY <1>1 DEF TakesBatch, Refuses, Starves, Feeds
<1>6. ~RunsCommand
  BY <1>1, NewFrame DEF RunsCommand
<1>7. QED
  BY <1>3, <1>4, <1>5, <1>6 DEF FrameDecided

LEMMA JoinSaysAll ==
    ASSUME OutcomesAreDistinct, TypeInv, Shapes, [Next]_vars,
           iterator # None, pc = "loop", pc' = "exec", iterator' = None,
           job'.trans = EachOf(iterator).allSuccess
    PROVE  /\ Len(iterator.outcomes) = iterator.items
           /\ \A i \in 1 .. iterator.items :
                  iterator.outcomes[i] \in EachOf(iterator).continueOn
<1>1. ~OpenFrame /\ iteratorJoinSignal(iterator) = EachOf(iterator).allSuccess
  BY OnlyJoinsClose DEF Joins
<1>2. iterator \in Frame /\ iterator.next <= iterator.items
  BY DEF TypeInv, Values, FrameSlot, Phases, InRange
<1>3. EachOf(iterator).allSuccess \notin {EachOf(iterator).partial, EachOf(iterator).failed}
  BY <1>2 DEF OutcomesAreDistinct, EachOf, Frame
<1>4. failedCount(iterator) = {}
  <2> DEFINE failed == failedCount(iterator)
  <2> HIDE DEF failed
  <2>1. iteratorJoinSignal(iterator) =
            CASE failed # {} /\ (iterator.halted \/ EachOf(iterator).failFast)
                     -> EachOf(iterator).failed
              [] failed = 1 .. iterator.items -> EachOf(iterator).failed
              [] failed # {} -> EachOf(iterator).partial
              [] OTHER -> EachOf(iterator).allSuccess
    BY Zenon DEF iteratorJoinSignal, failed
  <2>2. failed = {}
    BY <1>1, <1>3, <2>1
  <2>3. QED
    BY <2>2 DEF failed
<1>5. Len(iterator.outcomes) = iterator.next /\ ~iterator.halted
  BY <1>4 DEF Shapes, Shaped
<1>6. iterator.next \in Nat /\ iterator.items \in Nat /\ iterator.outcomes \in Seq(Signal)
  BY <1>2 DEF Frame
<1>7. iterator.next = iterator.items
  BY <1>1, <1>2, <1>5, <1>6 DEF OpenFrame
<1>8. ASSUME NEW i \in 1 .. iterator.items
      PROVE  iterator.outcomes[i] \in EachOf(iterator).continueOn
  <2>1. i \in DOMAIN iterator.outcomes
    BY <1>5, <1>6, <1>7
  <2>2. QED
    BY <1>4, <2>1 DEF failedCount
<1>9. QED
  BY <1>5, <1>7, <1>8

(* A frame joins with all_success only when every item ran and succeeded,   *)
(* in a sequential and in a parallel for_each.                              *)
THEOREM AllSuccessIsAll ==
    ASSUME OutcomesAreDistinct, ActionsStay PROVE Spec => AllSuccessMeansAll
<1>1. TypeInv /\ Shapes /\ [Next]_vars => Shapes'
  BY ShapesStep
<1>2. TypeInv /\ Shapes /\ [Next]_vars
        => [iterator # None /\ pc = "loop" /\ pc' = "exec" /\ iterator' = None
            /\ job'.trans = EachOf(iterator).allSuccess
            => /\ Len(iterator.outcomes) = iterator.items
               /\ \A i \in 1 .. iterator.items :
                      iterator.outcomes[i] \in EachOf(iterator).continueOn]_vars
  BY JoinSaysAll
<1>3. QED
  BY <1>1, <1>2, ShapesInit, TypeInvariant, PTL DEF Spec, AllSuccessMeansAll

(* A frame one of whose outcomes halts it bears the mark, in memory and in  *)
(* the store.                                                               *)
Marked(f) ==
    (\E i \in DOMAIN f.outcomes : Halts(EachOf(f), f.outcomes[i])) => f.halted

Marks ==
    /\ iterator # None => Marked(iterator)
    /\ stored # None /\ stored.iterator # None => Marked(stored.iterator)

LEMMA MarkedNew == ASSUME NEW f, New(f) PROVE Marked(f)
<1>1. f.outcomes = <<>>
  BY NewFrame
<1>2. QED
  BY <1>1 DEF Marked

LEMMA MarkedAppend ==
    ASSUME NEW f \in Frame, NEW g \in Frame, NEW sig \in Signal, Marked(f),
           g.key = f.key, g.outcomes = Append(f.outcomes, sig),
           g.halted <=> f.halted \/ Halts(EachOf(f), sig)
    PROVE  Marked(g)
<1> SUFFICES ASSUME NEW i \in DOMAIN g.outcomes, Halts(EachOf(g), g.outcomes[i])
             PROVE  g.halted
  BY DEF Marked
<1>1. f.outcomes \in Seq(Signal) /\ EachOf(g) = EachOf(f)
  BY DEF Frame, EachOf
<1>2. CASE i = Len(f.outcomes) + 1
  BY <1>1, <1>2
<1>3. CASE i # Len(f.outcomes) + 1
  <2>1. i \in DOMAIN f.outcomes /\ g.outcomes[i] = f.outcomes[i]
    BY <1>1, <1>3
  <2>2. QED
    BY <1>1, <2>1 DEF Marked
<1>4. QED
  BY <1>2, <1>3

LEMMA MarksInit == Init => Marks
<1> SUFFICES ASSUME Init PROVE Marks
  OBVIOUS
<1>1. iterator = None /\ stored = None
  BY Zenon DEF Init
<1>2. QED
  BY <1>1 DEF Marks

LEMMA MarksDecide == ASSUME TypeInv, Marks, FrameDecided PROVE Marks'
<1>0. None \notin Frame
  BY LoopAssumption
<1>a. ASSUME stored' = stored, iterator' # None => Marked(iterator')
      PROVE  Marks'
  BY <1>a DEF Marks
<1>1. CASE EndsHere
  BY <1>1 DEF EndsHere, SavesFrame, Marks
<1>2. CASE TakesItem /\ stored' = stored
  BY <1>2 DEF TakesItem, Marks
<1>3. CASE LosesAction /\ stored' = stored
  <2>1. iterator \in Frame
    BY <1>3 DEF LosesAction, InIterator, TypeInv, Values, FrameSlot
  <2>2. iterator'.halted
    BY <1>3, <2>1 DEF LosesAction, Frame
  <2>3. QED
    BY <1>3, <1>a, <2>2 DEF Marked
<1>4. CASE Joins /\ stored' = stored
  BY <1>4, <1>a DEF Joins
<1>5. CASE TakesBatch /\ stored' = stored
  <2>1. PICK f \in Frame : /\ Refuses(f) \/ Starves(f) \/ Feeds(f)
                           /\ f = iterator \/ New(f)
    BY <1>5 DEF TakesBatch
  <2>2. Marked(f)
    BY <1>0, <2>1, MarkedNew DEF Marks
  <2>3. CASE Refuses(f)
    <3>1. iterator'.halted
      BY <2>3 DEF Refuses
    <3>2. QED
      BY <1>5, <1>a, <3>1 DEF Marked
  <2>4. CASE Starves(f) \/ Feeds(f)
    <3>1. iterator' = f
      BY <2>4 DEF Starves, Feeds
    <3>2. QED
      BY <1>5, <1>a, <2>2, <3>1
  <2>5. QED
    BY <2>1, <2>3, <2>4
<1>6. CASE RunsCommand /\ stored' = stored
  <2>1. iterator' = iterator \/ New(iterator')
    BY <1>6 DEF RunsCommand
  <2>2. iterator' # None => Marked(iterator')
    BY <2>1, MarkedNew DEF Marks
  <2>3. QED
    BY <1>6, <1>a, <2>2
<1>7. QED
  BY <1>1, <1>2, <1>3, <1>4, <1>5, <1>6 DEF FrameDecided

LEMMA MarksStep == ASSUME TypeInv, Marks, [Next]_vars PROVE Marks'
<1>1. CASE FrameIdle
  BY <1>1 DEF FrameIdle, FrameKept, Marks
<1>2. CASE FrameResumed
  BY <1>2 DEF FrameResumed, Marks
<1>3. CASE FrameLost
  BY <1>3 DEF FrameLost, Marks
<1>4. CASE FrameDecided
  BY <1>4, MarksDecide
<1>5. CASE FrameRecords
  <2>1. stored' = stored
    BY <1>5 DEF FrameRecords
  <2>2. PICK e \in Entry : iterator' = recordIteratorOutcome(iterator, e.result)
    BY <1>5 DEF FrameRecords
  <2>3. CASE iterator = None \/ iterator.next >= iterator.items
    <3>1. iterator' = iterator
      BY <2>2, <2>3 DEF recordIteratorOutcome
    <3>2. QED
      BY <2>1, <3>1 DEF Marks
  <2>4. CASE ~(iterator = None \/ iterator.next >= iterator.items)
    <3>1. iterator \in Frame /\ iterator.next < iterator.items /\ e.result \in Signal
      <4>1. iterator \in Frame /\ iterator.next \in Nat /\ iterator.items \in Nat
        BY <2>4 DEF TypeInv, Values, FrameSlot, Frame
      <4>2. QED
        BY <2>4, <4>1 DEF Entry
    <3>2. /\ iterator' \in Frame /\ iterator'.key = iterator.key
          /\ iterator'.outcomes = Append(iterator.outcomes, e.result)
          /\ iterator'.halted <=> iterator.halted \/ Halts(EachOf(iterator), e.result)
      BY <2>2, <3>1, OutcomeOf
    <3>3. Marked(iterator')
      BY <2>4, <3>1, <3>2, MarkedAppend DEF Marks
    <3>4. QED
      BY <2>1, <3>3 DEF Marks
  <2>5. QED
    BY <2>3, <2>4
<1>6. CASE FrameRan
  BY <1>6 DEF FrameRan, FrameKept, Marks
<1>7. CASE FrameSaved
  BY <1>7 DEF FrameSaved, FrameKept, Marks
<1>8. CASE FrameFinished
  BY <1>8 DEF FrameFinished, FrameKept, Marks
<1>9. QED
  BY <1>1, <1>2, <1>3, <1>4, <1>5, <1>6, <1>7, <1>8, FrameEffects

LEMMA HaltedTakesNothing ==
    ASSUME SequentialRows, TypeInv, [Next]_vars, iterator # None, iterator.halted,
           pc = "loop", pc' = "exec"
    PROVE  job'.after = "stop"
<1>1. ~FrameIdle /\ ~FrameResumed /\ ~FrameLost /\ ~FrameRecords /\ ~FrameRan
      /\ ~FrameSaved /\ ~FrameFinished
  BY DEF FrameIdle, FrameResumed, FrameLost, FrameRecords, FrameRan, FrameSaved,
         FrameFinished
<1>2. FrameDecided
  BY <1>1, FrameEffects
<1>3. ~EndsHere /\ ~TakesItem /\ ~LosesAction
  BY DEF EndsHere, TakesItem, LosesAction, OpenFrame
<1>4. ~TakesBatch
  BY DEF TakesBatch, SequentialRows, EachOf, Frame
<1>5. Joins \/ RunsCommand
  BY <1>2, <1>3, <1>4 DEF FrameDecided
<1>6. QED
  BY <1>5 DEF Joins, RunsCommand

(* A sequential frame ends as its outcomes say: no item of it is dispatched *)
(* after one whose outcome halts it, whatever crashes and resumes lie       *)
(* between, and it reports all_success only when every item succeeded.      *)
THEOREM FramesEndAsTheySay ==
    ASSUME SequentialRows, OutcomesAreDistinct, ActionsStay PROVE Spec => FramesEndTruly
<1>1. TypeInv /\ Marks /\ [Next]_vars => Marks'
  BY MarksStep
<1>2. TypeInv /\ Marks /\ [Next]_vars
        => [/\ iterator # None
            /\ \E i \in DOMAIN iterator.outcomes :
                   Halts(EachOf(iterator), iterator.outcomes[i])
            /\ pc = "loop" /\ pc' = "exec"
            => job'.after = "stop"]_vars
  BY HaltedTakesNothing DEF Marks, Marked
<1>3. Spec => NoItemAfterHalt
  BY <1>1, <1>2, MarksInit, TypeInvariant, PTL DEF Spec, NoItemAfterHalt
<1>4. QED
  BY <1>3, AllSuccessIsAll, PTL DEF FramesEndTruly

-----------------------------------------------------------------------------
(* The worker pool returns a prefix, for every batch size and number of     *)
(* workers, and that is what ExecuteBatch takes.                            *)

(* Every item fed is in exactly one place: with one worker, or done.        *)
Accounted ==
    /\ \A w \in Worker : place[w] = "run" <=> item[w] # NoItem
    /\ \A w \in Worker : place[w] = "run" => item[w] <= fed
    /\ \A i \in done : i <= fed
    /\ \A i \in 1 .. fed : i \in done \/ \E w \in Worker : item[w] = i

(* The feeder only closes the channel when the items or the context ran     *)
(* out, the context only ends for a halting result or with the run, and a   *)
(* worker only leaves a closed channel.                                     *)
Reasons ==
    /\ feeder = "closed" => fed = Items \/ ctxDone
    /\ feeder = "parked" => fed < Items
    /\ ctxDone => halted # {} \/ parentDone
    /\ \A w \in Worker : place[w] = "cancel" => halted # {}
    /\ \A w \in Worker : place[w] = "exited" => feeder = "closed"

PoolInv == PoolTypeOK /\ Accounted /\ DispatchedOnce /\ Reasons

LEMMA PoolInvInit == InitPool => PoolInv
<1> SUFFICES ASSUME InitPool PROVE PoolInv
  OBVIOUS
<1> USE PoolAssumption DEF InitPool
<1>1. PoolTypeOK
  <2>1. place \in [Worker -> Places]
    BY DEF Places
  <2>2. item \in [Worker -> 1 .. Items \cup {NoItem}]
    OBVIOUS
  <2>3. ctxDone \in BOOLEAN /\ parentDone \in BOOLEAN
    BY Zenon
  <2>4. fed \in 0 .. Items /\ feeder \in {"select", "parked", "closed"}
    OBVIOUS
  <2>5. done \subseteq 1 .. Items /\ halted \subseteq done
    BY Zenon
  <2> QED
    BY <2>1, <2>2, <2>3, <2>4, <2>5, Zenon DEF PoolTypeOK
<1>2. Accounted
  <2>1. \A i \in 1 .. fed : FALSE
    <3>1. fed = 0
      OBVIOUS
    <3>2. \A i \in 1 .. 0 : FALSE
      OBVIOUS
    <3> QED
      BY <3>1, <3>2, Zenon
  <2>2. \A w \in Worker : place[w] = "recv" /\ item[w] = NoItem
    OBVIOUS
  <2> QED
    BY <2>1, <2>2 DEF Accounted
<1>3. DispatchedOnce
  BY DEF DispatchedOnce
<1>4. Reasons
  BY DEF Reasons
<1> QED
  BY <1>1, <1>2, <1>3, <1>4 DEF PoolInv

(* Handing the next item to a worker that runs none keeps the account.      *)
LEMMA HandInv ==
    ASSUME PoolInv, NEW w \in Worker, place[w] # "run", fed < Items, Hand(w),
           done' = done, halted' = halted, ctxDone' = ctxDone, parentDone' = parentDone,
           feeder \in {"select", "parked"}, feeder' = "select"
    PROVE  PoolInv'
<1> USE PoolAssumption
<1>0. /\ item' = [item EXCEPT ![w] = fed + 1]
      /\ place' = [place EXCEPT ![w] = "run"]
      /\ fed' = fed + 1
  BY DEF Hand, NextItem
<1>1. PoolTypeOK /\ Accounted /\ DispatchedOnce /\ Reasons
  BY DEF PoolInv
<1>2. PoolTypeOK'
  BY <1>0, <1>1 DEF PoolTypeOK, Places
<1>3. Accounted'
  <2>1. \A v \in Worker : place'[v] = "run" <=> item'[v] # NoItem
    BY <1>0, <1>1 DEF PoolTypeOK, Accounted
  <2>2. \A v \in Worker : place'[v] = "run" => item'[v] <= fed'
    BY <1>0, <1>1 DEF PoolTypeOK, Accounted
  <2>3. \A i \in done' : i <= fed'
    BY <1>0, <1>1 DEF PoolTypeOK, Accounted
  <2>4. \A i \in 1 .. fed' : i \in done' \/ \E v \in Worker : item'[v] = i
    <3> TAKE i \in 1 .. fed'
    <3>1. CASE i = fed + 1
      BY <1>0, <1>1, <3>1 DEF PoolTypeOK
    <3>2. CASE i \in 1 .. fed /\ i \notin done
      <4>1. PICK v \in Worker : item[v] = i
        BY <1>1, <3>2 DEF Accounted
      <4>2. v # w
        BY <1>1, <4>1, <3>2 DEF Accounted, PoolTypeOK
      <4> QED
        BY <1>0, <1>1, <4>1, <4>2 DEF PoolTypeOK
    <3> QED
      BY <1>0, <1>1, <3>1, <3>2 DEF PoolTypeOK
  <2> QED
    BY <2>1, <2>2, <2>3, <2>4 DEF Accounted
<1>4. DispatchedOnce'
  BY <1>0, <1>1 DEF PoolTypeOK, Accounted, DispatchedOnce
<1>5. Reasons'
  BY <1>0, <1>1 DEF PoolTypeOK, Reasons
<1> QED
  BY <1>2, <1>3, <1>4, <1>5 DEF PoolInv

LEMMA PoolInvNext == PoolInv /\ [NextPool]_poolVars => PoolInv'
<1> SUFFICES ASSUME PoolInv, [NextPool]_poolVars PROVE PoolInv'
  OBVIOUS
<1> USE PoolAssumption
<1>0. PoolTypeOK /\ Accounted /\ DispatchedOnce /\ Reasons
  BY DEF PoolInv
<1>1. CASE UNCHANGED poolVars
  BY <1>0, <1>1 DEF poolVars, PoolInv, PoolTypeOK, Accounted, DispatchedOnce, Reasons
<1>2. CASE FeederDone
  BY <1>0, <1>2 DEF FeederDone, PoolInv, PoolTypeOK, Accounted, DispatchedOnce, Reasons
<1>3. CASE FeederSends
  <2>1. PICK w \in Waiting : Hand(w)
    BY <1>3 DEF FeederSends
  <2> QED
    BY <1>0, <1>3, <2>1, HandInv DEF FeederSends, Waiting
<1>4. CASE FeederCancelled
  BY <1>0, <1>4 DEF FeederCancelled, PoolInv, PoolTypeOK, Accounted, DispatchedOnce, Reasons
<1>5. CASE FeederParks
  BY <1>0, <1>5 DEF FeederParks, PoolInv, PoolTypeOK, Accounted, DispatchedOnce, Reasons
<1>6. ASSUME NEW w \in Worker, Receive(w) PROVE PoolInv'
  <2>1. CASE feeder = "parked"
    BY <1>0, <1>6, <2>1, HandInv DEF Receive, Reasons
  <2>2. CASE feeder # "parked"
    BY <1>0, <1>6, <2>2 DEF Receive, PoolInv, PoolTypeOK, Places, Accounted, DispatchedOnce, Reasons
  <2> QED
    BY <2>1, <2>2
<1>7. ASSUME NEW w \in Worker, Leave(w) PROVE PoolInv'
  BY <1>0, <1>7 DEF Leave, PoolInv, PoolTypeOK, Places, Accounted, DispatchedOnce, Reasons
<1>8. ASSUME NEW w \in Worker, Publish(w) PROVE PoolInv'
  <2>1. PICK halts \in BOOLEAN :
           /\ halted' = IF halts THEN halted \cup {item[w]} ELSE halted
           /\ place' = [place EXCEPT ![w] = IF halts THEN "cancel" ELSE "recv"]
    BY <1>8 DEF Publish
  <2>2. /\ place[w] = "run" /\ done' = done \cup {item[w]}
        /\ item' = [item EXCEPT ![w] = NoItem]
        /\ UNCHANGED <<fed, feeder, ctxDone, parentDone>>
    BY <1>8 DEF Publish
  <2>3. item[w] \in 1 .. Items
    BY <1>0, <2>2 DEF PoolTypeOK, Accounted
  <2>4. PoolTypeOK'
    BY <1>0, <2>1, <2>2, <2>3 DEF PoolTypeOK, Places
  <2>5. Accounted'
    <3>1. \A v \in Worker : place'[v] = "run" <=> item'[v] # NoItem
      BY <1>0, <2>1, <2>2 DEF PoolTypeOK, Accounted
    <3>2. \A v \in Worker : place'[v] = "run" => item'[v] <= fed'
      BY <1>0, <2>1, <2>2 DEF PoolTypeOK, Accounted
    <3>3. \A i \in done' : i <= fed'
      BY <1>0, <2>2 DEF PoolTypeOK, Accounted
    <3>4. \A i \in 1 .. fed' : i \in done' \/ \E v \in Worker : item'[v] = i
      BY <1>0, <2>2 DEF PoolTypeOK, Accounted
    <3> QED
      BY <3>1, <3>2, <3>3, <3>4 DEF Accounted
  <2>6. DispatchedOnce'
    BY <1>0, <2>1, <2>2 DEF PoolTypeOK, Accounted, DispatchedOnce
  <2>7. Reasons'
    BY <1>0, <2>1, <2>2 DEF PoolTypeOK, Reasons
  <2> QED
    BY <2>4, <2>5, <2>6, <2>7 DEF PoolInv
<1>9. ASSUME NEW w \in Worker, CancelPool(w) PROVE PoolInv'
  BY <1>0, <1>9 DEF CancelPool, WakeFeeder, PoolInv, PoolTypeOK, Places, Accounted, DispatchedOnce, Reasons
<1>10. CASE CancelRun
  BY <1>0, <1>10 DEF CancelRun, WakeFeeder, PoolInv, PoolTypeOK, Accounted, DispatchedOnce, Reasons
<1> QED
  BY <1>1, <1>2, <1>3, <1>4, <1>5, <1>6, <1>7, <1>8, <1>9, <1>10
     DEF NextPool, Feed, Work, Returned

(* The results the loop commits are those of a prefix of the batch, and a   *)
(* shorter prefix has a reason: what AgentLoop's ExecuteBatch takes for     *)
(* granted of loop_iterator_parallel.go:138-205.                            *)
THEOREM PoolReturnsPrefix == PoolSpec => []BatchIsPrefix
<1>1. PoolInv => BatchIsPrefix
  <2> SUFFICES ASSUME PoolInv, Exited
               PROVE  done = 1 .. fed /\ (fed < Items => halted # {} \/ parentDone)
    BY DEF BatchIsPrefix
  <2>1. PoolTypeOK /\ Accounted /\ Reasons
    BY DEF PoolInv
  <2>2. \A w \in Worker : item[w] = NoItem
    BY <2>1 DEF Exited, Accounted
  <2>3. done = 1 .. fed
    <3>1. ASSUME NEW i \in done PROVE i \in 1 .. fed
      BY <2>1 DEF PoolTypeOK, Accounted
    <3>2. ASSUME NEW i \in 1 .. fed PROVE i \in done
      <4>1. i \in 1 .. Items
        BY <2>1, PoolAssumption DEF PoolTypeOK
      <4>2. i # NoItem
        BY <4>1, PoolAssumption
      <4> QED
        BY <2>1, <2>2, <4>2 DEF Accounted
    <3> QED
      BY <3>1, <3>2
  <2>4. feeder = "closed"
    BY <2>1, PoolAssumption DEF Exited, Reasons
  <2> QED
    BY <2>1, <2>3, <2>4, PoolAssumption DEF PoolTypeOK, Reasons
<1> QED
  BY <1>1, PoolInvInit, PoolInvNext, PTL DEF PoolSpec

(* No item is ever dispatched twice, however sends, receives and            *)
(* cancellation interleave (loop_iterator_parallel.go:161-205).             *)
THEOREM PoolDispatchesOnce == PoolSpec => []DispatchedOnce
<1>1. PoolInv => DispatchedOnce
  BY DEF PoolInv
<1> QED
  BY <1>1, PoolInvInit, PoolInvNext, PTL DEF PoolSpec

(* What a returned pool leaves is a batch as ExecuteBatch takes it: with a  *)
(* result for every item, halting where the row says so, and a pool that is *)
(* cancelled only with the run, the results of the items done are a step of *)
(* the loop (loop_iterator_parallel.go:59-84, 138-160).                     *)
THEOREM ReturnedPoolIsABatch ==
    ASSUME pc = "exec", job.after = "batch", job.size = Items,
           BatchIsPrefix, Exited, fed \in 0 .. Items, halted \subseteq done,
           NEW answer \in [1 .. Items -> job.emits],
           \A i \in halted : Halts(EachOf(iterator), answer[i].signal),
           parentDone => cancelled,
           batch' = [i \in done |-> answer[i]],
           pc' = IF done = {} THEN "after" ELSE "commit",
           UNCHANGED <<state, signal, counters, iterator, status, job, suspend, store, outside>>
    PROVE  ExecuteBatch
<1> USE PoolAssumption
<1>1. done = 1 .. fed /\ (fed < Items => halted # {} \/ parentDone)
  BY DEF BatchIsPrefix
<1>2. batch' \in [1 .. fed -> job.emits] /\ \A i \in 1 .. fed : batch'[i] = answer[i]
  <2>1. 1 .. fed \subseteq 1 .. Items
    OBVIOUS
  <2> QED
    BY <1>1, <2>1
<1>3. fed < job.size => \/ cancelled
                        \/ \E i \in 1 .. fed : Halts(EachOf(iterator), batch'[i].signal)
  <2> SUFFICES ASSUME fed < Items, ~cancelled
               PROVE  \E i \in 1 .. fed : Halts(EachOf(iterator), batch'[i].signal)
    OBVIOUS
  <2>1. PICK i \in halted : TRUE
    BY <1>1
  <2> QED
    BY <1>1, <1>2, <2>1
<1>4. pc' = IF fed = 0 THEN "after" ELSE "commit"
  <2>1. done = {} <=> fed = 0
    BY <1>1
  <2> QED
    BY <2>1
<1> QED
  BY <1>2, <1>3, <1>4 DEF ExecuteBatch
=============================================================================
