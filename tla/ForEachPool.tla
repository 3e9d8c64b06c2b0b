---------------------------- MODULE ForEachPool ----------------------------
(***************************************************************************)
(* The worker pool of a parallel for_each                                  *)
(* (internal/runtime/core/loop_iterator_parallel.go): a feeder hands the   *)
(* items to the workers over an unbuffered channel in order, a worker that *)
(* sees a halting result cancels the pool's context, and the feeder closes *)
(* the channel when the items or the context run out.  AgentLoop takes the *)
(* pool as one step (ExecuteBatch): the results of a prefix of the batch.  *)
(*                                                                         *)
(* The channel and select follow Go's semantics: a select with several     *)
(* ready cases takes any of them, and one that had to park takes the first *)
(* that becomes ready.                                                     *)
(***************************************************************************)
EXTENDS Naturals, FiniteSets

CONSTANTS
    Items,      \* len(commands)
    Worker,     \* min(MaxConcurrency, len(commands)) goroutines
    NoItem        \* no item

ASSUME PoolAssumption ==
    /\ Items \in Nat
    /\ Worker # {} /\ IsFiniteSet(Worker)
    /\ NoItem \notin 1 .. Items

VARIABLES
    fed,        \* items sent to a worker so far
    feeder,     \* "select", "parked" in it, or "closed": jobs is closed
    place,      \* worker -> "recv", "waiting" in it, "run", "cancel", "exited"
    item,       \* worker -> the item it runs, or NoItem
    done,       \* items whose result is in the results channel
    halted,     \* those of done whose result halts (iteratorResultHalts)
    ctxDone,    \* the pool's context is cancelled
    parentDone  \* the run's context is cancelled

poolVars == <<fed, feeder, place, item, done, halted, ctxDone, parentDone>>

-----------------------------------------------------------------------------
InitPool ==
    /\ fed = 0 /\ feeder = "select"
    /\ place = [w \in Worker |-> "recv"]
    /\ item = [w \in Worker |-> NoItem]
    /\ done = {} /\ halted = {}
    /\ ctxDone = FALSE /\ parentDone = FALSE

NextItem == fed + 1

Hand(w) ==
    /\ item' = [item EXCEPT ![w] = NextItem]
    /\ place' = [place EXCEPT ![w] = "run"]
    /\ fed' = fed + 1

Waiting == {w \in Worker : place[w] = "waiting"}

(* feedParallelIteratorJobs: every item sent, or select over the send and   *)
(* ctx.Done().                                                              *)
FeederDone ==
    /\ feeder = "select" /\ fed = Items
    /\ feeder' = "closed"
    /\ UNCHANGED <<fed, place, item, done, halted, ctxDone, parentDone>>

FeederSends ==
    /\ feeder = "select" /\ fed < Items
    /\ \E w \in Waiting : Hand(w)
    /\ UNCHANGED <<feeder, done, halted, ctxDone, parentDone>>

FeederCancelled ==
    /\ feeder = "select" /\ fed < Items /\ ctxDone
    /\ feeder' = "closed"
    /\ UNCHANGED <<fed, place, item, done, halted, ctxDone, parentDone>>

FeederParks ==
    /\ feeder = "select" /\ fed < Items /\ ~ctxDone /\ Waiting = {}
    /\ feeder' = "parked"
    /\ UNCHANGED <<fed, place, item, done, halted, ctxDone, parentDone>>

(* A worker ranges over jobs: it takes a parked feeder's item, waits, or    *)
(* leaves when the channel is closed.                                       *)
Receive(w) ==
    /\ place[w] = "recv"
    /\ IF feeder = "parked"
       THEN Hand(w) /\ feeder' = "select"
       ELSE /\ place' = [place EXCEPT ![w] = IF feeder = "closed" THEN "exited" ELSE "waiting"]
            /\ UNCHANGED <<fed, feeder, item>>
    /\ UNCHANGED <<done, halted, ctxDone, parentDone>>

NeverLeaves(w) == place[w] = "exited" /\ UNCHANGED poolVars   \* mutant: jobs stays open
Leave(w) ==
    /\ place[w] = "waiting" /\ feeder = "closed"
    /\ place' = [place EXCEPT ![w] = "exited"]
    /\ UNCHANGED <<fed, feeder, item, done, halted, ctxDone, parentDone>>

ResultDropped(w) ==   \* mutant: a cancelled worker publishes nothing
    /\ place[w] = "run"
    /\ done' = IF ctxDone THEN done ELSE done \cup {item[w]}
    /\ halted' = IF ctxDone THEN halted ELSE halted \cup {item[w]}
    /\ place' = [place EXCEPT ![w] = "cancel"]
    /\ item' = [item EXCEPT ![w] = NoItem]
    /\ UNCHANGED <<fed, feeder, ctxDone, parentDone>>

(* The dispatch returns; its result is published before the context is      *)
(* cancelled.  A cancelled sibling publishes a result too.                  *)
Publish(w) ==
    /\ place[w] = "run"
    /\ done' = done \cup {item[w]}
    /\ \E halts \in BOOLEAN :
           /\ halted' = IF halts THEN halted \cup {item[w]} ELSE halted
           /\ place' = [place EXCEPT ![w] = IF halts THEN "cancel" ELSE "recv"]
    /\ item' = [item EXCEPT ![w] = NoItem]
    /\ UNCHANGED <<fed, feeder, ctxDone, parentDone>>

(* Closing ctx.Done() wakes a parked feeder.                                *)
WakeFeeder == feeder' = IF feeder = "parked" THEN "closed" ELSE feeder

CancelPool(w) ==
    /\ place[w] = "cancel"
    /\ place' = [place EXCEPT ![w] = "recv"]
    /\ ctxDone' = TRUE
    /\ WakeFeeder
    /\ UNCHANGED <<fed, item, done, halted, parentDone>>

Exited == \A w \in Worker : place[w] = "exited"

CancelRun ==
    /\ ~parentDone /\ ~Exited
    /\ parentDone' = TRUE /\ ctxDone' = TRUE
    /\ WakeFeeder
    /\ UNCHANGED <<fed, place, item, done, halted>>

(* runParallelIteratorCommands returns once wg.Wait closes the results.     *)
Returned == Exited /\ UNCHANGED poolVars

Feed == FeederDone \/ FeederSends \/ FeederCancelled \/ FeederParks
Work(w) == Receive(w) \/ Leave(w) \/ Publish(w) \/ CancelPool(w)

NextPool == Feed \/ (\E w \in Worker : Work(w)) \/ CancelRun \/ Returned

PoolSpec == InitPool /\ [][NextPool]_poolVars

(* Go schedules every runnable goroutine; a dispatch returns because the    *)
(* command timeout bounds it (dispatch.go).                                 *)
FairPoolSpec == PoolSpec /\ WF_poolVars(Feed) /\ \A w \in Worker : WF_poolVars(Work(w))

-----------------------------------------------------------------------------
(* Properties. *)

Places == {"recv", "waiting", "run", "cancel", "exited"}

PoolTypeOK ==
    /\ fed \in 0 .. Items
    /\ feeder \in {"select", "parked", "closed"}
    /\ place \in [Worker -> Places]
    /\ item \in [Worker -> 1 .. Items \cup {NoItem}]
    /\ done \subseteq 1 .. Items /\ halted \subseteq done
    /\ ctxDone \in BOOLEAN /\ parentDone \in BOOLEAN

(* The results are those of a prefix of the batch, and of the whole batch   *)
(* unless a result halts or the run is cancelled: the outcomes the loop     *)
(* commits in order leave no item out, and the frame continues or resumes   *)
(* at the next item not dispatched (loop_iterator_parallel.go:59-84).       *)
BatchIsPrefix ==
    Exited => /\ done = 1 .. fed
              /\ fed < Items => halted # {} \/ parentDone

(* No item is dispatched to two workers, or again.                          *)
DispatchedOnce ==
    \A v, w \in Worker :
        place[w] = "run" => /\ item[w] \notin done
                            /\ v # w => item[v] # item[w]

(* The pool never hangs: the feeder and every worker come to an end.        *)
PoolReturns == <>[]Exited

=============================================================================
