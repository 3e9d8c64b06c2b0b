------------------------ MODULE DoltCheckpoint_proofs ------------------------
(***************************************************************************)
(* The Dolt adapter implements the checkpoint port: with plain rows and    *)
(* with items in a terminal body, for any number of steps, crashes, failed *)
(* statements and rollbacks.                                               *)
(***************************************************************************)
EXTENDS DoltCheckpoint, FiniteSetTheorems, SequenceTheorems, TLAPS

-----------------------------------------------------------------------------
(* The data: logs, their rows and the chain of commits that stores them. *)

(* The entry at a place of the log is of that iteration.                    *)
Numbered(L) == \A i \in 1 .. Len(L) : L[i].iteration = i

(* The rows of a log, and the commit of its first n entries.                *)
RowsOf(L, n) == [j \in 0 .. n - 1 |-> L[j + 1]]
StepCommit(L, n) ==
    [step |-> n - 1,
     tables |-> [machine |-> [final |-> FALSE, iteration |-> n], rows |-> RowsOf(L, n)]]
ChainOf(L) == [n \in 1 .. Len(L) |-> StepCommit(L, n)]

LEMMA CountBelow ==
    ASSUME NEW n \in Nat, NEW k \in 0 .. n - 1
    PROVE  Cardinality({j \in 0 .. n - 1 : j < k}) = k
<1>1. {j \in 0 .. n - 1 : j < k} = 0 .. k - 1
  OBVIOUS
<1>2. Cardinality(0 .. k - 1) = IF 0 > k - 1 THEN 0 ELSE k - 1 - 0 + 1
  BY FS_Interval
<1>3. Cardinality(0 .. k - 1) = k
  <2>1. CASE k = 0
    BY <1>2, <2>1
  <2>2. CASE k > 0
    BY <1>2, <2>2
  <2>3. QED
    BY <2>1, <2>2
<1>4. QED
  BY <1>1, <1>3, Zenon

(* Rows indexed from 0 without a hole load as the log they are of.          *)
LEMMA RowsLoad ==
    ASSUME NEW L \in Seq(Entry)
    PROVE  loadExecution(RowsOf(L, Len(L))) = L
<1> DEFINE n == Len(L)
           rows == RowsOf(L, n)
<1>1. n \in Nat /\ L \in [1 .. n -> Entry]
  BY LenProperties
<1>2. DOMAIN rows = 0 .. n - 1 /\ \A j \in 0 .. n - 1 : rows[j] = L[j + 1]
  BY DEF RowsOf
<1>3. Cardinality(DOMAIN rows) = n
  <2>1. Cardinality(0 .. n - 1) = IF 0 > n - 1 THEN 0 ELSE n - 1 - 0 + 1
    BY <1>1, FS_Interval
  <2>2. QED
    BY <1>1, <1>2, <2>1
<1> HIDE DEF n, rows
<1>4. ASSUME NEW i \in 1 .. n
      PROVE  RowAfter(rows, i - 1) = L[i]
  <2>1. i - 1 \in 0 .. n - 1
    BY <1>1
  <2>2. \A k \in DOMAIN rows : Cardinality({j \in DOMAIN rows : j < k}) = k
    BY <1>1, <1>2, CountBelow
  <2>3. (CHOOSE k \in DOMAIN rows : Cardinality({j \in DOMAIN rows : j < k}) = i - 1) = i - 1
    BY <1>2, <2>1, <2>2
  <2>4. rows[i - 1] = L[i - 1 + 1] /\ i - 1 + 1 = i
    BY <1>1, <1>2, <2>1
  <2>5. QED
    BY <2>3, <2>4 DEF RowAfter
<1>5. loadExecution(rows) = [i \in 1 .. n |-> RowAfter(rows, i - 1)]
  BY <1>3 DEF loadExecution
<1>6. loadExecution(rows) = [i \in 1 .. n |-> L[i]]
  BY <1>4, <1>5
<1>7. QED
  BY <1>1, <1>6 DEF n, rows

LEMMA NoRowsLoad == loadExecution(NoRows) = <<>>
<1>1. DOMAIN NoRows = {}
  BY DEF NoRows
<1>2. loadExecution(NoRows) = [i \in 1 .. 0 |-> RowAfter(NoRows, i - 1)]
  BY <1>1, FS_EmptySet DEF loadExecution
<1>3. QED
  BY <1>2

LEMMA RowsType ==
    ASSUME NEW L \in Seq(Entry), Numbered(L), NEW n \in 1 .. Len(L)
    PROVE  StepCommit(L, n) \in Commit
<1>1. Len(L) \in Nat /\ L \in [1 .. Len(L) -> Entry] /\ MaxSteps \in Nat
  BY LenProperties, DoltAssumption
<1>2. L[n] \in Entry /\ L[n].iteration = n
  BY <1>1 DEF Numbered
<1>3. n \in 1 .. MaxSteps
  BY <1>1, <1>2 DEF Entry
<1>4. RowsOf(L, n) \in [0 .. n - 1 -> Entry]
  BY <1>1 DEF RowsOf
<1>5. 0 .. n - 1 \in SUBSET (0 .. MaxSteps)
  BY <1>1, <1>3
<1>6. RowsOf(L, n) \in Rows
  BY <1>4, <1>5 DEF Rows
<1>7. [final |-> FALSE, iteration |-> n] \in Machine
  BY <1>1, <1>3 DEF Machine
<1>8. n - 1 \in Nat
  BY <1>1
<1>9. QED
  BY <1>6, <1>7, <1>8 DEF StepCommit, Commit, Tables

LEMMA ChainType ==
    ASSUME NEW L \in Seq(Entry), Numbered(L)
    PROVE  /\ ChainOf(L) \in Seq(Commit) /\ Len(ChainOf(L)) = Len(L)
           /\ \A n \in 1 .. Len(L) : ChainOf(L)[n] = StepCommit(L, n)
           /\ L = <<>> <=> ChainOf(L) = <<>>
<1>1. Len(L) \in Nat
  BY LenProperties
<1>2. ChainOf(L) \in [1 .. Len(L) -> Commit]
  BY RowsType DEF ChainOf
<1>3. ChainOf(L) \in Seq(Commit) /\ Len(ChainOf(L)) = Len(L)
  BY <1>1, <1>2
<1>4. \A n \in 1 .. Len(L) : ChainOf(L)[n] = StepCommit(L, n)
  BY DEF ChainOf
<1>5. L = <<>> <=> Len(L) = 0
  BY EmptySeq, SeqEqual
<1>6. ChainOf(L) = <<>> <=> Len(ChainOf(L)) = 0
  BY <1>3, EmptySeq, SeqEqual
<1>7. QED
  BY <1>3, <1>4, <1>5, <1>6

(* A further entry leaves the commits before it as they are.                *)
LEMMA ChainAppend ==
    ASSUME NEW L \in Seq(Entry), Numbered(L), NEW e \in Entry, e.iteration = Len(L) + 1
    PROVE  /\ Append(L, e) \in Seq(Entry) /\ Numbered(Append(L, e))
           /\ Append(ChainOf(L), StepCommit(Append(L, e), Len(L) + 1)) = ChainOf(Append(L, e))
<1> DEFINE K == Append(L, e)
           n == Len(L)
<1>1. /\ n \in Nat /\ K \in Seq(Entry) /\ Len(K) = n + 1
      /\ \A i \in 1 .. n : K[i] = L[i]
      /\ K[n + 1] = e
  BY LenProperties, AppendProperties
<1> HIDE DEF K
<1>2. Numbered(K)
  BY <1>1 DEF Numbered
<1>3. ASSUME NEW i \in 1 .. n PROVE StepCommit(K, i) = StepCommit(L, i)
  <2>1. \A j \in 0 .. i - 1 : j + 1 \in 1 .. n
    BY <1>1
  <2>2. RowsOf(K, i) = RowsOf(L, i)
    BY <1>1, <2>1 DEF RowsOf
  <2>3. QED
    BY <2>2 DEF StepCommit
<1>4. /\ ChainOf(K) \in Seq(Commit) /\ Len(ChainOf(K)) = n + 1
      /\ \A i \in 1 .. n + 1 : ChainOf(K)[i] = StepCommit(K, i)
  BY <1>1, <1>2, ChainType
<1>5. /\ ChainOf(L) \in Seq(Commit) /\ Len(ChainOf(L)) = n
      /\ \A i \in 1 .. n : ChainOf(L)[i] = StepCommit(L, i)
  BY ChainType
<1>6. StepCommit(K, n + 1) \in Commit
  <2>1. n + 1 \in 1 .. Len(K)
    BY <1>1
  <2>2. QED
    BY <1>1, <1>2, <2>1, RowsType
<1> DEFINE C == Append(ChainOf(L), StepCommit(K, n + 1))
<1>7. /\ C \in Seq(Commit) /\ Len(C) = n + 1
      /\ \A i \in 1 .. n : C[i] = StepCommit(L, i)
      /\ C[n + 1] = StepCommit(K, n + 1)
  BY <1>5, <1>6, AppendProperties
<1> HIDE DEF C
<1>8. \A i \in 1 .. Len(C) : C[i] = ChainOf(K)[i]
  <2> SUFFICES ASSUME NEW i \in 1 .. n + 1 PROVE C[i] = ChainOf(K)[i]
    BY <1>7
  <2>1. CASE i = n + 1
    BY <2>1, <1>4, <1>7
  <2>2. CASE i \in 1 .. n
    BY <2>2, <1>3, <1>4, <1>7
  <2>3. QED
    BY <1>1, <2>1, <2>2
<1>9. C = ChainOf(K)
  BY <1>4, <1>7, <1>8, SeqEqual
<1>10. QED
  BY <1>1, <1>2, <1>9 DEF C, K

(* The chain cut at a step is the chain of the log cut there.               *)
LEMMA ChainCut ==
    ASSUME NEW L \in Seq(Entry), Numbered(L), NEW n \in 1 .. Len(L)
    PROVE  LET K == SubSeq(L, 1, n)
           IN /\ K \in Seq(Entry) /\ Numbered(K) /\ Len(K) = n
              /\ SubSeq(ChainOf(L), 1, n) = ChainOf(K)
<1> DEFINE K == SubSeq(L, 1, n)
           C == SubSeq(ChainOf(L), 1, n)
<1>1. Len(L) \in Nat /\ \A i \in 1 .. Len(L) : L[i] \in Entry
  BY LenProperties
<1>2. \A i \in 1 .. n : i \in 1 .. Len(L)
  BY <1>1
<1>3. K \in Seq(Entry) /\ Len(K) = n /\ \A i \in 1 .. n : K[i] = L[i]
  BY <1>1, <1>2, SubSeqProperties
<1>4. /\ ChainOf(L) \in Seq(Commit) /\ Len(ChainOf(L)) = Len(L)
      /\ \A i \in 1 .. Len(L) : ChainOf(L)[i] = StepCommit(L, i)
  BY ChainType
<1>5. \A i \in 1 .. Len(L) : StepCommit(L, i) \in Commit
  BY RowsType
<1>6. C \in Seq(Commit) /\ Len(C) = n /\ \A i \in 1 .. n : C[i] = StepCommit(L, i)
  BY <1>1, <1>2, <1>4, <1>5, SubSeqProperties
<1> HIDE DEF K, C
<1>7. Numbered(K)
  BY <1>1, <1>2, <1>3 DEF Numbered
<1>8. /\ ChainOf(K) \in Seq(Commit) /\ Len(ChainOf(K)) = n
      /\ \A i \in 1 .. n : ChainOf(K)[i] = StepCommit(K, i)
  BY <1>3, <1>7, ChainType
<1>9. ASSUME NEW i \in 1 .. n PROVE StepCommit(K, i) = StepCommit(L, i)
  <2>1. \A j \in 0 .. i - 1 : j + 1 \in 1 .. n
    BY <1>1
  <2>2. RowsOf(K, i) = RowsOf(L, i)
    BY <1>3, <2>1 DEF RowsOf
  <2>3. QED
    BY <2>2 DEF StepCommit
<1>10. C = ChainOf(K)
  BY <1>6, <1>8, <1>9, SeqEqual
<1>11. QED
  BY <1>3, <1>7, <1>10 DEF K, C
(* What begins a log begins every log that continues it.                    *)
LEMMA PrefixOfAppend ==
    ASSUME NEW A \in Seq(Entry), NEW L \in Seq(Entry), NEW e \in Entry, IsPrefix(A, L)
    PROVE  IsPrefix(A, Append(L, e))
<1> DEFINE K == Append(L, e)
           n == Len(A)
<1>1. /\ n \in Nat /\ Len(L) \in Nat /\ K \in Seq(Entry) /\ Len(K) = Len(L) + 1
      /\ \A i \in 1 .. Len(L) : K[i] = L[i]
  BY LenProperties, AppendProperties
<1> HIDE DEF K, n
<1>2. n <= Len(L) /\ SubSeq(A, 1, n) = SubSeq(L, 1, n)
  BY DEF IsPrefix, n
<1>3. \A i \in 1 .. n : i \in 1 .. Len(L) /\ L[i] \in Entry /\ K[i] = L[i]
  BY <1>1, <1>2, ElementOfSeq
<1>4. /\ SubSeq(L, 1, n) \in Seq(Entry) /\ Len(SubSeq(L, 1, n)) = IF 1 <= n THEN n - 1 + 1 ELSE 0
      /\ \A i \in 1 .. n - 1 + 1 : SubSeq(L, 1, n)[i] = L[1 + i - 1]
  BY <1>1, <1>3, SubSeqProperties
<1>5. /\ SubSeq(K, 1, n) \in Seq(Entry) /\ Len(SubSeq(K, 1, n)) = IF 1 <= n THEN n - 1 + 1 ELSE 0
      /\ \A i \in 1 .. n - 1 + 1 : SubSeq(K, 1, n)[i] = K[1 + i - 1]
  BY <1>1, <1>3, SubSeqProperties
<1>6. \A i \in 1 .. Len(SubSeq(L, 1, n)) : SubSeq(L, 1, n)[i] = SubSeq(K, 1, n)[i]
  BY <1>1, <1>3, <1>4, <1>5
<1>7. SubSeq(L, 1, n) = SubSeq(K, 1, n)
  BY <1>4, <1>5, <1>6, SeqEqual
<1>8. QED
  BY <1>1, <1>2, <1>7 DEF IsPrefix, K, n

-----------------------------------------------------------------------------
(* What Load answers. *)

(* The database holds exactly this log.                                     *)
Holds(L, main_, branch_) ==
    /\ main_ = None
    /\ L \in Seq(Entry) /\ Numbered(L)
    /\ IF branch_ = None THEN L = <<>> ELSE branch_ = ChainOf(L)

(* The run's end is in the database: in its branch, or on main without it.  *)
LastOf(branch_) == branch_[Len(branch_)].tables
Ended(main_, branch_) ==
    \/ /\ branch_ # None /\ branch_ # <<>>
       /\ LastOf(branch_) \in Tables
       /\ LastOf(branch_).machine.final /\ LastOf(branch_).rows = NoRows
    \/ branch_ = None /\ main_ # None /\ main_.machine.final

(* Stored, as a function of the database.                                   *)
Answer(main_, branch_) ==
    LET tip == IF branch_ = <<>> THEN NoTables ELSE LastOf(branch_)
        tables == IF branch_ # None THEN tip ELSE IF main_ # None THEN main_ ELSE NoTables
    IN IF tables.machine = None THEN None
       ELSE IF tables.machine.final THEN Finalized
       ELSE loadExecution(tables.rows)

LEMMA StoredIsAnswer == Stored = Answer(main, branch)
  BY DEF Stored, Answer, Tip, Last, LastOf

LEMMA EmptyIsNoBranch == <<>> # None /\ \A C \in Seq(Commit) : C # None
<1>1. <<>> \in Seq(Commit)
  BY EmptySeq
<1>2. QED
  BY <1>1, DoltAssumption

LEMMA HeldTip ==
    ASSUME NEW L, NEW m, NEW b, Holds(L, m, b), L # <<>>
    PROVE  /\ b # None /\ b # <<>> /\ Len(L) \in Nat /\ Len(L) \in 1 .. Len(L)
           /\ LastOf(b) = StepCommit(L, Len(L)).tables
           /\ LastOf(b).machine = [final |-> FALSE, iteration |-> Len(L)]
           /\ LastOf(b).machine # None
           /\ loadExecution(LastOf(b).rows) = L
<1>1. b # None /\ b = ChainOf(L) /\ L \in Seq(Entry) /\ Numbered(L)
  BY DEF Holds
<1>2. Len(L) \in Nat /\ Len(L) \in 1 .. Len(L) /\ Len(L) # 0
  <2>1. Len(L) \in Nat \ {0}
    BY <1>1, EmptySeq
  <2>2. QED
    BY <2>1
<1>3. b # <<>> /\ Len(b) = Len(L) /\ b[Len(L)] = StepCommit(L, Len(L))
  BY <1>1, <1>2, ChainType
<1>4. StepCommit(L, Len(L)) \in Commit
  BY <1>1, <1>2, RowsType
<1>5. StepCommit(L, Len(L)).tables.machine \in Machine
  BY <1>4 DEF Commit, Tables
<1>6. StepCommit(L, Len(L)).tables.machine # None
  BY <1>5, DoltAssumption
<1>7. StepCommit(L, Len(L)).tables =
          [machine |-> [final |-> FALSE, iteration |-> Len(L)], rows |-> RowsOf(L, Len(L))]
  BY DEF StepCommit
<1>8. LastOf(b) = StepCommit(L, Len(L)).tables
  BY <1>3 DEF LastOf
<1>9. LastOf(b).rows = RowsOf(L, Len(L))
  BY <1>7, <1>8
<1>10. QED
  BY <1>1, <1>2, <1>3, <1>6, <1>7, <1>8, <1>9, RowsLoad

LEMMA AnswerHeld ==
    ASSUME NEW L, NEW m, NEW b, Holds(L, m, b)
    PROVE  Answer(m, b) = IF L = <<>> THEN None ELSE L
<1>1. CASE L = <<>>
  <2>1. b = None \/ b = <<>>
    BY <1>1, ChainType DEF Holds
  <2>2. m = None
    BY DEF Holds
  <2>3. NoTables.machine = None
    BY DEF NoTables
  <2>4. QED
    BY <1>1, <2>1, <2>2, <2>3, EmptyIsNoBranch DEF Answer
<1>2. CASE L # <<>>
  <2>1. /\ b # None /\ b # <<>>
        /\ LastOf(b).machine = [final |-> FALSE, iteration |-> Len(L)]
        /\ LastOf(b).machine # None
        /\ loadExecution(LastOf(b).rows) = L
    BY <1>2, HeldTip
  <2>2. ~LastOf(b).machine.final
    BY <2>1
  <2>3. QED
    BY <1>2, <2>1, <2>2 DEF Answer
<1>3. QED
  BY <1>1, <1>2

LEMMA AnswerEnded ==
    ASSUME NEW m, NEW b, Ended(m, b), m # None => m \in Tables
    PROVE  Answer(m, b) = Finalized
<1>1. \A t \in Tables : t.machine # None
  BY DoltAssumption DEF Tables
<1>2. CASE b # None
  BY <1>1, <1>2 DEF Ended, Answer
<1>3. CASE b = None
  BY <1>1, <1>3 DEF Ended, Answer
<1>4. QED
  BY <1>2, <1>3
-----------------------------------------------------------------------------
(* The invariant. *)

(* The entry of an item whose Save fails is never stored, and the next item *)
(* is saved after it all the same: unless the items run in a terminal body, *)
(* where the first Save ends the run, no statement may fail.                *)
ItemsAreSaved == "items" \in Callers => MaxFailures = 0

Typed ==
    /\ log \in Seq(Entry) /\ position \in Machine /\ caller \in Callers
    /\ restarts \in 0 .. MaxRestarts
    /\ branch # None => branch \in Seq(Commit)
    /\ main # None => main \in Tables /\ main.machine.final /\ main.rows = NoRows

(* The engine's log against the stored one, while the run goes on.          *)
Follows(L) ==
    /\ ~finalizing /\ ~finalized /\ ~merged
    /\ pc \in {"down", "idle", "save", "prepare", "commit"}
    /\ pc = "commit" => branch # None
    /\ caller = "items" => ~position.final
    /\ pc = "idle" => IF position.final THEN InForEach
                      ELSE log = L /\ position.iteration = Len(L)
    /\ pc \in {"save", "prepare", "commit"} /\ ~position.final =>
           /\ InForEach => caller = "items"
           /\ position.iteration = Len(L) + 1
           /\ \E e \in Entry : e.iteration = Len(L) + 1 /\ log = Append(L, e)
    /\ acked # None => /\ ~acked.final /\ acked.log \in Seq(Entry) /\ acked.log # <<>>
                       /\ IsPrefix(acked.log, L)

Going(L) == Holds(L, main, branch) /\ Follows(L)

(* Once the end is in the database only a Save of the end is under way, and *)
(* none after the end was reported.                                         *)
Over ==
    /\ Ended(main, branch) /\ caller # "items"
    /\ merged => main # None
    /\ pc = "idle" => InForEach
    /\ pc \in {"idle", "save", "prepare", "commit", "merge", "delete"} => position.final
    /\ pc \in {"merge", "delete"} => finalizing
    /\ pc \in {"idle", "save"} /\ ~finalizing /\ ~finalized => main = None
    /\ pc \in {"prepare", "commit"} => main = None /\ ~finalizing /\ ~finalized
    /\ pc = "delete" => main # None
    /\ acked # None /\ acked.final =>
           /\ branch = None /\ pc \in {"down", "ended", "idle", "save"}
           /\ pc \in {"idle", "save"} => finalized

Inv == Typed /\ failures \in Nat /\ ((\E L \in Seq(Entry) : Going(L)) \/ Over)

(* The commit of a further step, and the commit of the end.                 *)
LEMMA NextIsStep ==
    ASSUME NEW L, Holds(L, main, branch), branch # None, position \in Machine,
           ~position.final, position.iteration = Len(L) + 1,
           NEW e \in Entry, log = Append(L, e)
    PROVE  NextCommit = StepCommit(Append(L, e), Len(L) + 1)
<1> DEFINE n == Len(L)
           K == Append(L, e)
<1>1. /\ L \in Seq(Entry) /\ n \in Nat /\ K # <<>> /\ Len(K) = n + 1
      /\ K[n + 1] = e /\ \A i \in 1 .. n : K[i] = L[i]
  BY LenProperties, AppendProperties DEF Holds
<1>2. DOMAIN Tip.rows = 0 .. n - 1 /\ \A j \in 0 .. n - 1 : Tip.rows[j] = L[j + 1]
  <2>1. CASE L = <<>>
    <3>1. branch = <<>> /\ n = 0
      BY <2>1, ChainType, EmptySeq DEF Holds
    <3>2. Tip.rows = NoRows /\ DOMAIN NoRows = {}
      BY <3>1 DEF Tip, NoTables, NoRows
    <3>3. QED
      BY <3>1, <3>2
  <2>2. CASE L # <<>>
    <3>1. branch # <<>> /\ LastOf(branch) = StepCommit(L, n).tables
      BY <2>2, HeldTip
    <3>2. Tip.rows = RowsOf(L, n)
      BY <3>1 DEF Tip, Last, LastOf, StepCommit
    <3>3. QED
      BY <3>2 DEF RowsOf
  <2>3. QED
    BY <2>1, <2>2
<1> DEFINE kept == reconcileExecution(Tip.rows, K)
<1>3. DOMAIN kept = 0 .. n - 1 /\ \A j \in 0 .. n - 1 : kept[j] = L[j + 1]
  BY <1>1, <1>2 DEF reconcileExecution
<1> HIDE DEF K, kept
<1>4. writeStep(kept, K) = RowsOf(K, n + 1)
  <2>1. Last(K) = e
    BY <1>1 DEF Last
  <2>2. DOMAIN kept \cup {Len(K) - 1} = 0 .. n
    BY <1>1, <1>3
  <2>3. writeStep(kept, K) = [i \in 0 .. n |-> IF i + 1 = n + 1 THEN e ELSE kept[i]]
    BY <1>1, <2>1, <2>2 DEF writeStep
  <2>4. ASSUME NEW i \in 0 .. n
        PROVE  (IF i + 1 = n + 1 THEN e ELSE kept[i]) = K[i + 1]
    <3>1. CASE i = n
      BY <1>1, <3>1
    <3>2. CASE i # n
      <4>1. i \in 0 .. n - 1 /\ i + 1 \in 1 .. n /\ i + 1 # n + 1
        BY <1>1, <3>2
      <4>2. QED
        BY <1>1, <1>3, <4>1
    <3>3. QED
      BY <3>1, <3>2
  <2>5. writeStep(kept, K) = [i \in 0 .. n |-> K[i + 1]]
    BY <2>3, <2>4
  <2>6. n + 1 - 1 = n
    BY <1>1
  <2>7. QED
    BY <2>5, <2>6 DEF RowsOf
<1>5. ~finalizationOnly
  BY DEF finalizationOnly
<1>6. log = K
  BY DEF K
<1>7. NextCommit = [step |-> Len(K) - 1,
                    tables |-> [machine |-> position, rows |-> writeStep(kept, K)]]
  BY <1>1, <1>5, <1>6 DEF NextCommit, kept
<1>8. position = [final |-> FALSE, iteration |-> n + 1]
  BY DEF Machine
<1>9. QED
  BY <1>1, <1>4, <1>7, <1>8 DEF StepCommit, K

LEMMA NoRowsType == NoRows \in Rows
<1>1. NoRows \in [{} -> Entry]
  BY DEF NoRows
<1>2. {} \in SUBSET (0 .. MaxSteps)
  OBVIOUS
<1>3. QED
  BY <1>1, <1>2 DEF Rows

LEMMA NextEnds ==
    ASSUME log \in Seq(Entry), position \in Machine, position.final
    PROVE  /\ NextCommit \in Commit
           /\ NextCommit.tables.machine.final /\ NextCommit.tables.rows = NoRows
<1> DEFINE step == IF finalizationOnly \/ log = <<>> THEN None ELSE Len(log) - 1
<1>1. NextCommit = [step |-> step, tables |-> [machine |-> position, rows |-> NoRows]]
  BY DEF NextCommit, reapRunHistory
<1>2. step \in Nat \cup {None}
  BY EmptySeq
<1> HIDE DEF step
<1>3. QED
  BY <1>1, <1>2, NoRowsType DEF Commit, Tables

(* A rollback takes the run to the target step, and says so.                *)
LEMMA GoingReverts ==
    ASSUME Typed, NEW L, Going(L), Revert
    PROVE  \E n \in 1 .. Len(L) :
               /\ Going(SubSeq(L, 1, n))' /\ Typed' /\ SubSeq(L, 1, n) # <<>>
               /\ acked'.log = SubSeq(L, 1, n)
<1>1. /\ pc = "down" /\ branch # None /\ Tip.machine # None
      /\ Holds(L, main, branch) /\ Follows(L)
  BY DEF Revert, Going
<1>2. /\ L # <<>> /\ branch # <<>>
  BY <1>1, ChainType DEF Holds, Tip, NoTables
<1>3. Len(L) \in Nat /\ loadExecution(Tip.rows) = L /\ branch = ChainOf(L)
  BY <1>1, <1>2, HeldTip DEF Tip, Last, LastOf, Holds
<1>4. PICK step \in 0 .. Len(L) - 1 :
          /\ branch' = IF CommitsOf(step) = {} THEN <<>>
                       ELSE SubSeq(branch, 1, CHOOSE i \in CommitsOf(step) :
                                                  \A j \in CommitsOf(step) : j <= i)
          /\ acked' = [log |-> SubSeq(L, 1, step + 1), final |-> FALSE]
  BY <1>3 DEF Revert
<1> DEFINE n == step + 1
           K == SubSeq(L, 1, n)
<1>5. n \in 1 .. Len(L)
  BY <1>3
<1>6. CommitsOf(step) = {n}
  <2>1. DOMAIN branch = 1 .. Len(L) /\ \A i \in 1 .. Len(L) : branch[i].step = i - 1
    BY <1>3 DEF ChainOf, StepCommit
  <2>2. QED
    BY <1>3, <2>1 DEF CommitsOf
<1>7. branch' = SubSeq(ChainOf(L), 1, n)
  <2>1. (CHOOSE i \in {n} : \A j \in {n} : j <= i) = n
    BY <1>3
  <2>2. QED
    BY <1>3, <1>4, <1>6, <2>1
<1>8. /\ K \in Seq(Entry) /\ Numbered(K) /\ Len(K) = n /\ branch' = ChainOf(K)
  BY <1>1, <1>5, <1>7, ChainCut DEF Holds
<1> HIDE DEF K
<1>9. K # <<>>
  BY <1>3, <1>8, EmptySeq
<1>10. branch' \in Seq(Commit)
  BY <1>8, ChainType
<1>11. Holds(K, main, branch)'
  <2>1. branch' # None
    BY <1>10, EmptyIsNoBranch
  <2>2. main' = main
    BY DEF Revert, vars
  <2>3. QED
    BY <1>1, <1>8, <2>1, <2>2 DEF Holds
<1>12. IsPrefix(K, K)
  BY <1>3, <1>8 DEF IsPrefix
<1>13. /\ pc' = pc /\ finalizing' = finalizing /\ finalized' = finalized /\ merged' = merged
       /\ main' = main /\ log' = log /\ position' = position /\ caller' = caller
  BY DEF Revert, adapter
<1>14. acked' = [log |-> K, final |-> FALSE]
  BY <1>4 DEF K
<1>15. Follows(K)'
  BY <1>1, <1>8, <1>12, <1>13, <1>14 DEF Follows
<1>16. Typed'
  <2>1. restarts' \in 0 .. MaxRestarts
    BY DoltAssumption DEF Revert, Typed
  <2>2. QED
    BY <1>10, <1>13, <2>1 DEF Typed
<1>17. QED
  BY <1>5, <1>9, <1>11, <1>14, <1>15, <1>16 DEF Going, K
-----------------------------------------------------------------------------
(* The steps. *)

(* The process is gone: what is left is the database.                       *)
LEMMA ExitType == Exit /\ Typed => log' \in Seq(Entry) /\ position' \in Machine
<1> SUFFICES ASSUME Exit, Typed PROVE log' \in Seq(Entry) /\ position' \in Machine
  OBVIOUS
<1>1. log' = <<>> /\ position' = [final |-> FALSE, iteration |-> 0]
  BY DEF Exit
<1>2. log' \in Seq(Entry)
  BY <1>1, EmptySeq
<1>3. 0 \in 0 .. MaxSteps
  BY DoltAssumption
<1>4. QED
  BY <1>1, <1>2, <1>3 DEF Machine

(* A failed call while the run goes on: the process ends, or an item of a   *)
(* terminal body is next.                                                   *)
LEMMA GoingFails ==
    ASSUME ItemsAreSaved, MaxFailures # 0,
           Typed, NEW L, Follows(L), pc \in {"save", "prepare", "commit"}, ReturnError,
           branch' # None => branch' \in Seq(Commit), main' = main
    PROVE  /\ Typed' /\ caller' = caller
           /\ pc' # "commit"
           /\ pc' = "idle" => InForEach' /\ position'.final
           /\ pc' \in {"down", "idle"}
           /\ acked' = acked /\ ~finalizing' /\ ~finalized' /\ ~merged'
           /\ ~position.final => pc' = "down"
           /\ caller = "items" => ~position'.final
<1>1. CASE op = "save" /\ InForEach
  <2>1. /\ pc' = "idle" /\ log' = log /\ position' = position /\ adapter' = adapter
        /\ caller' = caller /\ acked' = acked /\ restarts' = restarts
    BY <1>1 DEF ReturnError
  <2>2. position.final
    <3>1. ~position.final => caller = "items"
      BY <1>1 DEF Follows
    <3>2. caller # "items"
      BY DoltAssumption DEF ItemsAreSaved, Typed
    <3>3. QED
      BY <3>1, <3>2
  <2>3. InForEach'
    BY <1>1, <2>1 DEF InForEach
  <2>4. QED
    BY <2>1, <2>2, <2>3 DEF Typed, adapter, Follows
<1>2. CASE ~(op = "save" /\ InForEach)
  <2>1. Exit /\ caller' = caller /\ acked' = acked /\ restarts' = restarts
    BY <1>2 DEF ReturnError
  <2>2. QED
    BY <2>1, ExitType DEF Typed, Exit
<1>3. QED
  BY <1>1, <1>2

LEMMA GoingCommits ==
    ASSUME Typed, NEW L, Going(L), pc = "commit", ~position.final,
           branch' = Append(branch, NextCommit), main' = main
    PROVE  \E e \in Entry :
               /\ e.iteration = Len(L) + 1 /\ log = Append(L, e)
               /\ position.iteration = Len(L) + 1
               /\ Holds(Append(L, e), main', branch')
               /\ branch' \in Seq(Commit) /\ branch' # None
               /\ L \in Seq(Entry) /\ Append(L, e) \in Seq(Entry)
<1>1. Holds(L, main, branch) /\ Follows(L) /\ branch # None
  BY DEF Going, Follows
<1>2. PICK e \in Entry : e.iteration = Len(L) + 1 /\ log = Append(L, e)
  BY <1>1 DEF Follows
<1>3. position.iteration = Len(L) + 1 /\ position \in Machine
  BY <1>1 DEF Follows, Typed
<1>4. NextCommit = StepCommit(Append(L, e), Len(L) + 1)
  BY <1>1, <1>2, <1>3, NextIsStep
<1>5. branch = ChainOf(L) /\ L \in Seq(Entry) /\ Numbered(L) /\ main = None
  BY <1>1 DEF Holds
<1>6. /\ Append(L, e) \in Seq(Entry) /\ Numbered(Append(L, e))
      /\ branch' = ChainOf(Append(L, e))
  BY <1>2, <1>4, <1>5, ChainAppend
<1>7. branch' \in Seq(Commit)
  BY <1>6, ChainType
<1>8. branch' # None
  BY <1>7, EmptyIsNoBranch
<1>9. Holds(Append(L, e), main', branch')
  BY <1>5, <1>6, <1>8 DEF Holds
<1>10. QED
  BY <1>2, <1>3, <1>5, <1>6, <1>7, <1>8, <1>9

(* The commit of the end, whatever the branch held.                         *)
LEMMA CommitEnds ==
    ASSUME Typed, branch # None, position.final, branch' = Append(branch, NextCommit)
    PROVE  /\ branch' \in Seq(Commit) /\ branch' # None
           /\ Ended(main', branch')
<1>1. NextCommit \in Commit /\ NextCommit.tables.machine.final /\ NextCommit.tables.rows = NoRows
  BY NextEnds DEF Typed
<1>2. branch \in Seq(Commit)
  BY DEF Typed
<1>3. /\ branch' \in Seq(Commit) /\ branch' # <<>>
      /\ Len(branch') = Len(branch) + 1 /\ branch'[Len(branch) + 1] = NextCommit
  BY <1>1, <1>2, AppendProperties
<1>4. LastOf(branch') = NextCommit.tables
  BY <1>3 DEF LastOf
<1>5. NextCommit.tables \in Tables
  BY <1>1 DEF Commit
<1>6. QED
  BY <1>1, <1>3, <1>4, <1>5, EmptyIsNoBranch DEF Ended

LEMMA GoingStep ==
    ASSUME ItemsAreSaved, failures \in Nat, Typed, NEW L, Going(L), [Next]_vars
    PROVE  /\ Typed'
           /\ \/ Going(L)'
              \/ \E e \in Entry : Going(Append(L, e))' /\ Append(L, e) \in Seq(Entry)
              \/ \E n \in 1 .. Len(L) : Going(SubSeq(L, 1, n))'
              \/ Over'
<1>1. /\ Holds(L, main, branch) /\ Follows(L)
      /\ main = None /\ L \in Seq(Entry) /\ Numbered(L) /\ Len(L) \in Nat
      /\ ~finalizing /\ ~finalized /\ ~merged
      /\ pc \in {"down", "idle", "save", "prepare", "commit"}
  BY LenProperties DEF Going, Holds, Follows
<1>2. ASSUME UNCHANGED vars
      PROVE  Typed' /\ Going(L)'
  BY <1>1, <1>2 DEF Typed, Going, Holds, Follows, InForEach,
                    vars, database, adapter, engine
<1>3. ASSUME Dispatch
      PROVE  Typed' /\ Going(L)'
  <2>1. /\ pc = "idle" /\ pc' = "save" /\ position.iteration < MaxSteps
        /\ log' = Append(log, [iteration |-> position.iteration + 1, process |-> restarts])
        /\ caller' = caller /\ database' = database /\ adapter' = adapter
        /\ acked' = acked /\ restarts' = restarts
    BY <1>3 DEF Dispatch
  <2>0. caller = "rows" \/ caller = "items" \/ caller = "terminal items"
    BY CallersAssumption DEF Typed
  <2>a. PICK final \in BOOLEAN :
            /\ position' = [final |-> final, iteration |-> position.iteration + 1]
            /\ caller = "terminal items" => (final <=> log # <<>>)
            /\ caller = "items" => ~final
    <3>1. CASE caller = "rows"
      BY <1>3, <3>1 DEF Dispatch
    <3>2. CASE caller = "terminal items"
      <4>1. \E final \in {log # <<>>} :
                position' = [final |-> final, iteration |-> position.iteration + 1]
        BY <1>3, <3>2 DEF Dispatch
      <4>2. caller # "items"
        BY <3>2
      <4>3. CASE log = <<>>
        <5>1. position' = [final |-> FALSE, iteration |-> position.iteration + 1]
          BY <4>1, <4>3
        <5>2. QED
          BY <4>2, <4>3, <5>1
      <4>4. CASE log # <<>>
        <5>1. position' = [final |-> TRUE, iteration |-> position.iteration + 1]
          BY <4>1, <4>4
        <5>2. QED
          BY <4>2, <4>4, <5>1
      <4>5. QED
        BY <4>3, <4>4
    <3>3. CASE caller = "items"
      BY <1>3, <3>3 DEF Dispatch
    <3>4. QED
      BY <2>0, <3>1, <3>2, <3>3
  <2> DEFINE e == [iteration |-> position.iteration + 1, process |-> restarts]
  <2>2. position.iteration \in Nat /\ MaxSteps \in Nat /\ MaxRestarts \in Nat
    BY DoltAssumption DEF Typed, Machine
  <2>3. e \in Entry /\ e.iteration = position.iteration + 1
    BY <2>1, <2>2 DEF Entry, Typed
  <2> HIDE DEF e
  <2>4. /\ position' \in Machine /\ position'.iteration = position.iteration + 1
        /\ position'.final <=> final
    <3>1. position.iteration + 1 \in 0 .. MaxSteps
      BY <2>1, <2>2
    <3>2. position' \in Machine
      BY <2>a, <3>1 DEF Machine
    <3>3. QED
      BY <2>a, <3>2
  <2>5. log' = Append(log, e) /\ log' \in Seq(Entry) /\ Len(log') = Len(log) + 1
    <3>1. log' = Append(log, e)
      BY <2>1 DEF e
    <3>2. log \in Seq(Entry)
      BY DEF Typed
    <3>3. QED
      BY <2>3, <3>1, <3>2, AppendProperties
  <2>6. Typed'
    BY <2>1, <2>4, <2>5 DEF Typed, database
  <2>7. ASSUME ~position'.final
        PROVE  /\ InForEach' => caller = "items"
               /\ position'.iteration = Len(L) + 1
               /\ e.iteration = Len(L) + 1 /\ log' = Append(L, e)
    <3>1. caller \in {"rows", "items"} \/ log = <<>>
      BY <2>0, <2>a, <2>4, <2>7
    <3>2. ~position.final
      <4>1. caller = "items" => ~position.final
        BY <1>1 DEF Follows
      <4>2. log = <<>> => Len(log) = 0
        BY EmptySeq
      <4>3. caller = "rows" \/ ~(Len(log) > 1) => ~InForEach
        BY DEF InForEach
      <4>4. ~(0 > 1)
        OBVIOUS
      <4>5. ~InForEach => ~position.final
        BY <1>1, <2>1 DEF Follows
      <4>6. QED
        BY <3>1, <4>1, <4>2, <4>3, <4>4, <4>5, Zenon
    <3>3. log = L /\ position.iteration = Len(L)
      BY <1>1, <2>1, <3>2 DEF Follows
    <3>4. InForEach' => caller = "items"
      <4>1. caller' \notin {"rows", "items"} => Len(log) = 0
        BY <2>1, <3>1, EmptySeq
      <4>2. QED
        BY <2>1, <2>5, <4>1 DEF InForEach
    <3>5. QED
      BY <2>3, <2>4, <2>5, <3>3, <3>4
  <2>8. Follows(L)'
    <3>1. caller = "items" => ~position'.final
      BY <2>a, <2>4
    <3>2. QED
      BY <1>1, <2>1, <2>3, <2>7, <3>1 DEF Follows, adapter, database
  <2>9. QED
    BY <1>1, <2>1, <2>6, <2>8 DEF Going, database
<1>4. ASSUME stopForTerminal
      PROVE  Typed' /\ Going(L)'
  <2>1. /\ pc' = "save" /\ position' = [position EXCEPT !.final = TRUE] /\ caller = "rows"
        /\ caller' = caller /\ database' = database /\ adapter' = adapter
        /\ acked' = acked /\ restarts' = restarts /\ log' = log
    BY <1>4 DEF stopForTerminal
  <2>2. position' \in Machine /\ position'.final
    BY <2>1 DEF Typed, Machine
  <2>3. QED
    BY <1>1, <2>1, <2>2 DEF Going, Follows, Typed, adapter, database
<1>5. ASSUME Save
      PROVE  Typed' /\ Going(L)'
  <2>1. ~Closed
    BY <1>1 DEF Closed
  <2>2. /\ pc = "save" /\ pc' = "prepare"
        /\ caller' = caller /\ adapter' = adapter /\ engine' = engine
        /\ restarts' = restarts /\ database' = database
    BY <1>1, <1>5, <2>1 DEF Save
  <2>3. QED
    BY <1>1, <2>2 DEF Going, Follows, Typed, adapter, database, engine, InForEach
<1>6. ASSUME prepare
      PROVE  Typed' /\ Going(L)'
  <2>1. /\ pc = "prepare" /\ pc' = "commit"
        /\ branch' = IF branch = None THEN <<>> ELSE branch
        /\ main' = main /\ caller' = caller /\ adapter' = adapter /\ engine' = engine
        /\ restarts' = restarts
    BY <1>6 DEF prepare
  <2>2. branch' # None /\ branch' \in Seq(Commit)
    BY <2>1, EmptySeq, EmptyIsNoBranch DEF Typed
  <2>3. Typed'
    BY <2>1, <2>2 DEF Typed, engine
  <2>4. branch' = ChainOf(L)
    BY <1>1, <2>1, ChainType DEF Holds
  <2>5. Holds(L, main', branch')
    BY <1>1, <2>1, <2>2, <2>4 DEF Holds
  <2>6. Follows(L)'
    BY <1>1, <2>1, <2>2 DEF Follows, adapter, engine, InForEach
  <2>7. QED
    BY <2>3, <2>5, <2>6 DEF Going
<1>7. ASSUME commitDoltTransaction
      PROVE  /\ Typed'
             /\ Over' \/ \E e \in Entry : Going(Append(L, e))' /\ Append(L, e) \in Seq(Entry)
  <2>1. /\ pc = "commit" /\ branch' = Append(branch, NextCommit)
        /\ finalizing' = position.final
        /\ main' = main /\ merged' = merged /\ finalized' = finalized
        /\ log' = log /\ position' = position
        /\ caller' = caller /\ restarts' = restarts /\ branch # None
    BY <1>1, <1>7 DEF commitDoltTransaction, Follows
  <2>2. CASE position.final
    <3>1. pc' = "merge" /\ acked' = acked
      BY <1>7, <2>2 DEF commitDoltTransaction
    <3>2. branch' \in Seq(Commit) /\ branch' # None /\ Ended(main', branch')
      BY <2>1, <2>2, CommitEnds
    <3>3. Typed'
      BY <2>1, <3>2 DEF Typed
    <3>4. (acked # None => ~acked.final) /\ caller # "items"
      BY <1>1, <2>2 DEF Follows
    <3>5. Over'
      BY <1>1, <2>1, <2>2, <3>1, <3>2, <3>4 DEF Over
    <3>6. QED
      BY <3>3, <3>5
  <2>3. CASE ~position.final
    <3>1. pc' = "idle" /\ acked' = [log |-> log, final |-> FALSE]
      BY <1>7, <2>3 DEF commitDoltTransaction
    <3>2. PICK e \in Entry :
               /\ e.iteration = Len(L) + 1 /\ log = Append(L, e)
               /\ position.iteration = Len(L) + 1
               /\ Holds(Append(L, e), main', branch')
               /\ branch' \in Seq(Commit) /\ branch' # None
               /\ L \in Seq(Entry) /\ Append(L, e) \in Seq(Entry)
      BY <2>1, <2>3, GoingCommits
    <3>3. Typed'
      BY <2>1, <3>2 DEF Typed
    <3>4. Len(log) = Len(L) + 1 /\ log \in Seq(Entry) /\ log # <<>>
      BY <3>2, AppendProperties
    <3>5. IsPrefix(log, log)
      BY <3>4, LenProperties DEF IsPrefix
    <3>6. Follows(Append(L, e))'
      <4>1. acked'.log = log /\ ~acked'.final
        BY <3>1
      <4>2. finalizing' = FALSE /\ finalized' = finalized /\ merged' = merged
        BY <2>1, <2>3 DEF Typed, Machine
      <4>3. QED
        BY <1>1, <2>1, <2>3, <3>1, <3>2, <3>4, <3>5, <4>1, <4>2 DEF Follows
    <3>7. QED
      BY <3>2, <3>3, <3>6 DEF Going
  <2>4. QED
    BY <2>2, <2>3
<1>8. ASSUME CommitUnreported
      PROVE  /\ Typed'
             /\ Over' \/ \E e \in Entry : Going(Append(L, e))' /\ Append(L, e) \in Seq(Entry)
  <2>1. /\ pc = "commit" /\ branch' = Append(branch, NextCommit)
        /\ main' = main /\ ReturnError /\ branch # None /\ MaxFailures # 0
    BY <1>1, <1>8 DEF CommitUnreported, Follows
  <2>2. CASE position.final
    <3>1. branch' \in Seq(Commit) /\ branch' # None /\ Ended(main', branch')
      BY <2>1, <2>2, CommitEnds
    <3>2. /\ Typed' /\ caller' = caller /\ pc' \in {"down", "idle"}
          /\ pc' = "idle" => InForEach' /\ position'.final
          /\ acked' = acked /\ ~finalizing' /\ ~finalized' /\ ~merged'
      BY <1>1, <2>1, <3>1, GoingFails
    <3>3. (acked # None => ~acked.final) /\ caller # "items"
      BY <1>1, <2>2 DEF Follows
    <3>4. Over'
      BY <1>1, <2>1, <3>1, <3>2, <3>3 DEF Over
    <3>5. QED
      BY <3>2, <3>4
  <2>3. CASE ~position.final
    <3>1. PICK e \in Entry :
               /\ e.iteration = Len(L) + 1 /\ log = Append(L, e)
               /\ Holds(Append(L, e), main', branch')
               /\ branch' \in Seq(Commit) /\ branch' # None
               /\ L \in Seq(Entry) /\ Append(L, e) \in Seq(Entry)
      BY <2>1, <2>3, GoingCommits
    <3>2. /\ Typed' /\ caller' = caller /\ pc' = "down"
          /\ caller = "items" => ~position'.final
          /\ acked' = acked /\ ~finalizing' /\ ~finalized' /\ ~merged'
      BY <1>1, <2>1, <2>3, <3>1, GoingFails
    <3>3. ASSUME acked # None
          PROVE  /\ IsPrefix(acked.log, Append(L, e)) /\ ~acked.final
                 /\ acked.log \in Seq(Entry) /\ acked.log # <<>>
      <4>1. /\ acked.log \in Seq(Entry) /\ acked.log # <<>>
            /\ IsPrefix(acked.log, L) /\ ~acked.final
        BY <1>1, <3>3 DEF Follows
      <4>2. QED
        BY <3>1, <4>1, PrefixOfAppend
    <3>4. Follows(Append(L, e))'
      BY <3>2, <3>3 DEF Follows
    <3>5. QED
      BY <3>1, <3>2, <3>4 DEF Going
  <2>4. QED
    BY <2>2, <2>3
<1>9. ASSUME Fail
      PROVE  Typed' /\ Going(L)'
  <2>1. /\ pc \in {"prepare", "commit"} /\ ReturnError /\ database' = database
        /\ MaxFailures # 0
    BY <1>1, <1>9 DEF Fail
  <2>2. main' = main /\ branch' = branch
    BY <2>1 DEF database
  <2>3. /\ Typed' /\ caller' = caller /\ pc' \in {"down", "idle"}
        /\ caller = "items" => ~position'.final
        /\ pc' = "idle" => InForEach' /\ position'.final
        /\ acked' = acked /\ ~finalizing' /\ ~finalized' /\ ~merged'
    <3>1. branch' # None => branch' \in Seq(Commit)
      BY <2>2 DEF Typed
    <3>2. QED
      BY <1>1, <2>1, <2>2, <3>1, GoingFails
  <2>4. Follows(L)'
    BY <1>1, <2>2, <2>3 DEF Follows
  <2>5. QED
    BY <1>1, <2>2, <2>3, <2>4 DEF Going
<1>10. ASSUME Crash
       PROVE  Typed' /\ Going(L)'
  <2>1. /\ Exit /\ caller' = caller /\ database' = database /\ acked' = acked
        /\ restarts < MaxRestarts /\ restarts' = restarts + 1
    BY <1>10 DEF Crash
  <2>2. restarts' \in 0 .. MaxRestarts
    BY <2>1, DoltAssumption DEF Typed
  <2>3. Typed'
    BY <2>1, <2>2, ExitType DEF Typed, database
  <2>4. Follows(L)'
    BY <1>1, <2>1 DEF Follows, Exit, database
  <2>5. QED
    BY <1>1, <2>1, <2>3, <2>4 DEF Going, database
<1>11. ASSUME Load
       PROVE  Typed' /\ Going(L)'
  <2>1. pc = "down" /\ branch # None /\ Tip.machine # None
    BY <1>11 DEF Load
  <2>2. L # <<>> /\ branch # <<>>
    BY <1>1, <2>1, ChainType DEF Holds, Tip, NoTables
  <2>3. /\ Tip.machine = [final |-> FALSE, iteration |-> Len(L)]
        /\ loadExecution(Tip.rows) = L
    BY <1>1, <2>2, HeldTip DEF Tip, Last, LastOf
  <2>4. ~isTerminal(Tip.machine)
    BY <2>3 DEF isTerminal
  <2>5. /\ position' = [final |-> FALSE, iteration |-> Len(L)] /\ log' = L
        /\ finalizing' = FALSE /\ pc' = "idle"
        /\ caller' = caller /\ database' = database /\ merged' = merged
        /\ finalized' = finalized /\ acked' = acked /\ restarts' = restarts
    BY <1>11, <2>3, <2>4 DEF Load, isTerminal
  <2>6. position' \in Machine
    <3>1. Len(L) \in 1 .. Len(L) /\ Len(L) \in Nat
      BY <1>1, <2>2, HeldTip
    <3>2. StepCommit(L, Len(L)) \in Commit
      BY <1>1, <3>1, RowsType
    <3>3. StepCommit(L, Len(L)).tables.machine = [final |-> FALSE, iteration |-> Len(L)]
      BY DEF StepCommit
    <3>4. QED
      BY <2>5, <3>2, <3>3 DEF Commit, Tables
  <2>7. Typed'
    BY <1>1, <2>5, <2>6 DEF Typed, database
  <2>8. Follows(L)'
    BY <1>1, <2>5 DEF Follows, database
  <2>9. QED
    BY <1>1, <2>5, <2>7, <2>8 DEF Going, database
<1>12. ASSUME Revert
       PROVE  Typed' /\ \E n \in 1 .. Len(L) : Going(SubSeq(L, 1, n))'
  BY <1>12, GoingReverts
<1>13. ~Merge /\ ~MergeUnreported /\ ~DeleteBranch /\ ~DeleteUnreported /\ ~loadFinalized
  BY <1>1 DEF Merge, MergeUnreported, DeleteBranch, DeleteUnreported,
              loadFinalized, mainHasTerminalMarker
<1>14. QED
  BY <1>2, <1>3, <1>4, <1>5, <1>6, <1>7, <1>8, <1>9, <1>10, <1>11, <1>12, <1>13 DEF Next
(* A failed call after the end is in the database.                          *)
LEMMA OverFails ==
    ASSUME Typed, Over, ReturnError,
           pc \in {"save", "prepare", "commit", "merge", "delete"},
           branch' # None => branch' \in Seq(Commit),
           main' # None => main' \in Tables /\ main'.machine.final /\ main'.rows = NoRows,
           Ended(main', branch'),
           main # None => main' # None,
           ~finalizing => main' = main,
           acked # None /\ acked.final => branch' = None
    PROVE  Typed' /\ Over'
<1>1. CASE op = "save" /\ InForEach
  <2>1. /\ pc' = "idle" /\ log' = log /\ position' = position /\ adapter' = adapter
        /\ caller' = caller /\ acked' = acked /\ restarts' = restarts
    BY <1>1 DEF ReturnError
  <2>2. InForEach'
    BY <1>1, <2>1 DEF InForEach
  <2>3. Typed'
    BY <2>1 DEF Typed
  <2>4. Over'
    BY <2>1, <2>2 DEF Over, adapter
  <2>5. QED
    BY <2>3, <2>4
<1>2. CASE ~(op = "save" /\ InForEach)
  <2>1. Exit /\ caller' = caller /\ acked' = acked /\ restarts' = restarts
    BY <1>2 DEF ReturnError
  <2>2. Typed'
    BY <2>1, ExitType DEF Typed
  <2>3. Over'
    BY <2>1 DEF Over, Exit
  <2>4. QED
    BY <2>2, <2>3
<1>3. QED
  BY <1>1, <1>2

(* What main holds after the merge.                                         *)
LEMMA MergeEnds ==
    ASSUME Typed, Over, pc = "merge", main' = MergedMain
    PROVE  main' # None /\ main' \in Tables /\ main'.machine.final /\ main'.rows = NoRows
<1>1. CASE main # None
  <2>1. mainHasTerminalMarker
    BY <1>1 DEF mainHasTerminalMarker, Typed
  <2>2. QED
    BY <1>1, <2>1 DEF MergedMain, Typed
<1>2. CASE main = None
  <2>1. ~merged /\ ~mainHasTerminalMarker
    BY <1>2 DEF Over, mainHasTerminalMarker
  <2>2. branch # <<>> /\ LastOf(branch) \in Tables
        /\ LastOf(branch).machine.final /\ LastOf(branch).rows = NoRows
    BY <1>2 DEF Over, Ended
  <2>3. main' = LastOf(branch)
    BY <2>1, <2>2 DEF MergedMain, Tip, Last, LastOf
  <2>4. main' # None
    BY <2>2, <2>3, DoltAssumption
  <2>5. QED
    BY <2>2, <2>3, <2>4
<1>3. QED
  BY <1>1, <1>2

LEMMA OverStep ==
    ASSUME Typed, Over, [Next]_vars
    PROVE  Typed' /\ Over'
<1>1. ASSUME UNCHANGED vars
      PROVE  Typed' /\ Over'
  BY <1>1 DEF Typed, Over, InForEach, vars, database, adapter, engine
<1>2. ASSUME Dispatch
      PROVE  Typed' /\ Over'
  <2>1. /\ pc = "idle" /\ pc' = "save" /\ position.iteration < MaxSteps
        /\ log' = Append(log, [iteration |-> position.iteration + 1, process |-> restarts])
        /\ caller' = caller /\ database' = database /\ adapter' = adapter
        /\ acked' = acked /\ restarts' = restarts
    BY <1>2 DEF Dispatch
  <2>2. caller = "terminal items" /\ Len(log) > 1
    BY <2>1, CallersAssumption DEF Over, InForEach, Typed
  <2>3. log # <<>>
    <3>1. log = <<>> => Len(log) = 0
      BY EmptySeq
    <3>2. ~(0 > 1)
      OBVIOUS
    <3>3. QED
      BY <2>2, <3>1, <3>2, Zenon
  <2>4. position' = [final |-> TRUE, iteration |-> position.iteration + 1]
    <3>1. \E final \in {log # <<>>} :
              position' = [final |-> final, iteration |-> position.iteration + 1]
      BY <1>2, <2>2 DEF Dispatch
    <3>2. QED
      BY <2>3, <3>1
  <2>5. position.iteration + 1 \in 1 .. MaxSteps
    BY <2>1, DoltAssumption DEF Typed, Machine
  <2>6. position' \in Machine /\ position'.final
    BY <2>4, <2>5 DEF Machine
  <2>7. log' \in Seq(Entry)
    <3>1. [iteration |-> position.iteration + 1, process |-> restarts] \in Entry
      BY <2>5 DEF Entry, Typed
    <3>2. QED
      BY <2>1, <3>1, AppendProperties DEF Typed
  <2>8. Typed'
    BY <2>1, <2>6, <2>7 DEF Typed, database
  <2>9. Over'
    BY <2>1, <2>6 DEF Over, database, adapter
  <2>10. QED
    BY <2>8, <2>9
<1>3. ~stopForTerminal
  BY DEF stopForTerminal, Over, InForEach
<1>4. ASSUME Save
      PROVE  Typed' /\ Over'
  <2>1. pc = "save" /\ database' = database /\ main' = main /\ branch' = branch
        /\ position.final
    BY <1>4 DEF Save, database, Over
  <2>2. CASE Closed
    <3>1. ReturnError
      BY <1>4, <2>2 DEF Save
    <3>2. QED
      BY <2>1, <3>1, OverFails DEF Typed, Over
  <2>3. CASE ~Closed
    <3>1. /\ pc' = IF finalizing THEN "merge" ELSE "prepare"
          /\ caller' = caller /\ adapter' = adapter /\ engine' = engine
          /\ restarts' = restarts /\ ~finalized
      BY <1>4, <2>3 DEF Save, Closed
    <3>2. Typed'
      BY <2>1, <3>1 DEF Typed, engine
    <3>3. Over'
      BY <2>1, <3>1 DEF Over, adapter, engine
    <3>4. QED
      BY <3>2, <3>3
  <2>4. QED
    BY <2>2, <2>3
<1>5. ASSUME prepare
      PROVE  Typed' /\ Over'
  <2>1. /\ pc = "prepare" /\ pc' = "commit" /\ branch # None /\ branch' = branch
        /\ main' = main /\ caller' = caller /\ adapter' = adapter /\ engine' = engine
        /\ restarts' = restarts
    BY <1>5 DEF prepare, Over, Ended
  <2>2. Typed'
    BY <2>1 DEF Typed, engine
  <2>3. Over'
    BY <2>1 DEF Over, adapter, engine
  <2>4. QED
    BY <2>2, <2>3
<1>6. ASSUME pc = "commit", branch' = Append(branch, NextCommit), main' = main
      PROVE  /\ position.final /\ main = None /\ ~(acked # None /\ acked.final)
             /\ branch' \in Seq(Commit) /\ branch' # None
             /\ Ended(main', branch')
  <2>1. position.final /\ main = None /\ branch # None /\ ~(acked # None /\ acked.final)
    BY <1>6 DEF Over, Ended
  <2>2. QED
    BY <1>6, <2>1, CommitEnds
<1>7. ASSUME commitDoltTransaction
      PROVE  Typed' /\ Over'
  <2>1. /\ pc = "commit" /\ branch' = Append(branch, NextCommit)
        /\ finalizing' = position.final
        /\ main' = main /\ merged' = merged /\ finalized' = finalized
        /\ log' = log /\ position' = position
        /\ caller' = caller /\ restarts' = restarts
    BY <1>7 DEF commitDoltTransaction
  <2>2. /\ position.final /\ main = None /\ ~(acked # None /\ acked.final)
        /\ branch' \in Seq(Commit) /\ branch' # None
        /\ Ended(main', branch')
    BY <1>6, <2>1
  <2>3. pc' = "merge" /\ acked' = acked
    BY <1>7, <2>2 DEF commitDoltTransaction
  <2>4. Typed'
    BY <2>1, <2>2 DEF Typed
  <2>5. Over'
    BY <2>1, <2>2, <2>3 DEF Over
  <2>6. QED
    BY <2>4, <2>5
<1>8. ASSUME CommitUnreported
      PROVE  Typed' /\ Over'
  <2>1. /\ pc = "commit" /\ branch' = Append(branch, NextCommit)
        /\ main' = main /\ ReturnError
    BY <1>8 DEF CommitUnreported
  <2>2. /\ position.final /\ main = None /\ ~(acked # None /\ acked.final)
        /\ branch' \in Seq(Commit) /\ branch' # None
        /\ Ended(main', branch')
    BY <1>6, <2>1
  <2>3. QED
    BY <2>1, <2>2, OverFails
<1>9. ASSUME pc = "merge", main' = MergedMain, branch' = branch
      PROVE  /\ main' # None /\ main' \in Tables
             /\ main'.machine.final /\ main'.rows = NoRows
             /\ Ended(main', branch')
             /\ finalizing /\ position.final /\ ~(acked # None /\ acked.final)
  <2>1. main' # None /\ main' \in Tables /\ main'.machine.final /\ main'.rows = NoRows
    BY <1>9, MergeEnds
  <2>2. Ended(main', branch')
    BY <1>9, <2>1 DEF Over, Ended
  <2>3. QED
    BY <1>9, <2>1, <2>2 DEF Over
<1>10. ASSUME Merge
       PROVE  Typed' /\ Over'
  <2>1. /\ pc = "merge" /\ main' = MergedMain /\ merged' = TRUE /\ pc' = "delete"
        /\ branch' = branch /\ caller' = caller /\ finalizing' = finalizing
        /\ finalized' = finalized /\ engine' = engine /\ restarts' = restarts
    BY <1>10 DEF Merge
  <2>2. /\ main' # None /\ main' \in Tables
        /\ main'.machine.final /\ main'.rows = NoRows
        /\ Ended(main', branch')
        /\ finalizing /\ position.final /\ ~(acked # None /\ acked.final)
    BY <1>9, <2>1
  <2>3. Typed'
    BY <2>1, <2>2 DEF Typed, engine
  <2>4. Over'
    BY <2>1, <2>2 DEF Over, engine
  <2>5. QED
    BY <2>3, <2>4
<1>11. ASSUME MergeUnreported
       PROVE  Typed' /\ Over'
  <2>1. pc = "merge" /\ main' = MergedMain /\ branch' = branch /\ ReturnError
    BY <1>11 DEF MergeUnreported
  <2>2. /\ main' # None /\ main' \in Tables
        /\ main'.machine.final /\ main'.rows = NoRows
        /\ Ended(main', branch')
        /\ finalizing /\ position.final /\ ~(acked # None /\ acked.final)
    BY <1>9, <2>1
  <2>3. branch' # None => branch' \in Seq(Commit)
    BY <2>1 DEF Typed
  <2>4. QED
    BY <2>1, <2>2, <2>3, OverFails
<1>12. ASSUME pc = "delete", main' = main, branch' = None
       PROVE  /\ main # None /\ Ended(main', branch') /\ finalizing /\ position.final
              /\ ~(acked # None /\ acked.final)
  BY <1>12 DEF Over, Ended, Typed
<1>13. ASSUME DeleteBranch
       PROVE  Typed' /\ Over'
  <2>1. /\ pc = "delete" /\ branch' = None /\ finalized' = TRUE
        /\ pc' = "ended" \/ (pc' = "idle" /\ InForEach)
        /\ main' = main /\ caller' = caller /\ merged' = merged
        /\ log' = log /\ position' = position /\ restarts' = restarts
    BY <1>13 DEF DeleteBranch
  <2>2. /\ main # None /\ Ended(main', branch') /\ position.final
    BY <1>12, <2>1
  <2>3. Typed'
    BY <2>1 DEF Typed
  <2>4. InForEach' <=> InForEach
    BY <2>1 DEF InForEach
  <2>5. Over'
    BY <2>1, <2>2, <2>4 DEF Over
  <2>6. QED
    BY <2>3, <2>5
<1>14. ASSUME DeleteUnreported
       PROVE  Typed' /\ Over'
  <2>1. pc = "delete" /\ branch' = None /\ main' = main /\ ReturnError
    BY <1>14 DEF DeleteUnreported
  <2>2. /\ main # None /\ Ended(main', branch') /\ ~(acked # None /\ acked.final)
    BY <1>12, <2>1
  <2>3. main' # None => main' \in Tables /\ main'.machine.final /\ main'.rows = NoRows
    BY <2>1 DEF Typed
  <2>4. QED
    BY <2>1, <2>2, <2>3, OverFails
<1>15. ASSUME Load
       PROVE  Typed' /\ Over'
  <2>1. /\ pc = "down" /\ branch # None
        /\ position' = Tip.machine /\ log' = loadExecution(Tip.rows)
        /\ finalizing' = isTerminal(Tip.machine)
        /\ pc' = IF isTerminal(Tip.machine) THEN "merge" ELSE "idle"
        /\ caller' = caller /\ database' = database /\ merged' = merged
        /\ acked' = acked /\ restarts' = restarts
    BY <1>15 DEF Load
  <2>2. /\ Tip \in Tables /\ Tip.machine.final /\ Tip.rows = NoRows
    BY <2>1 DEF Over, Ended, Tip, Last, LastOf
  <2>3. log' = <<>> /\ log' \in Seq(Entry) /\ position' \in Machine /\ position'.final
        /\ finalizing' /\ pc' = "merge"
    BY <2>1, <2>2, NoRowsLoad, EmptySeq DEF Tables, isTerminal
  <2>4. Typed'
    BY <2>1, <2>3 DEF Typed, database
  <2>5. Over'
    BY <2>1, <2>3 DEF Over, database
  <2>6. QED
    BY <2>4, <2>5
<1>16. ASSUME loadFinalized
       PROVE  Typed' /\ Over'
  <2>1. /\ pc' = "ended" /\ branch' = branch /\ main' = main /\ branch = None
        /\ caller' = caller /\ merged' = merged /\ restarts' = restarts
        /\ log' = log /\ position' = position /\ acked' = acked
    BY <1>16 DEF loadFinalized, database, engine
  <2>2. QED
    BY <2>1 DEF Typed, Over
<1>17. ~Revert
  <2>1. branch # None => Tip.rows = NoRows
    BY DEF Over, Ended, Tip, Last, LastOf
  <2>2. Len(loadExecution(NoRows)) = 0
    BY NoRowsLoad, EmptySeq
  <2>3. 0 .. 0 - 1 = {}
    OBVIOUS
  <2>4. QED
    BY <2>1, <2>2, <2>3 DEF Revert
<1>18. ASSUME Fail
       PROVE  Typed' /\ Over'
  <2>1. /\ pc \in {"prepare", "commit", "merge", "delete"} /\ ReturnError
        /\ main' = main /\ branch' = branch
    BY <1>18 DEF Fail, database
  <2>2. /\ Ended(main', branch') /\ ~(acked # None /\ acked.final)
        /\ branch' # None => branch' \in Seq(Commit)
        /\ main' # None => main' \in Tables /\ main'.machine.final /\ main'.rows = NoRows
    BY <2>1 DEF Over, Typed
  <2>3. QED
    BY <2>1, <2>2, OverFails
<1>19. ASSUME Crash
       PROVE  Typed' /\ Over'
  <2>1. /\ Exit /\ caller' = caller /\ database' = database /\ acked' = acked
        /\ restarts < MaxRestarts /\ restarts' = restarts + 1
    BY <1>19 DEF Crash
  <2>2. restarts' \in 0 .. MaxRestarts
    BY <2>1, DoltAssumption DEF Typed
  <2>3. Typed'
    BY <2>1, <2>2, ExitType DEF Typed, database
  <2>4. Over'
    BY <2>1 DEF Over, Exit, database
  <2>5. QED
    BY <2>3, <2>4
<1>20. QED
  BY <1>1, <1>2, <1>3, <1>4, <1>5, <1>7, <1>8, <1>10, <1>11, <1>13, <1>14, <1>15,
     <1>16, <1>17, <1>18, <1>19 DEF Next
-----------------------------------------------------------------------------
(* The theorems. *)

LEMMA Initially == Init => Typed /\ Going(<<>>)
<1> SUFFICES ASSUME Init PROVE Typed /\ Going(<<>>)
  OBVIOUS
<1>1. /\ main = None /\ branch = None /\ caller \in Callers /\ pc = "idle"
      /\ log = <<>> /\ position = [final |-> FALSE, iteration |-> 0]
      /\ finalizing = FALSE /\ merged = FALSE /\ finalized = FALSE
      /\ acked = None /\ restarts = 0
  BY DEF Init
<1>2. <<>> \in Seq(Entry) /\ Len(<<>>) = 0
  BY EmptySeq
<1>3. 0 \in 0 .. MaxSteps /\ 0 \in 0 .. MaxRestarts
  BY DoltAssumption
<1>4. Typed
  BY <1>1, <1>2, <1>3 DEF Typed, Machine
<1>5. Numbered(<<>>)
  BY <1>2 DEF Numbered
<1>6. Holds(<<>>, main, branch)
  BY <1>1, <1>2, <1>5 DEF Holds
<1>7. Follows(<<>>)
  BY <1>1, <1>2 DEF Follows
<1>8. QED
  BY <1>4, <1>6, <1>7 DEF Going

LEMMA Counts == failures \in Nat /\ [Next]_vars => failures' \in Nat
<1> SUFFICES ASSUME failures \in Nat, [Next]_vars PROVE failures' \in Nat
  OBVIOUS
<1>1. failures' = failures \/ failures' = failures + 1
  BY Zenon DEF vars, Next, Dispatch, stopForTerminal, Save, prepare, commitDoltTransaction,
       CommitUnreported, Merge, MergeUnreported, DeleteBranch, DeleteUnreported,
       Load, loadFinalized, Revert, Fail, Crash
<1>2. QED
  BY <1>1

LEMMA InvStep ==
    ASSUME ItemsAreSaved, Inv, [Next]_vars
    PROVE  Inv'
<1>1. ASSUME NEW L \in Seq(Entry), Going(L)
      PROVE  Inv'
  <2>1. /\ Typed'
        /\ \/ Going(L)'
           \/ \E e \in Entry : Going(Append(L, e))' /\ Append(L, e) \in Seq(Entry)
           \/ \E n \in 1 .. Len(L) : Going(SubSeq(L, 1, n))'
           \/ Over'
    BY <1>1, GoingStep DEF Inv
  <2>2. \A n \in 1 .. Len(L) : SubSeq(L, 1, n) \in Seq(Entry)
    BY <1>1, ChainCut DEF Going, Holds
  <2>3. QED
    BY <2>1, <2>2, Counts DEF Inv
<1>2. CASE Over
  BY <1>2, OverStep, Counts DEF Inv
<1>3. QED
  BY <1>1, <1>2 DEF Inv

LEMMA Invariance == ASSUME ItemsAreSaved PROVE Spec => []Inv
<1>1. Init => Inv
  <2>1. <<>> \in Seq(Entry) /\ (Init => failures \in Nat)
    BY EmptySeq DEF Init
  <2>2. QED
    BY <2>1, Initially DEF Inv
<1>2. Inv /\ [Next]_vars => Inv'
  BY InvStep
<1>3. QED
  BY <1>1, <1>2, PTL DEF Spec

(* Load's answer in either case.                                            *)
LEMMA StoredGoing ==
    ASSUME NEW L, Going(L)
    PROVE  Stored = IF L = <<>> THEN None ELSE L
  BY AnswerHeld, StoredIsAnswer DEF Going

LEMMA StoredOver == ASSUME Typed, Over PROVE Stored = Finalized
<1>1. main # None => main \in Tables
  BY DEF Typed
<1>2. QED
  BY <1>1, AnswerEnded, StoredIsAnswer DEF Over

(* The same after a step.                                                   *)
LEMMA StoredGoingNext ==
    ASSUME NEW L, Going(L)'
    PROVE  Stored' = IF L = <<>> THEN None ELSE L
<1>1. Stored' = Answer(main', branch')
  BY DEF Stored, Answer, Tip, Last, LastOf
<1>2. Holds(L, main', branch')
  BY DEF Going
<1>3. QED
  BY <1>1, <1>2, AnswerHeld

LEMMA StoredOverNext == ASSUME Typed', Over' PROVE Stored' = Finalized
<1>1. Stored' = Answer(main', branch')
  BY DEF Stored, Answer, Tip, Last, LastOf
<1>2. Ended(main', branch')
  BY DEF Over
<1>3. main' # None => main' \in Tables
  BY DEF Typed
<1>4. QED
  BY <1>1, <1>2, <1>3, AnswerEnded

LEMMA InvIsWhole == Inv => StoreIsWhole
<1> SUFFICES ASSUME Inv PROVE StoreIsWhole
  OBVIOUS
<1>1. MainHoldsNoSteps
  BY DEF Inv, Typed, MainHoldsNoSteps
<1>2. ASSUME NEW L \in Seq(Entry), Going(L)
      PROVE  AckedIsStored /\ LoadIsComplete
  <2>1. Stored = IF L = <<>> THEN None ELSE L
    BY <1>2, StoredGoing
  <2>2. Holds(L, main, branch) /\ Follows(L)
    BY <1>2 DEF Going
  <2>3. CASE L = <<>>
    <3>1. LoadIsComplete
      BY <2>1, <2>3 DEF LoadIsComplete
    <3>2. acked # None => acked.log \in Seq(Entry) /\ acked.log # <<>> /\ Len(acked.log) <= Len(L)
      BY <2>2 DEF Follows, IsPrefix
    <3>3. Len(L) = 0
      BY <2>3, EmptySeq
    <3>4. acked = None
      BY <3>2, <3>3, EmptySeq
    <3>5. QED
      BY <3>1, <3>4 DEF AckedIsStored
  <2>4. CASE L # <<>>
    <3>1. Stored = L /\ L # None
      <4>1. {None, Finalized} \cap Seq(Entry) = {}
        BY DoltAssumption
      <4>2. QED
        BY <1>2, <2>1, <2>4, <4>1
    <3>2. AckedIsStored
      BY <2>2, <3>1 DEF AckedIsStored, Follows
    <3>3. Tip.machine = [final |-> FALSE, iteration |-> Len(L)]
      BY <2>2, <2>4, HeldTip DEF Tip, Last, LastOf
    <3>4. \A i \in 1 .. Len(L) : L[i].iteration = i
      BY <2>2 DEF Holds, Numbered
    <3>5. LoadIsComplete
      BY <3>1, <3>3, <3>4 DEF LoadIsComplete
    <3>6. QED
      BY <3>2, <3>5
  <2>5. QED
    BY <2>3, <2>4
<1>3. ASSUME Over
      PROVE  AckedIsStored /\ LoadIsComplete
  BY <1>3, StoredOver DEF Inv, AckedIsStored, LoadIsComplete
<1>4. QED
  BY <1>1, <1>2, <1>3 DEF Inv, StoreIsWhole

(* Load answers every Save that was acknowledged, a log without a hole, and *)
(* keeps the runs apart (dolt_checkpoint.go Save, Load and finalize).       *)
THEOREM StoreIsAlwaysWhole ==
    ASSUME ItemsAreSaved
    PROVE  Spec => []StoreIsWhole
<1>1. Spec => []Inv
  BY Invariance
<1>2. Inv => StoreIsWhole
  BY InvIsWhole
<1>3. QED
  BY <1>1, <1>2, PTL

LEMMA PortStep ==
    ASSUME ItemsAreSaved, Inv, [Next]_vars
    PROVE  [Port!PortNext]_Stored
<1>1. {None, Finalized} \cap Seq(Entry) = {} /\ Finalized # None
  BY DoltAssumption
<1>2. ASSUME NEW L \in Seq(Entry), Going(L)
      PROVE  [Port!PortNext]_Stored
  <2>1. /\ Stored = IF L = <<>> THEN None ELSE L
        /\ Stored # Finalized /\ L # None /\ L # Finalized
    BY <1>1, <1>2, StoredGoing
  <2>2. /\ Typed'
        /\ \/ Going(L)'
           \/ \E e \in Entry : Going(Append(L, e))' /\ Append(L, e) \in Seq(Entry)
           \/ \E n \in 1 .. Len(L) : Going(SubSeq(L, 1, n))'
           \/ Over'
    BY <1>2, GoingStep DEF Inv
  <2>3. CASE Going(L)'
    BY <2>1, <2>3, StoredGoingNext
  <2>4. ASSUME NEW e \in Entry, Going(Append(L, e))'
        PROVE  Port!PortNext
    <3>1. Append(L, e) # <<>>
      BY AppendProperties
    <3>2. Stored' = Append(L, e)
      BY <2>4, <3>1, StoredGoingNext
    <3>3. Port!Log = L
      BY <2>1 DEF Port!Log
    <3>4. QED
      BY <2>1, <3>2, <3>3 DEF Port!PortNext, Port!PortSave
  <2>5. ASSUME NEW n \in 1 .. Len(L), Going(SubSeq(L, 1, n))'
        PROVE  Port!PortNext
    <3>1. Len(L) \in Nat
      BY LenProperties
    <3>2. L # <<>>
      BY <3>1, EmptySeq
    <3>3. SubSeq(L, 1, n) # <<>>
      <4>1. Len(SubSeq(L, 1, n)) = n /\ n # 0
        BY <1>2, <3>1, ChainCut DEF Going, Holds
      <4>2. QED
        BY <4>1, EmptySeq
    <3>4. Stored = L /\ Stored' = SubSeq(L, 1, n)
      BY <2>1, <2>5, <3>2, <3>3, StoredGoingNext
    <3>5. Stored \notin {None, Finalized}
      BY <2>1, <3>4
    <3>6. QED
      BY <3>4, <3>5 DEF Port!PortNext, Port!PortRevert
  <2>6. CASE Over'
    BY <2>1, <2>2, <2>6, StoredOverNext DEF Port!PortNext, Port!PortFinalize
  <2>7. QED
    BY <2>2, <2>3, <2>4, <2>5, <2>6
<1>3. CASE Over
  <2>1. Stored = Finalized
    BY <1>3, StoredOver DEF Inv
  <2>2. Stored' = Finalized
    BY <1>3, OverStep, StoredOverNext DEF Inv
  <2>3. QED
    BY <2>1, <2>2
<1>4. QED
  BY <1>2, <1>3 DEF Inv

(* The adapter's commits, merges, failures, crashes and rollbacks are steps *)
(* of the port or leave Load's answer as it is (ports.go, srd036 R4.4).     *)
THEOREM DoltImplementsPort ==
    ASSUME ItemsAreSaved
    PROVE  Spec => ImplementsPort
<1>1. Init => Port!PortInit
  BY Initially, StoredGoing DEF Port!PortInit
<1>2. Inv /\ [Next]_vars => [Port!PortNext]_Stored
  BY PortStep
<1>3. Spec => []Inv
  BY Invariance
<1>4. QED
  BY <1>1, <1>2, <1>3, PTL DEF Spec, ImplementsPort, Port!PortSpec

(* What a step keeps of the history.                                        *)
Kept ==
    /\ pc = "down" /\ pc' = "down" /\ branch' # branch => Stored' = acked'.log
    /\ branch # None /\ branch' = None => main # None /\ main.machine.final
    /\ acked # None /\ acked.final => UNCHANGED <<database, acked>>

LEMMA DownSteps ==
    ASSUME [Next]_vars, pc = "down", pc' = "down", branch' # branch
    PROVE  Revert
<1>1. ~UNCHANGED vars
  BY DEF vars, database
<1>2. ~Load
  BY DEF Load
<1>3. QED
  BY <1>1, <1>2 DEF Next, Dispatch, stopForTerminal, Save, prepare, commitDoltTransaction,
       CommitUnreported, Merge, MergeUnreported, DeleteBranch, DeleteUnreported,
       loadFinalized, Fail, Crash, database

LEMMA GoingKeepsBranch ==
    ASSUME Typed, NEW L, Going(L), [Next]_vars, branch # None
    PROVE  branch' # None
<1>1. pc \notin {"merge", "delete"}
  BY DEF Going, Follows
<1>2. ASSUME pc = "commit", branch' = Append(branch, NextCommit), main' = main
      PROVE  branch' # None
  <2>1. CASE position.final
    BY <1>2, <2>1, CommitEnds
  <2>2. CASE ~position.final
    BY <1>2, <2>2, GoingCommits
  <2>3. QED
    BY <2>1, <2>2
<1>3. CASE commitDoltTransaction
  BY <1>2, <1>3 DEF commitDoltTransaction
<1>4. CASE CommitUnreported
  BY <1>2, <1>4 DEF CommitUnreported
<1>5. CASE Revert
  <2>1. PICK n \in 1 .. Len(L) : Going(SubSeq(L, 1, n))' /\ SubSeq(L, 1, n) # <<>>
    BY <1>5, GoingReverts
  <2>2. Holds(SubSeq(L, 1, n), main', branch')
    BY <2>1 DEF Going
  <2>3. QED
    BY <2>1, <2>2, HeldTip
<1>6. CASE UNCHANGED vars
  BY <1>6 DEF vars, database
<1>7. QED
  BY <1>1, <1>3, <1>4, <1>5, <1>6 DEF Next, Dispatch, stopForTerminal, Save, prepare, Load,
       loadFinalized, Fail, Crash, Merge, MergeUnreported, DeleteBranch, DeleteUnreported,
       database

LEMMA OverDeletes ==
    ASSUME Typed, Over, [Next]_vars, branch # None, branch' = None
    PROVE  main # None /\ main.machine.final
<1>1. ASSUME pc = "commit", branch' = Append(branch, NextCommit)
      PROVE  FALSE
  <2>1. position.final
    BY <1>1 DEF Over
  <2>2. QED
    BY <1>1, <2>1, CommitEnds
<1>2. ~commitDoltTransaction /\ ~CommitUnreported
  BY <1>1 DEF commitDoltTransaction, CommitUnreported
<1>3. ~UNCHANGED vars
  BY DEF vars, database
<1>4. ~Revert
  <2>1. Tip.rows = NoRows
    BY DEF Over, Ended, Tip, Last, LastOf
  <2>2. Len(loadExecution(NoRows)) = 0
    BY NoRowsLoad, EmptySeq
  <2>3. 0 .. 0 - 1 = {}
    OBVIOUS
  <2>4. QED
    BY <2>1, <2>2, <2>3 DEF Revert
<1>5. pc = "delete"
  BY <1>2, <1>3, <1>4 DEF Next, Dispatch, stopForTerminal, Save, prepare, Load,
       loadFinalized, Fail, Crash, Merge, MergeUnreported, DeleteBranch, DeleteUnreported,
       database
<1>6. QED
  BY <1>5 DEF Over, Typed

LEMMA ClosedStays ==
    ASSUME Over, [Next]_vars, acked # None, acked.final
    PROVE  UNCHANGED <<database, acked>>
<1>1. /\ branch = None /\ pc \in {"down", "ended", "idle", "save"}
      /\ pc \in {"idle", "save"} => finalized
  BY DEF Over
<1>2. CASE Save
  BY <1>1, <1>2 DEF Save, Closed, ReturnError
<1>3. CASE UNCHANGED vars
  BY <1>3 DEF vars, engine
<1>4. QED
  BY <1>1, <1>2, <1>3 DEF Next, Dispatch, stopForTerminal, prepare, Load, Revert,
       commitDoltTransaction, CommitUnreported, loadFinalized, Fail, Crash, Merge,
       MergeUnreported, DeleteBranch, DeleteUnreported, engine

LEMMA HistoryStep == ASSUME Inv, [Next]_vars PROVE Kept
<1>1. ASSUME NEW L \in Seq(Entry), Going(L)
      PROVE  Kept
  <2>1. ASSUME pc = "down", pc' = "down", branch' # branch
        PROVE  Stored' = acked'.log
    <3>1. Revert
      BY <2>1, DownSteps
    <3>2. PICK n \in 1 .. Len(L) :
              /\ Going(SubSeq(L, 1, n))' /\ SubSeq(L, 1, n) # <<>>
              /\ acked'.log = SubSeq(L, 1, n)
      BY <1>1, <3>1, GoingReverts DEF Inv
    <3>3. QED
      BY <3>2, StoredGoingNext
  <2>2. branch # None => branch' # None
    BY <1>1, GoingKeepsBranch DEF Inv
  <2>3. acked # None => ~acked.final
    BY <1>1 DEF Going, Follows
  <2>4. QED
    BY <2>1, <2>2, <2>3 DEF Kept
<1>2. ASSUME Over
      PROVE  Kept
  <2>1. ASSUME pc = "down", pc' = "down", branch' # branch
        PROVE  FALSE
    <3>1. Revert
      BY <2>1, DownSteps
    <3>2. branch # None => Tip.rows = NoRows
      BY <1>2 DEF Over, Ended, Tip, Last, LastOf
    <3>3. Len(loadExecution(NoRows)) = 0
      BY NoRowsLoad, EmptySeq
    <3>4. 0 .. 0 - 1 = {}
      OBVIOUS
    <3>5. QED
      BY <3>1, <3>2, <3>3, <3>4 DEF Revert
  <2>2. branch # None /\ branch' = None => main # None /\ main.machine.final
    BY <1>2, OverDeletes DEF Inv
  <2>3. acked # None /\ acked.final => UNCHANGED <<database, acked>>
    BY <1>2, ClosedStays
  <2>4. QED
    BY <2>1, <2>2, <2>3 DEF Kept
<1>3. QED
  BY <1>1, <1>2 DEF Inv

(* A rollback resets to a commit of the run itself, the branch goes only    *)
(* after the merge, and nothing is written after the end                    *)
(* (checkpoint_rollback.go, dolt_checkpoint.go finalize).                   *)
THEOREM HistoryIsAlwaysKept ==
    ASSUME ItemsAreSaved
    PROVE  Spec => HistoryIsKept
<1>1. Inv /\ [Next]_vars => Kept
  BY HistoryStep
<1>2. Kept => /\ [pc = "down" /\ pc' = "down" /\ branch' # branch => Stored' = acked'.log]_vars
              /\ [branch # None /\ branch' = None => main # None /\ main.machine.final]_vars
              /\ [acked # None /\ acked.final => UNCHANGED <<database, acked>>]_vars
  BY DEF Kept
<1>3. Spec => []Inv
  BY Invariance
<1>4. QED
  BY <1>1, <1>2, <1>3, PTL DEF Spec, HistoryIsKept, RevertHitsTarget, BranchDeletedLast,
       FinalizedIsClosed
=============================================================================
