--------------------------- MODULE CheckpointPort ---------------------------
(***************************************************************************)
(* What a run may rely on from its checkpoint store, whatever the adapter: *)
(* the Checkpoint and CheckpointReverter ports of internal/runtime/core.   *)
(* The store is one value, changed by atomic steps: a Save adds one entry  *)
(* to the log, a Save of a terminal position closes the run for good, a    *)
(* Revert cuts the log back.  A failed call is a step or a stutter.        *)
(***************************************************************************)
EXTENDS Naturals, Sequences

CONSTANTS Entry, None, Finalized

VARIABLE saved   \* what Load answers: None, a log, or Finalized

Log == IF saved = None THEN <<>> ELSE saved

PortInit == saved = None

PortSave(entry) == saved # Finalized /\ saved' = Append(Log, entry)

PortFinalize == saved # Finalized /\ saved' = Finalized

PortRevert(length) ==
    /\ saved \notin {None, Finalized}
    /\ length \in 1 .. Len(saved)
    /\ saved' = SubSeq(saved, 1, length)

PortNext ==
    \/ \E entry \in Entry : PortSave(entry)
    \/ PortFinalize
    \/ /\ saved \notin {None, Finalized}
       /\ \E length \in 1 .. Len(saved) : PortRevert(length)

PortSpec == PortInit /\ [][PortNext]_saved
=============================================================================
