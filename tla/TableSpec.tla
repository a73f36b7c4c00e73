----------------------------- MODULE TableSpec ------------------------------
(***************************************************************************)
(* What one table promises: a map from ids to records in which unique      *)
(* lookup keys name one row, changed by whole batches only.  Opening,      *)
(* reading, rebuilding, compacting and restarting do not change it.        *)
(***************************************************************************)
EXTENDS Naturals, FiniteSets

CONSTANTS Ids, Fields, UniqueFields, Keys, NoRecord, MaxBatch

VARIABLE table

Record == [Fields -> Keys]

Tables == [Ids -> Record \cup {NoRecord}]

(* Two rows never share the key of a unique lookup. *)
UniqueIn(t) ==
  \A i, j \in Ids, f \in UniqueFields :
    t[i] # NoRecord /\ t[j] # NoRecord /\ t[i][f] = t[j][f] => i = j

-----------------------------------------------------------------------------

Init == table = [id \in Ids |-> NoRecord]

(* A batch puts or deletes each of at most MaxBatch rows.  It is a single   *)
(* operation, a bulk write, or the part of one that was durable when the   *)
(* process stopped: a batch in its own right.                              *)
Commit(new) ==
  /\ table' = new
  /\ Cardinality({id \in Ids : new[id] # table[id]}) <= MaxBatch
  /\ UniqueIn(new)

Next == \E new \in Tables : Commit(new)

Spec == Init /\ [][Next]_table

-----------------------------------------------------------------------------

TypeOK == table \in Tables
=============================================================================
