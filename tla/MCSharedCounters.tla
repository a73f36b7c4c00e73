-------------------------- MODULE MCSharedCounters --------------------------
(* SharedCounters with two tables. *)
EXTENDS SharedCounters, TLC

CONSTANTS t1, t2

(* Both tables written after init; one of them, without. *)
TwoSettings ==
  {[writes |-> t1 :> 2 @@ t2 :> 2, initialised |-> TRUE],
   [writes |-> t1 :> 4 @@ t2 :> 0, initialised |-> FALSE]}
=============================================================================
