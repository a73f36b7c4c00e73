--------------------------- MODULE MCTableThreads ---------------------------
(* TableThreads with two threads, in the situations that tell most. *)
EXTENDS TableThreads, TLC

CONSTANTS a, f, k1, k2, p, q

put(id, tx, key) ==
  [op |-> "put", tx |-> tx, id |-> id, rec |-> [x \in {f} |-> key], cut |-> "no"]

log(lines) == [c \in {0} |-> [head |-> "whole", lines |-> lines]]

(* A fresh database; one that holds a row; one whose row was put twice. *)
Fresh  == {NoRows}
OneRow == {log(<<put(a, 1, k1)>>)}
Logs   == {NoRows, log(<<put(a, 1, k1)>>), log(<<put(a, 1, k1), put(a, 2, k2)>>)}

Cast(ps, m, qs, n, logs) ==
  [roles |-> p :> ps @@ q :> qs, calls |-> p :> m @@ q :> n, logs |-> logs]

(* Two threads that append; one that appends and one that compacts; readers *)
(* and a rebuild; a thread that reads and rebuilds beside one that appends. *)
AllSituations ==
  {Cast({"append"}, 2, {"append"}, 1, Fresh),
   Cast({"append"}, 2, {"append", "compact"}, 1, OneRow),
   Cast({"get"}, 2, {"get", "rebuild"}, 2, Logs),
   Cast({"get", "rebuild"}, 2, {"append"}, 1, OneRow)}

(* A rebuild beside a thread that appends to a fresh database. *)
RebuildBesideAppends == {Cast({"rebuild"}, 1, {"append"}, 2, Fresh)}
=============================================================================
