--------------------------- MODULE MCPlanExecution ---------------------------
(***************************************************************************)
(* Instances of PlanExecution: rows {email, name}, email unique, name a     *)
(* plain lookup.                                                           *)
(***************************************************************************)
EXTENDS PlanExecution

CONSTANTS email, name, x, y, z, w, c1, c2

Row(e, n) == email :> e @@ name :> n

At(f, v) == [lookup |-> f, key |-> v]

(* Every table of rows 1 to n that keeps email unique. *)
AnyTable(n) ==
  LET rows == {Row(e, k) : e \in {x, y}, k \in {x, y}} \cup {NoRecord}
  IN  {t \in [Ids -> rows] : Table!UniqueIn(t) /\ \A id \in Ids : id > n => t[id] = NoRecord}

(* The first rows, with room behind them. *)
Email == <<x, y, z, w>>

Prefix ==
  {[id \in Ids |-> IF id <= n THEN Row(Email[id], x) ELSE NoRecord] : n \in 2..3}

(* Each kind of change, by id and by each lookup. *)
AllWrites ==
  [op : {"insert", "upsert"}, id : 1..2, rec : {Row(x, x), Row(y, x)}]
    \cup [op : {"patch"}, at : {At("id", 1), At(email, x), At(email, y), At(name, x)},
          value : {email :> x, email :> y, name :> y}]
    \cup {[op |-> "patch", at |-> At("id", 1), value |-> <<>>]}
    \cup [op : {"remove"}, at : {At("id", 2), At(email, x), At(name, x)}]
    \cup [op : {"delete"}, id : 1..2]

Edits ==
  {[op |-> "patch", at |-> At("id", 1), value |-> email :> y],
   [op |-> "patch", at |-> At(email, x), value |-> name :> y],
   [op |-> "remove", at |-> At(email, y)],
   [op |-> "upsert", id |-> 2, rec |-> Row(x, y)]}

(* Writes that add a row behind the others and change a row in place. *)
Growth ==
  {[op |-> "insert", id |-> 4, rec |-> Row(w, x)],
   [op |-> "patch", at |-> At("id", 2), value |-> email :> z]}

Limits == {<<>>} \cup {<<n>> : n \in 0..(MaxLimit + 1)}

AllReads ==
  [at : {<<>>}, limit : Limits, call : {"pages"}]
    \cup {[at |-> <<At(name, x)>>, limit |-> <<1>>, call |-> "pages"],
          [at |-> <<At(name, x)>>, limit |-> <<1>>, call |-> "many"],
          [at |-> <<At(name, x)>>, limit |-> <<MaxLimit>>, call |-> "many"]}

Asking(writes1, writes2, reads1, rebuilds, often, starts) ==
  [writes |-> c1 :> writes1 @@ c2 :> writes2, reads |-> c1 :> reads1 @@ c2 :> {},
   rebuilds |-> rebuilds, calls |-> [c \in Clients |-> often], starts |-> starts]

One(n) == {[id \in Ids |-> IF id <= n THEN Row(Email[id], x) ELSE NoRecord]}

(* Writes that take the key of another row, and one that frees it. *)
Takes ==
  {[op |-> "insert", id |-> 2, rec |-> Row(y, x)],
   [op |-> "upsert", id |-> 3, rec |-> Row(y, x)],
   [op |-> "patch", at |-> At("id", 1), value |-> email :> y],
   [op |-> "remove", at |-> At(email, y)]}

(* A client alone, with and without rebuilds, two that edit, one that reads *)
(* and one that rebuilds beside one that writes.                           *)
AllSettings ==
  "alone" :> Asking(AllWrites, {}, {}, {}, 1, AnyTable(3))
    @@ "apart" :> Asking(Takes, {}, {}, {c1}, 3, One(1))
    @@ "edits" :> Asking(Edits, Edits, {}, {}, 1, AnyTable(2))
    @@ "pages" :> Asking({}, Growth, AllReads, {}, 1, Prefix)
    @@ "rebuild" :> Asking(Takes, {}, {}, {c2}, 3, One(1))

(* Two clients that edit the one row there is. *)
TwoEditors == "edits" :> Asking(Edits, Edits, {}, {}, 1, One(1))
=============================================================================
