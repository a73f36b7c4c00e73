---------------------------- MODULE PlanExecution ----------------------------
(***************************************************************************)
(* The Database over one table of its store: clients that run plans.  Each *)
(* call of the store is one step (TableStore says what it does inside), and *)
(* a plan is one or more of them with no lock from one to the next: edits   *)
(* read rows before they write them, pages count before they read.  The     *)
(* store answers, and checks a batch, from its projection of the rows; a    *)
(* rebuild scans the files in one step and publishes what it found in       *)
(* another, without the writers' lock.                                     *)
(***************************************************************************)
EXTENDS Naturals, Sequences, FiniteSets, TLC

Seqs == INSTANCE SequencesExt

CONSTANTS
  Ids,           \* row ids; numbers, for pages are in the order of ids
  Fields,        \* the fields of a row besides its id
  LookupFields,  \* the fields declared as lookups
  UniqueFields,  \* the lookups declared unique
  Values,
  NoRecord,      \* the absence of a record
  Clients,
  MaxChanges,    \* changes of one write_many (bounds the model)
  MaxCalls,      \* calls of a client (bounds the model)
  Settings,      \* by name, [writes, reads, rebuilds, calls, starts]: what each
                 \* client may ask for and how often, and the tables to start
                 \* from
  DefaultLimit,  \* DEFAULT_PLAN_LIMIT
  MaxLimit       \* MAX_PLAN_LIMIT

ASSUME PlanAssumption ==
  /\ IsFiniteSet(Ids) /\ Ids \subseteq Nat
  /\ UniqueFields \subseteq LookupFields /\ LookupFields \subseteq Fields
  /\ NoRecord \notin [Fields -> Values]
  /\ MaxChanges \in Nat /\ MaxCalls \in Nat
  /\ DefaultLimit \in 1..MaxLimit /\ MaxLimit \in Nat

VARIABLES
  table,      \* the live rows of the files
  projection, \* the rows of the runtime projection
  scanned,    \* the rows a client's rebuild found in the files
  pc,         \* what a client's call does next
  mine,       \* the locals of a client's call
  calls,      \* calls a client still makes
  setting     \* the setting of the run, from beginning to end

turns == <<calls, setting>>
vars  == <<table, projection, scanned, pc, mine, turns>>

(* What a client may ask for, of Change and of PagedRead, and who rebuilds  *)
(* the projection: by rebuild_cache, or in a read that finds it taken out.  *)
Writes(c)  == Settings[setting].writes[c]
Reads(c)   == Settings[setting].reads[c]
Rebuilders == Settings[setting].rebuilds

Record == [Fields -> Values]

(* A lookup with its key: `id` or a declared field. *)
Target ==
  [lookup : {"id"}, key : Ids] \cup [lookup : LookupFields, key : Values]

(* A partial row: the fields an edit gives. *)
Patch == UNION {[S -> Values] : S \in SUBSET Fields}

(* WriteChange: what a plan for a state change carries. *)
Change ==
  [op : {"insert", "upsert"}, id : Ids, rec : Record]
    \cup [op : {"patch"}, at : Target, value : Patch]
    \cup [op : {"remove"}, at : Target]
    \cup [op : {"delete"}, id : Ids]

(* The key of a find, or none for a scan; the limit, or none; whether the   *)
(* caller follows the cursors (scan, find) or drops them (get_many_by and  *)
(* the GetMany selector answer with the rows of the first page).           *)
PagedRead ==
  [at    : {<<>>} \cup {<<t>> : t \in Target},
   limit : {<<>>} \cup {<<n>> : n \in 0..(MaxLimit + 1)},
   call  : {"pages", "many"}]

(* What the rows are to those who only see them change. *)
Table == INSTANCE TableSpec WITH Keys <- Values, MaxBatch <- MaxChanges

ASSUME SettingsAssumption ==
  \A s \in DOMAIN Settings :
    /\ \A c \in Clients : Settings[s].writes[c] \subseteq Change
                             /\ Settings[s].reads[c] \subseteq PagedRead
    /\ Settings[s].rebuilds \subseteq Clients
    /\ Settings[s].calls \in [Clients -> 0..MaxCalls]
    /\ \A t \in Settings[s].starts : t \in [Ids -> Record \cup {NoRecord}] /\ Table!UniqueIn(t)

(* The locals of a call.  stayed is history: the rows that matched whenever *)
(* the call looked; it decides nothing.                                    *)
NoLocals ==
  [call |-> "none", changes |-> <<>>, next |-> 1, batch |-> <<>>, plan |-> <<>>,
   cursor |-> 0, count |-> 0, rows |-> <<>>, stayed |-> {}, outcome |-> "none"]

-----------------------------------------------------------------------------
(* What the store answers, from its projection.                            *)

Live == {id \in Ids : projection[id] # NoRecord}

(* A row is listed under its id and under the value of each lookup field.  *)
HoldsIn(rows, id, t) ==
  rows[id] # NoRecord /\ IF t.lookup = "id" THEN id = t.key ELSE rows[id][t.lookup] = t.key

Holds(id, t) == HoldsIn(projection, id, t)

Found(at) == {id \in Live : at = <<>> \/ Holds(id, at[1])}

(* The nth id is the one that n - 1 others are below. *)
InOrder(ids) ==
  [n \in 1..Cardinality(ids) |->
     CHOOSE id \in ids : Cardinality({other \in ids : other < id}) = n - 1]

(* get_by_lookup and scan_table: the ids of the matching rows, in order. *)
Matching(at) == InOrder(Found(at))

(* require_unique_lookup *)
IsUnique(t) == t.lookup = "id" \/ t.lookup \in UniqueFields

(* Mutant: a batch is checked against itself only. *)
Accepts_BatchOnly(batch, mode) ==
  \A i, j \in DOMAIN batch : batch[i].id = batch[j].id => i = j

(* What append_batch checks before it writes: ids that are distinct, new    *)
(* ones where only inserts are allowed, and unique keys that are free, both *)
(* in the projection and in the batch.                                     *)
Accepts(batch, mode) ==
  /\ \A i, j \in DOMAIN batch : batch[i].id = batch[j].id => i = j
  /\ mode = "InsertOnly" => \A i \in DOMAIN batch : batch[i].id \notin Live
  /\ \A i \in DOMAIN batch, f \in UniqueFields :
       batch[i].rec # NoRecord =>
         /\ \A id \in Live : projection[id][f] = batch[i].rec[f] => id = batch[i].id
         /\ \A j \in DOMAIN batch :
              batch[j].rec # NoRecord /\ batch[i].rec[f] = batch[j].rec[f] => i = j

(* The rows after a batch of whole rows and deletes. *)
Stored(rows, batch) ==
  [id \in Ids |-> IF \E i \in DOMAIN batch : batch[i].id = id
                    THEN batch[CHOOSE i \in DOMAIN batch : batch[i].id = id].rec
                    ELSE rows[id]]

-----------------------------------------------------------------------------

NoRows == [id \in Ids |-> NoRecord]

Init ==
  /\ setting \in DOMAIN Settings
  /\ table \in Settings[setting].starts
  /\ projection = table
  /\ scanned = [c \in Clients |-> NoRows]
  /\ pc = [c \in Clients |-> "idle"]
  /\ mine = [c \in Clients |-> NoLocals]
  /\ calls = Settings[setting].calls

Return(c, outcome) ==
  /\ pc' = [pc EXCEPT ![c] = "idle"]
  /\ mine' = [mine EXCEPT ![c] = [NoLocals EXCEPT !.call = mine[c].call, !.outcome = outcome]]

Goto(c, label) == pc' = [pc EXCEPT ![c] = label]

Begin(c, label, locals) ==
  /\ pc[c] = "idle" /\ calls[c] > 0
  /\ pc' = [pc EXCEPT ![c] = label]
  /\ mine' = [mine EXCEPT ![c] = locals]
  /\ calls' = [calls EXCEPT ![c] = @ - 1]
  /\ UNCHANGED <<table, projection, scanned, setting>>

(* All changes are inserts, or none is; only delete_by_id deletes an id     *)
(* without a look at its row, and it deletes one.                          *)
IsWriteMany(changes) ==
  LET inserts == {i \in DOMAIN changes : changes[i].op = "insert"}
  IN  /\ inserts = {} \/ inserts = DOMAIN changes
      /\ \A i \in DOMAIN changes : changes[i].op = "delete" => Len(changes) = 1

(* write, write_many, insert_many, patch_by_id, delete_by_id. *)
CallWrite(c) ==
  \E n \in 1..MaxChanges : \E changes \in [1..n -> Writes(c)] :
    /\ IsWriteMany(changes)
    /\ Begin(c, "resolve", [NoLocals EXCEPT !.call = "write", !.changes = changes])

(* rebuild_cache *)
CallRebuild(c) ==
  c \in Rebuilders /\ Begin(c, "scan", [NoLocals EXCEPT !.call = "rebuild"])

(* scan or find with its cursors to the last page, or get_many_by. *)
CallRead(c) ==
  \E plan \in Reads(c) :
    Begin(c, "check", [NoLocals EXCEPT !.call = plan.call, !.plan = <<plan>>, !.stayed = Live])

-----------------------------------------------------------------------------
(* Writes.                                                                 *)

(* Mutant: an edit stores the fields it names and no others. *)
Merged_Drops(rec, value) == value

(* insert_field for every field of the edit *)
Merged(rec, value) == [f \in Fields |-> IF f \in DOMAIN value THEN value[f] ELSE rec[f]]

(* Mutant: any lookup may address an edit. *)
Refused_NotForLookups(change) == change.op = "patch" /\ DOMAIN change.value = {}

(* validate_patch_plan, require_unique_lookup. *)
Refused(change) ==
  \/ change.op = "patch" /\ DOMAIN change.value = {}
  \/ change.op \in {"patch", "remove"} /\ ~IsUnique(change.at)

(* The next change becomes an operation on a whole row, from the row that   *)
(* is there now if it has to be found (require_unique_row).                *)
ResolveChange(c) ==
  LET change == mine[c].changes[mine[c].next]
      found  == {id \in Live : Holds(id, change.at)}
      push(id, rec) ==
        IF \E i \in DOMAIN mine[c].batch : mine[c].batch[i].id = id
          THEN Return(c, "refused")
          ELSE /\ mine' = [mine EXCEPT ![c].batch = Append(@, [id |-> id, rec |-> rec]),
                                       ![c].next = @ + 1]
               /\ UNCHANGED pc
  IN
  /\ pc[c] = "resolve" /\ mine[c].next <= Len(mine[c].changes)
  /\ IF Refused(change) THEN Return(c, "refused")
     ELSE CASE change.op \in {"insert", "upsert"} -> push(change.id, change.rec)
            [] change.op = "delete" -> push(change.id, NoRecord)
            [] change.op \in {"patch", "remove"} /\ found = {} -> Return(c, "not found")
            [] OTHER ->
                 \E id \in found :
                   push(id, IF change.op = "remove" THEN NoRecord
                                                    ELSE Merged(projection[id], change.value))
  /\ UNCHANGED <<table, projection, scanned, turns>>

Mode(changes) == IF changes[1].op = "insert" THEN "InsertOnly" ELSE "Upsert"

(* append_batch: the operations go to the files and into the projection. *)
AppendBatch(c) ==
  /\ pc[c] = "resolve" /\ mine[c].next > Len(mine[c].changes)
  /\ IF Accepts(mine[c].batch, Mode(mine[c].changes))
       THEN /\ table' = Stored(table, mine[c].batch)
            /\ projection' = Stored(projection, mine[c].batch)
            /\ Return(c, "done")
       ELSE UNCHANGED <<table, projection>> /\ Return(c, "refused")
  /\ UNCHANGED <<scanned, turns>>

-----------------------------------------------------------------------------
(* Paged reads.                                                            *)

Limit(plan) == IF plan.limit = <<>> THEN DefaultLimit ELSE plan.limit[1]

(* checked_limit *)
CheckLimit(c) ==
  /\ pc[c] = "check"
  /\ IF Limit(mine[c].plan[1]) \in 1..MaxLimit
       THEN Goto(c, "count") /\ UNCHANGED mine
       ELSE Return(c, "refused")
  /\ UNCHANGED <<table, projection, scanned, turns>>

(* The rows of the read so far that match now. *)
Stayed(c) == mine[c].stayed \cap Found(mine[c].plan[1].at)

(* count_table, count_lookup *)
CountRows(c) ==
  /\ pc[c] = "count"
  /\ mine' = [mine EXCEPT ![c].count = Len(Matching(mine[c].plan[1].at)),
                          ![c].stayed = Stayed(c)]
  /\ Goto(c, "rows")
  /\ UNCHANGED <<table, projection, scanned, turns>>

Smaller(m, n) == IF m <= n THEN m ELSE n

(* Mutants: there is always a cursor; the last page is cut off. *)
NextCursor_Always(offset, limit, total) == <<Smaller(offset + limit, total)>>

NextCursor_OffByOne(offset, limit, total) ==
  IF offset + limit + 1 < total THEN <<offset + limit>> ELSE <<>>

(* next_cursor *)
NextCursor(offset, limit, total) ==
  IF offset + limit < total THEN <<offset + limit>> ELSE <<>>

(* The page behind the cursor; its cursor comes from the earlier count. *)
ReadPage(c) ==
  LET plan   == mine[c].plan[1]
      found  == Matching(plan.at)
      page   == SubSeq(found, mine[c].cursor + 1,
                       Smaller(Len(found), mine[c].cursor + Limit(plan)))
      rows   == mine[c].rows \o page
      cursor == NextCursor(mine[c].cursor, Limit(plan), mine[c].count)
  IN
  /\ pc[c] = "rows"
  /\ IF cursor = <<>> \/ plan.call = "many"
       THEN /\ Goto(c, "idle")
            /\ mine' = [mine EXCEPT ![c] =
                 [NoLocals EXCEPT !.call = plan.call, !.plan = <<plan>>, !.rows = rows,
                                  !.stayed = Stayed(c), !.outcome = "done"]]
       ELSE /\ Goto(c, "count")
            /\ mine' = [mine EXCEPT ![c].rows = rows, ![c].stayed = Stayed(c),
                                    ![c].cursor = cursor[1]]
  /\ UNCHANGED <<table, projection, scanned, turns>>

-----------------------------------------------------------------------------

(* Rebuilds.                                                               *)

(* scan_table_files, validate_unique_lookups *)
ScanFiles(c) ==
  /\ pc[c] = "scan"
  /\ IF Table!UniqueIn(table)
       THEN scanned' = [scanned EXCEPT ![c] = table] /\ Goto(c, "publish") /\ UNCHANGED mine
       ELSE scanned' = scanned /\ Return(c, "refused")
  /\ UNCHANGED <<table, projection, turns>>

(* remember_runtime_sixb_cache: whatever was published meanwhile is gone. *)
Publish(c) ==
  /\ pc[c] = "publish"
  /\ projection' = scanned[c]
  /\ scanned' = [scanned EXCEPT ![c] = NoRows]
  /\ Return(c, "done")
  /\ UNCHANGED <<table, turns>>

-----------------------------------------------------------------------------

(* The calls a program is in go on; it need not make another one. *)
Step(c) ==
  ResolveChange(c) \/ AppendBatch(c) \/ CheckLimit(c) \/ CountRows(c) \/ ReadPage(c)
    \/ ScanFiles(c) \/ Publish(c)

Finished ==
  /\ \A c \in Clients :
       /\ pc[c] = "idle"
       /\ calls[c] = 0 \/ (Writes(c) \cup Reads(c) = {} /\ c \notin Rebuilders)
  /\ UNCHANGED vars

Next ==
  Finished \/ \E c \in Clients : CallWrite(c) \/ CallRead(c) \/ CallRebuild(c) \/ Step(c)

(* A call is straight code on its client's thread: it goes on until it     *)
(* returns.                                                                *)
Spec == Init /\ [][Next]_vars /\ \A c \in Clients : WF_vars(Step(c))

-----------------------------------------------------------------------------

TypeOK ==
  /\ table \in Table!Tables /\ projection \in Table!Tables
  /\ scanned \in [Clients -> Table!Tables]
  /\ pc \in [Clients -> {"idle", "resolve", "check", "count", "rows", "scan", "publish"}]
  /\ calls \in [Clients -> 0..MaxCalls]
  /\ \A c \in Clients :
       /\ mine[c].next \in 1..(Len(mine[c].changes) + 1)
       /\ mine[c].cursor <= Cardinality(Ids) /\ mine[c].count <= Cardinality(Ids)
       /\ mine[c].rows \in Seq(Ids) /\ mine[c].stayed \subseteq Ids
       /\ mine[c].outcome \in {"none", "done", "refused", "not found"}
       /\ Len(mine[c].batch) = IF pc[c] = "resolve" THEN mine[c].next - 1 ELSE 0

Others(c) == Clients \ {c}

(* No client rebuilds beside another one that writes. *)
RebuildsApart == \A c \in Rebuilders : \A d \in Others(c) : Writes(d) = {}

(* However plans of the clients interleave, the rows change as the          *)
(* abstract table's do, whole batches and no unique key of two rows, as     *)
(* long as nobody rebuilds beside a writer, and beside one whenever the     *)
(* projection a batch is checked against is that of the files.             *)
TableRefinement == [][RebuildsApart \/ projection = table => Table!Commit(table')]_table

(* A record with the fields an edit names changed. *)
Edited(rec, value) == [f \in DOMAIN rec |-> IF f \in DOMAIN value THEN value[f] ELSE rec[f]]

(* One change alone, on the rows it finds. *)
Applied(rows, change) ==
  [id \in Ids |->
     CASE change.op \in {"insert", "upsert"} /\ id = change.id -> change.rec
       [] change.op = "delete" /\ id = change.id -> NoRecord
       [] change.op = "patch" /\ HoldsIn(rows, id, change.at) -> Edited(rows[id], change.value)
       [] change.op = "remove" /\ HoldsIn(rows, id, change.at) -> NoRecord
       [] OTHER -> rows[id]]

Wrote(c) == pc[c] = "resolve" /\ pc'[c] = "idle" /\ mine'[c].outcome = "done"

(* The rows the changes of a write would leave if they were made one after *)
(* another on the rows of the moment.                                      *)
MadeInSequence(c) == table' = Seqs!FoldLeft(Applied, table, mine[c].changes)

(* The only client that writes or rebuilds. *)
Sole(c) == \A d \in Others(c) : Writes(d) = {} /\ d \notin Rebuilders

(* Although each change is resolved against the rows before the batch, a    *)
(* write that is accepted, of the only client that writes, is the sequence *)
(* of its changes: an edit changes its fields of every row that holds its   *)
(* key and nothing else, a removal by lookup removes them (write_many).    *)
BatchIsSequence == [][\A c \in Clients : Wrote(c) /\ Sole(c) => MadeInSequence(c)]_vars

(* Refuted: so is a write of one of several clients; an edit "applies a     *)
(* partial update to one row" and leaves the fields it does not name.      *)
EditsArePartial == [][\A c \in Clients : Wrote(c) => MadeInSequence(c)]_vars

(* While rows are added behind the others and changed in place, a read that *)
(* is answered has every row that matched at each of its steps, once       *)
(* (next_cursor, scan, find).  So has an answer of get_many_by, which drops *)
(* the cursor, when it has fewer rows than its page could.                 *)
PagesExact ==
  \A c \in Clients :
    mine[c].outcome = "done" /\ mine[c].call \in {"pages", "many"} =>
      /\ \/ mine[c].call = "many" /\ Len(mine[c].rows) = Limit(mine[c].plan[1])
         \/ mine[c].stayed \subseteq Seqs!ToSet(mine[c].rows)
      /\ \A i, j \in DOMAIN mine[c].rows :
           i < j /\ mine[c].rows[i] \in mine[c].stayed => mine[c].rows[i] # mine[c].rows[j]

(* Every call returns: the cursors of a paged read come to an end whatever  *)
(* is written between its pages.                                           *)
CallsReturn == \A c \in Clients : pc[c] # "idle" ~> pc[c] = "idle"
=============================================================================
