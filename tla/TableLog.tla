------------------------------ MODULE TableLog ------------------------------
(***************************************************************************)
(* The canonical `.6` operation log of one table and what is derived from  *)
(* it: the live rows a scan finds, the `.6b` cache (row pointers and       *)
(* lookup entries) and the in-memory RuntimeSixb projection.  Everything   *)
(* here is a pure operator over a chunk map; the store's state machine is  *)
(* TableStore.                                                             *)
(*                                                                         *)
(* A table directory is a function from chunk counters to chunk files.  A  *)
(* file has a preamble and data lines; byte offsets are abstracted to line *)
(* indices, so a row pointer is <<chunk counter, line index>>.             *)
(***************************************************************************)
EXTENDS Naturals, Sequences, FiniteSets

CONSTANTS
  Ids,           \* row ids
  Fields,        \* declared lookup fields (the implicit `id` lookup is the row map)
  UniqueFields,  \* the lookups declared unique
  Keys,          \* lookup key values
  NoRecord       \* the absence of a record

ASSUME LogAssumption ==
  /\ IsFiniteSet(Ids)
  /\ UniqueFields \subseteq Fields
  /\ NoRecord \notin [Fields -> Keys]

(* A record is told apart by its lookup values only. *)
Record == [Fields -> Keys]

(* AppendOperation: a full-row put or a delete by id. *)
Operation == [op : {"put"}, id : Ids, rec : Record]
               \cup [op : {"delete"}, id : Ids, rec : {NoRecord}]

Touched(batch) == {batch[j].id : j \in DOMAIN batch}

-----------------------------------------------------------------------------
(* Chunk files.                                                            *)

(* How much of a line reached the disk: all of it, all but its newline, or *)
(* its tag and tx id and not all of its columns.  (A cut inside the tag or  *)
(* the tx id is not modelled: it stops a scan like a put of the last kind.  *)
(* Nor is one inside the last value, which a scan takes for a shorter one.) *)
Cut == {"no", "newline", "middle"}

(* Tx ids come from Txs. *)
Line(Txs) == [op : {"put"}, tx : Txs, id : Ids, rec : Record, cut : Cut]
               \cup [op : {"delete"}, tx : Txs, id : Ids, rec : {NoRecord}, cut : Cut]

(* No preamble at all (an empty file), one cut behind its magic line, or the *)
(* whole of it.                                                             *)
Preamble == {"none", "cut", "whole"}

File(Txs) == [head : Preamble, lines : Seq(Line(Txs))]

EncodeLine(o, tx) ==
  [op |-> o.op, tx |-> tx, id |-> o.id, rec |-> o.rec, cut |-> "no"]

(* Mutant: one tx id for the whole batch. *)
EncodeBatch_OneTx(batch, txStart) ==
  [j \in 1..Len(batch) |-> EncodeLine(batch[j], txStart)]

(* One line per operation, numbered from txStart. *)
EncodeBatch(batch, txStart) ==
  [j \in 1..Len(batch) |-> EncodeLine(batch[j], txStart + (j - 1))]

Positions(chunks) ==
  UNION {{<<c, i>> : i \in 1..Len(chunks[c].lines)} : c \in DOMAIN chunks}

At(chunks, p) == chunks[p[1]].lines[p[2]]

(* Mutant: file name order, which is the reverse of chunk order. *)
Before_FileNameOrder(p, q) == p[1] > q[1] \/ (p[1] = q[1] /\ p[2] < q[2])

(* six_files_in_read_order reads chunk counters upwards, lines downwards. *)
Before(p, q) == p[1] < q[1] \/ (p[1] = q[1] /\ p[2] < q[2])

(* A line that starts where an unterminated one was left is part of that   *)
(* one for every reader of the file.                                       *)
Swallowed(chunks, p) ==
  IF p[2] = 1 THEN chunks[p[1]].head = "cut"
              ELSE chunks[p[1]].lines[p[2] - 1].cut # "no"

(* The text of the line is its own, whole text. *)
Intact(chunks, p) ==
  At(chunks, p).cut \in IF p[2] = Len(chunks[p[1]].lines) THEN {"no", "newline"}
                                                          ELSE {"no"}

(* A put that is not intact has the wrong number of columns and stops the  *)
(* scan; a delete that is not intact names no row.                         *)
Decodable(chunks) ==
  \A p \in Positions(chunks) :
    At(chunks, p).op = "put" /\ ~Swallowed(chunks, p) => Intact(chunks, p)

IsDataLine(chunks, p) == ~Swallowed(chunks, p) /\ Intact(chunks, p)

DataLines(chunks) == {p \in Positions(chunks) : IsDataLine(chunks, p)}

-----------------------------------------------------------------------------
(* Scanning: the last operation of an id wins, whatever its tx id.         *)

IsLive(chunks, p) ==
  /\ IsDataLine(chunks, p)
  /\ At(chunks, p).op = "put"
  /\ \A q \in Positions(chunks) :
       Before(p, q) /\ At(chunks, q).id = At(chunks, p).id => ~IsDataLine(chunks, q)

LivePositions(chunks) == {p \in Positions(chunks) : IsLive(chunks, p)}

(* scan_table_files: the pointer of each live row. *)
ScanRows(chunks) ==
  LET live == LivePositions(chunks)
  IN  [id \in {At(chunks, p).id : p \in live} |->
         CHOOSE p \in live : At(chunks, p).id = id]

LiveTable(chunks) ==
  LET rows == ScanRows(chunks)
  IN  [id \in Ids |-> IF id \in DOMAIN rows THEN At(chunks, rows[id]).rec ELSE NoRecord]

LiveRecords(chunks) ==
  LET rows == ScanRows(chunks)
  IN  [id \in DOMAIN rows |-> At(chunks, rows[id]).rec]

(* discovered_next_tx_id: one more than the highest tx id at a line start. *)
DiscoveredTx(chunks) ==
  LET txs == {0} \cup {At(chunks, p).tx :
                         p \in {q \in Positions(chunks) : ~Swallowed(chunks, q)}}
  IN  (CHOOSE m \in txs : \A t \in txs : t <= m) + 1

(* The `.6` source hash covers chunk names and data lines; chunks without   *)
(* data lines do not count.  Hash collisions are not modelled.             *)
SourceOf(chunks) ==
  [c \in {d \in DOMAIN chunks : chunks[d].lines # <<>>} |-> chunks[c].lines]

(* A scan hashes the bytes it read, a check of the `.6b` header the lines   *)
(* with a newline each: they differ when the last line has none.           *)
Terminated(chunks) ==
  \A p \in Positions(chunks) : p[2] = Len(chunks[p[1]].lines) => At(chunks, p).cut = "no"

-----------------------------------------------------------------------------
(* The `.6b` cache [rows, lookups] and the RuntimeSixb projection, which    *)
(* also keeps the keys each row is listed under (row_lookup_keys).  The     *)
(* implicit `id` lookup lists every row under its own id: it is left out of *)
(* lookups, and stands for a row's presence in the domain of rowKeys.       *)

LookupKeys(rec) == {<<f, rec[f]>> : f \in Fields}

(* rebuild_sixb's cache. *)
CacheOf(chunks) ==
  [rows    |-> ScanRows(chunks),
   lookups |-> UNION {{<<k, At(chunks, p).id>> : k \in LookupKeys(At(chunks, p).rec)} :
                        p \in LivePositions(chunks)}]

(* validate_unique_lookups *)
UniqueLookups(lookups) ==
  \A e, d \in lookups :
    e[1] = d[1] /\ e[1][1] \in UniqueFields => e[2] = d[2]

FromCache(cache) ==
  [rows    |-> cache.rows,
   lookups |-> cache.lookups,
   rowKeys |-> [id \in DOMAIN cache.rows \cup {e[2] : e \in cache.lookups} |->
                  {e[1] : e \in {d \in cache.lookups : d[2] = id}}]]

ToCache(proj) == [rows |-> proj.rows, lookups |-> proj.lookups]

(* Mutant: the keys of a row whose record is not cached are forgotten. *)
KeysToRemove_CachedOnly(proj, cached, id) ==
  IF id \in DOMAIN cached THEN LookupKeys(cached[id]) ELSE {}

(* The keys remove_record_lookups takes the row off: those of the cached   *)
(* old record, else the remembered ones, else all (remove_lookup_id_slow). *)
KeysToRemove(proj, cached, id) ==
  IF id \in DOMAIN proj.rows /\ id \in DOMAIN cached
    THEN LookupKeys(cached[id])
  ELSE IF id \in DOMAIN proj.rowKeys
    THEN proj.rowKeys[id]
  ELSE {e[1] : e \in proj.lookups}

(* apply_operation for every operation of a batch whose ids are distinct.  *)
(* ptr[j] is the pointer of batch[j], cached the row cache before it.      *)
ApplyBatch(proj, batch, ptr, cached) ==
  LET puts      == {j \in DOMAIN batch : batch[j].op = "put"}
      putIds    == {batch[j].id : j \in puts}
      index(id) == CHOOSE j \in puts : batch[j].id = id
      relisted  == {id \in Touched(batch) : id \notin putIds \/ id \in DOMAIN proj.rows}
      removed   == UNION {{<<k, id>> : k \in KeysToRemove(proj, cached, id)} :
                            id \in relisted}
      added     == UNION {{<<k, batch[j].id>> : k \in LookupKeys(batch[j].rec)} :
                            j \in puts}
      kept(S)   == (S \ Touched(batch)) \cup putIds
  IN  [rows    |-> [id \in kept(DOMAIN proj.rows) |->
                      IF id \in putIds THEN ptr[index(id)] ELSE proj.rows[id]],
       lookups |-> (proj.lookups \ removed) \cup added,
       rowKeys |-> [id \in kept(DOMAIN proj.rowKeys) |->
                      IF id \in putIds THEN LookupKeys(batch[index(id)].rec)
                                       ELSE proj.rowKeys[id]]]

-----------------------------------------------------------------------------
(* Batch validation against the projection taken for the write.            *)

DistinctIds(batch) ==
  \A i, j \in DOMAIN batch : batch[i].id = batch[j].id => i = j

(* Mutants: only the stored rows are checked; only the batch is. *)
NoUniqueConflict_StoredOnly(proj, batch) ==
  \A j \in DOMAIN batch, f \in UniqueFields, e \in proj.lookups :
    batch[j].op = "put" /\ e[1] = <<f, batch[j].rec[f]>> => e[2] = batch[j].id

NoUniqueConflict_BatchOnly(proj, batch) ==
  \A i, j \in DOMAIN batch, f \in UniqueFields :
    batch[i].op = "put" /\ batch[j].op = "put" /\ batch[i].rec[f] = batch[j].rec[f]
      => i = j

(* validate_put_unique_lookup_conflicts: against the rows before the batch *)
(* and against the batch's own puts.  A unique key lists at most one row    *)
(* (UniqueLookups), so the first row of a key is the only one.              *)
NoUniqueConflict(proj, batch) ==
  \A j \in DOMAIN batch, f \in UniqueFields :
    batch[j].op = "put" =>
      /\ \A e \in proj.lookups : e[1] = <<f, batch[j].rec[f]>> => e[2] = batch[j].id
      /\ \A i \in DOMAIN batch :
           batch[i].op = "put" /\ batch[i].rec[f] = batch[j].rec[f] => i = j

Modes == {"InsertOnly", "Upsert"}

(* Mutant: insert-only writes are not checked against the live rows. *)
Accepts_AnyInsert(proj, batch, mode) ==
  DistinctIds(batch) /\ NoUniqueConflict(proj, batch)

Accepts(proj, batch, mode) ==
  /\ DistinctIds(batch)
  /\ mode = "InsertOnly" => Touched(batch) \cap DOMAIN proj.rows = {}
  /\ NoUniqueConflict(proj, batch)
=============================================================================
