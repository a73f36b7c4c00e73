-------------------------- MODULE TableScanProofs --------------------------
(***************************************************************************)
(* What a scan finds in files whose lines are whole, and that the           *)
(* projection a write updates is the one a scan of the new files finds.    *)
(* These are facts about the operators of TableLog.                        *)
(***************************************************************************)
EXTENDS TableStoreProofs

(* No stop has cut a line or a preamble. *)
Whole(files) ==
  /\ \A c \in DOMAIN files : files[c].head # "cut"
  /\ \A p \in Positions(files) : At(files, p).cut = "no"

IsFiles(files) == PartialOn(Chunk, File(Tx), files)

LEMMA PositionIs ==
  ASSUME NEW files, IsFiles(files), NEW c \in DOMAIN files, NEW i \in DOMAIN files[c].lines
  PROVE  <<c, i>> \in Positions(files) /\ At(files, <<c, i>>) = files[c].lines[i]
<1>1. files[c].lines \in Seq(Line(Tx))
  BY DEF IsFiles, PartialOn, File
<1>2. i \in 1..Len(files[c].lines)
  BY <1>1, LenProperties
<1> QED
  BY <1>2 DEF Positions, At

(* Positions are ordered as they are read. *)
LEMMA BeforeOrder ==
  /\ \A p, q \in Pointer : p = q \/ Before(p, q) \/ Before(q, p)
  /\ \A p \in Pointer : ~Before(p, p)
  /\ \A p, q, r \in Pointer : Before(p, q) /\ Before(q, r) => Before(p, r)
<1>1. \A c \in Chunk : c \in Nat
  BY StoreAssumption DEF Chunk
<1>2. \A p \in Pointer : p = <<p[1], p[2]>> /\ p[1] \in Nat /\ p[2] \in Nat
  BY <1>1 DEF Pointer
<1> QED
  BY <1>2 DEF Before

(* In whole files every line counts (no columns are missing, nothing is     *)
(* swallowed), and a scan succeeds.                                        *)
LEMMA WholeLines ==
  ASSUME NEW files, IsFiles(files), Whole(files)
  PROVE  /\ \A p \in Positions(files) : ~Swallowed(files, p) /\ IsDataLine(files, p)
         /\ DataLines(files) = Positions(files)
         /\ Decodable(files)
<1>1. ASSUME NEW p \in Positions(files)
      PROVE  ~Swallowed(files, p) /\ IsDataLine(files, p) /\ Intact(files, p)
  <2>1. p[1] \in DOMAIN files /\ p[2] \in DOMAIN files[p[1]].lines /\ p[2] \in Nat
    BY PositionType DEF IsFiles, Pointer
  <2>2. CASE p[2] = 1
    BY <2>1, <2>2 DEF Whole, Swallowed, IsDataLine, Intact
  <2>3. CASE p[2] # 1
    <3>1. files[p[1]].lines \in Seq(Line(Tx))
      BY <2>1 DEF IsFiles, PartialOn, File
    <3>2. p[2] - 1 \in DOMAIN files[p[1]].lines
      BY <2>1, <2>3, <3>1, LenProperties
    <3> DEFINE q == <<p[1], p[2] - 1>>
    <3>3. q \in Positions(files) /\ At(files, q) = files[p[1]].lines[p[2] - 1]
      BY <2>1, <3>2, PositionIs
    <3> HIDE DEF q
    <3>4. files[p[1]].lines[p[2] - 1].cut = "no"
      BY <3>3 DEF Whole
    <3> QED
      BY <2>3, <3>4 DEF Whole, Swallowed, IsDataLine, Intact
  <2> QED
    BY <2>2, <2>3
<1> QED
  BY <1>1 DEF DataLines, Decodable

(* The live lines: puts behind which no line has their id. *)
LEMMA LiveIs ==
  ASSUME NEW files, IsFiles(files), Whole(files)
  PROVE  LivePositions(files) =
           {p \in Positions(files) :
              /\ At(files, p).op = "put"
              /\ \A q \in Positions(files) : Before(p, q) => At(files, q).id # At(files, p).id}
BY WholeLines DEF LivePositions, IsLive

(* An id has one live line, and the scan points its row there. *)
LEMMA ScanRowsIs ==
  ASSUME NEW files, IsFiles(files), Whole(files)
  PROVE  /\ \A p, q \in LivePositions(files) : At(files, p).id = At(files, q).id => p = q
         /\ \A p \in LivePositions(files) :
              At(files, p).id \in DOMAIN ScanRows(files) /\ ScanRows(files)[At(files, p).id] = p
         /\ \A id \in DOMAIN ScanRows(files) :
              /\ ScanRows(files)[id] \in LivePositions(files)
              /\ At(files, ScanRows(files)[id]).id = id
<1>1. \A p, q \in LivePositions(files) : At(files, p).id = At(files, q).id => p = q
  BY LiveIs, PositionType, BeforeOrder DEF IsFiles
<1>2. DOMAIN ScanRows(files) = {At(files, p).id : p \in LivePositions(files)}
  BY DEF ScanRows
<1>3. ASSUME NEW id \in DOMAIN ScanRows(files)
      PROVE  /\ ScanRows(files)[id] \in LivePositions(files)
             /\ At(files, ScanRows(files)[id]).id = id
  <2>1. \E p \in LivePositions(files) : At(files, p).id = id
    BY <1>2
  <2>2. ScanRows(files)[id] = CHOOSE p \in LivePositions(files) : At(files, p).id = id
    BY <1>2 DEF ScanRows
  <2> QED
    BY <2>1, <2>2
<1> QED
  BY <1>1, <1>2, <1>3

(* The cache of whole files, row by row. *)
LEMMA CacheIs ==
  ASSUME NEW files, IsFiles(files), Whole(files)
  PROVE  LET rows == ScanRows(files)
         IN  /\ CacheOf(files).rows = rows
             /\ CacheOf(files).lookups =
                  UNION {{<<k, id>> : k \in LookupKeys(At(files, rows[id]).rec)} :
                           id \in DOMAIN rows}
<1> DEFINE rows == ScanRows(files)
           listed(id) == {<<k, id>> : k \in LookupKeys(At(files, rows[id]).rec)}
           lines(p) == {<<k, At(files, p).id>> : k \in LookupKeys(At(files, p).rec)}
<1>1. CacheOf(files).lookups = UNION {lines(p) : p \in LivePositions(files)}
  BY DEF CacheOf
<1>2. \A p \in LivePositions(files) :
        At(files, p).id \in DOMAIN rows /\ rows[At(files, p).id] = p
  BY ScanRowsIs
<1>3. \A id \in DOMAIN rows : rows[id] \in LivePositions(files) /\ At(files, rows[id]).id = id
  BY ScanRowsIs
<1> HIDE DEF rows
<1>4. \A p \in LivePositions(files) : lines(p) = listed(At(files, p).id)
  BY <1>2
<1>5. \A id \in DOMAIN rows : listed(id) = lines(rows[id])
  BY <1>3
<1> HIDE DEF listed, lines
<1>6. UNION {lines(p) : p \in LivePositions(files)} = UNION {listed(id) : id \in DOMAIN rows}
  BY <1>2, <1>3, <1>4, <1>5
<1> QED
  BY <1>1, <1>6 DEF CacheOf, rows, listed

(* The keys a projection remembers of a row are those of its record. *)
LEMMA RowKeysAre ==
  ASSUME NEW files, IsFiles(files), Whole(files)
  PROVE  LET rows == ScanRows(files)
             proj == FromCache(CacheOf(files))
         IN  /\ proj.rows = rows
             /\ proj.lookups = CacheOf(files).lookups
             /\ proj.rowKeys = [id \in DOMAIN rows |-> LookupKeys(At(files, rows[id]).rec)]
<1> DEFINE rows == ScanRows(files)
           keys(id) == LookupKeys(At(files, rows[id]).rec)
           lookups == CacheOf(files).lookups
           ids == DOMAIN rows \cup {e[2] : e \in lookups}
           listed(id) == {e[1] : e \in {d \in lookups : d[2] = id}}
<1>1. FromCache(CacheOf(files)) =
        [rows |-> rows, lookups |-> lookups, rowKeys |-> [id \in ids |-> listed(id)]]
  BY CacheIs DEF FromCache
<1>2. \A e : e \in lookups <=> \E id \in DOMAIN rows : \E k \in keys(id) : e = <<k, id>>
  <2>1. lookups = UNION {{<<k, id>> : k \in keys(id)} : id \in DOMAIN rows}
    BY CacheIs
  <2> HIDE DEF rows, keys, lookups
  <2> QED
    BY <2>1
<1> HIDE DEF rows, keys, lookups
<1>3. \A e \in lookups : e[2] \in DOMAIN rows /\ e[1] \in keys(e[2])
  <2> SUFFICES ASSUME NEW e \in lookups PROVE e[2] \in DOMAIN rows /\ e[1] \in keys(e[2])
    OBVIOUS
  <2>1. PICK id \in DOMAIN rows : \E k \in keys(id) : e = <<k, id>>
    BY <1>2
  <2>2. PICK k \in keys(id) : e = <<k, id>>
    BY <2>1
  <2> QED
    BY <2>2
<1>4. ids = DOMAIN rows /\ \A id \in DOMAIN rows : listed(id) = keys(id)
  <2>1. ASSUME NEW id \in DOMAIN rows, NEW k \in keys(id) PROVE k \in listed(id)
    <3>1. <<k, id>> \in lookups /\ <<k, id>>[1] = k /\ <<k, id>>[2] = id
      BY <1>2
    <3> QED
      BY <3>1
  <2>2. ASSUME NEW id \in DOMAIN rows, NEW k \in listed(id) PROVE k \in keys(id)
    BY <1>3
  <2> QED
    BY <1>3, <2>1, <2>2
<1>5. [id \in ids |-> listed(id)] = [id \in DOMAIN rows |-> keys(id)]
  BY <1>4
<1> HIDE DEF ids, listed
<1> QED
  BY <1>1, <1>5 DEF rows, keys, lookups

-----------------------------------------------------------------------------
(* Appending.                                                              *)

(* The lines of new are those of old and, behind them, those of a batch. *)
Appended(old, new, b, tx, ptr) ==
  /\ Positions(new) = Positions(old) \cup {ptr[j] : j \in DOMAIN b}
  /\ \A p \in Positions(old) : At(new, p) = At(old, p)
  /\ \A j \in DOMAIN b : At(new, ptr[j]) = EncodeLine(b[j], tx + (j - 1))
  /\ \A p \in Positions(old), j \in DOMAIN b : Before(p, ptr[j])
  /\ \A i, j \in DOMAIN b : i < j => Before(ptr[i], ptr[j])

(* Of each row the batch names, its operation counts; of the others, what   *)
(* counted before.                                                         *)
LEMMA AppendedLive ==
  ASSUME NEW old, IsFiles(old), Whole(old), NEW new, IsFiles(new), Whole(new),
         NEW b \in Seq(Operation), DistinctIds(b), NEW tx, NEW ptr,
         Appended(old, new, b, tx, ptr)
  PROVE  LivePositions(new) =
           {p \in LivePositions(old) : At(old, p).id \notin Touched(b)}
             \cup {ptr[j] : j \in {i \in DOMAIN b : b[i].op = "put"}}
<1> DEFINE kept == {p \in LivePositions(old) : At(old, p).id \notin Touched(b)}
           puts == {ptr[j] : j \in {i \in DOMAIN b : b[i].op = "put"}}
<1>1. \A p \in Positions(new) : p \in Pointer
  BY PositionType DEF IsFiles
<1>2. \A j \in DOMAIN b : At(new, ptr[j]).op = b[j].op /\ At(new, ptr[j]).id = b[j].id
  <2> SUFFICES ASSUME NEW j \in DOMAIN b
               PROVE  At(new, ptr[j]).op = b[j].op /\ At(new, ptr[j]).id = b[j].id
    OBVIOUS
  <2>1. At(new, ptr[j]) = EncodeLine(b[j], tx + (j - 1))
    BY DEF Appended
  <2> QED
    BY <2>1 DEF EncodeLine
<1>3. ASSUME NEW p \in LivePositions(new) PROVE p \in kept \cup puts
  <2>1. CASE p \in Positions(old)
    <3>1. At(old, p) = At(new, p) /\ \A q \in Positions(old) : At(old, q) = At(new, q)
      BY <2>1 DEF Appended
    <3>2. p \in LivePositions(old)
      BY <2>1, <3>1, LiveIs DEF Appended
    <3>3. \A j \in DOMAIN b : At(new, p).id # b[j].id
      BY <1>2, <2>1, LiveIs DEF Appended
    <3> QED
      BY <3>1, <3>2, <3>3 DEF Touched
  <2>2. ASSUME NEW j \in DOMAIN b, p = ptr[j] PROVE p \in puts
    BY <1>2, <2>2, LiveIs
  <2> QED
    BY <2>1, <2>2, LiveIs DEF Appended
<1>4. ASSUME NEW p \in kept PROVE p \in LivePositions(new)
  <2>1. p \in Positions(old) /\ At(new, p) = At(old, p) /\ At(old, p).op = "put"
    BY LiveIs DEF Appended
  <2>2. \A q \in Positions(old) : Before(p, q) => At(new, q).id # At(new, p).id
    BY <2>1, LiveIs DEF Appended
  <2>3. \A j \in DOMAIN b : At(new, ptr[j]).id # At(new, p).id
    BY <1>2, <2>1 DEF Touched
  <2> QED
    BY <2>1, <2>2, <2>3, LiveIs DEF Appended
<1>5. ASSUME NEW j \in DOMAIN b, b[j].op = "put" PROVE ptr[j] \in LivePositions(new)
  <2>1. \A q \in Positions(old) : ~Before(ptr[j], q)
    BY <1>1, BeforeOrder DEF Appended
  <2>2. \A i \in DOMAIN b : Before(ptr[j], ptr[i]) => At(new, ptr[i]).id # b[j].id
    <3>1. ASSUME NEW i \in DOMAIN b, Before(ptr[j], ptr[i]) PROVE i # j
      BY <1>1, <3>1, BeforeOrder DEF Appended
    <3> QED
      BY <1>2, <3>1 DEF DistinctIds
  <2> QED
    BY <1>2, <1>5, <2>1, <2>2, LiveIs DEF Appended
<1> QED
  BY <1>3, <1>4, <1>5

(* Cached records are those of the live lines of their rows. *)
RecordsExact(cached, files) ==
  \A id \in DOMAIN cached :
    id \in DOMAIN ScanRows(files) /\ cached[id] = At(files, ScanRows(files)[id]).rec

PutIds(b) == {b[j].id : j \in {i \in DOMAIN b : b[i].op = "put"}}

(* The rows a scan finds in new: those it finds in old, but for the batch. *)
RowsAppended(old, new, b, ptr) ==
  LET before == ScanRows(old)
      after  == ScanRows(new)
  IN  /\ DOMAIN after = (DOMAIN before \ Touched(b)) \cup PutIds(b)
      /\ \A id \in DOMAIN before \ Touched(b) :
           after[id] = before[id] /\ At(new, after[id]).rec = At(old, before[id]).rec
      /\ \A j \in DOMAIN b : b[j].op = "put" =>
           after[b[j].id] = ptr[j] /\ At(new, ptr[j]).rec = b[j].rec

(* The rows a scan finds after a batch. *)
LEMMA AppendedRows ==
  ASSUME NEW old, IsFiles(old), Whole(old), NEW new, IsFiles(new), Whole(new),
         NEW b \in Seq(Operation), DistinctIds(b), NEW tx, NEW ptr,
         Appended(old, new, b, tx, ptr)
  PROVE  RowsAppended(old, new, b, ptr)
<1> DEFINE before == ScanRows(old)
           after  == ScanRows(new)
<1>1. LivePositions(new) = {p \in LivePositions(old) : At(old, p).id \notin Touched(b)}
                             \cup {ptr[j] : j \in {i \in DOMAIN b : b[i].op = "put"}}
  BY AppendedLive
<1>2. /\ \A p \in LivePositions(old) : At(old, p).id \in DOMAIN before /\ before[At(old, p).id] = p
      /\ \A id \in DOMAIN before :
           before[id] \in LivePositions(old) /\ At(old, before[id]).id = id
  BY ScanRowsIs
<1>3. /\ \A p \in LivePositions(new) : At(new, p).id \in DOMAIN after /\ after[At(new, p).id] = p
      /\ \A id \in DOMAIN after :
           after[id] \in LivePositions(new) /\ At(new, after[id]).id = id
  BY ScanRowsIs
<1>4. \A p \in LivePositions(old) : At(new, p) = At(old, p)
  BY DEF LivePositions, Appended
<1>5. ASSUME NEW j \in DOMAIN b
      PROVE  At(new, ptr[j]).id = b[j].id /\ At(new, ptr[j]).rec = b[j].rec
  <2>1. At(new, ptr[j]) = EncodeLine(b[j], tx + (j - 1))
    BY DEF Appended
  <2> QED
    BY <2>1 DEF EncodeLine
<1> HIDE DEF before, after
<1>6. \A id \in DOMAIN before \ Touched(b) : id \in DOMAIN after /\ after[id] = before[id]
  <2> SUFFICES ASSUME NEW id \in DOMAIN before \ Touched(b)
               PROVE  id \in DOMAIN after /\ after[id] = before[id]
    OBVIOUS
  <2>1. before[id] \in LivePositions(new) /\ At(new, before[id]).id = id
    BY <1>1, <1>2, <1>4
  <2> QED
    BY <1>3, <2>1
<1>7. \A j \in DOMAIN b : b[j].op = "put" => b[j].id \in DOMAIN after /\ after[b[j].id] = ptr[j]
  BY <1>1, <1>3, <1>5
<1>8. ASSUME NEW id \in DOMAIN after
      PROVE  id \in (DOMAIN before \ Touched(b)) \cup PutIds(b)
  <2>1. after[id] \in LivePositions(new) /\ At(new, after[id]).id = id
    BY <1>3
  <2>2. CASE after[id] \in LivePositions(old) /\ At(old, after[id]).id \notin Touched(b)
    BY <1>2, <1>4, <2>1, <2>2
  <2>3. ASSUME NEW j \in DOMAIN b, b[j].op = "put", after[id] = ptr[j]
        PROVE  id \in PutIds(b)
    BY <1>5, <2>1, <2>3 DEF PutIds
  <2> QED
    BY <1>1, <2>1, <2>2, <2>3
<1>9. DOMAIN after = (DOMAIN before \ Touched(b)) \cup PutIds(b)
  BY <1>6, <1>7, <1>8 DEF PutIds
<1>10. \A id \in DOMAIN before \ Touched(b) : At(new, after[id]).rec = At(old, before[id]).rec
  BY <1>2, <1>4, <1>6
<1> QED
  BY <1>5, <1>6, <1>7, <1>9, <1>10 DEF before, after, RowsAppended

-----------------------------------------------------------------------------
(* What is kept in memory of an appended batch.                            *)

(* The entries of a cache, one by one. *)
LEMMA LookupsAre ==
  ASSUME NEW files, IsFiles(files), Whole(files)
  PROVE  LET rows == ScanRows(files)
             lookups == CacheOf(files).lookups
         IN  /\ \A e \in lookups : e = <<e[1], e[2]>>
             /\ \A k, id : <<k, id>> \in lookups
                             <=> id \in DOMAIN rows /\ k \in LookupKeys(At(files, rows[id]).rec)
<1> DEFINE rows == ScanRows(files)
           keys(id) == LookupKeys(At(files, rows[id]).rec)
           lookups == CacheOf(files).lookups
<1>1. lookups = UNION {{<<k, id>> : k \in keys(id)} : id \in DOMAIN rows}
  BY CacheIs
<1> HIDE DEF rows, keys, lookups
<1>2. \A e : e \in lookups <=> \E id \in DOMAIN rows : \E k \in keys(id) : e = <<k, id>>
  BY <1>1
<1>3. \A e \in lookups : e = <<e[1], e[2]>>
  BY <1>2
<1>4. \A k, id : <<k, id>> \in lookups <=> id \in DOMAIN rows /\ k \in keys(id)
  BY <1>2
<1> QED
  BY <1>3, <1>4 DEF rows, keys, lookups

(* The operation of an id that a batch puts. *)
LEMMA PutIndex ==
  ASSUME NEW b, NEW id \in PutIds(b)
  PROVE  LET j == CHOOSE i \in {i \in DOMAIN b : b[i].op = "put"} : b[i].id = id
         IN  j \in DOMAIN b /\ b[j].op = "put" /\ b[j].id = id
BY DEF PutIds

(* A put row is a row the batch names. *)
LEMMA PutsAreTouched ==
  ASSUME NEW b
  PROVE  PutIds(b) \subseteq Touched(b)
BY DEF PutIds, Touched

(* Taking a row off the keys to remove takes it off all its keys, and only  *)
(* rows the batch names are taken off theirs.                              *)
LEMMA RemovedKeys ==
  ASSUME NEW old, IsFiles(old), Whole(old), NEW cached, RecordsExact(cached, old),
         NEW b, NEW k, NEW id, <<k, id>> \in CacheOf(old).lookups
  PROVE  /\ id \in DOMAIN ScanRows(old)
         /\ k \in KeysToRemove(FromCache(CacheOf(old)), cached, id)
<1> DEFINE rows == ScanRows(old)
           proj == FromCache(CacheOf(old))
<1>1. id \in DOMAIN rows /\ k \in LookupKeys(At(old, rows[id]).rec)
  BY LookupsAre
<1>2. proj.rows = rows /\ proj.rowKeys = [i \in DOMAIN rows |-> LookupKeys(At(old, rows[i]).rec)]
  BY RowKeysAre
<1>3. id \in DOMAIN cached => cached[id] = At(old, rows[id]).rec
  BY DEF RecordsExact
<1> HIDE DEF rows, proj
<1>4. k \in KeysToRemove(proj, cached, id)
  BY <1>1, <1>2, <1>3 DEF KeysToRemove
<1> QED
  BY <1>1, <1>4 DEF rows, proj

(* The projection a write updates is the one a rebuild finds in the new     *)
(* files: apply_operation against rebuild_sixb.                            *)
LEMMA ApplyBatchExact ==
  ASSUME NEW old, IsFiles(old), Whole(old), NEW new, IsFiles(new), Whole(new),
         NEW b \in Seq(Operation), DistinctIds(b), NEW tx, NEW ptr,
         Appended(old, new, b, tx, ptr),
         NEW cached, RecordsExact(cached, old)
  PROVE  ApplyBatch(FromCache(CacheOf(old)), b, ptr, cached) = FromCache(CacheOf(new))
<1> DEFINE before    == ScanRows(old)
           after     == ScanRows(new)
           proj      == FromCache(CacheOf(old))
           puts      == {j \in DOMAIN b : b[j].op = "put"}
           index(id) == CHOOSE j \in puts : b[j].id = id
           relisted  == {id \in Touched(b) : id \notin PutIds(b) \/ id \in DOMAIN proj.rows}
           removed   == UNION {{<<k, id>> : k \in KeysToRemove(proj, cached, id)} :
                                 id \in relisted}
           added     == UNION {{<<k, b[j].id>> : k \in LookupKeys(b[j].rec)} : j \in puts}
           kept(S)   == (S \ Touched(b)) \cup PutIds(b)
           rows      == [id \in kept(DOMAIN proj.rows) |->
                           IF id \in PutIds(b) THEN ptr[index(id)] ELSE proj.rows[id]]
           rowKeys   == [id \in kept(DOMAIN proj.rowKeys) |->
                           IF id \in PutIds(b) THEN LookupKeys(b[index(id)].rec)
                                               ELSE proj.rowKeys[id]]
           lookups   == (proj.lookups \ removed) \cup added
<1>1. ApplyBatch(proj, b, ptr, cached) = [rows |-> rows, lookups |-> lookups, rowKeys |-> rowKeys]
  BY DEF ApplyBatch, PutIds
<1>2. /\ proj.rows = before /\ proj.lookups = CacheOf(old).lookups
      /\ proj.rowKeys = [id \in DOMAIN before |-> LookupKeys(At(old, before[id]).rec)]
  BY RowKeysAre
<1>3. FromCache(CacheOf(new)) =
        [rows |-> after, lookups |-> CacheOf(new).lookups,
         rowKeys |-> [id \in DOMAIN after |-> LookupKeys(At(new, after[id]).rec)]]
  <2> DEFINE f == FromCache(CacheOf(new))
  <2>1. f = [rows |-> f.rows, lookups |-> f.lookups, rowKeys |-> f.rowKeys]
    BY DEF FromCache
  <2>2. /\ f.rows = after /\ f.lookups = CacheOf(new).lookups
        /\ f.rowKeys = [id \in DOMAIN after |-> LookupKeys(At(new, after[id]).rec)]
    BY RowKeysAre
  <2> HIDE DEF f
  <2>3. f = [rows |-> after, lookups |-> CacheOf(new).lookups,
             rowKeys |-> [id \in DOMAIN after |-> LookupKeys(At(new, after[id]).rec)]]
    BY <2>1, <2>2
  <2> QED
    BY <2>3 DEF f
<1>4. /\ DOMAIN after = (DOMAIN before \ Touched(b)) \cup PutIds(b)
      /\ \A id \in DOMAIN before \ Touched(b) :
           after[id] = before[id] /\ At(new, after[id]).rec = At(old, before[id]).rec
      /\ \A j \in DOMAIN b : b[j].op = "put" =>
           after[b[j].id] = ptr[j] /\ At(new, ptr[j]).rec = b[j].rec
  <2>1. RowsAppended(old, new, b, ptr)
    BY AppendedRows
  <2> QED
    BY <2>1 DEF RowsAppended
<1>5. \A id \in PutIds(b) :
        /\ index(id) \in puts /\ b[index(id)].id = id
        /\ after[id] = ptr[index(id)] /\ At(new, after[id]).rec = b[index(id)].rec
  BY <1>4, PutIndex
<1>6. PutIds(b) \subseteq Touched(b)
  BY PutsAreTouched
<1>7. rows = after
  <2> HIDE DEF before, after, proj, index, puts
  <2>1. DOMAIN rows = DOMAIN after
    BY <1>2, <1>4
  <2>2. \A id \in DOMAIN after : rows[id] = after[id]
    BY <1>2, <1>4, <1>5
  <2>3. after = [id \in DOMAIN after |-> after[id]]
    BY DEF after, ScanRows
  <2> QED
    BY <2>1, <2>2, <2>3
<1>8. rowKeys = [id \in DOMAIN after |-> LookupKeys(At(new, after[id]).rec)]
  <2> HIDE DEF before, after, proj, index, puts
  <2>1. DOMAIN rowKeys = DOMAIN after
    BY <1>2, <1>4
  <2>2. \A id \in DOMAIN after : rowKeys[id] = LookupKeys(At(new, after[id]).rec)
    BY <1>2, <1>4, <1>5
  <2> QED
    BY <2>1, <2>2
<1>9. lookups = CacheOf(new).lookups
  <2> DEFINE L == CacheOf(old).lookups
             N == CacheOf(new).lookups
  <2>1. /\ \A e \in L : e = <<e[1], e[2]>>
        /\ \A k, id : <<k, id>> \in L
                        <=> id \in DOMAIN before /\ k \in LookupKeys(At(old, before[id]).rec)
    BY LookupsAre
  <2>2. /\ \A e \in N : e = <<e[1], e[2]>>
        /\ \A k, id : <<k, id>> \in N
                        <=> id \in DOMAIN after /\ k \in LookupKeys(At(new, after[id]).rec)
    BY LookupsAre
  <2>3. \A k, id : <<k, id>> \in L =>
          id \in DOMAIN before /\ k \in KeysToRemove(proj, cached, id)
    BY RemovedKeys
  <2> HIDE DEF L, N, before, after, proj, index
  <2>4. \A e : e \in removed <=> \E id \in relisted : \E k \in KeysToRemove(proj, cached, id) :
                                   e = <<k, id>>
    OBVIOUS
  <2>5. \A e : e \in added <=> \E j \in puts : \E k \in LookupKeys(b[j].rec) : e = <<k, b[j].id>>
    OBVIOUS
  <2> HIDE DEF removed, added
  <2>6. ASSUME NEW e \in lookups PROVE e \in N
    <3>1. CASE e \in added
      <4>1. PICK j \in puts : \E k \in LookupKeys(b[j].rec) : e = <<k, b[j].id>>
        BY <3>1, <2>5
      <4>2. b[j].id \in DOMAIN after /\ LookupKeys(At(new, after[b[j].id]).rec) = LookupKeys(b[j].rec)
        BY <1>4 DEF PutIds
      <4> QED
        BY <4>1, <4>2, <2>2
    <3>2. CASE e \in L /\ e \notin removed
      <4> DEFINE k == e[1]
                 id == e[2]
      <4>1. e = <<k, id>> /\ id \in DOMAIN before /\ k \in LookupKeys(At(old, before[id]).rec)
            /\ k \in KeysToRemove(proj, cached, id)
        BY <3>2, <2>1, <2>3
      <4> HIDE DEF k, id
      <4>2. id \notin relisted
        BY <3>2, <4>1, <2>4
      <4>3. id \notin Touched(b)
        BY <4>1, <4>2, <1>2
      <4>4. id \in DOMAIN after /\ At(new, after[id]).rec = At(old, before[id]).rec
        BY <4>1, <4>3, <1>4
      <4> QED
        BY <4>1, <4>4, <2>2
    <3> QED
      BY <2>6, <3>1, <3>2, <1>2 DEF L
  <2>7. ASSUME NEW e \in N PROVE e \in lookups
    <3> DEFINE k == e[1]
               id == e[2]
    <3>1. e = <<k, id>> /\ id \in DOMAIN after /\ k \in LookupKeys(At(new, after[id]).rec)
      BY <2>2
    <3> HIDE DEF k, id
    <3>2. CASE id \in PutIds(b)
      <4>1. index(id) \in puts /\ b[index(id)].id = id /\ k \in LookupKeys(b[index(id)].rec)
        BY <3>1, <3>2, <1>5
      <4>2. e \in added
        BY <3>1, <4>1, <2>5
      <4> QED
        BY <4>2
    <3>3. CASE id \notin PutIds(b)
      <4>1. id \in DOMAIN before /\ id \notin Touched(b)
        BY <3>1, <3>3, <1>4
      <4>2. e \in L
        BY <3>1, <4>1, <1>4, <2>1
      <4>3. e \notin removed
        <5> SUFFICES ASSUME e \in removed PROVE FALSE
          OBVIOUS
        <5>1. PICK i \in relisted : \E m \in KeysToRemove(proj, cached, i) : e = <<m, i>>
          BY <2>4
        <5> QED
          BY <3>1, <4>1, <5>1
      <4> QED
        BY <4>2, <4>3, <1>2 DEF L
    <3> QED
      BY <3>2, <3>3
  <2> HIDE DEF lookups
  <2>8. lookups = N
    BY <2>6, <2>7
  <2> QED
    BY <2>8 DEF N
<1> HIDE DEF rows, rowKeys, lookups, after, proj
<1>10. ApplyBatch(proj, b, ptr, cached) = FromCache(CacheOf(new))
  BY <1>1, <1>3, <1>7, <1>8, <1>9
<1> QED
  BY <1>10 DEF proj

(* Cached records are those of the new files: remember_record, forget_record. *)
LEMMA RecordsAfterExact ==
  ASSUME NEW old, IsFiles(old), Whole(old), NEW new, IsFiles(new), Whole(new),
         NEW b \in Seq(Operation), DistinctIds(b), NEW tx, NEW ptr,
         Appended(old, new, b, tx, ptr),
         NEW cached, RecordsExact(cached, old)
  PROVE  RecordsExact(RecordsAfter(cached, b), new)
<1> DEFINE before    == ScanRows(old)
           after     == ScanRows(new)
           index(id) == CHOOSE j \in {i \in DOMAIN b : b[i].op = "put"} : b[j].id = id
           records   == RecordsAfter(cached, b)
<1>1. RowsAppended(old, new, b, ptr)
  BY AppendedRows
<1>2. records = [id \in (DOMAIN cached \ Touched(b)) \cup PutIds(b) |->
                   IF id \in PutIds(b) THEN b[index(id)].rec ELSE cached[id]]
  BY DEF RecordsAfter, PutIds
<1>3. \A id \in PutIds(b) :
        index(id) \in DOMAIN b /\ b[index(id)].op = "put" /\ b[index(id)].id = id
  BY PutIndex
<1>4. \A id \in DOMAIN cached : id \in DOMAIN before /\ cached[id] = At(old, before[id]).rec
  BY DEF RecordsExact
<1>5. /\ DOMAIN after = (DOMAIN before \ Touched(b)) \cup PutIds(b)
      /\ \A id \in DOMAIN before \ Touched(b) : At(new, after[id]).rec = At(old, before[id]).rec
      /\ \A j \in DOMAIN b : b[j].op = "put" => At(new, after[b[j].id]).rec = b[j].rec
  BY <1>1 DEF RowsAppended
<1> HIDE DEF index, before, after, records
<1>6. ASSUME NEW id \in DOMAIN records
      PROVE  id \in DOMAIN after /\ records[id] = At(new, after[id]).rec
  <2>1. CASE id \in PutIds(b)
    BY <1>2, <1>3, <1>5, <2>1
  <2>2. CASE id \notin PutIds(b)
    BY <1>2, <1>4, <1>5, <2>2
  <2> QED
    BY <2>1, <2>2
<1> QED
  BY <1>6 DEF RecordsExact, records, after

(* Two live rows never share the key of a unique lookup. *)
UniqueRows(files) ==
  LET rows == ScanRows(files)
  IN  \A i, j \in DOMAIN rows, f \in UniqueFields :
        At(files, rows[i]).rec[f] = At(files, rows[j]).rec[f] => i = j

(* validate_unique_lookups, told of the rows. *)
LEMMA UniqueIs ==
  ASSUME NEW files, IsFiles(files), Whole(files)
  PROVE  UniqueLookups(CacheOf(files).lookups) <=> UniqueRows(files)
<1> DEFINE rows == ScanRows(files)
           rec(id) == At(files, rows[id]).rec
           lookups == CacheOf(files).lookups
<1>1. /\ \A e \in lookups : e = <<e[1], e[2]>>
      /\ \A k, id : <<k, id>> \in lookups <=> id \in DOMAIN rows /\ k \in LookupKeys(rec(id))
  BY LookupsAre
<1> HIDE DEF rows, rec, lookups
<1>2. ASSUME UniqueLookups(lookups),
             NEW i \in DOMAIN rows, NEW j \in DOMAIN rows, NEW f \in UniqueFields,
             rec(i)[f] = rec(j)[f]
      PROVE  i = j
  <2> DEFINE k == <<f, rec(i)[f]>>
             e == <<k, i>>
             d == <<k, j>>
  <2>1. k \in LookupKeys(rec(i)) /\ k \in LookupKeys(rec(j))
    BY <1>2, LogAssumption DEF LookupKeys
  <2>2. e[1] = k /\ d[1] = k /\ k[1] = f /\ e[2] = i /\ d[2] = j
    OBVIOUS
  <2> HIDE DEF k
  <2>3. e \in lookups /\ d \in lookups
    BY <1>1, <2>1
  <2> HIDE DEF e, d
  <2> QED
    BY <1>2, <2>2, <2>3 DEF UniqueLookups
<1>3. ASSUME \A i, j \in DOMAIN rows, f \in UniqueFields : rec(i)[f] = rec(j)[f] => i = j,
             NEW e \in lookups, NEW d \in lookups, e[1] = d[1], e[1][1] \in UniqueFields
      PROVE  e[2] = d[2]
  <2>1. /\ e[2] \in DOMAIN rows /\ e[1] \in LookupKeys(rec(e[2]))
        /\ d[2] \in DOMAIN rows /\ d[1] \in LookupKeys(rec(d[2]))
    BY <1>1
  <2>2. PICK f \in Fields : e[1] = <<f, rec(e[2])[f]>>
    BY <2>1 DEF LookupKeys
  <2>3. PICK g \in Fields : d[1] = <<g, rec(d[2])[g]>>
    BY <2>1 DEF LookupKeys
  <2> DEFINE x == rec(e[2])[f]
             y == rec(d[2])[g]
  <2>4. f = g /\ f \in UniqueFields /\ x = y
    <3>1. e[1] = <<f, x>> /\ d[1] = <<g, y>> /\ e[1] = d[1] /\ e[1][1] \in UniqueFields
      BY <1>3, <2>2, <2>3
    <3> HIDE DEF x, y
    <3> QED
      BY <3>1
  <2> QED
    BY <1>3, <2>1, <2>4
<1>4. UniqueLookups(lookups) => UniqueRows(files)
  BY <1>2 DEF UniqueRows, rows, rec
<1>5. UniqueRows(files) => UniqueLookups(lookups)
  BY <1>3 DEF UniqueRows, UniqueLookups, rows, rec
<1> QED
  BY <1>4, <1>5 DEF lookups

(* An accepted batch keeps unique keys unique:                              *)
(* validate_put_unique_lookup_conflicts is enough.                         *)
LEMMA UniqueAppended ==
  ASSUME NEW old, IsFiles(old), Whole(old), NEW new, IsFiles(new), Whole(new),
         NEW b \in Seq(Operation), DistinctIds(b), NEW tx, NEW ptr,
         Appended(old, new, b, tx, ptr),
         UniqueRows(old), NoUniqueConflict(FromCache(CacheOf(old)), b)
  PROVE  UniqueRows(new)
<1> DEFINE before  == ScanRows(old)
           after   == ScanRows(new)
           was(id) == At(old, before[id]).rec
           is(id)  == At(new, after[id]).rec
           proj    == FromCache(CacheOf(old))
<1>1. RowsAppended(old, new, b, ptr)
  BY AppendedRows
<1>2. /\ DOMAIN after = (DOMAIN before \ Touched(b)) \cup PutIds(b)
      /\ \A id \in DOMAIN before \ Touched(b) : is(id) = was(id)
      /\ \A j \in DOMAIN b : b[j].op = "put" => is(b[j].id) = b[j].rec
  BY <1>1 DEF RowsAppended
<1>3. \A i, j \in DOMAIN before, f \in UniqueFields : was(i)[f] = was(j)[f] => i = j
  BY DEF UniqueRows
<1>4. proj.lookups = CacheOf(old).lookups
  BY RowKeysAre
<1>5. \A k, id : id \in DOMAIN before /\ k \in LookupKeys(was(id)) => <<k, id>> \in proj.lookups
  BY <1>4, LookupsAre
<1>6. /\ \A j \in DOMAIN b, f \in UniqueFields, e \in proj.lookups :
           b[j].op = "put" /\ e[1] = <<f, b[j].rec[f]>> => e[2] = b[j].id
      /\ \A i, j \in DOMAIN b, f \in UniqueFields :
           b[i].op = "put" /\ b[j].op = "put" /\ b[i].rec[f] = b[j].rec[f] => i = j
  BY DEF NoUniqueConflict
<1> HIDE DEF before, after, was, is, proj
<1>7. \A id \in PutIds(b) : \E j \in DOMAIN b : b[j].op = "put" /\ b[j].id = id /\ is(id) = b[j].rec
  BY <1>2 DEF PutIds
<1>8. ASSUME NEW i \in DOMAIN after, NEW j \in DOMAIN before \ Touched(b),
             NEW f \in UniqueFields, is(i)[f] = is(j)[f]
      PROVE  i = j
  <2>1. CASE i \in DOMAIN before \ Touched(b)
    BY <1>2, <1>3, <1>8, <2>1
  <2>2. CASE i \in PutIds(b)
    <3>1. PICK n \in DOMAIN b : b[n].op = "put" /\ b[n].id = i /\ is(i) = b[n].rec
      BY <2>2, <1>7
    <3> DEFINE k == <<f, was(j)[f]>>
               e == <<k, j>>
    <3>2. k \in LookupKeys(was(j)) /\ k = <<f, b[n].rec[f]>>
      BY <3>1, <1>2, <1>8, LogAssumption DEF LookupKeys
    <3> HIDE DEF k
    <3>3. e \in proj.lookups /\ e[1] = k /\ e[2] = j
      BY <3>2, <1>5
    <3> HIDE DEF e
    <3> QED
      BY <3>1, <3>2, <3>3, <1>6
  <2> QED
    BY <1>2, <1>8, <2>1, <2>2
<1>9. ASSUME NEW i \in PutIds(b), NEW j \in PutIds(b), NEW f \in UniqueFields, is(i)[f] = is(j)[f]
      PROVE  i = j
  <2>1. PICK n \in DOMAIN b : b[n].op = "put" /\ b[n].id = i /\ is(i) = b[n].rec
    BY <1>7
  <2>2. PICK m \in DOMAIN b : b[m].op = "put" /\ b[m].id = j /\ is(j) = b[m].rec
    BY <1>7
  <2> QED
    BY <1>6, <1>9, <2>1, <2>2
<1>10. \A i, j \in DOMAIN after, f \in UniqueFields : is(i)[f] = is(j)[f] => i = j
  <2> SUFFICES ASSUME NEW i \in DOMAIN after, NEW j \in DOMAIN after, NEW f \in UniqueFields,
                      is(i)[f] = is(j)[f]
               PROVE  i = j
    OBVIOUS
  <2>1. CASE j \in DOMAIN before \ Touched(b)
    BY <1>8, <2>1
  <2>2. CASE i \in DOMAIN before \ Touched(b)
    BY <1>8, <2>2
  <2>3. CASE i \in PutIds(b) /\ j \in PutIds(b)
    BY <1>9, <2>3
  <2> QED
    BY <1>2, <2>1, <2>2, <2>3
<1> QED
  BY <1>10 DEF UniqueRows, after, is

(* Lines in read order carry growing tx ids; those of `files` are below n. *)
TxOrdered(files) ==
  \A p, q \in Positions(files) : Before(p, q) => At(files, p).tx < At(files, q).tx

TxBelow(files, n) == \A p \in Positions(files) : At(files, p).tx < n

LEMMA TxAppended ==
  ASSUME NEW old, IsFiles(old), NEW new, IsFiles(new),
         NEW b \in Seq(Operation), NEW tx \in Nat, NEW ptr,
         Appended(old, new, b, tx, ptr),
         TxOrdered(old), TxBelow(old, tx)
  PROVE  TxOrdered(new) /\ TxBelow(new, tx + Len(b))
<1>1. DOMAIN b = 1..Len(b) /\ Len(b) \in Nat
  BY LenProperties
<1>2. \A p \in Positions(new) : p \in Pointer /\ At(new, p).tx \in Nat
  BY PositionType DEF IsFiles, Line, Tx
<1>3. \A p \in Positions(old) : p \in Positions(new) /\ At(new, p) = At(old, p) /\ At(old, p).tx < tx
  BY DEF Appended, TxBelow
<1>4. ASSUME NEW j \in DOMAIN b
      PROVE  ptr[j] \in Positions(new) /\ At(new, ptr[j]).tx = tx + (j - 1)
  <2>1. At(new, ptr[j]) = EncodeLine(b[j], tx + (j - 1)) /\ ptr[j] \in Positions(new)
    BY DEF Appended
  <2> QED
    BY <2>1 DEF EncodeLine
<1>5. ASSUME NEW i \in DOMAIN b, NEW j \in DOMAIN b, Before(ptr[i], ptr[j])
      PROVE  i < j
  <2>1. ptr[i] \in Pointer /\ ptr[j] \in Pointer
    BY <1>2, <1>4
  <2>2. i # j
    BY <1>5, <2>1, BeforeOrder
  <2>3. ~(j < i)
    <3>1. j < i => Before(ptr[j], ptr[i])
      BY DEF Appended
    <3> QED
      BY <1>5, <2>1, <3>1, BeforeOrder
  <2> QED
    BY <1>1, <2>2, <2>3
<1>6. ASSUME NEW p \in Positions(old), NEW j \in DOMAIN b
      PROVE  ~Before(ptr[j], p)
  <2>1. ptr[j] \in Pointer /\ p \in Pointer /\ Before(p, ptr[j])
    BY <1>2, <1>3, <1>4 DEF Appended
  <2> QED
    BY <2>1, BeforeOrder
<1>7. \A p \in Positions(new) : p \in Positions(old) \/ \E j \in DOMAIN b : p = ptr[j]
  BY DEF Appended
<1>8. TxBelow(new, tx + Len(b))
  <2> SUFFICES ASSUME NEW p \in Positions(new) PROVE At(new, p).tx < tx + Len(b)
    BY DEF TxBelow
  <2>1. CASE p \in Positions(old)
    BY <1>1, <1>2, <1>3, <2>1
  <2>2. ASSUME NEW j \in DOMAIN b, p = ptr[j] PROVE At(new, p).tx < tx + Len(b)
    BY <1>1, <1>4, <2>2
  <2> QED
    BY <1>7, <2>1, <2>2
<1>9. TxOrdered(new)
  <2> SUFFICES ASSUME NEW p \in Positions(new), NEW q \in Positions(new), Before(p, q)
               PROVE  At(new, p).tx < At(new, q).tx
    BY DEF TxOrdered
  <2>1. CASE p \in Positions(old) /\ q \in Positions(old)
    BY <1>3, <2>1 DEF TxOrdered
  <2>2. ASSUME NEW j \in DOMAIN b, q = ptr[j], p \in Positions(old)
        PROVE  At(new, p).tx < At(new, q).tx
    <3>1. At(new, p).tx < tx /\ At(new, q).tx = tx + (j - 1) /\ At(new, p).tx \in Nat
      BY <1>2, <1>3, <1>4, <2>2
    <3> QED
      BY <1>1, <3>1
  <2>3. ASSUME NEW i \in DOMAIN b, p = ptr[i] PROVE At(new, p).tx < At(new, q).tx
    <3>1. PICK j \in DOMAIN b : q = ptr[j]
      BY <1>6, <1>7, <2>3
    <3>2. i < j
      BY <1>5, <2>3, <3>1
    <3>3. At(new, p).tx = tx + (i - 1) /\ At(new, q).tx = tx + (j - 1)
      BY <1>4, <2>3, <3>1
    <3> QED
      BY <1>1, <3>2, <3>3
  <2> QED
    BY <1>7, <2>1, <2>2, <2>3
<1> QED
  BY <1>8, <1>9

-----------------------------------------------------------------------------
(* Other files that hold the same, or a given, log.                        *)

LEMMA PositionsAre ==
  ASSUME NEW files, IsFiles(files)
  PROVE  \A p : p \in Positions(files)
                  <=> \E c \in DOMAIN files : \E i \in DOMAIN files[c].lines : p = <<c, i>>
<1>1. \A c \in DOMAIN files : DOMAIN files[c].lines = 1..Len(files[c].lines)
  BY LenProperties DEF IsFiles, PartialOn, File
<1>2. ASSUME NEW p \in Positions(files)
      PROVE  \E c \in DOMAIN files : \E i \in DOMAIN files[c].lines : p = <<c, i>>
  <2>1. PICK c \in DOMAIN files : p \in {<<c, i>> : i \in 1..Len(files[c].lines)}
    BY DEF Positions
  <2> QED
    BY <1>1, <2>1
<1> QED
  BY <1>2, PositionIs

(* discovered_next_tx_id is above every tx id of whole files. *)
LEMMA DiscoveredAbove ==
  ASSUME NEW files, IsFiles(files), Whole(files)
  PROVE  TxBelow(files, DiscoveredTx(files))
<1> DEFINE txs == {0} \cup {At(files, p).tx : p \in {q \in Positions(files) : ~Swallowed(files, q)}}
           top == CHOOSE m \in txs : \A t \in txs : t <= m
<1>1. \A p \in Positions(files) : At(files, p).tx \in Tx /\ ~Swallowed(files, p)
  BY PositionType, WholeLines DEF Line, IsFiles
<1>2. txs \in SUBSET Nat /\ txs # {} /\ \A t \in txs : t <= MaxTx
  BY <1>1, StoreAssumption DEF Tx
<1>3. \A p \in Positions(files) : At(files, p).tx \in txs
  BY <1>1
<1>4. DiscoveredTx(files) = top + 1
  BY DEF DiscoveredTx
<1> HIDE DEF txs
<1>5. \E m \in txs : \A t \in txs : t <= m
  BY <1>2, StoreAssumption, MaximumExists
<1>6. top \in txs /\ \A t \in txs : t <= top
  BY <1>5
<1> HIDE DEF top
<1>7. ASSUME NEW p \in Positions(files) PROVE At(files, p).tx < DiscoveredTx(files)
  <2> DEFINE t == At(files, p).tx
  <2>1. t \in Nat /\ top \in Nat /\ t <= top
    BY <1>2, <1>3, <1>6
  <2> HIDE DEF t
  <2>2. t < DiscoveredTx(files)
    BY <1>4, <2>1
  <2> QED
    BY <2>2 DEF t
<1> QED
  BY <1>7 DEF TxBelow

(* A scan sees the lines and their places, nothing else. *)
LEMMA SameLinesSameCache ==
  ASSUME NEW files, IsFiles(files), Whole(files), NEW other, IsFiles(other), Whole(other),
         Positions(other) = Positions(files),
         \A p \in Positions(files) : At(other, p) = At(files, p)
  PROVE  CacheOf(other) = CacheOf(files)
<1> DEFINE rows == ScanRows(files)
           same == ScanRows(other)
<1>1. LivePositions(other) = LivePositions(files)
  <2> DEFINE live(f) == {p \in Positions(f) :
                           /\ At(f, p).op = "put"
                           /\ \A q \in Positions(f) : Before(p, q) => At(f, q).id # At(f, p).id}
  <2>1. LivePositions(other) = live(other)
    BY LiveIs
  <2>2. LivePositions(files) = live(files)
    BY LiveIs
  <2>3. live(other) = live(files)
    OBVIOUS
  <2> HIDE DEF live
  <2> QED
    BY <2>1, <2>2, <2>3
<1>2. \A p \in LivePositions(files) : At(other, p) = At(files, p)
  BY DEF LivePositions
<1>3. /\ \A p \in LivePositions(files) : At(files, p).id \in DOMAIN rows /\ rows[At(files, p).id] = p
      /\ \A id \in DOMAIN rows : rows[id] \in LivePositions(files) /\ At(files, rows[id]).id = id
  BY ScanRowsIs
<1>4. /\ \A p \in LivePositions(other) : At(other, p).id \in DOMAIN same /\ same[At(other, p).id] = p
      /\ \A id \in DOMAIN same : same[id] \in LivePositions(other) /\ At(other, same[id]).id = id
  BY ScanRowsIs
<1>5. same = rows
  <2>1. rows = [id \in DOMAIN rows |-> rows[id]] /\ same = [id \in DOMAIN same |-> same[id]]
    BY DEF ScanRows
  <2> HIDE DEF rows, same
  <2>2. \A id \in DOMAIN rows : id \in DOMAIN same /\ same[id] = rows[id]
    BY <1>1, <1>2, <1>3, <1>4
  <2>3. \A id \in DOMAIN same : id \in DOMAIN rows
    BY <1>1, <1>2, <1>3, <1>4
  <2>4. DOMAIN rows = DOMAIN same
    BY <2>2, <2>3
  <2> QED
    BY <2>1, <2>2, <2>4
<1>6. CacheOf(other).lookups = CacheOf(files).lookups
  <2> DEFINE L == CacheOf(files).lookups
             M == CacheOf(other).lookups
  <2>1. /\ \A e \in L : e = <<e[1], e[2]>>
        /\ \A k, id : <<k, id>> \in L
                        <=> id \in DOMAIN rows /\ k \in LookupKeys(At(files, rows[id]).rec)
    BY LookupsAre
  <2>2. /\ \A e \in M : e = <<e[1], e[2]>>
        /\ \A k, id : <<k, id>> \in M
                        <=> id \in DOMAIN same /\ k \in LookupKeys(At(other, same[id]).rec)
    BY LookupsAre
  <2>3. \A id \in DOMAIN rows : At(other, same[id]) = At(files, rows[id])
    BY <1>2, <1>3, <1>5
  <2> HIDE DEF rows, same, L, M
  <2>4. L = M
    BY <1>5, <2>1, <2>2, <2>3
  <2> QED
    BY <2>4 DEF L, M
<1> QED
  BY <1>5, <1>6 DEF CacheOf

(* The files a source hash was taken of, without the chunks that have no    *)
(* lines.                                                                  *)
Restored(source) == [c \in DOMAIN source |-> [head |-> "whole", lines |-> source[c]]]

(* The source tells the cache: files with the same one are scanned alike.   *)
LEMMA RestoredCache ==
  ASSUME NEW files, IsFiles(files), Whole(files)
  PROVE  CacheOf(Restored(SourceOf(files))) = CacheOf(files)
<1> DEFINE other == Restored(SourceOf(files))
           full  == {d \in DOMAIN files : files[d].lines # <<>>}
<1>1. DOMAIN other = full /\ \A c \in full : other[c] = [head |-> "whole", lines |-> files[c].lines]
  <2>1. DOMAIN SourceOf(files) = full /\ \A c \in full : SourceOf(files)[c] = files[c].lines
    BY DEF SourceOf
  <2> HIDE DEF full
  <2> QED
    BY <2>1 DEF Restored
<1>2. \A c \in full : other[c].head = "whole" /\ other[c].lines = files[c].lines
  <2> HIDE DEF other, full
  <2> QED
    BY <1>1
<1>3. IsFiles(other)
  <2>1. \A c \in full : c \in Chunk /\ files[c].lines \in Seq(Line(Tx))
    BY DEF IsFiles, PartialOn, File
  <2>2. ASSUME NEW c \in full PROVE other[c] \in File(Tx)
    <3> DEFINE lines == files[c].lines
    <3>1. lines \in Seq(Line(Tx)) /\ other[c] = [head |-> "whole", lines |-> lines]
      BY <1>1, <2>1
    <3> HIDE DEF lines, other
    <3> QED
      BY <3>1 DEF File, Preamble
  <2>3. other = [c \in DOMAIN other |-> other[c]]
    BY DEF Restored
  <2> HIDE DEF other, full
  <2> QED
    BY <1>1, <2>1, <2>2, <2>3 DEF IsFiles, PartialOn
<1> HIDE DEF other
<1>4. Positions(other) = Positions(files)
  <2>1. ASSUME NEW p \in Positions(files) PROVE p \in Positions(other)
    <3>1. PICK c \in DOMAIN files : \E i \in DOMAIN files[c].lines : p = <<c, i>>
      BY PositionsAre
    <3>2. PICK i \in DOMAIN files[c].lines : p = <<c, i>>
      BY <3>1
    <3>3. c \in DOMAIN other /\ i \in DOMAIN other[c].lines
      BY <1>1, <1>2
    <3> QED
      BY <1>3, <3>2, <3>3, PositionsAre
  <2>2. ASSUME NEW p \in Positions(other) PROVE p \in Positions(files)
    <3>1. PICK c \in DOMAIN other : \E i \in DOMAIN other[c].lines : p = <<c, i>>
      BY <1>3, PositionsAre
    <3>2. PICK i \in DOMAIN other[c].lines : p = <<c, i>>
      BY <3>1
    <3>3. c \in DOMAIN files /\ i \in DOMAIN files[c].lines
      BY <1>1, <1>2
    <3> QED
      BY <3>2, <3>3, PositionsAre
  <2> QED
    BY <2>1, <2>2
<1>5. \A p \in Positions(files) : At(other, p) = At(files, p)
  <2> SUFFICES ASSUME NEW p \in Positions(files) PROVE At(other, p) = At(files, p)
    OBVIOUS
  <2>1. p[1] \in DOMAIN other
    BY <1>3, <1>4, PositionType DEF IsFiles
  <2> QED
    BY <1>1, <1>2, <2>1 DEF At
<1>6. Whole(other)
  BY <1>1, <1>2, <1>4, <1>5 DEF Whole
<1>7. CacheOf(other) = CacheOf(files)
  BY <1>3, <1>4, <1>5, <1>6, SameLinesSameCache
<1> QED
  BY <1>7 DEF other

(* A new chunk alone: what it holds is the batch written to it. *)
LEMMA AloneAppended ==
  ASSUME NEW b \in Seq(Operation), NEW tx \in Nat, tx + Len(b) <= MaxTx + 1,
         NEW file, file = [head |-> "whole", lines |-> EncodeBatch(b, tx)],
         NEW files, files = [c \in {0} |-> file]
  PROVE  /\ IsFiles(files) /\ Whole(files)
         /\ Appended(NoRows, files, b, tx, [j \in DOMAIN b |-> <<0, j>>])
<1> DEFINE lines == EncodeBatch(b, tx)
           ptr   == [j \in DOMAIN b |-> <<0, j>>]
<1>1. /\ lines \in Seq(Line(Tx)) /\ Len(lines) = Len(b)
      /\ \A j \in DOMAIN b : lines[j] = EncodeLine(b[j], tx + (j - 1))
  BY EncodeBatchType
<1> HIDE DEF lines
<1>2. DOMAIN lines = DOMAIN b /\ DOMAIN b = 1..Len(b) /\ Len(b) \in Nat
  BY <1>1, LenProperties
<1>3. /\ DOMAIN files = {0} /\ files[0] = file
      /\ files[0].lines = lines /\ files[0].head = "whole"
  BY DEF lines
<1>4. IsFiles(files)
  <2>1. 0 \in Chunk
    BY StoreAssumption DEF Chunk
  <2>2. file \in File(Tx)
    BY <1>1 DEF File, Preamble, lines
  <2> QED
    BY <2>1, <2>2 DEF IsFiles, PartialOn
<1>5. Positions(files) = {ptr[j] : j \in DOMAIN b}
  <2>1. \A p : p \in Positions(files)
                 <=> \E c \in DOMAIN files : \E i \in DOMAIN files[c].lines : p = <<c, i>>
    BY <1>4, PositionsAre
  <2> QED
    BY <1>2, <1>3, <2>1
<1>6. \A j \in DOMAIN b : At(files, ptr[j]) = EncodeLine(b[j], tx + (j - 1))
  BY <1>1, <1>3 DEF At
<1>7. Whole(files)
  <2>1. ASSUME NEW p \in Positions(files) PROVE At(files, p).cut = "no"
    <3>1. PICK j \in DOMAIN b : p = ptr[j]
      BY <1>5
    <3>2. At(files, p) = EncodeLine(b[j], tx + (j - 1))
      BY <1>6, <3>1
    <3> QED
      BY <3>2 DEF EncodeLine
  <2> QED
    BY <1>3, <2>1 DEF Whole
<1>8. Positions(NoRows) = {}
  BY DEF Positions, NoRows
<1>9. \A i, j \in DOMAIN b : i < j => Before(ptr[i], ptr[j])
  BY DEF Before
<1> HIDE DEF ptr
<1>10. Appended(NoRows, files, b, tx, ptr)
  BY <1>5, <1>6, <1>8, <1>9 DEF Appended
<1> QED
  BY <1>4, <1>7, <1>10 DEF ptr
=============================================================================
