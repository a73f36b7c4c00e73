-------------------------- MODULE TableExactProofs --------------------------
(***************************************************************************)
(* That what a handle answers, keeps and writes is exactly what the files   *)
(* say, as long as the process stops only where it leaves whole lines and   *)
(* lets a compaction end: Faults \subseteq {"create", "short"}.  The other  *)
(* stops break these properties (the runs torn, removal and metadata).      *)
(* That no old version of a row comes back needs whole lines only.         *)
(***************************************************************************)
EXTENDS TableScanProofs

Size(files) == Cardinality(DOMAIN files)

(* The chunk counters in use are 0, 1, ... without a hole. *)
Dense(files) == DOMAIN files = 0..(Size(files) - 1)

(* Every chunk has its magic line, unless a stop may leave it out. *)
Prefaced(files) == "create" \notin Faults => \A c \in DOMAIN files : files[c].head # "none"

FilesExact(files) ==
  /\ Whole(files) /\ Prefaced(files) /\ Dense(files)
  /\ TxOrdered(files)
  /\ UniqueRows(files)

(* No counter leads a write to a chunk, or to tx ids, that are not behind   *)
(* all others.                                                             *)
CountersExact(m, tx, chunk, files) ==
  /\ m # None => m.chunk <= Size(files)
  /\ chunk # None => chunk = Size(files)
  /\ tx # None => TxBelow(files, tx)

RuntimeExact(proj, files) == proj # None => proj = FromCache(CacheOf(files))

CacheExact(cache, files) == cache # None => cache = CacheOf(files)

(* The `.6b` file is what a rebuild makes of the files its source is of. *)
SixbExact(s) == s # None => s.cache = CacheOf(Restored(s.source))

(* A write reads the projection, the cached records and the counters to     *)
(* find where it goes, what it refuses and which entries it removes: none   *)
(* of them stays exact without the others.                                 *)
EInv ==
  /\ FilesExact(chunks)
  /\ CountersExact(meta, nextTx, nextChunk, chunks)
  /\ RuntimeExact(runtime, chunks)
  /\ CacheExact(sixbCache, chunks)
  /\ RecordsExact(rowCache, chunks)
  /\ SixbExact(sixb)

LEMMA SizeType ==
  ASSUME NEW files, IsFiles(files)
  PROVE  Size(files) \in Nat
<1>1. IsFiniteSet(Chunk)
  BY FS_Interval, StoreAssumption DEF Chunk
<1>2. IsFiniteSet(DOMAIN files)
  BY <1>1, FS_Subset DEF IsFiles, PartialOn
<1> QED
  BY <1>2, FS_CardinalityType DEF Size

LEMMA IntervalSize ==
  ASSUME NEW files, NEW n \in Nat, DOMAIN files = 0..(n - 1)
  PROVE  Size(files) = n /\ Dense(files)
<1>1. Cardinality(0..(n - 1)) = n
  BY FS_Interval
<1> QED
  BY <1>1 DEF Size, Dense

(* No line, no row. *)
LEMMA NoRowsExact ==
  /\ IsFiles(NoRows) /\ FilesExact(NoRows) /\ Size(NoRows) = 0
  /\ Positions(NoRows) = {}
  /\ DOMAIN ScanRows(NoRows) = {}
  /\ CacheOf(NoRows).lookups = {}
<1>1. IsFiles(NoRows) /\ DOMAIN NoRows = {}
  BY NoRowsType DEF IsFiles
<1>2. Positions(NoRows) = {}
  BY <1>1 DEF Positions
<1>3. LivePositions(NoRows) = {}
  BY <1>2 DEF LivePositions
<1>4. DOMAIN ScanRows(NoRows) = {} /\ CacheOf(NoRows).lookups = {}
  BY <1>3 DEF ScanRows, CacheOf
<1>5. Size(NoRows) = 0 /\ Dense(NoRows)
  BY <1>1, IntervalSize
<1> QED
  BY <1>1, <1>2, <1>4, <1>5 DEF FilesExact, Whole, Prefaced, TxOrdered, UniqueRows

LEMMA InitEInv == Init => EInv
<1> SUFFICES ASSUME Init PROVE EInv
  OBVIOUS
<1>1. RecordsExact(rowCache, chunks)
  BY NoRowsType DEF Init, RecordsExact
<1> QED
  BY <1>1, NoRowsExact DEF Init, EInv, CountersExact, RuntimeExact, CacheExact, SixbExact

LEMMA FilesTyped == IInv => IsFiles(chunks)
BY DEF IInv, IsFiles

-----------------------------------------------------------------------------
(* Loading.                                                                *)

LoadExact(loaded) ==
  /\ loaded.cache = CacheOf(chunks)
  /\ RuntimeExact(loaded.runtime, chunks)
  /\ CacheExact(loaded.sixbCache, chunks)
  /\ RecordsExact(loaded.rowCache, chunks)
  /\ SixbExact(loaded.sixb)

(* The records of a scan are those of its rows. *)
LEMMA LiveRecordsExact ==
  ASSUME NEW files
  PROVE  RecordsExact(LiveRecords(files), files)
BY DEF RecordsExact, LiveRecords

LEMMA SixbBuilt ==
  ASSUME NEW files, IsFiles(files), Whole(files)
  PROVE  SixbExact([source |-> SourceOf(files), cache |-> CacheOf(files)])
BY RestoredCache DEF SixbExact

(* rebuild_sixb *)
LEMMA RebuiltExact ==
  ASSUME IsFiles(chunks), Whole(chunks)
  PROVE  LoadExact(Rebuilt)
<1> DEFINE cache == CacheOf(chunks)
           file  == [source |-> SourceOf(chunks), cache |-> cache]
<1>1. Rebuilt = [cache |-> cache, runtime |-> FromCache(cache), sixbCache |-> cache,
                 rowCache |-> LiveRecords(chunks), sixb |-> file]
  BY DEF Rebuilt
<1>2. SixbExact(file)
  BY SixbBuilt
<1>3. RecordsExact(LiveRecords(chunks), chunks)
  BY LiveRecordsExact
<1> HIDE DEF file
<1> QED
  BY <1>1, <1>2, <1>3 DEF LoadExact, RuntimeExact, CacheExact

LEMMA ToFromCache ==
  ASSUME NEW files
  PROVE  ToCache(FromCache(CacheOf(files))) = CacheOf(files)
BY DEF ToCache, FromCache, CacheOf

(* ensure_sixb_snapshot: whichever of the projection, the snapshot and the  *)
(* `.6b` file answers, and whatever the handle did before.                 *)
LEMMA SnapshotExact ==
  ASSUME IInv, EInv
  PROVE  LoadExact(Snapshot)
<1> DEFINE found(cache) == [cache |-> cache, runtime |-> runtime, sixbCache |-> cache,
                            rowCache |-> rowCache, sixb |-> sixb]
<1>0. IsFiles(chunks) /\ Whole(chunks)
  BY FilesTyped DEF EInv, FilesExact
<1>1. ASSUME NEW cache, cache = CacheOf(chunks)
      PROVE  LoadExact(found(cache))
  BY <1>1 DEF EInv, LoadExact, CacheExact
<1>2. CASE runtime # None
  <2>1. Snapshot = found(ToCache(runtime))
    BY <1>2 DEF Snapshot
  <2>2. ToCache(runtime) = CacheOf(chunks)
    BY <1>2, ToFromCache DEF EInv, RuntimeExact
  <2> QED
    BY <1>1, <2>1, <2>2
<1>3. CASE runtime = None /\ sixbCache # None
  <2>1. Snapshot = found(sixbCache)
    BY <1>3 DEF Snapshot
  <2> QED
    BY <1>1, <1>3, <2>1 DEF EInv, CacheExact
<1>4. CASE runtime = None /\ sixbCache = None /\ SixbIsCurrent
  <2>1. Snapshot = found(sixb.cache)
    BY <1>4 DEF Snapshot
  <2>2. sixb.cache = CacheOf(chunks)
    <3>1. sixb # None /\ sixb.source = SourceOf(chunks)
      BY <1>4 DEF SixbIsCurrent
    <3> QED
      BY <1>0, <3>1, RestoredCache DEF EInv, SixbExact
  <2> QED
    BY <1>1, <2>1, <2>2
<1>5. CASE runtime = None /\ sixbCache = None /\ ~SixbIsCurrent
  <2>1. Snapshot = Rebuilt
    BY <1>5 DEF Snapshot
  <2> QED
    BY <1>0, <2>1, RebuiltExact
<1> QED
  BY <1>2, <1>3, <1>4, <1>5

(* The tx ids a handle recovers, and continues with, are above all in the   *)
(* files.                                                                  *)
LEMMA RecoveredTxAbove ==
  ASSUME IsFiles(chunks), Whole(chunks), CountersOK(meta, nextTx, nextChunk)
  PROVE  TxBelow(chunks, RecoveredTx)
<1>1. TxBelow(chunks, DiscoveredTx(chunks))
  BY DiscoveredAbove
<1>2. DiscoveredTx(chunks) \in Nat
  BY DiscoveredTxType, StoreAssumption DEF IsFiles
<1>3. meta # None => meta.tx \in Nat
  BY DEF CountersOK
<1>4. RecoveredTx \in Nat /\ DiscoveredTx(chunks) <= RecoveredTx
  BY <1>2, <1>3 DEF RecoveredTx, Highest
<1>5. \A p \in Positions(chunks) : At(chunks, p).tx \in Nat
  BY PositionType DEF IsFiles, Line, Tx
<1>6. ASSUME NEW p \in Positions(chunks) PROVE At(chunks, p).tx < RecoveredTx
  <2> DEFINE t == At(chunks, p).tx
  <2>1. t \in Nat /\ t < DiscoveredTx(chunks)
    BY <1>1, <1>5 DEF TxBelow
  <2> HIDE DEF t
  <2>2. t < RecoveredTx
    BY <1>2, <1>4, <2>1
  <2> QED
    BY <2>2 DEF t
<1> QED
  BY <1>6 DEF TxBelow

LEMMA NextTxAbove ==
  ASSUME IInv, EInv
  PROVE  TxBelow(chunks, NextTxId)
BY FilesTyped, RecoveredTxAbove DEF IInv, EInv, FilesExact, CountersExact, NextTxId

(* take_runtime_sixb_for_write: what a batch is checked against and applied *)
(* to is the projection of the files.                                      *)
LEMMA TakenExact ==
  ASSUME IInv, EInv
  PROVE  /\ Taken.proj = FromCache(CacheOf(chunks))
         /\ RuntimeExact(Taken.runtime, chunks)
         /\ CacheExact(Taken.sixbCache, chunks)
         /\ RecordsExact(Taken.rowCache, chunks)
         /\ SixbExact(Taken.sixb)
         /\ TxBelow(chunks, Taken.tx)
<1>1. CASE runtime # None
  <2>1. Taken = [proj |-> runtime, tx |-> NextTxId, runtime |-> None,
                 sixbCache |-> sixbCache, rowCache |-> rowCache, sixb |-> sixb]
    BY <1>1 DEF Taken
  <2> QED
    BY <1>1, <2>1, NextTxAbove DEF EInv, RuntimeExact
<1>2. CASE runtime = None
  <2>1. Taken = [proj |-> FromCache(Snapshot.cache), tx |-> NextTxId,
                 runtime |-> Snapshot.runtime, sixbCache |-> None,
                 rowCache |-> Snapshot.rowCache, sixb |-> Snapshot.sixb]
    BY <1>2 DEF Taken
  <2>2. LoadExact(Snapshot)
    BY SnapshotExact
  <2> QED
    BY <2>1, <2>2, NextTxAbove DEF LoadExact, CacheExact
<1> QED
  BY <1>1, <1>2

-----------------------------------------------------------------------------
(* Appending.                                                              *)

(* The target is behind all lines, and what it makes the next counter is    *)
(* that of the files with it.                                              *)
Follows(target) ==
  /\ \A c \in DOMAIN chunks : c <= target.chunk
  /\ target.next \in Nat /\ Size(chunks) <= target.next
  /\ DOMAIN chunks \cup {target.chunk} = 0..(target.next - 1)

LEMMA NextChunkIsSize ==
  ASSUME IInv, EInv
  PROVE  /\ NextChunkCounter = Size(chunks) /\ RecoveredChunk = Size(chunks)
         /\ Size(chunks) \in Nat
<1>1. Size(chunks) \in Nat
  BY FilesTyped, SizeType
<1>2. RecoveredChunk = Size(chunks)
  <2>1. meta # None => meta.chunk \in Nat /\ meta.chunk <= Size(chunks)
    BY DEF IInv, CountersOK, EInv, CountersExact
  <2> QED
    BY <1>1, <2>1 DEF RecoveredChunk, Highest, Size
<1> QED
  BY <1>1, <1>2 DEF EInv, CountersExact, NextChunkCounter

(* append_target: from the recovered counter as from the cached one. *)
LEMMA TargetFollows ==
  ASSUME IInv, EInv, NEW n \in Nat
  PROVE  Follows(Target(n))
<1> DEFINE next    == NextChunkCounter
           target  == Target(n)
           current == next - 1
           len     == IF current \in DOMAIN chunkLen THEN chunkLen[current]
                                                     ELSE Len(chunks[current].lines)
           fits    == (next > 0 /\ current \in DOMAIN chunks) /\ len + n <= ChunkLimit
<1>1. next = Size(chunks) /\ next \in Nat
  BY NextChunkIsSize
<1>2. DOMAIN chunks = 0..(next - 1)
  BY <1>1 DEF EInv, FilesExact, Dense
<1>3. /\ target.chunk = IF fits THEN next - 1 ELSE next
      /\ target.next = IF fits THEN next ELSE next + 1
  BY DEF Target, TargetFrom
<1> HIDE DEF next, target, len
<1>4. CASE ~fits
  <2>1. target.chunk = next /\ target.next = next + 1
    BY <1>3, <1>4
  <2>2. DOMAIN chunks \cup {next} = 0..next /\ \A c \in DOMAIN chunks : c <= next
    BY <1>1, <1>2
  <2>3. (next + 1) - 1 = next /\ next + 1 \in Nat /\ next <= next + 1
    BY <1>1
  <2>4. Follows(target)
    BY <1>1, <2>1, <2>2, <2>3 DEF Follows
  <2> QED
    BY <2>4 DEF target
<1>5. CASE fits
  <2>1. target.chunk = next - 1 /\ target.next = next /\ next > 0
    BY <1>3, <1>5
  <2>2. DOMAIN chunks \cup {next - 1} = 0..(next - 1) /\ \A c \in DOMAIN chunks : c <= next - 1
    BY <1>1, <1>2, <2>1
  <2>3. Follows(target)
    BY <1>1, <2>1, <2>2 DEF Follows
  <2> QED
    BY <2>3 DEF target
<1> QED
  BY <1>4, <1>5

(* Writing a batch behind all lines of the files. *)
LEMMA ExtendedAppended ==
  ASSUME IsFiles(chunks), Whole(chunks),
         NEW target, IsTarget(target), Usable(target), Follows(target),
         NEW head \in {"none", "whole"},
         NEW b \in Seq(Operation), NEW tx \in Nat, tx + Len(b) <= MaxTx + 1,
         NEW new, new = Extended(target, head, EncodeBatch(b, tx)),
         NEW ptr, ptr = [j \in DOMAIN b |-> <<target.chunk, target.offset + j>>]
  PROVE  /\ IsFiles(new) /\ Whole(new)
         /\ DOMAIN new = 0..(target.next - 1)
         /\ Appended(chunks, new, b, tx, ptr)
<1> DEFINE lines == EncodeBatch(b, tx)
           t     == target.chunk
           off   == target.offset
           old   == chunks[t].lines
<1>1. /\ lines \in Seq(Line(Tx)) /\ Len(lines) = Len(b)
      /\ \A j \in DOMAIN b : lines[j] = EncodeLine(b[j], tx + (j - 1))
  BY EncodeBatchType
<1>2. DOMAIN b = 1..Len(b) /\ Len(b) \in Nat /\ DOMAIN lines = DOMAIN b
  BY <1>1, LenProperties
<1>3. PartialOn(Chunk, File(Tx), chunks) /\ head \in Preamble
  BY DEF IsFiles, Preamble
<1>4. t \in Chunk /\ t \in Nat /\ (target.isNew <=> t \notin DOMAIN chunks)
  BY UsableTarget, StoreAssumption DEF Chunk
<1> HIDE DEF lines
<1>5. /\ PartialOn(Chunk, File(Tx), new)
      /\ DOMAIN new = DOMAIN chunks \cup {t}
      /\ \A c \in DOMAIN chunks \ {t} : new[c] = chunks[c]
      /\ new[t].lines = IF target.isNew THEN lines ELSE old \o lines
  BY <1>1, <1>3, ExtendedType DEF lines
<1>6. t \in DOMAIN chunks => /\ off = Len(old) /\ old \in Seq(Line(Tx))
                             /\ DOMAIN old = 1..Len(old) /\ Len(old) \in Nat
  <2>1. t \in DOMAIN chunks => old \in Seq(Line(Tx))
    BY <1>3 DEF PartialOn, File
  <2> QED
    BY <1>4, <2>1, LenProperties DEF IsTarget
<1>7. t \notin DOMAIN chunks => off = 0
  BY <1>4 DEF IsTarget
<1>8. off \in Nat
  BY <1>6, <1>7
<1> DEFINE after == new[t].lines
<1>9. /\ DOMAIN after = 1..(off + Len(b))
      /\ \A j \in DOMAIN b : after[off + j] = lines[j]
      /\ t \in DOMAIN chunks => \A i \in DOMAIN old : after[i] = old[i]
  <2>1. CASE t \in DOMAIN chunks
    <3>1. after = old \o lines
      BY <1>4, <1>5, <2>1
    <3>0. /\ old \in Seq(Line(Tx)) /\ Len(old) = off /\ lines \in Seq(Line(Tx))
          /\ Len(lines) = Len(b) /\ DOMAIN old = 1..Len(old)
      BY <1>1, <1>6, <2>1
    <3> HIDE DEF after, old, off
    <3>2. after \in Seq(Line(Tx)) /\ Len(after) = off + Len(b)
      <4>1. old \o lines \in Seq(Line(Tx)) /\ Len(old \o lines) = Len(old) + Len(lines)
        BY <3>0, ConcatProperties
      <4> QED
        BY <3>0, <3>1, <4>1
    <3>3. \A i \in 1..(off + Len(b)) : after[i] = IF i <= off THEN old[i] ELSE lines[i - off]
      BY <3>0, <3>1, ConcatProperties
    <3>4. DOMAIN after = 1..(off + Len(b))
      BY <3>2, LenProperties
    <3>5. ASSUME NEW j \in DOMAIN b PROVE after[off + j] = lines[j]
      <4> DEFINE i == off + j
      <4>1. i \in 1..(off + Len(b)) /\ ~(i <= off) /\ i - off = j
        BY <1>2, <1>8 DEF off
      <4> HIDE DEF i
      <4>2. after[i] = lines[j]
        BY <3>3, <4>1
      <4> QED
        BY <4>2 DEF i
    <3>6. \A i \in DOMAIN old : after[i] = old[i]
      BY <1>2, <1>8, <3>0, <3>3 DEF off
    <3> QED
      BY <3>4, <3>5, <3>6
  <2>2. CASE t \notin DOMAIN chunks
    <3>1. after = lines /\ off = 0
      BY <1>4, <1>5, <1>7, <2>2
    <3> HIDE DEF after
    <3> QED
      BY <1>2, <2>2, <3>1
  <2> QED
    BY <2>1, <2>2
<1>10. IsFiles(new)
  BY <1>5 DEF IsFiles
<1> HIDE DEF after
<1>11. /\ \A p : p \in Positions(chunks)
                   <=> \E c \in DOMAIN chunks : \E i \in DOMAIN chunks[c].lines : p = <<c, i>>
       /\ \A p : p \in Positions(new)
                   <=> \E c \in DOMAIN new : \E i \in DOMAIN new[c].lines : p = <<c, i>>
  BY <1>10, PositionsAre
<1>12. ASSUME NEW c \in DOMAIN chunks, NEW i \in DOMAIN chunks[c].lines
       PROVE  c \in DOMAIN new /\ i \in DOMAIN new[c].lines /\ new[c].lines[i] = chunks[c].lines[i]
  <2>1. CASE c = t
    <3>1. i \in DOMAIN old /\ DOMAIN old = 1..off /\ t \in DOMAIN chunks
      BY <1>6, <2>1
    <3>2. after[i] = old[i]
      BY <1>9, <3>1
    <3>3. i \in DOMAIN after
      BY <1>2, <1>8, <1>9, <3>1
    <3>4. c \in DOMAIN new
      BY <1>5
    <3> QED
      BY <2>1, <3>2, <3>3, <3>4 DEF after
  <2>2. CASE c # t
    BY <1>5, <2>2
  <2> QED
    BY <2>1, <2>2
<1>13. ASSUME NEW p \in Positions(chunks)
       PROVE  p \in Positions(new) /\ At(new, p) = At(chunks, p)
  <2>1. PICK c \in DOMAIN chunks : \E i \in DOMAIN chunks[c].lines : p = <<c, i>>
    BY <1>11
  <2>2. PICK i \in DOMAIN chunks[c].lines : p = <<c, i>>
    BY <2>1
  <2>3. c \in DOMAIN new /\ i \in DOMAIN new[c].lines /\ new[c].lines[i] = chunks[c].lines[i]
    BY <1>12
  <2>4. p \in Positions(new)
    BY <1>11, <2>2, <2>3
  <2> QED
    BY <2>2, <2>3, <2>4 DEF At
<1>14. ASSUME NEW j \in DOMAIN b
       PROVE  ptr[j] \in Positions(new) /\ At(new, ptr[j]) = EncodeLine(b[j], tx + (j - 1))
  <2> DEFINE i == off + j
  <2>1. ptr[j] = <<t, i>>
    OBVIOUS
  <2>2. t \in DOMAIN new /\ i \in DOMAIN new[t].lines /\ new[t].lines[i] = lines[j]
    <3>1. i \in 1..(off + Len(b))
      BY <1>2, <1>8
    <3>2. i \in DOMAIN after /\ after[i] = lines[j]
      BY <1>9, <3>1
    <3>3. t \in DOMAIN new
      BY <1>5
    <3> QED
      BY <3>2, <3>3 DEF after
  <2> HIDE DEF i
  <2>3. <<t, i>> \in Positions(new)
    BY <1>11, <2>2
  <2>4. At(new, <<t, i>>) = lines[j]
    BY <2>2 DEF At
  <2> QED
    BY <1>1, <2>1, <2>3, <2>4
<1>15. ASSUME NEW p \in Positions(new), p \notin Positions(chunks)
       PROVE  \E j \in DOMAIN b : p = ptr[j]
  <2>1. PICK c \in DOMAIN new : \E i \in DOMAIN new[c].lines : p = <<c, i>>
    BY <1>11
  <2>2. PICK i \in DOMAIN new[c].lines : p = <<c, i>>
    BY <2>1
  <2>3. c = t
    BY <1>5, <1>11, <1>15, <2>2
  <2>4. i \in 1..(off + Len(b))
    BY <1>9, <2>2, <2>3 DEF after
  <2>5. ~(i <= off)
    <3> SUFFICES ASSUME i <= off PROVE FALSE
      OBVIOUS
    <3>1. t \in DOMAIN chunks
      BY <1>7, <2>4
    <3>2. i \in DOMAIN chunks[t].lines
      BY <1>6, <2>4, <3>1
    <3> QED
      BY <1>11, <1>15, <2>2, <2>3, <3>1, <3>2
  <2> DEFINE j == i - off
  <2>6. j \in DOMAIN b /\ off + j = i
    BY <1>2, <1>8, <2>4, <2>5
  <2> HIDE DEF j
  <2>7. p = ptr[j]
    BY <2>2, <2>3, <2>6
  <2> QED
    BY <2>6, <2>7
<1>16. ASSUME NEW p \in Positions(chunks), NEW j \in DOMAIN b
       PROVE  Before(p, ptr[j])
  <2>1. p[1] \in DOMAIN chunks /\ p[2] \in DOMAIN chunks[p[1]].lines
    BY <1>3, PositionType
  <2>2. p[1] <= t /\ p[1] \in Nat
    BY <1>3, <2>1, StoreAssumption DEF Follows, PartialOn, Chunk
  <2> DEFINE q == ptr[j]
  <2>3. q[1] = t /\ q[2] = off + j
    OBVIOUS
  <2> HIDE DEF q
  <2>4. p[1] = t => p[2] < off + j
    BY <1>2, <1>6, <2>1
  <2>5. p[1] < t \/ p[1] = t
    BY <1>4, <2>2
  <2>6. Before(p, q)
    BY <2>3, <2>4, <2>5 DEF Before
  <2> QED
    BY <2>6 DEF q
<1>17. ASSUME NEW i \in DOMAIN b, NEW j \in DOMAIN b, i < j
       PROVE  Before(ptr[i], ptr[j])
  <2>1. off + i < off + j
    BY <1>2, <1>8, <1>17
  <2> QED
    BY <2>1 DEF Before
<1> HIDE DEF t, off, old
<1>18. Appended(chunks, new, b, tx, ptr)
  <2>1. Positions(new) = Positions(chunks) \cup {ptr[j] : j \in DOMAIN b}
    BY <1>13, <1>14, <1>15
  <2> QED
    BY <2>1, <1>13, <1>14, <1>16, <1>17 DEF Appended
<1>19. Whole(new)
  <2>1. ASSUME NEW p \in Positions(new) PROVE At(new, p).cut = "no"
    <3>1. CASE p \in Positions(chunks)
      BY <1>13, <3>1 DEF Whole
    <3>2. ASSUME NEW j \in DOMAIN b, p = ptr[j] PROVE At(new, p).cut = "no"
      <4>1. At(new, p) = EncodeLine(b[j], tx + (j - 1))
        BY <1>14, <3>2
      <4> QED
        BY <4>1 DEF EncodeLine
    <3> QED
      BY <1>15, <3>1, <3>2
  <2>2. ASSUME NEW c \in DOMAIN new PROVE new[c].head # "cut"
    <3>1. CASE c # t
      BY <1>5, <3>1 DEF Whole
    <3>2. CASE c = t /\ target.isNew
      <4>1. new[c] = [head |-> head, lines |-> lines]
        BY <3>2 DEF Extended, lines, t
      <4> QED
        BY <4>1
    <3>3. CASE c = t /\ ~target.isNew
      <4>1. new[c] = [chunks[t] EXCEPT !.lines = @ \o lines]
        BY <3>3 DEF Extended, lines, t
      <4>2. chunks[t] \in File(Tx) /\ chunks[t].head # "cut"
        BY <1>3, <1>4, <3>3 DEF PartialOn, Whole
      <4>3. new[c].head = chunks[t].head
        BY <4>1, <4>2 DEF File
      <4> QED
        BY <4>2, <4>3
    <3> QED
      BY <3>1, <3>2, <3>3
  <2> QED
    BY <2>1, <2>2 DEF Whole
<1>20. DOMAIN new = 0..(target.next - 1)
  BY <1>5 DEF Follows, t
<1> QED
  BY <1>10, <1>18, <1>19, <1>20

(* What append_batch_inner has checked of a batch before it writes. *)
Valid(b) == DistinctIds(b) /\ NoUniqueConflict(Taken.proj, b)

(* The files with a valid batch behind them are exact again. *)
LEMMA AppendedExact ==
  ASSUME IInv, EInv,
         NEW target, IsTarget(target), Usable(target), Follows(target),
         NEW head \in {"none", "whole"}, head = "none" => "create" \in Faults,
         NEW b \in Seq(Operation), Valid(b), Taken.tx + Len(b) <= MaxTx + 1,
         NEW new, new = Extended(target, head, EncodeBatch(b, Taken.tx)),
         NEW ptr, ptr = [j \in DOMAIN b |-> <<target.chunk, target.offset + j>>]
  PROVE  /\ IsFiles(new) /\ FilesExact(new)
         /\ Size(new) = target.next
         /\ TxBelow(new, Taken.tx + Len(b))
         /\ Appended(chunks, new, b, Taken.tx, ptr)
<1>1. IsFiles(chunks) /\ Whole(chunks) /\ TxOrdered(chunks) /\ UniqueRows(chunks)
      /\ Prefaced(chunks)
  BY FilesTyped DEF EInv, FilesExact
<1>2. Taken.tx \in Nat
  BY TakenType
<1>3. /\ IsFiles(new) /\ Whole(new) /\ DOMAIN new = 0..(target.next - 1)
      /\ Appended(chunks, new, b, Taken.tx, ptr)
  BY <1>1, <1>2, ExtendedAppended
<1>4. Size(new) = target.next /\ Dense(new)
  BY <1>3, IntervalSize DEF Follows
<1>5. TxOrdered(new) /\ TxBelow(new, Taken.tx + Len(b))
  <2>1. TxBelow(chunks, Taken.tx)
    BY TakenExact
  <2> QED
    BY <1>1, <1>2, <1>3, <2>1, TxAppended
<1>6. UniqueRows(new)
  <2>1. NoUniqueConflict(FromCache(CacheOf(chunks)), b) /\ DistinctIds(b)
    BY TakenExact DEF Valid
  <2> QED
    BY <1>1, <1>3, <2>1, UniqueAppended
<1>7. Prefaced(new)
  <2> SUFFICES ASSUME "create" \notin Faults, NEW c \in DOMAIN new PROVE new[c].head # "none"
    BY DEF Prefaced
  <2> DEFINE lines == EncodeBatch(b, Taken.tx)
             t     == target.chunk
  <2>1. DOMAIN new = DOMAIN chunks \cup {t}
        /\ new[c] = IF c = t THEN IF target.isNew THEN [head |-> head, lines |-> lines]
                                  ELSE [chunks[t] EXCEPT !.lines = @ \o lines]
                             ELSE chunks[c]
    BY DEF Extended
  <2> HIDE DEF lines
  <2>2. CASE c # t
    BY <1>1, <2>1, <2>2 DEF Prefaced
  <2>3. CASE c = t /\ target.isNew
    BY <2>1, <2>3
  <2>4. CASE c = t /\ ~target.isNew
    <3>1. t \in DOMAIN chunks
      BY <2>4 DEF IsTarget
    <3>2. chunks[t] \in File(Tx) /\ chunks[t].head # "none"
      BY <1>1, <3>1 DEF Prefaced, IsFiles, PartialOn
    <3>3. new[c] = [chunks[t] EXCEPT !.lines = @ \o lines]
      BY <2>1, <2>4
    <3>4. new[c].head = chunks[t].head
      BY <3>2, <3>3 DEF File
    <3> QED
      BY <3>2, <3>4
  <2> QED
    BY <2>2, <2>3, <2>4 DEF IsTarget
<1> QED
  BY <1>3, <1>4, <1>5, <1>6, <1>7 DEF FilesExact

LEMMA FreshHandleEInv ==
  ASSUME FilesExact(chunks'), SixbExact(sixb'),
         meta' # None => meta'.chunk <= Size(chunks'),
         FreshHandle
  PROVE  EInv'
<1>1. RecordsExact(rowCache', chunks')
  BY NoRowsType DEF FreshHandle, RecordsExact
<1> QED
  BY <1>1 DEF FreshHandle, EInv, CountersExact, RuntimeExact, CacheExact

(* append_batch_inner: what it keeps of the batch is what a rebuild would   *)
(* find.                                                                   *)
LEMMA AppendBatchEInv ==
  ASSUME IInv, EInv, NEW b \in Batch, Valid(b), AppendBatch(Taken, b, Target(Len(b)))
  PROVE  EInv' /\ \E ptr : Appended(chunks, chunks', b, Taken.tx, ptr)
<1> DEFINE target == Target(Len(b))
           ptr    == [j \in DOMAIN b |-> <<target.chunk, target.offset + j>>]
           new    == Extended(target, "whole", EncodeBatch(b, Taken.tx))
<1>1. b \in Seq(Operation) /\ Len(b) \in Nat
  BY BatchIsSeq, LenProperties
<1>2. /\ IsTarget(target) /\ Usable(target) /\ Taken.tx + Len(b) <= MaxTx + 1
      /\ Follows(target)
  BY <1>1, TargetType, TargetFollows DEF AppendBatch, CanAppend
<1>3. /\ chunks' = new
      /\ runtime' = ApplyBatch(Taken.proj, b, ptr, Taken.rowCache)
      /\ sixbCache' = None
      /\ rowCache' = RecordsAfter(Taken.rowCache, b)
      /\ nextTx' = Taken.tx + Len(b)
      /\ nextChunk' = target.next
      /\ sixb' = Taken.sixb
      /\ meta' = IF Len(b) > 1 \/ meta = None
                   THEN Metadata(Taken.tx + Len(b), target.next) ELSE meta
  BY DEF AppendBatch
<1> HIDE DEF target
<1>4. /\ IsFiles(new) /\ FilesExact(new)
      /\ Size(new) = target.next
      /\ TxBelow(new, Taken.tx + Len(b))
      /\ Appended(chunks, new, b, Taken.tx, ptr)
  BY <1>1, <1>2, AppendedExact
<1> HIDE DEF new, ptr
<1>5. /\ IsFiles(chunks) /\ Whole(chunks) /\ Whole(new) /\ DistinctIds(b)
      /\ Taken.proj = FromCache(CacheOf(chunks))
      /\ RecordsExact(Taken.rowCache, chunks)
      /\ SixbExact(Taken.sixb)
  BY <1>4, FilesTyped, TakenExact DEF EInv, FilesExact, Valid
<1>6. runtime' = FromCache(CacheOf(new))
  <2>1. ApplyBatch(FromCache(CacheOf(chunks)), b, ptr, Taken.rowCache) = FromCache(CacheOf(new))
    BY <1>1, <1>4, <1>5, ApplyBatchExact
  <2> QED
    BY <1>3, <1>5, <2>1
<1>7. RecordsExact(rowCache', new)
  BY <1>1, <1>3, <1>4, <1>5, RecordsAfterExact
<1>8. meta' # None => meta'.chunk <= Size(new)
  <2>1. target.next \in Nat /\ Size(chunks) <= target.next /\ Size(chunks) \in Nat
    BY <1>2, <1>5, SizeType DEF Follows
  <2>2. meta # None => meta.chunk \in Nat /\ meta.chunk <= Size(chunks)
    BY DEF IInv, CountersOK, EInv, CountersExact
  <2>3. CASE Len(b) > 1 \/ meta = None
    <3>1. meta'.chunk = target.next
      BY <1>3, <2>3 DEF Metadata
    <3> QED
      BY <1>4, <2>1, <3>1
  <2>4. CASE ~(Len(b) > 1 \/ meta = None)
    BY <1>3, <1>4, <2>1, <2>2, <2>4
  <2> QED
    BY <2>3, <2>4
<1>9. EInv'
  BY <1>3, <1>4, <1>5, <1>6, <1>7, <1>8
     DEF EInv, CountersExact, RuntimeExact, CacheExact
<1> QED
  BY <1>3, <1>4, <1>9

(* A prefix of a valid batch is one, and its lines are those of the batch.  *)
LEMMA PrefixValid ==
  ASSUME NEW b \in Seq(Operation), Valid(b), NEW tx, NEW k \in 0..Len(b)
  PROVE  /\ SubSeq(b, 1, k) \in Seq(Operation) /\ Valid(SubSeq(b, 1, k))
         /\ Len(SubSeq(b, 1, k)) = k
         /\ SubSeq(EncodeBatch(b, tx), 1, k) = EncodeBatch(SubSeq(b, 1, k), tx)
<1> DEFINE s == SubSeq(b, 1, k)
<1>1. Len(b) \in Nat /\ DOMAIN b = 1..Len(b) /\ k \in Nat /\ k <= Len(b)
  BY LenProperties
<1>2. s \in Seq(Operation) /\ Len(s) = k /\ \A j \in 1..k : s[j] = b[j]
  BY <1>1, SubSeqProperties
<1>3. DOMAIN s = 1..k
  BY <1>2, LenProperties
<1>4. \A j \in 1..k : j \in DOMAIN b
  BY <1>1
<1> HIDE DEF s
<1>5. Valid(s)
  BY <1>2, <1>3, <1>4 DEF Valid, DistinctIds, NoUniqueConflict
<1>6. SubSeq(EncodeBatch(b, tx), 1, k) = EncodeBatch(s, tx)
  <2>1. SubSeq(EncodeBatch(b, tx), 1, k) = [j \in 1..k |-> EncodeBatch(b, tx)[j]]
    <3> DEFINE lines == EncodeBatch(b, tx)
    <3>1. SubSeq(lines, 1, k) = [j \in 1..(k - 1 + 1) |-> lines[j + 1 - 1]]
      BY <1>1
    <3> HIDE DEF lines
    <3> QED
      BY <1>1, <3>1 DEF lines
  <2>2. \A j \in 1..k : EncodeBatch(b, tx)[j] = EncodeLine(s[j], tx + (j - 1))
    BY <1>1, <1>2 DEF EncodeBatch
  <2>3. EncodeBatch(s, tx) = [j \in 1..k |-> EncodeLine(s[j], tx + (j - 1))]
    BY <1>2 DEF EncodeBatch
  <2> QED
    BY <2>1, <2>2, <2>3
<1> QED
  BY <1>2, <1>5, <1>6 DEF s

(* Stops that leave whole lines and let a compaction end. *)
WholeStops == Faults \subseteq {"create", "short"}

(* A stop in a write leaves the files with a prefix of the batch behind     *)
(* them, or with a new chunk that is empty.                                *)
LEMMA StoppedWrite ==
  ASSUME WholeStops, NEW target, NEW b \in Seq(Operation), Valid(b), NEW tx \in Nat,
         tx + Len(b) <= MaxTx + 1,
         NEW files \in Interrupted(target, EncodeBatch(b, tx))
  PROVE  \E k \in 0..Len(b), head \in {"none", "whole"} :
           /\ head = "none" => "create" \in Faults
           /\ files = Extended(target, head, EncodeBatch(SubSeq(b, 1, k), tx))
<1> DEFINE lines    == EncodeBatch(b, tx)
           whole(s) == Extended(target, "whole", s)
           Short    == {whole(SubSeq(lines, 1, k)) : k \in 0..(Len(lines) - 1)}
           None1    == {Extended(target, "none", <<>>)}
           ended(k, head) ==
             /\ head = "none" => "create" \in Faults
             /\ files = Extended(target, head, EncodeBatch(SubSeq(b, 1, k), tx))
<1>1. /\ Len(b) \in Nat /\ Len(lines) = Len(b)
      /\ lines \in Seq(Line(Tx))
  BY EncodeBatchType, LenProperties
<1>2. \A k \in 0..Len(b) : SubSeq(lines, 1, k) = EncodeBatch(SubSeq(b, 1, k), tx)
  BY PrefixValid
<1>3. "torn" \notin Faults
  BY DEF WholeStops
<1>4. \/ files = whole(lines)
      \/ files \in Short
      \/ "create" \in Faults /\ files \in None1
  <2>1. files \in {whole(lines)}
                    \cup (IF "short" \in Faults THEN Short ELSE {})
                    \cup {} \cup {}
                    \cup (IF "create" \in Faults /\ target.isNew THEN None1 ELSE {})
    BY <1>3 DEF Interrupted
  <2> HIDE DEF whole, Short, None1, lines
  <2> QED
    BY <2>1
<1>5. SubSeq(lines, 1, Len(b)) = lines
  <2> HIDE DEF lines
  <2> QED
    BY <1>1, SubSeqFull
<1>6. SubSeq(lines, 1, 0) = <<>>
  OBVIOUS
<1> HIDE DEF lines
<1>7. CASE files = whole(lines)
  <2>1. lines = EncodeBatch(SubSeq(b, 1, Len(b)), tx) /\ Len(b) \in 0..Len(b)
    BY <1>1, <1>2, <1>5
  <2>2. ended(Len(b), "whole")
    BY <1>7, <2>1
  <2> QED
    BY <2>1, <2>2
<1>8. CASE files \in Short
  <2>1. PICK k \in 0..(Len(lines) - 1) : files = whole(SubSeq(lines, 1, k))
    BY <1>8
  <2>2. k \in 0..Len(b)
    BY <1>1, <2>1
  <2>3. ended(k, "whole")
    BY <1>2, <2>1, <2>2
  <2> QED
    BY <2>2, <2>3
<1>9. CASE "create" \in Faults /\ files \in None1
  <2>1. 0 \in 0..Len(b) /\ EncodeBatch(SubSeq(b, 1, 0), tx) = <<>>
    BY <1>1, <1>2, <1>6
  <2>2. ended(0, "none")
    BY <1>9, <2>1
  <2> QED
    BY <2>1, <2>2
<1> QED
  BY <1>4, <1>7, <1>8, <1>9

LEMMA StopInAppendEInv ==
  ASSUME WholeStops, IInv, EInv,
         NEW b \in Batch, Valid(b), StopInAppend(Taken, b, Target(Len(b)))
  PROVE  EInv' /\ \E k \in 0..Len(b) : \E ptr :
                    Appended(chunks, chunks', SubSeq(b, 1, k), Taken.tx, ptr)
<1> DEFINE target == Target(Len(b))
<1>1. b \in Seq(Operation) /\ Len(b) \in Nat
  BY BatchIsSeq, LenProperties
<1>2. /\ IsTarget(target) /\ Usable(target) /\ Taken.tx + Len(b) <= MaxTx + 1
      /\ Follows(target)
  BY <1>1, TargetType, TargetFollows DEF StopInAppend, CanAppend
<1>3. Taken.tx \in Nat
  BY TakenType
<1>4. chunks' \in Interrupted(target, EncodeBatch(b, Taken.tx))
  BY DEF StopInAppend
<1>5. sixb' = Taken.sixb /\ meta' = meta /\ FreshHandle
  BY DEF StopInAppend
<1> HIDE DEF target
<1>6. PICK k \in 0..Len(b), head \in {"none", "whole"} :
        /\ head = "none" => "create" \in Faults
        /\ chunks' = Extended(target, head, EncodeBatch(SubSeq(b, 1, k), Taken.tx))
  BY <1>1, <1>2, <1>3, <1>4, StoppedWrite
<1> DEFINE s   == SubSeq(b, 1, k)
           new == Extended(target, head, EncodeBatch(s, Taken.tx))
           ptr == [j \in DOMAIN s |-> <<target.chunk, target.offset + j>>]
<1>7. s \in Seq(Operation) /\ Valid(s) /\ Len(s) = k
  BY <1>1, PrefixValid
<1> HIDE DEF s
<1>8. Taken.tx + Len(s) <= MaxTx + 1
  BY <1>1, <1>2, <1>3, <1>7, StoreAssumption
<1>9. /\ FilesExact(new) /\ Size(new) = target.next
      /\ Appended(chunks, new, s, Taken.tx, ptr)
  BY <1>2, <1>6, <1>7, <1>8, AppendedExact
<1> HIDE DEF new, ptr
<1>10. chunks' = new
  BY <1>6 DEF new, s
<1>11. meta' # None => meta'.chunk <= Size(new)
  <2>1. target.next \in Nat /\ Size(chunks) <= target.next /\ Size(chunks) \in Nat
    BY <1>2, FilesTyped, SizeType DEF Follows
  <2>2. meta # None => meta.chunk \in Nat /\ meta.chunk <= Size(chunks)
    BY DEF IInv, CountersOK, EInv, CountersExact
  <2> QED
    BY <1>5, <1>9, <2>1, <2>2
<1>12. SixbExact(Taken.sixb)
  BY TakenExact
<1>13. EInv'
  BY <1>5, <1>9, <1>10, <1>11, <1>12, FreshHandleEInv
<1> QED
  BY <1>9, <1>10, <1>13 DEF s

(* A refused write keeps what the load has found. *)
LEMMA RefusedEInv ==
  ASSUME IInv, EInv,
         RejectBatch(Taken) \/ \E n \in Nat : RefuseTarget(Taken, Target(n))
  PROVE  EInv' /\ chunks' = chunks
<1>1. /\ runtime' = Taken.runtime /\ sixbCache' = Taken.sixbCache
      /\ rowCache' = Taken.rowCache /\ sixb' = Taken.sixb /\ nextTx' = Taken.tx
      /\ chunks' = chunks /\ meta' = meta
      /\ nextChunk' = nextChunk \/ nextChunk' = NextChunkCounter
  BY DEF RejectBatch, RefuseTarget
<1>2. nextChunk' # None => nextChunk' = Size(chunks)
  BY <1>1, NextChunkIsSize DEF EInv, CountersExact
<1> QED
  BY <1>1, <1>2, TakenExact DEF EInv, CountersExact

-----------------------------------------------------------------------------
(* Reading and rebuilding.                                                 *)

(* read_row_pointer: the record of the line a scan points to. *)
LEMMA PointedAtExact ==
  ASSUME IInv, EInv, NEW id \in DOMAIN ScanRows(chunks)
  PROVE  PointedAt(ScanRows(chunks)[id]) = At(chunks, ScanRows(chunks)[id])
<1> DEFINE p == ScanRows(chunks)[id]
<1>1. p[1] \in DOMAIN chunkCache => chunkCache[p[1]] = chunks[p[1]]
  BY DEF IInv, FilesOK
<1> QED
  BY <1>1 DEF PointedAt, At

LEMMA ReadRowsExact ==
  ASSUME IInv, EInv, NEW ids \in SUBSET DOMAIN ScanRows(chunks),
         NEW cached, RecordsExact(cached, chunks),
         ReadRows(ScanRows(chunks), ids, cached)
  PROVE  RecordsExact(rowCache', chunks)
<1> DEFINE rows    == ScanRows(chunks)
           missing == ids \ DOMAIN cached
<1>1. rowCache' = [id \in DOMAIN cached \cup missing |->
                     IF id \in missing THEN PointedAt(rows[id]).rec ELSE cached[id]]
  BY DEF ReadRows
<1>2. \A id \in missing : id \in DOMAIN rows /\ PointedAt(rows[id]) = At(chunks, rows[id])
  BY PointedAtExact
<1>3. \A id \in DOMAIN cached : id \in DOMAIN rows /\ cached[id] = At(chunks, rows[id]).rec
  BY DEF RecordsExact
<1> HIDE DEF rows, missing
<1>4. \A id \in DOMAIN rowCache' :
        id \in DOMAIN rows /\ rowCache'[id] = At(chunks, rows[id]).rec
  BY <1>1, <1>2, <1>3
<1> QED
  BY <1>4 DEF RecordsExact, rows

LEMMA ReadEInv ==
  ASSUME IInv, EInv, Read
  PROVE  EInv' /\ chunks' = chunks
<1> DEFINE snapshot == Snapshot
           rows     == ScanRows(chunks)
<1>1. chunks' = chunks /\ meta' = meta /\ nextTx' = nextTx /\ nextChunk' = nextChunk
  BY DEF Read
<1>2. IsFiles(chunks) /\ Whole(chunks)
  BY FilesTyped DEF EInv, FilesExact
<1>3. LoadExact(snapshot) /\ snapshot.cache.rows = rows
  BY <1>2, SnapshotExact, CacheIs DEF LoadExact
<1>4. runtime # None => runtime.rows = rows
  BY <1>2, RowKeysAre DEF EInv, RuntimeExact
<1>5. RecordsExact(rowCache, chunks)
  BY DEF EInv
<1> DEFINE
      Kept   == UNCHANGED <<runtime, sixbCache, sixb>>
      ByRows == \E ids \in SUBSET DOMAIN rows : ReadRows(rows, ids, rowCache) /\ Kept
      BySixb == \E ids \in SUBSET DOMAIN rows :
                  ReadRows(rows, ids, snapshot.rowCache) /\ Remember(snapshot)
<1> HIDE DEF snapshot, rows
<1>6. ByRows \/ BySixb \/ EnsureSixbCurrent(snapshot)
  <2>1. ASSUME NEW ids \in SUBSET DOMAIN rows, ReadListed(snapshot, ids)
        PROVE  ByRows \/ BySixb
    <3>1. CASE runtime # None
      BY <1>4, <2>1, <3>1 DEF ReadListed
    <3>2. CASE runtime = None
      BY <1>3, <2>1, <3>2 DEF ReadListed
    <3> QED
      BY <3>1, <3>2
  <2>2. ASSUME NEW id \in Ids, GetById(snapshot, id)
        PROVE  ByRows \/ BySixb
    <3>1. CASE runtime # None /\ id \in DOMAIN runtime.rows
      BY <1>4, <2>2, <3>1 DEF GetById
    <3>2. CASE ~(runtime # None /\ id \in DOMAIN runtime.rows)
      BY <1>3, <2>2, <3>2 DEF GetById
    <3> QED
      BY <3>1, <3>2
  <2>3. ASSUME NEW key \in Fields \X Keys, GetByLookup(snapshot, key)
        PROVE  ByRows \/ BySixb
    <3> DEFINE ids == {id \in DOMAIN snapshot.cache.rows : <<key, id>> \in snapshot.cache.lookups}
    <3>1. ids \in SUBSET DOMAIN rows /\ ReadListed(snapshot, ids)
      BY <1>3, <2>3 DEF GetByLookup
    <3> HIDE DEF ids, ByRows, BySixb
    <3> QED
      BY <2>1, <3>1
  <2>4. ReadTable(snapshot) => ByRows \/ BySixb
    <3> HIDE DEF ByRows, BySixb
    <3> QED
      BY <1>3, <2>1 DEF ReadTable
  <2>5. \/ \E id \in Ids : GetById(snapshot, id)
        \/ \E key \in Fields \X Keys : GetByLookup(snapshot, key)
        \/ ReadTable(snapshot)
        \/ EnsureSixbCurrent(snapshot)
    BY DEF Read, snapshot
  <2> HIDE DEF ByRows, BySixb
  <2> QED
    BY <2>2, <2>3, <2>4, <2>5
<1>7. CASE ByRows
  <2>1. PICK ids \in SUBSET DOMAIN rows : ReadRows(rows, ids, rowCache) /\ Kept
    BY <1>7
  <2>2. RecordsExact(rowCache', chunks)
    BY <1>5, <2>1, ReadRowsExact DEF rows
  <2> QED
    BY <1>1, <2>1, <2>2 DEF EInv
<1>8. CASE BySixb
  <2>1. PICK ids \in SUBSET DOMAIN rows :
          ReadRows(rows, ids, snapshot.rowCache) /\ Remember(snapshot)
    BY <1>8
  <2>2. RecordsExact(rowCache', chunks)
    BY <1>3, <2>1, ReadRowsExact DEF rows, LoadExact
  <2> QED
    BY <1>1, <1>3, <2>1, <2>2 DEF EInv, Remember, LoadExact
<1>9. CASE EnsureSixbCurrent(snapshot)
  BY <1>1, <1>3, <1>9 DEF EInv, EnsureSixbCurrent, Remember, LoadExact
<1> QED
  BY <1>1, <1>6, <1>7, <1>8, <1>9

LEMMA RebuildEInv ==
  ASSUME IInv, EInv, RebuildSixb \/ InitStore
  PROVE  EInv' /\ chunks' = chunks
<1>1. LoadExact(Rebuilt)
  BY FilesTyped, RebuiltExact DEF EInv, FilesExact
<1>2. /\ runtime' = Rebuilt.runtime /\ sixbCache' = Rebuilt.sixbCache
      /\ rowCache' = Rebuilt.rowCache /\ sixb' = Rebuilt.sixb
      /\ chunks' = chunks
  BY DEF RebuildSixb, InitStore, Rebuild
<1>3. CountersExact(meta', nextTx', nextChunk', chunks)
  <2>1. CASE RebuildSixb
    BY <2>1 DEF RebuildSixb, EInv
  <2>2. CASE InitStore
    <3>1. /\ nextTx' = NextTxId /\ nextChunk' = NextChunkCounter
          /\ meta' = Metadata(NextTxId, NextChunkCounter)
      BY <2>2 DEF InitStore
    <3>2. Size(chunks) <= Size(chunks)
      BY NextChunkIsSize
    <3> QED
      BY <3>1, <3>2, NextTxAbove, NextChunkIsSize DEF CountersExact, Metadata
  <2> QED
    BY <2>1, <2>2
<1> QED
  BY <1>1, <1>2, <1>3 DEF EInv, LoadExact

LEMMA RestartEInv ==
  ASSUME EInv, Restart
  PROVE  EInv' /\ chunks' = chunks
<1>1. chunks' = chunks /\ sixb' = sixb /\ meta' = meta /\ FreshHandle
  BY DEF Restart, disk
<1>2. FilesExact(chunks') /\ SixbExact(sixb') /\ (meta' # None => meta'.chunk <= Size(chunks'))
  BY <1>1 DEF EInv, CountersExact
<1> QED
  BY <1>1, <1>2, FreshHandleEInv

-----------------------------------------------------------------------------
(* Compacting.                                                             *)

(* An order of the live ids lists each of them. *)
LEMMA LiveOrderIs ==
  ASSUME IsFiles(chunks), NEW order \in LiveOrders
  PROVE  LET live == DOMAIN ScanRows(chunks)
         IN  /\ order \in [1..Len(order) -> live]
             /\ Len(order) = Cardinality(live) /\ Len(order) \in Nat
             /\ \A i, j \in 1..Len(order) : order[i] = order[j] => i = j
             /\ \A id \in live : \E j \in 1..Len(order) : order[j] = id
<1> DEFINE live == DOMAIN ScanRows(chunks)
           n    == Cardinality(live)
<1>1. DOMAIN LiveRecords(chunks) = live
  BY DEF LiveRecords
<1>2. /\ order \in [1..n -> live]
      /\ \A i, j \in 1..n : order[i] = order[j] => i = j
  BY <1>1 DEF LiveOrders
<1>3. IsFiniteSet(live) /\ n \in Nat
  BY ScanRowsType, LogAssumption, FS_Subset, FS_CardinalityType DEF IsFiles, PartialOn
<1> HIDE DEF live, n
<1>4. order \in Injection(1..n, live)
  BY <1>2 DEF Injection, IsInjective
<1>5. Cardinality(1..n) = Cardinality(live)
  BY <1>3, FS_Interval DEF n
<1>6. order \in Surjection(1..n, live)
  BY <1>3, <1>4, <1>5, FS_Injection
<1>7. \A id \in live : \E j \in 1..n : order[j] = id
  BY <1>6 DEF Surjection
<1>8. Len(order) = n
  BY <1>2, <1>3, SeqDef, LenProperties
<1> QED
  BY <1>2, <1>3, <1>7, <1>8 DEF live, n

(* A scan finds the same records in the files after as in those before, and *)
(* every line is that of a live row.                                       *)
SameRecords(files, after) ==
  /\ DOMAIN ScanRows(after) = DOMAIN ScanRows(files)
  /\ \A id \in DOMAIN ScanRows(files) :
       At(after, ScanRows(after)[id]).rec = At(files, ScanRows(files)[id]).rec

AllLive(files) ==
  \A p \in Positions(files) :
    LET id == At(files, p).id
    IN  id \in DOMAIN ScanRows(files) /\ ScanRows(files)[id] = p

(* compact_table: the chunk it writes holds the same rows, with tx ids that *)
(* follow those of the files.                                              *)
LEMMA CompactedWhole ==
  ASSUME IsFiles(chunks), Whole(chunks),
         DiscoveredTx(chunks) + Cardinality(DOMAIN LiveRecords(chunks)) <= MaxTx + 1,
         NEW order \in LiveOrders,
         NEW after, after = [c \in {0} |-> Compacted(order)]
  PROVE  /\ IsFiles(after) /\ Whole(after) /\ TxOrdered(after)
         /\ Size(after) = 1 /\ Dense(after) /\ Prefaced(after)
         /\ TxBelow(after, DiscoveredTx(chunks) + Len(order))
         /\ SameRecords(chunks, after)
         /\ AllLive(after)
<1> DEFINE live    == DOMAIN ScanRows(chunks)
           rec(id) == At(chunks, ScanRows(chunks)[id]).rec
           records == LiveRecords(chunks)
           tx      == DiscoveredTx(chunks)
           puts    == [j \in 1..Len(order) |->
                         [op |-> "put", id |-> order[j], rec |-> records[order[j]]]]
           ptr     == [j \in DOMAIN puts |-> <<0, j>>]
<1>1. /\ order \in [1..Len(order) -> live]
      /\ Len(order) = Cardinality(live) /\ Len(order) \in Nat
      /\ \A i, j \in 1..Len(order) : order[i] = order[j] => i = j
      /\ \A id \in live : \E j \in 1..Len(order) : order[j] = id
  BY LiveOrderIs
<1>2. DOMAIN records = live /\ \A id \in live : records[id] = rec(id)
  BY DEF LiveRecords
<1>3. \A id \in live : id \in Ids /\ rec(id) \in Record
  BY ScanRowsType, LivePositionType DEF IsFiles, PartialOn
<1>4. tx \in Nat /\ tx + Len(order) <= MaxTx + 1
  <2>1. tx \in Nat
    BY DiscoveredTxType, StoreAssumption DEF IsFiles
  <2>2. tx + Cardinality(live) <= MaxTx + 1
    BY <1>2
  <2> QED
    BY <1>1, <2>1, <2>2
<1>5. after = [c \in {0} |-> [head |-> "whole", lines |-> EncodeBatch(puts, tx)]]
  BY DEF Compacted
<1> HIDE DEF live, rec, records, tx
<1>6. \A j \in 1..Len(order) :
        /\ order[j] \in live
        /\ puts[j].op = "put" /\ puts[j].id = order[j] /\ puts[j].rec = rec(order[j])
  BY <1>1, <1>2
<1>7. /\ puts \in Seq(Operation) /\ Len(puts) = Len(order)
      /\ DOMAIN puts = 1..Len(order)
  <2>1. ASSUME NEW j \in 1..Len(order) PROVE puts[j] \in Operation
    <3>1. order[j] \in Ids /\ records[order[j]] \in Record
      BY <1>1, <1>2, <1>3
    <3> QED
      BY <3>1 DEF Operation
  <2>2. puts \in [1..Len(order) -> Operation]
    BY <2>1
  <2> HIDE DEF puts
  <2> QED
    BY <1>1, <2>2, SeqDef, LenProperties
<1> HIDE DEF puts
<1>8. DistinctIds(puts)
  BY <1>1, <1>6, <1>7 DEF DistinctIds
<1>9. IsFiles(after) /\ Whole(after) /\ Appended(NoRows, after, puts, tx, ptr)
  BY <1>4, <1>5, <1>7, AloneAppended
<1> HIDE DEF ptr
<1>10. /\ IsFiles(NoRows) /\ Whole(NoRows) /\ TxOrdered(NoRows) /\ UniqueRows(NoRows)
       /\ Positions(NoRows) = {}
       /\ DOMAIN ScanRows(NoRows) = {} /\ CacheOf(NoRows).lookups = {}
  BY NoRowsExact DEF FilesExact
<1>11. TxOrdered(after) /\ TxBelow(after, tx + Len(order))
  <2>1. TxBelow(NoRows, tx)
    BY <1>10 DEF TxBelow
  <2> QED
    BY <1>4, <1>7, <1>9, <1>10, <2>1, TxAppended
<1>12. RowsAppended(NoRows, after, puts, ptr)
  BY <1>7, <1>8, <1>9, <1>10, AppendedRows
<1>13. /\ DOMAIN ScanRows(after) = PutIds(puts)
       /\ \A j \in DOMAIN puts : ScanRows(after)[order[j]] = ptr[j] /\ At(after, ptr[j]).rec = rec(order[j])
  BY <1>6, <1>7, <1>10, <1>12 DEF RowsAppended
<1>14. PutIds(puts) = live
  BY <1>1, <1>6, <1>7 DEF PutIds
<1>15. SameRecords(chunks, after)
  <2>1. ASSUME NEW id \in live PROVE At(after, ScanRows(after)[id]).rec = rec(id)
    BY <1>1, <1>7, <1>13
  <2> QED
    BY <1>13, <1>14, <2>1 DEF SameRecords, live, rec
<1>16. AllLive(after)
  <2> SUFFICES ASSUME NEW p \in Positions(after)
               PROVE  At(after, p).id \in DOMAIN ScanRows(after)
                      /\ ScanRows(after)[At(after, p).id] = p
    BY DEF AllLive
  <2>1. PICK j \in DOMAIN puts : p = ptr[j]
    BY <1>9, <1>10 DEF Appended
  <2>2. At(after, p) = EncodeLine(puts[j], tx + (j - 1))
    BY <1>9, <2>1 DEF Appended
  <2>3. At(after, p).id = order[j] /\ order[j] \in live
    BY <1>6, <1>7, <2>2 DEF EncodeLine
  <2> QED
    BY <1>13, <1>14, <2>1, <2>3
<1>17. Size(after) = 1 /\ Dense(after)
  <2>1. DOMAIN after = 0..(1 - 1)
    BY <1>5
  <2> QED
    BY <2>1, IntervalSize
<1>18. Prefaced(after)
  BY <1>5 DEF Prefaced
<1> QED
  BY <1>9, <1>11, <1>15, <1>16, <1>17, <1>18 DEF tx

(* If the files use no unique key twice, neither does it. *)
LEMMA CompactedExact ==
  ASSUME IsFiles(chunks), Whole(chunks), UniqueRows(chunks),
         DiscoveredTx(chunks) + Cardinality(DOMAIN LiveRecords(chunks)) <= MaxTx + 1,
         NEW order \in LiveOrders,
         NEW after, after = [c \in {0} |-> Compacted(order)]
  PROVE  /\ IsFiles(after) /\ FilesExact(after)
         /\ Size(after) = 1
         /\ TxBelow(after, DiscoveredTx(chunks) + Len(order))
         /\ SameRecords(chunks, after)
         /\ AllLive(after)
<1>1. /\ IsFiles(after) /\ Whole(after) /\ TxOrdered(after)
      /\ Size(after) = 1 /\ Dense(after) /\ Prefaced(after)
      /\ TxBelow(after, DiscoveredTx(chunks) + Len(order))
      /\ SameRecords(chunks, after) /\ AllLive(after)
  BY CompactedWhole
<1>2. UniqueRows(after)
  BY <1>1 DEF UniqueRows, SameRecords
<1> QED
  BY <1>1, <1>2 DEF FilesExact

LEMMA CompactEInv ==
  ASSUME IInv, EInv, Compact
  PROVE  EInv' /\ SameRecords(chunks, chunks') /\ AllLive(chunks') /\ IsFiles(chunks')
<1>1. PICK order \in LiveOrders :
        LET after == [c \in {0} |-> Compacted(order)]
            cache == CacheOf(after)
            tx    == DiscoveredTx(chunks) + Len(order)
        IN  /\ CanCompact
            /\ chunks' = after
            /\ runtime' = FromCache(cache)
            /\ sixbCache' = cache
            /\ rowCache' = LiveRecords(after)
            /\ sixb' = [source |-> SourceOf(after), cache |-> cache]
            /\ nextTx' = tx
            /\ nextChunk' = 1
            /\ meta' = Metadata(tx, 1)
  BY DEF Compact
<1> DEFINE after == [c \in {0} |-> Compacted(order)]
           cache == CacheOf(after)
           tx    == DiscoveredTx(chunks) + Len(order)
<1>2. /\ CanCompact
      /\ chunks' = after
      /\ runtime' = FromCache(cache)
      /\ sixbCache' = cache
      /\ rowCache' = LiveRecords(after)
      /\ sixb' = [source |-> SourceOf(after), cache |-> cache]
      /\ nextTx' = tx
      /\ nextChunk' = 1
      /\ meta' = Metadata(tx, 1)
  BY <1>1
<1>3. /\ IsFiles(after) /\ FilesExact(after) /\ Size(after) = 1
      /\ TxBelow(after, tx)
      /\ SameRecords(chunks, after) /\ AllLive(after)
  <2>1. IsFiles(chunks) /\ Whole(chunks) /\ UniqueRows(chunks)
    BY FilesTyped DEF EInv, FilesExact
  <2>2. DiscoveredTx(chunks) + Cardinality(DOMAIN LiveRecords(chunks)) <= MaxTx + 1
    BY <1>2 DEF CanCompact
  <2> QED
    BY <1>2, <2>1, <2>2, CompactedExact
<1> HIDE DEF after, tx
<1>4. SixbExact([source |-> SourceOf(after), cache |-> CacheOf(after)])
  BY <1>3, SixbBuilt DEF FilesExact
<1>5. RecordsExact(LiveRecords(after), after)
  BY LiveRecordsExact
<1>6. CountersExact(meta', nextTx', nextChunk', after)
  <2>1. meta'.chunk = 1 /\ 1 <= Size(after)
    BY <1>2, <1>3 DEF Metadata
  <2> QED
    BY <1>2, <1>3, <2>1 DEF CountersExact
<1>7. EInv'
  BY <1>2, <1>3, <1>4, <1>5, <1>6 DEF EInv, RuntimeExact, CacheExact
<1> QED
  BY <1>2, <1>3, <1>7

-----------------------------------------------------------------------------
(* Every step.                                                             *)

(* A write refuses the batch, or has checked it. *)
LEMMA ValidCases ==
  ASSUME Write
  PROVE  \/ RejectBatch(Taken)
         \/ \E n \in Nat : RefuseTarget(Taken, Target(n))
         \/ \E b \in Batch : /\ Valid(b)
                             /\ \/ AppendBatch(Taken, b, Target(Len(b)))
                                \/ StopInAppend(Taken, b, Target(Len(b)))
<1>1. ASSUME NEW b \in Batch
      PROVE  Len(b) \in Nat
  BY BatchIsSeq, LenProperties
<1> DEFINE accepted == Accepted(Taken)
           valid    == {b \in Batch : \E mode \in Modes : b \in accepted[mode]}
<1>2. \/ RejectBatch(Taken)
      \/ \E n \in {Len(b) : b \in valid} :
           \/ RefuseTarget(Taken, Target(n))
           \/ \E b \in valid :
                /\ Len(b) = n
                /\ AppendBatch(Taken, b, Target(n)) \/ StopInAppend(Taken, b, Target(n))
  BY DEF Write
<1>3. \A b \in valid : b \in Batch /\ Valid(b)
  BY DEF Accepted, Accepts, Valid
<1> HIDE DEF valid
<1>4. ASSUME NEW n \in {Len(b) : b \in valid}, RefuseTarget(Taken, Target(n))
      PROVE  \E m \in Nat : RefuseTarget(Taken, Target(m))
  BY <1>1, <1>3, <1>4
<1>5. ASSUME NEW n \in {Len(b) : b \in valid}, NEW b \in valid, Len(b) = n,
             AppendBatch(Taken, b, Target(n)) \/ StopInAppend(Taken, b, Target(n))
      PROVE  /\ b \in Batch /\ Valid(b)
             /\ \/ AppendBatch(Taken, b, Target(Len(b)))
                \/ StopInAppend(Taken, b, Target(Len(b)))
  BY <1>3, <1>5
<1> QED
  BY <1>2, <1>4, <1>5

(* What a step does to the lines: it puts a batch behind them, or keeps the *)
(* rows, each in a line of its own.                                        *)
BatchStep ==
  \E b \in Seq(Operation), tx \in Nat : \E ptr :
    /\ Len(b) <= MaxBatch /\ DistinctIds(b)
    /\ Appended(chunks, chunks', b, tx, ptr)

KeepStep == SameRecords(chunks, chunks') /\ AllLive(chunks')

LEMMA StepExact ==
  ASSUME WholeStops, IInv, EInv, Next
  PROVE  EInv' /\ (chunks' = chunks \/ BatchStep \/ KeepStep)
<1>1. CASE Write
  <2>1. CASE RejectBatch(Taken) \/ \E n \in Nat : RefuseTarget(Taken, Target(n))
    BY <2>1, RefusedEInv
  <2>2. ASSUME NEW b \in Batch
        PROVE  b \in Seq(Operation) /\ Len(b) \in Nat /\ Len(b) <= MaxBatch
    <3>1. PICK n \in 1..MaxBatch : b \in [1..n -> Operation]
      BY DEF Batch
    <3>2. b \in Seq(Operation)
      BY BatchIsSeq
    <3> QED
      BY <3>1, <3>2, LenProperties, StoreAssumption
  <2>3. ASSUME NEW b \in Batch, Valid(b), AppendBatch(Taken, b, Target(Len(b)))
        PROVE  EInv' /\ BatchStep
    <3>1. EInv' /\ \E ptr : Appended(chunks, chunks', b, Taken.tx, ptr)
      BY <2>3, AppendBatchEInv
    <3> QED
      BY <2>2, <2>3, <3>1, TakenType DEF BatchStep, Valid
  <2>4. ASSUME NEW b \in Batch, Valid(b), StopInAppend(Taken, b, Target(Len(b)))
        PROVE  EInv' /\ BatchStep
    <3>1. EInv' /\ \E k \in 0..Len(b) : \E ptr :
                     Appended(chunks, chunks', SubSeq(b, 1, k), Taken.tx, ptr)
      BY <2>4, StopInAppendEInv
    <3>2. PICK k \in 0..Len(b) : \E ptr : Appended(chunks, chunks', SubSeq(b, 1, k), Taken.tx, ptr)
      BY <3>1
    <3>3. PICK ptr : Appended(chunks, chunks', SubSeq(b, 1, k), Taken.tx, ptr)
      BY <3>2
    <3> DEFINE s == SubSeq(b, 1, k)
    <3>4. s \in Seq(Operation) /\ DistinctIds(s) /\ Len(s) = k
      BY <2>2, <2>4, PrefixValid DEF Valid
    <3> HIDE DEF s
    <3>5. Len(s) <= MaxBatch
      BY <2>2, <3>4, StoreAssumption
    <3>6. Appended(chunks, chunks', s, Taken.tx, ptr) /\ Taken.tx \in Nat
      BY <3>3, TakenType DEF s
    <3> QED
      BY <3>1, <3>4, <3>5, <3>6 DEF BatchStep
  <2> QED
    BY <1>1, <2>1, <2>3, <2>4, ValidCases
<1>2. CASE Read
  BY <1>2, ReadEInv
<1>3. CASE RebuildSixb \/ InitStore
  BY <1>3, RebuildEInv
<1>4. CASE Compact
  BY <1>4, CompactEInv DEF KeepStep
<1>5. CASE StopInRemoval \/ StopBeforeMetadata
  BY <1>5 DEF WholeStops, StopInRemoval, StopBeforeMetadata
<1>6. CASE Restart
  BY <1>6, RestartEInv
<1> QED
  BY <1>1, <1>2, <1>3, <1>4, <1>5, <1>6 DEF Next

LEMMA NextEInv ==
  ASSUME WholeStops
  PROVE  IInv /\ EInv /\ [Next]_vars => EInv'
<1> SUFFICES ASSUME IInv, EInv, [Next]_vars PROVE EInv'
  OBVIOUS
<1>1. CASE Next
  BY <1>1, StepExact
<1>2. CASE UNCHANGED vars
  BY <1>2 DEF vars, disk, memory, EInv, CountersExact
<1> QED
  BY <1>1, <1>2

LEMMA ExactInvariance ==
  ASSUME WholeStops
  PROVE  Spec => [](IInv /\ EInv)
<1>1. Init => IInv /\ EInv
  BY InitIInv, InitEInv
<1>2. IInv /\ EInv /\ [Next]_vars => (IInv /\ EInv)'
  BY NextIInv, NextEInv
<1> QED
  BY <1>1, <1>2, PTL DEF Spec

-----------------------------------------------------------------------------
(* What the invariant says.                                                *)

LEMMA EInvProjection == EInv => ProjectionExact
BY DEF EInv, ProjectionExact, RuntimeExact, CacheExact

LEMMA MemoryIs ==
  ASSUME IsFiles(chunks), Whole(chunks),
         RuntimeExact(runtime, chunks), CacheExact(sixbCache, chunks),
         RecordsExact(rowCache, chunks)
  PROVE  MemoryCoherent
<1>1. runtime # None /\ sixbCache # None => ToCache(runtime) = sixbCache
  BY ToFromCache DEF RuntimeExact, CacheExact
<1> DEFINE rows == ScanRows(chunks)
<1>2. ASSUME runtime # None, NEW id \in DOMAIN rowCache
      PROVE  id \in DOMAIN runtime.rows /\ runtime.rowKeys[id] = LookupKeys(rowCache[id])
  <2>1. runtime = FromCache(CacheOf(chunks))
    BY <1>2 DEF RuntimeExact
  <2>2. /\ runtime.rows = rows
        /\ runtime.rowKeys = [i \in DOMAIN rows |-> LookupKeys(At(chunks, rows[i]).rec)]
    BY <2>1, RowKeysAre
  <2>3. id \in DOMAIN rows /\ rowCache[id] = At(chunks, rows[id]).rec
    BY <1>2 DEF RecordsExact
  <2> HIDE DEF rows
  <2> QED
    BY <2>2, <2>3
<1> QED
  BY <1>1, <1>2 DEF MemoryCoherent

LEMMA EInvMemory == IInv /\ EInv => MemoryCoherent
BY FilesTyped, MemoryIs DEF EInv, FilesExact

LEMMA EInvTxOrder == IInv /\ EInv => TxOrder
<1>1. IInv /\ EInv => DataLines(chunks) = Positions(chunks)
  BY FilesTyped, WholeLines DEF EInv, FilesExact
<1> QED
  BY <1>1 DEF EInv, FilesExact, TxOrdered, TxOrder

LEMMA EInvCanRead == IInv /\ EInv => FreshHandleCanRead
<1> SUFFICES ASSUME IInv, EInv PROVE FreshHandleCanRead
  OBVIOUS
<1>1. IsFiles(chunks) /\ Whole(chunks) /\ UniqueRows(chunks)
  BY FilesTyped DEF EInv, FilesExact
<1>2. Decodable(chunks) /\ UniqueLookups(CacheOf(chunks).lookups)
  BY <1>1, WholeLines, UniqueIs
<1> QED
  BY <1>2 DEF FreshHandleCanRead, CanRebuild

(* The row of an id, or none. *)
LEMMA LiveTableIs ==
  ASSUME NEW files, IsFiles(files)
  PROVE  /\ \A id \in DOMAIN ScanRows(files) :
              /\ id \in Ids
              /\ LiveTable(files)[id] = At(files, ScanRows(files)[id]).rec
              /\ LiveTable(files)[id] \in Record /\ LiveTable(files)[id] # NoRecord
         /\ \A id \in Ids \ DOMAIN ScanRows(files) : LiveTable(files)[id] = NoRecord
         /\ LiveTable(files) \in [Ids -> Record \cup {NoRecord}]
<1> DEFINE rows == ScanRows(files)
<1>1. \A id \in DOMAIN rows : id \in Ids /\ At(files, rows[id]).rec \in Record
  BY ScanRowsType, LivePositionType DEF IsFiles, PartialOn
<1>2. LiveTable(files) = [id \in Ids |-> IF id \in DOMAIN rows THEN At(files, rows[id]).rec
                                                              ELSE NoRecord]
  BY DEF LiveTable
<1>3. NoRecord \notin Record
  BY LogAssumption DEF Record
<1> HIDE DEF rows
<1>4. \A id \in DOMAIN rows : /\ LiveTable(files)[id] = At(files, rows[id]).rec
                              /\ LiveTable(files)[id] \in Record
                              /\ LiveTable(files)[id] # NoRecord
  BY <1>1, <1>2, <1>3
<1>5. \A id \in Ids \ DOMAIN rows : LiveTable(files)[id] = NoRecord
  BY <1>2
<1>6. \A id \in Ids : LiveTable(files)[id] \in Record \cup {NoRecord}
  BY <1>4, <1>5
<1>7. LiveTable(files) \in [Ids -> Record \cup {NoRecord}]
  BY <1>2, <1>6
<1> QED
  BY <1>1, <1>4, <1>5, <1>7 DEF rows

LEMMA EInvInsert == IInv /\ EInv => InsertNeverReplaces
<1> SUFFICES ASSUME IInv, EInv,
                    NEW b \in Accepted(Taken)["InsertOnly"], NEW id \in Ids, id \in Touched(b)
             PROVE  LiveTable(chunks)[id] = NoRecord
  BY DEF InsertNeverReplaces
<1>1. IsFiles(chunks) /\ Whole(chunks)
  BY FilesTyped DEF EInv, FilesExact
<1>2. Touched(b) \cap DOMAIN Taken.proj.rows = {}
  BY DEF Accepted, Accepts, Modes
<1>3. Taken.proj.rows = ScanRows(chunks)
  BY <1>1, TakenExact, RowKeysAre
<1> QED
  BY <1>1, <1>2, <1>3, LiveTableIs

(* A handle that has just been opened writes behind all lines, with tx ids  *)
(* above all others, unless a new chunk may have no preamble.              *)
LEMMA EInvCanWrite ==
  ASSUME Faults \subseteq {"short"}, IInv, EInv
  PROVE  FreshHandleCanWrite
<1> DEFINE next    == RecoveredChunk
           target  == TargetFrom(next, NoRows, 1)
           current == next - 1
           len     == IF current \in DOMAIN NoRows THEN NoRows[current]
                                                   ELSE Len(chunks[current].lines)
           fits    == (next > 0 /\ current \in DOMAIN chunks) /\ len + 1 <= ChunkLimit
<1>1. IsFiles(chunks) /\ Whole(chunks) /\ Prefaced(chunks)
  BY FilesTyped DEF EInv, FilesExact
<1>2. next \in Nat /\ DOMAIN chunks = 0..(next - 1)
  BY NextChunkIsSize DEF EInv, FilesExact, Dense
<1>3. /\ target.chunk = IF fits THEN next - 1 ELSE next
      /\ target.isNew = ~fits
  BY DEF TargetFrom
<1>4. \A c \in DOMAIN chunks : chunks[c].head # "none"
  BY <1>1 DEF Prefaced
<1>5. \A p \in DataLines(chunks) : At(chunks, p).tx < RecoveredTx
  BY <1>1, WholeLines, RecoveredTxAbove DEF IInv, TxBelow
<1>6. /\ \A c \in DOMAIN chunks : c <= target.chunk
      /\ target.isNew => target.chunk \notin DOMAIN chunks
  <2> HIDE DEF next, target, len
  <2>1. CASE fits
    <3>1. target.chunk = next - 1
      BY <1>3, <2>1
    <3>2. ~target.isNew
      <4> HIDE DEF fits
      <4> QED
        BY <1>3, <2>1, Zenon
    <3> QED
      BY <1>2, <3>1, <3>2
  <2>2. CASE ~fits
    BY <1>2, <1>3, <2>2
  <2> QED
    BY <2>1, <2>2
<1> QED
  BY <1>4, <1>5, <1>6 DEF FreshHandleCanWrite

(* Reads answer with the rows of the log, and count the rows of a key.      *)
LEMMA EInvAnswers == IInv /\ EInv => AnswersExact
<1> SUFFICES ASSUME IInv, EInv PROVE AnswersExact
  OBVIOUS
<1> DEFINE rows    == Snapshot.cache.rows
           cached  == Snapshot.rowCache
           scanned == ScanRows(chunks)
           live    == LiveTable(chunks)
           lookups == CacheOf(chunks).lookups
           answer(id) == IF id \in DOMAIN rows
                           THEN IF id \in DOMAIN cached THEN cached[id] ELSE PointedAt(rows[id]).rec
                           ELSE NoRecord
<1>1. IsFiles(chunks) /\ Whole(chunks)
  BY FilesTyped DEF EInv, FilesExact
<1>2. /\ rows = scanned /\ Snapshot.cache.lookups = lookups
      /\ \A id \in DOMAIN cached : id \in DOMAIN scanned /\ cached[id] = At(chunks, scanned[id]).rec
  BY <1>1, SnapshotExact, CacheIs DEF LoadExact, RecordsExact
<1>3. \A id \in DOMAIN scanned : PointedAt(scanned[id]) = At(chunks, scanned[id])
  BY PointedAtExact
<1>4. /\ \A id \in DOMAIN scanned : /\ id \in Ids
                                    /\ live[id] = At(chunks, scanned[id]).rec
                                    /\ live[id] # NoRecord
      /\ \A id \in Ids \ DOMAIN scanned : live[id] = NoRecord
  BY <1>1, LiveTableIs
<1>5. live = [id \in Ids |-> live[id]]
  BY DEF LiveTable
<1>6. /\ \A e \in lookups : e = <<e[1], e[2]>>
      /\ \A k, id : <<k, id>> \in lookups
                      <=> id \in DOMAIN scanned /\ k \in LookupKeys(At(chunks, scanned[id]).rec)
  BY <1>1, LookupsAre
<1> HIDE DEF rows, cached, scanned, live, lookups
<1>7. [id \in Ids |-> answer(id)] = live
  <2>1. \A id \in Ids : answer(id) = live[id]
    BY <1>2, <1>3, <1>4
  <2> QED
    BY <1>5, <2>1
<1>8. ASSUME NEW key \in Fields \X Keys
      PROVE  Cardinality({e \in lookups : e[1] = key})
               = Cardinality({id \in Ids : live[id] # NoRecord /\ key \in LookupKeys(live[id])})
  <2> DEFINE S == {id \in Ids : live[id] # NoRecord /\ key \in LookupKeys(live[id])}
             T == {e \in lookups : e[1] = key}
             f == [id \in S |-> <<key, id>>]
  <2>1. \A id : id \in S <=> <<key, id>> \in lookups
    BY <1>4, <1>6
  <2>2. \A id \in S : f[id] = <<key, id>> /\ f[id] \in T
    BY <2>1
  <2>3. \A e \in T : e[2] \in S /\ f[e[2]] = e
    BY <1>6, <2>1
  <2>4. IsFiniteSet(S)
    BY LogAssumption, FS_Subset
  <2>5. f \in [S -> T]
    BY <2>2
  <2> HIDE DEF S, T
  <2>6. \A i, j \in S : f[i] = f[j] => i = j
    OBVIOUS
  <2> HIDE DEF f
  <2>7. f \in Bijection(S, T)
    <3>1. DOMAIN f = S
      BY <2>5
    <3> QED
      BY <2>3, <2>5, <2>6, <3>1 DEF Bijection, Injection, Surjection, IsInjective
  <2>8. ExistsBijection(S, T)
    BY <2>7 DEF ExistsBijection
  <2>9. Cardinality(T) = Cardinality(S)
    BY <2>4, <2>8, FS_Bijection
  <2> QED
    BY <2>9 DEF S, T
<1> QED
  BY <1>2, <1>7, <1>8 DEF AnswersExact, rows, cached, live, lookups

-----------------------------------------------------------------------------
(* What a step does to the rows.                                           *)

(* What this step has written for the row of id. *)
Written(files, after, id) ==
  {At(after, p).rec :
     p \in {q \in Positions(after) : /\ At(after, q).id = id
                                     /\ q \in Positions(files) => At(files, q) # At(after, q)}}

(* A batch changes the rows it names, each to what it says. *)
LEMMA BatchRows ==
  ASSUME NEW files, IsFiles(files), Whole(files), NEW after, IsFiles(after), Whole(after),
         NEW b \in Seq(Operation), DistinctIds(b), NEW tx, NEW ptr,
         Appended(files, after, b, tx, ptr)
  PROVE  /\ \A j \in DOMAIN b : LiveTable(after)[b[j].id] = b[j].rec
         /\ \A id \in Ids \ Touched(b) : LiveTable(after)[id] = LiveTable(files)[id]
<1> DEFINE before == ScanRows(files)
           rows   == ScanRows(after)
<1>1. RowsAppended(files, after, b, ptr)
  BY AppendedRows
<1>2. /\ DOMAIN rows = (DOMAIN before \ Touched(b)) \cup PutIds(b)
      /\ \A id \in DOMAIN before \ Touched(b) :
           At(after, rows[id]).rec = At(files, before[id]).rec
      /\ \A j \in DOMAIN b : b[j].op = "put" => At(after, rows[b[j].id]).rec = b[j].rec
  BY <1>1 DEF RowsAppended
<1>3. /\ \A id \in DOMAIN rows : LiveTable(after)[id] = At(after, rows[id]).rec
      /\ \A id \in Ids \ DOMAIN rows : LiveTable(after)[id] = NoRecord
  BY LiveTableIs
<1>4. /\ \A id \in DOMAIN before : LiveTable(files)[id] = At(files, before[id]).rec
      /\ \A id \in Ids \ DOMAIN before : LiveTable(files)[id] = NoRecord
  BY LiveTableIs
<1> HIDE DEF before, rows
<1>5. ASSUME NEW j \in DOMAIN b PROVE LiveTable(after)[b[j].id] = b[j].rec
  <2>1. b[j] \in Operation
    BY ElementOfSeq, LenProperties
  <2>2. CASE b[j].op = "put"
    BY <1>2, <1>3, <2>2 DEF PutIds
  <2>3. CASE b[j].op # "put"
    <3>1. b[j].rec = NoRecord /\ b[j].id \in Ids
      BY <2>1, <2>3 DEF Operation
    <3>2. b[j].id \notin PutIds(b)
      BY <2>3 DEF PutIds, DistinctIds
    <3>3. b[j].id \in Touched(b)
      BY DEF Touched
    <3> QED
      BY <1>2, <1>3, <3>1, <3>2, <3>3
  <2> QED
    BY <2>2, <2>3
<1>6. ASSUME NEW id \in Ids \ Touched(b) PROVE LiveTable(after)[id] = LiveTable(files)[id]
  <2>1. id \notin PutIds(b)
    BY PutsAreTouched
  <2> QED
    BY <1>2, <1>3, <1>4, <2>1
<1> QED
  BY <1>5, <1>6

LEMMA BatchWrites ==
  ASSUME NEW files, IsFiles(files), NEW after, IsFiles(after),
         NEW b \in Seq(Operation), NEW tx, NEW ptr,
         Appended(files, after, b, tx, ptr), NEW id
  PROVE  Written(files, after, id) = {b[j].rec : j \in {i \in DOMAIN b : b[i].id = id}}
<1>1. \A p \in Positions(files) : At(after, p) = At(files, p)
  BY DEF Appended
<1>2. \A p \in Positions(after) : p \in Positions(files) \/ \E j \in DOMAIN b : p = ptr[j]
  BY DEF Appended
<1>3. ASSUME NEW j \in DOMAIN b
      PROVE  /\ ptr[j] \in Positions(after) /\ ptr[j] \notin Positions(files)
             /\ At(after, ptr[j]).id = b[j].id /\ At(after, ptr[j]).rec = b[j].rec
  <2>1. ptr[j] \in Positions(after) /\ At(after, ptr[j]) = EncodeLine(b[j], tx + (j - 1))
    BY DEF Appended
  <2>2. ptr[j] \in Pointer
    BY <2>1, PositionType DEF IsFiles
  <2>3. ptr[j] \notin Positions(files)
    BY <2>2, BeforeOrder DEF Appended
  <2> QED
    BY <2>1, <2>3 DEF EncodeLine
<1> DEFINE new  == {q \in Positions(after) : /\ At(after, q).id = id
                                             /\ q \in Positions(files) => At(files, q) # At(after, q)}
           mine == {i \in DOMAIN b : b[i].id = id}
<1>4. \A q \in new : \E j \in mine : q = ptr[j]
  BY <1>1, <1>2, <1>3
<1>5. \A j \in mine : ptr[j] \in new
  BY <1>3
<1>6. Written(files, after, id) = {At(after, p).rec : p \in new}
  BY DEF Written
<1>7. \A j \in mine : At(after, ptr[j]).rec = b[j].rec
  BY <1>3
<1> HIDE DEF new, mine
<1>8. {At(after, p).rec : p \in new} = {b[j].rec : j \in mine}
  BY <1>4, <1>5, <1>7
<1> QED
  BY <1>6, <1>8 DEF mine

(* Two tables that keep the records of the other hold the same rows. *)
LEMMA SameRows ==
  ASSUME NEW files, IsFiles(files), NEW after, IsFiles(after), SameRecords(files, after)
  PROVE  LiveTable(after) = LiveTable(files)
<1>1. \A id \in Ids : LiveTable(after)[id] = LiveTable(files)[id]
  <2> SUFFICES ASSUME NEW id \in Ids PROVE LiveTable(after)[id] = LiveTable(files)[id]
    OBVIOUS
  <2>1. CASE id \in DOMAIN ScanRows(files)
    BY <2>1, LiveTableIs DEF SameRecords
  <2>2. CASE id \notin DOMAIN ScanRows(files)
    BY <2>2, LiveTableIs DEF SameRecords
  <2> QED
    BY <2>1, <2>2
<1>2. /\ LiveTable(after) \in [Ids -> Record \cup {NoRecord}]
      /\ LiveTable(files) \in [Ids -> Record \cup {NoRecord}]
  BY LiveTableIs
<1> QED
  BY <1>1, <1>2

LEMMA StepWrites ==
  ASSUME WholeStops, IInv, EInv, IInv', EInv', Next, chunks' # chunks, NEW id \in Ids
  PROVE  LiveTable(chunks')[id] \in
           IF Written(chunks, chunks', id) = {} THEN {LiveTable(chunks)[id]}
                                                ELSE Written(chunks, chunks', id)
<1> DEFINE after   == chunks'
           written == Written(chunks, after, id)
<1>1. /\ IsFiles(chunks) /\ Whole(chunks)
      /\ IsFiles(after) /\ Whole(after)
  BY DEF IInv, EInv, FilesExact, IsFiles
<1>2. BatchStep \/ KeepStep
  BY StepExact
<1>3. CASE BatchStep
  <2>0. PICK b \in Seq(Operation), tx \in Nat :
          \E ptr : Len(b) <= MaxBatch /\ DistinctIds(b) /\ Appended(chunks, after, b, tx, ptr)
    BY <1>3 DEF BatchStep
  <2>1. PICK ptr : Len(b) <= MaxBatch /\ DistinctIds(b) /\ Appended(chunks, after, b, tx, ptr)
    BY <2>0
  <2>2. written = {b[j].rec : j \in {i \in DOMAIN b : b[i].id = id}}
    BY <1>1, <2>1, BatchWrites
  <2>3. /\ \A j \in DOMAIN b : LiveTable(after)[b[j].id] = b[j].rec
        /\ id \notin Touched(b) => LiveTable(after)[id] = LiveTable(chunks)[id]
    BY <1>1, <2>1, BatchRows
  <2> HIDE DEF after, written
  <2>4. CASE id \in Touched(b)
    <3>1. PICK j \in DOMAIN b : b[j].id = id
      BY <2>4 DEF Touched
    <3>2. LiveTable(after)[id] \in written
      BY <2>2, <2>3, <3>1
    <3> QED
      BY <3>2 DEF after, written
  <2>5. CASE id \notin Touched(b)
    <3>1. written = {}
      BY <2>2, <2>5 DEF Touched
    <3> QED
      BY <2>3, <2>5, <3>1 DEF after, written
  <2> QED
    BY <2>4, <2>5
<1>4. CASE KeepStep
  <2>1. LiveTable(after) = LiveTable(chunks) /\ AllLive(after)
    BY <1>1, <1>4, SameRows DEF KeepStep
  <2>2. CASE written = {}
    BY <2>1, <2>2
  <2>3. CASE written # {}
    <3>1. PICK p \in Positions(after) : At(after, p).id = id /\ At(after, p).rec \in written
      BY <2>3 DEF Written
    <3>2. id \in DOMAIN ScanRows(after) /\ ScanRows(after)[id] = p
      BY <2>1, <3>1 DEF AllLive
    <3>3. LiveTable(after)[id] = At(after, p).rec
      BY <1>1, <3>2, LiveTableIs
    <3> QED
      BY <2>3, <3>1, <3>3
  <2> QED
    BY <2>2, <2>3
<1> QED
  BY <1>2, <1>3, <1>4

-----------------------------------------------------------------------------
(* The table.                                                              *)

(* A batch names no more rows than it has operations. *)
LEMMA TouchedSize ==
  ASSUME NEW b \in Seq(Operation)
  PROVE  IsFiniteSet(Touched(b)) /\ Cardinality(Touched(b)) <= Len(b)
<1> DEFINE f == [j \in DOMAIN b |-> b[j].id]
<1>1. DOMAIN b = 1..Len(b) /\ Len(b) \in Nat
  BY LenProperties
<1>2. IsFiniteSet(DOMAIN b) /\ Cardinality(DOMAIN b) = Len(b)
  BY <1>1, FS_Interval
<1>3. f \in Surjection(DOMAIN b, Touched(b))
  BY DEF Surjection, Touched
<1> HIDE DEF f
<1> QED
  BY <1>2, <1>3, FS_Surjection

LEMMA UniqueTable ==
  ASSUME NEW files, IsFiles(files), UniqueRows(files)
  PROVE  Table!UniqueIn(LiveTable(files))
<1> SUFFICES ASSUME NEW i \in Ids, NEW j \in Ids, NEW f \in UniqueFields,
                    LiveTable(files)[i] # NoRecord, LiveTable(files)[j] # NoRecord,
                    LiveTable(files)[i][f] = LiveTable(files)[j][f]
             PROVE  i = j
  BY DEF Table!UniqueIn
<1>1. i \in DOMAIN ScanRows(files) /\ j \in DOMAIN ScanRows(files)
  BY LiveTableIs
<1>2. /\ LiveTable(files)[i] = At(files, ScanRows(files)[i]).rec
      /\ LiveTable(files)[j] = At(files, ScanRows(files)[j]).rec
  BY <1>1, LiveTableIs
<1> QED
  BY <1>1, <1>2 DEF UniqueRows

(* A batch changes no more rows than it has operations. *)
LEMMA BatchChanges ==
  ASSUME NEW files, IsFiles(files), Whole(files), NEW after, IsFiles(after), Whole(after),
         NEW b \in Seq(Operation), DistinctIds(b), Len(b) <= MaxBatch, NEW tx, NEW ptr,
         Appended(files, after, b, tx, ptr)
  PROVE  Cardinality({id \in Ids : LiveTable(after)[id] # LiveTable(files)[id]}) <= MaxBatch
<1> DEFINE changed == {id \in Ids : LiveTable(after)[id] # LiveTable(files)[id]}
<1>1. \A id \in Ids \ Touched(b) : LiveTable(after)[id] = LiveTable(files)[id]
  BY BatchRows
<1>2. changed \subseteq Touched(b)
  BY <1>1
<1>3. IsFiniteSet(Touched(b)) /\ Cardinality(Touched(b)) <= Len(b) /\ Len(b) \in Nat
  BY TouchedSize, LenProperties
<1> HIDE DEF changed
<1>4. /\ Cardinality(changed) <= Cardinality(Touched(b))
      /\ Cardinality(changed) \in Nat /\ Cardinality(Touched(b)) \in Nat
  BY <1>2, <1>3, FS_Subset, FS_CardinalityType
<1>5. Cardinality(changed) <= MaxBatch
  BY <1>3, <1>4, StoreAssumption
<1> QED
  BY <1>5 DEF changed

(* Files whose rows differ in their unique keys, and that a batch may have  *)
(* led to, are a step of the table.                                        *)
LEMMA Commits ==
  ASSUME IsFiles(chunks'), UniqueRows(chunks'),
         Cardinality({id \in Ids : LiveTable(chunks')[id] # LiveTable(chunks)[id]}) <= MaxBatch
  PROVE  Table!Next
<1> DEFINE after == chunks'
           new   == LiveTable(after)
<1>1. new \in Table!Tables
  BY LiveTableIs DEF Table!Tables, Table!Record, Record
<1>2. Table!UniqueIn(new)
  BY UniqueTable
<1> HIDE DEF after
<1>3. Table!Commit(new)
  <2>1. LiveTable(chunks)' = new
    BY DEF after
  <2> DEFINE S == {id \in Ids : new[id] # LiveTable(chunks)[id]}
  <2>2. Cardinality(S) <= MaxBatch
    BY DEF after
  <2>3. Table!Cardinality(S) <= MaxBatch
    <3> HIDE DEF S
    <3>1. Table!Cardinality(S) = Cardinality(S)
      BY DEF Cardinality, Table!Cardinality
    <3> QED
      BY <2>2, <3>1
  <2> HIDE DEF new
  <2> QED
    BY <1>2, <2>1, <2>3 DEF Table!Commit
<1> QED
  BY <1>1, <1>3 DEF Table!Next

(* The rows after a step are those of a batch, all different in their       *)
(* unique keys.                                                            *)
LEMMA StepCommits ==
  ASSUME WholeStops, IInv, EInv, IInv', EInv', Next, chunks' # chunks
  PROVE  Table!Next
<1> DEFINE changed == {id \in Ids : LiveTable(chunks')[id] # LiveTable(chunks)[id]}
<1>1. /\ IsFiles(chunks) /\ Whole(chunks)
      /\ IsFiles(chunks') /\ Whole(chunks') /\ UniqueRows(chunks')
  BY DEF IInv, EInv, FilesExact, IsFiles
<1>2. Cardinality(changed) <= MaxBatch
  <2>1. CASE BatchStep
    <3>0. PICK b \in Seq(Operation), tx \in Nat :
            \E ptr : Len(b) <= MaxBatch /\ DistinctIds(b) /\ Appended(chunks, chunks', b, tx, ptr)
      BY <2>1 DEF BatchStep
    <3>1. PICK ptr : Len(b) <= MaxBatch /\ DistinctIds(b) /\ Appended(chunks, chunks', b, tx, ptr)
      BY <3>0
    <3> QED
      BY <1>1, <3>1, BatchChanges
  <2>2. CASE KeepStep
    <3>1. LiveTable(chunks') = LiveTable(chunks)
      BY <1>1, <2>2, SameRows DEF KeepStep
    <3>2. changed = {}
      BY <3>1
    <3> HIDE DEF changed
    <3> QED
      BY <3>2, FS_EmptySet, StoreAssumption
  <2> QED
    BY <2>1, <2>2, StepExact
<1> QED
  BY <1>1, <1>2, Commits

LEMMA InitTable == Init => Table!Init
<1> SUFFICES ASSUME Init PROVE Table!Init
  OBVIOUS
<1>1. IsFiles(chunks) /\ DOMAIN ScanRows(chunks) = {}
  BY NoRowsExact DEF Init
<1>2. \A id \in Ids : LiveTable(chunks)[id] = NoRecord
  BY <1>1, LiveTableIs
<1>3. LiveTable(chunks) = [id \in Ids |-> LiveTable(chunks)[id]]
  BY DEF LiveTable
<1> QED
  BY <1>2, <1>3 DEF Table!Init

-----------------------------------------------------------------------------
(* The theorems.  The hypothesis of each names the stops it is about: what   *)
(* becomes of them after the others, the runs torn, removal and metadata   *)
(* show.                                                                   *)

(* A projection in memory is the projection of the log: what apply_batch    *)
(* did to it, put after delete after put, is what a scan of the appended    *)
(* files finds, rows and lookup entries alike.                             *)
THEOREM ProjectionCorrect ==
  ASSUME WholeStops
  PROVE  Spec => []ProjectionExact
<1>1. IInv /\ EInv => ProjectionExact
  BY EInvProjection
<1> QED
  BY <1>1, ExactInvariance, PTL

(* The projection and the `.6b` snapshot in memory agree, and a cached      *)
(* record is the one its row has in the files.                             *)
THEOREM MemoryCorrect ==
  ASSUME WholeStops
  PROVE  Spec => []MemoryCoherent
<1>1. IInv /\ EInv => MemoryCoherent
  BY EInvMemory
<1> QED
  BY <1>1, ExactInvariance, PTL

(* get_by_id and a lookup count answer what the files say, from whichever   *)
(* cache, at every moment of every run.                                    *)
THEOREM AnswersCorrect ==
  ASSUME WholeStops
  PROVE  Spec => []AnswersExact
<1>1. IInv /\ EInv => AnswersExact
  BY EInvAnswers
<1> QED
  BY <1>1, ExactInvariance, PTL

(* No batch that passed the checks, and no part of one that became durable  *)
(* before a stop, leaves files that a fresh handle refuses to scan.        *)
THEOREM ReadableCorrect ==
  ASSUME WholeStops
  PROVE  Spec => []FreshHandleCanRead
<1>1. IInv /\ EInv => FreshHandleCanRead
  BY EInvCanRead
<1> QED
  BY <1>1, ExactInvariance, PTL

(* A fresh handle can go on writing: its tx ids and its chunk come after    *)
(* all others.  A stop in the creation of a chunk leaves a file that lacks  *)
(* its preamble for good, so that only stops between lines are left.       *)
THEOREM WritableCorrect ==
  ASSUME Faults \subseteq {"short"}
  PROVE  Spec => []FreshHandleCanWrite
<1>1. WholeStops
  BY DEF WholeStops
<1>2. IInv /\ EInv => FreshHandleCanWrite
  BY EInvCanWrite
<1> QED
  BY <1>1, <1>2, ExactInvariance, PTL

(* The order of the chunks is the order of the tx ids, through rollovers,   *)
(* compactions and restarts.                                               *)
THEOREM TxOrderCorrect ==
  ASSUME WholeStops
  PROVE  Spec => []TxOrder
<1>1. IInv /\ EInv => TxOrder
  BY EInvTxOrder
<1> QED
  BY <1>1, ExactInvariance, PTL

(* The check of an insert, made against the projection and not the files,   *)
(* lets no insert replace a row.                                           *)
THEOREM InsertCorrect ==
  ASSUME WholeStops
  PROVE  Spec => []InsertNeverReplaces
<1>1. IInv /\ EInv => InsertNeverReplaces
  BY EInvInsert
<1> QED
  BY <1>1, ExactInvariance, PTL

(* A row changes to what the step writes for its id and to nothing else:    *)
(* over any number of batches, compactions and restarts.                   *)
THEOREM WritesCorrect ==
  ASSUME WholeStops
  PROVE  Spec => OnlyWritesChangeRows
<1> DEFINE Changes ==
      LET written(id) == {At(chunks', p).rec :
                            p \in {q \in Positions(chunks') : At(chunks', q).id = id
                                     /\ (q \in Positions(chunks) =>
                                           At(chunks, q) # At(chunks', q))}}
      IN  \A id \in Ids :
            LiveTable(chunks')[id] \in
              IF written(id) = {} THEN {LiveTable(chunks)[id]} ELSE written(id)
<1>1. IInv /\ EInv /\ (IInv /\ EInv)' /\ [Next]_vars => [Changes]_chunks
  <2> SUFFICES ASSUME IInv, EInv, IInv', EInv', [Next]_vars, chunks' # chunks
               PROVE  Changes
    OBVIOUS
  <2>1. Next
    BY DEF vars, disk
  <2>2. \A id \in Ids :
          LiveTable(chunks')[id] \in
            IF Written(chunks, chunks', id) = {} THEN {LiveTable(chunks)[id]}
                                                 ELSE Written(chunks, chunks', id)
    BY <2>1, StepWrites
  <2> QED
    BY <2>2 DEF Written
<1>2. Spec => [](IInv /\ EInv)
  BY ExactInvariance
<1> QED
  BY <1>1, <1>2, PTL DEF Spec, OnlyWritesChangeRows

(* The store implements the table of TableSpec: whatever it does with its   *)
(* files, its rows go from one table with distinct unique keys to the next  *)
(* by one batch of at most MaxBatch rows.                                  *)
THEOREM StoreImplementsTable ==
  ASSUME WholeStops
  PROVE  Spec => TableRefinement
<1>1. IInv /\ EInv /\ (IInv /\ EInv)' /\ [Next]_vars => [chunks' # chunks => Table!Next]_chunks
  <2> SUFFICES ASSUME IInv, EInv, IInv', EInv', [Next]_vars, chunks' # chunks
               PROVE  Table!Next
    OBVIOUS
  <2>1. Next
    BY DEF vars, disk
  <2> QED
    BY <2>1, StepCommits
<1>2. Spec => [](IInv /\ EInv)
  BY ExactInvariance
<1>3. Init => Table!Init
  BY InitTable
<1> QED
  BY <1>1, <1>2, <1>3, PTL DEF Spec, TableRefinement

-----------------------------------------------------------------------------
(* Versions of rows, whatever stop leaves whole lines behind: also one half *)
(* way through a compaction, after which chunks may be missing, a write may *)
(* go in front of lines there are, and counters and caches may be wrong.    *)

LinesWhole == "torn" \notin Faults

(* Each row is what it was, is gone, or is what a new line says. *)
NoStaleRows(files, after) ==
  LET written == {At(after, p).rec : p \in Positions(after) \ Positions(files)}
  IN  \A id \in Ids : LiveTable(after)[id] \in {LiveTable(files)[id], NoRecord} \cup written

(* Whether a write extends a chunk or makes one, and wherever that chunk    *)
(* is, the lines there were stay where they are.                           *)
LEMMA ExtendedKeepsLines ==
  ASSUME IsFiles(chunks), Whole(chunks),
         NEW target, IsTarget(target), Usable(target),
         NEW head \in {"none", "whole"},
         NEW lines \in Seq(Line(Tx)), \A j \in DOMAIN lines : lines[j].cut = "no",
         NEW new, new = Extended(target, head, lines)
  PROVE  /\ IsFiles(new) /\ Whole(new)
         /\ \A p \in Positions(chunks) : p \in Positions(new) /\ At(new, p) = At(chunks, p)
<1> DEFINE t   == target.chunk
           old == chunks[t].lines
<1>1. PartialOn(Chunk, File(Tx), chunks) /\ head \in Preamble
  BY DEF IsFiles, Preamble
<1>2. target.isNew <=> t \notin DOMAIN chunks
  BY UsableTarget
<1>3. /\ PartialOn(Chunk, File(Tx), new)
      /\ DOMAIN new = DOMAIN chunks \cup {t}
      /\ \A c \in DOMAIN chunks \ {t} : new[c] = chunks[c]
      /\ new[t].lines = IF target.isNew THEN lines ELSE old \o lines
  BY <1>1, ExtendedType
<1>4. IsFiles(new)
  BY <1>3 DEF IsFiles
<1>5. ASSUME t \in DOMAIN chunks
      PROVE  /\ new[t].lines = old \o lines
             /\ old \in Seq(Line(Tx)) /\ DOMAIN old = 1..Len(old) /\ Len(old) \in Nat
             /\ DOMAIN lines = 1..Len(lines) /\ Len(lines) \in Nat
             /\ DOMAIN (old \o lines) = 1..(Len(old) + Len(lines))
             /\ \A i \in 1..(Len(old) + Len(lines)) :
                  (old \o lines)[i] = IF i <= Len(old) THEN old[i] ELSE lines[i - Len(old)]
  <2>1. old \in Seq(Line(Tx))
    BY <1>1, <1>5 DEF PartialOn, File
  <2>2. new[t].lines = old \o lines
    BY <1>2, <1>3, <1>5
  <2> HIDE DEF old
  <2>3. old \o lines \in Seq(Line(Tx)) /\ Len(old \o lines) = Len(old) + Len(lines)
    BY <2>1, ConcatProperties
  <2>4. \A i \in 1..(Len(old) + Len(lines)) :
          (old \o lines)[i] = IF i <= Len(old) THEN old[i] ELSE lines[i - Len(old)]
    BY <2>1, ConcatProperties
  <2> QED
    BY <2>1, <2>2, <2>3, <2>4, LenProperties
<1>6. ASSUME NEW p \in Positions(chunks)
      PROVE  p \in Positions(new) /\ At(new, p) = At(chunks, p)
  <2>1. PICK c \in DOMAIN chunks : \E i \in DOMAIN chunks[c].lines : p = <<c, i>>
    BY PositionsAre
  <2>2. PICK i \in DOMAIN chunks[c].lines : p = <<c, i>>
    BY <2>1
  <2>3. c \in DOMAIN new /\ i \in DOMAIN new[c].lines /\ new[c].lines[i] = chunks[c].lines[i]
    <3>1. CASE c = t
      <4>1. t \in DOMAIN chunks /\ i \in DOMAIN old
        BY <3>1
      <4>2. i \in 1..(Len(old) + Len(lines)) /\ i <= Len(old)
        BY <1>5, <4>1
      <4> HIDE DEF old
      <4>3. i \in DOMAIN new[t].lines /\ new[t].lines[i] = old[i]
        BY <1>5, <4>1, <4>2
      <4> QED
        BY <1>3, <3>1, <4>3 DEF old
    <3>2. CASE c # t
      BY <1>3, <3>2
    <3> QED
      BY <3>1, <3>2
  <2>4. p \in Positions(new)
    BY <1>4, <2>2, <2>3, PositionsAre
  <2> QED
    BY <2>2, <2>3, <2>4 DEF At
<1>7. ASSUME NEW p \in Positions(new) PROVE At(new, p).cut = "no"
  <2>1. PICK c \in DOMAIN new : \E i \in DOMAIN new[c].lines : p = <<c, i>>
    BY <1>4, PositionsAre
  <2>2. PICK i \in DOMAIN new[c].lines : p = <<c, i>>
    BY <2>1
  <2>3. CASE c \in DOMAIN chunks /\ i \in DOMAIN chunks[c].lines
    <3>1. p \in Positions(chunks)
      BY <2>2, <2>3, PositionsAre
    <3> QED
      BY <1>6, <3>1 DEF Whole
  <2>4. CASE ~(c \in DOMAIN chunks /\ i \in DOMAIN chunks[c].lines)
    <3>1. c = t
      BY <1>3, <2>4
    <3>2. \E j \in DOMAIN lines : new[c].lines[i] = lines[j]
      <4>1. CASE t \in DOMAIN chunks
        <5>1. i \in 1..(Len(old) + Len(lines)) /\ ~(i <= Len(old))
          <6>1. i \in DOMAIN (old \o lines) /\ i \notin DOMAIN old
            BY <1>5, <2>2, <2>4, <3>1, <4>1
          <6> HIDE DEF old
          <6> QED
            BY <1>5, <4>1, <6>1
        <5> HIDE DEF old
        <5>2. i - Len(old) \in DOMAIN lines /\ new[c].lines[i] = lines[i - Len(old)]
          BY <1>5, <3>1, <4>1, <5>1
        <5> QED
          BY <5>2
      <4>2. CASE t \notin DOMAIN chunks
        BY <1>2, <1>3, <2>2, <3>1, <4>2
      <4> QED
        BY <4>1, <4>2
    <3> QED
      BY <2>2, <3>2 DEF At
  <2> QED
    BY <2>3, <2>4
<1>8. ASSUME NEW c \in DOMAIN new PROVE new[c].head # "cut"
  <2>1. CASE c # t
    BY <1>3, <2>1 DEF Whole
  <2>2. CASE c = t /\ target.isNew
    <3>1. new[c] = [head |-> head, lines |-> lines]
      BY <2>2 DEF Extended
    <3> QED
      BY <3>1
  <2>3. CASE c = t /\ ~target.isNew
    <3>1. new[c] = [chunks[t] EXCEPT !.lines = @ \o lines]
      BY <2>3 DEF Extended
    <3>2. chunks[t] \in File(Tx) /\ chunks[t].head # "cut"
      BY <1>1, <1>2, <2>3 DEF PartialOn, Whole
    <3>3. new[c].head = chunks[t].head
      BY <3>1, <3>2 DEF File
    <3> QED
      BY <3>2, <3>3
  <2> QED
    BY <2>1, <2>2, <2>3
<1> QED
  BY <1>4, <1>6, <1>7, <1>8 DEF Whole

(* Lines that are added, wherever they are, revive no line there is: a line *)
(* that is live among more lines was live among fewer.                      *)
LEMMA GrownKeepsVersions ==
  ASSUME NEW files, IsFiles(files), Whole(files), NEW after, IsFiles(after), Whole(after),
         \A p \in Positions(files) : p \in Positions(after) /\ At(after, p) = At(files, p)
  PROVE  NoStaleRows(files, after)
<1> DEFINE written == {At(after, p).rec : p \in Positions(after) \ Positions(files)}
<1> SUFFICES ASSUME NEW id \in Ids
             PROVE  LiveTable(after)[id] \in {LiveTable(files)[id], NoRecord} \cup written
  BY DEF NoStaleRows
<1>1. CASE id \notin DOMAIN ScanRows(after)
  BY <1>1, LiveTableIs
<1>2. CASE id \in DOMAIN ScanRows(after)
  <2> DEFINE p == ScanRows(after)[id]
  <2>1. /\ p \in LivePositions(after) /\ At(after, p).id = id
        /\ LiveTable(after)[id] = At(after, p).rec
    BY <1>2, ScanRowsIs, LiveTableIs
  <2> HIDE DEF p
  <2>2. /\ p \in Positions(after) /\ At(after, p).op = "put"
        /\ \A q \in Positions(after) : Before(p, q) => At(after, q).id # At(after, p).id
    BY <2>1, LiveIs
  <2>3. CASE p \in Positions(files)
    <3>1. p \in LivePositions(files) /\ At(files, p).id = id
      BY <2>1, <2>2, <2>3, LiveIs
    <3>2. id \in DOMAIN ScanRows(files) /\ ScanRows(files)[id] = p
      BY <3>1, ScanRowsIs
    <3>3. LiveTable(files)[id] = At(files, p).rec
      BY <3>2, LiveTableIs
    <3> QED
      BY <2>1, <2>3, <3>3
  <2>4. CASE p \notin Positions(files)
    BY <2>1, <2>2, <2>4
  <2> QED
    BY <2>3, <2>4
<1> QED
  BY <1>1, <1>2

(* Compaction removes the oldest chunks first: a line that is left has all  *)
(* lines behind it left too, so none comes back that was replaced.         *)
LEMMA RemovedKeepsVersions ==
  ASSUME IsFiles(chunks), Whole(chunks), NEW kept \in SUBSET DOMAIN chunks, LeftByRemoval(kept),
         NEW after, after = [c \in kept |-> chunks[c]]
  PROVE  IsFiles(after) /\ Whole(after) /\ NoStaleRows(chunks, after)
<1>1. DOMAIN after = kept /\ \A c \in kept : c \in DOMAIN chunks /\ after[c] = chunks[c]
  OBVIOUS
<1>2. IsFiles(after)
  <2>1. \A c \in kept : c \in Chunk /\ chunks[c] \in File(Tx)
    BY DEF IsFiles, PartialOn
  <2> QED
    BY <2>1 DEF IsFiles, PartialOn
<1>3. ASSUME NEW p
      PROVE  p \in Positions(after) <=> p \in Positions(chunks) /\ p[1] \in kept
  <2>1. ASSUME p \in Positions(after)
        PROVE  p \in Positions(chunks) /\ p[1] \in kept
    <3>1. PICK c \in DOMAIN after : \E i \in DOMAIN after[c].lines : p = <<c, i>>
      BY <1>2, <2>1, PositionsAre
    <3>2. PICK i \in DOMAIN after[c].lines : p = <<c, i>>
      BY <3>1
    <3>3. c \in DOMAIN chunks /\ i \in DOMAIN chunks[c].lines
      BY <1>1
    <3> QED
      BY <1>1, <3>2, <3>3, PositionsAre
  <2>2. ASSUME p \in Positions(chunks), p[1] \in kept
        PROVE  p \in Positions(after)
    <3>1. PICK c \in DOMAIN chunks : \E i \in DOMAIN chunks[c].lines : p = <<c, i>>
      BY <2>2, PositionsAre
    <3>2. PICK i \in DOMAIN chunks[c].lines : p = <<c, i>>
      BY <3>1
    <3>3. c \in DOMAIN after /\ i \in DOMAIN after[c].lines
      BY <1>1, <2>2, <3>2
    <3> QED
      BY <1>2, <3>2, <3>3, PositionsAre
  <2> QED
    BY <2>1, <2>2
<1>4. ASSUME NEW p \in Positions(after) PROVE At(after, p) = At(chunks, p)
  BY <1>1, <1>3 DEF At
<1>5. Whole(after)
  BY <1>1, <1>3, <1>4 DEF Whole
<1>6. ASSUME NEW p \in Positions(after), NEW q \in Positions(chunks), Before(p, q)
      PROVE  q \in Positions(after)
  <2>1. p[1] \in kept /\ q[1] \in DOMAIN chunks /\ p[1] \in Nat /\ q[1] \in Nat
    <3>1. p \in Pointer /\ q \in Pointer /\ q[1] \in DOMAIN chunks
      BY <1>3, PositionType DEF IsFiles
    <3> QED
      BY <1>3, <3>1, StoreAssumption DEF Pointer, Chunk
  <2>2. ~(q[1] < p[1])
    BY <1>6, <2>1 DEF Before
  <2>3. q[1] \in kept
    BY <2>1, <2>2 DEF LeftByRemoval
  <2> QED
    BY <1>3, <2>3
<1>7. ASSUME NEW id \in Ids
      PROVE  LiveTable(after)[id] \in {LiveTable(chunks)[id], NoRecord}
  <2>1. CASE id \notin DOMAIN ScanRows(after)
    BY <1>2, <2>1, LiveTableIs
  <2>2. CASE id \in DOMAIN ScanRows(after)
    <3> DEFINE p == ScanRows(after)[id]
    <3>1. /\ p \in LivePositions(after) /\ At(after, p).id = id
          /\ LiveTable(after)[id] = At(after, p).rec
      BY <1>2, <1>5, <2>2, ScanRowsIs, LiveTableIs
    <3> HIDE DEF p
    <3>2. /\ p \in Positions(after) /\ At(after, p).op = "put"
          /\ \A q \in Positions(after) : Before(p, q) => At(after, q).id # At(after, p).id
      BY <1>2, <1>5, <3>1, LiveIs
    <3>3. \A q \in Positions(chunks) : Before(p, q) => At(chunks, q).id # At(chunks, p).id
      BY <1>4, <1>6, <3>2
    <3>4. p \in Positions(chunks) /\ At(chunks, p).op = "put"
      BY <1>3, <1>4, <3>2
    <3>5. p \in LivePositions(chunks) /\ At(chunks, p).id = id
      BY <1>4, <3>1, <3>2, <3>3, <3>4, LiveIs
    <3>6. id \in DOMAIN ScanRows(chunks) /\ ScanRows(chunks)[id] = p
      BY <3>5, ScanRowsIs
    <3>7. LiveTable(chunks)[id] = At(chunks, p).rec
      BY <3>6, LiveTableIs
    <3> QED
      BY <1>4, <3>1, <3>2, <3>7
  <2> QED
    BY <2>1, <2>2
<1> QED
  BY <1>2, <1>5, <1>7 DEF NoStaleRows

(* The chunks are those a write to the target leaves that added whole lines. *)
AddedLines(target, files) ==
  \E head \in {"none", "whole"}, lines \in Seq(Line(Tx)) :
    /\ \A j \in DOMAIN lines : lines[j].cut = "no"
    /\ files = Extended(target, head, lines)

(* A stop in a write without torn lines: a prefix of whole lines, or an     *)
(* empty chunk.                                                            *)
LEMMA StoppedLines ==
  ASSUME LinesWhole, NEW target, NEW b \in Seq(Operation), NEW tx \in Nat,
         tx + Len(b) <= MaxTx + 1,
         NEW files \in Interrupted(target, EncodeBatch(b, tx))
  PROVE  AddedLines(target, files)
<1> DEFINE lines    == EncodeBatch(b, tx)
           whole(s) == Extended(target, "whole", s)
           Short    == {whole(SubSeq(lines, 1, k)) : k \in 0..(Len(lines) - 1)}
           None1    == {Extended(target, "none", <<>>)}
<1>1. /\ Len(b) \in Nat /\ Len(lines) = Len(b) /\ DOMAIN b = 1..Len(b)
      /\ lines \in Seq(Line(Tx)) /\ DOMAIN lines = 1..Len(b)
  BY EncodeBatchType, LenProperties
<1>2. \A j \in 1..Len(b) : lines[j].cut = "no"
  BY DEF EncodeBatch, EncodeLine
<1>3. \/ files = whole(lines)
      \/ files \in Short
      \/ files \in None1
  <2>1. files \in {whole(lines)}
                    \cup (IF "short" \in Faults THEN Short ELSE {})
                    \cup {} \cup {}
                    \cup (IF "create" \in Faults /\ target.isNew THEN None1 ELSE {})
    BY DEF Interrupted, LinesWhole
  <2> HIDE DEF whole, Short, None1, lines
  <2> QED
    BY <2>1
<1> HIDE DEF lines
<1>4. CASE files = whole(lines)
  BY <1>1, <1>2, <1>4 DEF AddedLines
<1>5. CASE files \in Short
  <2>1. PICK k \in 0..(Len(lines) - 1) : files = whole(SubSeq(lines, 1, k))
    BY <1>5
  <2> DEFINE s == SubSeq(lines, 1, k)
  <2>2. k \in Nat /\ k <= Len(lines)
    BY <1>1, <2>1
  <2>3. s \in Seq(Line(Tx)) /\ Len(s) = k /\ \A j \in 1..k : s[j] = lines[j]
    BY <1>1, <2>2, SubSeqProperties
  <2>4. files = Extended(target, "whole", s)
    BY <2>1
  <2> HIDE DEF s
  <2>5. DOMAIN s = 1..k
    BY <2>3, LenProperties
  <2>6. \A j \in DOMAIN s : s[j].cut = "no"
    BY <1>1, <1>2, <2>2, <2>3, <2>5
  <2> QED
    BY <2>3, <2>4, <2>6 DEF AddedLines
<1>6. CASE files \in None1
  <2>1. <<>> \in Seq(Line(Tx)) /\ DOMAIN <<>> = {} /\ files = Extended(target, "none", <<>>)
    BY <1>6, EmptySeq
  <2> HIDE DEF None1
  <2> QED
    BY <2>1 DEF AddedLines
<1> QED
  BY <1>3, <1>4, <1>5, <1>6

(* A compaction's chunk has the rows there were. *)
LEMMA CompactedKeepsVersions ==
  ASSUME IInv, Whole(chunks), CanCompact, NEW order \in LiveOrders,
         NEW after, after = [c \in {0} |-> Compacted(order)]
  PROVE  Whole(after) /\ NoStaleRows(chunks, after)
<1>1. IsFiles(chunks)
  BY FilesTyped
<1>2. UniqueRows(chunks)
  BY <1>1, UniqueIs DEF CanCompact, CanRebuild
<1>3. DiscoveredTx(chunks) + Cardinality(DOMAIN LiveRecords(chunks)) <= MaxTx + 1
  BY DEF CanCompact
<1>4. IsFiles(after) /\ FilesExact(after) /\ SameRecords(chunks, after)
  BY <1>1, <1>2, <1>3, CompactedExact
<1>5. LiveTable(after) = LiveTable(chunks)
  BY <1>1, <1>4, SameRows
<1> QED
  BY <1>4, <1>5 DEF FilesExact, NoStaleRows

LEMMA StepKeepsVersions ==
  ASSUME LinesWhole, IInv, Whole(chunks), Next
  PROVE  Whole(chunks') /\ (chunks' = chunks \/ NoStaleRows(chunks, chunks'))
<1>0. IsFiles(chunks)
  BY FilesTyped
<1>1. ASSUME NEW b \in Batch,
             AppendBatch(Taken, b, Target(Len(b))) \/ StopInAppend(Taken, b, Target(Len(b)))
      PROVE  Whole(chunks') /\ NoStaleRows(chunks, chunks')
  <2> DEFINE target == Target(Len(b))
             tx     == Taken.tx
             all    == EncodeBatch(b, tx)
  <2>1. b \in Seq(Operation) /\ Len(b) \in Nat
    BY BatchIsSeq, LenProperties
  <2>2. IsTarget(target) /\ Usable(target) /\ tx \in Nat /\ tx + Len(b) <= MaxTx + 1
    BY <1>1, <2>1, TargetType, TakenType DEF AppendBatch, StopInAppend, CanAppend
  <2>3. chunks' = Extended(target, "whole", all) \/ chunks' \in Interrupted(target, all)
    BY <1>1 DEF AppendBatch, StopInAppend
  <2>4. Extended(target, "whole", all) \in Interrupted(target, all)
    BY DEF Interrupted
  <2>5. chunks' \in Interrupted(target, all)
    BY <2>3, <2>4
  <2>6. AddedLines(target, chunks')
    <3>1. tx \in Nat /\ tx + Len(b) <= MaxTx + 1
      BY <2>2
    <3>2. chunks' \in Interrupted(target, EncodeBatch(b, tx))
      BY <2>5
    <3> HIDE DEF target, tx
    <3> QED
      BY <2>1, <3>1, <3>2, StoppedLines
  <2> HIDE DEF target, tx
  <2>7. PICK head \in {"none", "whole"}, lines \in Seq(Line(Tx)) :
          /\ \A j \in DOMAIN lines : lines[j].cut = "no"
          /\ chunks' = Extended(target, head, lines)
    BY <2>6 DEF AddedLines
  <2>8. /\ IsFiles(chunks') /\ Whole(chunks')
        /\ \A p \in Positions(chunks) : p \in Positions(chunks') /\ At(chunks', p) = At(chunks, p)
    BY <1>0, <2>2, <2>7, ExtendedKeepsLines
  <2> QED
    BY <1>0, <2>8, GrownKeepsVersions
<1>2. CASE Write
  <2>1. (RejectBatch(Taken) \/ \E n \in Nat : RefuseTarget(Taken, Target(n))) => chunks' = chunks
    BY DEF RejectBatch, RefuseTarget
  <2> QED
    BY <1>1, <1>2, <2>1, WriteCases
<1>3. CASE Read \/ RebuildSixb \/ InitStore \/ Restart
  BY <1>3 DEF Read, RebuildSixb, InitStore, Restart, disk
<1>4. CASE Compact \/ StopBeforeMetadata
  <2>1. PICK order \in LiveOrders : CanCompact /\ chunks' = [c \in {0} |-> Compacted(order)]
    BY <1>4 DEF Compact, StopBeforeMetadata
  <2> QED
    BY <2>1, CompactedKeepsVersions
<1>5. CASE StopInRemoval
  <2>1. PICK kept \in SUBSET DOMAIN chunks :
          LeftByRemoval(kept) /\ chunks' = [c \in kept |-> chunks[c]]
    BY <1>5 DEF StopInRemoval
  <2> QED
    BY <1>0, <2>1, RemovedKeepsVersions
<1> QED
  BY <1>2, <1>3, <1>4, <1>5 DEF Next

LEMMA WholeInvariance ==
  ASSUME LinesWhole
  PROVE  Spec => [](IInv /\ Whole(chunks))
<1>1. Init => IInv /\ Whole(chunks)
  BY InitIInv, NoRowsExact DEF Init, FilesExact
<1>2. IInv /\ Whole(chunks) /\ [Next]_vars => (IInv /\ Whole(chunks))'
  <2> SUFFICES ASSUME IInv, Whole(chunks), [Next]_vars PROVE IInv' /\ Whole(chunks')
    OBVIOUS
  <2>1. IInv'
    BY NextIInv
  <2>2. CASE Next
    BY <2>1, <2>2, StepKeepsVersions
  <2>3. CASE UNCHANGED vars
    BY <2>1, <2>3 DEF vars, disk
  <2> QED
    BY <2>2, <2>3
<1> QED
  BY <1>1, <1>2, PTL DEF Spec

(* No version of a row that was replaced or deleted is ever its live one    *)
(* again, whatever the store does and wherever it stops, in an append or   *)
(* in a compaction, as long as the lines in its files are whole: not even   *)
(* when chunks are lost or a write goes where a scan reads it too early.    *)
THEOREM NoStaleCorrect ==
  ASSUME LinesWhole
  PROVE  Spec => NoStaleRow
<1> DEFINE Fresh ==
      LET written == {At(chunks', p).rec : p \in Positions(chunks') \ Positions(chunks)}
      IN  \A id \in Ids :
            LiveTable(chunks')[id] \in {LiveTable(chunks)[id], NoRecord} \cup written
<1>1. IInv /\ Whole(chunks) /\ [Next]_vars => [Fresh]_chunks
  <2> SUFFICES ASSUME IInv, Whole(chunks), [Next]_vars, chunks' # chunks PROVE Fresh
    OBVIOUS
  <2>1. Next
    BY DEF vars, disk
  <2> QED
    BY <2>1, StepKeepsVersions DEF NoStaleRows
<1>2. Spec => [](IInv /\ Whole(chunks))
  BY WholeInvariance
<1> QED
  BY <1>1, <1>2, PTL DEF Spec, NoStaleRow
=============================================================================
