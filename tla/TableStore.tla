----------------------------- MODULE TableStore -----------------------------
(***************************************************************************)
(* One table of sixpack's LocalStore: the files under tables/<table>, the   *)
(* generated `.6b` file, the counters of sixpack.toml, and every cache a    *)
(* store handle keeps in memory.  Calls run one at a time (the store at the *)
(* granularity of its public operations); a restart replaces the handle by  *)
(* a fresh one, and may happen in the middle of a write or a compaction.    *)
(***************************************************************************)
EXTENDS TableLog

CONSTANTS
  None,        \* an absent cache, file or counter
  MaxBatch,    \* operations in a batch (bounds the model)
  ChunkLimit,  \* data lines that fit a chunk (MAX_SIX_CHUNK_BYTES)
  MaxChunks,   \* chunk counters there are names for (MAX_CHUNKS)
  MaxTx,       \* highest tx id (bounds the model)
  Faults       \* where the process may stop, a subset of AllFaults

(* "create":   after a new chunk was created, before it was written         *)
(* "short":    after some whole lines of a write                            *)
(* "torn":     inside a line or a preamble of a write                       *)
(* "removal":  while compaction has removed old chunks, before its rename   *)
(* "metadata": after compaction's rename, before sixpack.toml is rewritten  *)
(* Stopping between two operations, or in a write after all its lines, is   *)
(* always possible.                                                         *)
AllFaults == {"create", "short", "torn", "removal", "metadata"}

ASSUME StoreAssumption ==
  /\ MaxBatch \in Nat /\ ChunkLimit \in Nat /\ MaxTx \in Nat
  /\ MaxChunks \in Nat \ {0}
  /\ Faults \subseteq AllFaults

VARIABLES
  chunks,      \* tables/<table>/*.6, by chunk counter
  sixb,        \* engine/<table>.6b: [source, cache]
  meta,        \* sixpack.toml: [tx, chunk]
  runtime,     \* runtime_sixb_cache: the projection writes maintain
  sixbCache,   \* sixb_cache: a loaded or built snapshot
  rowCache,    \* row_cache: decoded records by id
  chunkCache,  \* chunk_cache: chunk files by counter
  chunkLen,    \* chunk_len_cache
  nextTx,      \* next_tx_cache
  nextChunk,   \* next_chunk_cache
  layout       \* layout_cache: the preambles of this table were verified

disk   == <<chunks, sixb, meta>>
memory == <<runtime, sixbCache, rowCache, chunkCache, chunkLen, nextTx, nextChunk, layout>>
vars   == <<disk, memory>>

Batch == UNION {[1..n -> Operation] : n \in 1..MaxBatch}

NoRows == [x \in {} |-> None]

-----------------------------------------------------------------------------
(* Counters.                                                               *)

Highest(a, b) == IF a >= b THEN a ELSE b

(* Mutant: the counter of sixpack.toml is taken as it is. *)
RecoveredTx_TrustMetadata == IF meta = None THEN DiscoveredTx(chunks) ELSE meta.tx

(* What a handle with no counters in memory recovers. *)
RecoveredTx ==
  IF meta = None THEN DiscoveredTx(chunks) ELSE Highest(meta.tx, DiscoveredTx(chunks))

RecoveredChunk ==
  LET files == Cardinality(DOMAIN chunks)
  IN  IF meta = None THEN files ELSE Highest(meta.chunk, files)

NextTxId == IF nextTx # None THEN nextTx ELSE RecoveredTx

NextChunkCounter == IF nextChunk # None THEN nextChunk ELSE RecoveredChunk

(* append_target for a batch of n lines: the current chunk if it exists and *)
(* has room, else a new one.                                               *)
TargetFrom(next, lens, n) ==
  LET current == next - 1
      exists  == next > 0 /\ current \in DOMAIN chunks
      len     == IF current \in DOMAIN lens THEN lens[current]
                                            ELSE Len(chunks[current].lines)
      fits    == exists /\ len + n <= ChunkLimit
  IN  [chunk  |-> IF fits THEN current ELSE next,
       isNew  |-> ~fits,
       offset |-> IF fits THEN len ELSE 0,
       next   |-> IF fits THEN next ELSE next + 1,
       lens   |-> IF exists THEN [c \in DOMAIN lens \cup {current} |->
                                    IF c = current THEN len ELSE lens[c]]
                            ELSE lens]

Target(n) == TargetFrom(NextChunkCounter, chunkLen, n)

(* Mutant: no limit on chunk counters. *)
Usable_AnyChunk(target) == target.isNew => target.chunk \notin DOMAIN chunks

(* chunk_path has a name for the chunk, and create_new finds it free. *)
Usable(target) ==
  /\ target.chunk < MaxChunks
  /\ target.isNew => target.chunk \notin DOMAIN chunks

-----------------------------------------------------------------------------
(* Loading the projection.                                                 *)

(* Mutant: the `.6b` file is used whatever it was built from. *)
SixbIsCurrent_AnySource == sixb # None

SixbIsCurrent ==
  /\ sixb # None
  /\ sixb.source = SourceOf(chunks)
  /\ Terminated(chunks)

CanRebuild == Decodable(chunks) /\ UniqueLookups(CacheOf(chunks).lookups)

CanLoad == runtime = None /\ sixbCache = None /\ ~SixbIsCurrent => CanRebuild

Rebuilt ==
  LET cache == CacheOf(chunks)
  IN  [cache |-> cache, runtime |-> FromCache(cache), sixbCache |-> cache,
       rowCache |-> LiveRecords(chunks),
       sixb |-> [source |-> SourceOf(chunks), cache |-> cache]]

(* ensure_sixb_snapshot: the snapshot, and what it leaves behind. *)
Snapshot ==
  LET found(cache) == [cache |-> cache, runtime |-> runtime, sixbCache |-> cache,
                       rowCache |-> rowCache, sixb |-> sixb]
  IN  CASE runtime # None                                      -> found(ToCache(runtime))
        [] runtime = None /\ sixbCache # None                  -> found(sixbCache)
        [] runtime = None /\ sixbCache = None /\ SixbIsCurrent -> found(sixb.cache)
        [] OTHER                                               -> Rebuilt

(* take_runtime_sixb_for_write: the projection leaves its map, or the       *)
(* snapshot leaves sixb_cache (a rebuild on the way has filled both); and   *)
(* the first tx id of the write.                                           *)
Taken ==
  IF runtime # None
    THEN [proj |-> runtime, tx |-> NextTxId, runtime |-> None,
          sixbCache |-> sixbCache, rowCache |-> rowCache, sixb |-> sixb]
    ELSE [proj |-> FromCache(Snapshot.cache), tx |-> NextTxId,
          runtime |-> Snapshot.runtime, sixbCache |-> None,
          rowCache |-> Snapshot.rowCache, sixb |-> Snapshot.sixb]

(* ensure_table_layout: every chunk starts with the magic line. *)
LayoutOK == ~layout => \A c \in DOMAIN chunks : chunks[c].head # "none"

Metadata(tx, chunk) == [tx |-> tx, chunk |-> chunk]

-----------------------------------------------------------------------------

Init ==
  /\ chunks = NoRows /\ sixb = None /\ meta = None
  /\ runtime = None /\ sixbCache = None
  /\ rowCache = NoRows /\ chunkCache = NoRows /\ chunkLen = NoRows
  /\ nextTx = None /\ nextChunk = None /\ layout = FALSE

(* A fresh handle: LocalStore::new. *)
FreshHandle ==
  /\ runtime' = None /\ sixbCache' = None
  /\ rowCache' = NoRows /\ chunkCache' = NoRows /\ chunkLen' = NoRows
  /\ nextTx' = None /\ nextChunk' = None /\ layout' = FALSE

-----------------------------------------------------------------------------
(* Writes: append_batch_inner.                                             *)

(* The file with `lines` written behind what it holds. *)
Extended(target, head, lines) ==
  LET file == IF target.isNew
                THEN [head |-> head, lines |-> lines]
                ELSE [chunks[target.chunk] EXCEPT !.lines = @ \o lines]
  IN  [c \in DOMAIN chunks \cup {target.chunk} |->
         IF c = target.chunk THEN file ELSE chunks[c]]

(* The batches, by mode, that pass the checks made before anything is       *)
(* written.  A mode decides nothing else.                                  *)
Accepted(taken) ==
  [mode \in Modes |-> {b \in Batch : Accepts(taken.proj, b, mode)}]

CanAppend(taken, b, target) ==
  /\ Usable(target)
  /\ taken.tx + Len(b) <= MaxTx + 1

(* Mutants: a cached record stays when its row is put, or deleted, again. *)
RecordsAfter_KeepsOld(cached, b) ==
  [id \in DOMAIN cached \cup {b[j].id : j \in {i \in DOMAIN b : b[i].op = "put"}} |->
     IF id \in DOMAIN cached THEN cached[id]
                             ELSE b[CHOOSE j \in DOMAIN b : b[j].id = id].rec]

RecordsAfter_KeepsDeleted(cached, b) ==
  [id \in DOMAIN cached \cup {b[j].id : j \in {i \in DOMAIN b : b[i].op = "put"}} |->
     IF \E j \in DOMAIN b : b[j].op = "put" /\ b[j].id = id
       THEN b[CHOOSE j \in DOMAIN b : b[j].id = id].rec ELSE cached[id]]

(* Row records after the batch: remember_record, forget_record. *)
RecordsAfter(cached, b) ==
  LET puts == {j \in DOMAIN b : b[j].op = "put"}
      put  == {b[j].id : j \in puts}
  IN  [id \in (DOMAIN cached \ Touched(b)) \cup put |->
         IF id \in put THEN b[CHOOSE j \in puts : b[j].id = id].rec ELSE cached[id]]

(* Mutant: what is cached of an extended chunk stays. *)
CachedAfter_KeepsExtended(target, cached, value) ==
  [c \in IF target.isNew THEN DOMAIN cached \cup {target.chunk} ELSE DOMAIN cached |->
     IF target.isNew /\ c = target.chunk THEN value ELSE cached[c]]

(* chunk_cache and chunk_len_cache: a new chunk is remembered, the length   *)
(* and bytes of an extended one are forgotten.                             *)
CachedAfter(target, cached, value) ==
  [c \in IF target.isNew THEN DOMAIN cached \cup {target.chunk}
                         ELSE DOMAIN cached \ {target.chunk} |->
     IF c = target.chunk THEN value ELSE cached[c]]

AppendBatch(taken, b, target) ==
  LET ptr    == [j \in DOMAIN b |-> <<target.chunk, target.offset + j>>]
  IN
  /\ CanAppend(taken, b, target)
  /\ chunks' = Extended(target, "whole", EncodeBatch(b, taken.tx))
  /\ runtime' = ApplyBatch(taken.proj, b, ptr, taken.rowCache)
  /\ sixbCache' = None
  /\ rowCache' = RecordsAfter(taken.rowCache, b)
  /\ chunkCache' = CachedAfter(target, chunkCache, chunks'[target.chunk])
  /\ chunkLen' = CachedAfter(target, target.lens, Len(b))
  /\ nextTx' = taken.tx + Len(b)
  /\ nextChunk' = target.next
  /\ layout' = TRUE
  /\ sixb' = taken.sixb
  /\ meta' = IF Len(b) > 1 \/ meta = None
               THEN Metadata(taken.tx + Len(b), target.next) ELSE meta

(* The batch is refused: a repeated id, an insert of a live row, a unique   *)
(* key in use.  The projection taken for the write is not put back.         *)
RejectBatch(taken) ==
  /\ runtime' = taken.runtime
  /\ sixbCache' = taken.sixbCache
  /\ rowCache' = taken.rowCache
  /\ sixb' = taken.sixb
  /\ nextTx' = taken.tx
  /\ layout' = TRUE
  /\ UNCHANGED <<chunks, meta, chunkCache, chunkLen, nextChunk>>

(* The batch is valid and there is no chunk to write it to. *)
RefuseTarget(taken, target) ==
  /\ ~Usable(target)
  /\ runtime' = taken.runtime
  /\ sixbCache' = taken.sixbCache
  /\ rowCache' = taken.rowCache
  /\ sixb' = taken.sixb
  /\ nextTx' = taken.tx
  /\ nextChunk' = NextChunkCounter
  /\ chunkLen' = target.lens
  /\ layout' = TRUE
  /\ UNCHANGED <<chunks, meta, chunkCache>>

(* What a write of `lines` may leave in the files when the process stops in *)
(* it, once create_new or write_all has started: a prefix of the write.     *)
Interrupted(target, lines) ==
  LET n == Len(lines)
      prefix(k) == SubSeq(lines, 1, k)
      cutAt(k, cut) == [prefix(k) EXCEPT ![k].cut = cut]
      whole(s) == Extended(target, "whole", s)
  IN  {whole(lines)}
        \cup (IF "short" \in Faults THEN {whole(prefix(k)) : k \in 0..(n - 1)} ELSE {})
        \cup (IF "torn" \in Faults
                THEN {whole(cutAt(k, cut)) : k \in 1..n, cut \in Cut \ {"no"}} ELSE {})
        \cup (IF "torn" \in Faults /\ target.isNew
                THEN {Extended(target, "cut", <<>>)} ELSE {})
        \cup (IF "create" \in Faults /\ target.isNew
                THEN {Extended(target, "none", <<>>)} ELSE {})

StopInAppend(taken, b, target) ==
  /\ CanAppend(taken, b, target)
  /\ chunks' \in Interrupted(target, EncodeBatch(b, taken.tx))
  /\ sixb' = taken.sixb
  /\ meta' = meta
  /\ FreshHandle

Write ==
  /\ LayoutOK
  /\ CanLoad
  /\ \E taken \in {Taken} :
       \E accepted \in {Accepted(taken)} :
         \/ /\ \E mode \in Modes : accepted[mode] # Batch
            /\ RejectBatch(taken)
         \/ \E valid \in {{b \in Batch : \E mode \in Modes : b \in accepted[mode]}} :
              \E n \in {Len(b) : b \in valid} : \E target \in {Target(n)} :
                \/ RefuseTarget(taken, target)
                \/ \E b \in valid :
                     /\ Len(b) = n
                     /\ AppendBatch(taken, b, target) \/ StopInAppend(taken, b, target)

-----------------------------------------------------------------------------
(* Opening, rebuilding and compacting.                                     *)

(* rebuild_sixb *)
Rebuild ==
  \E built \in {Rebuilt} :
    /\ runtime' = built.runtime
    /\ sixbCache' = built.sixbCache
    /\ rowCache' = built.rowCache
    /\ sixb' = built.sixb

RebuildSixb ==
  /\ CanRebuild
  /\ Rebuild
  /\ UNCHANGED <<chunks, meta, chunkCache, chunkLen, nextTx, nextChunk, layout>>

(* LocalStore::init *)
InitStore ==
  /\ LayoutOK
  /\ CanRebuild
  /\ Rebuild
  /\ layout' = TRUE
  /\ nextTx' = NextTxId
  /\ nextChunk' = NextChunkCounter
  /\ meta' = Metadata(NextTxId, NextChunkCounter)
  /\ UNCHANGED <<chunks, chunkCache, chunkLen>>

(* The chunk compaction writes: the live rows in an order of their ids. *)
Compacted(order) ==
  LET records  == LiveRecords(chunks)
      puts     == [j \in 1..Len(order) |->
                     [op |-> "put", id |-> order[j], rec |-> records[order[j]]]]
  IN  [head |-> "whole", lines |-> EncodeBatch(puts, DiscoveredTx(chunks))]

(* The live ids, each once.  BTreeMap order is one of these; which one has  *)
(* no bearing on anything else.                                             *)
LiveOrders ==
  LET live == DOMAIN LiveRecords(chunks)
  IN  {s \in [1..Cardinality(live) -> live] : \A i, j \in DOMAIN s : s[i] = s[j] => i = j}

(* Files that hold a unique key twice, which only a stop inside an earlier  *)
(* compaction leaves, are not compacted here.  The code rewrites them and   *)
(* fails in the rebuild behind it, as in TableThreads.                     *)
CanCompact ==
  /\ LayoutOK
  /\ CanRebuild
  /\ DiscoveredTx(chunks) + Cardinality(DOMAIN LiveRecords(chunks)) <= MaxTx + 1

(* compact_table: new tx ids follow the highest one in the files. *)
Compact ==
  \E order \in LiveOrders :
    LET file  == Compacted(order)
        after == [c \in {0} |-> file]
        cache == CacheOf(after)
        tx    == DiscoveredTx(chunks) + Len(order)
    IN
    /\ CanCompact
    /\ chunks' = after
    /\ chunkCache' = after
    /\ chunkLen' = [c \in {0} |-> Len(file.lines)]
    /\ runtime' = FromCache(cache)
    /\ sixbCache' = cache
    /\ rowCache' = LiveRecords(after)
    /\ sixb' = [source |-> SourceOf(after), cache |-> cache]
    /\ nextTx' = tx
    /\ nextChunk' = 1
    /\ meta' = Metadata(tx, 1)
    /\ layout' = TRUE

(* Mutant: the directory listing decides. *)
LeftByRemoval_AnyOrder(kept) == kept \subseteq DOMAIN chunks

(* The chunks that may be left while the old ones are removed: oldest first. *)
LeftByRemoval(kept) == \A c \in DOMAIN chunks \ kept, d \in kept : c < d

(* The process stops while the old chunks are removed.                      *)
(* compact.tmp is not a `.6` file: nothing reads it again.                  *)
StopInRemoval ==
  /\ "removal" \in Faults
  /\ CanCompact
  /\ \E kept \in SUBSET DOMAIN chunks :
       /\ LeftByRemoval(kept)
       /\ chunks' = [c \in kept |-> chunks[c]]
  /\ UNCHANGED <<sixb, meta>>
  /\ FreshHandle

(* The process stops after the rename, before or after the `.6b` rebuild.   *)
StopBeforeMetadata ==
  /\ "metadata" \in Faults
  /\ CanCompact
  /\ \E order \in LiveOrders :
       LET after == [c \in {0} |-> Compacted(order)]
       IN  /\ chunks' = after
           /\ \/ sixb' = sixb
              \/ sixb' = [source |-> SourceOf(after), cache |-> CacheOf(after)]
  /\ meta' = meta
  /\ FreshHandle

(* The process stops between two operations. *)
Restart == FreshHandle /\ UNCHANGED disk

-----------------------------------------------------------------------------
(* Reads.                                                                  *)

(* read_row_pointer: the record in the cached chunk, else in the file. *)
PointedAt(ptr) ==
  LET file == IF ptr[1] \in DOMAIN chunkCache THEN chunkCache[ptr[1]] ELSE chunks[ptr[1]]
  IN  file.lines[ptr[2]]

(* Reading the rows `ids` fills row_cache, chunk_cache and chunk_len_cache. *)
ReadRows(rows, ids, cached) ==
  LET missing == ids \ DOMAIN cached
      loaded  == {rows[id][1] : id \in missing} \ DOMAIN chunkCache
  IN
  /\ rowCache' = [id \in DOMAIN cached \cup missing |->
                    IF id \in missing THEN PointedAt(rows[id]).rec ELSE cached[id]]
  /\ chunkCache' = [c \in DOMAIN chunkCache \cup loaded |->
                      IF c \in loaded THEN chunks[c] ELSE chunkCache[c]]
  /\ chunkLen' = [c \in DOMAIN chunkLen \cup loaded |->
                    IF c \in loaded THEN Len(chunks[c].lines) ELSE chunkLen[c]]

Remember(snapshot) ==
  /\ runtime' = snapshot.runtime
  /\ sixbCache' = snapshot.sixbCache
  /\ sixb' = snapshot.sixb

(* get_by_id: the projection answers for a row it has, else a snapshot is   *)
(* loaded or built (also to learn that the row does not exist).             *)
GetById(snapshot, id) ==
  IF runtime # None /\ id \in DOMAIN runtime.rows
    THEN /\ ReadRows(runtime.rows, {id}, rowCache)
         /\ UNCHANGED <<runtime, sixbCache, sixb>>
    ELSE /\ ReadRows(snapshot.cache.rows, {id} \cap DOMAIN snapshot.cache.rows,
                     snapshot.rowCache)
         /\ Remember(snapshot)

(* get_by_lookup, scan_table and read_table: served by the projection when  *)
(* there is one.                                                           *)
ReadListed(snapshot, ids) ==
  IF runtime # None
    THEN /\ ReadRows(runtime.rows, ids, rowCache)
         /\ UNCHANGED <<runtime, sixbCache, sixb>>
    ELSE /\ ReadRows(snapshot.cache.rows, ids, snapshot.rowCache)
         /\ Remember(snapshot)

(* The rows a lookup key lists, without the entries that have no row. *)
GetByLookup(snapshot, key) ==
  ReadListed(snapshot, {id \in DOMAIN snapshot.cache.rows :
                          <<key, id>> \in snapshot.cache.lookups})

(* read_table; scan_table's page is one of the ranges in between. *)
ReadTable(snapshot) == ReadListed(snapshot, DOMAIN snapshot.cache.rows)

(* ensure_sixb_current; the counts do the same when there is no projection. *)
EnsureSixbCurrent(snapshot) ==
  /\ Remember(snapshot)
  /\ rowCache' = snapshot.rowCache
  /\ UNCHANGED <<chunkCache, chunkLen>>

Read ==
  /\ CanLoad
  /\ \E snapshot \in {Snapshot} :
       \/ \E id \in Ids : GetById(snapshot, id)
       \/ \E key \in Fields \X Keys : GetByLookup(snapshot, key)
       \/ ReadTable(snapshot)
       \/ EnsureSixbCurrent(snapshot)
  /\ UNCHANGED <<chunks, meta, nextTx, nextChunk, layout>>

Next ==
  \/ Write
  \/ Read
  \/ RebuildSixb
  \/ InitStore
  \/ Compact
  \/ StopInRemoval
  \/ StopBeforeMetadata
  \/ Restart

Spec == Init /\ [][Next]_vars

-----------------------------------------------------------------------------
(* Types.                                                                  *)

PartialOn(S, T, g) == DOMAIN g \subseteq S /\ g \in [DOMAIN g -> T]

Tx == 0..MaxTx

Chunk == 0..(MaxChunks - 1)

Pointer == Chunk \X Nat

Lookup == (Fields \X Keys) \X Ids

IsCache(c) ==
  /\ c = [rows |-> c.rows, lookups |-> c.lookups]
  /\ PartialOn(Ids, Pointer, c.rows)
  /\ c.lookups \subseteq Lookup

IsProjection(p) ==
  /\ p = [rows |-> p.rows, lookups |-> p.lookups, rowKeys |-> p.rowKeys]
  /\ PartialOn(Ids, Pointer, p.rows)
  /\ p.lookups \subseteq Lookup
  /\ PartialOn(Ids, SUBSET (Fields \X Keys), p.rowKeys)

IsSixb(s) ==
  /\ s = [source |-> s.source, cache |-> s.cache]
  /\ PartialOn(Chunk, Seq(Line(Tx)), s.source)
  /\ IsCache(s.cache)

(* The type of every file, cache and counter of the store. *)
TypeOK ==
  /\ PartialOn(Chunk, File(Tx), chunks)
  /\ sixb # None => IsSixb(sixb)
  /\ meta # None => meta \in [tx : Nat, chunk : Nat]
  /\ runtime # None => IsProjection(runtime)
  /\ sixbCache # None => IsCache(sixbCache)
  /\ PartialOn(Ids, Record, rowCache)
  /\ PartialOn(Chunk, File(Tx), chunkCache)
  /\ PartialOn(Chunk, Nat, chunkLen)
  /\ nextTx # None => nextTx \in Nat
  /\ nextChunk # None => nextChunk \in Nat
  /\ layout \in BOOLEAN

-----------------------------------------------------------------------------
(* Safety.                                                                 *)

(* The projection that writes maintain step by step, and any snapshot kept *)
(* beside it, are exactly what rebuild_sixb would build from the files:    *)
(* append_writes_six_layout_and_metadata compares the two once.            *)
ProjectionExact ==
  /\ runtime # None => runtime = FromCache(CacheOf(chunks))
  /\ sixbCache # None => sixbCache = CacheOf(chunks)

(* What a handle holds in memory about rows agrees with itself: the         *)
(* projection with the snapshot, cached records with the keys their rows    *)
(* are listed under (remove_record_lookups trusts either).                  *)
MemoryCoherent ==
  /\ runtime # None /\ sixbCache # None => ToCache(runtime) = sixbCache
  /\ runtime # None =>
       \A id \in DOMAIN rowCache :
         id \in DOMAIN runtime.rows /\ runtime.rowKeys[id] = LookupKeys(rowCache[id])

(* Cached chunk bytes and lengths are those of the files: append_target     *)
(* computes row offsets from the cached length without looking at the file. *)
ChunksCoherent ==
  /\ \A c \in DOMAIN chunkCache : c \in DOMAIN chunks /\ chunkCache[c] = chunks[c]
  /\ \A c \in DOMAIN chunkLen :
       c \in DOMAIN chunks /\ chunkLen[c] = Len(chunks[c].lines)

(* A pointer addresses a put of its row in `source`. *)
Addresses(p, id, source) ==
  /\ p[1] \in DOMAIN source
  /\ p[2] \in DOMAIN source[p[1]]
  /\ source[p[1]][p[2]].op = "put"
  /\ source[p[1]][p[2]].id = id

AddressPuts(rows, source) == \A id \in DOMAIN rows : Addresses(rows[id], id, source)

(* No row pointer dangles: one held in memory addresses a put of its row in *)
(* the files as they are now (read_row_pointer seeks there), one in the     *)
(* `.6b` file a put in the files it was built from.                         *)
PointersAddressRows ==
  /\ runtime # None => AddressPuts(runtime.rows, SourceOf(chunks))
  /\ sixbCache # None => AddressPuts(sixbCache.rows, SourceOf(chunks))
  /\ sixb # None => AddressPuts(sixb.cache.rows, sixb.source)

(* Every read answers from the log: get_by_id with the record of the last   *)
(* put, or nothing after a delete; a lookup count with the rows a scan      *)
(* lists under the key, whichever cache the answer comes from.              *)
AnswersExact ==
  CanLoad =>
    LET rows   == Snapshot.cache.rows
        cached == Snapshot.rowCache
        answer(id) == IF id \in DOMAIN rows
                        THEN IF id \in DOMAIN cached THEN cached[id] ELSE PointedAt(rows[id]).rec
                        ELSE NoRecord
    IN  /\ [id \in Ids |-> answer(id)] = LiveTable(chunks)
        /\ \A key \in Fields \X Keys :
             Cardinality({e \in Snapshot.cache.lookups : e[1] = key})
               = Cardinality({id \in Ids : LiveTable(chunks)[id] # NoRecord
                                             /\ key \in LookupKeys(LiveTable(chunks)[id])})

(* A handle opened on the files as they are now can read the table: every   *)
(* line decodes and no unique key is held by two rows.                     *)
FreshHandleCanRead == CanRebuild

(* A handle opened on the files as they are now can write the table: every  *)
(* chunk has its preamble; the recovered tx id is above all tx ids in the   *)
(* files; the recovered chunk is free or is the last one, so that its lines *)
(* come after all others.                                                  *)
FreshHandleCanWrite ==
  LET target == TargetFrom(RecoveredChunk, NoRows, 1)
  IN  /\ \A c \in DOMAIN chunks : chunks[c].head # "none" /\ c <= target.chunk
      /\ target.isNew => target.chunk \notin DOMAIN chunks
      /\ \A p \in DataLines(chunks) : At(chunks, p).tx < RecoveredTx

(* Reading the chunks in order is reading the operations in tx order: last  *)
(* writer wins (scan_table_files) then means highest tx wins.              *)
TxOrder ==
  \A p, q \in DataLines(chunks) :
    Before(p, q) => At(chunks, p).tx < At(chunks, q).tx

(* An insert-only batch never replaces a live row of the log, whichever     *)
(* cache its check was made against.                                       *)
InsertNeverReplaces ==
  CanLoad =>
    LET live == LiveTable(chunks)
    IN  \A b \in Accepted(Taken)["InsertOnly"], id \in Ids :
          id \in Touched(b) => live[id] = NoRecord

(* The row of an id changes only to what this step has written for that id, *)
(* and does change to it: no operation, recovery or compaction revives an   *)
(* old version, drops a row or shadows a write.                            *)
OnlyWritesChangeRows ==
  [][LET written(id) == {At(chunks', p).rec :
                           p \in {q \in Positions(chunks') : At(chunks', q).id = id
                                    /\ (q \in Positions(chunks) =>
                                          At(chunks, q) # At(chunks', q))}}
     IN  \A id \in Ids :
           LiveTable(chunks')[id] \in
             IF written(id) = {} THEN {LiveTable(chunks)[id]} ELSE written(id)]_chunks

(* No step, not even one that stops half way, brings an old version of a    *)
(* row back: a row changes to what the step has just written, or vanishes.  *)
NoStaleRow ==
  [][LET written == {At(chunks', p).rec : p \in Positions(chunks') \ Positions(chunks)}
     IN  \A id \in Ids :
           LiveTable(chunks')[id] \in {LiveTable(chunks)[id], NoRecord} \cup written]_chunks

(* A step that ends in a fresh handle, or that rewrites the chunks without  *)
(* a write batch, loses no row: `.6` data alone must be enough to recover.  *)
NoRowLost ==
  [][\A id \in Ids :
       LiveTable(chunks)[id] # NoRecord /\ LiveTable(chunks')[id] = NoRecord
         => \E p \in Positions(chunks') \ Positions(chunks) :
              At(chunks', p).op = "delete" /\ At(chunks', p).id = id]_chunks

Table == INSTANCE TableSpec WITH table <- LiveTable(chunks)

(* The store implements the table: each of its steps is a whole batch, the  *)
(* durable part of one, or changes nothing.  This is Table!Spec; a step     *)
(* that leaves the files alone leaves the table alone, and is not looked at. *)
TableRefinement == Table!Init /\ [][chunks' # chunks => Table!Next]_chunks
=============================================================================
