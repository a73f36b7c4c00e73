---------------------------- MODULE TableThreads ----------------------------
(***************************************************************************)
(* One table of a LocalStore that several threads share.  The caches of    *)
(* TableStore are each behind a lock of their own that is held for one     *)
(* access; writes and compactions of a table also hold its writer mutex    *)
(* from beginning to end, reads and rebuilds never do.  A step here is one *)
(* access to a cache or to a file, with the computation that follows it.   *)
(*                                                                         *)
(* A scan of the files is one step: what a scan that runs beside an append *)
(* finds, a scan at some moment of it finds too.                           *)
(***************************************************************************)
EXTENDS TableStore

Seqs == INSTANCE SequencesExt

CONSTANTS
  Threads,
  Situations  \* [roles, calls, logs]: what each thread may call, how many calls
              \* it makes (bounds the model), and the files that may be there

Calls == {"append", "get", "rebuild", "compact"}

(* Files as a handle that nothing stopped leaves them: chunks without a     *)
(* hole, whole lines in tx order, unique keys that are unique.             *)
LeftByHandle(log) ==
  /\ PartialOn(Chunk, File(Tx), log)
  /\ DOMAIN log = 0..(Cardinality(DOMAIN log) - 1)
  /\ \A c \in DOMAIN log : log[c].head = "whole"
  /\ \A p \in Positions(log) : At(log, p).cut = "no"
  /\ \A p, q \in Positions(log) : Before(p, q) => At(log, p).tx < At(log, q).tx
  /\ UniqueLookups(CacheOf(log).lookups)

ASSUME ThreadsAssumption ==
  /\ IsFiniteSet(Threads)
  /\ None \notin Threads \cup Nat
  /\ \A s \in Situations :
       /\ s.roles \in [Threads -> SUBSET Calls]
       /\ s.calls \in [Threads -> Nat]
       /\ \A log \in s.logs : LeftByHandle(log)

VARIABLES
  pc,       \* what a thread does next
  mine,     \* the locals of a thread's call
  writer,   \* the thread that holds the writer mutex of the table
  sixbTmp,  \* engine/<table>.sixb.tmp, which every rebuild writes
  calls,    \* calls a thread still makes
  roles     \* what each thread may call, from beginning to end

caches      == <<runtime, sixbCache, rowCache>>
chunkCaches == <<chunkCache, chunkLen>>
counters    == <<nextTx, nextChunk, meta, layout>>
turns       == <<calls, roles>>
control     == <<writer, turns>>
threadVars  == <<vars, pc, mine, control, sixbTmp>>

NoLocals ==
  [call |-> None, id |-> None, batch |-> None, mode |-> None, cache |-> None,
   source |-> None, records |-> None, proj |-> None, target |-> None, tx |-> None,
   ptr |-> None, file |-> None, may |-> {}, before |-> None,
   outcome |-> None, answer |-> None]

-----------------------------------------------------------------------------

(* A `.6b` file may be missing, or have been built from an earlier log. *)
SixbFound(logs) ==
  {None} \cup {[source |-> SourceOf(older), cache |-> CacheOf(older)] :
                 older \in {log \in logs :
                              /\ DOMAIN log \subseteq DOMAIN chunks
                              /\ \A c \in DOMAIN log :
                                   Seqs!IsPrefix(log[c].lines, chunks[c].lines)}}

ThreadsInit ==
  /\ \E s \in Situations :
       /\ roles = s.roles /\ calls = s.calls
       /\ chunks \in s.logs /\ sixb \in SixbFound(s.logs)
  /\ meta = None
  /\ runtime = None /\ sixbCache = None
  /\ rowCache = NoRows /\ chunkCache = NoRows /\ chunkLen = NoRows
  /\ nextTx = None /\ nextChunk = None /\ layout = FALSE
  /\ pc = [p \in Threads |-> "idle"]
  /\ mine = [p \in Threads |-> NoLocals]
  /\ writer = None
  /\ sixbTmp = None

Goto(p, label) == pc' = [pc EXCEPT ![p] = label]

Updated(old, locals) ==
  [x \in DOMAIN old |-> IF x \in DOMAIN locals THEN locals[x] ELSE old[x]]

(* What a call answered stays until the next call of its thread. *)
Answered(p, outcome, answer) ==
  /\ pc' = [pc EXCEPT ![p] = "idle"]
  /\ mine' = [mine EXCEPT ![p] =
                Updated(NoLocals, [call |-> mine[p].call, may |-> mine[p].may,
                                   outcome |-> outcome, answer |-> answer])]

(* The guard of the writer mutex is dropped on every way out. *)
Return(p, outcome, answer) ==
  /\ Answered(p, outcome, answer)
  /\ writer' = IF writer = p THEN None ELSE writer

Set(p, locals) == mine' = [mine EXCEPT ![p] = Updated(mine[p], locals)]

(* The values row `id` may have for a read that starts now: the log's, and  *)
(* the one an append that has not returned yet has just replaced.          *)
ValuesNow(id) ==
  {LiveTable(chunks)[id]}
    \cup {mine[q].before[id] : q \in {r \in Threads : mine[r].before # None}}

-----------------------------------------------------------------------------
(* Calls.                                                                  *)

Begin(p, label, locals) ==
  /\ pc[p] = "idle" /\ calls[p] > 0
  /\ pc' = [pc EXCEPT ![p] = label]
  /\ mine' = [mine EXCEPT ![p] = Updated(NoLocals, locals)]
  /\ calls' = [calls EXCEPT ![p] = @ - 1]
  /\ UNCHANGED <<vars, writer, roles, sixbTmp>>

(* append_batch, get_by_id, rebuild_sixb, compact_table are called. *)
Call(p) ==
  \/ /\ "append" \in roles[p]
     /\ \E b \in Batch, mode \in Modes :
          Begin(p, "lock", [call |-> "append", batch |-> b, mode |-> mode])
  \/ /\ "get" \in roles[p]
     /\ \E id \in Ids : Begin(p, "find", [call |-> "get", id |-> id, may |-> ValuesNow(id)])
  \/ /\ "rebuild" \in roles[p]
     /\ Begin(p, "scan", [call |-> "rebuild"])
  \/ /\ "compact" \in roles[p]
     /\ Begin(p, "lock", [call |-> "compact"])

(* Mutant: there is no mutex. *)
Lock_NoMutex(p) ==
  /\ pc[p] = "lock"
  /\ layout' = TRUE
  /\ Goto(p, IF mine[p].call = "append" THEN "take" ELSE "plan")
  /\ UNCHANGED <<disk, caches, chunkCaches, nextTx, nextChunk, mine, writer, turns, sixbTmp>>

(* The tx ids of the call are within the model's bound. *)
WithinMaxTx(p) ==
  IF mine[p].call = "append"
    THEN NextTxId + Len(mine[p].batch) <= MaxTx + 1
    ELSE DiscoveredTx(chunks) + Cardinality(DOMAIN LiveRecords(chunks)) <= MaxTx + 1

(* The writer mutex, then ensure_table_layout. *)
Lock(p) ==
  /\ pc[p] = "lock" /\ writer = None
  /\ LayoutOK
  /\ WithinMaxTx(p)
  /\ writer' = p
  /\ layout' = TRUE
  /\ Goto(p, IF mine[p].call = "append" THEN "take" ELSE "plan")
  /\ UNCHANGED <<disk, caches, chunkCaches, nextTx, nextChunk, mine, turns, sixbTmp>>

-----------------------------------------------------------------------------
(* ensure_sixb_snapshot and rebuild_sixb, on whatever thread calls them.   *)

(* Where a call goes on when it has its snapshot. *)
Loaded(p) == IF mine[p].call = "append" THEN "remove" ELSE "entry"

LoadRuntime(p) ==
  /\ pc[p] = "load"
  /\ IF runtime # None
       THEN Set(p, [cache |-> ToCache(runtime)]) /\ Goto(p, "remember")
       ELSE Goto(p, "cached") /\ UNCHANGED mine
  /\ UNCHANGED <<vars, control, sixbTmp>>

LoadCached(p) ==
  /\ pc[p] = "cached"
  /\ IF sixbCache # None
       THEN Set(p, [cache |-> sixbCache]) /\ Goto(p, Loaded(p))
       ELSE Goto(p, "file") /\ UNCHANGED mine
  /\ UNCHANGED <<vars, control, sixbTmp>>

ReadSixb(p) ==
  /\ pc[p] = "file"
  /\ IF sixb # None
       THEN Set(p, [cache |-> sixb.cache, source |-> sixb.source]) /\ Goto(p, "hash")
       ELSE Goto(p, "scan") /\ UNCHANGED mine
  /\ UNCHANGED <<vars, control, sixbTmp>>

(* Mutant: the file is used whatever it was built from. *)
CompareHash_AnySource(p) ==
  /\ pc[p] = "hash"
  /\ Goto(p, "remember")
  /\ UNCHANGED <<vars, mine, control, sixbTmp>>

CompareHash(p) ==
  /\ pc[p] = "hash"
  /\ Goto(p, IF mine[p].source = SourceOf(chunks) THEN "remember" ELSE "scan")
  /\ UNCHANGED <<vars, mine, control, sixbTmp>>

RememberSnapshot(p) ==
  /\ pc[p] = "remember"
  /\ sixbCache' = mine[p].cache
  /\ Goto(p, Loaded(p))
  /\ UNCHANGED <<disk, runtime, rowCache, chunkCaches, counters, mine, control, sixbTmp>>

(* Two rows with one unique key make the rebuild fail. *)
Scan(p) ==
  /\ pc[p] = "scan"
  /\ IF CanRebuild
       THEN /\ Set(p, [cache |-> CacheOf(chunks), source |-> SourceOf(chunks),
                       records |-> LiveRecords(chunks)])
            /\ Goto(p, "records")
            /\ UNCHANGED control
       ELSE Return(p, "error", None) /\ UNCHANGED turns
  /\ UNCHANGED <<vars, sixbTmp>>

RememberRecords(p) ==
  /\ pc[p] = "records"
  /\ rowCache' = mine[p].records
  /\ Goto(p, "tmp")
  /\ UNCHANGED <<disk, runtime, sixbCache, chunkCaches, counters, mine, control, sixbTmp>>

(* write_sixb_cache: one temporary name for all threads. *)
WriteTmp(p) ==
  /\ pc[p] = "tmp"
  /\ sixbTmp' = [source |-> mine[p].source, cache |-> mine[p].cache]
  /\ Goto(p, "rename")
  /\ UNCHANGED <<vars, mine, control>>

RenameTmp(p) ==
  /\ pc[p] = "rename"
  /\ IF sixbTmp # None
       THEN sixb' = sixbTmp /\ Goto(p, "snapshot") /\ UNCHANGED <<mine, writer>>
       ELSE sixb' = sixb /\ Return(p, "error", None)
  /\ sixbTmp' = None
  /\ UNCHANGED <<chunks, meta, memory, turns>>

RememberBuilt(p) ==
  /\ pc[p] = "snapshot"
  /\ sixbCache' = mine[p].cache
  /\ Goto(p, "project")
  /\ UNCHANGED <<disk, runtime, rowCache, chunkCaches, counters, mine, control, sixbTmp>>

RememberProjection(p) ==
  /\ pc[p] = "project"
  /\ runtime' = FromCache(mine[p].cache)
  /\ IF mine[p].call = "rebuild"
       THEN Return(p, "done", None)
       ELSE /\ Goto(p, IF mine[p].call = "compact" THEN "finish" ELSE "remember")
            /\ UNCHANGED <<mine, writer>>
  /\ UNCHANGED <<disk, sixbCache, rowCache, chunkCaches, counters, turns, sixbTmp>>

-----------------------------------------------------------------------------
(* append_batch_inner under the writer mutex.                              *)

(* take_runtime_sixb_for_write *)
Take(p) ==
  /\ pc[p] = "take"
  /\ runtime' = None
  /\ IF runtime # None
       THEN Set(p, [proj |-> runtime]) /\ Goto(p, "validate")
       ELSE Goto(p, "load") /\ UNCHANGED mine
  /\ UNCHANGED <<disk, sixbCache, rowCache, chunkCaches, counters, control, sixbTmp>>

(* take_sixb_cache_for_write: the snapshot that is there now. *)
TakeSnapshot(p) ==
  /\ pc[p] = "remove"
  /\ sixbCache # None
  /\ sixbCache' = None
  /\ Set(p, [proj |-> FromCache(sixbCache), cache |-> None, source |-> None,
             records |-> None])
  /\ Goto(p, "validate")
  /\ UNCHANGED <<disk, runtime, rowCache, chunkCaches, counters, control, sixbTmp>>

(* Mutant: a refused batch is tried again. *)
Validate_Retries(p) ==
  /\ pc[p] = "validate"
  /\ nextTx' = NextTxId
  /\ IF Accepts(mine[p].proj, mine[p].batch, mine[p].mode)
       THEN Set(p, [tx |-> NextTxId]) /\ Goto(p, "target")
       ELSE Goto(p, "take") /\ UNCHANGED mine
  /\ UNCHANGED <<disk, caches, chunkCaches, nextChunk, layout, control, sixbTmp>>

(* A refused batch does not put the projection back. *)
Validate(p) ==
  /\ pc[p] = "validate"
  /\ nextTx' = NextTxId
  /\ IF Accepts(mine[p].proj, mine[p].batch, mine[p].mode)
       THEN Set(p, [tx |-> NextTxId]) /\ Goto(p, "target") /\ UNCHANGED writer
       ELSE Return(p, "rejected", None)
  /\ UNCHANGED <<disk, caches, chunkCaches, nextChunk, layout, turns, sixbTmp>>

(* append_target; a chunk without a name or a new one that exists fails. *)
ChooseTarget(p) ==
  LET target == Target(Len(mine[p].batch))
  IN  /\ pc[p] = "target"
      /\ nextChunk' = NextChunkCounter
      /\ chunkLen' = target.lens
      /\ IF Usable(target)
           THEN Set(p, [target |-> target]) /\ Goto(p, "old") /\ UNCHANGED writer
           ELSE Return(p, "error", None)
      /\ UNCHANGED <<disk, caches, chunkCache, nextTx, meta, layout, turns, sixbTmp>>

(* cached_record for every row of the batch, and apply_operation. *)
Apply(p) ==
  LET batch == mine[p].batch
      ptr   == [j \in DOMAIN batch |-> <<mine[p].target.chunk, mine[p].target.offset + j>>]
  IN  /\ pc[p] = "old"
      /\ Set(p, [proj |-> ApplyBatch(mine[p].proj, batch, ptr, rowCache)])
      /\ Goto(p, "write")
      /\ UNCHANGED <<vars, control, sixbTmp>>

(* The values that a read in progress may answer, now that the log is `after`. *)
Witnessed(after, locals) ==
  [q \in Threads |->
     IF locals[q].call = "get" /\ pc[q] # "idle"
       THEN [locals[q] EXCEPT !.may = @ \cup {LiveTable(after)[locals[q].id]}]
       ELSE locals[q]]

(* create_new or append, and write_all: the batch is durable. *)
WriteLines(p) ==
  LET after == Extended(mine[p].target, "whole", EncodeBatch(mine[p].batch, mine[p].tx))
  IN  /\ pc[p] = "write"
      /\ chunks' = after
      /\ mine' = Witnessed(after, [mine EXCEPT ![p].before = LiveTable(chunks)])
      /\ Goto(p, "bytes")
      /\ UNCHANGED <<sixb, meta, memory, control, sixbTmp>>

(* remember_chunk for a new chunk, else forget_chunk: bytes, then length. *)
UpdateBytes(p) ==
  /\ pc[p] = "bytes"
  /\ chunkCache' = CachedAfter(mine[p].target, chunkCache,
                     [head |-> "whole", lines |-> EncodeBatch(mine[p].batch, mine[p].tx)])
  /\ Goto(p, "length")
  /\ UNCHANGED <<disk, caches, chunkLen, nextTx, nextChunk, layout, mine, control, sixbTmp>>

UpdateLength(p) ==
  /\ pc[p] = "length"
  /\ chunkLen' = CachedAfter(mine[p].target, chunkLen, Len(mine[p].batch))
  /\ Goto(p, "forget")
  /\ UNCHANGED <<disk, caches, chunkCache, nextTx, nextChunk, layout, mine, control, sixbTmp>>

(* Mutant: the snapshot from before the batch stays. *)
ForgetSnapshot_Keeps(p) ==
  /\ pc[p] = "forget"
  /\ Goto(p, IF mine[p].call = "append" THEN "publish" ELSE "unproject")
  /\ UNCHANGED <<vars, mine, control, sixbTmp>>

(* Mutant: the guard of the mutex is dropped once the batch is durable. *)
ForgetSnapshot_Unlocks(p) ==
  /\ pc[p] = "forget"
  /\ sixbCache' = None
  /\ writer' = None
  /\ Goto(p, IF mine[p].call = "append" THEN "publish" ELSE "unproject")
  /\ UNCHANGED <<disk, runtime, rowCache, chunkCaches, counters, mine, turns, sixbTmp>>

ForgetSnapshot(p) ==
  /\ pc[p] = "forget"
  /\ sixbCache' = None
  /\ Goto(p, IF mine[p].call = "append" THEN "publish" ELSE "unproject")
  /\ UNCHANGED <<disk, runtime, rowCache, chunkCaches, counters, mine, control, sixbTmp>>

Publish(p) ==
  /\ pc[p] = "publish"
  /\ runtime' = mine[p].proj
  /\ Goto(p, "rows")
  /\ UNCHANGED <<disk, sixbCache, rowCache, chunkCaches, counters, mine, control, sixbTmp>>

UpdateRecords(p) ==
  /\ pc[p] = "rows"
  /\ rowCache' = RecordsAfter(rowCache, mine[p].batch)
  /\ Goto(p, "count")
  /\ UNCHANGED <<disk, runtime, sixbCache, chunkCaches, counters, mine, control, sixbTmp>>

(* Mutant: the tx counter is not advanced. *)
Count_KeepsTx(p) ==
  /\ pc[p] = "count"
  /\ nextChunk' = mine[p].target.next
  /\ Return(p, "done", None)
  /\ UNCHANGED <<disk, caches, chunkCaches, nextTx, layout, turns, sixbTmp>>

Count(p) ==
  LET n == Len(mine[p].batch)
  IN  /\ pc[p] = "count"
      /\ nextTx' = mine[p].tx + n
      /\ nextChunk' = mine[p].target.next
      /\ meta' = IF n > 1 \/ meta = None
                   THEN Metadata(mine[p].tx + n, mine[p].target.next) ELSE meta
      /\ Return(p, "done", None)
      /\ UNCHANGED <<chunks, sixb, caches, chunkCaches, layout, turns, sixbTmp>>

-----------------------------------------------------------------------------
(* get_by_id, without the writer mutex.                                    *)

(* HashMap::insert *)
Put(cached, key, value) ==
  [x \in DOMAIN cached \cup {key} |-> IF x = key THEN value ELSE cached[x]]

Find(p) ==
  /\ pc[p] = "find"
  /\ IF runtime # None /\ mine[p].id \in DOMAIN runtime.rows
       THEN Set(p, [ptr |-> runtime.rows[mine[p].id]]) /\ Goto(p, "row")
       ELSE Goto(p, "load") /\ UNCHANGED mine
  /\ UNCHANGED <<vars, control, sixbTmp>>

FindInSnapshot(p) ==
  /\ pc[p] = "entry"
  /\ IF mine[p].id \in DOMAIN mine[p].cache.rows
       THEN /\ Set(p, [ptr |-> mine[p].cache.rows[mine[p].id], cache |-> None,
                       source |-> None, records |-> None])
            /\ Goto(p, "row")
            /\ UNCHANGED writer
       ELSE Return(p, "done", NoRecord)
  /\ UNCHANGED <<vars, turns, sixbTmp>>

ReadRecord(p) ==
  /\ pc[p] = "row"
  /\ IF mine[p].id \in DOMAIN rowCache
       THEN Return(p, "done", rowCache[mine[p].id])
       ELSE Goto(p, "chunk") /\ UNCHANGED <<mine, writer>>
  /\ UNCHANGED <<vars, turns, sixbTmp>>

(* read_chunk: the cached bytes, *)
ReadChunk(p) ==
  LET c == mine[p].ptr[1]
  IN  /\ pc[p] = "chunk"
      /\ IF c \in DOMAIN chunkCache
           THEN Set(p, [file |-> chunkCache[c]]) /\ Goto(p, "decode")
           ELSE Goto(p, "open") /\ UNCHANGED mine
      /\ UNCHANGED <<vars, control, sixbTmp>>

(* else the file, which may be gone. *)
OpenChunk(p) ==
  LET c == mine[p].ptr[1]
  IN  /\ pc[p] = "open"
      /\ IF c \in DOMAIN chunks
           THEN Set(p, [file |-> chunks[c]]) /\ Goto(p, "setlen") /\ UNCHANGED writer
           ELSE Return(p, "error", None)
      /\ UNCHANGED <<vars, turns, sixbTmp>>

RememberLength(p) ==
  /\ pc[p] = "setlen"
  /\ chunkLen' = Put(chunkLen, mine[p].ptr[1], Len(mine[p].file.lines))
  /\ Goto(p, "setbytes")
  /\ UNCHANGED <<disk, caches, chunkCache, nextTx, nextChunk, layout, mine, control, sixbTmp>>

RememberBytes(p) ==
  /\ pc[p] = "setbytes"
  /\ chunkCache' = Put(chunkCache, mine[p].ptr[1], mine[p].file)
  /\ Goto(p, "decode")
  /\ UNCHANGED <<disk, caches, chunkLen, nextTx, nextChunk, layout, mine, control, sixbTmp>>

(* read_row_pointer looks at no id: the record that is there is remembered  *)
(* under its own.                                                          *)
Decode(p) ==
  LET i == mine[p].ptr[2]  lines == mine[p].file.lines
  IN  /\ pc[p] = "decode"
      /\ IF i \in DOMAIN lines /\ lines[i].op = "put"
           THEN Return(p, "done", lines[i].rec) /\ rowCache' = Put(rowCache, lines[i].id, lines[i].rec)
           ELSE Return(p, "error", None) /\ UNCHANGED rowCache
      /\ UNCHANGED <<disk, runtime, sixbCache, chunkCaches, nextTx, nextChunk, layout, turns,
                     sixbTmp>>

-----------------------------------------------------------------------------
(* compact_table under the writer mutex.                                   *)

(* The scan does not look for unique keys that are used twice: the rebuild  *)
(* at the end does, when the old chunks are gone.                          *)
PlanCompaction(p) ==
  /\ pc[p] = "plan"
  /\ \E order \in LiveOrders :
       Set(p, [file |-> Compacted(order), tx |-> DiscoveredTx(chunks) + Len(order)])
  /\ Goto(p, "unlink")
  /\ UNCHANGED <<vars, control, sixbTmp>>

(* The old chunks are removed, lowest counter first. *)
RemoveChunk(p) ==
  /\ pc[p] = "unlink"
  /\ IF DOMAIN chunks # {}
       THEN /\ \E c \in DOMAIN chunks :
                 /\ \A d \in DOMAIN chunks : c <= d
                 /\ chunks' = [d \in DOMAIN chunks \ {c} |-> chunks[d]]
            /\ UNCHANGED pc
       ELSE Goto(p, "install") /\ UNCHANGED chunks
  /\ UNCHANGED <<sixb, meta, memory, mine, control, sixbTmp>>

(* The rename of compact.tmp. *)
InstallChunk(p) ==
  /\ pc[p] = "install"
  /\ chunks' = [c \in {0} |-> mine[p].file]
  /\ Goto(p, "bytes0")
  /\ UNCHANGED <<sixb, meta, memory, mine, control, sixbTmp>>

(* forget_table_chunks and remember_chunk: bytes, then lengths. *)
ReplaceBytes(p) ==
  /\ pc[p] = "bytes0"
  /\ chunkCache' = [c \in {0} |-> mine[p].file]
  /\ Goto(p, "length0")
  /\ UNCHANGED <<disk, caches, chunkLen, nextTx, nextChunk, layout, mine, control, sixbTmp>>

ReplaceLengths(p) ==
  /\ pc[p] = "length0"
  /\ chunkLen' = [c \in {0} |-> Len(mine[p].file.lines)]
  /\ Goto(p, "forget")
  /\ UNCHANGED <<disk, caches, chunkCache, nextTx, nextChunk, layout, mine, control, sixbTmp>>

(* forget_runtime_sixb_cache, and the counters; rebuild_sixb follows. *)
ForgetProjection(p) ==
  /\ pc[p] = "unproject"
  /\ runtime' = None
  /\ nextChunk' = 1
  /\ nextTx' = mine[p].tx
  /\ Goto(p, "scan")
  /\ UNCHANGED <<disk, sixbCache, rowCache, chunkCaches, layout, mine, control, sixbTmp>>

FinishCompaction(p) ==
  /\ pc[p] = "finish"
  /\ meta' = Metadata(mine[p].tx, NextChunkCounter)
  /\ Return(p, "done", None)
  /\ UNCHANGED <<chunks, sixb, memory, turns, sixbTmp>>

-----------------------------------------------------------------------------

LoadStep(p) == LoadRuntime(p) \/ LoadCached(p) \/ ReadSixb(p) \/ CompareHash(p)
                \/ RememberSnapshot(p)
BuildStep(p) == Scan(p) \/ RememberRecords(p) \/ WriteTmp(p) \/ RenameTmp(p)
                \/ RememberBuilt(p) \/ RememberProjection(p)
AppendStep(p) == Take(p) \/ TakeSnapshot(p) \/ Validate(p) \/ ChooseTarget(p) \/ Apply(p)
                \/ WriteLines(p) \/ UpdateBytes(p) \/ UpdateLength(p) \/ ForgetSnapshot(p)
                \/ Publish(p) \/ UpdateRecords(p) \/ Count(p)
GetStep(p) == Find(p) \/ FindInSnapshot(p) \/ ReadRecord(p) \/ ReadChunk(p) \/ OpenChunk(p)
                \/ RememberLength(p) \/ RememberBytes(p) \/ Decode(p)
CompactStep(p) == PlanCompaction(p) \/ RemoveChunk(p) \/ InstallChunk(p) \/ ReplaceBytes(p)
                \/ ReplaceLengths(p) \/ ForgetProjection(p) \/ FinishCompaction(p)

Step(p) == Lock(p) \/ LoadStep(p) \/ BuildStep(p) \/ AppendStep(p) \/ GetStep(p) \/ CompactStep(p)

(* All calls are made and have returned. *)
Finished ==
  /\ \A p \in Threads : pc[p] = "idle" /\ calls[p] = 0
  /\ UNCHANGED threadVars

ThreadsNext == (\E p \in Threads : Call(p) \/ Step(p)) \/ Finished

(* The system runs every thread that can run.  No caller is made to call.  *)
(* Weak fairness is enough for the mutex: calls are finitely many.         *)
ThreadsSpec == ThreadsInit /\ [][ThreadsNext]_threadVars /\ \A p \in Threads : WF_threadVars(Step(p))

-----------------------------------------------------------------------------

(* No thread makes one of these calls. *)
Nobody(calling) == \A p \in Threads : roles[p] \cap calling = {}

OnlyWriters == Nobody({"get", "rebuild"})
OnlyReaders == Nobody({"append", "compact"})

(* Every shared cache and every local of a call has its type, and the mutex *)
(* is held exactly by the thread that is inside a write or a compaction.   *)
ThreadsTypeOK ==
  /\ TypeOK
  /\ writer \in Threads \cup {None}
  /\ \A p \in Threads :
       writer = p <=> mine[p].call \in {"append", "compact"} /\ pc[p] \notin {"idle", "lock"}
  /\ sixbTmp # None => IsSixb(sixbTmp)
  /\ \A p \in Threads :
       /\ calls[p] \in Nat
       /\ mine[p].cache # None => IsCache(mine[p].cache)
       /\ mine[p].proj # None => IsProjection(mine[p].proj)
       /\ mine[p].may \subseteq Record \cup {NoRecord}

(* At most one live row of the log uses a key of a unique lookup, whoever   *)
(* reads and rebuilds beside the appends (book/02-schema.md:70).           *)
UniqueKeys == Table!UniqueIn(LiveTable(chunks))

(* While no writer is at work, a handle that only appends and compactions   *)
(* use is as exact as one that a single thread uses, and no unique key is  *)
(* used twice.                                                             *)
QuietExact ==
  OnlyWriters /\ writer = None =>
    ProjectionExact /\ MemoryCoherent /\ ChunksCoherent /\ UniqueKeys

(* Caches that only readers and rebuilds fill never disagree with the files, *)
(* whichever of them publishes last.                                       *)
CachesExact == OnlyReaders => ProjectionExact /\ MemoryCoherent /\ ChunksCoherent

(* Beside rebuilds and other gets, a get that returned a record, or none,   *)
(* returned a value its row had in the log at some moment of the call       *)
(* (get_by_id), whatever `.6b` file it started from.                       *)
GetsCurrent ==
  OnlyReaders =>
    \A p \in Threads :
      pc[p] = "idle" /\ mine[p].call = "get" /\ mine[p].outcome = "done"
        => mine[p].answer \in mine[p].may

(* Threads that append implement the abstract table, as one does: each      *)
(* change of the log is a whole batch that leaves unique keys unique.      *)
AppendsRefineTable ==
  [][OnlyWriters /\ Nobody({"compact"}) => Table!Next]_chunks

(* Whatever readers and rebuilds do to the caches, the log of a table that  *)
(* is not compacted changes by one batch at a time: its rows become what    *)
(* the batch of the append that writes says, and no other row changes.     *)
AppendsChangeRows ==
  [][Nobody({"compact"}) =>
       \E p \in {q \in Threads : pc[q] = "write"} :
         LET batch == mine[p].batch
         IN  \A id \in Ids :
               LiveTable(chunks')[id] =
                 IF id \in Touched(batch)
                   THEN batch[CHOOSE i \in DOMAIN batch : batch[i].id = id].rec
                   ELSE LiveTable(chunks)[id]]_chunks

(* Every call returns: no thread waits for the writer mutex, or for another *)
(* thread, for ever.                                                       *)
CallsReturn == \A p \in Threads : pc[p] # "idle" ~> pc[p] = "idle"
=============================================================================
