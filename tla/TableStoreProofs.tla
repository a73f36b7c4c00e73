-------------------------- MODULE TableStoreProofs --------------------------
(***************************************************************************)
(* Proofs about the store of one table, for every choice of faults.        *)
(***************************************************************************)
EXTENDS TableStore, MaximumProofs, SequenceTheorems, TLAPS

-----------------------------------------------------------------------------
(* Files and what is derived from them.                                    *)

(* A position of a chunk map is the address of one of its lines. *)
LEMMA PositionType ==
  ASSUME NEW files, PartialOn(Chunk, File(Tx), files), NEW p \in Positions(files)
  PROVE  /\ p \in Pointer
         /\ p[1] \in DOMAIN files
         /\ p[2] \in DOMAIN files[p[1]].lines
         /\ At(files, p) \in Line(Tx)
<1>1. PICK c \in DOMAIN files : p \in {<<c, i>> : i \in 1..Len(files[c].lines)}
  BY DEF Positions
<1>2. PICK i \in 1..Len(files[c].lines) : p = <<c, i>>
  BY <1>1
<1>3. c \in Chunk /\ files[c].lines \in Seq(Line(Tx))
  BY DEF PartialOn, File
<1>4. i \in DOMAIN files[c].lines /\ i \in Nat /\ files[c].lines[i] \in Line(Tx)
  BY <1>2, <1>3, LenProperties, ElementOfSeq
<1> QED  BY <1>2, <1>3, <1>4 DEF Pointer, At

(* The recovered tx id is within the model's bound (discovered_next_tx_id). *)
LEMMA DiscoveredTxType ==
  ASSUME NEW files, PartialOn(Chunk, File(Tx), files)
  PROVE  DiscoveredTx(files) \in 1..(MaxTx + 1)
<1> DEFINE txs == {0} \cup {At(files, p).tx : p \in {q \in Positions(files) : ~Swallowed(files, q)}}
<1>1. \A p \in Positions(files) : At(files, p).tx \in Tx
  BY PositionType DEF Line
<1>2. txs \in SUBSET Nat /\ txs # {} /\ \A t \in txs : t <= MaxTx
  BY <1>1, StoreAssumption DEF Tx
<1>3. \E m \in txs : \A t \in txs : t <= m
  <2> HIDE DEF txs
  <2> QED  BY <1>2, StoreAssumption, MaximumExists
<1>4. (CHOOSE m \in txs : \A t \in txs : t <= m) \in txs
  <2> HIDE DEF txs
  <2> QED  BY <1>3
<1> DEFINE top == CHOOSE m \in txs : \A t \in txs : t <= m
<1>5. DiscoveredTx(files) = top + 1
  BY DEF DiscoveredTx
<1>6. top \in Nat /\ top <= MaxTx
  <2> HIDE DEF txs
  <2> QED  BY <1>2, <1>4
<1> QED
  <2> HIDE DEF top
  <2> QED  BY <1>5, <1>6, StoreAssumption

(* A live position holds a put with its id and record. *)
LEMMA LivePositionType ==
  ASSUME NEW files, PartialOn(Chunk, File(Tx), files), NEW p \in LivePositions(files)
  PROVE  /\ p \in Positions(files)
         /\ At(files, p).op = "put"
         /\ At(files, p).id \in Ids
         /\ At(files, p).rec \in Record
<1>1. p \in Positions(files) /\ At(files, p).op = "put"
  BY DEF LivePositions, IsLive
<1> QED  BY <1>1, PositionType DEF Line

(* The files a hash covers are those with lines. *)
LEMMA SourceType ==
  ASSUME NEW files, PartialOn(Chunk, File(Tx), files)
  PROVE  PartialOn(Chunk, Seq(Line(Tx)), SourceOf(files))
BY DEF PartialOn, SourceOf, File

(* Every line is in the source of its files. *)
LEMMA PositionInSource ==
  ASSUME NEW files, PartialOn(Chunk, File(Tx), files), NEW p \in Positions(files)
  PROVE  /\ p[1] \in DOMAIN SourceOf(files)
         /\ p[2] \in DOMAIN SourceOf(files)[p[1]]
         /\ SourceOf(files)[p[1]][p[2]] = At(files, p)
<1>1. p[1] \in DOMAIN files /\ p[2] \in DOMAIN files[p[1]].lines
  BY PositionType
<1>2. files[p[1]].lines # <<>>
  BY <1>1
<1> QED  BY <1>1, <1>2 DEF SourceOf, At

(* scan_table_files points every live row at its last put. *)
LEMMA ScanRowsType ==
  ASSUME NEW files, PartialOn(Chunk, File(Tx), files)
  PROVE  /\ PartialOn(Ids, Pointer, ScanRows(files))
         /\ AddressPuts(ScanRows(files), SourceOf(files))
         /\ \A id \in DOMAIN ScanRows(files) :
              ScanRows(files)[id] \in LivePositions(files)
<1> DEFINE live == LivePositions(files)
<1>1. DOMAIN ScanRows(files) = {At(files, p).id : p \in live}
  BY DEF ScanRows
<1>2. ASSUME NEW id \in DOMAIN ScanRows(files)
      PROVE  /\ ScanRows(files)[id] \in live
             /\ At(files, ScanRows(files)[id]).id = id
  <2>1. \E p \in live : At(files, p).id = id
    BY <1>1
  <2>2. ScanRows(files)[id] = CHOOSE p \in live : At(files, p).id = id
    BY <1>1 DEF ScanRows
  <2> QED  BY <2>1, <2>2
<1>3. PartialOn(Ids, Pointer, ScanRows(files))
  <2>1. DOMAIN ScanRows(files) \subseteq Ids
    BY <1>1, LivePositionType
  <2>2. \A id \in DOMAIN ScanRows(files) : ScanRows(files)[id] \in Pointer
    BY <1>2, LivePositionType, PositionType
  <2> QED  BY <2>1, <2>2 DEF PartialOn, ScanRows
<1>4. AddressPuts(ScanRows(files), SourceOf(files))
  BY <1>2, LivePositionType, PositionInSource DEF AddressPuts, Addresses
<1> QED  BY <1>2, <1>3, <1>4

(* rebuild_sixb's cache has pointers and keys of declared lookups, and its  *)
(* records are records.                                                    *)
LEMMA CacheOfType ==
  ASSUME NEW files, PartialOn(Chunk, File(Tx), files)
  PROVE  /\ IsCache(CacheOf(files))
         /\ AddressPuts(CacheOf(files).rows, SourceOf(files))
         /\ PartialOn(Ids, Record, LiveRecords(files))
<1>1. CacheOf(files).lookups \subseteq Lookup
  <2>1. ASSUME NEW p \in LivePositions(files), NEW k \in LookupKeys(At(files, p).rec)
        PROVE  <<k, At(files, p).id>> \in Lookup
    <3>1. At(files, p).id \in Ids /\ At(files, p).rec \in Record
      BY LivePositionType
    <3> QED  BY <3>1 DEF LookupKeys, Lookup, Record
  <2> QED  BY <2>1 DEF CacheOf
<1>2. CacheOf(files).rows = ScanRows(files)
  BY DEF CacheOf
<1>3. IsCache(CacheOf(files))
  BY <1>1, <1>2, ScanRowsType DEF IsCache, CacheOf
<1>4. PartialOn(Ids, Record, LiveRecords(files))
  <2>1. \A id \in DOMAIN ScanRows(files) : At(files, ScanRows(files)[id]).rec \in Record
    BY ScanRowsType, LivePositionType
  <2>2. DOMAIN LiveRecords(files) = DOMAIN ScanRows(files)
    BY DEF LiveRecords
  <2> QED  BY <2>1, <2>2, ScanRowsType DEF LiveRecords, PartialOn
<1> QED  BY <1>2, <1>3, <1>4, ScanRowsType

(* from_cache and to_cache keep the rows. *)
LEMMA FromCacheType ==
  ASSUME NEW c, IsCache(c)
  PROVE  IsProjection(FromCache(c)) /\ FromCache(c).rows = c.rows
<1>1. DOMAIN FromCache(c).rowKeys \subseteq Ids
  BY DEF IsCache, FromCache, PartialOn, Lookup
<1>2. \A id \in DOMAIN FromCache(c).rowKeys :
        FromCache(c).rowKeys[id] \in SUBSET (Fields \X Keys)
  BY DEF IsCache, FromCache, Lookup
<1>3. PartialOn(Ids, SUBSET (Fields \X Keys), FromCache(c).rowKeys)
  BY <1>1, <1>2 DEF PartialOn, FromCache
<1> QED  BY <1>3 DEF IsProjection, IsCache, FromCache

LEMMA ToCacheType ==
  ASSUME NEW proj, IsProjection(proj)
  PROVE  IsCache(ToCache(proj)) /\ ToCache(proj).rows = proj.rows
BY DEF IsProjection, IsCache, ToCache

-----------------------------------------------------------------------------
(* The inductive invariant.                                                *)

(* What is held of rows in memory, or in a `.6b` file, is typed and its     *)
(* pointers address puts of their rows in the lines it was built from.      *)
RuntimeOK(proj, source) ==
  proj # None => IsProjection(proj) /\ AddressPuts(proj.rows, source)

CacheOK(cache, source) ==
  cache # None => IsCache(cache) /\ AddressPuts(cache.rows, source)

SixbOK(s) == s # None => IsSixb(s) /\ AddressPuts(s.cache.rows, s.source)

(* Cached chunk bytes and lengths are those of `files`. *)
FilesOK(cached, files) ==
  /\ PartialOn(Chunk, File(Tx), cached)
  /\ \A c \in DOMAIN cached : c \in DOMAIN files /\ cached[c] = files[c]

LensOK(lens, files) ==
  /\ PartialOn(Chunk, Nat, lens)
  /\ \A c \in DOMAIN lens : c \in DOMAIN files /\ lens[c] = Len(files[c].lines)

CountersOK(m, tx, chunk) ==
  /\ m # None => m \in [tx : Nat, chunk : Nat]
  /\ tx # None => tx \in Nat
  /\ chunk # None => chunk \in Nat

(* A step keeps the types only because the offsets it computes from cached  *)
(* lengths are right, and the pointers only because the types are: the      *)
(* three checked invariants are inductive together.                         *)
IInv ==
  /\ PartialOn(Chunk, File(Tx), chunks)
  /\ SixbOK(sixb)
  /\ RuntimeOK(runtime, SourceOf(chunks))
  /\ CacheOK(sixbCache, SourceOf(chunks))
  /\ PartialOn(Ids, Record, rowCache)
  /\ FilesOK(chunkCache, chunks)
  /\ LensOK(chunkLen, chunks)
  /\ CountersOK(meta, nextTx, nextChunk)
  /\ layout \in BOOLEAN

LEMMA IInvImplies == IInv => TypeOK /\ ChunksCoherent /\ PointersAddressRows
BY DEF IInv, TypeOK, ChunksCoherent, PointersAddressRows, SixbOK, RuntimeOK, CacheOK,
       FilesOK, LensOK, CountersOK

(* No cache and no file says nothing wrong. *)
LEMMA NoRowsType ==
  ASSUME NEW S, NEW T
  PROVE  PartialOn(S, T, NoRows) /\ DOMAIN NoRows = {}
BY DEF PartialOn, NoRows

(* An empty table with a fresh handle. *)
LEMMA InitIInv == Init => IInv
<1> SUFFICES ASSUME Init PROVE IInv
  OBVIOUS
<1>1. FilesOK(chunkCache, chunks) /\ LensOK(chunkLen, chunks)
  BY NoRowsType DEF Init, FilesOK, LensOK
<1> QED
  BY <1>1, NoRowsType DEF Init, IInv, SixbOK, RuntimeOK, CacheOK, CountersOK

(* Whatever the files are, a fresh handle holds nothing wrong. *)
LEMMA FreshHandleIInv ==
  ASSUME PartialOn(Chunk, File(Tx), chunks'), SixbOK(sixb'),
         meta' # None => meta' \in [tx : Nat, chunk : Nat],
         FreshHandle
  PROVE  IInv'
<1>1. FilesOK(chunkCache', chunks') /\ LensOK(chunkLen', chunks')
  BY NoRowsType DEF FreshHandle, FilesOK, LensOK
<1> QED
  BY <1>1, NoRowsType DEF FreshHandle, IInv, RuntimeOK, CacheOK, CountersOK

-----------------------------------------------------------------------------
(* Counters and targets.                                                   *)

LEMMA CountersType ==
  ASSUME IInv
  PROVE  NextTxId \in Nat /\ NextChunkCounter \in Nat
<1>1. DiscoveredTx(chunks) \in Nat
  BY DiscoveredTxType, StoreAssumption DEF IInv
<1>2. Cardinality(DOMAIN chunks) \in Nat
  <2>1. IsFiniteSet(Chunk)
    BY FS_Interval, StoreAssumption DEF Chunk
  <2>2. IsFiniteSet(DOMAIN chunks)
    BY <2>1, FS_Subset DEF IInv, PartialOn
  <2> QED  BY <2>2, FS_CardinalityType
<1>3. RecoveredTx \in Nat /\ RecoveredChunk \in Nat
  BY <1>1, <1>2 DEF IInv, CountersOK, RecoveredTx, RecoveredChunk, Highest
<1> QED  BY <1>3 DEF IInv, CountersOK, NextTxId, NextChunkCounter

(* A target whose offset is where the next line of its chunk goes. *)
IsTarget(target) ==
  /\ target.isNew \in BOOLEAN
  /\ target.chunk \in Nat /\ target.next \in Nat
  /\ target.isNew => target.offset = 0
  /\ ~target.isNew => /\ target.chunk \in DOMAIN chunks
                      /\ target.offset = Len(chunks[target.chunk].lines)
  /\ LensOK(target.lens, chunks)

(* append_target: the cached length of the current chunk is its length. *)
LEMMA TargetType ==
  ASSUME IInv, NEW n \in Nat
  PROVE  IsTarget(Target(n))
<1> DEFINE next    == NextChunkCounter
           current == next - 1
           exists  == next > 0 /\ current \in DOMAIN chunks
           len     == IF current \in DOMAIN chunkLen THEN chunkLen[current]
                                                     ELSE Len(chunks[current].lines)
           fits    == exists /\ len + n <= ChunkLimit
           lens    == [c \in DOMAIN chunkLen \cup {current} |->
                         IF c = current THEN len ELSE chunkLen[c]]
<1>1. next \in Nat /\ (next > 0 => current \in Nat)
  BY CountersType
<1>2. exists => len = Len(chunks[current].lines)
  BY DEF IInv, LensOK
<1>3. exists => LensOK(lens, chunks)
  <2> SUFFICES ASSUME exists PROVE LensOK(lens, chunks)
    OBVIOUS
  <2>1. current \in Chunk /\ len \in Nat
    BY <1>2, LenProperties DEF IInv, PartialOn, File
  <2>2. \A c \in DOMAIN lens : lens[c] \in Nat /\ c \in Chunk
    BY <2>1 DEF IInv, LensOK, PartialOn
  <2>3. PartialOn(Chunk, Nat, lens)
    BY <2>2 DEF PartialOn
  <2> QED  BY <1>2, <2>3 DEF IInv, LensOK
<1>4. Target(n) = [chunk  |-> IF fits THEN current ELSE next,
                   isNew  |-> ~fits,
                   offset |-> IF fits THEN len ELSE 0,
                   next   |-> IF fits THEN next ELSE next + 1,
                   lens   |-> IF exists THEN lens ELSE chunkLen]
  BY DEF Target, TargetFrom
<1>5. LensOK(chunkLen, chunks)
  BY DEF IInv
<1>6. CASE fits
  <2>1. Target(n) = [chunk |-> current, isNew |-> FALSE, offset |-> len,
                     next |-> next, lens |-> lens]
    BY <1>4, <1>6
  <2>2. exists /\ next > 0 /\ current \in DOMAIN chunks
    BY <1>6
  <2> HIDE DEF next, current, len, lens
  <2> QED  BY <2>1, <2>2, <1>1, <1>2, <1>3 DEF IsTarget
<1>7. CASE ~fits
  <2> DEFINE kept == IF exists THEN lens ELSE chunkLen
  <2>1. Target(n) = [chunk |-> next, isNew |-> TRUE, offset |-> 0,
                     next |-> next + 1, lens |-> kept]
    BY <1>4, <1>7
  <2>2. LensOK(kept, chunks)
    BY <1>3, <1>5
  <2> HIDE DEF next, kept
  <2> QED  BY <2>1, <2>2, <1>1 DEF IsTarget
<1> QED  BY <1>6, <1>7

LEMMA UsableTarget ==
  ASSUME NEW target, IsTarget(target), Usable(target)
  PROVE  /\ target.chunk \in Chunk
         /\ target.isNew <=> target.chunk \notin DOMAIN chunks
BY StoreAssumption DEF IsTarget, Usable, Chunk

-----------------------------------------------------------------------------
(* Writing.                                                                *)

(* A batch is encoded to as many lines, which hold its operations. *)
LEMMA EncodeBatchType ==
  ASSUME NEW batch \in Seq(Operation), NEW tx \in Nat, tx + Len(batch) <= MaxTx + 1
  PROVE  /\ EncodeBatch(batch, tx) \in Seq(Line(Tx))
         /\ Len(EncodeBatch(batch, tx)) = Len(batch)
         /\ \A j \in DOMAIN batch :
              EncodeBatch(batch, tx)[j] = EncodeLine(batch[j], tx + (j - 1))
<1>1. Len(batch) \in Nat /\ DOMAIN batch = 1..Len(batch)
  BY LenProperties
<1>2. ASSUME NEW j \in 1..Len(batch)
      PROVE  EncodeLine(batch[j], tx + (j - 1)) \in Line(Tx)
  <2>1. tx + (j - 1) \in Tx
    BY <1>1, StoreAssumption DEF Tx
  <2>2. batch[j] \in Operation
    BY <1>1, <1>2, ElementOfSeq
  <2> QED  BY <2>1, <2>2 DEF Operation, EncodeLine, Line, Cut
<1> DEFINE e == [j \in 1..Len(batch) |-> EncodeLine(batch[j], tx + (j - 1))]
<1>3. e \in [1..Len(batch) -> Line(Tx)]
  BY <1>2
<1>4. e \in Seq(Line(Tx)) /\ Len(e) = Len(batch)
  <2> HIDE DEF e
  <2> QED  BY <1>1, <1>3, SeqDef, LenProperties
<1> QED  BY <1>1, <1>4 DEF EncodeBatch

(* The file a write goes to holds its old lines and the new ones.  The      *)
(* other files are untouched.                                              *)
LEMMA ExtendedType ==
  ASSUME PartialOn(Chunk, File(Tx), chunks),
         NEW target, IsTarget(target), Usable(target),
         NEW head \in Preamble, NEW lines \in Seq(Line(Tx))
  PROVE  /\ PartialOn(Chunk, File(Tx), Extended(target, head, lines))
         /\ DOMAIN Extended(target, head, lines) = DOMAIN chunks \cup {target.chunk}
         /\ \A c \in DOMAIN chunks \ {target.chunk} :
              Extended(target, head, lines)[c] = chunks[c]
         /\ Extended(target, head, lines)[target.chunk].lines =
              IF target.isNew THEN lines ELSE chunks[target.chunk].lines \o lines
<1> DEFINE file == IF target.isNew
                     THEN [head |-> head, lines |-> lines]
                     ELSE [chunks[target.chunk] EXCEPT !.lines = @ \o lines]
           ext  == [c \in DOMAIN chunks \cup {target.chunk} |->
                      IF c = target.chunk THEN file ELSE chunks[c]]
<1>1. Extended(target, head, lines) = ext
  BY DEF Extended
<1>2. ASSUME ~target.isNew
      PROVE  /\ chunks[target.chunk] \in File(Tx)
             /\ file = [head  |-> chunks[target.chunk].head,
                        lines |-> chunks[target.chunk].lines \o lines]
  <2>1. chunks[target.chunk] \in File(Tx)
    BY <1>2 DEF IsTarget, PartialOn
  <2> QED  BY <1>2, <2>1 DEF File
<1>3. file \in File(Tx)
  <2>1. CASE target.isNew
    BY <2>1 DEF File
  <2>2. CASE ~target.isNew
    BY <2>2, <1>2, ConcatProperties DEF File
  <2> QED  BY <2>1, <2>2
<1>4. file.lines = IF target.isNew THEN lines ELSE chunks[target.chunk].lines \o lines
  BY <1>2
<1>5. target.chunk \in Chunk
  BY UsableTarget
<1> HIDE DEF file
<1>6. \A c \in DOMAIN ext : c \in Chunk /\ ext[c] \in File(Tx)
  BY <1>3, <1>5 DEF PartialOn
<1>7. PartialOn(Chunk, File(Tx), ext)
  BY <1>6 DEF PartialOn
<1> QED  BY <1>1, <1>4, <1>7

(* Old pointers address the same lines afterwards. *)
LEMMA ExtendedKeepsPointers ==
  ASSUME PartialOn(Chunk, File(Tx), chunks),
         NEW target, IsTarget(target), Usable(target),
         NEW head \in Preamble, NEW lines \in Seq(Line(Tx)),
         NEW p, NEW id, Addresses(p, id, SourceOf(chunks))
  PROVE  Addresses(p, id, SourceOf(Extended(target, head, lines)))
<1> DEFINE ext == Extended(target, head, lines)
           c   == p[1]
           i   == p[2]
<1>0. /\ DOMAIN ext = DOMAIN chunks \cup {target.chunk}
      /\ \A d \in DOMAIN chunks \ {target.chunk} : ext[d] = chunks[d]
      /\ ext[target.chunk].lines =
           IF target.isNew THEN lines ELSE chunks[target.chunk].lines \o lines
  BY ExtendedType, ZenonT(30)
<1> HIDE DEF ext
<1>1. c \in DOMAIN SourceOf(chunks) /\ i \in DOMAIN SourceOf(chunks)[c]
      /\ SourceOf(chunks)[c][i].op = "put" /\ SourceOf(chunks)[c][i].id = id
  BY DEF Addresses
<1> HIDE DEF c, i
<1>2. c \in DOMAIN chunks /\ SourceOf(chunks)[c] = chunks[c].lines
  BY <1>1 DEF SourceOf
<1>3. chunks[c].lines \in Seq(Line(Tx)) /\ i \in 1..Len(chunks[c].lines)
  BY <1>1, <1>2, LenProperties DEF PartialOn, File
<1>4. /\ c \in DOMAIN ext
      /\ i \in DOMAIN ext[c].lines
      /\ ext[c].lines[i] = chunks[c].lines[i]
  <2>1. CASE c # target.chunk
    BY <2>1, <1>0, <1>2, <1>3, LenProperties
  <2>2. CASE c = target.chunk
    <3>1. ext[c].lines = chunks[c].lines \o lines
      BY <2>2, <1>0, <1>2, UsableTarget
    <3>2. c \in DOMAIN ext
      BY <2>2, <1>0
    <3> QED  BY <3>1, <3>2, <1>3, ConcatProperties, LenProperties
  <2> QED  BY <2>1, <2>2
<1> DEFINE line == ext[c].lines[i]
<1>5. line.op = "put" /\ line.id = id
  BY <1>1, <1>2, <1>4
<1>6. ext[c].lines # <<>>
  BY <1>4
<1>7. c \in DOMAIN SourceOf(ext) /\ SourceOf(ext)[c] = ext[c].lines
  BY <1>4, <1>6 DEF SourceOf
<1> QED  BY <1>4, <1>5, <1>7 DEF Addresses, ext, c, i

(* The new lines follow the offset of the target. *)
LEMMA ExtendedHasNewLines ==
  ASSUME PartialOn(Chunk, File(Tx), chunks),
         NEW target, IsTarget(target), Usable(target),
         NEW head \in Preamble, NEW lines \in Seq(Line(Tx)),
         NEW j \in DOMAIN lines, lines[j].op = "put"
  PROVE  Addresses(<<target.chunk, target.offset + j>>, lines[j].id,
                   SourceOf(Extended(target, head, lines)))
<1> DEFINE ext   == Extended(target, head, lines)
           c     == target.chunk
           i     == target.offset + j
           after == ext[c].lines
<1>1. c \in DOMAIN ext /\ after = IF target.isNew THEN lines ELSE chunks[c].lines \o lines
  BY ExtendedType, ZenonT(30)
<1>2. Len(lines) \in Nat /\ j \in 1..Len(lines)
  BY LenProperties
<1>3. i \in DOMAIN after /\ after[i] = lines[j]
  <2>1. CASE target.isNew
    <3>1. target.offset = 0 /\ i = j /\ after = lines
      BY <2>1, <1>1, <1>2 DEF IsTarget
    <3> HIDE DEF after, i
    <3> QED  BY <3>1
  <2>2. CASE ~target.isNew
    <3> DEFINE old == chunks[c].lines
    <3>1. old \in Seq(Line(Tx))
      BY <2>2 DEF IsTarget, PartialOn, File
    <3>2. target.offset = Len(old) /\ after = old \o lines
      BY <2>2, <1>1 DEF IsTarget
    <3> HIDE DEF old, after
    <3>3. Len(old) \in Nat
      BY <3>1, LenProperties
    <3>4. i \in 1..(Len(old) + Len(lines)) /\ ~(i <= Len(old)) /\ i - Len(old) = j
      BY <3>2, <3>3, <1>2
    <3>5. after \in Seq(Line(Tx)) /\ Len(after) = Len(old) + Len(lines)
      BY <3>1, <3>2, ConcatProperties
    <3>6. after[i] = IF i <= Len(old) THEN old[i] ELSE lines[i - Len(old)]
      BY <3>1, <3>2, <3>4, ConcatProperties
    <3> HIDE DEF i
    <3>7. i \in DOMAIN after
      BY <3>4, <3>5, LenProperties
    <3> QED  BY <3>4, <3>6, <3>7
  <2> QED  BY <2>1, <2>2
<1> HIDE DEF ext, i
<1>4. after # <<>>
  BY <1>3
<1>5. c \in DOMAIN SourceOf(ext) /\ SourceOf(ext)[c] = after
  BY <1>1, <1>4 DEF SourceOf
<1> HIDE DEF after
<1>6. /\ c \in DOMAIN SourceOf(ext) /\ i \in DOMAIN SourceOf(ext)[c]
      /\ SourceOf(ext)[c][i].op = "put" /\ SourceOf(ext)[c][i].id = lines[j].id
  BY <1>3, <1>5
<1> HIDE DEF c
<1>7. Addresses(<<c, i>>, lines[j].id, SourceOf(ext))
  BY <1>6 DEF Addresses
<1> QED  BY <1>3, <1>7 DEF ext, i, c

(* apply_operation: a row keeps its pointer, or gets that of its put. *)
LEMMA ApplyBatchType ==
  ASSUME NEW proj, IsProjection(proj), NEW batch \in Seq(Operation),
         NEW ptr \in [DOMAIN batch -> Pointer],
         NEW cached, PartialOn(Ids, Record, cached)
  PROVE  LET after == ApplyBatch(proj, batch, ptr, cached)
         IN  /\ IsProjection(after)
             /\ \A id \in DOMAIN after.rows :
                  \/ id \in DOMAIN proj.rows /\ after.rows[id] = proj.rows[id]
                  \/ \E j \in DOMAIN batch : /\ batch[j].op = "put" /\ batch[j].id = id
                                             /\ after.rows[id] = ptr[j]
<1> DEFINE after     == ApplyBatch(proj, batch, ptr, cached)
           puts      == {j \in DOMAIN batch : batch[j].op = "put"}
           putIds    == {batch[j].id : j \in puts}
           index(id) == CHOOSE j \in puts : batch[j].id = id
           kept(S)   == (S \ Touched(batch)) \cup putIds
           added     == UNION {{<<k, batch[j].id>> : k \in LookupKeys(batch[j].rec)} :
                                 j \in puts}
<1>1. \A j \in puts : batch[j].id \in Ids /\ LookupKeys(batch[j].rec) \subseteq Fields \X Keys
  <2> SUFFICES ASSUME NEW j \in puts
               PROVE  batch[j].id \in Ids /\ LookupKeys(batch[j].rec) \subseteq Fields \X Keys
    OBVIOUS
  <2>1. batch[j] \in Operation
    BY ElementOfSeq, LenProperties
  <2>2. batch[j].id \in Ids /\ batch[j].rec \in Record
    BY <2>1 DEF Operation
  <2> QED  BY <2>2 DEF LookupKeys, Record
<1>2. \A id \in putIds : id \in Ids /\ index(id) \in puts /\ batch[index(id)].id = id
  BY <1>1
<1>3. /\ DOMAIN after.rows = kept(DOMAIN proj.rows)
      /\ \A id \in DOMAIN after.rows :
           after.rows[id] = IF id \in putIds THEN ptr[index(id)] ELSE proj.rows[id]
  BY DEF ApplyBatch
<1>4. /\ DOMAIN after.rowKeys = kept(DOMAIN proj.rowKeys)
      /\ \A id \in DOMAIN after.rowKeys :
           after.rowKeys[id] = IF id \in putIds THEN LookupKeys(batch[index(id)].rec)
                                                ELSE proj.rowKeys[id]
  BY DEF ApplyBatch
<1>5. after.lookups \subseteq proj.lookups \cup added
  BY DEF ApplyBatch
<1>6. after = [rows |-> after.rows, lookups |-> after.lookups, rowKeys |-> after.rowKeys]
  BY DEF ApplyBatch
<1> HIDE DEF after
<1>7. PartialOn(Ids, Pointer, after.rows)
  <2>1. \A id \in DOMAIN after.rows : id \in Ids /\ after.rows[id] \in Pointer
    BY <1>2, <1>3 DEF IsProjection, PartialOn
  <2>2. after.rows = [id \in DOMAIN after.rows |-> after.rows[id]]
    BY DEF after, ApplyBatch
  <2> QED  BY <2>1, <2>2 DEF PartialOn
<1>8. PartialOn(Ids, SUBSET (Fields \X Keys), after.rowKeys)
  <2>1. \A id \in DOMAIN proj.rowKeys :
          id \in Ids /\ proj.rowKeys[id] \in SUBSET (Fields \X Keys)
    BY DEF IsProjection, PartialOn
  <2>2. ASSUME NEW id \in DOMAIN after.rowKeys
        PROVE  id \in Ids /\ after.rowKeys[id] \in SUBSET (Fields \X Keys)
    <3>1. CASE id \in putIds
      <4> HIDE DEF index
      <4> QED  BY <3>1, <2>2, <1>1, <1>2, <1>4
    <3>2. CASE id \notin putIds
      BY <3>2, <2>1, <2>2, <1>4
    <3> QED  BY <3>1, <3>2
  <2>3. after.rowKeys = [id \in DOMAIN after.rowKeys |-> after.rowKeys[id]]
    BY DEF after, ApplyBatch
  <2> QED  BY <2>2, <2>3 DEF PartialOn
<1>9. after.lookups \subseteq Lookup
  <2>1. added \subseteq Lookup
    BY <1>1 DEF Lookup
  <2> QED  BY <2>1, <1>5 DEF IsProjection
<1>10. IsProjection(after)
  BY <1>6, <1>7, <1>8, <1>9 DEF IsProjection
<1>11. ASSUME NEW id \in DOMAIN after.rows
       PROVE  \/ id \in DOMAIN proj.rows /\ after.rows[id] = proj.rows[id]
              \/ \E j \in DOMAIN batch : /\ batch[j].op = "put" /\ batch[j].id = id
                                         /\ after.rows[id] = ptr[j]
  <2>1. CASE id \in putIds
    BY <2>1, <1>2, <1>3, <1>11
  <2>2. CASE id \notin putIds
    BY <2>2, <1>3, <1>11
  <2> QED  BY <2>1, <2>2
<1> QED  BY <1>10, <1>11 DEF after

-----------------------------------------------------------------------------
(* Loading and reading.                                                    *)

(* What a load leaves behind, and the snapshot it found. *)
LoadOK(loaded) ==
  /\ IsCache(loaded.cache) /\ AddressPuts(loaded.cache.rows, SourceOf(chunks))
  /\ RuntimeOK(loaded.runtime, SourceOf(chunks))
  /\ CacheOK(loaded.sixbCache, SourceOf(chunks))
  /\ PartialOn(Ids, Record, loaded.rowCache)
  /\ SixbOK(loaded.sixb)

(* Records after a batch, and what is cached of chunks, keep their types. *)
LEMMA RecordsAfterType ==
  ASSUME NEW cached, PartialOn(Ids, Record, cached), NEW b \in Seq(Operation)
  PROVE  PartialOn(Ids, Record, RecordsAfter(cached, b))
<1> DEFINE puts == {j \in DOMAIN b : b[j].op = "put"}
           put  == {b[j].id : j \in puts}
           index(id) == CHOOSE j \in puts : b[j].id = id
           after == RecordsAfter(cached, b)
<1>1. after = [id \in (DOMAIN cached \ Touched(b)) \cup put |->
                 IF id \in put THEN b[index(id)].rec ELSE cached[id]]
  BY DEF RecordsAfter
<1>2. \A j \in puts : b[j].id \in Ids /\ b[j].rec \in Record
  BY LenProperties, ElementOfSeq DEF Operation
<1>3. \A id \in put : index(id) \in puts /\ id \in Ids
  BY <1>2
<1> HIDE DEF index, put, puts, after
<1>4. \A id \in DOMAIN after : id \in Ids /\ after[id] \in Record
  BY <1>1, <1>2, <1>3 DEF PartialOn
<1>5. PartialOn(Ids, Record, after)
  BY <1>1, <1>4 DEF PartialOn
<1> QED  BY <1>5 DEF after

LEMMA CachedAfterType ==
  ASSUME NEW T, NEW cached, PartialOn(Chunk, T, cached), NEW value \in T,
         NEW target, target.chunk \in Chunk
  PROVE  PartialOn(Chunk, T, CachedAfter(target, cached, value))
BY DEF PartialOn, CachedAfter

(* rebuild_sixb *)
LEMMA RebuiltType ==
  ASSUME PartialOn(Chunk, File(Tx), chunks)
  PROVE  LoadOK(Rebuilt)
<1> DEFINE cache == CacheOf(chunks)
           file  == [source |-> SourceOf(chunks), cache |-> cache]
<1>1. /\ IsCache(cache) /\ AddressPuts(cache.rows, SourceOf(chunks))
      /\ PartialOn(Ids, Record, LiveRecords(chunks))
  BY CacheOfType
<1>2. IsProjection(FromCache(cache)) /\ FromCache(cache).rows = cache.rows
  BY <1>1, FromCacheType
<1>3. SixbOK(file)
  BY <1>1, SourceType DEF SixbOK, IsSixb
<1>4. Rebuilt = [cache |-> cache, runtime |-> FromCache(cache), sixbCache |-> cache,
                 rowCache |-> LiveRecords(chunks), sixb |-> file]
  BY DEF Rebuilt
<1> HIDE DEF cache, file
<1> QED  BY <1>1, <1>2, <1>3, <1>4 DEF LoadOK, RuntimeOK, CacheOK

(* ensure_sixb_snapshot: a `.6b` file is used only if its pointers address  *)
(* the files as they are now (sixb_rejects_stale_source_hash).             *)
LEMMA SnapshotType ==
  ASSUME IInv
  PROVE  LoadOK(Snapshot) /\ (runtime # None => Snapshot.cache.rows = runtime.rows)
<1> DEFINE found(cache) == [cache |-> cache, runtime |-> runtime, sixbCache |-> cache,
                            rowCache |-> rowCache, sixb |-> sixb]
<1>1. ASSUME NEW cache, IsCache(cache), AddressPuts(cache.rows, SourceOf(chunks))
      PROVE  LoadOK(found(cache))
  BY <1>1 DEF IInv, LoadOK, CacheOK
<1>2. CASE runtime # None
  <2>1. IsProjection(runtime) /\ AddressPuts(runtime.rows, SourceOf(chunks))
    BY <1>2 DEF IInv, RuntimeOK
  <2>2. IsCache(ToCache(runtime)) /\ ToCache(runtime).rows = runtime.rows
    BY <2>1, ToCacheType
  <2>3. Snapshot = found(ToCache(runtime))
    BY <1>2 DEF Snapshot
  <2>4. LoadOK(Snapshot)
    BY <2>1, <2>2, <2>3, <1>1
  <2> QED  BY <2>2, <2>3, <2>4
<1>3. CASE runtime = None /\ sixbCache # None
  <2>1. Snapshot = found(sixbCache)
    BY <1>3 DEF Snapshot
  <2> QED  BY <2>1, <1>1, <1>3 DEF IInv, CacheOK
<1>4. CASE runtime = None /\ sixbCache = None /\ SixbIsCurrent
  <2>1. Snapshot = found(sixb.cache)
    BY <1>4 DEF Snapshot
  <2>2. IsCache(sixb.cache) /\ AddressPuts(sixb.cache.rows, SourceOf(chunks))
    BY <1>4 DEF IInv, SixbOK, IsSixb, SixbIsCurrent
  <2> QED  BY <2>1, <2>2, <1>1, <1>4
<1>5. CASE runtime = None /\ sixbCache = None /\ ~SixbIsCurrent
  <2>1. Snapshot = Rebuilt
    BY <1>5 DEF Snapshot
  <2> QED  BY <2>1, <1>5, RebuiltType DEF IInv
<1> QED  BY <1>2, <1>3, <1>4, <1>5

(* take_runtime_sixb_for_write *)
LEMMA TakenType ==
  ASSUME IInv
  PROVE  /\ IsProjection(Taken.proj) /\ AddressPuts(Taken.proj.rows, SourceOf(chunks))
         /\ RuntimeOK(Taken.runtime, SourceOf(chunks))
         /\ CacheOK(Taken.sixbCache, SourceOf(chunks))
         /\ PartialOn(Ids, Record, Taken.rowCache)
         /\ SixbOK(Taken.sixb)
         /\ Taken.tx \in Nat
<1>1. CASE runtime # None
  <2>1. Taken = [proj |-> runtime, tx |-> NextTxId, runtime |-> None,
                 sixbCache |-> sixbCache, rowCache |-> rowCache, sixb |-> sixb]
    BY <1>1 DEF Taken
  <2> QED  BY <1>1, <2>1, CountersType DEF IInv, RuntimeOK
<1>2. CASE runtime = None
  <2>1. Taken = [proj |-> FromCache(Snapshot.cache), tx |-> NextTxId,
                 runtime |-> Snapshot.runtime, sixbCache |-> None,
                 rowCache |-> Snapshot.rowCache, sixb |-> Snapshot.sixb]
    BY <1>2 DEF Taken
  <2>2. LoadOK(Snapshot)
    BY SnapshotType
  <2>3. /\ IsProjection(FromCache(Snapshot.cache))
        /\ FromCache(Snapshot.cache).rows = Snapshot.cache.rows
    BY <2>2, FromCacheType DEF LoadOK
  <2> QED  BY <2>1, <2>2, <2>3, CountersType DEF LoadOK, CacheOK
<1> QED  BY <1>1, <1>2

(* read_row_pointer: a pointer leads to a record, in the cached chunk or in *)
(* the file.                                                               *)
LEMMA PointedAtType ==
  ASSUME IInv, NEW rows, PartialOn(Ids, Pointer, rows), AddressPuts(rows, SourceOf(chunks)),
         NEW id \in DOMAIN rows
  PROVE  PointedAt(rows[id]).rec \in Record /\ rows[id][1] \in DOMAIN chunks
<1> DEFINE c == rows[id][1]
           i == rows[id][2]
<1>1. c \in DOMAIN SourceOf(chunks) /\ i \in DOMAIN SourceOf(chunks)[c]
      /\ SourceOf(chunks)[c][i].op = "put"
  BY DEF AddressPuts, Addresses
<1>2. c \in DOMAIN chunks /\ SourceOf(chunks)[c] = chunks[c].lines
  BY <1>1 DEF SourceOf
<1>3. PointedAt(rows[id]) = chunks[c].lines[i]
  BY DEF PointedAt, IInv, FilesOK
<1>4. chunks[c].lines \in Seq(Line(Tx))
  BY <1>2 DEF IInv, PartialOn, File
<1>5. chunks[c].lines[i] \in Line(Tx)
  BY <1>1, <1>2, <1>4, ElementOfSeq, LenProperties
<1> QED  BY <1>1, <1>2, <1>3, <1>5 DEF Line

(* Reading rows fills the caches with what the files hold. *)
LEMMA ReadRowsType ==
  ASSUME IInv, NEW rows, PartialOn(Ids, Pointer, rows), AddressPuts(rows, SourceOf(chunks)),
         NEW ids \in SUBSET DOMAIN rows, NEW cached, PartialOn(Ids, Record, cached),
         ReadRows(rows, ids, cached), chunks' = chunks
  PROVE  /\ PartialOn(Ids, Record, rowCache')
         /\ FilesOK(chunkCache', chunks')
         /\ LensOK(chunkLen', chunks')
<1> DEFINE missing == ids \ DOMAIN cached
           loaded  == {rows[id][1] : id \in missing} \ DOMAIN chunkCache
<1>1. \A id \in missing : /\ id \in Ids
                          /\ PointedAt(rows[id]).rec \in Record
                          /\ rows[id][1] \in DOMAIN chunks
  BY PointedAtType DEF PartialOn
<1>2. loaded \subseteq DOMAIN chunks
  BY <1>1
<1>3. PartialOn(Ids, Record, rowCache')
  <2>1. rowCache' = [id \in DOMAIN cached \cup missing |->
                       IF id \in missing THEN PointedAt(rows[id]).rec ELSE cached[id]]
    BY DEF ReadRows
  <2> HIDE DEF missing
  <2>2. \A id \in DOMAIN rowCache' : id \in Ids /\ rowCache'[id] \in Record
    BY <1>1, <2>1 DEF PartialOn
  <2> QED  BY <2>1, <2>2 DEF PartialOn
<1>4. FilesOK(chunkCache', chunks')
  <2>1. chunkCache' = [c \in DOMAIN chunkCache \cup loaded |->
                         IF c \in loaded THEN chunks[c] ELSE chunkCache[c]]
    BY DEF ReadRows
  <2> HIDE DEF loaded
  <2>2. \A c \in DOMAIN chunkCache' : c \in DOMAIN chunks /\ chunkCache'[c] = chunks[c]
    BY <1>2, <2>1 DEF IInv, FilesOK
  <2>3. PartialOn(Chunk, File(Tx), chunkCache')
    BY <2>1, <2>2 DEF IInv, PartialOn
  <2> QED  BY <2>2, <2>3 DEF FilesOK
<1>5. LensOK(chunkLen', chunks')
  <2>1. chunkLen' = [c \in DOMAIN chunkLen \cup loaded |->
                       IF c \in loaded THEN Len(chunks[c].lines) ELSE chunkLen[c]]
    BY DEF ReadRows
  <2> HIDE DEF loaded
  <2>2. \A c \in DOMAIN chunkLen' :
          c \in DOMAIN chunks /\ chunkLen'[c] = Len(chunks[c].lines)
    BY <1>2, <2>1 DEF IInv, LensOK
  <2>3. \A c \in DOMAIN chunks : c \in Chunk /\ Len(chunks[c].lines) \in Nat
    BY LenProperties DEF IInv, PartialOn, File
  <2>4. PartialOn(Chunk, Nat, chunkLen')
    BY <2>1, <2>2, <2>3 DEF PartialOn
  <2> QED  BY <2>2, <2>4 DEF LensOK
<1> QED  BY <1>3, <1>4, <1>5

-----------------------------------------------------------------------------
(* Every step preserves the invariant.                                     *)

(* A read of rows from the projection, or from a snapshot. *)
LEMMA ReadIInv ==
  ASSUME IInv, Read
  PROVE  IInv'
<1> DEFINE snapshot == Snapshot
<1>1. /\ chunks' = chunks /\ meta' = meta
      /\ nextTx' = nextTx /\ nextChunk' = nextChunk /\ layout' = layout
  BY DEF Read
<1>2. LoadOK(snapshot) /\ (runtime # None => snapshot.cache.rows = runtime.rows)
  BY SnapshotType
<1>3. runtime # None => /\ PartialOn(Ids, Pointer, runtime.rows)
                        /\ AddressPuts(runtime.rows, SourceOf(chunks))
  BY DEF IInv, RuntimeOK, IsProjection
<1>4. /\ PartialOn(Ids, Pointer, snapshot.cache.rows)
      /\ AddressPuts(snapshot.cache.rows, SourceOf(chunks))
      /\ PartialOn(Ids, Record, snapshot.rowCache)
  BY <1>2 DEF LoadOK, IsCache
<1> DEFINE
      Kept     == UNCHANGED <<runtime, sixbCache, sixb>>
      ByRows   == \E ids \in SUBSET DOMAIN runtime.rows :
                    runtime # None /\ ReadRows(runtime.rows, ids, rowCache) /\ Kept
      BySixb   == \E ids \in SUBSET DOMAIN snapshot.cache.rows :
                    ReadRows(snapshot.cache.rows, ids, snapshot.rowCache) /\ Remember(snapshot)
<1>5. ByRows \/ BySixb \/ EnsureSixbCurrent(snapshot)
  <2>1. ASSUME NEW ids \in SUBSET DOMAIN snapshot.cache.rows, ReadListed(snapshot, ids)
        PROVE  ByRows \/ BySixb
    <3> HIDE DEF snapshot
    <3>1. CASE runtime # None
      BY <3>1, <2>1, <1>2 DEF ReadListed
    <3>2. CASE runtime = None
      BY <3>2, <2>1 DEF ReadListed
    <3> QED  BY <3>1, <3>2
  <2>2. ASSUME NEW id \in Ids, GetById(snapshot, id)
        PROVE  ByRows \/ BySixb
    <3> HIDE DEF snapshot
    <3>1. CASE runtime # None /\ id \in DOMAIN runtime.rows
      BY <3>1, <2>2 DEF GetById
    <3>2. CASE ~(runtime # None /\ id \in DOMAIN runtime.rows)
      BY <3>2, <2>2 DEF GetById
    <3> QED  BY <3>1, <3>2
  <2>3. ASSUME NEW key \in Fields \X Keys, GetByLookup(snapshot, key)
        PROVE  ByRows \/ BySixb
    <3> DEFINE ids == {id \in DOMAIN snapshot.cache.rows : <<key, id>> \in snapshot.cache.lookups}
    <3>1. ids \in SUBSET DOMAIN snapshot.cache.rows /\ ReadListed(snapshot, ids)
      BY <2>3 DEF GetByLookup
    <3> HIDE DEF ids, ByRows, BySixb, snapshot
    <3> QED  BY <3>1, <2>1
  <2>4. ReadTable(snapshot) => ByRows \/ BySixb
    <3> HIDE DEF ByRows, BySixb, snapshot
    <3> QED  BY <2>1 DEF ReadTable
  <2>5. \/ \E id \in Ids : GetById(snapshot, id)
        \/ \E key \in Fields \X Keys : GetByLookup(snapshot, key)
        \/ ReadTable(snapshot)
        \/ EnsureSixbCurrent(snapshot)
    BY DEF Read
  <2> HIDE DEF ByRows, BySixb, snapshot
  <2> QED  BY <2>2, <2>3, <2>4, <2>5
<1> HIDE DEF snapshot
<1>6. CASE ByRows
  <2>1. PICK ids \in SUBSET DOMAIN runtime.rows :
               runtime # None /\ ReadRows(runtime.rows, ids, rowCache) /\ Kept
    BY <1>6
  <2>2. PartialOn(Ids, Record, rowCache)
    BY DEF IInv
  <2>3. /\ PartialOn(Ids, Record, rowCache')
        /\ FilesOK(chunkCache', chunks') /\ LensOK(chunkLen', chunks')
    BY <2>1, <2>2, <1>1, <1>3, ReadRowsType
  <2> QED  BY <2>1, <2>3, <1>1 DEF IInv
<1>7. CASE BySixb
  <2>1. PICK ids \in SUBSET DOMAIN snapshot.cache.rows :
               ReadRows(snapshot.cache.rows, ids, snapshot.rowCache) /\ Remember(snapshot)
    BY <1>7
  <2>2. /\ PartialOn(Ids, Record, rowCache')
        /\ FilesOK(chunkCache', chunks') /\ LensOK(chunkLen', chunks')
    BY <2>1, <1>1, <1>4, ReadRowsType
  <2> QED  BY <2>1, <2>2, <1>1, <1>2 DEF IInv, Remember, LoadOK
<1>8. CASE EnsureSixbCurrent(snapshot)
  BY <1>8, <1>1, <1>2 DEF IInv, EnsureSixbCurrent, Remember, LoadOK
<1> QED  BY <1>5, <1>6, <1>7, <1>8

LEMMA RebuildIInv ==
  ASSUME IInv, RebuildSixb \/ InitStore
  PROVE  IInv'
<1>1. LoadOK(Rebuilt)
  BY RebuiltType DEF IInv
<1>2. /\ runtime' = Rebuilt.runtime /\ sixbCache' = Rebuilt.sixbCache
      /\ rowCache' = Rebuilt.rowCache /\ sixb' = Rebuilt.sixb
  BY DEF RebuildSixb, InitStore, Rebuild
<1>3. chunks' = chunks /\ chunkCache' = chunkCache /\ chunkLen' = chunkLen
  BY DEF RebuildSixb, InitStore
<1>4. CountersOK(meta', nextTx', nextChunk') /\ layout' \in BOOLEAN
  <2>1. CASE RebuildSixb
    BY <2>1 DEF RebuildSixb, IInv
  <2>2. CASE InitStore
    BY <2>2, CountersType DEF InitStore, Metadata, CountersOK
  <2> QED  BY <2>1, <2>2
<1> QED  BY <1>1, <1>2, <1>3, <1>4 DEF IInv, LoadOK

LEMMA RestartIInv ==
  ASSUME IInv, Restart
  PROVE  IInv'
<1>1. PartialOn(Chunk, File(Tx), chunks') /\ SixbOK(sixb')
  BY DEF IInv, Restart, disk
<1>2. meta' # None => meta' \in [tx : Nat, chunk : Nat]
  BY DEF IInv, Restart, disk, CountersOK
<1>3. FreshHandle
  BY DEF Restart
<1> QED  BY <1>1, <1>2, <1>3, FreshHandleIInv

(* Some chunks are gone. *)
LEMMA StopInRemovalIInv ==
  ASSUME IInv, StopInRemoval
  PROVE  IInv'
<1>1. PICK kept \in SUBSET DOMAIN chunks : chunks' = [c \in kept |-> chunks[c]]
  BY DEF StopInRemoval
<1>2. PartialOn(Chunk, File(Tx), chunks')
  <2>1. \A c \in kept : c \in Chunk /\ chunks[c] \in File(Tx)
    BY DEF IInv, PartialOn
  <2> QED  BY <1>1, <2>1 DEF PartialOn
<1>3. sixb' = sixb /\ meta' = meta /\ FreshHandle
  BY DEF StopInRemoval
<1> QED  BY <1>2, <1>3, FreshHandleIInv DEF IInv, CountersOK

(* Compaction's chunk holds one put per live row, numbered in range. *)
LEMMA CompactedType ==
  ASSUME PartialOn(Chunk, File(Tx), chunks),
         DiscoveredTx(chunks) + Cardinality(DOMAIN LiveRecords(chunks)) <= MaxTx + 1,
         NEW order \in LiveOrders
  PROVE  /\ PartialOn(Chunk, File(Tx), [c \in {0} |-> Compacted(order)])
         /\ Len(order) \in Nat
<1> DEFINE records == LiveRecords(chunks)
           live    == DOMAIN records
           tx      == DiscoveredTx(chunks)
           puts    == [j \in 1..Len(order) |->
                         [op |-> "put", id |-> order[j], rec |-> records[order[j]]]]
<1>1. PartialOn(Ids, Record, records)
  BY CacheOfType
<1>2. Cardinality(live) \in Nat
  BY <1>1, LogAssumption, FS_Subset, FS_CardinalityType DEF PartialOn
<1>3. order \in [1..Cardinality(live) -> live]
  BY DEF LiveOrders
<1>4. order \in Seq(live) /\ Len(order) = Cardinality(live)
  <2> HIDE DEF live
  <2> QED  BY <1>2, <1>3, SeqDef, LenProperties
<1>5. \A j \in 1..Len(order) : order[j] \in Ids /\ records[order[j]] \in Record
  BY <1>1, <1>2, <1>3, <1>4 DEF PartialOn
<1> HIDE DEF records, live
<1>6. puts \in [1..Len(order) -> Operation]
  BY <1>5 DEF Operation
<1>7. puts \in Seq(Operation) /\ Len(puts) = Len(order)
  <2> HIDE DEF puts
  <2> QED  BY <1>2, <1>4, <1>6, SeqDef, LenProperties
<1>8. tx \in Nat /\ tx + Len(puts) <= MaxTx + 1
  <2>1. tx \in Nat
    BY DiscoveredTxType, StoreAssumption
  <2>2. tx + Cardinality(DOMAIN LiveRecords(chunks)) <= MaxTx + 1
    OBVIOUS
  <2> QED  BY <2>1, <2>2, <1>4, <1>7 DEF live, records
<1>9. EncodeBatch(puts, tx) \in Seq(Line(Tx))
  <2> HIDE DEF puts, tx
  <2> QED  BY <1>7, <1>8, EncodeBatchType
<1>10. Compacted(order) = [head |-> "whole", lines |-> EncodeBatch(puts, tx)]
  BY DEF Compacted, records
<1>11. Compacted(order) \in File(Tx)
  BY <1>9, <1>10 DEF File, Preamble
<1>12. 0 \in Chunk
  BY StoreAssumption DEF Chunk
<1> QED  BY <1>2, <1>4, <1>11, <1>12 DEF PartialOn

LEMMA CompactIInv ==
  ASSUME IInv, Compact
  PROVE  IInv'
<1>1. PICK order \in LiveOrders :
        LET after == [c \in {0} |-> Compacted(order)]
            cache == CacheOf(after)
            tx    == DiscoveredTx(chunks) + Len(order)
        IN  /\ CanCompact
            /\ chunks' = after
            /\ chunkCache' = after
            /\ chunkLen' = [c \in {0} |-> Len(Compacted(order).lines)]
            /\ runtime' = FromCache(cache)
            /\ sixbCache' = cache
            /\ rowCache' = LiveRecords(after)
            /\ sixb' = [source |-> SourceOf(after), cache |-> cache]
            /\ nextTx' = tx
            /\ nextChunk' = 1
            /\ meta' = Metadata(tx, 1)
            /\ layout' = TRUE
  BY DEF Compact
<1> DEFINE after == [c \in {0} |-> Compacted(order)]
           cache == CacheOf(after)
           tx    == DiscoveredTx(chunks) + Len(order)
<1>2. PartialOn(Chunk, File(Tx), after) /\ Len(order) \in Nat
  BY <1>1, CompactedType DEF IInv, CanCompact
<1>3. chunks' = after /\ chunkCache' = after /\ DOMAIN after = {0}
  BY <1>1
<1>4. chunkLen' = [c \in {0} |-> Len(after[c].lines)]
  BY <1>1
<1>5. /\ runtime' = FromCache(cache) /\ sixbCache' = cache
      /\ rowCache' = LiveRecords(after)
      /\ sixb' = [source |-> SourceOf(after), cache |-> cache]
  BY <1>1
<1>6. CountersOK(meta', nextTx', nextChunk') /\ layout' \in BOOLEAN
  <2>1. DiscoveredTx(chunks) \in Nat
    BY DiscoveredTxType, StoreAssumption DEF IInv
  <2>2. tx \in Nat
    BY <2>1, <1>2
  <2>3. nextTx' = tx /\ nextChunk' = 1 /\ meta' = Metadata(tx, 1) /\ layout' = TRUE
    BY <1>1
  <2> HIDE DEF tx
  <2> QED  BY <2>2, <2>3 DEF CountersOK, Metadata
<1> HIDE DEF after
<1>7. /\ IsCache(cache) /\ AddressPuts(cache.rows, SourceOf(after))
      /\ PartialOn(Ids, Record, LiveRecords(after))
  BY <1>2, CacheOfType
<1>8. IsProjection(FromCache(cache)) /\ FromCache(cache).rows = cache.rows
  BY <1>7, FromCacheType
<1> HIDE DEF cache
<1>9. SixbOK(sixb')
  BY <1>2, <1>5, <1>7, SourceType DEF SixbOK, IsSixb
<1>10. RuntimeOK(runtime', SourceOf(chunks')) /\ CacheOK(sixbCache', SourceOf(chunks'))
  BY <1>3, <1>5, <1>7, <1>8 DEF RuntimeOK, CacheOK
<1>11. FilesOK(chunkCache', chunks')
  BY <1>2, <1>3 DEF FilesOK
<1>12. LensOK(chunkLen', chunks')
  <2>1. \A c \in {0} : c \in Chunk /\ Len(after[c].lines) \in Nat
    BY <1>2, <1>3, LenProperties DEF PartialOn, File
  <2> QED  BY <1>3, <1>4, <2>1 DEF LensOK, PartialOn
<1> QED  BY <1>2, <1>3, <1>5, <1>6, <1>7, <1>9, <1>10, <1>11, <1>12 DEF IInv

LEMMA StopBeforeMetadataIInv ==
  ASSUME IInv, StopBeforeMetadata
  PROVE  IInv'
<1>1. PICK order \in LiveOrders :
        LET after == [c \in {0} |-> Compacted(order)]
        IN  /\ chunks' = after
            /\ \/ sixb' = sixb
               \/ sixb' = [source |-> SourceOf(after), cache |-> CacheOf(after)]
  BY DEF StopBeforeMetadata
<1> DEFINE after == [c \in {0} |-> Compacted(order)]
<1>2. CanCompact /\ meta' = meta /\ FreshHandle
  BY DEF StopBeforeMetadata
<1>3. PartialOn(Chunk, File(Tx), after)
  BY <1>2, CompactedType DEF IInv, CanCompact
<1>4. /\ chunks' = after
      /\ \/ sixb' = sixb
         \/ sixb' = [source |-> SourceOf(after), cache |-> CacheOf(after)]
  BY <1>1
<1> HIDE DEF after
<1>5. IsCache(CacheOf(after)) /\ AddressPuts(CacheOf(after).rows, SourceOf(after))
  BY <1>3, CacheOfType
<1>6. SixbOK(sixb')
  BY <1>3, <1>4, <1>5, SourceType DEF SixbOK, IsSixb, IInv
<1> QED  BY <1>2, <1>3, <1>4, <1>6, FreshHandleIInv DEF IInv, CountersOK

(* The parts of a write. *)
LEMMA WriteCases ==
  ASSUME Write
  PROVE  \/ RejectBatch(Taken)
         \/ \E n \in Nat : RefuseTarget(Taken, Target(n))
         \/ \E b \in Batch : AppendBatch(Taken, b, Target(Len(b)))
         \/ \E b \in Batch : StopInAppend(Taken, b, Target(Len(b)))
<1>1. ASSUME NEW b \in Batch
      PROVE  Len(b) \in Nat
  BY SeqDef, LenProperties, StoreAssumption DEF Batch
<1>2. PICK valid \in SUBSET Batch :
        \/ RejectBatch(Taken)
        \/ \E n \in {Len(b) : b \in valid} :
             \/ RefuseTarget(Taken, Target(n))
             \/ \E b \in valid :
                  /\ Len(b) = n
                  /\ AppendBatch(Taken, b, Target(n)) \/ StopInAppend(Taken, b, Target(n))
  BY DEF Write
<1> QED  BY <1>1, <1>2

LEMMA BatchIsSeq ==
  ASSUME NEW b \in Batch
  PROVE  b \in Seq(Operation)
BY SeqDef, StoreAssumption DEF Batch

(* The projection taken for a refused batch is gone; nothing else changes.  *)
LEMMA RefusedIInv ==
  ASSUME IInv,
         RejectBatch(Taken) \/ \E n \in Nat : RefuseTarget(Taken, Target(n))
  PROVE  IInv'
<1>1. /\ runtime' = Taken.runtime /\ sixbCache' = Taken.sixbCache
      /\ rowCache' = Taken.rowCache /\ sixb' = Taken.sixb /\ nextTx' = Taken.tx
      /\ layout' = TRUE
      /\ chunks' = chunks /\ meta' = meta /\ chunkCache' = chunkCache
  BY DEF RejectBatch, RefuseTarget
<1>2. LensOK(chunkLen', chunks) /\ (nextChunk' # None => nextChunk' \in Nat)
  <2>1. CASE RejectBatch(Taken)
    BY <2>1 DEF RejectBatch, IInv, CountersOK
  <2>2. ASSUME NEW n \in Nat, RefuseTarget(Taken, Target(n))
        PROVE  LensOK(chunkLen', chunks) /\ (nextChunk' # None => nextChunk' \in Nat)
    <3>1. chunkLen' = Target(n).lens /\ nextChunk' = NextChunkCounter
      BY <2>2 DEF RefuseTarget
    <3> QED  BY <3>1, TargetType, CountersType DEF IsTarget
  <2> QED  BY <2>1, <2>2
<1> QED  BY <1>1, <1>2, TakenType DEF IInv, CountersOK

(* A write that stops leaves whole files, or cut ones. *)
LEMMA StopInAppendIInv ==
  ASSUME IInv, NEW b \in Batch, StopInAppend(Taken, b, Target(Len(b)))
  PROVE  IInv'
<1> DEFINE target == Target(Len(b))
           lines  == EncodeBatch(b, Taken.tx)
<1>1. b \in Seq(Operation) /\ Len(b) \in Nat
  BY BatchIsSeq, LenProperties
<1>2. IsTarget(target) /\ Usable(target) /\ Taken.tx + Len(b) <= MaxTx + 1
  BY <1>1, TargetType DEF StopInAppend, CanAppend
<1>3. lines \in Seq(Line(Tx)) /\ Len(lines) = Len(b)
  BY <1>1, <1>2, TakenType, EncodeBatchType
<1>4. chunks' \in Interrupted(target, lines)
  BY DEF StopInAppend
<1> HIDE DEF target, lines
<1>5. \A k \in 0..Len(lines) : SubSeq(lines, 1, k) \in Seq(Line(Tx))
  BY <1>3, SubSeqProperties
<1>6. \A k \in 1..Len(lines), cut \in Cut :
        [SubSeq(lines, 1, k) EXCEPT ![k].cut = cut] \in Seq(Line(Tx))
  <2> SUFFICES ASSUME NEW k \in 1..Len(lines), NEW cut \in Cut
               PROVE  [SubSeq(lines, 1, k) EXCEPT ![k].cut = cut] \in Seq(Line(Tx))
    OBVIOUS
  <2> DEFINE pre == SubSeq(lines, 1, k)
  <2>1. pre \in Seq(Line(Tx)) /\ Len(pre) = k
    BY <1>3, SubSeqProperties
  <2> HIDE DEF pre
  <2>2. k \in 1..Len(pre) /\ pre[k] \in Line(Tx)
    BY <2>1, ElementOfSeq
  <2>3. [pre[k] EXCEPT !.cut = cut] \in Line(Tx)
    BY <2>2 DEF Line
  <2>4. [pre EXCEPT ![k] = [pre[k] EXCEPT !.cut = cut]] \in Seq(Line(Tx))
    BY <2>1, <2>2, <2>3, ExceptSeq
  <2>5. [pre EXCEPT ![k].cut = cut] = [pre EXCEPT ![k] = [pre[k] EXCEPT !.cut = cut]]
    OBVIOUS
  <2> QED  BY <2>4, <2>5 DEF pre
<1>7. PICK head \in Preamble, s \in Seq(Line(Tx)) :
        chunks' = Extended(target, head, s)
  <2>1. <<>> \in Seq(Line(Tx)) /\ {"none", "cut", "whole"} \subseteq Preamble
    BY EmptySeq DEF Preamble
  <2> DEFINE whole(t) == Extended(target, "whole", t)
             cutAt(k, cut) == [SubSeq(lines, 1, k) EXCEPT ![k].cut = cut]
             Short    == {whole(SubSeq(lines, 1, k)) : k \in 0..(Len(lines) - 1)}
             Torn     == {whole(cutAt(k, cut)) : k \in 1..Len(lines), cut \in Cut \ {"no"}}
             Cut1     == {Extended(target, "cut", <<>>)}
             None1    == {Extended(target, "none", <<>>)}
  <2>2. chunks' \in {whole(lines)} \cup Short \cup Torn \cup Cut1 \cup None1
    <3>1. Interrupted(target, lines) =
            {whole(lines)}
              \cup (IF "short" \in Faults THEN Short ELSE {})
              \cup (IF "torn" \in Faults THEN Torn ELSE {})
              \cup (IF "torn" \in Faults /\ target.isNew THEN Cut1 ELSE {})
              \cup (IF "create" \in Faults /\ target.isNew THEN None1 ELSE {})
      BY DEF Interrupted
    <3> HIDE DEF whole, Short, Torn, Cut1, None1
    <3> QED  BY <3>1, <1>4
  <2>3. CASE chunks' \in {whole(lines)}
    BY <2>1, <2>3, <1>3
  <2>4. CASE chunks' \in Short
    <3>1. PICK k \in 0..(Len(lines) - 1) : chunks' = whole(SubSeq(lines, 1, k))
      BY <2>4
    <3>2. k \in 0..Len(lines)
      BY <1>1, <1>3
    <3> QED  BY <3>1, <3>2, <2>1, <1>5
  <2>5. CASE chunks' \in Torn
    <3>1. \A k \in 1..Len(lines), cut \in Cut : cutAt(k, cut) \in Seq(Line(Tx))
      BY <1>6
    <3> HIDE DEF cutAt, whole
    <3>2. PICK k \in 1..Len(lines), cut \in Cut \ {"no"} : chunks' = whole(cutAt(k, cut))
      BY <2>5
    <3> QED  BY <3>1, <3>2, <2>1 DEF whole
  <2>6. CASE chunks' \in Cut1 \cup None1
    BY <2>6, <2>1
  <2> HIDE DEF whole, Short, Torn, Cut1, None1
  <2> QED  BY <2>2, <2>3, <2>4, <2>5, <2>6
<1>8. PartialOn(Chunk, File(Tx), chunks')
  BY <1>2, <1>7, ExtendedType DEF IInv
<1>9. sixb' = Taken.sixb /\ meta' = meta /\ FreshHandle
  BY DEF StopInAppend
<1> QED  BY <1>8, <1>9, TakenType, FreshHandleIInv DEF IInv, CountersOK

(* A written batch: the rows it puts are addressed in their new lines, the  *)
(* others where they were.                                                 *)
LEMMA AppendBatchIInv ==
  ASSUME IInv, NEW b \in Batch, AppendBatch(Taken, b, Target(Len(b)))
  PROVE  IInv'
<1> DEFINE taken  == Taken
           target == Target(Len(b))
           lines  == EncodeBatch(b, taken.tx)
           ptr    == [j \in DOMAIN b |-> <<target.chunk, target.offset + j>>]
           ext    == Extended(target, "whole", lines)
<1>1. b \in Seq(Operation) /\ Len(b) \in Nat /\ DOMAIN b = 1..Len(b)
  BY BatchIsSeq, LenProperties
<1>2. IsTarget(target) /\ Usable(target) /\ taken.tx + Len(b) <= MaxTx + 1
  BY <1>1, TargetType DEF AppendBatch, CanAppend
<1>3. /\ IsProjection(taken.proj) /\ AddressPuts(taken.proj.rows, SourceOf(chunks))
      /\ PartialOn(Ids, Record, taken.rowCache)
      /\ SixbOK(taken.sixb)
      /\ taken.tx \in Nat
  BY TakenType
<1>4. /\ chunks' = ext
      /\ runtime' = ApplyBatch(taken.proj, b, ptr, taken.rowCache)
      /\ sixbCache' = None
      /\ rowCache' = RecordsAfter(taken.rowCache, b)
      /\ chunkCache' = CachedAfter(target, chunkCache, chunks'[target.chunk])
      /\ chunkLen' = CachedAfter(target, target.lens, Len(b))
      /\ nextTx' = taken.tx + Len(b)
      /\ nextChunk' = target.next
      /\ layout' = TRUE
      /\ sixb' = taken.sixb
      /\ meta' = IF Len(b) > 1 \/ meta = None
                   THEN Metadata(taken.tx + Len(b), target.next) ELSE meta
  BY DEF AppendBatch
<1> HIDE DEF taken, target
<1>5. lines \in Seq(Line(Tx)) /\ Len(lines) = Len(b)
      /\ \A j \in DOMAIN b : lines[j] = EncodeLine(b[j], taken.tx + (j - 1))
  BY <1>1, <1>2, <1>3, EncodeBatchType
<1>6. target.chunk \in Chunk /\ (target.isNew <=> target.chunk \notin DOMAIN chunks)
  BY <1>2, UsableTarget
<1>7. PartialOn(Chunk, File(Tx), chunks) /\ "whole" \in Preamble
  BY DEF IInv, Preamble
<1> HIDE DEF lines
<1>8. /\ PartialOn(Chunk, File(Tx), ext)
      /\ DOMAIN ext = DOMAIN chunks \cup {target.chunk}
      /\ \A c \in DOMAIN chunks \ {target.chunk} : ext[c] = chunks[c]
      /\ ext[target.chunk].lines =
           IF target.isNew THEN lines ELSE chunks[target.chunk].lines \o lines
  BY <1>2, <1>5, <1>7, ExtendedType
<1>9. ASSUME NEW p, NEW id, Addresses(p, id, SourceOf(chunks))
      PROVE  Addresses(p, id, SourceOf(ext))
  BY <1>2, <1>5, <1>7, <1>9, ExtendedKeepsPointers
<1> HIDE DEF ext
<1>10. ASSUME NEW j \in DOMAIN b, b[j].op = "put"
       PROVE  Addresses(ptr[j], b[j].id, SourceOf(ext))
  <2>1. j \in DOMAIN lines /\ lines[j].op = "put" /\ lines[j].id = b[j].id
    <3>1. j \in DOMAIN lines /\ lines[j] = EncodeLine(b[j], taken.tx + (j - 1))
      BY <1>1, <1>5, LenProperties
    <3> QED  BY <3>1, <1>10 DEF EncodeLine
  <2>2. Addresses(<<target.chunk, target.offset + j>>, lines[j].id, SourceOf(ext))
    BY <2>1, <1>2, <1>5, <1>7, ExtendedHasNewLines DEF ext
  <2>3. ptr[j] = <<target.chunk, target.offset + j>>
    OBVIOUS
  <2> HIDE DEF ptr
  <2> QED  BY <2>1, <2>2, <2>3
<1>11. ASSUME NEW j \in DOMAIN b
       PROVE  ptr[j] \in Pointer
  <2>1. target.offset \in Nat
    <3>1. ~target.isNew => chunks[target.chunk].lines \in Seq(Line(Tx))
      BY <1>6, <1>7 DEF PartialOn, File
    <3> QED  BY <3>1, <1>2, LenProperties DEF IsTarget
  <2> QED  BY <2>1, <1>1, <1>6 DEF Pointer
<1>12. ptr \in [DOMAIN b -> Pointer]
  BY <1>11
<1> HIDE DEF ptr
<1>13. /\ IsProjection(runtime')
       /\ \A id \in DOMAIN runtime'.rows :
            \/ id \in DOMAIN taken.proj.rows /\ runtime'.rows[id] = taken.proj.rows[id]
            \/ \E j \in DOMAIN b : /\ b[j].op = "put" /\ b[j].id = id
                                   /\ runtime'.rows[id] = ptr[j]
  <2> DEFINE after == ApplyBatch(taken.proj, b, ptr, taken.rowCache)
  <2>1. /\ IsProjection(after)
        /\ \A id \in DOMAIN after.rows :
             \/ id \in DOMAIN taken.proj.rows /\ after.rows[id] = taken.proj.rows[id]
             \/ \E j \in DOMAIN b : /\ b[j].op = "put" /\ b[j].id = id
                                    /\ after.rows[id] = ptr[j]
    <3>1. b \in Seq(Operation)
      BY <1>1
    <3>2. IsProjection(taken.proj) /\ PartialOn(Ids, Record, taken.rowCache)
      BY <1>3
    <3> QED  BY <3>1, <3>2, <1>12, ApplyBatchType
  <2>2. runtime' = after
    BY <1>4
  <2> HIDE DEF after
  <2> QED  BY <2>1, <2>2
<1>14. AddressPuts(runtime'.rows, SourceOf(ext))
  <2>1. ASSUME NEW id \in DOMAIN runtime'.rows
        PROVE  Addresses(runtime'.rows[id], id, SourceOf(ext))
    <3>1. CASE id \in DOMAIN taken.proj.rows /\ runtime'.rows[id] = taken.proj.rows[id]
      BY <3>1, <1>3, <1>9 DEF AddressPuts
    <3>2. CASE \E j \in DOMAIN b : /\ b[j].op = "put" /\ b[j].id = id
                                   /\ runtime'.rows[id] = ptr[j]
      BY <3>2, <1>10
    <3> QED  BY <2>1, <3>1, <3>2, <1>13
  <2> QED  BY <2>1 DEF AddressPuts
<1>15. RuntimeOK(runtime', SourceOf(chunks')) /\ CacheOK(sixbCache', SourceOf(chunks'))
  BY <1>4, <1>13, <1>14 DEF RuntimeOK, CacheOK
<1>16. PartialOn(Ids, Record, rowCache')
  BY <1>1, <1>3, <1>4, RecordsAfterType
<1>17. FilesOK(chunkCache', chunks')
  <2>1. chunkCache' = [c \in IF target.isNew THEN DOMAIN chunkCache \cup {target.chunk}
                                             ELSE DOMAIN chunkCache \ {target.chunk} |->
                         IF c = target.chunk THEN ext[target.chunk] ELSE chunkCache[c]]
    BY <1>4 DEF CachedAfter
  <2>2. \A c \in DOMAIN chunkCache : c \in DOMAIN chunks /\ chunkCache[c] = chunks[c]
    BY DEF IInv, FilesOK
  <2>3. \A c \in DOMAIN chunkCache' : c \in DOMAIN ext /\ chunkCache'[c] = ext[c]
    BY <2>1, <2>2, <1>8
  <2>4. PartialOn(Chunk, File(Tx), chunkCache')
    BY <2>1, <2>3, <1>8 DEF PartialOn
  <2> QED  BY <2>3, <2>4, <1>4 DEF FilesOK
<1>18. LensOK(chunkLen', chunks')
  <2>1. chunkLen' = [c \in IF target.isNew THEN DOMAIN target.lens \cup {target.chunk}
                                           ELSE DOMAIN target.lens \ {target.chunk} |->
                       IF c = target.chunk THEN Len(b) ELSE target.lens[c]]
    BY <1>4 DEF CachedAfter
  <2>2. \A c \in DOMAIN target.lens :
          c \in DOMAIN chunks /\ target.lens[c] = Len(chunks[c].lines)
    BY <1>2 DEF IsTarget, LensOK
  <2>3. \A c \in DOMAIN chunkLen' : c \in DOMAIN ext /\ chunkLen'[c] = Len(ext[c].lines)
    BY <2>1, <2>2, <1>5, <1>8
  <2>4. \A c \in DOMAIN ext : c \in Chunk /\ Len(ext[c].lines) \in Nat
    BY <1>8, LenProperties DEF PartialOn, File
  <2>5. chunkLen' = [c \in DOMAIN chunkLen' |-> chunkLen'[c]]
    BY <2>1
  <2>6. PartialOn(Chunk, Nat, chunkLen')
    BY <2>3, <2>4, <2>5 DEF PartialOn
  <2> QED  BY <2>3, <2>6, <1>4 DEF LensOK
<1>19. CountersOK(meta', nextTx', nextChunk') /\ layout' \in BOOLEAN
  <2>1. taken.tx + Len(b) \in Nat /\ target.next \in Nat
    BY <1>1, <1>2, <1>3 DEF IsTarget
  <2> QED  BY <2>1, <1>4 DEF CountersOK, Metadata, IInv
<1> QED  BY <1>3, <1>4, <1>8, <1>15, <1>16, <1>17, <1>18, <1>19 DEF IInv

-----------------------------------------------------------------------------

LEMMA NextIInv == IInv /\ [Next]_vars => IInv'
<1> SUFFICES ASSUME IInv, [Next]_vars PROVE IInv'
  OBVIOUS
<1>1. CASE Write
  <2>1. CASE RejectBatch(Taken) \/ \E n \in Nat : RefuseTarget(Taken, Target(n))
    BY <2>1, RefusedIInv
  <2>2. CASE \E b \in Batch : AppendBatch(Taken, b, Target(Len(b)))
    BY <2>2, AppendBatchIInv
  <2>3. CASE \E b \in Batch : StopInAppend(Taken, b, Target(Len(b)))
    BY <2>3, StopInAppendIInv
  <2> QED  BY <1>1, <2>1, <2>2, <2>3, WriteCases
<1>2. CASE Read
  BY <1>2, ReadIInv
<1>3. CASE RebuildSixb \/ InitStore
  BY <1>3, RebuildIInv
<1>4. CASE Compact
  BY <1>4, CompactIInv
<1>5. CASE StopInRemoval
  BY <1>5, StopInRemovalIInv
<1>6. CASE StopBeforeMetadata
  BY <1>6, StopBeforeMetadataIInv
<1>7. CASE Restart
  BY <1>7, RestartIInv
<1>8. CASE UNCHANGED vars
  BY <1>8 DEF vars, disk, memory, IInv, RuntimeOK, CacheOK, SixbOK, FilesOK, LensOK,
              CountersOK
<1> QED  BY <1>1, <1>2, <1>3, <1>4, <1>5, <1>6, <1>7, <1>8 DEF Next

LEMMA Invariance == Spec => []IInv
BY InitIInv, NextIInv, PTL DEF Spec

(* Every file, cache and counter of the store has its type, whatever the    *)
(* number of rows, keys, operations and chunks, and wherever the process    *)
(* stops: no write, read, rebuild or compaction produces a malformed one.   *)
THEOREM TypeCorrect == Spec => []TypeOK
BY Invariance, IInvImplies, PTL

(* append_target may trust chunk_len_cache, and read_chunk chunk_cache:     *)
(* what they hold of a chunk is what its file holds.                        *)
THEOREM ChunkCachesCorrect == Spec => []ChunksCoherent
BY Invariance, IInvImplies, PTL

(* read_row_pointer never seeks to anything but a put of the row it reads:  *)
(* from memory in the files as they are, from a `.6b` file in the files it  *)
(* was built from.                                                         *)
THEOREM PointersCorrect == Spec => []PointersAddressRows
BY Invariance, IInvImplies, PTL
=============================================================================
