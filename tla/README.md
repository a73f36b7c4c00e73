# sixpack, modelled and checked

sixpack is a local-first record store: tables are declared in a schema, rows are
written to an append-only text log (`.6`), and everything that makes reads fast
(the `.6b` file, an in-memory projection, row and chunk caches) is derived from
that log and may be thrown away. The first question of this project is whether the
derived state, which is maintained step by step by many small updates, ever
disagrees with the log, and what a process that stops at the wrong moment leaves
behind. The others are what threads that share a handle do to each other, what a
plan of several store calls promises, and whether what is written down (rows,
caches, names of files, schemas) is read back as what it was.

Paths below are relative to `src/`; *store* is
`packages/sixpack-store/src/lib.rs`, *format* is
`packages/sixpack-format/src/lib.rs`, *database* is
`packages/sixpack/src/lib.rs`, *compiler* is
`packages/sixpack-schema-compiler/src/lib.rs`, *schema* is
`packages/sixpack-core/src/schema.rs`.

## 1. Inventory

| component | state | operations | correct when |
|---|---|---|---|
| **table log** (format, store) | the chunk files `tables/<table>/*.6`: a preamble, then one line per put or delete | encode a batch, scan the files, find the live rows, hash the source | chunk order, line order and tx order agree; the last operation of an id wins |
| **`.6b` cache and projection** (store) | row pointers, lookup entries, the keys each row is listed under | rebuild from the log; update by each operation of a batch | equal to what a rebuild would build, at any time |
| **store handle** (`LocalStore`) | on disk the log, the `.6b` file and the counters of `sixpack.toml`; in memory the projection, a snapshot, decoded records, chunk bytes, chunk lengths, two counters, a layout flag | append (insert-only or upsert, one or many operations), get by id, get by lookup, read, scan and count, rebuild, `ensure_sixb_current`, `init`, `compact_table`, opening a handle | every answer is the log's; pointers never dangle; unique keys name one row; whatever a handle left behind, the next can read and write |
| **concurrency of a store** | one read-write lock per cache, a writer mutex per table, none around reads | readers beside writers, rebuilds and compactions; writers of two tables, which share the tx counter | no reader publishes something older than what a writer published; tx ids are used once |
| **database** | a store and a schema | `write_many`, `execute_plan` (insert, put, patch, remove, find, scan, count), pages and cursors | a patch loses no other patch; pages cover every row once; batches touch disk only when all of them is valid |
| **schema and values** (`sixpack-core`) | declarations of tables, fields, lookups | add, validate a record, hash | every accepted record can be encoded and decoded |
| **schema compiler** | tokens, a parsed schema | lex, parse, validate, emit Rust | every valid schema parses; references resolve; output is deterministic |
| **row text format** | none | escape, unescape, parse ten value kinds, the binary `.6b` layout | decode inverts encode |
| **cli, testkit, test-lab applications, benchmarks** | an application behind one mutex (playground), none otherwise | HTTP routes, a schema-evolution walk | they use the database |

How they interact: the database calls the store synchronously; the store calls the
format to turn operations into lines and back; nothing calls back. Everything the
store shares between threads is in the `RwLock`-guarded maps of one `LocalStore`
(store:35-47). Processes share nothing but the files. There is no background
thread, no timer, no retry and no network.

What is hard here:

* **Derived state.** Five in-memory caches and two files are each updated by hand
  on every path through a write, a read, a rebuild and a compaction. The old keys
  of a replaced row come from whichever of three places still knows them
  (`remove_record_lookups`, store:1697-1758).
* **Offsets from caches.** A row pointer of a new line is computed from a cached
  chunk length, without looking at the file (store:1099-1112).
* **Lagging files.** One-row writes rewrite neither `.6b` nor `sixpack.toml`, so
  the next handle has to notice and recover.
* **Stops.** A write is a `create_new` and a `write_all`; a compaction is many
  removals, a rename, a rebuild and a metadata write. Any prefix may be all that
  happened.
* **Races.** Readers and rebuilds publish into the caches without the writer lock.
  Writes of two tables share a counter, a map and a temporary file, and hold a mutex
  of their own table only.
* **Plans of several calls.** A patch reads and then writes, a page counts and then
  reads, `write_many` resolves every change before it writes any.
* **Grammar and text.** Optional semicolons leave one token of lookahead to tell a
  keyword from a name; four functions share the rules of a schema; every character
  of a value has to come through lines and columns.

`PROJECT.json` lists these hazards at their lines, with the properties that watch
them.

## 2. The modules

| module | what it is |
|---|---|
| `TableLog` | pure: lines, chunk files, scanning, the `.6b` cache, the projection and its update by a batch, batch validation |
| `TableSpec` | abstract: a table is a map from ids to records in which unique keys name one row; it changes by whole batches |
| `TableStore` | the store of one table: disk and memory of one handle, every public operation, restarts and stops |
| `TableThreads` | extends `TableStore`: one handle and several threads, each step one access to a cache or a file, the writer mutex of the table |
| `SharedCounters` | two tables of one handle: the tx counter, the chunk counters, `sixpack.toml` and its temporary file |
| `PlanExecution` | the database over one table: clients whose plans are several store calls; pages and cursors. Its table is `TableSpec`'s |
| `RowText` | escaping, columns, operation lines, the scan of a file character by character, row pointers, a stop inside a line |
| `SixbBytes` | the binary `.6b` layout: encoding, and the reader a field at a step |
| `ChunkNames` | the names of chunk files and the order they are read in |
| `SchemaLexer` | the lexer of the schema compiler, an iteration at a step |
| `SchemaCompiler` | the parser a declaration at a step, validation, the core schema made of the result, the two schema hashes |
| `TableStoreProofs` | theorems about `TableStore` wherever it stops: types, chunk caches, pointers |
| `TableScanProofs` | lemmas about `TableLog` for `TableExactProofs`: what a scan finds before and after lines are appended |
| `TableExactProofs` | theorems about `TableStore` while stops leave whole lines: caches, answers, tx order, the refinement of `TableSpec` |
| `TableThreadsProofs` | theorems about `TableThreads`, for any number of threads, calls and interleavings |
| `SharedCountersProofs`, `PlanExecutionProofs` | theorems about `SharedCounters` and `PlanExecution`, for every value of their constants |
| `Formats` | the five modules of what is written down and read back, composed: one of them is at work in a behaviour |
| `FormatsProofs` | theorems about `Formats`: names, rows, caches, texts, schemas and hashes of any size |
| `MaximumProofs` | lemmas these use: a bounded set of numbers has a maximum; what holds of every number up to a bound; runs and sums of lengths |
| `MCTableStore`, `MCTableThreads`, `MCSharedCounters`, `MCPlanExecution` | instances for TLC: symmetry, and the situations that are run |
| `MCFormats` | an instance of `Formats`: small rows, caches, texts and schemas |

### How the models correspond to the code

**One handle, one thread.**

`TableStore`'s variables are the fields of `LocalStore` and the files:

| variable | code |
|---|---|
| `chunks` | the files of `tables/<table>/`, by chunk counter |
| `sixb` | `engine/<table>.6b`: its source hash and its cache |
| `meta` | `next_tx_id` and `next_chunk` in `sixpack.toml` |
| `runtime`, `sixbCache` | `runtime_sixb_cache`, `sixb_cache` |
| `rowCache`, `chunkCache`, `chunkLen` | `row_cache`, `chunk_cache`, `chunk_len_cache` |
| `nextTx`, `nextChunk`, `layout` | `next_tx_cache`, `next_chunk_cache`, `layout_cache` |

Each public operation is one action: calls on one table run one at a time here.

* `Write` is `append_batch_inner` (store:933-1087). `Taken` is
  `take_runtime_sixb_for_write`: the projection *leaves* its map, and a batch that
  is refused (`RejectBatch`, `RefuseTarget`) does not put it back. An accepted
  batch (`AppendBatch`) chooses a chunk (`TargetFrom`), writes one line per
  operation with consecutive tx ids, updates the projection by `ApplyBatch`, the
  record cache, the chunk caches and the counters; metadata is written only for
  batches of two or more, or when there is none.
* `Read` covers `get_by_id`, `get_by_lookup`, `read_table` (with the pages of
  `scan_table` in between) and `ensure_sixb_current`; the counts change the same
  state as the last. They are actions because each fills caches and may rebuild.
* `RebuildSixb`, `InitStore`, `Compact` are `rebuild_sixb`, `init` and
  `compact_table`.
* `StopInAppend`, `StopInRemoval`, `StopBeforeMetadata` stop the process inside
  an append and inside a compaction; `Restart` between two calls. All leave the
  files and a fresh handle. `Faults` names the places where a run lets it stop.

What is abstracted: a record is its lookup values; byte offsets are line numbers
and a chunk's capacity is counted in lines; the source hash is the data lines
themselves (collisions are not modelled); a line that was cut is a line with a flag
saying how, and the reader's behaviour on it is modelled (`Swallowed`, `Intact`,
`Decodable`); the implicit `id` lookup is left out of the lookup entries because
the row map holds the same facts. Reads of the clock, timestamps, encodings and
messages are left out.

Files that hold a unique key twice, which only a stop in the removals of a compaction can
leave, are not compacted in `TableStore`; the code rewrites them and fails in the rebuild
that follows, and `TableThreads` does as the code. An operation that returns an error
without having changed anything is not a step. The model has no `write_all` or `rename` that fails while the handle lives
on (section 6).

**One handle, several threads** (`TableThreads`). The variables of `TableStore` are
there as they are, and its operators are used as they are: what `TableStore` does in
one action, a thread does here in up to twenty. `pc` says which access comes next and
`mine` holds the locals of the call: the snapshot it has loaded, the projection it has
taken, the row pointer it follows, the chunk bytes it has read. `writer` is the mutex
`table_writer` returns, held by `append_batch_inner` and `compact_table` and released on
every way out, as the guard is; `sixbTmp` is the one temporary file of all rebuilds. A
read or a rebuild takes no mutex. Each `RwLock` of the code is held for one access, so
one access is one step. A scan of the files is one step: an append makes its lines
durable in one `write_all`, and a scan that meets it finds what a scan before or after
would (a scan beside a *compaction* may find less, as `RemoveChunk` shows). A chunk that is
not cached is missed, read from its file and remembered in a step each (`ReadChunk`,
`OpenChunk`, `RememberLength`, `RememberBytes`). `may` and
`before` are history: the values a get may answer. A log to start from is one a handle
left when nothing stopped it (`LeftByHandle`). `WithinMaxTx`, in `Lock`, is the bound on
tx ids: a call that would pass it does not get the mutex.

**Two tables** (`SharedCounters`). Rows are their tx ids. Each table has one write at
work at most, for it holds its table's mutex; `ReadTx`, `AdvanceTx`, `CollectChunk`,
`RememberDiscovered`, `WriteTmp`, `RenameTmp` are the accesses two of them interleave
in (store:375-450, 815-849, 1079-1086).

**Plans** (`PlanExecution`). A call of the store is a step; `TableStore` and its
refinement of `TableSpec` say why that is a batch. `table` is the rows of the files,
`projection` those of the runtime projection: the store answers from the second and
checks a batch against it (`take_runtime_sixb_for_write`), and writes both. The one call
that takes two steps is a rebuild, which holds no lock: `ScanFiles` reads the files and
`Publish` puts what it found in the place of the projection, however old it is by then.
It stands for `rebuild_cache` and also for a read that finds no projection because an
append has taken it out (store:774-790). Older records and parts of a scan that such a
read may see are left to `TableThreads`; compaction changes no row and is left out.
`ResolveChange` reads the row of an
edit or a removal by lookup (one step for each change), `AppendBatch` writes the whole;
`CheckLimit`, `CountRows`, `ReadPage` and the cursor are the steps of a paged read,
whose caller asks for the next page until there is no cursor. `get_many_by` is the same
read with the largest limit, and drops the cursor, and a `GetMany` may ask for a smaller
page. `Matching` puts ids in order by their rank, which is what sorting them does. Changes
are records `[op, id, rec]` and `[op, at, value]`; the two mistakes `validate_patch_plan` refuses are in `Refused`.

**What is written down.** `RowText` has characters: the four that are escaped, the
letters that stand for them, and the letters and digits of an operation line. Every
operation is written whole; `Stop` keeps the end of the last line from the file; then
`ScanLine` is an iteration of `scan_six_file`, offsets counted as the code counts them,
over the lines behind the header (the lines it skips, magic, header and `@`, are left out).
`SixbBytes` has bytes: the decoder takes fields in the order `decode_sixb_cache_binary`
does. Numbers are little endian and below 2^16; larger ones (they come from changed
bytes) are one value, which is larger than any count or offset. The decoder reserves a vector for the count it
has read (format:395, 408) before it reads the entries; that such a reservation may abort
the process, for a count that was changed, is left out. `ChunkNames` has digits
of any base. `SchemaLexer` has classes of characters, for the lexer tells no others
apart; `SchemaCompiler` has tokens. Its words are keywords, types and names, of which
`Letters` gives the class of each character, so `is_snake_case` and the test for a
leading underscore are modelled as they are. `Text` is what can be written: tables in a
`schema!` block, in a list a brace closes or in a bare list, with a semicolon or without
behind each declaration and any tokens behind the end; `TextTokens` are its tokens.

## 3. The properties

Types are `TypeOK`. Safety:

* `ProjectionExact` - the projection, and any snapshot, equals what `rebuild_sixb`
  would build from the files now.
* `MemoryCoherent` - projection, snapshot and cached records agree with each other
  (the next write may take the old keys of a row from any of them).
* `ChunksCoherent` - cached chunk bytes and lengths are those of the files.
* `PointersAddressRows` - a row pointer in memory addresses a put of its own row in
  the files as they are; one in a `.6b` file does so in the files it was built
  from, even after a stop.
* `AnswersExact` - a read by id or a lookup count answers what a scan of the log
  answers, whichever cache serves it.
* `FreshHandleCanRead`, `FreshHandleCanWrite` - a handle opened on the files as they
  are can scan them, would number its lines above all others, and would write
  behind all others.
* `TxOrder` - reading order is tx order, so "the last line wins" is "the highest tx
  wins".
* `InsertNeverReplaces` - no insert-only batch is accepted that names a live row.

Action properties:

* `OnlyWritesChangeRows` - a row changes to what the step wrote for it, and
  does change when the step wrote it: recovery and compaction change no row.
* `NoStaleRow` - no step, not even an interrupted one, brings an old version back.
* `NoRowLost` - no row vanishes without a delete (checked where it fails).

Refinement: `TableRefinement` says that `LiveTable(chunks)`, the table a scan finds,
behaves as `TableSpec`: each step is a batch that leaves unique keys unique, or
changes nothing. An interrupted batch is the batch of the lines that were durable.

**Threads** (`TableThreads`).

* `QuietExact` - whatever appends and compactions interleave, each time the mutex is
  free the projection, the snapshot, the records and the chunk caches are exact, and
  no unique key is used twice. It is what the next writer relies on.
* `CachesExact`, `GetsCurrent` - gets and rebuilds alone never leave a cache that
  disagrees with the files, and every get answers a value its row had during the call,
  whichever `.6b` file (none, a current one, an older one) it starts from.
* `TxOrder` - and the order of the log survives all of this.
* `AppendsRefineTable` - threads that append implement `TableSpec`.
* `AppendsChangeRows` - beside readers and rebuilds, which do go wrong (section 4),
  a write still changes its own rows and no other.
* `UniqueKeys` - refuted beside rebuilds.

**Two tables** (`SharedCounters`): `ChunkCountersExact` - between writes a cached chunk
counter is the number of files, the metadata is never ahead of them, and no write finds
its new chunk taken; `TxMonotonic` - tx ids grow. Both name the settings they hold in.

**Plans** (`PlanExecution`).

* `BatchIsSequence` - although every change is resolved against the rows *before* the
  batch, an accepted batch of the only client that writes or rebuilds is what its changes
  would do one after another.
* `PagesExact` - a paged read has every row that stayed, once, while rows are added
  behind and changed in place.
* `TableRefinement` - although a batch is checked against the projection, the rows of the
  files change as `TableSpec` says, whatever plans interleave, as long as no rebuild runs
  beside another client that writes; beside one, at each step at which the projection is
  that of the files.
* `EditsArePartial` - refuted for two clients.

**What is written down** (`Formats`).

* `RowsSurvive`, `PointersExact` - a file of rows reads as what was written, whatever the
  values hold; pointers address what was read; a cut file keeps its whole lines.
* `SixbExact` - a cache is read as it was written; a cut or longer file is no cache; a
  changed byte makes another cache or none, so the version, hashes and entries compared
  later are the file's own.
* `ReadOrder` (`ChunkNames`) - a new name sorts before all older ones, and no two counters
  share a name.
* `LexedExactly` - tokens, lines, columns and the place of an error, against a
  definition character by character.
* `ParsesExactly` - a text is read as what is written in it: any number of tables and
  declarations, in a block or a list that a brace closes, with or without each
  semicolon, and whatever is behind the closing brace. A bare list is refused. Two
  texts are excepted (section 4).
* `NothingSkipped` - whatever the text, if it compiles then each token the parser reached
  is in a declaration of the result. Tokens behind the closing brace are not reached; they
  are dropped without an error (compiler:112).
* `LoadsExactly` - `validate_schema`, `add_field`, `add_lookup` and `add_table` together
  let no schema through that breaks a rule of the book, and every schema that keeps all of
  them, although none checks all. The case of names is a rule only in the second half: the
  code lets names with capitals through.
* `HashesAgree` - the hash of the generated module is the store's exactly if tables and
  lookups are declared in alphabetical order.

### Liveness and fairness

* `CallsReturn` (`TableThreads`): every call returns.
* `CallsReturn` (`PlanExecution`): every plan comes to an end, a paged read also while
  others write between its pages.
* `CompilerEnds`: `compile_schema` comes to an end on every text.

The fairness is weak, on the steps of each thread (client, compilation), never on calling:
no caller has to call. The code justifies it because a call is straight code with no
wait but the locks, and the operating system runs every thread that can run. A thread
that waits for the mutex may see it free and taken again; weak fairness is enough all the
same since each thread makes finitely many calls in an instance, so the others stop at
last. The store itself has no thread, timer or retry, and `TableStore` and
`SharedCounters`, whose questions are about safety, assume no fairness.

## 4. The runs

Deadlock is checked in all of them.

| run | module | shows |
|---|---|---|
| `safety` | `MCTableStore` | batches of one and two operations, chunks of two lines, two chunks, stops that leave whole lines: all caches exact, all answers exact, a fresh handle can always go on, and the store implements `TableSpec` |
| `shared` | `MCTableStore` | a lookup that is not unique: several rows share a key; chunks of one line, so that writes run into the last chunk name and are refused |
| `crash` | `MCTableStore` | pointers and row versions survive every stop that leaves whole lines, in an append and in a compaction |
| `threads` | `MCTableThreads` | two threads: appends beside appends, beside a compaction, beside gets and a rebuild; gets and rebuilds beside each other |
| `counters` | `MCSharedCounters` | two tables written on a database `init` has made; one table written on one it has not |
| `plans` | `MCPlanExecution` | a client alone, from every table of three rows; one that writes and rebuilds; two that edit; one that rebuilds, and one that pages, beside one that writes |
| `formats` | `MCFormats` | the instance of `Formats`: rows, caches, names, texts and schemas, each from all small inputs |
| `removal` | `MCTableStore` | **violates** `NoRowLost` |
| `metadata` | `MCTableStore` | **violates** `FreshHandleCanWrite` |
| `torn` | `MCTableStore` | **violates** `FreshHandleCanRead` |
| `unique` | `MCTableThreads` | **violates** `UniqueKeys` |
| `lost_update` | `MCPlanExecution` | **violates** `EditsArePartial` |

**Bounds.** *One handle:* two interchangeable rows and two interchangeable keys of one
lookup field, enough for one row to take another's key, for a key to be swapped, freed
and reused, and for a row not in a batch to be disturbed by it. `MaxTx` bounds the
operations in a history (3: four lines, or compaction's lines after a few);
`ChunkLimit` lines fit a chunk and `MaxChunks` chunks have names, so that histories roll
to a second chunk and run into the last one. *Threads:* two threads and up to three
calls. The races of this code are between one call and one other that falls between two
of its steps; two calls by one thread let a later call use what an earlier one left. Two rows and keys
again; the log may start with no row, one, or one written twice, and the `.6b` file may
be missing or built from any earlier log. *Counters:* two writes of each of two tables,
or four of one, batches of one or two rows, two rows a chunk: each table rolls.
*Plans:* three rows and a fourth id to insert, a unique and a plain lookup, batches of
one and two changes of every kind; one call of each client, or three where a client
rebuilds, so that a write follows a rebuild that followed a write; `DefaultLimit` 1 and `MaxLimit` 2, so that a page is
shorter than the table, as long as it, and refused. *Rows:* two operations with every
text of up to two characters, and cuts of up to nine characters. *Caches:* up to two
rows and lookups, cut at each length, and each byte changed to each of five values.
*Names:* base 8, all 512 counters (the theorem has every base). *Texts:* five characters
of seven classes. *Schemas:* tables of up to three declarations of nine, names with capitals, double and
leading underscores, two tables of one each, two lookups in either order; lists of up to
two declarations or two tables in every form, with four endings behind the brace; and
four texts a token off in each way. A step of the parser looks three tokens ahead.

Every property of a passing run has a mutant: a plausible mistake in one definition
(listed beside that definition) under which the run finds the property violated.

### What the violations show

1. *Compaction removes before it publishes* (`removal`). `compact_table` removes the
   old chunks (store:733-735) and only then renames `compact.tmp` to the first
   chunk's name. After a stop in between, the rows are only in `compact.tmp`, and
   nothing reads it. The book says "canonical `.6` data must be enough to recover
   it" (`book/05-storage.md:155`).
2. *Counters that outlive a compaction* (`metadata`). After a stop between the rename
   and the metadata write, `sixpack.toml` holds the old, higher chunk counter. The
   next handle creates its chunk behind a gap; the handle after that computes
   max(counter, number of files), which is the counter of that chunk, does not
   find the chunk before it, and tries `create_new` on a file that exists: every
   write fails. `packages/docs/file-format.md:141` says "fresh handles recover from
   canonical `.6` data".
3. *A broken final line is not ignored* (`torn`). `scan_six_file` returns the decode
   error of a line a stop cut short, so the table can be neither read nor rebuilt.
   `packages/docs/file-format.md:94` says "broken final lines can be ignored during
   recovery later".
4. *A rebuild hides rows from the next writer* (`unique`). `rebuild_sixb`, which a first
   read calls too, scans the files and publishes its projection without the writer mutex
   (store:681). Published behind an append's own, it lacks the append's rows, and the next
   append accepts a unique key that a live row uses. From then on no rebuild of the
   table succeeds. `book/02-schema.md:70` says "`unique` means at most one live row can
   use the key."
5. *Patches are not partial* (`lost_update`). A patch reads the row, inserts its fields
   and writes the whole row, with no lock from the read to the write (database:1011): of
   two patches of different fields the second restores the first's field.
   database:940 says "Applies a partial update to one row addressed by a unique lookup."

### Where the properties stop

Several properties name the situations they hold in. Outside them the code does
otherwise: TLC gives a counterexample for each of these when the condition is dropped and
the instance has the situation.

* `GetsCurrent` is for gets beside gets and rebuilds. Beside an *append*, a get that
  has read a row's old line remembers its record after the writer has cached the new
  one, and every later get answers the old record until the row is written again
  (store:929). Beside a *compaction*, a get that scans the files between the removals
  and the rename finds none, and answers that a live row does not exist (store:733).
* Two *rebuilds* at once write one temporary name: one renames the file of both, the
  rename of the other fails, and its read returns an error (store:1138). Such a get has
  the outcome `error`, of which `GetsCurrent` says nothing.
* `CachesExact` is for readers alone: `read_chunk` beside an append can put the old
  length of a chunk behind the append's update, and pointers computed from it are
  wrong (store:1154). The log stays right, which `TxOrder` and `AppendsChangeRows` say.
* `ChunkCountersExact` needs a database `init` has made, or a lone writer. Without
  `sixpack.toml` the metadata of one table's write asks for the counter of a table that
  is being written for the first time and caches the number of files from before that
  write; the next write there finds its new chunk taken (store:829).
* `TxMonotonic` needs a lone writer: of writes of two tables the slower one sets the
  shared counter back, and rows get tx ids their table has already (store:1080). Scans do
  not look at tx ids, so no row is lost by it.
* `PagesExact` is for rows that are added behind or changed in place. A cursor is a
  position (database:1188): when a row before it is deleted, the next page skips one.
  `get_many_by` answers with one page of the largest limit and drops the cursor, so
  beyond 1000 rows its answer is cut (database:935).
* `TableRefinement` of `PlanExecution` says nothing of a batch that is checked against a
  projection which a rebuild has put back to older rows. There the rows do get a unique key
  twice, as `unique` shows one level below (store:641-681).
* `ParsesExactly` excepts two texts (`Ambiguous`). One is a lookup without flag and semicolon
  with a field called `unique` behind it: after `lookup email` the word `unique` is the
  flag, whatever follows (compiler:877), so such a field needs a semicolon in front of it.
  `book/reference/sixpack_schema_spec.md:41` says "Semicolons are optional in the current
  parser." The other is a list that is not in a block and starts with a table called
  `schema`, which is taken for the block (compiler:816).
* `ParsesExactly` says that bare lists are *refused*. The comment at compiler:815 says
  "Support plain table blocks or schema! wrapped blocks", but `parse_table_list` ends only
  at a closing brace (compiler:857), and a list outside of a block has none. With a stray
  one it compiles. So does any block with other tokens behind its closing brace: they are
  not looked at (compiler:112).
* `LoadsExactly` does not say that schemas with capitals in their names are refused.
  `is_snake_case` asks for a small first letter and no two underscores in a row, and for
  nothing else (compiler:1118-1131): `userName` compiles. `book/02-schema.md:51` and `:52`
  say that names of tables and fields "are public snake_case identifiers". The name of a
  table may also start with an underscore.
* `LoadsExactly` is about the compiler and the core schema together: `validate_schema`
  alone takes an `id` field of any type (compiler:176), and only `add_table` refuses it.
* A cut inside the *last value* of a text row is a shorter value to the scan, which
  decodes a line without its newline like any other (store:1800): `RowsSurvive` speaks of
  whole lines only.

* `NoStaleRow` is for lines that are whole. A stop may leave a line whole but for its
  newline; it reads as the new version of its row. The next append goes on in the same
  line (store:1061), so neither of the two can be read any more and an older version is back.

One more stop is worth knowing: after `create_new` and before `write_all` the new
chunk is empty, and `verify_header` then refuses every later write of the table.
`crash` includes that stop; the properties it checks hold in spite of it.

## 5. The proofs

**The store.** `TableStoreProofs` proves three of the checked invariants for every set of rows,
fields and keys, every batch size, chunk size and number of chunks, and **every set
of faults**, the torn lines included:

* `TypeCorrect`: `Spec => []TypeOK`
* `ChunkCachesCorrect`: `Spec => []ChunksCoherent`
* `PointersCorrect`: `Spec => []PointersAddressRows`

Assumed are `LogAssumption` (finitely many rows; the unique lookups are lookups; "no
record" is not a record) and `StoreAssumption` (the bounds are natural numbers, there
is at least one chunk name, the faults are among those named). TLC evaluates both in
every run.

None of the three is inductive alone. A write computes the pointers of its rows from
a cached chunk length: they address the new lines only if cached lengths are right
(`ChunksCoherent`). Cached lengths stay right only if the pointers through which
chunks are loaded lead to chunks that exist (`PointersAddressRows`). Both need the
types. `IInv` is the conjunction, laid out variable by variable, and the argument is:

1. *What is derived from files.* `PositionType`, `ScanRowsType`, `CacheOfType`: a scan
   of any well-formed files yields pointers that address puts of their rows.
   `DiscoveredTxType` needs that a non-empty bounded set of numbers has a maximum
   (`MaximumExists`, from the well-founded ordering of finite subsets).
2. *Targets.* `TargetType`: the offset `append_target` computes is the end of its
   chunk.
3. *Writing.* `ExtendedType` and `ExtendedKeepsPointers`: appending changes no old
   line, so old pointers stay good; `ApplyBatchType`: a row of the projection after a
   batch has its old pointer or that of its own put.
4. *Loading.* `SnapshotType`: a `.6b` file is used only when its source is that of the
   files, which is why its pointers may be used in them. `TakenType` and
   `ReadRowsType` follow.
5. *Steps.* One lemma per action, `NextIInv`, then the theorems by temporal logic.

**What the store says is what the files say.** `TableExactProofs` proves the rest of what
`safety` checks, with the same assumptions on the constants and one on the stops:
`WholeStops`, that `Faults` has no other than `"create"` and `"short"`, the stops after
which the files hold whole lines and no compaction is half done. After the others
these properties fail, as the runs `torn`, `removal` and `metadata` show.

* `ProjectionCorrect`: `Spec => []ProjectionExact`
* `MemoryCorrect`: `Spec => []MemoryCoherent`
* `AnswersCorrect`: `Spec => []AnswersExact`
* `ReadableCorrect`: `Spec => []FreshHandleCanRead`
* `WritableCorrect`: `Spec => []FreshHandleCanWrite`, for `Faults` without `"create"`: a
  stop there leaves a file without a preamble, which every later write refuses
* `TxOrderCorrect`: `Spec => []TxOrder`
* `InsertCorrect`: `Spec => []InsertNeverReplaces`
* `WritesCorrect`: `Spec => OnlyWritesChangeRows`
* `StoreImplementsTable`: `Spec => TableRefinement`
* `NoStaleCorrect`: `Spec => NoStaleRow`, for `Faults` without `"torn"` only: no
  compaction that is stopped half way, and no file without a preamble, brings an old
  version of a row back

`NoStaleCorrect` has an invariant of its own, `IInv` and that lines are whole
(`LinesWhole` is its assumption): after the stops it admits, `EInv` does not hold. Its argument is
about lines. A step adds lines behind all others, takes away the oldest chunk of those a
compaction removes, newest rows last, or puts one line for each live row in the place of all.
In none of the three does a line that was followed by another of its id become the last one.

All but `NoStaleCorrect` share one strengthening, `EInv`, inductive together with `IInv`: the files hold whole
lines in chunks 0, 1, ... without a hole, in tx order, and no unique key twice; the
counters lead a write behind all of them; the projection, the snapshot and the cached
records are those of the files; the `.6b` file is what a rebuild made of the files its
source is of. No part holds without the others. A write takes from the projection what it
refuses and which lookup entries it removes, so a projection that is wrong lets a unique
key be used twice; lines in the wrong order, which a wrong counter makes, change
what a scan finds; and what a scan finds is what the caches are compared with. The
argument:

1. *Scans* (`TableScanProofs`). The live line of an id is the last that names it
   (`LiveIs`, `ScanRowsIs`, `CacheIs`). Behind a batch it is the line of the batch, or the
   one it was (`AppendedLive`, `AppendedRows`).
2. *The projection.* `ApplyBatchExact`: what the code computes by taking old keys out and
   putting new ones in is the projection of the longer files. `UniqueAppended`: a
   batch that passed the checks leaves unique keys unique; `TxAppended` says the same of
   tx order. Both need that what was checked, the projection, is the files'.
3. *Files.* `ExtendedAppended`: `append_target` and the write extend the files in exactly
   that way, in the last chunk or in a new one. `AppendedExact` puts 1 to 3 together;
   `StoppedWrite` has it for the prefix of a batch that was durable (`PrefixValid`).
4. *Loading.* `SnapshotExact`, `TakenExact`, `RecoveredTxAbove`, `NextChunkIsSize`: what a
   handle loads from a `.6b` file it may use, or recovers from the files, is exact.
   `SameLinesSameCache` is the reason: files of the same lines have the same cache, and
   the source hash stands for the lines.
5. *Compaction.* `CompactedWhole`: one line for each live row, numbered anew, has the same
   rows. `CompactedExact`: and then unique keys are as unique as they were.
6. *Steps.* One lemma per action, `NextEInv`, `ExactInvariance`. `StepExact` says
   of each step that the rows stay, or change by one batch that passed the checks; from it
   come `OnlyWritesChangeRows` and the refinement.

**Threads.** `TableThreadsProofs` proves for every set of threads, everything they may
call and every interleaving of their accesses, compactions and rebuilds included,

* `ThreadsTypeCorrect`: `ThreadsSpec => []ThreadsTypeOK`
* `ThreadsTxOrderCorrect`: `ThreadsSpec => []TxOrder`
* `AppendsChangeRowsCorrect`: `ThreadsSpec => AppendsChangeRows`
* `CachesExactCorrect`: `ThreadsSpec => []CachesExact`
* `GetsCurrentCorrect`: `ThreadsSpec => []GetsCurrent`
* `QuietExactCorrect`: `ThreadsSpec => []QuietExact`
* `AppendsRefineCorrect`: `ThreadsSpec => AppendsRefineTable`

from the assumptions above and `ThreadsAssumption` (finitely many threads; the logs to
start from are those of `LeftByHandle`). Two invariants carry the first three. `CInv` says where a call of each
kind can be, of which type its locals are there, and that the mutex is held exactly by
the thread inside a write or a compaction. `LInv` is about the log: its lines are whole and
in tx order, its chunks have no hole but between the removals of a compaction and its
rename, the counters in memory are exact but while the writer is at work (`Busy`), and
the locals of the one writer are what its step needs (`Phase`). It says nothing of the
projection, the snapshot, the records and the lengths of chunks: beside readers all of them
may be stale. The argument is that the log does not depend on them. Which chunk a batch goes
to and under which tx id is decided by counters only writers change; a stale length gives a
wrong *offset*, which ends up in row pointers and not in the log. So the write of a target
with any offset is the write of the `Ideal` target, the one with the right offset
(`IdealTarget`, `BatchWritten`), and the lemmas of `TableExactProofs` about appended batches
apply. Each step of a thread that does not hold the mutex leaves the log alone (`FreeLInv`,
`SearchLInv`, `GetLInv`); those of the writer are taken one by one (`WriterLInv`).

The other four are about what the caches hold. They are true only where readers and
writers do not meet (`Alone`; beside an append a get can leave a row behind that the append
replaced), and the condition is that of the properties themselves. Their invariant is `XInv`,
inductive together with `CInv` and `LInv`:

1. *Each cache is exact but from the change of the files to its own* (`CachesAt`). The
   change and its caches are separate steps, so which caches may be behind depends on where
   the one writer is (`Stage`). Where nothing is owed (`Settled`), all of them are
   `Coherent`. While a compaction has removed chunks, nothing is.
2. *Each local is of the files there are* (`LocalsExact`). Readers share no lock: what one
   puts into a cache it may have read long before, and another thread may have published in
   between. Without writers the files stay, so both are exact, whatever their order
   (`LoadXInv`, `BuildXInv`, `FillXInv`). A rebuild may rename a `.6b` file another thread
   wrote; that is why the temporary file is in the invariant.
3. *What a writer carries is what its next step makes true* (`AppendExact`,
   `CompactExact`): its projection is that of the files with the batch from before the
   lines are written; its records become right when the batch is applied to them; the
   length and the bytes of no chunk but its own are ever wrong (`TargetExact`, `ChunkXInv`).
   Here the offset of the target is right, and `ApplyBatchExact` of `TableExactProofs`
   applies (`BatchFits`).
4. *Other threads* (`OtherStays`). A reader's step leaves the files of the other readers
   alone; a writer at work finds all other threads idle or waiting for the mutex, with no
   locals to spoil.

`GetsCurrent` comes from a get's row, pointer and file being those of the log (`RowFound`).
`QuietExact` and `CachesExact` are `Coherent` where nobody holds the mutex. For
`AppendsRefineTable`, `UniqueAppended` needs that the projection `Validate` checked the batch
against still is the log's when the lines are written.

**Two tables, and any number.** `SharedCountersProofs` proves
`Spec => []ChunkCountersExact` (`CountersExact`) for every finite set of tables, where
the run has two, and for every batch size, chunk size and number of writes. Assumed is
`CountersAssumption`. Types (`CountersTyped`: `Spec => []TypeOK`) are an invariant of
their own, `Typed`: counters and tx ids are computed from sets of what others wrote, and
have maxima only because each set is bounded (`TxBelow`, `GrownIs`). The property is not
inductive: it says nothing of a write at
work. `IInv` adds, under the same condition, that the chunks of a table are
numbered without gaps, that the target of a write is the last chunk or the first free
counter, and that counters collected for `sixpack.toml` - in locals, in the temporary
file and in the file - are never ahead of the files. Three facts carry the proof:

1. Only the write of a table, under the table's mutex, adds chunks to it
   (`WriteRowsIInv`, `OthersKeepLocals`). What others collect can only fall behind.
2. Metadata is not ahead, so a counter recovered from it and the files is the number
   of files (`RecoveredExact`).
3. A write remembers a counter for another table only when that table has none
   cached. After `init` every table has one; and where one thread writes, the other
   table is never written (`OneWritten`, by cardinality), so what was counted stays true
   (`CollectChunkIInv`, `RememberDiscoveredIInv`). Without the condition this is the
   step that fails, as section 4 describes.

`TxGrows` is `Spec => []TxMonotonic`. Beyond both invariants it needs that the rows of a
table are in the order of their tx ids, and that what the next write will take as its tx
id is above all of them (`TxInv`). That holds except from `WriteRows` to `AdvanceTx`,
where the counter is behind the new rows; a lone writer reads no counter there, for the
writes of other tables are idle (`OthersIdle`).

**Plans.** `PlanExecutionProofs` proves for every set of clients, rows, fields and values,
every table to start from and every set of requests

* `PlansTyped`: `Spec => []TypeOK`
* `PlansImplementTable`: `Spec => TableRefinement`
* `PagesCorrect`: `Spec /\ [][GrowsBehind]_projection => []PagesExact`
* `BatchesCorrect`: `Spec => BatchIsSequence`

from `PlanAssumption` and `SettingsAssumption`: ids are numbers, and what clients ask for
are changes and reads. The invariant `Typed` has the locals of each call, one resolved entry
for each change passed, and that unique keys are unique in the projection and in what a
rebuild has scanned. A batch is accepted against the projection at that moment, so
`AcceptedUnique` needs nothing of the time since its changes were resolved; that is why the
refinement holds although `EditsArePartial` does not. It does need that the projection is
that of the files, which is a second invariant, `Current`: if no rebuild runs beside another
client that writes, then the projection is the table, and so is what a rebuild carries from
its scan to its publication. A rebuild of the client's own cannot be overtaken, for the
client does nothing else meanwhile, and all other clients only read. `GrowsBehind`, of a step
of the projection, says that the rows some
client asks for stay and that others come behind them: what `PagesExact` is about, and
what the settings of the run do by their choice of writes. The theorem says it of any
writes. Its invariant, `PagesInv`, is that a read has exactly the rows before its cursor
and that the rows which matched so far are among those it has counted. It rests on three facts
about order: each id has a rank and each rank an id (`Ranks`, by injections of finite
sets, for sorting itself is recursive), so the ordered ids are all ids, once
(`InOrderIs`); and ids that come behind leave the others where they are
(`InOrderGrows`).

`BatchesCorrect` has an invariant of its own, `BatchInv`: what the only client that writes or
rebuilds has resolved
is still what its changes become on the rows there are (`Becomes`), since a client with
nothing to write never gets to `append_batch`. With it an accepted batch is taken entry by
entry. After k entries (`Prefix`) the lookup of the next edit still names one row, the one
it was resolved to (`HoldsOne`): a row of the table has a unique key for itself, and an
earlier entry that had it would have been refused. So one more change on those rows is one
more entry (`NextEntry`), and the fold over the changes, which is its values on the first
positions (`FoldIs`), is the batch. The proof needs `Accepts` to compare the batch with
the rows stored as well as with itself, and `Refused` to keep edits to unique lookups.

**What is written down.** `FormatsProofs` proves of `Formats`, for inputs of any size where
the run has small ones,

* `NewestFirst`: `Spec => ReadOrder`, and `NamesTyped`: `Spec => []TypeOK` (of `ChunkNames`)
* `HashesCorrect`: `FormatsSpec => []HashesAgree`
* `LoadsCorrect`: `FormatsSpec => []LoadsExactly`
* `ParsesCorrect`: `FormatsSpec => []ParsesExactly`
* `NothingSkippedCorrect`: `FormatsSpec => []NothingSkipped`
* `LexedCorrect`: `FormatsSpec => []LexedExactly`
* `RowsCorrect`: `FormatsSpec => []RowsSurvive`
* `PointersCorrect`: `FormatsSpec => []PointersExact`
* `SixbCorrect`: `FormatsSpec => []SixbExact`

Assumed are `BaseAssumption` (a base above one), `WordsAssumption`, `LettersAssumption` and
`SourcesAssumption` (words are not punctuation and do not start with a digit; texts are
sequences of tokens, and those that something is written in are its `TextTokens`),
`RowsAssumption` (the text of a
value is one its type is written as; at most nine operations, since `RowText` writes tx
ids as one digit), and `CachesAssumption` (strings have characters of one byte; numbers, lengths
and counts are below 2^16, which are the numbers `SixbBytes` tells apart). No property of the five parts is inductive; the parts share nothing, so each
has an invariant of its own:

1. *Names.* `ReadOrder` is about the files there are, so it needs that each has the name of
   a counter below the next one (`NamesUsed`), which a compaction that starts again
   at the first name keeps. The rest is arithmetic: of two numbers the smaller has the
   smaller quotient, or the same quotient and the smaller remainder (`DivisionOrder`);
   applied once per digit this makes digits compare like numbers.
2. *Schemas.* `CompilerInv` types the tables parsed so far and says what each step of the
   parser may have read, and that the core schema is that of the result. `LoadsExactlyAt`
   is then set theory on one schema (`TableRulesAre`, `TableSchemaIs`): what `add_table`
   refuses and `validate_schema` lets through is the rest of the rules, and a name that is
   in snake case passes `is_snake_case`. `ReadInv` is about texts something is written
   in: what the parser has read is the tokens of the opening, of the first tables and of
   the first declarations of the next one, and its result so far is what is written in these
   (`TextRead`). The next token tells which declaration follows, and how long it is, once
   the ambiguous texts are set aside; so a step goes on by one declaration or one
   table, never fails in a closed text, and never ends in a bare one.
   `HashesAgreeAt`: sorting distinct names is a function (`SortedIs`), and it is the order
   of declaration exactly if that is sorted. `CountInv` counts, for each place in the text, the
   tokens before it against those of the declarations made of them (`CountDeclaration`,
   `TableSizeGrows`); `NothingSkipped` is that count at the end.
3. *Lexing.* `LexerInv` says that the tokens so far are those that start before `at`, that
   line and column are those of `at`, and that `at` is between tokens and in no comment. A word
   and a comment end at a least position (`LeastExists`), so a step over either skips
   no start of a token (`LexIdent`, `LexComment`).
4. *Rows.* `EscapeReadsBack`: the reader of an escaped text, taken character by character,
   is in the state "has read this much" behind each escaped character; so a value with
   tabs, newlines or backslashes is read as it was, and its escaped form has no character
   that ends a column or a line (`EscapeType`). `RowReadsBack` and `OperationReadsBack` put
   columns together. `RowsInv` says where each line of the file ends (`Laid`): after
   writes, and with the last end moved after a cut. Scanning goes along these ends
   (`LineRead`), so entries, offsets and lengths are those of the lines.
5. *Caches.* The bytes of a cache are pieces laid end to end, the magic bytes and one piece
   a field (`EncodeMade`), and pieces determine the bytes they are laid in (`MadeUnique`).
   `SixbInv` says of a decoder which announced fields are still to be read (`Planned`, which
   follows the two counts), where in the file each field stands whose value can be written
   at all (`Placed`), and, while no byte of the file was changed, that what was read is what was
   written (`Alike`). So a file that was cut fails or ends before the last field, a longer one
   ends behind it, and a file whose fields are those of the original has its bytes
   (`SameBytes`).

Recursion is by recursive functions and folds, and what one computes is proved by taking
the set of numbers up to which it holds and its least number outside (`UpTo` in
`MaximumProofs`).

Only model-checked are

* `NoStaleRow` after a torn line. It is checked in `crash`, whose stops leave whole lines;
  after others it is false (section 4);
* liveness under fairness (`CallsReturn`, `CompilerEnds`), which is out of the prover's
  reach.

## 6. What is not modelled, and the plan

In this order:

1. **Errors of the file system** while the handle lives on (store:1058): a failing
   `write_all`, rename or removal. A failed append has already taken the projection and
   has not forgotten the cached length of its chunk; the next append computes its
   pointers from it.
2. **The other reads of threads.** `get_by_lookup`, `read_table` and the counts load and
   read rows as `get_by_id` does, row by row; only the latter is interleaved.
3. **Two processes on one directory.** The code has no lock between processes.

Left out for good: the textual form of `.6b` and the JSON log records (older forms, read
only), the digits of integers and floats (formatting), the emission of Rust code by the
schema compiler (text for another compiler), the command line and test helpers (no
state), the test-lab programs (they use the database, one call at a time), benchmarks,
and the static pages.
