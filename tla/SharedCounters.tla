--------------------------- MODULE SharedCounters ---------------------------
(***************************************************************************)
(* What the tables of one LocalStore share: the transaction counter, the   *)
(* map of chunk counters, and sixpack.toml with its temporary file.  Each   *)
(* table has a writer mutex of its own, so one write per table is at work  *)
(* at a time, and writes of two tables meet here.  A step is one access to *)
(* a counter or to a file.  A row is its tx id.                            *)
(***************************************************************************)
EXTENDS Naturals, Sequences, FiniteSets

CONSTANTS
  Tables,
  None,        \* an absent counter or file
  MaxBatch,    \* rows of a batch (bounds the model)
  ChunkLimit,  \* rows that fit a chunk (MAX_SIX_CHUNK_BYTES)
  Settings     \* [writes, initialised]: the writes of each table (bounds the
               \* model), and whether LocalStore::init ran before

ASSUME CountersAssumption ==
  /\ IsFiniteSet(Tables)
  /\ None \notin Nat \cup {"exists"}
  /\ MaxBatch \in Nat \ {0} /\ ChunkLimit \in Nat \ {0}
  /\ \A s \in Settings : s.writes \in [Tables -> Nat] /\ s.initialised \in BOOLEAN

VARIABLES
  files,      \* tables/<t>/*.6: the tx ids of each chunk, by chunk counter
  meta,       \* sixpack.toml: [tx, chunk]
  tmp,        \* sixpack.toml.tmp
  nextTx,     \* next_tx_cache
  nextChunk,  \* next_chunk_cache
  pc,         \* what the write of a table does next
  mine,       \* its locals
  writes,     \* writes a table still makes
  setting     \* the setting of the run, from beginning to end

disk   == <<files, meta, tmp>>
memory == <<nextTx, nextChunk>>
turns  == <<writes, setting>>
vars   == <<disk, memory, pc, mine, turns>>

Metadata == [tx : Nat, chunk : [Tables -> Nat]]

NoLocals ==
  [rows |-> 0, tx |-> None, found |-> None, target |-> None, todo |-> {}, table |-> None,
   chunk |-> [t \in Tables |-> 0], outcome |-> None]

TxsOf(t) == UNION {{files[t][c][i] : i \in DOMAIN files[t][c]} : c \in DOMAIN files[t]}

(* discovered_next_tx_id, over the files of all tables. *)
DiscoveredTx ==
  LET txs == {0} \cup UNION {TxsOf(t) : t \in Tables}
  IN  (CHOOSE m \in txs : \A x \in txs : x <= m) + 1

Larger(i, j) == IF i >= j THEN i ELSE j

RecoveredTx == IF meta = None THEN DiscoveredTx ELSE Larger(meta.tx, DiscoveredTx)

RecoveredChunk(t) ==
  LET n == Cardinality(DOMAIN files[t])
  IN  IF meta = None THEN n ELSE Larger(meta.chunk[t], n)

-----------------------------------------------------------------------------

Init ==
  /\ files = [t \in Tables |-> [c \in {} |-> <<>>]]
  /\ tmp = None
  /\ setting \in Settings
  /\ IF setting.initialised
       THEN /\ meta = [tx |-> 1, chunk |-> [t \in Tables |-> 0]]
            /\ nextTx = 1
            /\ nextChunk = [t \in Tables |-> 0]
       ELSE meta = None /\ nextTx = None /\ nextChunk = [t \in Tables |-> None]
  /\ pc = [t \in Tables |-> "idle"]
  /\ mine = [t \in Tables |-> NoLocals]
  /\ writes = setting.writes

Goto(t, label) == pc' = [pc EXCEPT ![t] = label]

Return(t, outcome) ==
  Goto(t, "idle") /\ mine' = [mine EXCEPT ![t] = [NoLocals EXCEPT !.outcome = outcome]]

(* append_batch_inner starts: the table's mutex is taken. *)
Begin(t) ==
  /\ pc[t] = "idle" /\ writes[t] > 0
  /\ \E n \in 1..MaxBatch : mine' = [mine EXCEPT ![t] = [NoLocals EXCEPT !.rows = n]]
  /\ writes' = [writes EXCEPT ![t] = @ - 1]
  /\ Goto(t, "tx")
  /\ UNCHANGED <<disk, memory, setting>>

(* next_tx_id: the cached counter, else one recovered from the files. *)
ReadTx(t) ==
  /\ pc[t] = "tx"
  /\ mine' = [mine EXCEPT ![t].tx = IF nextTx # None THEN nextTx ELSE RecoveredTx]
  /\ Goto(t, IF nextTx # None THEN "chunk" ELSE "settx")
  /\ UNCHANGED <<disk, memory, turns>>

RememberTx(t) ==
  /\ pc[t] = "settx"
  /\ nextTx' = mine[t].tx
  /\ Goto(t, "chunk")
  /\ UNCHANGED <<disk, nextChunk, mine, turns>>

(* next_chunk_counter of the table that is written: cached, or discovered. *)
ReadChunk(t) ==
  /\ pc[t] = "chunk"
  /\ mine' = [mine EXCEPT ![t].found = IF nextChunk[t] # None THEN nextChunk[t]
                                                              ELSE RecoveredChunk(t)]
  /\ Goto(t, IF nextChunk[t] # None THEN "target" ELSE "setchunk")
  /\ UNCHANGED <<disk, memory, turns>>

RememberChunk(t) ==
  /\ pc[t] = "setchunk"
  /\ nextChunk' = [nextChunk EXCEPT ![t] = mine[t].found]
  /\ Goto(t, "target")
  /\ UNCHANGED <<disk, nextTx, mine, turns>>

(* Mutant: a new chunk takes the counter of the last one. *)
ChooseTarget_OffByOne(t) ==
  LET next == mine[t].found
  IN  /\ pc[t] = "target"
      /\ mine' = [mine EXCEPT ![t].target =
                   [chunk |-> next - 1, isNew |-> TRUE, next |-> next + 1]]
      /\ Goto(t, "write")
      /\ UNCHANGED <<disk, memory, turns>>

(* append_target *)
ChooseTarget(t) ==
  LET next    == mine[t].found
      current == next - 1
      fits    == /\ next > 0 /\ current \in DOMAIN files[t]
                 /\ Len(files[t][current]) + mine[t].rows <= ChunkLimit
  IN  /\ pc[t] = "target"
      /\ mine' = [mine EXCEPT ![t].target =
                   [chunk |-> IF fits THEN current ELSE next, isNew |-> ~fits,
                    next  |-> IF fits THEN next ELSE next + 1]]
      /\ Goto(t, "write")
      /\ UNCHANGED <<disk, memory, turns>>

(* create_new fails on a chunk that exists. *)
WriteRows(t) ==
  LET c    == mine[t].target.chunk
      rows == [i \in 1..mine[t].rows |-> mine[t].tx + (i - 1)]
      old  == IF c \in DOMAIN files[t] THEN files[t][c] ELSE <<>>
  IN  /\ pc[t] = "write"
      /\ IF mine[t].target.isNew /\ c \in DOMAIN files[t]
           THEN Return(t, "exists") /\ UNCHANGED files
           ELSE /\ files' = [files EXCEPT ![t] = [d \in DOMAIN files[t] \cup {c} |->
                                IF d = c THEN old \o rows ELSE files[t][d]]]
                /\ Goto(t, "advance")
                /\ UNCHANGED mine
      /\ UNCHANGED <<meta, tmp, memory, turns>>

(* Mutant: the counter is not advanced. *)
AdvanceTx_Keeps(t) ==
  /\ pc[t] = "advance"
  /\ Goto(t, "roll")
  /\ UNCHANGED <<disk, memory, mine, turns>>

(* set_next_tx_id writes what this write has computed, whatever others did. *)
AdvanceTx(t) ==
  /\ pc[t] = "advance"
  /\ nextTx' = mine[t].tx + mine[t].rows
  /\ Goto(t, "roll")
  /\ UNCHANGED <<disk, nextChunk, mine, turns>>

(* Mutant: the counter of a new chunk is not advanced. *)
AdvanceChunk_Keeps(t) ==
  /\ pc[t] = "roll"
  /\ nextChunk' = [nextChunk EXCEPT ![t] = mine[t].found]
  /\ Return(t, "done")
  /\ UNCHANGED <<disk, nextTx, turns>>

(* set_next_chunk_counter; metadata follows a batch of several rows, or the *)
(* first write of a database.                                              *)
AdvanceChunk(t) ==
  /\ pc[t] = "roll"
  /\ nextChunk' = [nextChunk EXCEPT ![t] = mine[t].target.next]
  /\ IF mine[t].rows > 1 \/ meta = None
       THEN Goto(t, "meta") /\ mine' = [mine EXCEPT ![t].todo = Tables]
       ELSE Return(t, "done")
  /\ UNCHANGED <<disk, nextTx, turns>>

-----------------------------------------------------------------------------
(* write_metadata: the chunk counter of every table, without their mutexes. *)

(* The counter of a table joins those a write has collected. *)
Collected(m, u, counter) == [m EXCEPT !.todo = @ \ {u}, !.chunk = [@ EXCEPT ![u] = counter]]

(* next_chunk_counter of any table: cached, else the files are counted. *)
CollectChunk(t) ==
  /\ pc[t] = "meta"
  /\ \E u \in mine[t].todo :
       IF nextChunk[u] # None
         THEN /\ mine' = [mine EXCEPT ![t] = Collected(@, u, nextChunk[u])]
              /\ UNCHANGED pc
         ELSE /\ mine' = [mine EXCEPT ![t].found = RecoveredChunk(u), ![t].table = u]
              /\ Goto(t, "discovered")
  /\ UNCHANGED <<disk, memory, turns>>

RememberDiscovered(t) ==
  LET u == mine[t].table
  IN  /\ pc[t] = "discovered"
      /\ nextChunk' = [nextChunk EXCEPT ![u] = mine[t].found]
      /\ mine' = [mine EXCEPT ![t] = Collected(@, u, mine[t].found)]
      /\ Goto(t, "meta")
      /\ UNCHANGED <<disk, nextTx, turns>>

WriteTmp(t) ==
  /\ pc[t] = "meta" /\ mine[t].todo = {}
  /\ tmp' = [tx |-> mine[t].tx + mine[t].rows, chunk |-> mine[t].chunk]
  /\ Goto(t, "rename")
  /\ UNCHANGED <<files, meta, memory, mine, turns>>

(* The rename fails when another write has renamed the one temporary file. *)
RenameTmp(t) ==
  /\ pc[t] = "rename"
  /\ IF tmp # None THEN meta' = tmp /\ Return(t, "done")
                   ELSE meta' = meta /\ Return(t, "renamed")
  /\ tmp' = None
  /\ UNCHANGED <<files, memory, turns>>

-----------------------------------------------------------------------------

Step(t) ==
  \/ ReadTx(t) \/ RememberTx(t) \/ ReadChunk(t) \/ RememberChunk(t) \/ ChooseTarget(t)
  \/ WriteRows(t) \/ AdvanceTx(t) \/ AdvanceChunk(t)
  \/ CollectChunk(t) \/ RememberDiscovered(t) \/ WriteTmp(t) \/ RenameTmp(t)

Finished ==
  /\ \A t \in Tables : pc[t] = "idle" /\ writes[t] = 0
  /\ UNCHANGED vars

Next == (\E t \in Tables : Begin(t) \/ Step(t)) \/ Finished

Spec == Init /\ [][Next]_vars

-----------------------------------------------------------------------------

(* Counters, files and locals have their types. *)
TypeOK ==
  /\ \A t \in Tables : \A c \in DOMAIN files[t] : c \in Nat /\ files[t][c] \in Seq(Nat)
  /\ meta # None => meta \in Metadata
  /\ tmp # None => tmp \in Metadata
  /\ nextTx # None => nextTx \in Nat
  /\ \A t \in Tables : nextChunk[t] # None => nextChunk[t] \in Nat

(* Only one table is ever written. *)
OneWriter == Cardinality({t \in Tables : setting.writes[t] > 0}) <= 1

(* On a database that init has made, and for a lone writer, a table stays   *)
(* writable: no write finds its new chunk taken, although writes of other  *)
(* tables set its counter ("until the store rolls to a new chunk").        *)
(* Between writes of a table its cached chunk counter is the number of its  *)
(* chunks, and sixpack.toml never names a chunk the files do not have.     *)
ChunkCountersExact ==
  setting.initialised \/ OneWriter =>
    /\ \A t \in Tables : mine[t].outcome # "exists"
    /\ \A t \in Tables :
         pc[t] = "idle" /\ nextChunk[t] # None => nextChunk[t] = Cardinality(DOMAIN files[t])
    /\ meta # None => \A t \in Tables : meta.chunk[t] <= Cardinality(DOMAIN files[t])

(* The tx ids of a lone writer's table grow in the order it was written.    *)
(* Writes of two tables set the counter back (set_next_tx_id).             *)
TxMonotonic ==
  OneWriter =>
    \A t \in Tables : \A c, d \in DOMAIN files[t] :
      \A i \in DOMAIN files[t][c], j \in DOMAIN files[t][d] :
        c < d \/ (c = d /\ i < j) => files[t][c][i] < files[t][d][j]
=============================================================================
