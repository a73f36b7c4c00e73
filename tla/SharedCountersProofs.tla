------------------------ MODULE SharedCountersProofs ------------------------
(***************************************************************************)
(* Chunk counters stay exact for any number of tables, whatever writes of   *)
(* them interleave, on a database that init has made; and for a lone writer *)
(* on any database.                                                        *)
(***************************************************************************)
EXTENDS SharedCounters, MaximumProofs, SequenceTheorems, TLAPS

(* The settings the invariant is about. *)
Sheltered == setting.initialised \/ OneWriter

Labels ==
  {"idle", "tx", "settx", "chunk", "setchunk", "target", "write", "advance", "roll", "meta",
   "discovered", "rename"}

Size(t) == Cardinality(DOMAIN files[t])

(* The chunks of a table are numbered without gaps. *)
Contiguous(t) == Size(t) \in Nat /\ DOMAIN files[t] = 0..(Size(t) - 1)

(* A function of chunk counters that is not ahead of the files. *)
NotAhead(chunk) == chunk \in [Tables -> Nat] /\ \A u \in Tables : chunk[u] <= Size(u)

Shape(m) ==
  m = [rows |-> m.rows, tx |-> m.tx, found |-> m.found, target |-> m.target, todo |-> m.todo,
       table |-> m.table, chunk |-> m.chunk, outcome |-> m.outcome]

(* Where append_target sends a write: behind all chunks, or into the last. *)
GoodTarget(t, target) ==
  /\ target = [chunk |-> target.chunk, isNew |-> target.isNew, next |-> target.next]
  /\ IF target.isNew THEN target.chunk = Size(t) /\ target.next = Size(t) + 1
                     ELSE /\ target.chunk \in DOMAIN files[t]
                          /\ target.chunk = Size(t) - 1 /\ target.next = Size(t)

(* The locals of a write, at each of its steps. *)
LocalsOK(t) ==
  /\ Shape(mine[t])
  /\ mine[t].outcome # "exists"
  /\ NotAhead(mine[t].chunk)
  /\ mine[t].todo \subseteq Tables
  /\ pc[t] \in {"setchunk", "target"} => mine[t].found = Size(t)
  /\ pc[t] = "write" => GoodTarget(t, mine[t].target)
  /\ pc[t] \in {"advance", "roll"} => mine[t].target.next = Size(t)
  /\ pc[t] = "discovered" =>
       /\ mine[t].table \in Tables /\ setting.writes[mine[t].table] = 0
       /\ mine[t].found = Size(mine[t].table)

(* The cached counter of a table: absent or exact before its write has      *)
(* looked at it, and exact again when the write has set it.                *)
CounterOK(t) ==
  /\ setting.initialised => nextChunk[t] # None
  /\ pc[t] \in {"idle", "tx", "settx", "chunk", "setchunk"} => nextChunk[t] \in {None, Size(t)}
  /\ pc[t] \in {"target", "write", "meta", "discovered", "rename"} => nextChunk[t] = Size(t)
  /\ pc[t] \in {"advance", "roll"} => nextChunk[t] \in 0..Size(t)

(* A table that is not to be written is not. *)
WritesOK(t) == pc[t] # "idle" \/ writes[t] > 0 => setting.writes[t] > 0

Shapes ==
  /\ setting \in Settings
  /\ files = [t \in Tables |-> files[t]] /\ mine = [t \in Tables |-> mine[t]]
  /\ pc \in [Tables -> Labels] /\ writes \in [Tables -> Nat]
  /\ nextChunk \in [Tables -> Nat \cup {None}]

Inner ==
  /\ Shapes
  /\ \A t \in Tables : Contiguous(t) /\ LocalsOK(t) /\ CounterOK(t) /\ WritesOK(t)
  /\ meta # None => NotAhead(meta.chunk)
  /\ tmp # None => NotAhead(tmp.chunk)

IInv == setting \in Settings /\ (Sheltered => Inner)

-----------------------------------------------------------------------------

(* A lone writer: two tables that are written are one. *)
LEMMA OneWritten ==
  ASSUME OneWriter, NEW t \in Tables, NEW u \in Tables,
         setting.writes[t] > 0, setting.writes[u] > 0
  PROVE  t = u
<1> DEFINE W == {v \in Tables : setting.writes[v] > 0}
<1>1. IsFiniteSet(W)
  BY CountersAssumption, FS_Subset, W \subseteq Tables
<1>2. Cardinality(W) <= 1 /\ Cardinality(W) \in Nat
  BY <1>1, FS_CardinalityType DEF OneWriter
<1>3. SUFFICES ASSUME t # u PROVE FALSE
  OBVIOUS
<1>4. {t, u} \subseteq W
  OBVIOUS
<1>5. Cardinality({t}) = 1 /\ IsFiniteSet({t})
  BY FS_Singleton
<1>6. Cardinality({t} \cup {u}) = 2 /\ {t} \cup {u} = {t, u}
  BY <1>3, <1>5, FS_AddElement
<1>7. Cardinality({t, u}) <= Cardinality(W)
  BY <1>1, <1>4, FS_Subset
<1> QED
  BY <1>2, <1>6, <1>7

(* The initial states: no chunk, and counters that init has set or nobody. *)
LEMMA InitIInv == Init => IInv
<1> SUFFICES ASSUME Init PROVE Inner /\ setting \in Settings
  BY DEF IInv
<1>1. \A t \in Tables : DOMAIN files[t] = {} /\ Size(t) = 0
  BY FS_EmptySet DEF Init, Size
<1>2. \A t \in Tables : Contiguous(t)
  <2> TAKE t \in Tables
  <2>1. Size(t) = 0 /\ DOMAIN files[t] = {}
    BY <1>1
  <2>2. 0..(Size(t) - 1) = {}
    BY <2>1
  <2> QED
    BY <2>1, <2>2 DEF Contiguous
<1>3. setting \in Settings /\ setting.writes \in [Tables -> Nat]
  BY CountersAssumption DEF Init
<1>4. Shapes
  BY <1>3 DEF Shapes, Init, Labels
<1>5. \A t \in Tables : LocalsOK(t)
  <2> TAKE t \in Tables
  <2>1. mine[t] = NoLocals /\ pc[t] = "idle"
    BY DEF Init
  <2>2. /\ Shape(NoLocals) /\ NoLocals.outcome = None /\ NoLocals.todo = {}
        /\ NoLocals.chunk = [u \in Tables |-> 0]
    BY DEF NoLocals, Shape
  <2>3. NotAhead(NoLocals.chunk)
    BY <1>1, <2>2 DEF NotAhead
  <2> QED
    BY <2>1, <2>2, <2>3, CountersAssumption DEF LocalsOK
<1>6. \A t \in Tables : CounterOK(t) /\ WritesOK(t)
  BY <1>1, CountersAssumption DEF Init, CounterOK, WritesOK
<1>7. meta # None => NotAhead(meta.chunk)
  BY <1>1 DEF Init, NotAhead
<1> QED
  BY <1>2, <1>3, <1>4, <1>5, <1>6, <1>7 DEF Inner, Init

(* A step that leaves the files alone leaves every size. *)
LEMMA SameSizes ==
  ASSUME files' = files, \A t \in Tables : Contiguous(t)
  PROVE  /\ \A t \in Tables : Size(t)' = Size(t) /\ Size(t) \in Nat /\ Contiguous(t)'
         /\ \A chunk : NotAhead(chunk) => NotAhead(chunk)'
BY DEF Size, Contiguous, NotAhead

(* What a write has in hand stays good while only chunks are added, and     *)
(* those to tables that are written, by other writes.                      *)
LEMMA OthersKeepLocals ==
  ASSUME Inner, NEW u \in Tables, setting' = setting, pc'[u] = pc[u], mine'[u] = mine[u],
         \A v \in Tables : Size(v) \in Nat /\ Size(v)' \in Nat /\ Size(v) <= Size(v)',
         \A v \in Tables : v = u \/ setting.writes[v] = 0 =>
           Size(v)' = Size(v) /\ DOMAIN files'[v] = DOMAIN files[v]
  PROVE  LocalsOK(u)'
<1>1. LocalsOK(u)
  BY DEF Inner
<1>2. (Shape(mine[u]) /\ mine[u].outcome # "exists" /\ mine[u].todo \subseteq Tables)'
  BY <1>1 DEF LocalsOK, Shape
<1>3. NotAhead(mine[u].chunk)'
  BY <1>1 DEF LocalsOK, NotAhead
<1>4. (/\ pc[u] \in {"setchunk", "target"} => mine[u].found = Size(u)
       /\ pc[u] \in {"advance", "roll"} => mine[u].target.next = Size(u))'
  BY <1>1 DEF LocalsOK
<1>5. (pc[u] = "write" => GoodTarget(u, mine[u].target))'
  BY <1>1 DEF LocalsOK, GoodTarget
<1>6. (pc[u] = "discovered" =>
         /\ mine[u].table \in Tables /\ setting.writes[mine[u].table] = 0
         /\ mine[u].found = Size(mine[u].table))'
  BY <1>1 DEF LocalsOK
<1> QED
  BY <1>2, <1>3, <1>4, <1>5, <1>6 DEF LocalsOK

LEMMA QuietStep ==
  ASSUME Inner, NEW t \in Tables, files' = files, setting' = setting, Shapes',
         \A u \in Tables \ {t} :
           pc'[u] = pc[u] /\ mine'[u] = mine[u] /\ writes'[u] = writes[u] /\ CounterOK(u)',
         LocalsOK(t)', CounterOK(t)', WritesOK(t)',
         (meta # None => NotAhead(meta.chunk))', (tmp # None => NotAhead(tmp.chunk))'
  PROVE  Inner'
<1>1. ASSUME NEW u \in Tables
      PROVE  Contiguous(u)' /\ LocalsOK(u)' /\ CounterOK(u)' /\ WritesOK(u)'
  <2>1. Contiguous(u)'
    BY SameSizes DEF Inner
  <2>2. CASE u = t
    BY <2>1, <2>2
  <2>3. CASE u # t
    <3>1. LocalsOK(u)'
      BY <2>3, SameSizes, OthersKeepLocals DEF Inner
    <3>2. WritesOK(u)'
      BY <2>3 DEF Inner, WritesOK
    <3> QED
      BY <2>1, <2>3, <3>1, <3>2
  <2> QED BY <2>2, <2>3
<1> QED BY <1>1 DEF Inner

(* What a write's locals are when it begins, and when it has returned. *)
LEMMA FreshRecords ==
  ASSUME NEW n, NEW o
  PROVE  /\ LET m == [NoLocals EXCEPT !.rows = n]
            IN  /\ Shape(m) /\ m.outcome = None /\ m.todo = {}
                /\ m.chunk = [u \in Tables |-> 0]
         /\ LET m == [NoLocals EXCEPT !.outcome = o]
            IN  /\ Shape(m) /\ m.outcome = o /\ m.todo = {}
                /\ m.chunk = [u \in Tables |-> 0]
BY SMTT(30) DEF NoLocals, Shape

LEMMA CollectedRecord ==
  ASSUME NEW m, Shape(m), NEW u, NEW counter
  PROVE  LET new == Collected(m, u, counter)
         IN  /\ Shape(new) /\ new.outcome = m.outcome /\ new.todo = m.todo \ {u}
             /\ new.chunk = [m.chunk EXCEPT ![u] = counter]
<1> DEFINE todo == m.todo \ {u}
           b == [m EXCEPT !.todo = todo]
           chunk == [m.chunk EXCEPT ![u] = counter]
           new == Collected(m, u, counter)
<1>1. Shape(b) /\ b.outcome = m.outcome /\ b.todo = todo /\ b.chunk = m.chunk
  BY DEF Shape
<1>2. new = [b EXCEPT !.chunk = chunk]
  BY <1>1 DEF Collected
<1> HIDE DEF b, chunk, new
<1>3. Shape(new) /\ new.outcome = b.outcome /\ new.todo = b.todo /\ new.chunk = chunk
  BY <1>1, <1>2 DEF Shape
<1> QED
  BY <1>1, <1>3 DEF chunk, new

(* The locals of a table that is between writes, or about to begin one. *)
LEMMA FreshLocals ==
  ASSUME Inner, NEW t \in Tables, files' = files, pc'[t] \in {"idle", "tx"},
         NEW m, mine'[t] = m, Shape(m), m.outcome # "exists", m.todo = {},
         m.chunk = [u \in Tables |-> 0]
  PROVE  LocalsOK(t)'
<1>1. (Shape(mine[t]) /\ mine[t].outcome # "exists" /\ mine[t].todo \subseteq Tables)'
  BY DEF Shape
<1>2. NotAhead(mine[t].chunk)'
  BY SameSizes DEF Inner, NotAhead
<1> QED
  BY <1>1, <1>2 DEF LocalsOK

LEMMA ReturnLocals ==
  ASSUME Inner, NEW t \in Tables, files' = files, NEW o, o # "exists", Return(t, o)
  PROVE  LocalsOK(t)'
<1> DEFINE m == [NoLocals EXCEPT !.outcome = o]
<1>1. /\ Shape(m) /\ m.outcome = o /\ m.todo = {} /\ m.chunk = [u \in Tables |-> 0]
  BY DEF NoLocals, Shape
<1>2. mine' = [mine EXCEPT ![t] = m] /\ pc'[t] = "idle"
  BY DEF Return, Goto, Inner, Shapes
<1> HIDE DEF m
<1>3. mine'[t] = m
  BY <1>2 DEF Inner, Shapes
<1> QED
  BY <1>1, <1>2, <1>3, FreshLocals

LEMMA NextChunkNotAhead ==
  ASSUME Inner, NEW t \in Tables, nextChunk[t] # None
  PROVE  nextChunk[t] \in Nat /\ nextChunk[t] <= Size(t)
<1>1. pc[t] \in Labels /\ nextChunk[t] \in Nat \cup {None} /\ Size(t) \in Nat /\ CounterOK(t)
  BY DEF Inner, Shapes, Contiguous
<1> QED
  BY <1>1 DEF CounterOK, Labels

(* Nothing says there are more chunks than there are files. *)
LEMMA RecoveredExact ==
  ASSUME Inner, NEW t \in Tables
  PROVE  RecoveredChunk(t) = Size(t) /\ Size(t) \in Nat
BY DEF Inner, Contiguous, NotAhead, RecoveredChunk, Larger, Size

LEMMA BeginIInv ==
  ASSUME Inner, NEW t \in Tables, Begin(t)
  PROVE  Inner'
<1> USE DEF Begin, Goto, disk, memory, turns
<1>1. Shapes'
  <2>1. writes' \in [Tables -> Nat]
    BY DEF Inner, Shapes
  <2>2. mine' = [u \in Tables |-> mine'[u]]
    BY DEF Inner, Shapes
  <2>3. pc' \in [Tables -> Labels]
    BY DEF Inner, Shapes, Labels
  <2> QED
    BY <2>1, <2>2, <2>3 DEF Inner, Shapes
<1>2. \A u \in Tables \ {t} : pc'[u] = pc[u] /\ mine'[u] = mine[u] /\ writes'[u] = writes[u]
  BY DEF Inner, Shapes
<1>3. LocalsOK(t)'
  <2>1. PICK n \in 1..MaxBatch : mine' = [mine EXCEPT ![t] = [NoLocals EXCEPT !.rows = n]]
    OBVIOUS
  <2> DEFINE m == [NoLocals EXCEPT !.rows = n]
  <2>2. /\ Shape(m) /\ m.outcome = None /\ m.todo = {}
        /\ m.chunk = [u \in Tables |-> 0]
    BY FreshRecords
  <2>3. mine' = [mine EXCEPT ![t] = m] /\ pc'[t] = "tx"
    BY <2>1 DEF Inner, Shapes
  <2> HIDE DEF m
  <2>4. mine'[t] = m
    BY <2>3 DEF Inner, Shapes
  <2> QED
    BY <2>2, <2>3, <2>4, FreshLocals, CountersAssumption
<1>4. \A u \in Tables : CounterOK(u)'
  BY SameSizes DEF Inner, Shapes, CounterOK
<1>5. WritesOK(t)'
  BY DEF Inner, Shapes, WritesOK
<1>6. (meta # None => NotAhead(meta.chunk))' /\ (tmp # None => NotAhead(tmp.chunk))'
  BY SameSizes DEF Inner, NotAhead
<1> QED
  BY <1>1, <1>2, <1>3, <1>4, <1>5, <1>6, QuietStep

LEMMA ReadTxIInv ==
  ASSUME Inner, NEW t \in Tables, ReadTx(t)
  PROVE  Inner'
<1> USE DEF ReadTx, Goto, disk, memory, turns
<1>1. Shapes'
  BY DEF Inner, Shapes, Labels
<1>2. \A u \in Tables \ {t} : pc'[u] = pc[u] /\ mine'[u] = mine[u] /\ writes'[u] = writes[u]
  BY DEF Inner, Shapes
<1>3. LocalsOK(t)'
  <2> DEFINE m == mine[t]
  <2>1. mine'[t] = [m EXCEPT !.tx = IF nextTx # None THEN nextTx ELSE RecoveredTx]
    BY DEF Inner, Shapes
  <2>2. Shape(m)
    BY DEF Inner, LocalsOK
  <2>3. /\ Shape(mine'[t]) /\ mine'[t].tx = IF nextTx # None THEN nextTx ELSE RecoveredTx
        /\ mine'[t].outcome = m.outcome /\ mine'[t].chunk = m.chunk /\ mine'[t].todo = m.todo
    BY <2>1, <2>2 DEF Shape
  <2>4. pc'[t] \in {"chunk", "settx"}
    BY DEF Inner, Shapes
  <2> QED
    BY <2>3, <2>4, SameSizes DEF Inner, LocalsOK, NotAhead, Shape
<1>4. \A u \in Tables : CounterOK(u)'
  BY SameSizes DEF Inner, Shapes, CounterOK
<1>5. WritesOK(t)'
  BY DEF Inner, Shapes, WritesOK
<1>6. (meta # None => NotAhead(meta.chunk))' /\ (tmp # None => NotAhead(tmp.chunk))'
  BY SameSizes DEF Inner, NotAhead
<1> QED
  BY <1>1, <1>2, <1>3, <1>4, <1>5, <1>6, QuietStep

LEMMA RememberTxIInv ==
  ASSUME Inner, NEW t \in Tables, RememberTx(t)
  PROVE  Inner'
<1> USE DEF RememberTx, Goto, disk, memory, turns
<1>1. Shapes'
  BY DEF Inner, Shapes, Labels
<1>2. \A u \in Tables \ {t} : pc'[u] = pc[u] /\ mine'[u] = mine[u] /\ writes'[u] = writes[u]
  BY DEF Inner, Shapes
<1>3. LocalsOK(t)'
  BY SameSizes DEF Inner, Shapes, LocalsOK, NotAhead, Shape
<1>4. \A u \in Tables : CounterOK(u)'
  BY SameSizes DEF Inner, Shapes, CounterOK
<1>5. WritesOK(t)'
  BY DEF Inner, Shapes, WritesOK
<1>6. (meta # None => NotAhead(meta.chunk))' /\ (tmp # None => NotAhead(tmp.chunk))'
  BY SameSizes DEF Inner, NotAhead
<1> QED
  BY <1>1, <1>2, <1>3, <1>4, <1>5, <1>6, QuietStep

LEMMA ReadChunkIInv ==
  ASSUME Inner, NEW t \in Tables, ReadChunk(t)
  PROVE  Inner'
<1> USE DEF ReadChunk, Goto, disk, memory, turns
<1>1. Shapes'
  BY DEF Inner, Shapes, Labels
<1>2. \A u \in Tables \ {t} : pc'[u] = pc[u] /\ mine'[u] = mine[u] /\ writes'[u] = writes[u]
  BY DEF Inner, Shapes
<1>3. LocalsOK(t)'
  <2> DEFINE m == mine[t]
             found == IF nextChunk[t] # None THEN nextChunk[t] ELSE RecoveredChunk(t)
  <2>1. mine'[t] = [m EXCEPT !.found = found]
    BY DEF Inner, Shapes
  <2>2. Shape(m)
    BY DEF Inner, LocalsOK
  <2>3. /\ Shape(mine'[t]) /\ mine'[t].found = found
        /\ mine'[t].outcome = m.outcome /\ mine'[t].chunk = m.chunk /\ mine'[t].todo = m.todo
    BY <2>1, <2>2 DEF Shape
  <2>4. pc'[t] \in {"target", "setchunk"}
    BY DEF Inner, Shapes
  <2>5. mine'[t].found = Size(t)
    BY <2>3, RecoveredExact DEF Inner, CounterOK
  <2> QED
    BY <2>3, <2>4, <2>5, SameSizes DEF Inner, LocalsOK, NotAhead, Shape
<1>4. \A u \in Tables : CounterOK(u)'
  BY SameSizes DEF Inner, Shapes, CounterOK
<1>5. WritesOK(t)'
  BY DEF Inner, Shapes, WritesOK
<1>6. (meta # None => NotAhead(meta.chunk))' /\ (tmp # None => NotAhead(tmp.chunk))'
  BY SameSizes DEF Inner, NotAhead
<1> QED
  BY <1>1, <1>2, <1>3, <1>4, <1>5, <1>6, QuietStep

LEMMA RememberChunkIInv ==
  ASSUME Inner, NEW t \in Tables, RememberChunk(t)
  PROVE  Inner'
<1> USE DEF RememberChunk, Goto, disk, memory, turns
<1>1. Shapes'
  BY SameSizes DEF Inner, Shapes, Labels, LocalsOK
<1>2. \A u \in Tables \ {t} : pc'[u] = pc[u] /\ mine'[u] = mine[u] /\ writes'[u] = writes[u]
  BY DEF Inner, Shapes
<1>3. LocalsOK(t)'
  BY SameSizes DEF Inner, Shapes, LocalsOK, NotAhead, Shape
<1>4. \A u \in Tables : CounterOK(u)'
  BY SameSizes DEF Inner, Shapes, CounterOK, LocalsOK
<1>5. WritesOK(t)'
  BY DEF Inner, Shapes, WritesOK
<1>6. (meta # None => NotAhead(meta.chunk))' /\ (tmp # None => NotAhead(tmp.chunk))'
  BY SameSizes DEF Inner, NotAhead
<1> QED
  BY <1>1, <1>2, <1>3, <1>4, <1>5, <1>6, QuietStep

(* append_target puts a batch behind the last chunk, or into it. *)
LEMMA ChooseTargetIInv ==
  ASSUME Inner, NEW t \in Tables, ChooseTarget(t)
  PROVE  Inner'
<1> USE DEF ChooseTarget, Goto, disk, memory, turns
<1>1. Shapes'
  BY DEF Inner, Shapes, Labels
<1>2. \A u \in Tables \ {t} : pc'[u] = pc[u] /\ mine'[u] = mine[u] /\ writes'[u] = writes[u]
  BY DEF Inner, Shapes
<1>3. LocalsOK(t)'
  <2> DEFINE m == mine[t]
             next == m.found
             current == next - 1
             fits == /\ next > 0 /\ current \in DOMAIN files[t]
                     /\ Len(files[t][current]) + m.rows <= ChunkLimit
             target == [chunk |-> IF fits THEN current ELSE next, isNew |-> ~fits,
                        next  |-> IF fits THEN next ELSE next + 1]
  <2>1. mine' = [mine EXCEPT ![t].target = target]
    OBVIOUS
  <2>2. next = Size(t)
    BY DEF Inner, LocalsOK
  <2>3. GoodTarget(t, target)
    <3>1. CASE fits
      BY <2>2, <3>1 DEF GoodTarget
    <3>2. CASE ~fits
      BY <2>2, <3>2 DEF GoodTarget
    <3> QED
      BY <3>1, <3>2
  <2> HIDE DEF target
  <2>4. mine'[t] = [m EXCEPT !.target = target]
    BY <2>1 DEF Inner, Shapes
  <2>5. Shape(m)
    BY DEF Inner, LocalsOK
  <2>6. /\ Shape(mine'[t]) /\ mine'[t].target = target
        /\ mine'[t].outcome = m.outcome /\ mine'[t].chunk = m.chunk /\ mine'[t].todo = m.todo
    BY <2>4, <2>5 DEF Shape
  <2>7. pc'[t] = "write"
    BY DEF Inner, Shapes
  <2>8. GoodTarget(t, mine[t].target)'
    BY <2>3, <2>6, SameSizes DEF Inner, GoodTarget
  <2> QED
    BY <2>6, <2>7, <2>8, SameSizes DEF Inner, LocalsOK, NotAhead, Shape
<1>4. \A u \in Tables : CounterOK(u)'
  BY SameSizes DEF Inner, Shapes, CounterOK, LocalsOK
<1>5. WritesOK(t)'
  BY DEF Inner, Shapes, WritesOK
<1>6. (meta # None => NotAhead(meta.chunk))' /\ (tmp # None => NotAhead(tmp.chunk))'
  BY SameSizes DEF Inner, NotAhead
<1> QED
  BY <1>1, <1>2, <1>3, <1>4, <1>5, <1>6, QuietStep

LEMMA AdvanceTxIInv ==
  ASSUME Inner, NEW t \in Tables, AdvanceTx(t)
  PROVE  Inner'
<1> USE DEF AdvanceTx, Goto, disk, memory, turns
<1>1. Shapes'
  BY DEF Inner, Shapes, Labels
<1>2. \A u \in Tables \ {t} : pc'[u] = pc[u] /\ mine'[u] = mine[u] /\ writes'[u] = writes[u]
  BY DEF Inner, Shapes
<1>3. LocalsOK(t)'
  BY SameSizes DEF Inner, Shapes, LocalsOK, NotAhead, Shape
<1>4. \A u \in Tables : CounterOK(u)'
  BY SameSizes DEF Inner, Shapes, CounterOK
<1>5. WritesOK(t)'
  BY DEF Inner, Shapes, WritesOK
<1>6. (meta # None => NotAhead(meta.chunk))' /\ (tmp # None => NotAhead(tmp.chunk))'
  BY SameSizes DEF Inner, NotAhead
<1> QED
  BY <1>1, <1>2, <1>3, <1>4, <1>5, <1>6, QuietStep

LEMMA AdvanceChunkIInv ==
  ASSUME Inner, NEW t \in Tables, AdvanceChunk(t)
  PROVE  Inner'
<1> USE DEF AdvanceChunk, Goto, disk, memory, turns, Return
<1>1. Shapes'
  <2>1. nextChunk' \in [Tables -> Nat \cup {None}]
    BY DEF Inner, Shapes, LocalsOK, Contiguous
  <2>2. pc' \in [Tables -> Labels]
    BY DEF Inner, Shapes, Labels
  <2>3. mine' = [u \in Tables |-> mine'[u]]
    BY DEF Inner, Shapes
  <2> QED
    BY <2>1, <2>2, <2>3 DEF Inner, Shapes
<1>2. \A u \in Tables \ {t} : pc'[u] = pc[u] /\ mine'[u] = mine[u] /\ writes'[u] = writes[u]
  BY DEF Inner, Shapes
<1>3. LocalsOK(t)'
  <2>1. CASE mine[t].rows > 1 \/ meta = None
    <3> DEFINE m == mine[t]
    <3>1. mine'[t] = [m EXCEPT !.todo = Tables] /\ pc'[t] = "meta"
      BY <2>1 DEF Inner, Shapes
    <3>2. Shape(m)
      BY DEF Inner, LocalsOK
    <3>3. /\ Shape(mine'[t]) /\ mine'[t].outcome = m.outcome
          /\ mine'[t].chunk = m.chunk /\ mine'[t].todo = Tables
      BY <3>1, <3>2 DEF Shape
    <3> QED
      BY <3>1, <3>3, SameSizes DEF Inner, LocalsOK, NotAhead, Shape
  <2>2. CASE ~(mine[t].rows > 1 \/ meta = None)
    BY <2>2, ReturnLocals DEF Inner, Shapes
  <2> QED
    BY <2>1, <2>2
<1>4. \A u \in Tables : CounterOK(u)'
  BY SameSizes, CountersAssumption DEF Inner, Shapes, CounterOK, LocalsOK
<1>5. WritesOK(t)'
  BY DEF Inner, Shapes, WritesOK
<1>6. (meta # None => NotAhead(meta.chunk))' /\ (tmp # None => NotAhead(tmp.chunk))'
  BY SameSizes DEF Inner, NotAhead
<1> QED
  BY <1>1, <1>2, <1>3, <1>4, <1>5, <1>6, QuietStep

-----------------------------------------------------------------------------

LEMMA CollectChunkIInv ==
  ASSUME Inner, NEW t \in Tables, CollectChunk(t), Sheltered
  PROVE  Inner'
<1> USE DEF CollectChunk, Goto, disk, memory, turns
<1>1. Shapes'
  BY DEF Inner, Shapes, Labels
<1>2. \A u \in Tables \ {t} : pc'[u] = pc[u] /\ mine'[u] = mine[u] /\ writes'[u] = writes[u]
  BY DEF Inner, Shapes
<1>3. LocalsOK(t)'
  <2> DEFINE m == mine[t]
  <2>1. PICK u \in m.todo :
          IF nextChunk[u] # None
            THEN /\ mine' = [mine EXCEPT ![t] = Collected(@, u, nextChunk[u])]
                 /\ UNCHANGED pc
            ELSE /\ mine' = [mine EXCEPT ![t].found = RecoveredChunk(u), ![t].table = u]
                 /\ Goto(t, "discovered")
    OBVIOUS
  <2>2. Shape(m) /\ u \in Tables /\ m.todo \subseteq Tables /\ m.chunk \in [Tables -> Nat]
    BY <2>1 DEF Inner, LocalsOK, NotAhead
  <2>3. CASE nextChunk[u] # None
    <3>1. mine'[t] = Collected(m, u, nextChunk[u])
      BY <2>1, <2>3 DEF Inner, Shapes
    <3>2. /\ Shape(mine'[t]) /\ mine'[t].outcome = m.outcome /\ mine'[t].todo = m.todo \ {u}
          /\ mine'[t].chunk = [m.chunk EXCEPT ![u] = nextChunk[u]]
      BY <2>2, <3>1, CollectedRecord
    <3>3. nextChunk[u] \in Nat /\ nextChunk[u] <= Size(u)
      BY <2>2, <2>3, NextChunkNotAhead
    <3>4. NotAhead(mine[t].chunk)'
      BY <2>2, <3>2, <3>3, SameSizes DEF Inner, LocalsOK, NotAhead
    <3>5. pc'[t] = "meta"
      BY <2>1, <2>3
    <3> QED
      BY <2>2, <3>2, <3>4, <3>5 DEF Inner, LocalsOK
  <2>4. CASE nextChunk[u] = None
    <3>1. mine'[t] = [m EXCEPT !.found = RecoveredChunk(u), !.table = u] /\ pc'[t] = "discovered"
      BY <2>1, <2>4 DEF Inner, Shapes
    <3>2. /\ Shape(mine'[t]) /\ mine'[t].outcome = m.outcome /\ mine'[t].todo = m.todo
          /\ mine'[t].chunk = m.chunk /\ mine'[t].found = RecoveredChunk(u) /\ mine'[t].table = u
      BY <2>2, <3>1 DEF Shape
    <3>3. u # t /\ OneWriter
      <4>1. nextChunk[t] = Size(t) /\ Size(t) \in Nat
        BY DEF Inner, CounterOK, Contiguous
      <4>2. ~setting.initialised
        BY <2>2, <2>4 DEF Inner, CounterOK
      <4> QED
        BY <2>4, <4>1, <4>2, CountersAssumption DEF Sheltered
    <3>4. setting.writes[u] = 0
      <4>1. setting.writes[t] > 0 /\ setting.writes[u] \in Nat
        BY <2>2, CountersAssumption DEF Inner, Shapes, WritesOK
      <4> QED
        BY <2>2, <3>3, <4>1, OneWritten
    <3>5. mine'[t].found = Size(u)
      BY <2>2, <3>2, RecoveredExact
    <3> QED
      BY <2>2, <3>1, <3>2, <3>4, <3>5, SameSizes DEF Inner, LocalsOK, NotAhead
  <2> QED
    BY <2>3, <2>4
<1>4. \A u \in Tables : CounterOK(u)'
  BY SameSizes DEF Inner, Shapes, CounterOK
<1>5. WritesOK(t)'
  BY DEF Inner, Shapes, WritesOK
<1>6. (meta # None => NotAhead(meta.chunk))' /\ (tmp # None => NotAhead(tmp.chunk))'
  BY SameSizes DEF Inner, NotAhead
<1> QED
  BY <1>1, <1>2, <1>3, <1>4, <1>5, <1>6, QuietStep

LEMMA RememberDiscoveredIInv ==
  ASSUME Inner, NEW t \in Tables, RememberDiscovered(t)
  PROVE  Inner'
<1> USE DEF RememberDiscovered, Goto, disk, memory, turns
<1>1. Shapes'
  <2>1. nextChunk' \in [Tables -> Nat \cup {None}]
    BY DEF Inner, Shapes, LocalsOK, Contiguous
  <2> QED
    BY <2>1 DEF Inner, Shapes, Labels
<1>2. \A u \in Tables \ {t} : pc'[u] = pc[u] /\ mine'[u] = mine[u] /\ writes'[u] = writes[u]
  BY DEF Inner, Shapes
<1>3. LocalsOK(t)'
  <2> DEFINE m == mine[t]
             u == m.table
  <2>1. mine'[t] = Collected(m, u, m.found) /\ pc'[t] = "meta"
    BY DEF Inner, Shapes
  <2>2. Shape(m) /\ u \in Tables /\ m.found = Size(u) /\ m.chunk \in [Tables -> Nat]
    BY DEF Inner, LocalsOK, NotAhead
  <2>3. /\ Shape(mine'[t]) /\ mine'[t].outcome = m.outcome /\ mine'[t].todo = m.todo \ {u}
        /\ mine'[t].chunk = [m.chunk EXCEPT ![u] = m.found]
    BY <2>1, <2>2, CollectedRecord
  <2>4. NotAhead(mine[t].chunk)'
    BY <2>2, <2>3, SameSizes DEF Inner, LocalsOK, NotAhead
  <2> QED
    BY <2>1, <2>3, <2>4 DEF Inner, LocalsOK
<1>4. \A u \in Tables : CounterOK(u)'
  <2>1. LocalsOK(t) /\ mine[t].table # t
    BY DEF Inner, LocalsOK, WritesOK
  <2>2. mine[t].found = Size(mine[t].table) /\ Size(mine[t].table) \in Nat
    BY <2>1 DEF Inner, LocalsOK, Contiguous
  <2>3. setting.writes[mine[t].table] = 0 /\ mine[t].table \in Tables
    BY <2>1 DEF LocalsOK
  <2>4. pc[mine[t].table] = "idle"
    BY <2>3 DEF Inner, WritesOK
  <2>5. ASSUME NEW u \in Tables PROVE CounterOK(u)'
    <3>1. CASE u = mine[t].table
      BY <2>1, <2>2, <2>4, <3>1, SameSizes, CountersAssumption DEF Inner, Shapes, CounterOK
    <3>2. CASE u # mine[t].table
      BY <2>3, <3>2, SameSizes DEF Inner, Shapes, CounterOK
    <3> QED
      BY <3>1, <3>2
  <2> QED
    BY <2>5
<1>5. WritesOK(t)'
  BY DEF Inner, Shapes, WritesOK
<1>6. (meta # None => NotAhead(meta.chunk))' /\ (tmp # None => NotAhead(tmp.chunk))'
  BY SameSizes DEF Inner, NotAhead
<1> QED
  BY <1>1, <1>2, <1>3, <1>4, <1>5, <1>6, QuietStep

LEMMA WriteTmpIInv ==
  ASSUME Inner, NEW t \in Tables, WriteTmp(t)
  PROVE  Inner'
<1> USE DEF WriteTmp, Goto, disk, memory, turns
<1>1. Shapes'
  BY DEF Inner, Shapes, Labels
<1>2. \A u \in Tables \ {t} : pc'[u] = pc[u] /\ mine'[u] = mine[u] /\ writes'[u] = writes[u]
  BY DEF Inner, Shapes
<1>3. LocalsOK(t)'
  BY SameSizes DEF Inner, Shapes, LocalsOK, NotAhead, Shape
<1>4. \A u \in Tables : CounterOK(u)'
  BY SameSizes DEF Inner, Shapes, CounterOK
<1>5. WritesOK(t)'
  BY DEF Inner, Shapes, WritesOK
<1>6. (meta # None => NotAhead(meta.chunk))' /\ (tmp # None => NotAhead(tmp.chunk))'
  <2>1. NotAhead(mine[t].chunk)'
    BY SameSizes DEF Inner, LocalsOK
  <2>2. tmp'.chunk = mine[t].chunk
    OBVIOUS
  <2> QED
    BY <2>1, <2>2, SameSizes DEF Inner, NotAhead
<1> QED
  BY <1>1, <1>2, <1>3, <1>4, <1>5, <1>6, QuietStep

LEMMA RenameTmpIInv ==
  ASSUME Inner, NEW t \in Tables, RenameTmp(t)
  PROVE  Inner'
<1> USE DEF RenameTmp, Goto, disk, memory, turns, Return
<1>1. Shapes'
  BY DEF Inner, Shapes, Labels
<1>2. \A u \in Tables \ {t} : pc'[u] = pc[u] /\ mine'[u] = mine[u] /\ writes'[u] = writes[u]
  BY DEF Inner, Shapes
<1>3. LocalsOK(t)'
  <2>1. CASE tmp # None
    BY <2>1, ReturnLocals DEF Inner, Shapes
  <2>2. CASE tmp = None
    BY <2>2, ReturnLocals DEF Inner, Shapes
  <2> QED
    BY <2>1, <2>2
<1>4. \A u \in Tables : CounterOK(u)'
  BY SameSizes DEF Inner, Shapes, CounterOK
<1>5. WritesOK(t)'
  BY DEF Inner, Shapes, WritesOK
<1>6. (meta # None => NotAhead(meta.chunk))' /\ (tmp # None => NotAhead(tmp.chunk))'
  BY SameSizes DEF Inner, NotAhead
<1> QED
  BY <1>1, <1>2, <1>3, <1>4, <1>5, <1>6, QuietStep

(* A batch goes behind the last chunk, where no chunk is yet, or into it. *)
LEMMA WriteRowsIInv ==
  ASSUME Inner, NEW t \in Tables, WriteRows(t)
  PROVE  Inner'
<1> DEFINE target == mine[t].target
           c == target.chunk
           rows == [i \in 1..mine[t].rows |-> mine[t].tx + (i - 1)]
           old == IF c \in DOMAIN files[t] THEN files[t][c] ELSE <<>>
           all == [d \in DOMAIN files[t] \cup {c} |-> IF d = c THEN old \o rows ELSE files[t][d]]
<1>1. /\ Size(t) \in Nat /\ DOMAIN files[t] = 0..(Size(t) - 1)
      /\ pc[t] = "write" /\ setting.writes[t] > 0 /\ GoodTarget(t, target)
  BY DEF Inner, Contiguous, LocalsOK, WriteRows, WritesOK
<1>2. ~(target.isNew /\ c \in DOMAIN files[t])
  BY SMTT(30), <1>1 DEF GoodTarget
<1>3. /\ files' = [files EXCEPT ![t] = all] /\ pc' = [pc EXCEPT ![t] = "advance"]
      /\ UNCHANGED <<mine, meta, tmp, nextTx, nextChunk, writes, setting>>
  BY <1>2 DEF WriteRows, Goto, memory, turns
<1>4. DOMAIN files'[t] = DOMAIN files[t] \cup {c}
  <2>1. files'[t] = all
    BY <1>3 DEF Inner, Shapes
  <2> HIDE DEF c, rows, old
  <2> QED
    BY <2>1
<1> HIDE DEF rows, old, all
<1>5. (Contiguous(t) /\ Size(t) = target.next)' /\ Size(t) <= Size(t)'
  <2>1. CASE target.isNew
    <3>1. c = Size(t) /\ target.next = Size(t) + 1
      BY <1>1, <2>1 DEF GoodTarget
    <3>2. DOMAIN files'[t] = 0..(target.next - 1)
      BY <1>1, <1>4, <3>1
    <3>3. Size(t)' = target.next
      <4>1. Cardinality(0..(target.next - 1)) = target.next
        BY <1>1, <3>1, FS_Interval
      <4> QED
        BY <3>2, <4>1 DEF Size
    <3> QED
      BY <1>1, <1>3, <3>1, <3>2, <3>3 DEF Contiguous
  <2>2. CASE ~target.isNew
    <3>1. DOMAIN files'[t] = DOMAIN files[t] /\ target.next = Size(t)
      BY <1>1, <1>4, <2>2 DEF GoodTarget
    <3>2. Size(t)' = Size(t)
      BY <3>1 DEF Size
    <3> QED
      BY <1>1, <1>3, <3>1, <3>2 DEF Contiguous
  <2> QED
    BY <2>1, <2>2
<1>6. \A v \in Tables \ {t} :
        files'[v] = files[v] /\ Size(v)' = Size(v) /\ Contiguous(v)' /\ Size(v) \in Nat
  BY <1>3 DEF Inner, Shapes, Contiguous, Size
<1>7. \A v \in Tables : Contiguous(v)' /\ Size(v) \in Nat /\ Size(v)' \in Nat /\ Size(v) <= Size(v)'
  BY <1>1, <1>5, <1>6 DEF Contiguous
<1>8. \A chunk : NotAhead(chunk) => NotAhead(chunk)'
  BY <1>7 DEF NotAhead
<1>9. Shapes'
  <2>1. files' = [v \in Tables |-> files'[v]]
    BY <1>3 DEF Inner, Shapes
  <2>2. pc' \in [Tables -> Labels]
    BY <1>3 DEF Inner, Shapes, Labels
  <2> QED
    BY <1>3, <2>1, <2>2 DEF Inner, Shapes
<1>10. LocalsOK(t)'
  <2>1. mine'[t] = mine[t] /\ pc'[t] = "advance"
    BY <1>3 DEF Inner, Shapes
  <2>2. NotAhead(mine[t].chunk)'
    BY <1>3, <1>8 DEF Inner, LocalsOK
  <2> QED
    BY <1>5, <2>1, <2>2 DEF Inner, LocalsOK, Shape
<1>11. ASSUME NEW u \in Tables, u # t
       PROVE  LocalsOK(u)'
  <2>1. \A v \in Tables : v = u \/ setting.writes[v] = 0 => v # t
    BY <1>1, <1>11
  <2> QED
    BY <1>3, <1>6, <1>7, <1>11, <2>1, OthersKeepLocals DEF Inner, Shapes
<1>12. ASSUME NEW u \in Tables
       PROVE  CounterOK(u)' /\ WritesOK(u)'
  <2>1. CASE u = t
    <3>1. nextChunk'[t] = Size(t) /\ pc'[t] = "advance"
      BY <1>1, <1>3 DEF Inner, Shapes, CounterOK
    <3> QED
      BY <1>1, <1>3, <1>7, <2>1, <3>1, CountersAssumption DEF CounterOK, WritesOK
  <2>2. CASE u # t
    BY <1>3, <1>6, <2>2 DEF Inner, Shapes, CounterOK, WritesOK
  <2> QED
    BY <2>1, <2>2
<1>13. (meta # None => NotAhead(meta.chunk))' /\ (tmp # None => NotAhead(tmp.chunk))'
  BY <1>3, <1>7 DEF Inner, NotAhead
<1> QED
  BY SMTT(30), <1>7, <1>9, <1>10, <1>11, <1>12, <1>13 DEF Inner

-----------------------------------------------------------------------------

LEMMA StutterIInv == ASSUME Inner, UNCHANGED vars PROVE Inner'
<1>1. \A t \in Tables : Contiguous(t)'
  BY DEF vars, disk, Inner, Contiguous, Size
<1>2. Shapes'
  BY DEF vars, disk, memory, turns, Inner, Shapes
<1>3. \A chunk : NotAhead(chunk) => NotAhead(chunk)'
  BY SameSizes DEF vars, disk, Inner
<1>4. \A t \in Tables : LocalsOK(t)'
  BY OthersKeepLocals, SameSizes DEF vars, disk, turns, Inner
<1>5. \A t \in Tables : CounterOK(t)' /\ WritesOK(t)'
  BY SameSizes DEF vars, disk, memory, turns, Inner, CounterOK, WritesOK
<1>6. (meta # None => NotAhead(meta.chunk))' /\ (tmp # None => NotAhead(tmp.chunk))'
  BY SameSizes DEF vars, disk, Inner, NotAhead
<1> QED
  BY <1>1, <1>2, <1>4, <1>5, <1>6 DEF Inner

LEMMA NextIInv == IInv /\ [Next]_vars => IInv'
<1> SUFFICES ASSUME IInv, [Next]_vars PROVE IInv'
  BY SMTT(30)
<1>1. setting' = setting
  BY DEF Next, Step, Finished, Begin, ReadTx, RememberTx, ReadChunk, RememberChunk, ChooseTarget,
     WriteRows, AdvanceTx, AdvanceChunk, CollectChunk, RememberDiscovered, WriteTmp, RenameTmp,
     vars, turns
<1>2. Sheltered' = Sheltered
  BY <1>1 DEF Sheltered, OneWriter
<1>3. SUFFICES ASSUME Sheltered PROVE Inner'
  BY <1>1, <1>2 DEF IInv
<1>4. Inner
  BY <1>3 DEF IInv
<1>5. ASSUME NEW t \in Tables, Begin(t) PROVE Inner'
  BY <1>4, <1>5, BeginIInv
<1>6. ASSUME NEW t \in Tables, Step(t) PROVE Inner'
  BY <1>3, <1>4, <1>6, ReadTxIInv, RememberTxIInv, ReadChunkIInv, RememberChunkIInv,
     ChooseTargetIInv, WriteRowsIInv, AdvanceTxIInv, AdvanceChunkIInv, CollectChunkIInv,
     RememberDiscoveredIInv, WriteTmpIInv, RenameTmpIInv DEF Step
<1>7. CASE Finished \/ UNCHANGED vars
  BY <1>4, <1>7, StutterIInv DEF Finished
<1> QED
  BY <1>5, <1>6, <1>7 DEF Next

LEMMA IInvExact == IInv => ChunkCountersExact
<1> SUFFICES ASSUME IInv, Sheltered
             PROVE  /\ \A t \in Tables : mine[t].outcome # "exists"
                    /\ \A t \in Tables :
                         pc[t] = "idle" /\ nextChunk[t] # None => nextChunk[t] = Size(t)
                    /\ meta # None => \A t \in Tables : meta.chunk[t] <= Size(t)
  BY DEF ChunkCountersExact, Sheltered, Size
<1> QED
  BY DEF IInv, Inner, LocalsOK, CounterOK, NotAhead

(* For any number of tables, of rows of a batch and of rows of a chunk, and *)
(* whatever writes interleave: on a database that init has made, and for a *)
(* lone writer, no write finds its new chunk taken (create_new), a cached   *)
(* chunk counter is the number of chunks between the writes of its table,   *)
(* and sixpack.toml names no chunk that the files do not have.             *)
THEOREM CountersExact == Spec => []ChunkCountersExact
<1>1. Init => IInv
  BY InitIInv
<1>2. IInv /\ [Next]_vars => IInv'
  BY NextIInv
<1>3. IInv => ChunkCountersExact
  BY IInvExact
<1> QED
  BY <1>1, <1>2, <1>3, PTL DEF Spec

-----------------------------------------------------------------------------
(* Types, whether the setting is sheltered or not.                         *)

Target == [chunk : Nat, isNew : BOOLEAN, next : Nat]

Locals ==
  [rows : Nat, tx : Nat \cup {None}, found : Nat \cup {None}, target : Target \cup {None},
   todo : SUBSET Tables, table : Tables \cup {None}, chunk : [Tables -> Nat],
   outcome : {None, "done", "exists", "renamed"}]

(* What a write has computed by the time it uses it. *)
Computed(m, label) ==
  /\ label \notin {"idle", "tx"} => m.tx \in Nat
  /\ label \in {"setchunk", "target", "discovered"} => m.found \in Nat
  /\ label \in {"write", "advance", "roll"} => m.target \in Target
  /\ label = "discovered" => m.table \in Tables

ChunksTyped(chunks) ==
  /\ IsFiniteSet(DOMAIN chunks)
  /\ \A c \in DOMAIN chunks : c \in Nat /\ chunks[c] \in Seq(Nat)

(* No file has the tx id n, or a higher one. *)
TxBelow(n) ==
  \A t \in Tables : \A c \in DOMAIN files[t] : \A i \in DOMAIN files[t][c] : files[t][c][i] < n

(* That the tx ids in the files are bounded makes the highest exist. *)
Typed ==
  /\ pc \in [Tables -> Labels] /\ mine \in [Tables -> Locals]
  /\ \A t \in Tables : Computed(mine[t], pc[t])
  /\ files = [t \in Tables |-> files[t]] /\ \A t \in Tables : ChunksTyped(files[t])
  /\ \E n \in Nat : TxBelow(n)
  /\ meta \in Metadata \cup {None} /\ tmp \in Metadata \cup {None}
  /\ nextTx \in Nat \cup {None} /\ nextChunk \in [Tables -> Nat \cup {None}]

LEMMA InitTyped == Init => Typed
<1> SUFFICES ASSUME Init PROVE Typed
  OBVIOUS
<1>1. NoLocals \in Locals
  BY DEF NoLocals, Locals
<1>2. pc \in [Tables -> Labels] /\ mine \in [Tables -> Locals]
  BY <1>1 DEF Init, Labels
<1>3. \A t \in Tables : Computed(mine[t], pc[t])
  BY DEF Init, Computed
<1>4. files = [t \in Tables |-> files[t]] /\ \A t \in Tables : ChunksTyped(files[t])
  BY FS_EmptySet DEF Init, ChunksTyped
<1>5. TxBelow(0)
  BY DEF Init, TxBelow
<1>6. meta \in Metadata \cup {None} /\ nextTx \in Nat \cup {None}
      /\ nextChunk \in [Tables -> Nat \cup {None}] /\ tmp = None
  BY DEF Init, Metadata
<1> QED
  BY <1>2, <1>3, <1>4, <1>5, <1>6 DEF Typed

(* A step of one write that leaves the files alone. *)
LEMMA TypedStep ==
  ASSUME Typed, NEW t \in Tables, files' = files,
         NEW label \in Labels, pc' = [pc EXCEPT ![t] = label],
         NEW m \in Locals, mine' = [mine EXCEPT ![t] = m], Computed(m, label),
         meta' \in Metadata \cup {None}, tmp' \in Metadata \cup {None},
         nextTx' \in Nat \cup {None}, nextChunk' \in [Tables -> Nat \cup {None}]
  PROVE  Typed'
<1>1. pc' \in [Tables -> Labels] /\ mine' \in [Tables -> Locals]
  BY DEF Typed
<1>2. \A u \in Tables : Computed(mine'[u], pc'[u])
  BY DEF Typed
<1>3. \E n \in Nat : TxBelow(n)'
  BY DEF Typed, TxBelow
<1> QED
  BY <1>1, <1>2, <1>3 DEF Typed

(* A record of locals with one field set. *)
LEMMA LocalsSet ==
  ASSUME NEW m \in Locals, NEW n \in Nat
  PROVE  /\ [m EXCEPT !.tx = n] \in Locals /\ [m EXCEPT !.tx = n].tx = n
         /\ [m EXCEPT !.found = n] \in Locals /\ [m EXCEPT !.found = n].found = n
         /\ [m EXCEPT !.found = n].tx = m.tx
         /\ [m EXCEPT !.todo = Tables] \in Locals /\ [m EXCEPT !.todo = Tables].tx = m.tx
BY DEF Locals

LEMMA RecoveredTxIs ==
  ASSUME Typed
  PROVE  RecoveredTx \in Nat /\ TxBelow(RecoveredTx)
<1> DEFINE txs == {0} \cup UNION {TxsOf(t) : t \in Tables}
           highest(m) == m \in txs /\ \A x \in txs : x <= m
<1>1. PICK n \in Nat : TxBelow(n)
  BY DEF Typed
<1>2. ASSUME NEW x \in txs PROVE x \in Nat /\ x <= n
  <2>1. CASE x = 0
    BY <2>1
  <2>2. CASE x # 0
    <3>1. PICK t \in Tables : x \in TxsOf(t)
      BY <2>2
    <3>2. PICK c \in DOMAIN files[t] : \E i \in DOMAIN files[t][c] : x = files[t][c][i]
      BY <3>1 DEF TxsOf
    <3>3. PICK i \in DOMAIN files[t][c] : x = files[t][c][i]
      BY <3>2
    <3>4. files[t][c] \in Seq(Nat)
      BY DEF Typed, ChunksTyped
    <3>5. x \in Nat /\ x < n
      BY <1>1, <3>3, <3>4, ElementOfSeq, LenProperties DEF TxBelow
    <3> QED
      BY <3>5
  <2> QED
    BY <2>1, <2>2
<1>3. txs \in SUBSET Nat /\ txs # {}
  BY <1>2
<1> HIDE DEF txs
<1>4. \E m \in txs : highest(m)
  BY <1>1, <1>2, <1>3, MaximumExists
<1> DEFINE top == CHOOSE m \in txs : \A x \in txs : x <= m
<1>5. highest(top) /\ DiscoveredTx = top + 1
  BY <1>4 DEF DiscoveredTx, txs
<1>6. DiscoveredTx \in Nat /\ \A x \in txs : x < DiscoveredTx
  <2> HIDE DEF top
  <2> QED
    BY <1>2, <1>3, <1>5
<1>7. RecoveredTx \in Nat /\ DiscoveredTx <= RecoveredTx
  BY <1>6 DEF RecoveredTx, Larger, Typed, Metadata
<1>8. ASSUME NEW t \in Tables, NEW c \in DOMAIN files[t], NEW i \in DOMAIN files[t][c]
      PROVE  files[t][c][i] < RecoveredTx
  <2>1. files[t][c][i] \in txs
    BY DEF TxsOf, txs
  <2>2. files[t][c][i] \in Nat
    BY <1>3, <2>1
  <2> QED
    BY <1>6, <1>7, <2>1, <2>2
<1> QED
  BY <1>7, <1>8 DEF TxBelow

LEMMA RecoveredChunkIs ==
  ASSUME Typed, NEW t \in Tables
  PROVE  RecoveredChunk(t) \in Nat
<1>1. Cardinality(DOMAIN files[t]) \in Nat
  BY FS_CardinalityType DEF Typed, ChunksTyped
<1> QED
  BY <1>1 DEF RecoveredChunk, Larger, Typed, Metadata

LEMMA ReturnTyped ==
  ASSUME Typed, NEW t \in Tables, files' = files, NEW o \in {None, "done", "exists", "renamed"},
         Return(t, o),
         meta' \in Metadata \cup {None}, tmp' \in Metadata \cup {None},
         nextTx' \in Nat \cup {None}, nextChunk' \in [Tables -> Nat \cup {None}]
  PROVE  Typed'
<1> DEFINE m == [NoLocals EXCEPT !.outcome = o]
<1>1. m \in Locals
  BY DEF NoLocals, Locals
<1>2. Computed(m, "idle") /\ "idle" \in Labels
  BY DEF Computed, Labels
<1>3. mine' = [mine EXCEPT ![t] = m] /\ pc' = [pc EXCEPT ![t] = "idle"]
  BY DEF Return, Goto
<1> HIDE DEF m
<1> QED
  BY <1>1, <1>2, <1>3, TypedStep

LEMMA BeginTyped ==
  ASSUME Typed, NEW t \in Tables, Begin(t)
  PROVE  Typed'
<1>1. PICK n \in 1..MaxBatch : mine' = [mine EXCEPT ![t] = [NoLocals EXCEPT !.rows = n]]
  BY DEF Begin
<1> DEFINE m == [NoLocals EXCEPT !.rows = n]
<1>2. m \in Locals
  BY CountersAssumption DEF NoLocals, Locals
<1>3. Computed(m, "tx") /\ "tx" \in Labels
  BY DEF Computed, Labels
<1>4. mine' = [mine EXCEPT ![t] = m] /\ pc' = [pc EXCEPT ![t] = "tx"]
  BY <1>1 DEF Begin, Goto
<1>5. UNCHANGED <<files, meta, tmp, nextTx, nextChunk>>
  BY DEF Begin, disk, memory
<1> HIDE DEF m
<1> QED
  BY <1>2, <1>3, <1>4, <1>5, TypedStep DEF Typed

LEMMA ReadTxTyped ==
  ASSUME Typed, NEW t \in Tables, ReadTx(t)
  PROVE  Typed'
<1> DEFINE n     == IF nextTx # None THEN nextTx ELSE RecoveredTx
           m     == [mine[t] EXCEPT !.tx = n]
           label == IF nextTx # None THEN "chunk" ELSE "settx"
<1>1. n \in Nat
  BY RecoveredTxIs DEF Typed
<1>2. mine' = [mine EXCEPT ![t] = m] /\ pc' = [pc EXCEPT ![t] = label]
  BY DEF ReadTx, Goto
<1>3. UNCHANGED <<files, meta, tmp, nextTx, nextChunk>>
  BY DEF ReadTx, disk, memory
<1> HIDE DEF n
<1>4. m \in Locals /\ m.tx = n
  BY <1>1, LocalsSet DEF Typed
<1> HIDE DEF m
<1>5. Computed(m, label) /\ label \in Labels
  BY <1>1, <1>4 DEF Computed, Labels
<1> QED
  BY <1>2, <1>3, <1>4, <1>5, TypedStep DEF Typed

LEMMA RememberTxTyped ==
  ASSUME Typed, NEW t \in Tables, RememberTx(t)
  PROVE  Typed'
<1>1. mine' = [mine EXCEPT ![t] = mine[t]] /\ mine[t] \in Locals /\ Computed(mine[t], "settx")
  BY DEF RememberTx, Typed
<1>2. Computed(mine[t], "chunk") /\ "chunk" \in Labels
  BY <1>1 DEF Computed, Labels
<1>3. /\ UNCHANGED <<files, meta, tmp, nextChunk>> /\ nextTx' \in Nat
      /\ pc' = [pc EXCEPT ![t] = "chunk"]
  BY <1>1 DEF RememberTx, Goto, disk, Computed
<1> QED
  BY <1>1, <1>2, <1>3, TypedStep DEF Typed

LEMMA ReadChunkTyped ==
  ASSUME Typed, NEW t \in Tables, ReadChunk(t)
  PROVE  Typed'
<1> DEFINE n     == IF nextChunk[t] # None THEN nextChunk[t] ELSE RecoveredChunk(t)
           m     == [mine[t] EXCEPT !.found = n]
           label == IF nextChunk[t] # None THEN "target" ELSE "setchunk"
<1>1. n \in Nat
  BY RecoveredChunkIs DEF Typed
<1>2. mine' = [mine EXCEPT ![t] = m] /\ pc' = [pc EXCEPT ![t] = label]
  BY DEF ReadChunk, Goto
<1>3. UNCHANGED <<files, meta, tmp, nextTx, nextChunk>>
  BY DEF ReadChunk, disk, memory
<1> HIDE DEF n
<1>4. mine[t] \in Locals /\ mine[t].tx \in Nat
  BY DEF ReadChunk, Typed, Computed
<1>5. m \in Locals /\ m.tx \in Nat /\ m.found = n
  BY <1>1, <1>4, LocalsSet
<1> HIDE DEF m
<1>6. Computed(m, label) /\ label \in Labels
  BY <1>1, <1>5 DEF Computed, Labels
<1> QED
  BY <1>2, <1>3, <1>5, <1>6, TypedStep DEF Typed

LEMMA RememberChunkTyped ==
  ASSUME Typed, NEW t \in Tables, RememberChunk(t)
  PROVE  Typed'
<1>1. mine' = [mine EXCEPT ![t] = mine[t]] /\ mine[t] \in Locals /\ Computed(mine[t], "setchunk")
  BY DEF RememberChunk, Typed
<1>2. Computed(mine[t], "target") /\ "target" \in Labels
  BY <1>1 DEF Computed, Labels
<1>3. /\ UNCHANGED <<files, meta, tmp, nextTx>> /\ nextChunk' \in [Tables -> Nat \cup {None}]
      /\ pc' = [pc EXCEPT ![t] = "target"]
  BY <1>1 DEF RememberChunk, Goto, disk, Computed, Typed
<1> QED
  BY <1>1, <1>2, <1>3, TypedStep DEF Typed

LEMMA ChooseTargetTyped ==
  ASSUME Typed, NEW t \in Tables, ChooseTarget(t)
  PROVE  Typed'
<1> DEFINE next    == mine[t].found
           current == next - 1
           fits    == /\ next > 0 /\ current \in DOMAIN files[t]
                      /\ Len(files[t][current]) + mine[t].rows <= ChunkLimit
           target  == [chunk |-> IF fits THEN current ELSE next, isNew |-> ~fits,
                       next  |-> IF fits THEN next ELSE next + 1]
           m       == [mine[t] EXCEPT !.target = target]
<1>1. mine[t] \in Locals /\ mine[t].tx \in Nat /\ next \in Nat
  BY DEF ChooseTarget, Typed, Computed
<1>2. target \in Target
  <2> HIDE DEF next
  <2>1. CASE fits
    <3>1. current \in Nat
      BY <1>1, <2>1
    <3>2. target = [chunk |-> current, isNew |-> FALSE, next |-> next]
      BY <2>1
    <3> HIDE DEF target, fits, current
    <3> QED
      BY <1>1, <3>1, <3>2 DEF Target
  <2>2. CASE ~fits
    <3>1. target = [chunk |-> next, isNew |-> TRUE, next |-> next + 1]
      BY <2>2
    <3> HIDE DEF target, fits, current
    <3> QED
      BY <1>1, <3>1 DEF Target
  <2> QED
    BY <2>1, <2>2
<1>3. mine' = [mine EXCEPT ![t] = m] /\ pc' = [pc EXCEPT ![t] = "write"]
  BY DEF ChooseTarget, Goto
<1>4. UNCHANGED <<files, meta, tmp, nextTx, nextChunk>>
  BY DEF ChooseTarget, disk, memory
<1> HIDE DEF target
<1>5. m \in Locals /\ m.tx \in Nat /\ m.target = target
  BY <1>1, <1>2 DEF Locals
<1> HIDE DEF m
<1>6. Computed(m, "write") /\ "write" \in Labels
  BY <1>2, <1>5 DEF Computed, Labels
<1> QED
  BY <1>3, <1>4, <1>5, <1>6, TypedStep DEF Typed

LEMMA AdvanceTxTyped ==
  ASSUME Typed, NEW t \in Tables, AdvanceTx(t)
  PROVE  Typed'
<1>1. mine' = [mine EXCEPT ![t] = mine[t]] /\ mine[t] \in Locals /\ Computed(mine[t], "advance")
  BY DEF AdvanceTx, Typed
<1>2. Computed(mine[t], "roll") /\ "roll" \in Labels
  BY <1>1 DEF Computed, Labels
<1>3. mine[t].tx + mine[t].rows \in Nat
  BY <1>1 DEF Computed, Locals
<1>4. /\ UNCHANGED <<files, meta, tmp, nextChunk>> /\ nextTx' \in Nat
      /\ pc' = [pc EXCEPT ![t] = "roll"]
  BY <1>3 DEF AdvanceTx, Goto, disk
<1> QED
  BY <1>1, <1>2, <1>4, TypedStep DEF Typed

LEMMA AdvanceChunkTyped ==
  ASSUME Typed, NEW t \in Tables, AdvanceChunk(t)
  PROVE  Typed'
<1> DEFINE m == [mine[t] EXCEPT !.todo = Tables]
<1>1. mine[t] \in Locals /\ mine[t].tx \in Nat /\ mine[t].target \in Target
  BY DEF AdvanceChunk, Typed, Computed
<1>2. /\ UNCHANGED <<files, meta, tmp, nextTx>>
      /\ nextChunk' = [nextChunk EXCEPT ![t] = mine[t].target.next]
  BY DEF AdvanceChunk, disk
<1>3. nextChunk' \in [Tables -> Nat \cup {None}]
  BY <1>1, <1>2 DEF Typed, Target
<1>4. CASE Return(t, "done")
  BY <1>2, <1>3, <1>4, ReturnTyped DEF Typed
<1>5. CASE Goto(t, "meta") /\ mine' = [mine EXCEPT ![t].todo = Tables]
  <2>1. mine' = [mine EXCEPT ![t] = m] /\ pc' = [pc EXCEPT ![t] = "meta"]
    BY <1>5 DEF Goto
  <2>2. m \in Locals /\ m.tx \in Nat
    BY <1>1, LocalsSet
  <2> HIDE DEF m
  <2>3. Computed(m, "meta") /\ "meta" \in Labels
    BY <2>2 DEF Computed, Labels
  <2> QED
    BY <1>2, <1>3, <2>1, <2>2, <2>3, TypedStep DEF Typed
<1> QED
  BY <1>4, <1>5 DEF AdvanceChunk

(* A counter joins those collected; the rest of the locals stay. *)
LEMMA CollectedTyped ==
  ASSUME NEW m \in Locals, m.tx \in Nat, NEW u \in Tables, NEW n \in Nat
  PROVE  Collected(m, u, n) \in Locals /\ Computed(Collected(m, u, n), "meta")
<1> DEFINE b == [m EXCEPT !.todo = m.todo \ {u}]
           chunk == [m.chunk EXCEPT ![u] = n]
           new == Collected(m, u, n)
<1>1. b \in Locals /\ b.tx = m.tx /\ b.chunk = m.chunk
  BY DEF Locals
<1>2. chunk \in [Tables -> Nat]
  BY DEF Locals
<1>3. new = [b EXCEPT !.chunk = chunk]
  BY <1>1 DEF Collected
<1> HIDE DEF b, chunk, new
<1>4. new \in Locals /\ new.tx = b.tx
  BY <1>1, <1>2, <1>3 DEF Locals
<1> QED
  BY <1>1, <1>4 DEF Computed, new

LEMMA CollectChunkTyped ==
  ASSUME Typed, NEW t \in Tables, CollectChunk(t)
  PROVE  Typed'
<1>1. /\ mine[t] \in Locals /\ mine[t].tx \in Nat
      /\ pc' = [pc EXCEPT ![t] = "meta"] \/ pc' = [pc EXCEPT ![t] = "discovered"]
      /\ UNCHANGED <<files, meta, tmp, nextTx, nextChunk>>
  BY DEF CollectChunk, Typed, Computed, Goto, disk, memory
<1>2. PICK u \in mine[t].todo :
        IF nextChunk[u] # None
          THEN /\ mine' = [mine EXCEPT ![t] = Collected(@, u, nextChunk[u])]
               /\ UNCHANGED pc
          ELSE /\ mine' = [mine EXCEPT ![t].found = RecoveredChunk(u), ![t].table = u]
               /\ Goto(t, "discovered")
  BY DEF CollectChunk
<1>3. u \in Tables
  BY <1>1 DEF Locals
<1>4. CASE nextChunk[u] # None
  <2> DEFINE m == Collected(mine[t], u, nextChunk[u])
  <2>1. mine' = [mine EXCEPT ![t] = m] /\ pc' = [pc EXCEPT ![t] = "meta"]
    BY <1>2, <1>4 DEF CollectChunk, Typed
  <2>2. nextChunk[u] \in Nat
    BY <1>3, <1>4 DEF Typed
  <2>3. m \in Locals /\ Computed(m, "meta") /\ "meta" \in Labels
    BY <1>1, <1>3, <2>2, CollectedTyped DEF Labels
  <2> HIDE DEF m
  <2> QED
    BY <1>1, <2>1, <2>3, TypedStep DEF Typed
<1>5. CASE nextChunk[u] = None
  <2> DEFINE b == [mine[t] EXCEPT !.found = RecoveredChunk(u)]
             m == [b EXCEPT !.table = u]
  <2>1. mine' = [mine EXCEPT ![t] = m] /\ pc' = [pc EXCEPT ![t] = "discovered"]
    BY <1>2, <1>5 DEF Goto, Typed
  <2>2. RecoveredChunk(u) \in Nat
    BY <1>3, RecoveredChunkIs
  <2>3. b \in Locals /\ b.tx \in Nat /\ b.found \in Nat
    BY <1>1, <2>2, LocalsSet
  <2> HIDE DEF b
  <2>4. m \in Locals /\ m.tx \in Nat /\ m.found \in Nat /\ m.table = u
    BY <1>3, <2>3 DEF Locals
  <2> HIDE DEF m
  <2>5. Computed(m, "discovered") /\ "discovered" \in Labels
    BY <1>3, <2>4 DEF Computed, Labels
  <2> QED
    BY <1>1, <2>1, <2>4, <2>5, TypedStep DEF Typed
<1> QED
  BY <1>4, <1>5

LEMMA RememberDiscoveredTyped ==
  ASSUME Typed, NEW t \in Tables, RememberDiscovered(t)
  PROVE  Typed'
<1> DEFINE u == mine[t].table
           m == Collected(mine[t], u, mine[t].found)
<1>1. mine[t] \in Locals /\ mine[t].tx \in Nat /\ mine[t].found \in Nat /\ u \in Tables
  BY DEF RememberDiscovered, Typed, Computed
<1>2. mine' = [mine EXCEPT ![t] = m] /\ pc' = [pc EXCEPT ![t] = "meta"]
  BY DEF RememberDiscovered, Goto
<1>3. m \in Locals /\ Computed(m, "meta") /\ "meta" \in Labels
  BY <1>1, CollectedTyped DEF Labels
<1>4. UNCHANGED <<files, meta, tmp, nextTx>> /\ nextChunk' \in [Tables -> Nat \cup {None}]
  BY <1>1 DEF RememberDiscovered, disk, Typed
<1> HIDE DEF m
<1> QED
  BY <1>2, <1>3, <1>4, TypedStep DEF Typed

LEMMA WriteTmpTyped ==
  ASSUME Typed, NEW t \in Tables, WriteTmp(t)
  PROVE  Typed'
<1>1. mine' = [mine EXCEPT ![t] = mine[t]] /\ mine[t] \in Locals /\ Computed(mine[t], "meta")
  BY DEF WriteTmp, Typed
<1>2. Computed(mine[t], "rename") /\ "rename" \in Labels
  BY <1>1 DEF Computed, Labels
<1>3. tmp' \in Metadata
  BY <1>1 DEF WriteTmp, Computed, Locals, Metadata
<1>4. UNCHANGED <<files, meta, nextTx, nextChunk>> /\ pc' = [pc EXCEPT ![t] = "rename"]
  BY DEF WriteTmp, Goto, memory
<1> QED
  BY <1>1, <1>2, <1>3, <1>4, TypedStep DEF Typed

LEMMA RenameTmpTyped ==
  ASSUME Typed, NEW t \in Tables, RenameTmp(t)
  PROVE  Typed'
<1>1. /\ UNCHANGED <<files, nextTx, nextChunk>> /\ tmp' = None
      /\ meta' \in Metadata \cup {None}
  BY DEF RenameTmp, memory, Typed
<1>2. Return(t, "done") \/ Return(t, "renamed")
  BY SMTT(30) DEF RenameTmp
<1> QED
  BY <1>1, <1>2, ReturnTyped DEF Typed

(* What a write adds to its files, as append_target and the write leave it. *)
Rows(m) == [i \in 1..m.rows |-> m.tx + (i - 1)]

Grown(chunks, c, lines) ==
  [d \in DOMAIN chunks \cup {c} |->
     IF d = c THEN (IF c \in DOMAIN chunks THEN chunks[c] ELSE <<>>) \o lines ELSE chunks[d]]

LEMMA WrittenIs ==
  ASSUME NEW t \in Tables, WriteRows(t)
  PROVE  \/ /\ mine[t].target.isNew /\ mine[t].target.chunk \in DOMAIN files[t]
            /\ Return(t, "exists") /\ UNCHANGED files
         \/ /\ files' = [files EXCEPT ![t] = Grown(files[t], mine[t].target.chunk, Rows(mine[t]))]
            /\ Goto(t, "advance") /\ UNCHANGED mine
BY DEF WriteRows, Grown, Rows

(* The rows of a write have the tx ids from its own on. *)
LEMMA RowsAre ==
  ASSUME NEW m \in Locals, m.tx \in Nat
  PROVE  /\ Rows(m) \in Seq(Nat) /\ m.tx + m.rows \in Nat
         /\ \A i \in DOMAIN Rows(m) : i \in Nat /\ Rows(m)[i] = m.tx + (i - 1)
                                        /\ m.tx <= Rows(m)[i] /\ Rows(m)[i] < m.tx + m.rows
<1>1. m.rows \in Nat
  BY DEF Locals
<1>2. Rows(m) \in Seq(Nat)
  BY <1>1, SeqDef DEF Rows
<1>3. \A i \in DOMAIN Rows(m) : i \in 1..m.rows /\ Rows(m)[i] = m.tx + (i - 1)
  BY DEF Rows
<1> QED
  BY SMTT(30), <1>1, <1>2, <1>3

(* Every line of a chunk that has grown is an old one or a new one, and the *)
(* old ones come first.                                                    *)
LEMMA GrownIs ==
  ASSUME NEW chunks, ChunksTyped(chunks), NEW c \in Nat, NEW lines \in Seq(Nat)
  PROVE  /\ ChunksTyped(Grown(chunks, c, lines))
         /\ \A d \in DOMAIN Grown(chunks, c, lines) : \A i \in DOMAIN Grown(chunks, c, lines)[d] :
              /\ i \in Nat
              /\ \/ /\ d \in DOMAIN chunks /\ i \in DOMAIN chunks[d]
                    /\ Grown(chunks, c, lines)[d][i] = chunks[d][i]
                 \/ /\ d = c
                    /\ \E n \in Nat :
                         /\ i - n \in DOMAIN lines /\ Grown(chunks, c, lines)[d][i] = lines[i - n]
                         /\ c \in DOMAIN chunks => n = Len(chunks[c])
                         /\ c \notin DOMAIN chunks => n = 0
<1> DEFINE old   == IF c \in DOMAIN chunks THEN chunks[c] ELSE <<>>
           both  == old \o lines
           grown == Grown(chunks, c, lines)
           n     == Len(old)
<1>1. old \in Seq(Nat)
  BY EmptySeq DEF ChunksTyped
<1>2. /\ c \in DOMAIN chunks => n = Len(chunks[c])
      /\ c \notin DOMAIN chunks => n = 0
  BY EmptySeq
<1>3. DOMAIN grown = DOMAIN chunks \cup {c} /\ grown[c] = both
      /\ \A d \in DOMAIN chunks \ {c} : grown[d] = chunks[d]
  BY DEF Grown
<1>4. /\ c \in DOMAIN chunks => old = chunks[c]
      /\ c \notin DOMAIN chunks => old = <<>> /\ DOMAIN old = {}
  OBVIOUS
<1> HIDE DEF old
<1>5. /\ both \in Seq(Nat) /\ n \in Nat
      /\ Len(both) = n + Len(lines)
      /\ \A i \in 1..Len(both) : both[i] = IF i <= n THEN old[i] ELSE lines[i - n]
  BY <1>1, ConcatProperties, LenProperties
<1>6. DOMAIN old = 1..n /\ DOMAIN lines = 1..Len(lines) /\ DOMAIN both = 1..Len(both)
      /\ Len(lines) \in Nat /\ Len(both) \in Nat
  BY <1>1, <1>5, LenProperties
<1> HIDE DEF both, n, grown
<1>7. IsFiniteSet(DOMAIN grown)
  BY <1>3, FS_AddElement DEF ChunksTyped
<1>8. ChunksTyped(grown)
  BY <1>3, <1>5, <1>7 DEF ChunksTyped
<1>9. ASSUME NEW d \in DOMAIN grown, NEW i \in DOMAIN grown[d], d # c
      PROVE  /\ i \in Nat /\ d \in DOMAIN chunks /\ i \in DOMAIN chunks[d]
             /\ grown[d][i] = chunks[d][i]
  <2>1. d \in DOMAIN chunks /\ grown[d] = chunks[d] /\ chunks[d] \in Seq(Nat)
    BY <1>3, <1>9 DEF ChunksTyped
  <2> QED
    BY <2>1, LenProperties
<1>10. ASSUME NEW i \in DOMAIN grown[c]
       PROVE  /\ i \in Nat
              /\ \/ c \in DOMAIN chunks /\ i \in DOMAIN chunks[c] /\ grown[c][i] = chunks[c][i]
                 \/ i - n \in DOMAIN lines /\ grown[c][i] = lines[i - n]
  <2>1. i \in 1..Len(both) /\ i \in Nat
    BY <1>3, <1>6
  <2>2. CASE i <= n
    <3>1. i \in DOMAIN old /\ grown[c][i] = old[i]
      BY <1>3, <1>5, <1>6, <2>1, <2>2
    <3> QED
      BY <1>4, <2>1, <3>1
  <2>3. CASE ~(i <= n)
    <3>1. i - n \in 1..Len(lines)
      BY <1>5, <1>6, <2>1, <2>3
    <3> QED
      BY <1>3, <1>5, <1>6, <2>1, <2>3, <3>1
  <2> QED
    BY <2>2, <2>3
<1> QED
  BY <1>2, <1>5, <1>8, <1>9, <1>10 DEF grown, n

LEMMA WriteRowsTyped ==
  ASSUME Typed, NEW t \in Tables, WriteRows(t)
  PROVE  Typed'
<1> DEFINE m     == mine[t]
           c     == m.target.chunk
           lines == Rows(m)
           all   == Grown(files[t], c, lines)
<1>1. UNCHANGED <<meta, tmp, nextTx, nextChunk>>
  BY DEF WriteRows, memory
<1>2. CASE Return(t, "exists") /\ UNCHANGED files
  BY <1>1, <1>2, ReturnTyped DEF Typed
<1>3. CASE files' = [files EXCEPT ![t] = all] /\ Goto(t, "advance") /\ UNCHANGED mine
  <2>1. m \in Locals /\ m.tx \in Nat /\ m.target \in Target /\ c \in Nat
    BY DEF WriteRows, Typed, Computed, Target
  <2>2. lines \in Seq(Nat) /\ m.tx + m.rows \in Nat
        /\ \A i \in DOMAIN lines : lines[i] < m.tx + m.rows
    BY <2>1, RowsAre
  <2>3. ChunksTyped(files[t])
    BY DEF Typed
  <2> HIDE DEF m, c, lines
  <2>4. ChunksTyped(all)
    BY <2>1, <2>2, <2>3, GrownIs
  <2>5. \A d \in DOMAIN all : \A i \in DOMAIN all[d] :
          \/ d \in DOMAIN files[t] /\ i \in DOMAIN files[t][d] /\ all[d][i] = files[t][d][i]
          \/ \E j \in DOMAIN lines : all[d][i] = lines[j]
    BY <2>1, <2>2, <2>3, GrownIs
  <2> HIDE DEF all
  <2>6. /\ files' = [u \in Tables |-> files'[u]] /\ files'[t] = all
        /\ \A u \in Tables \ {t} : files'[u] = files[u]
    BY <1>3 DEF Typed
  <2>7. \A u \in Tables : ChunksTyped(files'[u])
    BY <2>4, <2>6 DEF Typed
  <2>8. PICK n \in Nat : TxBelow(n)
    BY DEF Typed
  <2>9. PICK top \in Nat : m.tx + m.rows <= top /\ n <= top
    <3>1. CASE m.tx + m.rows <= n
      BY <3>1
    <3>2. CASE ~(m.tx + m.rows <= n)
      BY <2>2, <3>2
    <3> QED
      BY <3>1, <3>2
  <2>10. TxBelow(top)'
    <3> SUFFICES ASSUME NEW u \in Tables, NEW d \in DOMAIN files'[u], NEW i \in DOMAIN files'[u][d]
                 PROVE  files'[u][d][i] < top
      BY DEF TxBelow
    <3>0. files'[u][d][i] \in Nat
      <4>1. files'[u][d] \in Seq(Nat)
        BY <2>7 DEF ChunksTyped
      <4> QED
        BY <4>1, ElementOfSeq, LenProperties
    <3>1. CASE u = t
      <4>1. CASE d \in DOMAIN files[t] /\ i \in DOMAIN files[t][d] /\ all[d][i] = files[t][d][i]
        BY <2>6, <2>8, <2>9, <3>0, <3>1, <4>1 DEF TxBelow
      <4>2. CASE \E j \in DOMAIN lines : all[d][i] = lines[j]
        BY <2>2, <2>6, <2>9, <3>0, <3>1, <4>2
      <4> QED
        BY <2>5, <2>6, <3>1, <4>1, <4>2
    <3>2. CASE u # t
      BY <2>6, <2>8, <2>9, <3>0, <3>2 DEF TxBelow
    <3> QED
      BY <3>1, <3>2
  <2>11. /\ pc' = [pc EXCEPT ![t] = "advance"] /\ mine' = mine
         /\ pc' \in [Tables -> Labels]
    BY <1>3 DEF Goto, Typed, Labels
  <2>12. \A u \in Tables : Computed(mine'[u], pc'[u])
    <3>1. Computed(mine[t], "advance")
      BY <2>1 DEF Computed, m
    <3> QED
      BY <2>11, <3>1 DEF Typed
  <2> QED
    BY <1>1, <2>6, <2>7, <2>9, <2>10, <2>11, <2>12 DEF Typed
<1> QED
  BY SMTT(30), <1>2, <1>3, WrittenIs

LEMMA NextTyped == Typed /\ [Next]_vars => Typed'
<1> SUFFICES ASSUME Typed, [Next]_vars PROVE Typed'
  OBVIOUS
<1>1. ASSUME NEW t \in Tables, Begin(t) PROVE Typed'
  BY <1>1, BeginTyped
<1>2. ASSUME NEW t \in Tables, Step(t) PROVE Typed'
  BY <1>2, ReadTxTyped, RememberTxTyped, ReadChunkTyped, RememberChunkTyped,
     ChooseTargetTyped, WriteRowsTyped, AdvanceTxTyped, AdvanceChunkTyped, CollectChunkTyped,
     RememberDiscoveredTyped, WriteTmpTyped, RenameTmpTyped DEF Step
<1>3. CASE UNCHANGED vars
  <2>1. UNCHANGED <<files, meta, tmp, nextTx, nextChunk, pc, mine>>
    BY <1>3 DEF vars, disk, memory
  <2> QED
    BY <2>1 DEF Typed, TxBelow
<1> QED
  BY <1>1, <1>2, <1>3 DEF Next, Finished

(* Counters, files and metadata have their types on any database and for    *)
(* any writes: no interleaving makes a counter of a chunk, or a tx id, that *)
(* is not a number, although they are computed from what others may set.   *)
THEOREM CountersTyped == Spec => []TypeOK
<1>1. Init => Typed
  BY InitTyped
<1>2. Typed /\ [Next]_vars => Typed'
  BY NextTyped
<1>3. Typed => TypeOK
  BY DEF Typed, ChunksTyped, TypeOK
<1> QED
  BY <1>1, <1>2, <1>3, PTL DEF Spec

-----------------------------------------------------------------------------
(* The tx ids of a lone writer.                                            *)

TxOrdered ==
  \A t \in Tables : \A c, d \in DOMAIN files[t] :
    \A i \in DOMAIN files[t][c], j \in DOMAIN files[t][d] :
      c < d \/ (c = d /\ i < j) => files[t][c][i] < files[t][d][j]

(* The tx ids a write will use, and the counter, are above those of the     *)
(* files; but not the counter between the write and its next step.         *)
Ahead ==
  /\ TxOrdered
  /\ \A t \in Tables :
       /\ pc[t] \in {"settx", "chunk", "setchunk", "target", "write"} => TxBelow(mine[t].tx)
       /\ pc[t] = "advance" => TxBelow(mine[t].tx + mine[t].rows)
  /\ nextTx # None /\ (\A t \in Tables : pc[t] # "advance") => TxBelow(nextTx)

TxInv == OneWriter => Ahead

(* While the lone writer writes, no other table is written. *)
LEMMA OthersIdle ==
  ASSUME OneWriter, Inner, NEW t \in Tables, pc[t] # "idle" \/ writes[t] > 0,
         NEW u \in Tables, u # t
  PROVE  pc[u] = "idle"
<1>1. WritesOK(t) /\ WritesOK(u)
  BY DEF Inner
<1>2. ~(setting.writes[u] > 0)
  BY <1>1, OneWritten DEF WritesOK
<1> QED
  BY <1>1, <1>2 DEF WritesOK

(* A step of the lone writer that leaves the files alone. *)
LEMMA AheadStep ==
  ASSUME OneWriter, Inner, Typed, Ahead, NEW t \in Tables, pc[t] # "idle" \/ writes[t] > 0,
         files' = files, NEW label \in Labels, pc' = [pc EXCEPT ![t] = label], label # "advance",
         label \in {"settx", "chunk", "setchunk", "target", "write"} => TxBelow(mine'[t].tx),
         nextTx' # None => TxBelow(nextTx')
  PROVE  Ahead'
<1>1. \A n : TxBelow(n) => TxBelow(n)'
  BY DEF TxBelow
<1>2. TxOrdered'
  BY DEF Ahead, TxOrdered
<1>3. pc'[t] = label /\ \A u \in Tables \ {t} : pc'[u] = "idle"
  BY OthersIdle DEF Typed
<1>4. (nextTx # None => TxBelow(nextTx))'
  BY <1>1
<1>5. (pc[t] \in {"settx", "chunk", "setchunk", "target", "write"} => TxBelow(mine[t].tx))'
  BY <1>1, <1>3
<1> QED
  BY <1>2, <1>3, <1>4, <1>5 DEF Ahead

(* Between the writes of the lone writer, and in them up to its write of    *)
(* the files, the counter is above the tx ids in the files.                *)
LEMMA CounterAhead ==
  ASSUME OneWriter, Inner, Ahead, NEW t \in Tables, pc[t] # "idle" \/ writes[t] > 0,
         pc[t] # "advance", nextTx # None
  PROVE  TxBelow(nextTx)
BY OthersIdle DEF Ahead

LEMMA WriteRowsAhead ==
  ASSUME OneWriter, Inner, Typed, Ahead, NEW t \in Tables, WriteRows(t)
  PROVE  Ahead'
<1> DEFINE m     == mine[t]
           c     == m.target.chunk
           lines == Rows(m)
           all   == Grown(files[t], c, lines)
<1>1. /\ Size(t) \in Nat /\ DOMAIN files[t] = 0..(Size(t) - 1)
      /\ GoodTarget(t, m.target) /\ TxBelow(m.tx) /\ pc[t] = "write"
  BY DEF Inner, Contiguous, LocalsOK, WriteRows, Ahead
<1>2. /\ files' = [files EXCEPT ![t] = all] /\ Goto(t, "advance") /\ UNCHANGED mine
  BY <1>1, WrittenIs DEF GoodTarget
<1>3. m \in Locals /\ m.tx \in Nat /\ c \in Nat
  BY <1>1 DEF Typed, Computed, Target
<1>4. /\ lines \in Seq(Nat) /\ m.tx + m.rows \in Nat
      /\ \A i \in DOMAIN lines : i \in Nat /\ lines[i] = m.tx + (i - 1)
                                   /\ m.tx <= lines[i] /\ lines[i] < m.tx + m.rows
  BY <1>3, RowsAre
<1>5. ChunksTyped(files[t])
  BY DEF Typed
<1>6. \A d \in DOMAIN files[t] : d <= c
  BY <1>1 DEF GoodTarget
<1> DEFINE past(d, i)  == d \in DOMAIN files[t] /\ i \in DOMAIN files[t][d]
                            /\ all[d][i] = files[t][d][i]
           n           == IF c \in DOMAIN files[t] THEN Len(files[t][c]) ELSE 0
           fresh(d, i) == d = c /\ i - n \in DOMAIN lines /\ all[d][i] = lines[i - n]
<1>7. ASSUME NEW d \in DOMAIN all, NEW i \in DOMAIN all[d]
      PROVE  i \in Nat /\ (past(d, i) \/ fresh(d, i))
  <2> HIDE DEF m, c, lines
  <2>1. /\ i \in Nat
        /\ \/ past(d, i)
           \/ /\ d = c
              /\ \E k \in Nat : /\ i - k \in DOMAIN lines /\ all[d][i] = lines[i - k]
                                /\ c \in DOMAIN files[t] => k = Len(files[t][c])
                                /\ c \notin DOMAIN files[t] => k = 0
    BY <1>3, <1>4, <1>5, GrownIs
  <2> HIDE DEF all
  <2>2. CASE past(d, i)
    BY <2>1, <2>2
  <2>3. CASE ~past(d, i)
    <3>1. PICK k \in Nat : /\ i - k \in DOMAIN lines /\ all[d][i] = lines[i - k]
                           /\ c \in DOMAIN files[t] => k = Len(files[t][c])
                           /\ c \notin DOMAIN files[t] => k = 0
      BY <2>1, <2>3
    <3>2. k = n
      BY <3>1
    <3> HIDE DEF n
    <3> QED
      BY <2>1, <2>3, <3>1, <3>2
  <2> QED
    BY <2>2, <2>3
<1>8. /\ m.tx \in Nat /\ m.rows \in Nat /\ n \in Nat
      /\ \A d, i : past(d, i) => files[t][d][i] \in Nat /\ files[t][d][i] < m.tx
                                   /\ d \in Nat /\ i \in Nat /\ (d = c => i <= n)
  <2>1. m.rows \in Nat /\ n \in Nat
    BY <1>3, <1>5, EmptySeq, LenProperties DEF Locals, ChunksTyped
  <2>2. ASSUME NEW d, NEW i, past(d, i)
        PROVE  files[t][d][i] \in Nat /\ files[t][d][i] < m.tx
                 /\ d \in Nat /\ i \in Nat /\ (d = c => i <= n)
    <3>1. d \in Nat /\ files[t][d] \in Seq(Nat) /\ d \in DOMAIN files[t] /\ i \in DOMAIN files[t][d]
      BY <1>5, <2>2 DEF ChunksTyped
    <3>2. DOMAIN files[t][d] = 1..Len(files[t][d]) /\ files[t][d][i] \in Nat
      BY <3>1, LenProperties, ElementOfSeq
    <3>3. files[t][d][i] < m.tx
      BY <1>1, <3>1 DEF TxBelow
    <3> QED
      BY <3>1, <3>2, <3>3
  <2> QED
    BY <1>3, <2>1, <2>2
<1>9. /\ files'[t] = all /\ \A u \in Tables \ {t} : files'[u] = files[u]
      /\ pc'[t] = "advance" /\ mine' = mine /\ \A u \in Tables \ {t} : pc'[u] = "idle"
  BY <1>1, <1>2, OthersIdle DEF Typed, Goto
<1> HIDE DEF c, lines, all, n
<1>10. ASSUME NEW d \in DOMAIN all, NEW e \in DOMAIN all,
              NEW i \in DOMAIN all[d], NEW j \in DOMAIN all[e], d < e \/ (d = e /\ i < j)
       PROVE  all[d][i] < all[e][j]
  <2>1. CASE past(d, i) /\ past(e, j)
    BY <1>10, <2>1 DEF Ahead, TxOrdered
  <2>2. CASE past(d, i) /\ fresh(e, j)
    <3>1. m.tx <= lines[j - n] /\ lines[j - n] \in Nat
      BY <1>4, <2>2, ElementOfSeq, LenProperties
    <3> QED
      BY <1>8, <2>2, <3>1
  <2>3. CASE fresh(d, i) /\ past(e, j)
    <3>1. FALSE
      <4>1. d = c /\ e \in DOMAIN files[t] /\ e <= c /\ e \in Nat /\ j \in Nat /\ (e = c => j <= n)
        BY <1>6, <1>8, <2>3
      <4>2. i - n \in Nat /\ i \in Nat /\ i - n >= 1
        <5>1. i - n \in 1..Len(lines) /\ Len(lines) \in Nat
          BY <1>4, <2>3, LenProperties
        <5> QED
          BY <1>7, <5>1
      <4> QED
        BY <1>3, <1>8, <1>10, <4>1, <4>2
    <3> QED
      BY <3>1
  <2>4. CASE fresh(d, i) /\ fresh(e, j)
    <3>1. d = e /\ i < j
      BY <1>3, <1>10, <2>4
    <3>2. i \in Nat /\ j \in Nat
      BY <1>7
    <3>3. lines[i - n] = m.tx + ((i - n) - 1) /\ lines[j - n] = m.tx + ((j - n) - 1)
      BY <1>4, <2>4
    <3> QED
      BY <1>8, <2>4, <3>1, <3>2, <3>3
  <2> QED
    BY <1>7, <2>1, <2>2, <2>3, <2>4
<1>11. TxOrdered'
  <2> SUFFICES ASSUME NEW u \in Tables, NEW d \in DOMAIN files'[u], NEW e \in DOMAIN files'[u],
                      NEW i \in DOMAIN files'[u][d], NEW j \in DOMAIN files'[u][e],
                      d < e \/ (d = e /\ i < j)
               PROVE  files'[u][d][i] < files'[u][e][j]
    BY DEF TxOrdered
  <2>1. CASE u = t
    BY <1>9, <1>10, <2>1
  <2>2. CASE u # t
    BY <1>9, <2>2 DEF Ahead, TxOrdered
  <2> QED
    BY <2>1, <2>2
<1>12. (TxBelow(mine[t].tx + mine[t].rows))'
  <2> SUFFICES ASSUME NEW u \in Tables, NEW d \in DOMAIN files'[u], NEW i \in DOMAIN files'[u][d]
               PROVE  files'[u][d][i] < m.tx + m.rows
    BY <1>9 DEF TxBelow
  <2>1. CASE u = t
    <3>1. CASE past(d, i)
      BY <1>8, <1>9, <2>1, <3>1
    <3>2. CASE fresh(d, i)
      BY <1>4, <1>9, <2>1, <3>2
    <3> QED
      BY <1>7, <1>9, <2>1, <3>1, <3>2
  <2>2. CASE u # t
    <3>1. d \in DOMAIN files[u] /\ i \in DOMAIN files[u][d] /\ files'[u][d][i] = files[u][d][i]
      BY <1>9, <2>2
    <3>2. files[u][d][i] \in Nat
      BY <3>1, ElementOfSeq, LenProperties DEF Typed, ChunksTyped
    <3>3. files[u][d][i] < m.tx
      BY <1>1, <3>1 DEF TxBelow
    <3> QED
      BY <1>8, <3>1, <3>2, <3>3
  <2> QED
    BY <2>1, <2>2
<1> QED
  BY SMTT(30), <1>9, <1>11, <1>12 DEF Ahead

(* The steps before the write of the files. *)
LEMMA EarlyAhead ==
  ASSUME OneWriter, Inner, Typed, Ahead, NEW t \in Tables,
         \/ Begin(t) \/ ReadTx(t) \/ RememberTx(t) \/ ReadChunk(t) \/ RememberChunk(t)
         \/ ChooseTarget(t)
  PROVE  Ahead'
<1>1. mine[t] \in Locals
  BY DEF Typed
<1>2. /\ files' = files
      /\ pc[t] \in {"settx", "chunk", "setchunk", "target"} => TxBelow(mine[t].tx)
      /\ pc[t] # "idle" \/ writes[t] > 0
  BY DEF Ahead, Begin, ReadTx, RememberTx, ReadChunk, RememberChunk, ChooseTarget, disk
<1>3. CASE Begin(t)
  <2>1. pc' = [pc EXCEPT ![t] = "tx"] /\ nextTx' = nextTx /\ pc[t] = "idle" /\ "tx" \in Labels
    BY <1>3 DEF Begin, Goto, memory, Labels
  <2> QED
    BY <1>2, <2>1, AheadStep, CounterAhead
<1>4. CASE ReadTx(t)
  <2> DEFINE n     == IF nextTx # None THEN nextTx ELSE RecoveredTx
             label == IF nextTx # None THEN "chunk" ELSE "settx"
  <2>1. /\ pc' = [pc EXCEPT ![t] = label] /\ nextTx' = nextTx /\ pc[t] = "tx"
        /\ label \in Labels /\ label # "advance"
    BY <1>4 DEF ReadTx, Goto, memory, Labels
  <2>2. mine'[t] = [mine[t] EXCEPT !.tx = n]
    BY <1>4 DEF ReadTx, Typed
  <2>3. TxBelow(n) /\ n \in Nat
    BY <1>2, <2>1, CounterAhead, RecoveredTxIs DEF Typed
  <2> HIDE DEF n, label
  <2>4. mine'[t].tx = n
    BY <1>1, <2>2, <2>3, LocalsSet
  <2> QED
    BY <1>2, <2>1, <2>3, <2>4, AheadStep, CounterAhead
<1>5. CASE RememberTx(t)
  <2>1. /\ pc' = [pc EXCEPT ![t] = "chunk"] /\ nextTx' = mine[t].tx /\ pc[t] = "settx"
        /\ mine' = mine /\ "chunk" \in Labels
    BY <1>5 DEF RememberTx, Goto, Labels
  <2> QED
    BY <1>2, <2>1, AheadStep
<1>6. CASE ReadChunk(t)
  <2> DEFINE n     == IF nextChunk[t] # None THEN nextChunk[t] ELSE RecoveredChunk(t)
             label == IF nextChunk[t] # None THEN "target" ELSE "setchunk"
  <2>1. /\ pc' = [pc EXCEPT ![t] = label] /\ nextTx' = nextTx /\ pc[t] = "chunk"
        /\ label \in Labels /\ label # "advance"
    BY <1>6 DEF ReadChunk, Goto, memory, Labels
  <2>2. mine'[t] = [mine[t] EXCEPT !.found = n] /\ n \in Nat
    BY <1>6, RecoveredChunkIs DEF ReadChunk, Typed
  <2> HIDE DEF n, label
  <2>3. mine'[t].tx = mine[t].tx
    BY <1>1, <2>2, LocalsSet
  <2> QED
    BY <1>2, <2>1, <2>3, AheadStep, CounterAhead
<1>7. CASE RememberChunk(t)
  <2>1. /\ pc' = [pc EXCEPT ![t] = "target"] /\ nextTx' = nextTx /\ pc[t] = "setchunk"
        /\ mine' = mine /\ "target" \in Labels
    BY <1>7 DEF RememberChunk, Goto, Labels
  <2> QED
    BY <1>2, <2>1, AheadStep, CounterAhead
<1>8. CASE ChooseTarget(t)
  <2>1. /\ pc' = [pc EXCEPT ![t] = "write"] /\ nextTx' = nextTx /\ pc[t] = "target"
        /\ "write" \in Labels
    BY <1>8 DEF ChooseTarget, Goto, memory, Labels
  <2>2. PICK target : mine'[t] = [mine[t] EXCEPT !.target = target]
    BY <1>8 DEF ChooseTarget, Typed
  <2>3. mine'[t].tx = mine[t].tx
    BY <1>1, <2>2 DEF Locals
  <2> QED
    BY <1>2, <2>1, <2>3, AheadStep, CounterAhead
<1> QED
  BY <1>3, <1>4, <1>5, <1>6, <1>7, <1>8

(* The steps behind it. *)
LEMMA LateAhead ==
  ASSUME OneWriter, Inner, Typed, Ahead, NEW t \in Tables,
         \/ AdvanceTx(t) \/ AdvanceChunk(t) \/ CollectChunk(t) \/ RememberDiscovered(t)
         \/ WriteTmp(t) \/ RenameTmp(t)
  PROVE  Ahead'
<1>1. /\ files' = files /\ pc[t] # "idle"
      /\ pc[t] = "advance" => TxBelow(mine[t].tx + mine[t].rows)
  BY DEF Ahead, AdvanceTx, AdvanceChunk, CollectChunk, RememberDiscovered, WriteTmp, RenameTmp,
         disk
<1>2. CASE AdvanceTx(t)
  <2>1. /\ pc' = [pc EXCEPT ![t] = "roll"] /\ nextTx' = mine[t].tx + mine[t].rows
        /\ pc[t] = "advance" /\ "roll" \in Labels
    BY <1>2 DEF AdvanceTx, Goto, Labels
  <2> QED
    BY <1>1, <2>1, AheadStep
<1>3. CASE ~AdvanceTx(t)
  <2>1. nextTx' = nextTx /\ pc[t] # "advance"
    BY <1>3 DEF AdvanceChunk, CollectChunk, RememberDiscovered, WriteTmp, RenameTmp, memory
  <2>2. PICK label \in {"idle", "meta", "discovered", "rename"} : pc' = [pc EXCEPT ![t] = label]
    <3>1. CASE AdvanceChunk(t) \/ RenameTmp(t) \/ WriteTmp(t) \/ RememberDiscovered(t)
      BY <3>1 DEF AdvanceChunk, RenameTmp, WriteTmp, RememberDiscovered, Return, Goto
    <3>2. CASE CollectChunk(t)
      <4>1. pc' = pc \/ pc' = [pc EXCEPT ![t] = "discovered"]
        BY <3>2 DEF CollectChunk, Goto
      <4>2. pc = [pc EXCEPT ![t] = "meta"]
        BY <3>2 DEF CollectChunk, Typed
      <4> QED
        BY <4>1, <4>2
    <3> QED
      BY <1>3, <3>1, <3>2
  <2>3. label \in Labels /\ label # "advance"
        /\ label \notin {"settx", "chunk", "setchunk", "target", "write"}
    BY DEF Labels
  <2> QED
    BY <1>1, <2>1, <2>2, <2>3, AheadStep, CounterAhead
<1> QED
  BY <1>2, <1>3

LEMMA NextTxInv == IInv /\ Typed /\ TxInv /\ [Next]_vars => TxInv'
<1> SUFFICES ASSUME IInv, Typed, TxInv, [Next]_vars, OneWriter' PROVE Ahead'
  BY SMTT(30) DEF TxInv
<1>1. setting' = setting
  BY DEF Next, Step, Finished, Begin, ReadTx, RememberTx, ReadChunk, RememberChunk, ChooseTarget,
     WriteRows, AdvanceTx, AdvanceChunk, CollectChunk, RememberDiscovered, WriteTmp, RenameTmp,
     vars, turns
<1>2. OneWriter /\ Inner /\ Ahead
  BY <1>1 DEF OneWriter, TxInv, IInv, Sheltered
<1>3. ASSUME NEW t \in Tables, Begin(t) \/ Step(t) PROVE Ahead'
  BY <1>2, <1>3, EarlyAhead, WriteRowsAhead, LateAhead DEF Step
<1>4. CASE UNCHANGED vars
  <2>1. UNCHANGED <<files, nextTx, pc, mine>>
    BY <1>4 DEF vars, disk, memory
  <2> QED
    BY <1>2, <2>1 DEF Ahead, TxOrdered, TxBelow
<1> QED
  BY <1>3, <1>4 DEF Next, Finished

(* The tx ids of a lone writer's table grow in the order its rows were      *)
(* written in, over chunks that roll and counters that are recovered from   *)
(* files, whatever the table, the batches and the size of a chunk.         *)
THEOREM TxGrows == Spec => []TxMonotonic
<1>1. Init => IInv /\ Typed /\ TxInv
  <2>1. Init => TxInv
    BY DEF Init, TxInv, Ahead, TxOrdered, TxBelow
  <2> QED
    BY <2>1, InitIInv, InitTyped
<1>2. IInv /\ Typed /\ TxInv /\ [Next]_vars => (IInv /\ Typed /\ TxInv)'
  BY NextIInv, NextTyped, NextTxInv
<1>3. TxInv => TxMonotonic
  BY DEF TxInv, Ahead, TxOrdered, TxMonotonic
<1> QED
  BY <1>1, <1>2, <1>3, PTL DEF Spec
=============================================================================
