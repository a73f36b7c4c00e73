------------------------- MODULE TableThreadsProofs -------------------------
(***************************************************************************)
(* Proofs about a table that threads share, for every number of threads,   *)
(* every assignment of calls to them and every interleaving.               *)
(***************************************************************************)
EXTENDS TableThreads, TableExactProofs

-----------------------------------------------------------------------------
(* Control: where a call of each kind can be, and what its locals are.     *)

LocalNames ==
  {"call", "id", "batch", "mode", "cache", "source", "records", "proj", "target", "tx",
   "ptr", "file", "may", "before", "outcome", "answer"}

LoadLabels    == {"load", "cached", "file", "hash", "remember"}
BuildLabels   == {"scan", "records", "tmp", "rename", "snapshot", "project"}
AppendLabels  == {"lock", "take", "remove", "validate", "target", "old", "write", "bytes",
                  "length", "forget", "publish", "rows", "count"}
GetLabels     == {"find", "entry", "row", "chunk", "open", "setlen", "setbytes", "decode"}
CompactLabels == {"lock", "plan", "unlink", "install", "bytes0", "length0", "forget",
                  "unproject", "finish"}

(* Where a thread is in a call. *)
Inside(label, call) ==
  \/ call = "append"  /\ label \in LoadLabels \cup BuildLabels \cup AppendLabels
  \/ call = "get"     /\ label \in LoadLabels \cup BuildLabels \cup GetLabels
  \/ call = "rebuild" /\ label \in BuildLabels
  \/ call = "compact" /\ label \in BuildLabels \cup CompactLabels

Writing(label, call) == call \in {"append", "compact"} /\ label \notin {"idle", "lock"}

(* The types of a call's locals where it uses them. *)
LocalsOK(label, m) ==
  /\ m.cache # None => IsCache(m.cache)
  /\ label \in {"hash", "remember", "records", "tmp", "rename", "snapshot", "project", "entry"}
       => IsCache(m.cache)
  /\ m.proj # None => IsProjection(m.proj)
  /\ m.call = "append" /\ label \in {"validate", "target", "old", "write", "bytes", "length",
                                     "forget", "publish"}
       => IsProjection(m.proj)
  /\ label \in {"hash", "records", "tmp"} => PartialOn(Chunk, Seq(Line(Tx)), m.source)
  /\ label = "records" => PartialOn(Ids, Record, m.records)
  /\ m.call = "append" /\ label # "idle" => m.batch \in Batch
  /\ m.call = "get" /\ label # "idle" => m.id \in Ids
  /\ m.may \subseteq Record \cup {NoRecord}
  /\ m.before # None => m.before \in [Ids -> Record \cup {NoRecord}]
  /\ label \in {"row", "chunk", "open", "setlen", "setbytes", "decode"} => m.ptr \in Pointer
  /\ label \in {"setlen", "setbytes", "decode"} => m.file \in File(Tx)
  /\ label \in {"setlen", "setbytes"} => m.ptr[1] \in Chunk
  /\ m.call = "append" /\ label \in {"target", "old", "write", "bytes", "length", "forget",
                                     "publish", "rows", "count"}
       => m.tx \in Nat
  /\ m.call = "append" /\ label \in {"old", "write", "bytes", "length", "forget",
                                     "publish", "rows", "count"}
       => /\ m.target.isNew \in BOOLEAN
          /\ m.target.chunk \in Chunk /\ m.target.offset \in Nat /\ m.target.next \in Nat
  /\ m.call = "compact" /\ label \in {"unlink", "install", "bytes0", "length0"}
       => m.file \in File(Tx)
  /\ m.call = "compact" /\ label \notin {"idle", "lock", "plan"} => m.tx \in Nat

ThreadOK(q) ==
  /\ DOMAIN mine[q] = LocalNames
  /\ pc[q] # "idle" => mine[q].call \in roles[q] /\ Inside(pc[q], mine[q].call)
  /\ writer = q <=> Writing(pc[q], mine[q].call)
  /\ LocalsOK(pc[q], mine[q])

(* The types of what the threads share, the files left out. *)
SharedOK ==
  /\ sixb # None => IsSixb(sixb)
  /\ sixbTmp # None => IsSixb(sixbTmp)
  /\ runtime # None => IsProjection(runtime)
  /\ sixbCache # None => IsCache(sixbCache)
  /\ PartialOn(Ids, Record, rowCache)
  /\ PartialOn(Chunk, File(Tx), chunkCache)
  /\ PartialOn(Chunk, Nat, chunkLen)
  /\ CountersOK(meta, nextTx, nextChunk)
  /\ layout \in BOOLEAN

ControlOK ==
  /\ pc = [q \in Threads |-> pc[q]]
  /\ mine = [q \in Threads |-> mine[q]]
  /\ calls \in [Threads -> Nat]
  /\ roles \in [Threads -> SUBSET Calls]
  /\ writer \in Threads \cup {None}

(* Everything but the files has its type, and the mutex is held exactly by  *)
(* the thread that is inside a write or a compaction.                      *)
CInv ==
  /\ ControlOK
  /\ SharedOK
  /\ \A q \in Threads : ThreadOK(q)

LEMMA NoLocalsNames == DOMAIN NoLocals = LocalNames
BY DEF NoLocals, LocalNames

(* An update of some locals leaves the others alone. *)
LEMMA UpdatedIs ==
  ASSUME NEW m, DOMAIN m = LocalNames, NEW locals, NEW new, new = Updated(m, locals)
  PROVE  /\ DOMAIN new = LocalNames
         /\ \A x \in LocalNames : new[x] = IF x \in DOMAIN locals THEN locals[x] ELSE m[x]
BY DEF Updated

LEMMA IdleOK ==
  ASSUME NEW m, DOMAIN m = LocalNames,
         m.cache = None, m.proj = None, m.before = None,
         m.may \subseteq Record \cup {NoRecord}
  PROVE  LocalsOK("idle", m)
BY DEF LocalsOK

-----------------------------------------------------------------------------
(* One step of one thread.                                                 *)

(* Thread p goes to a label with these locals; nobody else moves. *)
Moved(p, label, m) ==
  /\ pc' = [pc EXCEPT ![p] = label]
  /\ mine' = [mine EXCEPT ![p] = m]
  /\ roles' = roles

LEMMA MovedIs ==
  ASSUME ControlOK, NEW p \in Threads, NEW label, NEW m, Moved(p, label, m)
  PROVE  /\ pc' = [q \in Threads |-> pc'[q]]
         /\ mine' = [q \in Threads |-> mine'[q]]
         /\ roles' \in [Threads -> SUBSET Calls] /\ roles' = roles
         /\ pc'[p] = label /\ mine'[p] = m
         /\ \A q \in Threads \ {p} : pc'[q] = pc[q] /\ mine'[q] = mine[q]
<1>1. /\ pc' = [pc EXCEPT ![p] = label]
      /\ mine' = [mine EXCEPT ![p] = m]
      /\ roles' = roles
  BY DEF Moved
<1>2. DOMAIN pc = Threads /\ DOMAIN mine = Threads /\ roles \in [Threads -> SUBSET Calls]
  BY DEF ControlOK
<1>3. DOMAIN pc' = Threads /\ DOMAIN mine' = Threads
  BY <1>1, <1>2
<1>4. pc'[p] = label /\ \A q \in Threads \ {p} : pc'[q] = pc[q]
  BY <1>1, <1>2
<1>5. mine'[p] = m /\ \A q \in Threads \ {p} : mine'[q] = mine[q]
  BY <1>1, <1>2
<1>6. pc' = [q \in Threads |-> pc'[q]]
  BY <1>1, <1>2
<1>7. mine' = [q \in Threads |-> mine'[q]]
  BY <1>1, <1>2
<1> QED
  BY <1>1, <1>2, <1>4, <1>5, <1>6, <1>7

(* What a step owes to the invariant. *)
StepOK(p, label, m) ==
  /\ Moved(p, label, m)
  /\ calls' \in [Threads -> Nat]
  /\ DOMAIN m = LocalNames
  /\ label # "idle" => m.call \in roles[p] /\ Inside(label, m.call)
  /\ LocalsOK(label, m)
  /\ writer' = IF Writing(label, m.call) THEN p ELSE IF writer = p THEN None ELSE writer
  /\ Writing(label, m.call) => writer \in {None, p}
  /\ SharedOK'

LEMMA StepCInv ==
  ASSUME CInv, NEW p \in Threads, NEW label, NEW m, StepOK(p, label, m)
  PROVE  CInv'
<1>1. Moved(p, label, m) /\ ControlOK
  BY DEF StepOK, CInv
<1>2. /\ pc'[p] = label /\ mine'[p] = m
      /\ \A q \in Threads \ {p} : pc'[q] = pc[q] /\ mine'[q] = mine[q]
      /\ roles' = roles
  BY <1>1, MovedIs
<1>3. p # None /\ \A q \in Threads : q # None
  BY ThreadsAssumption
<1>4. ControlOK'
  <2>1. writer' \in Threads \cup {None}
    BY DEF StepOK, CInv, ControlOK
  <2>2. calls' \in [Threads -> Nat]
    BY DEF StepOK
  <2>3. /\ pc' = [q \in Threads |-> pc'[q]]
        /\ mine' = [q \in Threads |-> mine'[q]]
        /\ roles' \in [Threads -> SUBSET Calls]
    BY <1>1, MovedIs
  <2> QED
    BY <2>1, <2>2, <2>3 DEF ControlOK
<1>5. ThreadOK(p)'
  <2>1. writer' = p <=> Writing(label, m.call)
    BY <1>3 DEF StepOK
  <2> QED
    BY <1>2, <2>1 DEF StepOK, ThreadOK
<1>6. ASSUME NEW q \in Threads \ {p} PROVE ThreadOK(q)'
  <2>1. ThreadOK(q)
    BY DEF CInv
  <2>2. writer' = q <=> writer = q
    BY <1>3 DEF StepOK
  <2> QED
    BY <1>2, <2>1, <2>2 DEF ThreadOK
<1> QED
  BY <1>4, <1>5, <1>6 DEF CInv, StepOK

(* What a thread that is not idle knows of itself. *)
LEMMA Running ==
  ASSUME CInv, NEW p \in Threads, pc[p] # "idle"
  PROVE  /\ DOMAIN mine[p] = LocalNames
         /\ mine[p].call \in roles[p] /\ mine[p].call \in Calls
         /\ Inside(pc[p], mine[p].call)
         /\ writer = p <=> Writing(pc[p], mine[p].call)
         /\ LocalsOK(pc[p], mine[p])
         /\ p # None
<1>1. ThreadOK(p) /\ roles \in [Threads -> SUBSET Calls]
  BY DEF CInv, ControlOK
<1> QED
  BY <1>1, ThreadsAssumption DEF ThreadOK

(* The three ways a step ends: further in the call with other locals, or    *)
(* with the same ones, or with the answer of the call.                     *)
LEMMA SetInCall ==
  ASSUME CInv, NEW p \in Threads, pc[p] \notin {"idle", "lock"},
         NEW label, label \notin {"idle", "lock"}, NEW m,
         pc' = [pc EXCEPT ![p] = label], mine' = [mine EXCEPT ![p] = m],
         UNCHANGED control, SharedOK',
         DOMAIN m = LocalNames, m.call = mine[p].call, Inside(label, m.call),
         LocalsOK(label, m)
  PROVE  StepOK(p, label, m)
<1>1. mine[p].call \in roles[p] /\ (writer = p <=> Writing(pc[p], mine[p].call)) /\ p # None
  BY Running
<1>2. roles' = roles /\ calls' = calls /\ writer' = writer /\ calls \in [Threads -> Nat]
  BY DEF control, turns, CInv, ControlOK
<1>3. Writing(label, m.call) <=> writer = p
  BY <1>1 DEF Writing
<1> QED
  BY <1>1, <1>2, <1>3 DEF StepOK, Moved

LEMMA GotoInCall ==
  ASSUME CInv, NEW p \in Threads, pc[p] \notin {"idle", "lock"},
         NEW label, label \notin {"idle", "lock"},
         Goto(p, label), UNCHANGED mine, UNCHANGED control, SharedOK',
         Inside(label, mine[p].call), LocalsOK(label, mine[p])
  PROVE  StepOK(p, label, mine[p])
<1>1. DOMAIN mine[p] = LocalNames
  BY Running
<1>2. pc' = [pc EXCEPT ![p] = label] /\ mine' = mine
  BY DEF Goto
<1>3. mine' = [mine EXCEPT ![p] = mine[p]]
  BY <1>2 DEF CInv, ControlOK
<1> QED
  BY <1>1, <1>2, <1>3, SetInCall

AnswerLocals(p, outcome, answer) ==
  Updated(NoLocals, [call |-> mine[p].call, may |-> mine[p].may,
                     outcome |-> outcome, answer |-> answer])

LEMMA AnswerLocalsAre ==
  ASSUME NEW p, NEW outcome, NEW answer, NEW m, m = AnswerLocals(p, outcome, answer)
  PROVE  /\ DOMAIN m = LocalNames
         /\ m.call = mine[p].call /\ m.may = mine[p].may
         /\ m.outcome = outcome /\ m.answer = answer
         /\ m.cache = None /\ m.proj = None /\ m.before = None
BY NoLocalsNames DEF AnswerLocals, Updated, NoLocals, LocalNames

LEMMA ReturnFromCall ==
  ASSUME CInv, NEW p \in Threads, pc[p] \notin {"idle", "lock"},
         NEW outcome, NEW answer, Return(p, outcome, answer),
         UNCHANGED turns, SharedOK'
  PROVE  StepOK(p, "idle", AnswerLocals(p, outcome, answer))
<1> DEFINE m == AnswerLocals(p, outcome, answer)
<1>1. /\ DOMAIN m = LocalNames /\ m.cache = None /\ m.proj = None /\ m.before = None
      /\ m.may = mine[p].may
  BY AnswerLocalsAre
<1>2. mine[p].may \subseteq Record \cup {NoRecord}
  BY Running DEF LocalsOK
<1>3. LocalsOK("idle", m)
  BY <1>1, <1>2, IdleOK
<1>4. /\ pc' = [pc EXCEPT ![p] = "idle"] /\ mine' = [mine EXCEPT ![p] = m]
      /\ writer' = IF writer = p THEN None ELSE writer
  BY DEF Return, Answered, AnswerLocals
<1>5. roles' = roles /\ calls' \in [Threads -> Nat]
  BY DEF turns, CInv, ControlOK
<1> HIDE DEF m
<1>6. StepOK(p, "idle", m)
  BY <1>1, <1>3, <1>4, <1>5 DEF StepOK, Moved, Writing
<1> QED
  BY <1>6 DEF m

LEMMA SharedSame ==
  ASSUME SharedOK, UNCHANGED <<vars, sixbTmp>>
  PROVE  SharedOK'
BY DEF SharedOK, vars, disk, memory

-----------------------------------------------------------------------------
(* Types through every step.                                               *)

LEMMA LoadCInv ==
  ASSUME CInv, NEW p \in Threads, LoadStep(p)
  PROVE  \E label, m : StepOK(p, label, m)
<1> DEFINE m == mine[p]
<1>1. pc[p] \in LoadLabels /\ pc[p] \notin {"idle", "lock"}
  BY DEF LoadStep, LoadRuntime, LoadCached, ReadSixb, CompareHash, RememberSnapshot, LoadLabels
<1>2. /\ DOMAIN m = LocalNames /\ m.call \in {"append", "get"} /\ LocalsOK(pc[p], m)
  <2>1. Inside(pc[p], m.call)
    BY <1>1, Running
  <2> QED
    BY <1>1, <2>1, Running DEF Inside, LoadLabels, BuildLabels, CompactLabels
<1>3. SharedOK
  BY DEF CInv
<1>4. Loaded(p) \in {"remove", "entry"} /\ Inside(Loaded(p), m.call)
  BY <1>2 DEF Loaded, Inside, AppendLabels, GetLabels
<1>5. \A label \in {"load", "cached", "file", "hash", "remember", "scan"} : Inside(label, m.call)
  BY <1>2 DEF Inside, LoadLabels, BuildLabels
<1>6. CASE LoadRuntime(p)
  <2>1. UNCHANGED control /\ SharedOK'
    BY <1>3, <1>6, SharedSame DEF LoadRuntime
  <2>2. CASE runtime # None
    <3> DEFINE n == Updated(m, [cache |-> ToCache(runtime)])
    <3>1. IsCache(ToCache(runtime))
      BY <1>3, <2>2, ToCacheType DEF SharedOK
    <3>2. pc' = [pc EXCEPT ![p] = "remember"] /\ mine' = [mine EXCEPT ![p] = n]
      BY <1>6, <2>2 DEF LoadRuntime, Set, Goto
    <3>3. /\ DOMAIN n = LocalNames
          /\ n.cache = ToCache(runtime)
          /\ \A x \in LocalNames \ {"cache"} : n[x] = m[x]
      BY <1>2 DEF Updated, LocalNames
    <3> HIDE DEF n
    <3>4. n.call = m.call
      BY <3>3 DEF LocalNames
    <3>5. LocalsOK("remember", n)
      BY <1>1, <1>2, <3>1, <3>3 DEF LocalsOK, LocalNames, LoadLabels
    <3>6. StepOK(p, "remember", n)
      BY <1>1, <1>5, <2>1, <3>2, <3>3, <3>4, <3>5, SetInCall
    <3> QED
      BY <3>6
  <2>3. CASE runtime = None
    <3>1. Goto(p, "cached") /\ UNCHANGED mine
      BY <1>6, <2>3 DEF LoadRuntime
    <3>2. LocalsOK("cached", m)
      BY <1>1, <1>2 DEF LocalsOK, LoadLabels
    <3>3. StepOK(p, "cached", m)
      BY <1>1, <1>5, <2>1, <3>1, <3>2, GotoInCall
    <3> QED
      BY <3>3
  <2> QED
    BY <2>2, <2>3
<1>7. CASE LoadCached(p)
  <2>1. UNCHANGED control /\ SharedOK'
    BY <1>3, <1>7, SharedSame DEF LoadCached
  <2>2. CASE sixbCache # None
    <3> DEFINE n == Updated(m, [cache |-> sixbCache])
    <3>1. IsCache(sixbCache)
      BY <1>3, <2>2 DEF SharedOK
    <3>2. pc' = [pc EXCEPT ![p] = Loaded(p)] /\ mine' = [mine EXCEPT ![p] = n]
      BY <1>7, <2>2 DEF LoadCached, Set, Goto
    <3>3. /\ DOMAIN n = LocalNames
          /\ n.cache = sixbCache
          /\ \A x \in LocalNames \ {"cache"} : n[x] = m[x]
      BY <1>2 DEF Updated, LocalNames
    <3> HIDE DEF n
    <3>4. n.call = m.call
      BY <3>3 DEF LocalNames
    <3>5. LocalsOK(Loaded(p), n)
      BY <1>1, <1>2, <1>4, <3>1, <3>3 DEF LocalsOK, LocalNames, LoadLabels
    <3>6. StepOK(p, Loaded(p), n)
      BY <1>1, <1>4, <2>1, <3>2, <3>3, <3>4, <3>5, SetInCall
    <3> QED
      BY <3>6
  <2>3. CASE sixbCache = None
    <3>1. Goto(p, "file") /\ UNCHANGED mine
      BY <1>7, <2>3 DEF LoadCached
    <3>2. LocalsOK("file", m)
      BY <1>1, <1>2 DEF LocalsOK, LoadLabels
    <3>3. StepOK(p, "file", m)
      BY <1>1, <1>5, <2>1, <3>1, <3>2, GotoInCall
    <3> QED
      BY <3>3
  <2> QED
    BY <2>2, <2>3
<1>8. CASE ReadSixb(p)
  <2>1. UNCHANGED control /\ SharedOK'
    BY <1>3, <1>8, SharedSame DEF ReadSixb
  <2>2. CASE sixb # None
    <3> DEFINE n == Updated(m, [cache |-> sixb.cache, source |-> sixb.source])
    <3>1. IsCache(sixb.cache) /\ PartialOn(Chunk, Seq(Line(Tx)), sixb.source)
      BY <1>3, <2>2 DEF SharedOK, IsSixb
    <3>2. pc' = [pc EXCEPT ![p] = "hash"] /\ mine' = [mine EXCEPT ![p] = n]
      BY <1>8, <2>2 DEF ReadSixb, Set, Goto
    <3>3. /\ DOMAIN n = LocalNames
          /\ n.cache = sixb.cache /\ n.source = sixb.source
          /\ \A x \in LocalNames \ {"cache", "source"} : n[x] = m[x]
      BY <1>2 DEF Updated, LocalNames
    <3> HIDE DEF n
    <3>4. n.call = m.call
      BY <3>3 DEF LocalNames
    <3>5. LocalsOK("hash", n)
      BY <1>1, <1>2, <3>1, <3>3 DEF LocalsOK, LocalNames, LoadLabels
    <3>6. StepOK(p, "hash", n)
      BY <1>1, <1>5, <2>1, <3>2, <3>3, <3>4, <3>5, SetInCall
    <3> QED
      BY <3>6
  <2>3. CASE sixb = None
    <3>1. Goto(p, "scan") /\ UNCHANGED mine
      BY <1>8, <2>3 DEF ReadSixb
    <3>2. LocalsOK("scan", m)
      BY <1>1, <1>2 DEF LocalsOK, LoadLabels
    <3>3. StepOK(p, "scan", m)
      BY <1>1, <1>5, <2>1, <3>1, <3>2, GotoInCall
    <3> QED
      BY <3>3
  <2> QED
    BY <2>2, <2>3
<1>9. CASE CompareHash(p)
  <2> DEFINE label == IF m.source = SourceOf(chunks) THEN "remember" ELSE "scan"
  <2>1. UNCHANGED control /\ SharedOK'
    BY <1>3, <1>9, SharedSame DEF CompareHash
  <2>2. Goto(p, label) /\ UNCHANGED mine /\ pc[p] = "hash"
    BY <1>9 DEF CompareHash
  <2>3. label \in {"remember", "scan"}
    OBVIOUS
  <2> HIDE DEF label
  <2>4. LocalsOK(label, m)
    BY <1>2, <2>2, <2>3 DEF LocalsOK
  <2>5. StepOK(p, label, m)
    BY <1>1, <1>5, <2>1, <2>2, <2>3, <2>4, GotoInCall
  <2> QED
    BY <2>5
<1>10. CASE RememberSnapshot(p)
  <2>1. /\ UNCHANGED control /\ Goto(p, Loaded(p)) /\ UNCHANGED mine /\ pc[p] = "remember"
        /\ sixbCache' = m.cache
        /\ UNCHANGED <<disk, runtime, rowCache, chunkCaches, counters, sixbTmp>>
    BY <1>10 DEF RememberSnapshot
  <2>2. IsCache(m.cache)
    BY <1>2, <2>1 DEF LocalsOK
  <2>3. SharedOK'
    BY <1>3, <2>1, <2>2 DEF SharedOK, disk, chunkCaches, counters
  <2>4. LocalsOK(Loaded(p), m)
    BY <1>2, <1>4, <2>1, <2>2 DEF LocalsOK
  <2>5. StepOK(p, Loaded(p), m)
    BY <1>1, <1>4, <2>1, <2>3, <2>4, GotoInCall
  <2> QED
    BY <2>5
<1> QED
  BY <1>6, <1>7, <1>8, <1>9, <1>10 DEF LoadStep

LEMMA BuildCInv ==
  ASSUME CInv, IsFiles(chunks), NEW p \in Threads, BuildStep(p)
  PROVE  \E label, m : StepOK(p, label, m)
<1> DEFINE m == mine[p]
<1>1. pc[p] \in BuildLabels /\ pc[p] \notin {"idle", "lock"}
  BY DEF BuildStep, Scan, RememberRecords, WriteTmp, RenameTmp, RememberBuilt,
         RememberProjection, BuildLabels
<1>2. DOMAIN m = LocalNames /\ m.call \in Calls /\ LocalsOK(pc[p], m)
  BY <1>1, Running
<1>3. SharedOK
  BY DEF CInv
<1>4. \A label \in BuildLabels : Inside(label, m.call)
  BY <1>2 DEF Inside, Calls
<1>6. CASE Scan(p)
  <2>1. SharedOK'
    BY <1>3, <1>6, SharedSame DEF Scan
  <2>2. CASE CanRebuild
    <3> DEFINE cache   == CacheOf(chunks)
               source  == SourceOf(chunks)
               records == LiveRecords(chunks)
               n == Updated(m, [cache |-> cache, source |-> source, records |-> records])
    <3>1. /\ IsCache(cache) /\ PartialOn(Chunk, Seq(Line(Tx)), source)
          /\ PartialOn(Ids, Record, records)
      BY CacheOfType, SourceType DEF IsFiles
    <3>2. /\ pc' = [pc EXCEPT ![p] = "records"] /\ mine' = [mine EXCEPT ![p] = n]
          /\ UNCHANGED control /\ pc[p] = "scan"
      BY <1>6, <2>2 DEF Scan, Set, Goto
    <3> HIDE DEF cache, source, records
    <3>3. /\ DOMAIN n = LocalNames
          /\ n.cache = cache /\ n.source = source /\ n.records = records
          /\ \A x \in LocalNames \ {"cache", "source", "records"} : n[x] = m[x]
      BY <1>2 DEF Updated, LocalNames
    <3> HIDE DEF n
    <3>4. n.call = m.call
      BY <3>3 DEF LocalNames
    <3>5. LocalsOK("records", n)
      BY <1>2, <3>1, <3>2, <3>3 DEF LocalsOK, LocalNames
    <3>6. StepOK(p, "records", n)
      BY <1>1, <1>4, <2>1, <3>2, <3>3, <3>4, <3>5, SetInCall DEF BuildLabels
    <3> QED
      BY <3>6
  <2>3. CASE ~CanRebuild
    <3>1. Return(p, "error", None) /\ UNCHANGED turns
      BY <1>6, <2>3 DEF Scan
    <3> QED
      BY <1>1, <2>1, <3>1, ReturnFromCall
  <2> QED
    BY <2>2, <2>3
<1>7. CASE RememberRecords(p)
  <2>1. /\ UNCHANGED control /\ Goto(p, "tmp") /\ UNCHANGED mine /\ pc[p] = "records"
        /\ rowCache' = m.records
        /\ UNCHANGED <<disk, runtime, sixbCache, chunkCaches, counters, sixbTmp>>
    BY <1>7 DEF RememberRecords
  <2>2. SharedOK'
    <3>1. PartialOn(Ids, Record, m.records)
      BY <1>2, <2>1 DEF LocalsOK
    <3> QED
      BY <1>3, <2>1, <3>1 DEF SharedOK, disk, chunkCaches, counters
  <2>3. LocalsOK("tmp", m)
    BY <1>2, <2>1 DEF LocalsOK
  <2>4. StepOK(p, "tmp", m)
    BY <1>1, <1>4, <2>1, <2>2, <2>3, GotoInCall DEF BuildLabels
  <2> QED
    BY <2>4
<1>8. CASE WriteTmp(p)
  <2> DEFINE s == [source |-> m.source, cache |-> m.cache]
  <2>1. /\ UNCHANGED control /\ Goto(p, "rename") /\ UNCHANGED mine /\ pc[p] = "tmp"
        /\ sixbTmp' = s /\ UNCHANGED vars
    BY <1>8 DEF WriteTmp
  <2>2. IsSixb(s)
    BY <1>2, <2>1 DEF LocalsOK, IsSixb
  <2> HIDE DEF s
  <2>3. SharedOK'
    BY <1>3, <2>1, <2>2 DEF SharedOK, vars, disk, memory
  <2>4. LocalsOK("rename", m)
    BY <1>2, <2>1 DEF LocalsOK
  <2>5. StepOK(p, "rename", m)
    BY <1>1, <1>4, <2>1, <2>3, <2>4, GotoInCall DEF BuildLabels
  <2> QED
    BY <2>5
<1>9. CASE RenameTmp(p)
  <2>1. /\ pc[p] = "rename" /\ sixbTmp' = None
        /\ sixb' = sixb \/ (sixbTmp # None /\ sixb' = sixbTmp)
        /\ UNCHANGED <<chunks, meta, memory, turns>>
    BY <1>9 DEF RenameTmp
  <2>2. SharedOK'
    BY <1>3, <2>1 DEF SharedOK, memory
  <2>3. CASE sixbTmp # None
    <3>1. Goto(p, "snapshot") /\ UNCHANGED mine /\ UNCHANGED control
      BY <1>9, <2>1, <2>3 DEF RenameTmp, control
    <3>2. LocalsOK("snapshot", m)
      BY <1>2, <2>1 DEF LocalsOK
    <3>3. StepOK(p, "snapshot", m)
      BY <1>1, <1>4, <2>2, <3>1, <3>2, GotoInCall DEF BuildLabels
    <3> QED
      BY <3>3
  <2>4. CASE sixbTmp = None
    <3>1. Return(p, "error", None)
      BY <1>9, <2>4 DEF RenameTmp
    <3> QED
      BY <1>1, <2>1, <2>2, <3>1, ReturnFromCall
  <2> QED
    BY <2>3, <2>4
<1>10. CASE RememberBuilt(p)
  <2>1. /\ UNCHANGED control /\ Goto(p, "project") /\ UNCHANGED mine /\ pc[p] = "snapshot"
        /\ sixbCache' = m.cache
        /\ UNCHANGED <<disk, runtime, rowCache, chunkCaches, counters, sixbTmp>>
    BY <1>10 DEF RememberBuilt
  <2>2. SharedOK'
    <3>1. IsCache(m.cache)
      BY <1>2, <2>1 DEF LocalsOK
    <3> QED
      BY <1>3, <2>1, <3>1 DEF SharedOK, disk, chunkCaches, counters
  <2>3. LocalsOK("project", m)
    BY <1>2, <2>1 DEF LocalsOK
  <2>4. StepOK(p, "project", m)
    BY <1>1, <1>4, <2>1, <2>2, <2>3, GotoInCall DEF BuildLabels
  <2> QED
    BY <2>4
<1>11. CASE RememberProjection(p)
  <2>1. /\ pc[p] = "project" /\ runtime' = FromCache(m.cache)
        /\ UNCHANGED <<disk, sixbCache, rowCache, chunkCaches, counters, turns, sixbTmp>>
    BY <1>11 DEF RememberProjection
  <2>2. SharedOK'
    <3>1. IsProjection(FromCache(m.cache))
      BY <1>2, <2>1, FromCacheType DEF LocalsOK
    <3> QED
      BY <1>3, <2>1, <3>1 DEF SharedOK, disk, chunkCaches, counters
  <2>3. CASE m.call = "rebuild"
    <3>1. Return(p, "done", None)
      BY <1>11, <2>3 DEF RememberProjection
    <3> QED
      BY <1>1, <2>1, <2>2, <3>1, ReturnFromCall
  <2>4. CASE m.call # "rebuild"
    <3> DEFINE label == IF m.call = "compact" THEN "finish" ELSE "remember"
    <3>1. Goto(p, label) /\ UNCHANGED mine /\ UNCHANGED control
      BY <1>11, <2>1, <2>4 DEF RememberProjection, control
    <3>2. label \in {"finish", "remember"} /\ Inside(label, m.call)
      BY <1>2, <2>4 DEF Inside, Calls, LoadLabels, CompactLabels
    <3> HIDE DEF label
    <3>3. LocalsOK(label, m)
      BY <1>2, <2>1, <3>2 DEF LocalsOK
    <3>4. StepOK(p, label, m)
      BY <1>1, <2>2, <3>1, <3>2, <3>3, GotoInCall
    <3> QED
      BY <3>4
  <2> QED
    BY <2>3, <2>4
<1> QED
  BY <1>6, <1>7, <1>8, <1>9, <1>10, <1>11 DEF BuildStep

(* HashMap::insert keeps the type of a cache. *)
LEMMA PutType ==
  ASSUME NEW S, NEW T, NEW cached, PartialOn(S, T, cached), NEW key \in S, NEW value \in T
  PROVE  PartialOn(S, T, Put(cached, key, value))
BY DEF PartialOn, Put

LEMMA LineType ==
  ASSUME NEW file \in File(Tx), NEW i \in DOMAIN file.lines, file.lines[i].op = "put"
  PROVE  file.lines[i].id \in Ids /\ file.lines[i].rec \in Record
<1>1. file.lines \in Seq(Line(Tx))
  BY DEF File
<1>2. file.lines[i] \in Line(Tx)
  BY <1>1, LenProperties, ElementOfSeq
<1> QED
  BY <1>2 DEF Line

LEMMA GetCInv ==
  ASSUME CInv, IsFiles(chunks), NEW p \in Threads, GetStep(p)
  PROVE  \E label, m : StepOK(p, label, m)
<1> DEFINE m == mine[p]
<1>1. pc[p] \in GetLabels /\ pc[p] \notin {"idle", "lock"}
  BY DEF GetStep, Find, FindInSnapshot, ReadRecord, ReadChunk, OpenChunk, RememberLength,
         RememberBytes, Decode, GetLabels
<1>2. DOMAIN m = LocalNames /\ m.call = "get" /\ LocalsOK(pc[p], m)
  <2>1. Inside(pc[p], m.call)
    BY <1>1, Running
  <2> QED
    BY <1>1, <2>1, Running DEF Inside, GetLabels, LoadLabels, BuildLabels, AppendLabels,
                               CompactLabels
<1>3. SharedOK
  BY DEF CInv
<1>4. /\ \A label \in GetLabels : Inside(label, m.call)
      /\ Inside("load", m.call)
  BY <1>2 DEF Inside, LoadLabels
<1>5. CASE Find(p)
  <2>1. UNCHANGED control /\ SharedOK' /\ pc[p] = "find"
    BY <1>3, <1>5, SharedSame DEF Find
  <2>2. CASE runtime # None /\ m.id \in DOMAIN runtime.rows
    <3> DEFINE ptr == runtime.rows[m.id]
               n == Updated(m, [ptr |-> ptr])
    <3>1. ptr \in Pointer
      BY <1>3, <2>2 DEF SharedOK, IsProjection, PartialOn
    <3>2. pc' = [pc EXCEPT ![p] = "row"] /\ mine' = [mine EXCEPT ![p] = n]
      BY <1>5, <2>2 DEF Find, Set, Goto
    <3> HIDE DEF ptr
    <3>3. /\ DOMAIN n = LocalNames /\ n.ptr = ptr
          /\ \A x \in LocalNames \ {"ptr"} : n[x] = m[x]
      BY <1>2 DEF Updated, LocalNames
    <3> HIDE DEF n
    <3>4. n.call = m.call
      BY <3>3 DEF LocalNames
    <3>5. LocalsOK("row", n)
      BY <1>2, <2>1, <3>1, <3>3 DEF LocalsOK, LocalNames
    <3>6. StepOK(p, "row", n)
      BY <1>1, <1>4, <2>1, <3>2, <3>3, <3>4, <3>5, SetInCall DEF GetLabels
    <3> QED
      BY <3>6
  <2>3. CASE ~(runtime # None /\ m.id \in DOMAIN runtime.rows)
    <3>1. Goto(p, "load") /\ UNCHANGED mine
      BY <1>5, <2>3 DEF Find
    <3>2. LocalsOK("load", m)
      BY <1>2, <2>1 DEF LocalsOK
    <3>3. StepOK(p, "load", m)
      BY <1>1, <1>4, <2>1, <3>1, <3>2, GotoInCall
    <3> QED
      BY <3>3
  <2> QED
    BY <2>2, <2>3
<1>6. CASE FindInSnapshot(p)
  <2>1. UNCHANGED turns /\ SharedOK' /\ pc[p] = "entry"
    BY <1>3, <1>6, SharedSame DEF FindInSnapshot
  <2>2. CASE m.id \in DOMAIN m.cache.rows
    <3> DEFINE ptr == m.cache.rows[m.id]
               n == Updated(m, [ptr |-> ptr, cache |-> None, source |-> None, records |-> None])
    <3>1. ptr \in Pointer
      BY <1>2, <2>1, <2>2 DEF LocalsOK, IsCache, PartialOn
    <3>2. /\ pc' = [pc EXCEPT ![p] = "row"] /\ mine' = [mine EXCEPT ![p] = n]
          /\ UNCHANGED control
      BY <1>6, <2>1, <2>2 DEF FindInSnapshot, Set, Goto, control
    <3> HIDE DEF ptr
    <3>3. /\ DOMAIN n = LocalNames /\ n.ptr = ptr /\ n.cache = None
          /\ \A x \in LocalNames \ {"ptr", "cache", "source", "records"} : n[x] = m[x]
      BY <1>2 DEF Updated, LocalNames
    <3> HIDE DEF n
    <3>4. n.call = m.call
      BY <3>3 DEF LocalNames
    <3>5. LocalsOK("row", n)
      BY <1>2, <2>1, <3>1, <3>3 DEF LocalsOK, LocalNames
    <3>6. StepOK(p, "row", n)
      BY <1>1, <1>4, <2>1, <3>2, <3>3, <3>4, <3>5, SetInCall DEF GetLabels
    <3> QED
      BY <3>6
  <2>3. CASE m.id \notin DOMAIN m.cache.rows
    <3>1. Return(p, "done", NoRecord)
      BY <1>6, <2>3 DEF FindInSnapshot
    <3> QED
      BY <1>1, <2>1, <3>1, ReturnFromCall
  <2> QED
    BY <2>2, <2>3
<1>7. CASE ReadRecord(p)
  <2>1. UNCHANGED turns /\ SharedOK' /\ pc[p] = "row"
    BY <1>3, <1>7, SharedSame DEF ReadRecord
  <2>2. CASE m.id \in DOMAIN rowCache
    <3>1. Return(p, "done", rowCache[m.id])
      BY <1>7, <2>2 DEF ReadRecord
    <3> QED
      BY <1>1, <2>1, <3>1, ReturnFromCall
  <2>3. CASE m.id \notin DOMAIN rowCache
    <3>1. Goto(p, "chunk") /\ UNCHANGED mine /\ UNCHANGED control
      BY <1>7, <2>1, <2>3 DEF ReadRecord, control
    <3>2. LocalsOK("chunk", m)
      BY <1>2, <2>1 DEF LocalsOK
    <3>3. StepOK(p, "chunk", m)
      BY <1>1, <1>4, <2>1, <3>1, <3>2, GotoInCall DEF GetLabels
    <3> QED
      BY <3>3
  <2> QED
    BY <2>2, <2>3
<1>8. ASSUME NEW file \in File(Tx), NEW label \in {"decode", "setlen"},
             pc[p] \in {"chunk", "open"}, UNCHANGED control, SharedOK',
             Set(p, [file |-> file]), Goto(p, label), m.ptr[1] \in Chunk
      PROVE  \E l, k : StepOK(p, l, k)
  <2> DEFINE n == Updated(m, [file |-> file])
  <2>1. pc' = [pc EXCEPT ![p] = label] /\ mine' = [mine EXCEPT ![p] = n]
    BY <1>8 DEF Set, Goto
  <2>2. /\ DOMAIN n = LocalNames /\ n.file = file
        /\ \A x \in LocalNames \ {"file"} : n[x] = m[x]
    BY <1>2 DEF Updated, LocalNames
  <2> HIDE DEF n
  <2>3. n.call = m.call
    BY <2>2 DEF LocalNames
  <2>4. LocalsOK(label, n)
    BY <1>2, <1>8, <2>2 DEF LocalsOK, LocalNames
  <2>5. StepOK(p, label, n)
    BY <1>1, <1>4, <1>8, <2>1, <2>2, <2>3, <2>4, SetInCall DEF GetLabels
  <2> QED
    BY <2>5
<1>9. CASE ReadChunk(p)
  <2> DEFINE c == m.ptr[1]
  <2>1. UNCHANGED control /\ SharedOK' /\ pc[p] = "chunk" /\ c \in Chunk
    BY <1>2, <1>3, <1>9, SharedSame DEF ReadChunk, LocalsOK, Pointer
  <2>2. CASE c \in DOMAIN chunkCache
    <3>1. Set(p, [file |-> chunkCache[c]]) /\ Goto(p, "decode")
      BY <1>9, <2>2 DEF ReadChunk
    <3>2. chunkCache[c] \in File(Tx)
      BY <1>3, <2>2 DEF SharedOK, PartialOn
    <3> QED
      BY <1>8, <2>1, <3>1, <3>2
  <2>3. CASE c \notin DOMAIN chunkCache
    <3>1. Goto(p, "open") /\ UNCHANGED mine
      BY <1>9, <2>3 DEF ReadChunk
    <3>2. LocalsOK("open", m)
      BY <1>2, <2>1 DEF LocalsOK
    <3>3. StepOK(p, "open", m)
      BY <1>1, <1>4, <2>1, <3>1, <3>2, GotoInCall DEF GetLabels
    <3> QED
      BY <3>3
  <2> QED
    BY <2>2, <2>3
<1>10. CASE OpenChunk(p)
  <2> DEFINE c == m.ptr[1]
  <2>1. UNCHANGED turns /\ SharedOK' /\ pc[p] = "open" /\ c \in Chunk
    BY <1>2, <1>3, <1>10, SharedSame DEF OpenChunk, LocalsOK, Pointer
  <2>2. CASE c \in DOMAIN chunks
    <3>1. Set(p, [file |-> chunks[c]]) /\ Goto(p, "setlen") /\ UNCHANGED control
      BY <1>10, <2>2 DEF OpenChunk, control
    <3>2. chunks[c] \in File(Tx)
      BY <2>2 DEF IsFiles, PartialOn
    <3> QED
      BY <1>8, <2>1, <3>1, <3>2
  <2>3. CASE c \notin DOMAIN chunks
    <3>1. Return(p, "error", None)
      BY <1>10, <2>3 DEF OpenChunk
    <3> QED
      BY <1>1, <2>1, <3>1, ReturnFromCall
  <2> QED
    BY <2>2, <2>3
<1>11. CASE RememberLength(p)
  <2>1. /\ UNCHANGED control /\ Goto(p, "setbytes") /\ UNCHANGED mine /\ pc[p] = "setlen"
        /\ chunkLen' = Put(chunkLen, m.ptr[1], Len(m.file.lines))
        /\ UNCHANGED <<disk, caches, chunkCache, nextTx, nextChunk, layout, sixbTmp>>
    BY <1>11 DEF RememberLength
  <2>2. SharedOK'
    <3>1. m.ptr[1] \in Chunk /\ m.file.lines \in Seq(Line(Tx))
      BY <1>2, <2>1 DEF LocalsOK, File
    <3>2. Len(m.file.lines) \in Nat /\ PartialOn(Chunk, Nat, chunkLen)
      BY <1>3, <3>1, LenProperties DEF SharedOK
    <3>3. PartialOn(Chunk, Nat, Put(chunkLen, m.ptr[1], Len(m.file.lines)))
      BY <3>1, <3>2, PutType
    <3> QED
      BY <1>3, <2>1, <3>3 DEF SharedOK, disk, caches
  <2>3. LocalsOK("setbytes", m)
    BY <1>2, <2>1 DEF LocalsOK
  <2>4. StepOK(p, "setbytes", m)
    BY <1>1, <1>4, <2>1, <2>2, <2>3, GotoInCall DEF GetLabels
  <2> QED
    BY <2>4
<1>12. CASE RememberBytes(p)
  <2>1. /\ UNCHANGED control /\ Goto(p, "decode") /\ UNCHANGED mine /\ pc[p] = "setbytes"
        /\ chunkCache' = Put(chunkCache, m.ptr[1], m.file)
        /\ UNCHANGED <<disk, caches, chunkLen, nextTx, nextChunk, layout, sixbTmp>>
    BY <1>12 DEF RememberBytes
  <2>2. SharedOK'
    <3>1. m.ptr[1] \in Chunk /\ m.file \in File(Tx)
      BY <1>2, <2>1 DEF LocalsOK
    <3>2. PartialOn(Chunk, File(Tx), Put(chunkCache, m.ptr[1], m.file))
      BY <1>3, <3>1, PutType DEF SharedOK
    <3> QED
      BY <1>3, <2>1, <3>2 DEF SharedOK, disk, caches
  <2>3. LocalsOK("decode", m)
    BY <1>2, <2>1 DEF LocalsOK
  <2>4. StepOK(p, "decode", m)
    BY <1>1, <1>4, <2>1, <2>2, <2>3, GotoInCall DEF GetLabels
  <2> QED
    BY <2>4
<1>13. CASE Decode(p)
  <2> DEFINE i == m.ptr[2]
             line == m.file.lines[i]
  <2>1. /\ pc[p] = "decode" /\ UNCHANGED turns
        /\ UNCHANGED <<disk, runtime, sixbCache, chunkCaches, nextTx, nextChunk, layout, sixbTmp>>
    BY <1>13 DEF Decode
  <2>2. CASE i \in DOMAIN m.file.lines /\ line.op = "put"
    <3>1. Return(p, "done", line.rec) /\ rowCache' = Put(rowCache, line.id, line.rec)
      BY <1>13, <2>2 DEF Decode
    <3>2. line.id \in Ids /\ line.rec \in Record
      BY <1>2, <2>1, <2>2, LineType DEF LocalsOK
    <3> HIDE DEF line
    <3>3. SharedOK'
      <4>1. PartialOn(Ids, Record, Put(rowCache, line.id, line.rec))
        BY <1>3, <3>2, PutType DEF SharedOK
      <4> QED
        BY <1>3, <2>1, <3>1, <4>1 DEF SharedOK, disk, chunkCaches
    <3> QED
      BY SMTT(30), <1>1, <2>1, <3>1, <3>3, ReturnFromCall
  <2>3. CASE ~(i \in DOMAIN m.file.lines /\ line.op = "put")
    <3>1. Return(p, "error", None) /\ UNCHANGED rowCache
      BY <1>13, <2>3 DEF Decode
    <3>2. SharedOK'
      BY <1>3, <2>1, <3>1 DEF SharedOK, disk, chunkCaches
    <3> QED
      BY <1>1, <2>1, <3>1, <3>2, ReturnFromCall
  <2> QED
    BY <2>2, <2>3
<1> QED
  BY <1>5, <1>6, <1>7, <1>9, <1>10, <1>11, <1>12, <1>13 DEF GetStep

-----------------------------------------------------------------------------
(* The log and the counters, whoever reads and rebuilds beside the writer.  *)

(* Between its first change of the files or of a cache and its last one.    *)
Busy == {"unlink", "install", "bytes", "length", "forget", "publish", "rows", "count",
         "bytes0", "length0", "unproject"}

LogOK(files) == IsFiles(files) /\ Whole(files) /\ TxOrdered(files)

(* The counters as a writer that starts finds them.  A compaction that      *)
(* fails after its rename leaves a stale sixpack.toml behind, but also a    *)
(* counter in memory.                                                      *)
CountersLog ==
  /\ nextTx # None => TxBelow(chunks, nextTx)
  /\ nextChunk # None => nextChunk = Size(chunks)
  /\ nextChunk = None /\ meta # None => meta.chunk <= Size(chunks)

(* The chunk of a write comes last.  Its offset may be stale. *)
Placed(target) ==
  /\ Usable(target) /\ Follows(target)
  /\ target.isNew <=> target.chunk \notin DOMAIN chunks

(* The chunk of a compaction. *)
Written0(m) ==
  LET after == [c \in {0} |-> m.file]
  IN  LogOK(after) /\ Size(after) = 1 /\ Dense(after) /\ TxBelow(after, m.tx)

(* What a writer relies on, by where it is. *)
AppendPhase(label, m) ==
  /\ label \in LoadLabels \cup BuildLabels \cup {"take", "remove", "validate"}
       => NextTxId + Len(m.batch) <= MaxTx + 1
  /\ label \in {"target", "old", "write", "bytes", "length", "forget", "publish", "rows", "count"}
       => DistinctIds(m.batch) /\ m.tx + Len(m.batch) <= MaxTx + 1
  /\ label \in {"target", "old", "write"} => TxBelow(chunks, m.tx)
  /\ label \in {"old", "write"} => Placed(m.target)
  /\ label \in {"bytes", "length", "forget", "publish", "rows", "count"}
       => TxBelow(chunks, m.tx + Len(m.batch)) /\ Size(chunks) = m.target.next

CompactPhase(label, m) ==
  /\ label = "plan"
       => DiscoveredTx(chunks) + Cardinality(DOMAIN LiveRecords(chunks)) <= MaxTx + 1
  /\ label \in {"unlink", "install"} => Written0(m)
  /\ label \in {"bytes0", "length0", "forget", "unproject"}
       => TxBelow(chunks, m.tx) /\ Size(chunks) = 1

Phase(q) ==
  /\ mine[q].call = "append" => AppendPhase(pc[q], mine[q])
  /\ mine[q].call = "compact" => CompactPhase(pc[q], mine[q])

LInv ==
  /\ LogOK(chunks)
  /\ (\A q \in Threads : writer = q => pc[q] \notin {"unlink", "install"}) => Dense(chunks)
  /\ (\A q \in Threads : writer = q => pc[q] \notin Busy) => CountersLog
  /\ \A q \in Threads : writer = q => Phase(q)

LEMMA NextTxType ==
  ASSUME IsFiles(chunks), CountersOK(meta, nextTx, nextChunk)
  PROVE  NextTxId \in Nat
<1>1. DiscoveredTx(chunks) \in Nat
  <2>1. DiscoveredTx(chunks) \in 1..(MaxTx + 1)
    BY DiscoveredTxType DEF IsFiles
  <2> QED
    BY <2>1, StoreAssumption
<1>2. meta # None => meta.tx \in Nat
  BY DEF CountersOK
<1>3. RecoveredTx \in Nat
  BY <1>1, <1>2 DEF RecoveredTx, Highest
<1> QED
  BY <1>3 DEF NextTxId, CountersOK

LEMMA NextChunkType ==
  ASSUME IsFiles(chunks), CountersOK(meta, nextTx, nextChunk)
  PROVE  NextChunkCounter \in Nat
<1>1. Cardinality(DOMAIN chunks) \in Nat
  BY SizeType DEF Size
<1>2. meta # None => meta.chunk \in Nat
  BY DEF CountersOK
<1>3. RecoveredChunk \in Nat
  BY <1>1, <1>2 DEF RecoveredChunk, Highest
<1> QED
  BY <1>3 DEF NextChunkCounter, CountersOK

(* The target of a write, whatever lengths are cached. *)
LEMMA AnyTargetType ==
  ASSUME IsFiles(chunks), CountersOK(meta, nextTx, nextChunk),
         PartialOn(Chunk, Nat, chunkLen), NEW n \in Nat,
         NEW target, target = Target(n)
  PROVE  /\ target.isNew \in BOOLEAN
         /\ target.chunk \in Nat /\ target.offset \in Nat /\ target.next \in Nat
         /\ PartialOn(Chunk, Nat, target.lens)
         /\ Usable(target) => target.chunk \in Chunk
<1> DEFINE next    == NextChunkCounter
           current == next - 1
           exists  == next > 0 /\ current \in DOMAIN chunks
           len     == IF current \in DOMAIN chunkLen THEN chunkLen[current]
                                                     ELSE Len(chunks[current].lines)
           fits    == exists /\ len + n <= ChunkLimit
<1>1. next \in Nat
  BY NextChunkType
<1>2. exists => len \in Nat /\ current \in Chunk
  <2> SUFFICES ASSUME exists PROVE len \in Nat /\ current \in Chunk
    OBVIOUS
  <2>1. current \in Chunk /\ chunks[current] \in File(Tx)
    BY DEF IsFiles, PartialOn
  <2>2. chunks[current].lines \in Seq(Line(Tx))
    BY <2>1 DEF File
  <2>3. Len(chunks[current].lines) \in Nat
    BY <2>2, LenProperties
  <2>4. current \in DOMAIN chunkLen => chunkLen[current] \in Nat
    BY DEF PartialOn
  <2> QED
    BY <2>1, <2>3, <2>4
<1>3. target = [chunk  |-> IF fits THEN current ELSE next,
                isNew  |-> ~fits,
                offset |-> IF fits THEN len ELSE 0,
                next   |-> IF fits THEN next ELSE next + 1,
                lens   |-> IF exists THEN [c \in DOMAIN chunkLen \cup {current} |->
                                             IF c = current THEN len ELSE chunkLen[c]]
                                     ELSE chunkLen]
  BY DEF Target, TargetFrom
<1>4. target.chunk = (IF fits THEN current ELSE next) /\ target.isNew = ~fits
      /\ target.offset = (IF fits THEN len ELSE 0)
      /\ target.next = (IF fits THEN next ELSE next + 1)
      /\ target.lens = (IF exists THEN [c \in DOMAIN chunkLen \cup {current} |->
                                          IF c = current THEN len ELSE chunkLen[c]]
                                  ELSE chunkLen)
  BY <1>3
<1>5. PartialOn(Chunk, Nat, target.lens)
  BY <1>2, <1>4 DEF PartialOn
<1>6. fits => exists
  OBVIOUS
<1> HIDE DEF len
<1>7. target.chunk \in Nat
  <2>1. fits => current \in Nat
    BY <1>1
  <2> QED
    BY <1>1, <1>4, <2>1
<1>8. Usable(target) => target.chunk \in Chunk
  BY <1>7, StoreAssumption DEF Usable, Chunk
<1>9. target.offset \in Nat /\ target.next \in Nat /\ target.isNew \in BOOLEAN
  <2>1. fits => len \in Nat
    BY <1>2
  <2> QED
    BY <1>1, <1>4, <2>1
<1> QED
  BY <1>5, <1>7, <1>8, <1>9

-----------------------------------------------------------------------------
(* Types through the steps of writers.                                     *)

LEMMA AppendIs ==
  ASSUME CInv, NEW p \in Threads,
         pc[p] \in AppendLabels \ {"lock", "forget"}
  PROVE  /\ pc[p] \notin {"idle", "lock"} /\ DOMAIN mine[p] = LocalNames
         /\ mine[p].call = "append" /\ writer = p
         /\ LocalsOK(pc[p], mine[p])
         /\ mine[p].batch \in Seq(Operation) /\ Len(mine[p].batch) \in Nat
<1>1. pc[p] \notin {"idle", "lock"}
  BY DEF AppendLabels
<1>2. mine[p].call = "append"
  BY <1>1, Running DEF Inside, AppendLabels, LoadLabels, BuildLabels, GetLabels, CompactLabels
<1>3. writer = p
  BY <1>1, <1>2, Running DEF Writing
<1>4. mine[p].batch \in Batch
  BY <1>1, <1>2, Running DEF LocalsOK
<1>5. mine[p].batch \in Seq(Operation)
  BY <1>4, BatchIsSeq
<1>6. Len(mine[p].batch) \in Nat
  BY <1>5, LenProperties
<1> QED
  BY <1>1, <1>2, <1>3, <1>5, <1>6, Running

LEMMA TakeCInv ==
  ASSUME CInv, NEW p \in Threads, Take(p) \/ TakeSnapshot(p)
  PROVE  \E label, m : StepOK(p, label, m)
<1> DEFINE m == mine[p]
<1>1. /\ pc[p] \in {"take", "remove"} /\ pc[p] \notin {"idle", "lock"}
      /\ DOMAIN m = LocalNames /\ m.call = "append" /\ LocalsOK(pc[p], m)
  BY AppendIs DEF Take, TakeSnapshot, AppendLabels
<1>2. SharedOK
  BY DEF CInv
<1>3. Inside("validate", m.call) /\ Inside("load", m.call)
  BY <1>1 DEF Inside, LoadLabels, AppendLabels
<1>4. CASE Take(p)
  <2>1. /\ UNCHANGED control /\ runtime' = None
        /\ UNCHANGED <<disk, sixbCache, rowCache, chunkCaches, counters, sixbTmp>>
    BY <1>4 DEF Take
  <2>2. SharedOK'
    BY <1>2, <2>1 DEF SharedOK, disk, chunkCaches, counters
  <2>3. CASE runtime # None
    <3> DEFINE n == Updated(m, [proj |-> runtime])
    <3>1. pc' = [pc EXCEPT ![p] = "validate"] /\ mine' = [mine EXCEPT ![p] = n]
      BY <1>4, <2>3 DEF Take, Set, Goto
    <3>2. IsProjection(runtime)
      BY <1>2, <2>3 DEF SharedOK
    <3>3. /\ DOMAIN n = LocalNames /\ n.proj = runtime
          /\ \A x \in LocalNames \ {"proj"} : n[x] = m[x]
      BY <1>1 DEF Updated, LocalNames
    <3> HIDE DEF n
    <3>4. n.call = m.call
      BY <3>3 DEF LocalNames
    <3>5. LocalsOK("validate", n)
      BY <1>1, <3>2, <3>3 DEF LocalsOK, LocalNames
    <3>6. StepOK(p, "validate", n)
      BY <1>1, <1>3, <2>1, <2>2, <3>1, <3>3, <3>4, <3>5, SetInCall
    <3> QED
      BY <3>6
  <2>4. CASE runtime = None
    <3>1. Goto(p, "load") /\ UNCHANGED mine
      BY <1>4, <2>4 DEF Take
    <3>2. LocalsOK("load", m)
      BY <1>1 DEF LocalsOK
    <3>3. StepOK(p, "load", m)
      BY <1>1, <1>3, <2>1, <2>2, <3>1, <3>2, GotoInCall
    <3> QED
      BY <3>3
  <2> QED
    BY <2>3, <2>4
<1>5. CASE TakeSnapshot(p)
  <2> DEFINE proj == FromCache(sixbCache)
             n == Updated(m, [proj |-> proj, cache |-> None, source |-> None, records |-> None])
  <2>1. /\ UNCHANGED control /\ sixbCache # None /\ sixbCache' = None
        /\ pc' = [pc EXCEPT ![p] = "validate"] /\ mine' = [mine EXCEPT ![p] = n]
        /\ UNCHANGED <<disk, runtime, rowCache, chunkCaches, counters, sixbTmp>>
    BY <1>5 DEF TakeSnapshot, Set, Goto
  <2>2. SharedOK'
    BY <1>2, <2>1 DEF SharedOK, disk, chunkCaches, counters
  <2>3. IsProjection(proj)
    BY <1>2, <2>1, FromCacheType DEF SharedOK
  <2> HIDE DEF proj
  <2>4. /\ DOMAIN n = LocalNames /\ n.proj = proj /\ n.cache = None
        /\ \A x \in LocalNames \ {"proj", "cache", "source", "records"} : n[x] = m[x]
    BY <1>1 DEF Updated, LocalNames
  <2> HIDE DEF n
  <2>5. n.call = m.call
    BY <2>4 DEF LocalNames
  <2>6. LocalsOK("validate", n)
    BY <1>1, <2>3, <2>4 DEF LocalsOK, LocalNames
  <2>7. StepOK(p, "validate", n)
    BY <1>1, <1>3, <2>1, <2>2, <2>4, <2>5, <2>6, SetInCall
  <2> QED
    BY <2>7
<1> QED
  BY <1>4, <1>5

LEMMA ValidateCInv ==
  ASSUME CInv, IsFiles(chunks), NEW p \in Threads, Validate(p)
  PROVE  \E label, m : StepOK(p, label, m)
<1> DEFINE m == mine[p]
<1>1. /\ pc[p] = "validate" /\ pc[p] \notin {"idle", "lock"}
      /\ DOMAIN m = LocalNames /\ m.call = "append" /\ LocalsOK(pc[p], m)
  BY AppendIs DEF Validate, AppendLabels
<1>2. SharedOK
  BY DEF CInv
<1>3. NextTxId \in Nat
  BY <1>2, NextTxType DEF SharedOK
<1>4. /\ nextTx' = NextTxId /\ UNCHANGED turns
      /\ UNCHANGED <<disk, caches, chunkCaches, nextChunk, layout, sixbTmp>>
  BY DEF Validate
<1>5. SharedOK'
  BY <1>2, <1>3, <1>4 DEF SharedOK, CountersOK, disk, caches, chunkCaches
<1>6. CASE Accepts(m.proj, m.batch, m.mode)
  <2> DEFINE tx == NextTxId
             n == Updated(m, [tx |-> tx])
  <2>1. /\ pc' = [pc EXCEPT ![p] = "target"] /\ mine' = [mine EXCEPT ![p] = n]
        /\ UNCHANGED control
    BY <1>4, <1>6 DEF Validate, Set, Goto, control
  <2> HIDE DEF tx
  <2>2. /\ DOMAIN n = LocalNames /\ n.tx = tx
        /\ \A x \in LocalNames \ {"tx"} : n[x] = m[x]
    BY <1>1 DEF Updated, LocalNames
  <2> HIDE DEF n
  <2>3. n.call = m.call /\ Inside("target", m.call) /\ tx \in Nat
    BY <1>1, <1>3, <2>2 DEF LocalNames, Inside, AppendLabels, tx
  <2>4. LocalsOK("target", n)
    BY <1>1, <2>2, <2>3 DEF LocalsOK, LocalNames
  <2>5. StepOK(p, "target", n)
    BY <1>1, <1>5, <2>1, <2>2, <2>3, <2>4, SetInCall
  <2> QED
    BY <2>5
<1>7. CASE ~Accepts(m.proj, m.batch, m.mode)
  <2>1. Return(p, "rejected", None)
    BY <1>7 DEF Validate
  <2> QED
    BY <1>1, <1>4, <1>5, <2>1, ReturnFromCall
<1> QED
  BY <1>6, <1>7

LEMMA TargetCInv ==
  ASSUME CInv, IsFiles(chunks), NEW p \in Threads, ChooseTarget(p)
  PROVE  \E label, m : StepOK(p, label, m)
<1> DEFINE m == mine[p]
           target == Target(Len(m.batch))
<1>1. /\ pc[p] = "target" /\ pc[p] \notin {"idle", "lock"}
      /\ DOMAIN m = LocalNames /\ m.call = "append" /\ LocalsOK(pc[p], m)
      /\ Len(m.batch) \in Nat
  BY AppendIs DEF ChooseTarget, AppendLabels
<1>2. SharedOK
  BY DEF CInv
<1>3. NextChunkCounter \in Nat
  BY <1>2, NextChunkType DEF SharedOK
<1>4. /\ target.isNew \in BOOLEAN
      /\ target.offset \in Nat /\ target.next \in Nat
      /\ PartialOn(Chunk, Nat, target.lens)
      /\ Usable(target) => target.chunk \in Chunk
  BY <1>1, <1>2, AnyTargetType DEF SharedOK
<1>5. /\ nextChunk' = NextChunkCounter /\ chunkLen' = target.lens /\ UNCHANGED turns
      /\ UNCHANGED <<disk, caches, chunkCache, nextTx, meta, layout, sixbTmp>>
  BY DEF ChooseTarget
<1>6. Usable(target) => /\ Set(p, [target |-> target]) /\ Goto(p, "old") /\ UNCHANGED writer
  BY DEF ChooseTarget
<1>7. ~Usable(target) => Return(p, "error", None)
  BY DEF ChooseTarget
<1> HIDE DEF target
<1>8. SharedOK'
  BY <1>2, <1>3, <1>4, <1>5 DEF SharedOK, CountersOK, disk, caches
<1>9. CASE Usable(target)
  <2> DEFINE n == Updated(m, [target |-> target])
  <2>1. /\ pc' = [pc EXCEPT ![p] = "old"] /\ mine' = [mine EXCEPT ![p] = n]
        /\ UNCHANGED control
    BY <1>5, <1>6, <1>9 DEF Set, Goto, control
  <2>2. /\ DOMAIN n = LocalNames /\ n.target = target
        /\ \A x \in LocalNames \ {"target"} : n[x] = m[x]
    BY <1>1 DEF Updated, LocalNames
  <2> HIDE DEF n
  <2>3. n.call = m.call /\ Inside("old", m.call)
    BY <1>1, <2>2 DEF LocalNames, Inside, AppendLabels
  <2>4. LocalsOK("old", n)
    BY <1>1, <1>4, <1>9, <2>2 DEF LocalsOK, LocalNames
  <2>5. StepOK(p, "old", n)
    BY <1>1, <1>8, <2>1, <2>2, <2>3, <2>4, SetInCall
  <2> QED
    BY <2>5
<1>10. CASE ~Usable(target)
  BY <1>1, <1>5, <1>7, <1>8, <1>10, ReturnFromCall
<1> QED
  BY <1>9, <1>10

LEMMA ApplyCInv ==
  ASSUME CInv, NEW p \in Threads, Apply(p)
  PROVE  \E label, m : StepOK(p, label, m)
<1> DEFINE m == mine[p]
           batch == m.batch
           ptr  == [j \in DOMAIN batch |-> <<m.target.chunk, m.target.offset + j>>]
           proj == ApplyBatch(m.proj, batch, ptr, rowCache)
           n == Updated(m, [proj |-> proj])
<1>1. /\ pc[p] = "old" /\ pc[p] \notin {"idle", "lock"}
      /\ DOMAIN m = LocalNames /\ m.call = "append" /\ LocalsOK(pc[p], m)
      /\ batch \in Seq(Operation)
  BY AppendIs DEF Apply, AppendLabels
<1>2. SharedOK' /\ PartialOn(Ids, Record, rowCache) /\ UNCHANGED control
  BY SharedSame DEF CInv, SharedOK, Apply
<1>3. pc' = [pc EXCEPT ![p] = "write"] /\ mine' = [mine EXCEPT ![p] = n]
  BY DEF Apply, Set, Goto
<1>4. ptr \in [DOMAIN batch -> Pointer]
  <2>1. \A j \in DOMAIN batch : j \in Nat
    BY <1>1, LenProperties
  <2>2. m.target.chunk \in Chunk /\ m.target.offset \in Nat
    BY <1>1 DEF LocalsOK
  <2> QED
    BY <2>1, <2>2 DEF Pointer
<1>5. IsProjection(m.proj)
  BY <1>1 DEF LocalsOK
<1> HIDE DEF ptr
<1>6. IsProjection(proj)
  BY <1>1, <1>2, <1>4, <1>5, ApplyBatchType
<1> HIDE DEF proj
<1>7. /\ DOMAIN n = LocalNames /\ n.proj = proj
      /\ \A x \in LocalNames \ {"proj"} : n[x] = m[x]
  BY <1>1 DEF Updated, LocalNames
<1> HIDE DEF n
<1>8. n.call = m.call /\ Inside("write", m.call)
  BY <1>1, <1>7 DEF LocalNames, Inside, AppendLabels
<1>9. LocalsOK("write", n)
  BY <1>1, <1>6, <1>7 DEF LocalsOK, LocalNames
<1>10. StepOK(p, "write", n)
  BY <1>1, <1>2, <1>3, <1>7, <1>8, <1>9, SetInCall
<1> QED
  BY <1>10

(* The steps of an append once its batch is durable. *)
DurableStep(p) == UpdateBytes(p) \/ UpdateLength(p) \/ Publish(p) \/ UpdateRecords(p) \/ Count(p)

LEMMA DurableCInv ==
  ASSUME CInv, LInv, NEW p \in Threads, DurableStep(p)
  PROVE  \E label, m : StepOK(p, label, m)
<1> DEFINE m == mine[p]
           n == Len(m.batch)
<1>1. /\ pc[p] \in {"bytes", "length", "publish", "rows", "count"}
      /\ pc[p] \notin {"idle", "lock"}
      /\ DOMAIN m = LocalNames /\ m.call = "append" /\ LocalsOK(pc[p], m)
      /\ m.batch \in Seq(Operation) /\ n \in Nat /\ writer = p
  BY AppendIs DEF DurableStep, UpdateBytes, UpdateLength, Publish, UpdateRecords, Count,
                  AppendLabels
<1>2. SharedOK
  BY DEF CInv
<1>3. \A label \in {"length", "forget", "rows", "count"} : Inside(label, m.call)
  BY <1>1 DEF Inside, AppendLabels
<1>4. m.tx \in Nat /\ m.target.chunk \in Chunk /\ m.target.next \in Nat
  BY <1>1 DEF LocalsOK
<1>5. CASE UpdateBytes(p)
  <2> DEFINE file == [head |-> "whole", lines |-> EncodeBatch(m.batch, m.tx)]
  <2>1. /\ pc[p] = "bytes" /\ UNCHANGED control /\ Goto(p, "length") /\ UNCHANGED mine
        /\ chunkCache' = CachedAfter(m.target, chunkCache, file)
        /\ UNCHANGED <<disk, caches, chunkLen, nextTx, nextChunk, layout, sixbTmp>>
    BY <1>5 DEF UpdateBytes
  <2>2. m.tx + n <= MaxTx + 1
    BY <1>1, <2>1 DEF LInv, Phase, AppendPhase
  <2>3. file \in File(Tx)
    BY <1>1, <1>4, <2>2, EncodeBatchType DEF File, Preamble
  <2> HIDE DEF file
  <2>4. PartialOn(Chunk, File(Tx), CachedAfter(m.target, chunkCache, file))
    BY <1>2, <1>4, <2>3, CachedAfterType DEF SharedOK
  <2>5. SharedOK'
    BY <1>2, <2>1, <2>4 DEF SharedOK, disk, caches
  <2>6. LocalsOK("length", m)
    BY <1>1, <2>1 DEF LocalsOK
  <2>7. StepOK(p, "length", m)
    BY <1>1, <1>3, <2>1, <2>5, <2>6, GotoInCall
  <2> QED
    BY <2>7
<1>6. CASE UpdateLength(p)
  <2>1. /\ pc[p] = "length" /\ UNCHANGED control /\ Goto(p, "forget") /\ UNCHANGED mine
        /\ chunkLen' = CachedAfter(m.target, chunkLen, n)
        /\ UNCHANGED <<disk, caches, chunkCache, nextTx, nextChunk, layout, sixbTmp>>
    BY <1>6 DEF UpdateLength
  <2>2. PartialOn(Chunk, Nat, CachedAfter(m.target, chunkLen, n))
    BY <1>1, <1>2, <1>4, CachedAfterType DEF SharedOK
  <2>3. SharedOK'
    BY <1>2, <2>1, <2>2 DEF SharedOK, disk, caches
  <2>4. LocalsOK("forget", m)
    BY <1>1, <2>1 DEF LocalsOK
  <2>5. StepOK(p, "forget", m)
    BY <1>1, <1>3, <2>1, <2>3, <2>4, GotoInCall
  <2> QED
    BY <2>5
<1>7. CASE Publish(p)
  <2>1. /\ pc[p] = "publish" /\ UNCHANGED control /\ Goto(p, "rows") /\ UNCHANGED mine
        /\ runtime' = m.proj
        /\ UNCHANGED <<disk, sixbCache, rowCache, chunkCaches, counters, sixbTmp>>
    BY <1>7 DEF Publish
  <2>2. IsProjection(m.proj)
    BY <1>1, <2>1 DEF LocalsOK
  <2>3. SharedOK'
    BY <1>2, <2>1, <2>2 DEF SharedOK, disk, chunkCaches, counters
  <2>4. LocalsOK("rows", m)
    BY <1>1, <2>1 DEF LocalsOK
  <2>5. StepOK(p, "rows", m)
    BY <1>1, <1>3, <2>1, <2>3, <2>4, GotoInCall
  <2> QED
    BY <2>5
<1>8. CASE UpdateRecords(p)
  <2>1. /\ pc[p] = "rows" /\ UNCHANGED control /\ Goto(p, "count") /\ UNCHANGED mine
        /\ rowCache' = RecordsAfter(rowCache, m.batch)
        /\ UNCHANGED <<disk, runtime, sixbCache, chunkCaches, counters, sixbTmp>>
    BY <1>8 DEF UpdateRecords
  <2>2. PartialOn(Ids, Record, RecordsAfter(rowCache, m.batch))
    BY <1>1, <1>2, RecordsAfterType DEF SharedOK
  <2>3. SharedOK'
    BY <1>2, <2>1, <2>2 DEF SharedOK, disk, chunkCaches, counters
  <2>4. LocalsOK("count", m)
    BY <1>1, <2>1 DEF LocalsOK
  <2>5. StepOK(p, "count", m)
    BY <1>1, <1>3, <2>1, <2>3, <2>4, GotoInCall
  <2> QED
    BY <2>5
<1>9. CASE Count(p)
  <2>1. /\ nextTx' = m.tx + n /\ nextChunk' = m.target.next
        /\ meta' = IF n > 1 \/ meta = None THEN Metadata(m.tx + n, m.target.next) ELSE meta
        /\ Return(p, "done", None)
        /\ UNCHANGED <<chunks, sixb, caches, chunkCaches, layout, turns, sixbTmp>>
    BY <1>9 DEF Count
  <2>2. m.tx + n \in Nat
    BY <1>1, <1>4
  <2>3. CountersOK(meta', nextTx', nextChunk')
    BY <1>2, <1>4, <2>1, <2>2 DEF SharedOK, CountersOK, Metadata
  <2>4. SharedOK'
    BY <1>2, <2>1, <2>3 DEF SharedOK, caches, chunkCaches
  <2> QED
    BY <1>1, <2>1, <2>4, ReturnFromCall
<1> QED
  BY <1>5, <1>6, <1>7, <1>8, <1>9 DEF DurableStep

LEMMA ForgetCInv ==
  ASSUME CInv, NEW p \in Threads, ForgetSnapshot(p)
  PROVE  \E label, m : StepOK(p, label, m)
<1> DEFINE m == mine[p]
           label == IF m.call = "append" THEN "publish" ELSE "unproject"
<1>1. /\ pc[p] = "forget" /\ UNCHANGED control /\ Goto(p, label) /\ UNCHANGED mine
      /\ sixbCache' = None
      /\ UNCHANGED <<disk, runtime, rowCache, chunkCaches, counters, sixbTmp>>
  BY DEF ForgetSnapshot
<1>2. /\ pc[p] \notin {"idle", "lock"} /\ LocalsOK("forget", m)
      /\ m.call \in {"append", "compact"}
  BY <1>1, Running DEF Inside, LoadLabels, BuildLabels, GetLabels
<1>3. SharedOK'
  BY <1>1 DEF CInv, SharedOK, disk, chunkCaches, counters
<1>4. label \in {"publish", "unproject"} /\ (label = "publish" <=> m.call = "append")
  OBVIOUS
<1>5. Inside(label, m.call)
  BY <1>2, <1>4 DEF Inside, AppendLabels, CompactLabels
<1> HIDE DEF label
<1>6. LocalsOK(label, m)
  BY <1>2, <1>4 DEF LocalsOK
<1>7. StepOK(p, label, m)
  BY <1>1, <1>2, <1>3, <1>4, <1>5, <1>6, GotoInCall
<1> QED
  BY <1>7

(* The batch reaches the files, and the reads in progress learn of it. *)
LEMMA WriteLinesCInv ==
  ASSUME CInv, IsFiles(chunks), IsFiles(chunks'), NEW p \in Threads, WriteLines(p)
  PROVE  CInv'
<1> DEFINE before == LiveTable(chunks)
           after  == LiveTable(chunks')
           old(q) == IF q = p THEN [mine[p] EXCEPT !.before = before] ELSE mine[q]
           new(q) == IF old(q).call = "get" /\ pc[q] # "idle"
                       THEN [old(q) EXCEPT !.may = @ \cup {after[old(q).id]}]
                       ELSE old(q)
<1>1. /\ pc[p] = "write" /\ mine[p].call = "append" /\ LocalsOK(pc[p], mine[p])
      /\ DOMAIN mine[p] = LocalNames
  BY AppendIs DEF WriteLines, AppendLabels
<1>2. /\ mine' = Witnessed(chunks', [mine EXCEPT ![p].before = before])
      /\ pc' = [pc EXCEPT ![p] = "bytes"]
      /\ UNCHANGED <<sixb, meta, memory, control, sixbTmp>>
  BY DEF WriteLines, Goto
<1>3. ControlOK /\ SharedOK /\ \A q \in Threads : ThreadOK(q)
  BY DEF CInv
<1>4. mine' = [q \in Threads |-> new(q)]
  <2> DEFINE locals == [mine EXCEPT ![p].before = before]
  <2>1. \A q \in Threads : locals[q] = old(q)
    BY <1>3 DEF ControlOK
  <2>2. mine' = [q \in Threads |->
                   IF locals[q].call = "get" /\ pc[q] # "idle"
                     THEN [locals[q] EXCEPT !.may = @ \cup {after[locals[q].id]}]
                     ELSE locals[q]]
    BY <1>2 DEF Witnessed
  <2> HIDE DEF locals, old, after
  <2> QED
    BY <2>1, <2>2
<1>5. /\ before \in [Ids -> Record \cup {NoRecord}]
      /\ after \in [Ids -> Record \cup {NoRecord}]
  BY LiveTableIs
<1> HIDE DEF before, after
<1>6. ControlOK'
  <2>1. pc' = [q \in Threads |-> pc'[q]]
    BY <1>2, <1>3 DEF ControlOK
  <2>2. mine' = [q \in Threads |-> mine'[q]]
    BY <1>4
  <2> QED
    BY <1>2, <1>3, <2>1, <2>2 DEF ControlOK, control, turns
<1>7. SharedOK'
  BY <1>2, <1>3 DEF SharedOK, memory
<1>8. ASSUME NEW q \in Threads
      PROVE  ThreadOK(q)'
  <2>1. ThreadOK(q) /\ writer' = writer /\ roles' = roles
    BY <1>2, <1>3 DEF control, turns
  <2>2. mine'[q] = new(q)
    BY <1>4
  <2>3. CASE q = p
    <3> DEFINE n == [mine[p] EXCEPT !.before = before]
    <3>1. new(q) = n
      BY <1>1, <2>3
    <3>2. /\ DOMAIN n = LocalNames /\ n.before = before
          /\ \A x \in LocalNames \ {"before"} : n[x] = mine[p][x]
      BY <1>1 DEF LocalNames
    <3>3. mine'[p] = n
      BY <2>2, <2>3, <3>1
    <3> HIDE DEF n
    <3>4. pc'[p] = "bytes"
      BY <1>2, <1>3 DEF ControlOK
    <3>5. n.call = "append"
      BY <1>1, <3>2 DEF LocalNames
    <3>6. LocalsOK("bytes", n)
      BY <1>1, <1>5, <3>2 DEF LocalsOK, LocalNames
    <3>7. Inside("bytes", "append") /\ Writing("bytes", "append") /\ Writing("write", "append")
      BY DEF Inside, Writing, AppendLabels
    <3>8. mine[p].call \in roles[p] /\ writer = p
      BY <1>1, <2>1, <2>3, <3>7 DEF ThreadOK
    <3> QED
      BY <1>1, <2>1, <2>3, <3>2, <3>3, <3>4, <3>5, <3>6, <3>7, <3>8 DEF ThreadOK
  <2>4. CASE q # p
    <3>1. pc'[q] = pc[q]
      BY <1>2, <1>3, <2>4 DEF ControlOK
    <3>2. CASE mine[q].call = "get" /\ pc[q] # "idle"
      <4> DEFINE n == [mine[q] EXCEPT !.may = @ \cup {after[mine[q].id]}]
      <4>1. mine'[q] = n
        BY <2>2, <2>4, <3>2
      <4>2. DOMAIN mine[q] = LocalNames /\ LocalsOK(pc[q], mine[q])
        BY <2>1 DEF ThreadOK
      <4>3. /\ DOMAIN n = LocalNames /\ n.may = mine[q].may \cup {after[mine[q].id]}
            /\ \A x \in LocalNames \ {"may"} : n[x] = mine[q][x]
        BY <4>2 DEF LocalNames
      <4> HIDE DEF n
      <4>4. n.may \subseteq Record \cup {NoRecord}
        <5>1. mine[q].id \in Ids /\ mine[q].may \subseteq Record \cup {NoRecord}
          BY <3>2, <4>2 DEF LocalsOK
        <5>2. after[mine[q].id] \in Record \cup {NoRecord}
          BY <1>5, <5>1
        <5> QED
          BY <4>3, <5>1, <5>2
      <4>5. n.call = mine[q].call
        BY <4>3 DEF LocalNames
      <4>6. LocalsOK(pc[q], n)
        BY <3>2, <4>2, <4>3, <4>4, <4>5 DEF LocalsOK, LocalNames
      <4> QED
        BY <2>1, <3>1, <4>1, <4>3, <4>5, <4>6 DEF ThreadOK
    <3>3. CASE ~(mine[q].call = "get" /\ pc[q] # "idle")
      <4>1. mine'[q] = mine[q]
        BY <2>2, <2>4, <3>3
      <4> QED
        BY <2>1, <3>1, <4>1 DEF ThreadOK
    <3> QED
      BY <3>2, <3>3
  <2> QED
    BY <2>3, <2>4
<1> QED
  BY <1>6, <1>7, <1>8 DEF CInv

LEMMA CompactIs ==
  ASSUME CInv, NEW p \in Threads,
         pc[p] \in CompactLabels \ {"lock", "forget"}
  PROVE  /\ pc[p] \notin {"idle", "lock"} /\ DOMAIN mine[p] = LocalNames
         /\ mine[p].call = "compact" /\ writer = p
         /\ LocalsOK(pc[p], mine[p])
<1>1. pc[p] \notin {"idle", "lock"}
  BY DEF CompactLabels
<1>2. mine[p].call = "compact"
  BY <1>1, Running DEF Inside, AppendLabels, LoadLabels, BuildLabels, GetLabels, CompactLabels
<1>3. writer = p
  BY <1>1, <1>2, Running DEF Writing
<1> QED
  BY <1>1, <1>2, <1>3, Running

LEMMA PlanCInv ==
  ASSUME CInv, LInv, NEW p \in Threads, PlanCompaction(p)
  PROVE  \E label, m : StepOK(p, label, m)
<1> DEFINE m == mine[p]
<1>1. /\ pc[p] = "plan" /\ pc[p] \notin {"idle", "lock"} /\ writer = p
      /\ DOMAIN m = LocalNames /\ m.call = "compact" /\ LocalsOK(pc[p], m)
  BY CompactIs DEF PlanCompaction, CompactLabels
<1>2. UNCHANGED control /\ SharedOK'
  BY SharedSame DEF CInv, PlanCompaction
<1>3. PICK order \in LiveOrders :
        /\ Set(p, [file |-> Compacted(order), tx |-> DiscoveredTx(chunks) + Len(order)])
        /\ Goto(p, "unlink")
  BY DEF PlanCompaction
<1> DEFINE file == Compacted(order)
           tx   == DiscoveredTx(chunks) + Len(order)
           n == Updated(m, [file |-> file, tx |-> tx])
<1>4. /\ pc' = [pc EXCEPT ![p] = "unlink"] /\ mine' = [mine EXCEPT ![p] = n]
  BY <1>3 DEF Set, Goto
<1>5. DiscoveredTx(chunks) + Cardinality(DOMAIN LiveRecords(chunks)) <= MaxTx + 1
  BY <1>1 DEF LInv, Phase, CompactPhase
<1>6. IsFiles(chunks)
  BY DEF LInv, LogOK
<1>7. IsFiles([c \in {0} |-> file]) /\ Len(order) \in Nat
  BY <1>5, <1>6, CompactedType DEF IsFiles
<1>8. file \in File(Tx)
  <2> HIDE DEF file
  <2> QED
    BY <1>7 DEF IsFiles, PartialOn
<1>9. tx \in Nat
  <2>1. DiscoveredTx(chunks) \in 1..(MaxTx + 1)
    BY <1>6, DiscoveredTxType DEF IsFiles
  <2> QED
    BY <1>7, <2>1, StoreAssumption
<1> HIDE DEF file, tx
<1>10. /\ DOMAIN n = LocalNames /\ n.file = file /\ n.tx = tx
      /\ \A x \in LocalNames \ {"file", "tx"} : n[x] = m[x]
  BY <1>1 DEF Updated, LocalNames
<1> HIDE DEF n
<1>11. n.call = m.call /\ Inside("unlink", m.call)
  BY <1>1, <1>10 DEF LocalNames, Inside, CompactLabels
<1>12. LocalsOK("unlink", n)
  BY <1>1, <1>8, <1>9, <1>10 DEF LocalsOK, LocalNames
<1>13. StepOK(p, "unlink", n)
  BY <1>1, <1>2, <1>4, <1>10, <1>11, <1>12, SetInCall
<1> QED
  BY <1>13

(* The steps of a compaction once its chunk is planned. *)
ReplaceStep(p) ==
  RemoveChunk(p) \/ InstallChunk(p) \/ ReplaceBytes(p) \/ ReplaceLengths(p)
    \/ ForgetProjection(p) \/ FinishCompaction(p)

LEMMA ReplaceCInv ==
  ASSUME CInv, LInv, NEW p \in Threads, ReplaceStep(p)
  PROVE  \E label, m : StepOK(p, label, m)
<1> DEFINE m == mine[p]
<1>1. /\ pc[p] \in {"unlink", "install", "bytes0", "length0", "unproject", "finish"}
      /\ pc[p] \notin {"idle", "lock"} /\ writer = p
      /\ DOMAIN m = LocalNames /\ m.call = "compact" /\ LocalsOK(pc[p], m)
  BY CompactIs DEF ReplaceStep, RemoveChunk, InstallChunk, ReplaceBytes, ReplaceLengths,
                   ForgetProjection, FinishCompaction, CompactLabels
<1>2. SharedOK
  BY DEF CInv
<1>3. \A label \in {"unlink", "install", "bytes0", "length0", "forget", "scan"} :
        Inside(label, m.call)
  BY <1>1 DEF Inside, CompactLabels, BuildLabels
<1>4. pc[p] # "finish" => \A label \in {"install", "bytes0", "length0", "forget", "scan"} :
        pc[p] \in {"unlink", "install", "bytes0"} \/ label \in {"forget", "scan"}
          => LocalsOK(label, m)
  BY <1>1 DEF LocalsOK
<1>5. CASE RemoveChunk(p)
  <2>1. /\ pc[p] = "unlink" /\ UNCHANGED <<sixb, meta, memory, mine, control, sixbTmp>>
    BY <1>5 DEF RemoveChunk
  <2>2. SharedOK'
    BY <1>2, <2>1 DEF SharedOK, memory
  <2>3. CASE DOMAIN chunks # {}
    <3>1. UNCHANGED pc
      BY <1>5, <2>3 DEF RemoveChunk
    <3>2. Goto(p, "unlink")
      BY <2>1, <3>1 DEF Goto, CInv, ControlOK
    <3>3. LocalsOK("unlink", m)
      BY <1>1, <2>1
    <3>4. StepOK(p, "unlink", m)
      BY <1>1, <1>3, <2>1, <2>2, <3>2, <3>3, GotoInCall
    <3> QED
      BY <3>4
  <2>4. CASE DOMAIN chunks = {}
    <3>1. Goto(p, "install")
      BY <1>5, <2>4 DEF RemoveChunk
    <3>2. LocalsOK("install", m)
      BY <1>4, <2>1
    <3>3. StepOK(p, "install", m)
      BY <1>1, <1>3, <2>1, <2>2, <3>1, <3>2, GotoInCall
    <3> QED
      BY <3>3
  <2> QED
    BY <2>3, <2>4
<1>6. CASE InstallChunk(p)
  <2>1. /\ pc[p] = "install" /\ UNCHANGED <<sixb, meta, memory, mine, control, sixbTmp>>
        /\ Goto(p, "bytes0")
    BY <1>6 DEF InstallChunk
  <2>2. SharedOK'
    BY <1>2, <2>1 DEF SharedOK, memory
  <2>3. LocalsOK("bytes0", m)
    BY <1>4, <2>1
  <2>4. StepOK(p, "bytes0", m)
    BY <1>1, <1>3, <2>1, <2>2, <2>3, GotoInCall
  <2> QED
    BY <2>4
<1>7. CASE ReplaceBytes(p)
  <2>1. /\ pc[p] = "bytes0" /\ chunkCache' = [c \in {0} |-> m.file] /\ Goto(p, "length0")
        /\ UNCHANGED <<disk, caches, chunkLen, nextTx, nextChunk, layout, mine, control, sixbTmp>>
    BY <1>7 DEF ReplaceBytes
  <2>2. 0 \in Chunk
    BY StoreAssumption DEF Chunk
  <2>3. m.file \in File(Tx)
    BY <1>1, <2>1 DEF LocalsOK
  <2>4. PartialOn(Chunk, File(Tx), [c \in {0} |-> m.file])
    BY <2>2, <2>3 DEF PartialOn
  <2>5. SharedOK'
    BY <1>2, <2>1, <2>4 DEF SharedOK, disk, caches
  <2>6. LocalsOK("length0", m)
    BY <1>4, <2>1
  <2>7. StepOK(p, "length0", m)
    BY <1>1, <1>3, <2>1, <2>5, <2>6, GotoInCall
  <2> QED
    BY <2>7
<1>8. CASE ReplaceLengths(p)
  <2> DEFINE len == Len(m.file.lines)
  <2>1. /\ pc[p] = "length0" /\ chunkLen' = [c \in {0} |-> len] /\ Goto(p, "forget")
        /\ UNCHANGED <<disk, caches, chunkCache, nextTx, nextChunk, layout, mine, control, sixbTmp>>
    BY <1>8 DEF ReplaceLengths
  <2>2. 0 \in Chunk
    BY StoreAssumption DEF Chunk
  <2>3. m.file.lines \in Seq(Line(Tx))
    BY <1>1, <2>1 DEF LocalsOK, File
  <2>4. len \in Nat
    BY <2>3, LenProperties
  <2> HIDE DEF len
  <2>5. PartialOn(Chunk, Nat, [c \in {0} |-> len])
    BY <2>2, <2>4 DEF PartialOn
  <2>6. SharedOK'
    BY <1>2, <2>1, <2>5 DEF SharedOK, disk, caches
  <2>7. LocalsOK("forget", m)
    BY <1>4, <2>1
  <2>8. StepOK(p, "forget", m)
    BY <1>1, <1>3, <2>1, <2>6, <2>7, GotoInCall
  <2> QED
    BY <2>8
<1>9. CASE ForgetProjection(p)
  <2>1. /\ pc[p] = "unproject" /\ runtime' = None /\ nextChunk' = 1 /\ nextTx' = m.tx
        /\ Goto(p, "scan")
        /\ UNCHANGED <<disk, sixbCache, rowCache, chunkCaches, layout, mine, control, sixbTmp>>
    BY <1>9 DEF ForgetProjection
  <2>2. m.tx \in Nat
    BY <1>1, <2>1 DEF LocalsOK
  <2>3. SharedOK'
    BY <1>2, <2>1, <2>2 DEF SharedOK, CountersOK, disk, chunkCaches
  <2>4. LocalsOK("scan", m)
    BY <1>4, <2>1
  <2>5. StepOK(p, "scan", m)
    BY <1>1, <1>3, <2>1, <2>3, <2>4, GotoInCall
  <2> QED
    BY <2>5
<1>10. CASE FinishCompaction(p)
  <2>1. /\ pc[p] = "finish" /\ meta' = Metadata(m.tx, NextChunkCounter)
        /\ Return(p, "done", None)
        /\ UNCHANGED <<chunks, sixb, memory, turns, sixbTmp>>
    BY <1>10 DEF FinishCompaction
  <2>2. m.tx \in Nat
    BY <1>1, <2>1 DEF LocalsOK
  <2>3. NextChunkCounter \in Nat
    BY <1>2, NextChunkType DEF SharedOK, LInv, LogOK
  <2>4. SharedOK'
    BY <1>2, <2>1, <2>2, <2>3 DEF SharedOK, CountersOK, memory, Metadata
  <2> QED
    BY <1>1, <2>1, <2>4, ReturnFromCall
<1> QED
  BY <1>5, <1>6, <1>7, <1>8, <1>9, <1>10 DEF ReplaceStep

LEMMA LockCInv ==
  ASSUME CInv, NEW p \in Threads, Lock(p)
  PROVE  \E label, m : StepOK(p, label, m)
<1> DEFINE m == mine[p]
           label == IF m.call = "append" THEN "take" ELSE "plan"
<1>1. /\ pc[p] = "lock" /\ writer = None /\ writer' = p /\ layout' = TRUE
      /\ pc' = [pc EXCEPT ![p] = label] /\ mine' = mine
      /\ UNCHANGED <<disk, caches, chunkCaches, nextTx, nextChunk, turns, sixbTmp>>
  BY DEF Lock, Goto
<1>2. /\ DOMAIN m = LocalNames /\ LocalsOK("lock", m) /\ m.call \in roles[p]
      /\ m.call \in {"append", "compact"}
  BY <1>1, Running DEF Inside, LoadLabels, BuildLabels, GetLabels
<1>3. SharedOK'
  BY <1>1 DEF CInv, SharedOK, CountersOK, disk, caches, chunkCaches
<1>4. label \in {"take", "plan"} /\ (label = "take" <=> m.call = "append")
  OBVIOUS
<1>5. Inside(label, m.call) /\ Writing(label, m.call)
  BY <1>2, <1>4 DEF Inside, AppendLabels, CompactLabels, Writing
<1> HIDE DEF label
<1>6. LocalsOK(label, m)
  BY <1>2, <1>4 DEF LocalsOK
<1>7. Moved(p, label, m) /\ calls' \in [Threads -> Nat]
  BY <1>1 DEF Moved, CInv, ControlOK, turns
<1>8. StepOK(p, label, m)
  BY <1>1, <1>2, <1>3, <1>4, <1>5, <1>6, <1>7 DEF StepOK
<1> QED
  BY <1>8

LEMMA BeginCInv ==
  ASSUME CInv, NEW p \in Threads, NEW label, label \in {"lock", "find", "scan"},
         NEW locals, Begin(p, label, locals),
         NEW m, m = Updated(NoLocals, locals),
         m.call \in roles[p], Inside(label, m.call), ~Writing(label, m.call),
         LocalsOK(label, m)
  PROVE  StepOK(p, label, m)
<1>1. /\ pc[p] = "idle" /\ calls[p] > 0
      /\ pc' = [pc EXCEPT ![p] = label] /\ mine' = [mine EXCEPT ![p] = m]
      /\ calls' = [calls EXCEPT ![p] = @ - 1]
      /\ UNCHANGED <<vars, writer, roles, sixbTmp>>
  BY DEF Begin
<1>2. DOMAIN m = LocalNames
  BY NoLocalsNames DEF Updated
<1>3. SharedOK'
  BY <1>1, SharedSame DEF CInv
<1>4. calls' \in [Threads -> Nat]
  BY <1>1 DEF CInv, ControlOK
<1>5. writer # p
  BY <1>1 DEF CInv, ThreadOK, Writing
<1> QED
  BY <1>1, <1>2, <1>3, <1>4, <1>5 DEF StepOK, Moved

LEMMA CallCInv ==
  ASSUME CInv, IsFiles(chunks), NEW p \in Threads, Call(p)
  PROVE  \E label, m : StepOK(p, label, m)
<1>1. ASSUME NEW b \in Batch, NEW mode \in Modes, "append" \in roles[p],
             Begin(p, "lock", [call |-> "append", batch |-> b, mode |-> mode])
      PROVE  \E label, m : StepOK(p, label, m)
  <2> DEFINE m == Updated(NoLocals, [call |-> "append", batch |-> b, mode |-> mode])
  <2>1. /\ m.call = "append" /\ m.batch = b /\ m.may = {}
        /\ m.cache = None /\ m.proj = None /\ m.before = None
    BY DEF Updated, NoLocals
  <2> HIDE DEF m
  <2>2. Inside("lock", "append") /\ ~Writing("lock", "append")
    BY DEF Inside, Writing, AppendLabels
  <2>3. LocalsOK("lock", m)
    BY <2>1 DEF LocalsOK
  <2>4. StepOK(p, "lock", m)
    BY <1>1, <2>1, <2>2, <2>3, BeginCInv DEF m
  <2> QED
    BY <2>4
<1>2. ASSUME NEW id \in Ids, "get" \in roles[p],
             Begin(p, "find", [call |-> "get", id |-> id, may |-> ValuesNow(id)])
      PROVE  \E label, m : StepOK(p, label, m)
  <2> DEFINE may == ValuesNow(id)
             m == Updated(NoLocals, [call |-> "get", id |-> id, may |-> may])
  <2>1. may \subseteq Record \cup {NoRecord}
    <3>1. LiveTable(chunks)[id] \in Record \cup {NoRecord}
      BY LiveTableIs
    <3>2. \A q \in Threads : mine[q].before # None => mine[q].before[id] \in Record \cup {NoRecord}
      BY DEF CInv, ThreadOK, LocalsOK
    <3> QED
      BY <3>1, <3>2 DEF ValuesNow
  <2> HIDE DEF may
  <2>2. /\ m.call = "get" /\ m.id = id /\ m.may = may
        /\ m.cache = None /\ m.proj = None /\ m.before = None
    BY DEF Updated, NoLocals
  <2> HIDE DEF m
  <2>3. Inside("find", "get") /\ ~Writing("find", "get")
    BY DEF Inside, Writing, GetLabels
  <2>4. LocalsOK("find", m)
    BY <2>1, <2>2 DEF LocalsOK
  <2>5. StepOK(p, "find", m)
    BY <1>2, <2>2, <2>3, <2>4, BeginCInv DEF m, may
  <2> QED
    BY <2>5
<1>3. ASSUME "rebuild" \in roles[p], Begin(p, "scan", [call |-> "rebuild"])
      PROVE  \E label, m : StepOK(p, label, m)
  <2> DEFINE m == Updated(NoLocals, [call |-> "rebuild"])
  <2>1. /\ m.call = "rebuild" /\ m.may = {}
        /\ m.cache = None /\ m.proj = None /\ m.before = None
    BY DEF Updated, NoLocals
  <2> HIDE DEF m
  <2>2. Inside("scan", "rebuild") /\ ~Writing("scan", "rebuild")
    BY DEF Inside, Writing, BuildLabels
  <2>3. LocalsOK("scan", m)
    BY <2>1 DEF LocalsOK
  <2>4. StepOK(p, "scan", m)
    BY <1>3, <2>1, <2>2, <2>3, BeginCInv DEF m
  <2> QED
    BY <2>4
<1>4. ASSUME "compact" \in roles[p], Begin(p, "lock", [call |-> "compact"])
      PROVE  \E label, m : StepOK(p, label, m)
  <2> DEFINE m == Updated(NoLocals, [call |-> "compact"])
  <2>1. /\ m.call = "compact" /\ m.may = {}
        /\ m.cache = None /\ m.proj = None /\ m.before = None
    BY DEF Updated, NoLocals
  <2> HIDE DEF m
  <2>2. Inside("lock", "compact") /\ ~Writing("lock", "compact")
    BY DEF Inside, Writing, CompactLabels
  <2>3. LocalsOK("lock", m)
    BY <2>1 DEF LocalsOK
  <2>4. StepOK(p, "lock", m)
    BY <1>4, <2>1, <2>2, <2>3, BeginCInv DEF m
  <2> QED
    BY <2>4
<1> QED
  BY <1>1, <1>2, <1>3, <1>4 DEF Call

(* Every step of a thread keeps the types, as long as the files keep theirs. *)
LEMMA StepMoves ==
  ASSUME CInv, LInv, NEW p \in Threads, Call(p) \/ Step(p)
  PROVE  WriteLines(p) \/ \E label, m : StepOK(p, label, m)
<1>1. IsFiles(chunks)
  BY DEF LInv, LogOK
<1>2. CASE Call(p)
  BY <1>1, <1>2, CallCInv
<1>3. CASE Lock(p)
  BY <1>3, LockCInv
<1>4. CASE LoadStep(p)
  BY <1>4, LoadCInv
<1>5. CASE BuildStep(p)
  BY <1>1, <1>5, BuildCInv
<1>6. CASE AppendStep(p) /\ ~WriteLines(p)
  <2>1. CASE Take(p) \/ TakeSnapshot(p)
    BY <2>1, TakeCInv
  <2>2. CASE Validate(p)
    BY <1>1, <2>2, ValidateCInv
  <2>3. CASE ChooseTarget(p)
    BY <1>1, <2>3, TargetCInv
  <2>4. CASE Apply(p)
    BY <2>4, ApplyCInv
  <2>5. CASE DurableStep(p)
    BY <2>5, DurableCInv
  <2>6. CASE ForgetSnapshot(p)
    BY <2>6, ForgetCInv
  <2> QED
    BY <1>6, <2>1, <2>2, <2>3, <2>4, <2>5, <2>6 DEF AppendStep, DurableStep
<1>7. CASE GetStep(p)
  BY <1>1, <1>7, GetCInv
<1>8. CASE CompactStep(p)
  <2>1. CASE PlanCompaction(p)
    BY <2>1, PlanCInv
  <2>2. CASE ReplaceStep(p)
    BY <2>2, ReplaceCInv
  <2> QED
    BY <1>8, <2>1, <2>2 DEF CompactStep, ReplaceStep
<1> QED
  BY <1>2, <1>3, <1>4, <1>5, <1>6, <1>7, <1>8 DEF Step

LEMMA StepTypes ==
  ASSUME CInv, LInv, IsFiles(chunks'), NEW p \in Threads, Call(p) \/ Step(p)
  PROVE  CInv'
<1>1. CASE WriteLines(p)
  BY <1>1, WriteLinesCInv DEF LInv, LogOK
<1>2. ASSUME NEW label, NEW m, StepOK(p, label, m) PROVE CInv'
  BY <1>2, StepCInv
<1> QED
  BY <1>1, <1>2, StepMoves

(* What the three ways to change a thread's locals do. *)
LEMMA GotoIs ==
  ASSUME CInv, NEW p \in Threads, NEW label, Goto(p, label)
  PROVE  pc'[p] = label
BY DEF Goto, CInv, ControlOK

LEMMA SetIs ==
  ASSUME CInv, NEW p \in Threads, NEW locals, Set(p, locals)
  PROVE  /\ \A x \in LocalNames :
              mine'[p][x] = IF x \in DOMAIN locals THEN locals[x] ELSE mine[p][x]
         /\ \A q \in Threads \ {p} : mine'[q] = mine[q]
<1>1. DOMAIN mine = Threads /\ DOMAIN mine[p] = LocalNames
  BY DEF CInv, ControlOK, ThreadOK
<1>2. mine'[p] = Updated(mine[p], locals) /\ \A q \in Threads \ {p} : mine'[q] = mine[q]
  BY <1>1 DEF Set
<1> QED
  BY <1>1, <1>2 DEF Updated

LEMMA AnsweredIs ==
  ASSUME CInv, NEW p \in Threads, NEW outcome, NEW answer, Answered(p, outcome, answer)
  PROVE  /\ pc'[p] = "idle"
         /\ mine'[p].call = mine[p].call /\ mine'[p].may = mine[p].may
         /\ mine'[p].outcome = outcome /\ mine'[p].answer = answer
<1>1. DOMAIN mine = Threads /\ DOMAIN pc = Threads
  BY DEF CInv, ControlOK
<1>2. mine'[p] = AnswerLocals(p, outcome, answer) /\ pc'[p] = "idle"
  BY <1>1 DEF Answered, AnswerLocals
<1> QED
  BY <1>2, AnswerLocalsAre

(* No step of a call changes which call it is. *)
LEMMA CallStays ==
  ASSUME CInv, NEW p \in Threads, Step(p)
  PROVE  mine'[p].call = mine[p].call
<1>1. ASSUME NEW locals, Set(p, locals), "call" \notin DOMAIN locals
      PROVE  mine'[p].call = mine[p].call
  BY <1>1, SetIs DEF LocalNames
<1>2. ASSUME NEW outcome, NEW answer, Answered(p, outcome, answer)
      PROVE  mine'[p].call = mine[p].call
  BY <1>2, AnsweredIs
<1>3. CASE UNCHANGED mine
  BY <1>3
<1>4. CASE Lock(p)
  BY <1>4 DEF Lock
<1>5. CASE LoadStep(p)
  BY <1>1, <1>3, <1>5 DEF LoadStep, LoadRuntime, LoadCached, ReadSixb, CompareHash,
                          RememberSnapshot
<1>6. CASE BuildStep(p)
  BY <1>1, <1>2, <1>3, <1>6 DEF BuildStep, Scan, RememberRecords, WriteTmp, RenameTmp,
                                RememberBuilt, RememberProjection, Return
<1>7. CASE AppendStep(p)
  <2>1. CASE Take(p) \/ TakeSnapshot(p) \/ Validate(p)
    BY <1>1, <1>2, <1>3, <2>1 DEF Take, TakeSnapshot, Validate, Return
  <2>2. CASE ChooseTarget(p) \/ Apply(p)
    BY <1>1, <1>2, <1>3, <2>2 DEF ChooseTarget, Apply, Return
  <2>3. CASE WriteLines(p)
    <3>1. PICK after : mine' = Witnessed(after, [mine EXCEPT ![p].before = LiveTable(chunks)])
      BY <2>3 DEF WriteLines
    <3>2. DOMAIN mine = Threads /\ DOMAIN mine[p] = LocalNames
      BY DEF CInv, ControlOK, ThreadOK
    <3> DEFINE locals == [mine EXCEPT ![p].before = LiveTable(chunks)]
               may == locals[p].may \cup {LiveTable(after)[locals[p].id]}
    <3>3. locals[p] = [mine[p] EXCEPT !.before = LiveTable(chunks)]
      BY <3>2
    <3>4. DOMAIN locals[p] = LocalNames /\ locals[p].call = mine[p].call
      BY <3>2, <3>3 DEF LocalNames
    <3> HIDE DEF locals
    <3>5. mine'[p] = locals[p] \/ mine'[p] = [locals[p] EXCEPT !.may = may]
      BY <3>1 DEF Witnessed, locals
    <3> HIDE DEF may
    <3> QED
      BY <3>4, <3>5 DEF LocalNames
  <2>4. CASE UpdateBytes(p) \/ UpdateLength(p) \/ ForgetSnapshot(p) \/ Publish(p)
               \/ UpdateRecords(p) \/ Count(p)
    BY SMTT(30), <1>2, <1>3, <2>4 DEF UpdateBytes, UpdateLength, ForgetSnapshot, Publish, UpdateRecords,
                            Count, Return
  <2> QED
    BY <1>7, <2>1, <2>2, <2>3, <2>4 DEF AppendStep
<1>8. CASE GetStep(p)
  BY <1>1, <1>2, <1>3, <1>8 DEF GetStep, Find, FindInSnapshot, ReadRecord, ReadChunk,
                                OpenChunk, RememberLength, RememberBytes, Decode, Return
<1>9. CASE CompactStep(p)
  BY <1>1, <1>2, <1>3, <1>9 DEF CompactStep, PlanCompaction, RemoveChunk, InstallChunk,
                                ReplaceBytes, ReplaceLengths, ForgetProjection,
                                FinishCompaction, Return
<1> QED
  BY <1>4, <1>5, <1>6, <1>7, <1>8, <1>9 DEF Step

-----------------------------------------------------------------------------
(* The log through every step.                                             *)

(* A step that leaves the files and the counters alone. *)
LEMMA StepLInv ==
  ASSUME CInv, LInv, NEW p \in Threads, NEW label, NEW m, StepOK(p, label, m),
         UNCHANGED <<chunks, meta, nextTx, nextChunk>>,
         writer = p /\ pc[p] \in Busy => Writing(label, m.call) /\ label \in Busy,
         writer = p /\ pc[p] \in {"unlink", "install"} => label \in {"unlink", "install"},
         Writing(label, m.call) /\ m.call = "append" => AppendPhase(label, m),
         Writing(label, m.call) /\ m.call = "compact" => CompactPhase(label, m)
  PROVE  LInv'
<1>1. /\ pc'[p] = label /\ mine'[p] = m
      /\ \A q \in Threads \ {p} : pc'[q] = pc[q] /\ mine'[q] = mine[q]
  BY MovedIs DEF StepOK, CInv
<1>2. /\ writer' = IF Writing(label, m.call) THEN p ELSE IF writer = p THEN None ELSE writer
      /\ Writing(label, m.call) => writer \in {None, p}
  BY DEF StepOK
<1>3. p # None /\ \A q \in Threads : q # None
  BY ThreadsAssumption
<1>4. LogOK(chunks')
  BY DEF LInv
<1>5. ASSUME \A q \in Threads : writer' = q => pc'[q] \notin {"unlink", "install"}
      PROVE  Dense(chunks')
  <2>1. ASSUME NEW q \in Threads, writer = q PROVE pc[q] \notin {"unlink", "install"}
    <3>1. CASE q = p
      <4>1. CASE writer' = p
        BY <1>1, <1>5, <2>1, <3>1, <4>1
      <4>2. CASE writer' # p
        BY <1>2, <2>1, <3>1, <4>2 DEF Busy
      <4> QED
        BY <4>1, <4>2
    <3>2. CASE q # p
      BY <1>1, <1>2, <1>3, <1>5, <2>1, <3>2
    <3> QED
      BY <3>1, <3>2
  <2> QED
    BY <2>1 DEF LInv
<1>6. ASSUME \A q \in Threads : writer' = q => pc'[q] \notin Busy
      PROVE  CountersLog'
  <2>1. ASSUME NEW q \in Threads, writer = q PROVE pc[q] \notin Busy
    <3>1. CASE q = p
      <4>1. CASE writer' = p
        BY <1>1, <1>6, <2>1, <3>1, <4>1
      <4>2. CASE writer' # p
        BY <1>2, <2>1, <3>1, <4>2
      <4> QED
        BY <4>1, <4>2
    <3>2. CASE q # p
      BY <1>1, <1>2, <1>3, <1>6, <2>1, <3>2
    <3> QED
      BY <3>1, <3>2
  <2>2. CountersLog
    BY <2>1 DEF LInv
  <2> QED
    BY <2>2 DEF CountersLog
<1>7. NextTxId' = NextTxId
  BY DEF NextTxId, RecoveredTx
<1>8. ASSUME NEW q \in Threads, writer' = q PROVE Phase(q)'
  <2>1. CASE q = p
    <3>1. Writing(label, m.call)
      BY <1>2, <1>3, <1>8, <2>1
    <3>2. m.call = "append" => AppendPhase(label, m)'
      BY <1>7, <3>1 DEF AppendPhase, Placed, Usable, Follows
    <3>3. m.call = "compact" => CompactPhase(label, m)'
      BY <3>1 DEF CompactPhase, Written0
    <3> QED
      BY <1>1, <2>1, <3>2, <3>3 DEF Phase
  <2>2. CASE q # p
    <3>1. writer = q
      BY <1>2, <1>3, <1>8, <2>2
    <3>2. Phase(q) /\ pc'[q] = pc[q] /\ mine'[q] = mine[q]
      BY <1>1, <2>2, <3>1 DEF LInv
    <3> QED
      BY <1>7, <3>2 DEF Phase, AppendPhase, CompactPhase, Placed, Usable, Follows, Written0
  <2> QED
    BY <2>1, <2>2
<1> QED
  BY <1>4, <1>5, <1>6, <1>8 DEF LInv

LEMMA SearchMoves ==
  ASSUME CInv, NEW p \in Threads, LoadStep(p) \/ BuildStep(p)
  PROVE  /\ pc[p] \in LoadLabels \cup BuildLabels
         /\ pc'[p] \in LoadLabels \cup BuildLabels \cup {"remove", "entry", "finish", "idle"}
         /\ pc'[p] # "idle" => mine'[p].batch = mine[p].batch
         /\ UNCHANGED <<chunks, meta, nextTx, nextChunk>>
<1>1. ASSUME NEW locals, Set(p, locals), "batch" \notin DOMAIN locals
      PROVE  mine'[p].batch = mine[p].batch
  BY <1>1, SetIs DEF LocalNames
<1>2. ASSUME NEW outcome, NEW answer, Answered(p, outcome, answer)
      PROVE  pc'[p] = "idle"
  BY <1>2, AnsweredIs
<1>3. ASSUME NEW label, Goto(p, label)
      PROVE  pc'[p] = label
  BY <1>3, GotoIs
<1>4. CASE LoadStep(p)
  BY <1>1, <1>3, <1>4 DEF LoadStep, LoadRuntime, LoadCached, ReadSixb, CompareHash,
                          RememberSnapshot, Loaded, LoadLabels, BuildLabels,
                          vars, disk, memory, counters
<1>5. CASE BuildStep(p)
  BY <1>1, <1>2, <1>3, <1>5 DEF BuildStep, Scan, RememberRecords, WriteTmp, RenameTmp,
                                RememberBuilt, RememberProjection, Return, LoadLabels,
                                BuildLabels, vars, disk, memory, counters
<1> QED
  BY <1>4, <1>5

LEMMA SearchLInv ==
  ASSUME CInv, LInv, NEW p \in Threads, LoadStep(p) \/ BuildStep(p)
  PROVE  LInv'
<1>1. PICK label, m : StepOK(p, label, m)
  BY LoadCInv, BuildCInv DEF LInv, LogOK
<1>2. pc'[p] = label /\ mine'[p] = m
  BY <1>1, MovedIs DEF StepOK, CInv
<1>3. mine'[p].call = mine[p].call
  BY CallStays DEF Step
<1>4. /\ pc[p] \in LoadLabels \cup BuildLabels
      /\ label \in LoadLabels \cup BuildLabels \cup {"remove", "entry", "finish", "idle"}
      /\ label # "idle" => m.batch = mine[p].batch
      /\ UNCHANGED <<chunks, meta, nextTx, nextChunk>>
  BY <1>2, SearchMoves
<1>5. pc[p] \notin Busy /\ pc[p] \notin {"idle", "lock"}
  BY <1>4 DEF Busy, LoadLabels, BuildLabels
<1>6. ASSUME Writing(label, m.call)
      PROVE  writer = p /\ label # "idle"
  BY <1>2, <1>3, <1>5, <1>6, Running DEF Writing
<1>7. ASSUME Writing(label, m.call), m.call = "append"
      PROVE  AppendPhase(label, m)
  <2>1. AppendPhase(pc[p], mine[p]) /\ m.batch = mine[p].batch
    BY <1>2, <1>3, <1>4, <1>6, <1>7 DEF LInv, Phase
  <2>2. NextTxId + Len(m.batch) <= MaxTx + 1
    BY <1>4, <2>1 DEF AppendPhase
  <2> QED
    BY <1>4, <1>6, <1>7, <2>2 DEF AppendPhase, LoadLabels, BuildLabels
<1>8. CompactPhase(label, m)
  BY <1>4 DEF CompactPhase, LoadLabels, BuildLabels
<1>9. pc[p] \notin {"unlink", "install"}
  BY <1>5 DEF Busy
<1> QED
  BY <1>1, <1>4, <1>5, <1>7, <1>8, <1>9, StepLInv

LEMMA GetIs ==
  ASSUME CInv, NEW p \in Threads, GetStep(p)
  PROVE  pc[p] \in GetLabels /\ mine[p].call = "get" /\ writer # p
<1>1. pc[p] \in GetLabels /\ pc[p] \notin {"idle", "lock"}
  BY DEF GetStep, Find, FindInSnapshot, ReadRecord, ReadChunk, OpenChunk, RememberLength,
         RememberBytes, Decode, GetLabels
<1>2. mine[p].call = "get"
  BY <1>1, Running DEF Inside, GetLabels, LoadLabels, BuildLabels, AppendLabels, CompactLabels
<1> QED
  BY <1>1, <1>2, Running DEF Writing

LEMMA GetLInv ==
  ASSUME CInv, LInv, NEW p \in Threads, GetStep(p)
  PROVE  LInv'
<1>1. PICK label, m : StepOK(p, label, m)
  BY GetCInv DEF LInv, LogOK
<1>2. pc'[p] = label /\ mine'[p] = m
  BY <1>1, MovedIs DEF StepOK, CInv
<1>3. m.call = "get" /\ writer # p
  BY <1>2, CallStays, GetIs DEF Step
<1>4. UNCHANGED <<chunks, meta, nextTx, nextChunk>>
  BY DEF GetStep, Find, FindInSnapshot, ReadRecord, ReadChunk, OpenChunk, RememberLength,
         RememberBytes, Decode, vars, disk, memory
<1> QED
  BY <1>1, <1>3, <1>4, StepLInv DEF Writing

LEMMA CallLInv ==
  ASSUME CInv, LInv, NEW p \in Threads, Call(p)
  PROVE  LInv'
<1>1. PICK label, m : StepOK(p, label, m)
  BY CallCInv DEF LInv, LogOK
<1>2. pc[p] = "idle" /\ writer' = writer /\ UNCHANGED <<chunks, meta, nextTx, nextChunk>>
  BY DEF Call, Begin, vars, disk, memory
<1>3. writer # p
  BY <1>2 DEF CInv, ThreadOK, Writing
<1>4. ~Writing(label, m.call)
  BY <1>1, <1>2, <1>3 DEF StepOK
<1> QED
  BY <1>1, <1>2, <1>3, <1>4, StepLInv

LEMMA LockLInv ==
  ASSUME CInv, LInv, NEW p \in Threads, Lock(p)
  PROVE  LInv'
<1>1. PICK label, m : StepOK(p, label, m)
  BY LockCInv
<1>2. pc'[p] = label /\ mine'[p] = m
  BY <1>1, MovedIs DEF StepOK, CInv
<1>3. /\ pc[p] = "lock" /\ writer = None /\ WithinMaxTx(p)
      /\ Goto(p, IF mine[p].call = "append" THEN "take" ELSE "plan")
      /\ mine' = mine /\ UNCHANGED <<chunks, meta, nextTx, nextChunk>>
  BY DEF Lock, disk
<1>4. m = mine[p] /\ label = IF m.call = "append" THEN "take" ELSE "plan"
  BY <1>2, <1>3, GotoIs
<1>5. m.call = "append" => AppendPhase(label, m)
  BY <1>3, <1>4 DEF AppendPhase, WithinMaxTx, LoadLabels, BuildLabels
<1>6. m.call = "compact" => CompactPhase(label, m)
  BY <1>3, <1>4 DEF CompactPhase, WithinMaxTx
<1>7. writer # p
  BY <1>3, ThreadsAssumption
<1> QED
  BY <1>1, <1>3, <1>5, <1>6, <1>7, StepLInv

LEMMA TakeLInv ==
  ASSUME CInv, LInv, NEW p \in Threads, Take(p) \/ TakeSnapshot(p)
  PROVE  LInv'
<1>1. PICK label, m : StepOK(p, label, m)
  BY TakeCInv
<1>2. pc'[p] = label /\ mine'[p] = m
  BY <1>1, MovedIs DEF StepOK, CInv
<1>3. pc[p] \in {"take", "remove"} /\ mine[p].call = "append" /\ writer = p
  BY AppendIs DEF Take, TakeSnapshot, AppendLabels
<1>4. m.call = "append"
  BY <1>2, <1>3, CallStays DEF Step, AppendStep
<1>5. /\ label \in {"validate", "load"} /\ m.batch = mine[p].batch
      /\ UNCHANGED <<chunks, meta, nextTx, nextChunk>>
  <2>1. ASSUME NEW locals, Set(p, locals), "batch" \notin DOMAIN locals
        PROVE  mine'[p].batch = mine[p].batch
    BY <2>1, SetIs DEF LocalNames
  <2>2. ASSUME NEW l, Goto(p, l) PROVE pc'[p] = l
    BY <2>2, GotoIs
  <2> QED
    BY <1>2, <2>1, <2>2 DEF Take, TakeSnapshot, disk, counters
<1>6. NextTxId + Len(m.batch) <= MaxTx + 1
  BY <1>3, <1>5 DEF LInv, Phase, AppendPhase
<1>7. AppendPhase(label, m)
  BY <1>5, <1>6 DEF AppendPhase
<1> QED
  BY <1>1, <1>3, <1>4, <1>5, <1>7, StepLInv DEF Busy

LEMMA ApplyLInv ==
  ASSUME CInv, LInv, NEW p \in Threads, Apply(p)
  PROVE  LInv'
<1>1. PICK label, m : StepOK(p, label, m)
  BY ApplyCInv
<1>2. pc'[p] = label /\ mine'[p] = m
  BY <1>1, MovedIs DEF StepOK, CInv
<1>3. pc[p] = "old" /\ mine[p].call = "append" /\ writer = p
  BY AppendIs DEF Apply, AppendLabels
<1>4. label = "write" /\ UNCHANGED <<chunks, meta, nextTx, nextChunk>>
  BY <1>2, GotoIs DEF Apply, vars, disk, memory
<1>5. m.call = "append" /\ m.batch = mine[p].batch /\ m.tx = mine[p].tx
      /\ m.target = mine[p].target
  <2>1. PICK proj : Set(p, [proj |-> proj])
    BY DEF Apply
  <2> QED
    BY <1>2, <1>3, <2>1, SetIs DEF LocalNames
<1>6. AppendPhase("old", mine[p])
  BY <1>3 DEF LInv, Phase
<1>7. AppendPhase(label, m)
  BY <1>4, <1>5, <1>6 DEF AppendPhase, LoadLabels, BuildLabels
<1> QED
  BY <1>1, <1>3, <1>4, <1>5, <1>7, StepLInv DEF Busy

LEMMA PlanLInv ==
  ASSUME CInv, LInv, NEW p \in Threads, PlanCompaction(p)
  PROVE  LInv'
<1>1. PICK label, m : StepOK(p, label, m)
  BY PlanCInv
<1>2. pc'[p] = label /\ mine'[p] = m
  BY <1>1, MovedIs DEF StepOK, CInv
<1>3. pc[p] = "plan" /\ mine[p].call = "compact" /\ writer = p
  BY CompactIs DEF PlanCompaction, CompactLabels
<1>4. m.call = "compact"
  BY <1>2, <1>3, CallStays DEF Step, CompactStep
<1>5. UNCHANGED <<chunks, meta, nextTx, nextChunk>>
  BY DEF PlanCompaction, vars, disk, memory
<1>6. PICK order \in LiveOrders :
        /\ Set(p, [file |-> Compacted(order), tx |-> DiscoveredTx(chunks) + Len(order)])
        /\ Goto(p, "unlink")
  BY DEF PlanCompaction
<1>7. label = "unlink" /\ m.file = Compacted(order) /\ m.tx = DiscoveredTx(chunks) + Len(order)
  BY <1>2, <1>6, GotoIs, SetIs DEF LocalNames
<1>8. DiscoveredTx(chunks) + Cardinality(DOMAIN LiveRecords(chunks)) <= MaxTx + 1
  BY <1>3 DEF LInv, Phase, CompactPhase
<1>9. IsFiles(chunks) /\ Whole(chunks)
  BY DEF LInv, LogOK
<1> DEFINE after == [c \in {0} |-> Compacted(order)]
<1>10. /\ LogOK(after) /\ Dense(after) /\ Size(after) = 1
      /\ TxBelow(after, DiscoveredTx(chunks) + Len(order))
  BY <1>8, <1>9, CompactedWhole DEF LogOK
<1>11. after = [c \in {0} |-> m.file]
  BY <1>7
<1> HIDE DEF after
<1>12. Written0(m)
  BY <1>7, <1>10, <1>11 DEF Written0
<1>13. CompactPhase(label, m)
  BY <1>7, <1>12 DEF CompactPhase
<1> QED
  BY <1>1, <1>3, <1>4, <1>5, <1>13, StepLInv DEF Busy

(* A step of the writer that changes the files or the counters. *)
LEMMA WriterLInv ==
  ASSUME CInv, NEW p \in Threads, writer' = p,
         LogOK(chunks'),
         pc'[p] \notin {"unlink", "install"} => Dense(chunks'),
         pc'[p] \notin Busy => CountersLog',
         Phase(p)'
  PROVE  LInv'
BY DEF LInv

LEMMA FreeLInv ==
  ASSUME writer' = None, LogOK(chunks'), Dense(chunks'), CountersLog'
  PROVE  LInv'
BY ThreadsAssumption DEF LInv

(* What the invariant says of the files and counters when p is the writer. *)
LEMMA WriterFinds ==
  ASSUME LInv, NEW p \in Threads, writer = p
  PROVE  /\ LogOK(chunks) /\ Phase(p)
         /\ pc[p] \notin {"unlink", "install"} => Dense(chunks)
         /\ pc[p] \notin Busy => CountersLog
BY DEF LInv

LEMMA NextTxIsAbove ==
  ASSUME LogOK(chunks), SharedOK, CountersLog
  PROVE  TxBelow(chunks, NextTxId)
<1>1. TxBelow(chunks, RecoveredTx)
  BY RecoveredTxAbove DEF LogOK, SharedOK
<1> QED
  BY <1>1 DEF NextTxId, CountersLog

LEMMA ValidateLInv ==
  ASSUME CInv, LInv, NEW p \in Threads, Validate(p)
  PROVE  LInv'
<1> DEFINE m == mine[p]
<1>1. pc[p] = "validate" /\ m.call = "append" /\ writer = p
  BY AppendIs DEF Validate, AppendLabels
<1>2. LogOK(chunks) /\ Dense(chunks) /\ CountersLog /\ AppendPhase("validate", m) /\ SharedOK
  BY <1>1, WriterFinds DEF Busy, Phase, CInv
<1>3. /\ nextTx' = NextTxId
      /\ UNCHANGED <<chunks, meta, nextChunk>>
  BY DEF Validate, disk
<1>4. TxBelow(chunks, NextTxId)
  BY <1>2, NextTxIsAbove
<1>5. CountersLog'
  BY <1>2, <1>3, <1>4 DEF CountersLog
<1>6. LogOK(chunks') /\ Dense(chunks')
  BY <1>2, <1>3
<1>7. CASE Accepts(m.proj, m.batch, m.mode)
  <2>1. Set(p, [tx |-> NextTxId]) /\ Goto(p, "target") /\ UNCHANGED writer
    BY <1>7 DEF Validate
  <2>2. /\ mine'[p].tx = NextTxId /\ mine'[p].batch = m.batch /\ mine'[p].call = m.call
        /\ pc'[p] = "target"
    BY <2>1, GotoIs, SetIs DEF LocalNames
  <2>3. DistinctIds(m.batch) /\ NextTxId + Len(m.batch) <= MaxTx + 1
    BY <1>2, <1>7 DEF Accepts, AppendPhase
  <2>4. Phase(p)'
    BY <1>1, <1>3, <1>4, <2>2, <2>3 DEF Phase, AppendPhase, LoadLabels, BuildLabels
  <2> QED
    BY <1>1, <1>5, <1>6, <2>1, <2>4, WriterLInv
<1>8. CASE ~Accepts(m.proj, m.batch, m.mode)
  <2>1. writer' = None
    BY <1>1, <1>8 DEF Validate, Return
  <2> QED
    BY <1>5, <1>6, <2>1, FreeLInv
<1> QED
  BY <1>7, <1>8

(* The chunk counter of a writer counts the chunks. *)
LEMMA CounterIsSize ==
  ASSUME IsFiles(chunks), CountersLog, CountersOK(meta, nextTx, nextChunk)
  PROVE  NextChunkCounter = Size(chunks) /\ Size(chunks) \in Nat
<1>1. Size(chunks) \in Nat
  BY SizeType
<1>2. nextChunk = None => RecoveredChunk = Size(chunks)
  <2> SUFFICES ASSUME nextChunk = None PROVE RecoveredChunk = Size(chunks)
    OBVIOUS
  <2>1. RecoveredChunk = IF meta = None THEN Size(chunks) ELSE Highest(meta.chunk, Size(chunks))
    BY DEF RecoveredChunk, Size
  <2>2. CASE meta = None
    BY <2>1, <2>2
  <2>3. CASE meta # None
    <3>1. meta.chunk <= Size(chunks) /\ meta.chunk \in Nat
      BY <2>3 DEF CountersLog, CountersOK
    <3> QED
      BY <1>1, <2>1, <2>3, <3>1 DEF Highest
  <2> QED
    BY <2>2, <2>3
<1> QED
  BY <1>1, <1>2 DEF NextChunkCounter, CountersLog

LEMMA TargetPlaced ==
  ASSUME IsFiles(chunks), Dense(chunks), CountersLog, CountersOK(meta, nextTx, nextChunk),
         NEW n \in Nat, NEW target, target = Target(n), Usable(target)
  PROVE  Placed(target)
<1> DEFINE size == Size(chunks)
           current == size - 1
           exists  == size > 0 /\ current \in DOMAIN chunks
           len     == IF current \in DOMAIN chunkLen THEN chunkLen[current]
                                                     ELSE Len(chunks[current].lines)
           fits    == exists /\ len + n <= ChunkLimit
<1>1. NextChunkCounter = size /\ size \in Nat
  BY CounterIsSize
<1>2. DOMAIN chunks = 0..(size - 1)
  BY DEF Dense
<1>3. /\ target.chunk = (IF fits THEN current ELSE size)
      /\ target.isNew = ~fits
      /\ target.next = (IF fits THEN size ELSE size + 1)
  <2> HIDE DEF size
  <2>1. target = TargetFrom(size, chunkLen, n)
    BY <1>1 DEF Target
  <2> QED
    BY <2>1 DEF TargetFrom
<1>5. fits => target.chunk = current /\ target.next = size /\ current \in DOMAIN chunks
  BY <1>3
<1>6. ~fits => target.chunk = size /\ target.next = size + 1
  BY <1>3
<1>7. CASE fits
  <2>1. Follows(target)
    BY <1>1, <1>2, <1>5, <1>7 DEF Follows
  <2> QED
    BY <1>3, <1>5, <1>7, <2>1 DEF Placed
<1>8. CASE ~fits
  <2>1. Follows(target)
    BY <1>1, <1>2, <1>6, <1>8 DEF Follows
  <2>2. target.isNew = TRUE
    BY <1>3, <1>8
  <2>3. target.chunk \notin DOMAIN chunks
    BY <1>1, <1>2, <1>6, <1>8
  <2> QED
    BY <2>1, <2>2, <2>3 DEF Placed
<1> QED
  BY <1>7, <1>8

LEMMA TargetLInv ==
  ASSUME CInv, LInv, NEW p \in Threads, ChooseTarget(p)
  PROVE  LInv'
<1> DEFINE m == mine[p]
           target == Target(Len(m.batch))
<1>1. pc[p] = "target" /\ m.call = "append" /\ writer = p /\ Len(m.batch) \in Nat
  BY AppendIs DEF ChooseTarget, AppendLabels
<1>2. LogOK(chunks) /\ Dense(chunks) /\ CountersLog /\ AppendPhase("target", m) /\ SharedOK
  BY <1>1, WriterFinds DEF Busy, Phase, CInv
<1>3. nextChunk' = NextChunkCounter /\ UNCHANGED <<chunks, meta, nextTx>>
  BY DEF ChooseTarget, disk
<1>4. NextChunkCounter = Size(chunks) /\ Size(chunks) \in Nat
  BY <1>2, CounterIsSize DEF LogOK, SharedOK
<1>5. CountersLog'
  <2>1. nextChunk' = Size(chunks') /\ nextChunk' # None
    BY <1>3, <1>4, ThreadsAssumption
  <2> QED
    BY <1>2, <1>3, <2>1 DEF CountersLog
<1>6. LogOK(chunks') /\ Dense(chunks')
  BY <1>2, <1>3
<1>7. CASE Usable(target)
  <2>1. Set(p, [target |-> target]) /\ Goto(p, "old") /\ UNCHANGED writer
    BY <1>7 DEF ChooseTarget
  <2>2. Placed(target)
    BY <1>1, <1>2, <1>7, TargetPlaced DEF LogOK, SharedOK
  <2>3. PICK t : t = target
    OBVIOUS
  <2> HIDE DEF target
  <2>4. /\ mine'[p].target = t /\ mine'[p].tx = m.tx /\ mine'[p].batch = m.batch
        /\ mine'[p].call = m.call /\ pc'[p] = "old"
    BY <2>1, <2>3, GotoIs, SetIs DEF LocalNames
  <2>5. Placed(t)'
    BY <1>3, <2>2, <2>3 DEF Placed, Usable, Follows
  <2>6. Phase(p)'
    BY <1>1, <1>2, <1>3, <2>4, <2>5 DEF Phase, AppendPhase, LoadLabels, BuildLabels
  <2> QED
    BY <1>1, <1>5, <1>6, <2>1, <2>6, WriterLInv
<1>8. CASE ~Usable(target)
  <2>1. writer' = None
    BY <1>1, <1>8 DEF ChooseTarget, Return
  <2> QED
    BY <1>5, <1>6, <2>1, FreeLInv
<1> QED
  BY <1>7, <1>8

(* The target with the offset and the lengths of the files. *)
Ideal(target) ==
  [chunk |-> target.chunk, isNew |-> target.isNew, next |-> target.next,
   offset |-> IF target.isNew THEN 0 ELSE Len(chunks[target.chunk].lines), lens |-> NoRows]

LEMMA IdealTarget ==
  ASSUME NEW target, Placed(target), target.isNew \in BOOLEAN,
         target.chunk \in Nat, target.next \in Nat
  PROVE  /\ IsTarget(Ideal(target)) /\ Usable(Ideal(target)) /\ Follows(Ideal(target))
         /\ \A head, lines : Extended(Ideal(target), head, lines) = Extended(target, head, lines)
<1>1. LensOK(NoRows, chunks)
  BY NoRowsType DEF LensOK
<1> QED
  BY <1>1 DEF Ideal, IsTarget, Placed, Usable, Follows, Extended

(* The batch of an append follows all other lines, and its tx ids all others. *)
LEMMA BatchFits ==
  ASSUME CInv, LInv, NEW p \in Threads, pc[p] \in {"old", "write"}, NEW m, m = mine[p],
         NEW new, new = Extended(m.target, "whole", EncodeBatch(m.batch, m.tx)),
         NEW ptr,
         ptr = [j \in DOMAIN m.batch |-> <<m.target.chunk, Ideal(m.target).offset + j>>]
  PROVE  /\ m.call = "append" /\ writer = p
         /\ m.batch \in Seq(Operation) /\ DistinctIds(m.batch)
         /\ m.tx \in Nat /\ m.tx + Len(m.batch) <= MaxTx + 1
         /\ IsFiles(new) /\ Whole(new)
         /\ Dense(new) /\ Size(new) = m.target.next
         /\ Appended(chunks, new, m.batch, m.tx, ptr)
         /\ TxOrdered(new) /\ TxBelow(new, m.tx + Len(m.batch))
<1>1. PICK label, target : label = pc[p] /\ target = m.target
  OBVIOUS
<1>2. /\ label \in {"old", "write"} /\ m.call = "append" /\ writer = p /\ LocalsOK(label, m)
      /\ m.batch \in Seq(Operation) /\ Len(m.batch) \in Nat
  BY <1>1, AppendIs DEF AppendLabels
<1>3. LogOK(chunks) /\ AppendPhase(label, m)
  BY <1>1, <1>2, WriterFinds DEF Phase
<1>4. /\ DistinctIds(m.batch) /\ m.tx + Len(m.batch) <= MaxTx + 1
      /\ TxBelow(chunks, m.tx) /\ Placed(target)
  BY <1>1, <1>2, <1>3 DEF AppendPhase
<1>5. /\ m.tx \in Nat /\ target.isNew \in BOOLEAN
      /\ target.chunk \in Nat /\ target.next \in Nat
  BY <1>1, <1>2 DEF LocalsOK, Chunk
<1>6. PICK ideal, b, tx : ideal = Ideal(target) /\ b = m.batch /\ tx = m.tx
  OBVIOUS
<1>7. /\ IsTarget(ideal) /\ Usable(ideal) /\ Follows(ideal)
      /\ ideal.chunk = target.chunk /\ ideal.next = target.next
      /\ new = Extended(ideal, "whole", EncodeBatch(b, tx))
  BY <1>1, <1>4, <1>5, <1>6, IdealTarget DEF Ideal
<1>8. ptr = [j \in DOMAIN b |-> <<ideal.chunk, ideal.offset + j>>]
  BY <1>1, <1>6, <1>7
<1>9. /\ IsFiles(new) /\ Whole(new)
      /\ DOMAIN new = 0..(ideal.next - 1)
      /\ Appended(chunks, new, b, tx, ptr)
  <2>1. /\ IsFiles(chunks) /\ Whole(chunks)
        /\ b \in Seq(Operation) /\ tx \in Nat /\ tx + Len(b) <= MaxTx + 1
    BY <1>2, <1>3, <1>4, <1>5, <1>6 DEF LogOK
  <2> QED
    BY <1>7, <1>8, <2>1, ExtendedAppended
<1>10. TxOrdered(new) /\ TxBelow(new, tx + Len(b))
  BY <1>2, <1>3, <1>4, <1>5, <1>6, <1>9, TxAppended DEF LogOK
<1>11. Size(new) = target.next /\ Dense(new)
  BY <1>5, <1>7, <1>9, IntervalSize
<1> QED
  BY <1>1, <1>2, <1>4, <1>5, <1>6, <1>9, <1>10, <1>11

LEMMA BatchWritten ==
  ASSUME CInv, LInv, NEW p \in Threads, WriteLines(p)
  PROVE  LET m   == mine[p]
             ptr == [j \in DOMAIN m.batch |-> <<m.target.chunk, Ideal(m.target).offset + j>>]
         IN  /\ m.call = "append" /\ writer = p /\ pc[p] = "write"
             /\ m.batch \in Seq(Operation) /\ DistinctIds(m.batch)
             /\ m.tx \in Nat /\ m.tx + Len(m.batch) <= MaxTx + 1
             /\ IsFiles(chunks') /\ Whole(chunks')
             /\ Dense(chunks') /\ Size(chunks') = m.target.next
             /\ Appended(chunks, chunks', m.batch, m.tx, ptr)
             /\ TxOrdered(chunks') /\ TxBelow(chunks', m.tx + Len(m.batch))
<1>1. PICK m, new : m = mine[p] /\ new = chunks'
  OBVIOUS
<1>2. PICK ptr :
        ptr = [j \in DOMAIN m.batch |-> <<m.target.chunk, Ideal(m.target).offset + j>>]
  OBVIOUS
<1>3. pc[p] = "write" /\ new = Extended(m.target, "whole", EncodeBatch(m.batch, m.tx))
  BY <1>1 DEF WriteLines
<1>4. /\ m.call = "append" /\ writer = p
      /\ m.batch \in Seq(Operation) /\ DistinctIds(m.batch)
      /\ m.tx \in Nat /\ m.tx + Len(m.batch) <= MaxTx + 1
      /\ IsFiles(new) /\ Whole(new)
      /\ Dense(new) /\ Size(new) = m.target.next
      /\ Appended(chunks, new, m.batch, m.tx, ptr)
      /\ TxOrdered(new) /\ TxBelow(new, m.tx + Len(m.batch))
  BY <1>1, <1>2, <1>3, BatchFits
<1> QED
  BY <1>1, <1>2, <1>3, <1>4

LEMMA WriteLinesLInv ==
  ASSUME CInv, LInv, NEW p \in Threads, WriteLines(p)
  PROVE  LInv'
<1> DEFINE m == mine[p]
           n == [m EXCEPT !.before = LiveTable(chunks)]
<1>1. /\ m.call = "append" /\ writer = p /\ pc[p] = "write" /\ DistinctIds(m.batch)
      /\ m.tx + Len(m.batch) <= MaxTx + 1
      /\ IsFiles(chunks') /\ Whole(chunks')
      /\ Dense(chunks') /\ Size(chunks') = m.target.next
      /\ TxOrdered(chunks') /\ TxBelow(chunks', m.tx + Len(m.batch))
  BY BatchWritten
<1>2. pc'[p] = "bytes" /\ writer' = writer
  BY GotoIs DEF WriteLines, control
<1>3. mine'[p] = n
  <2>1. DOMAIN mine = Threads /\ DOMAIN m = LocalNames
    BY DEF CInv, ControlOK, ThreadOK
  <2> DEFINE locals == [mine EXCEPT ![p].before = LiveTable(chunks)]
  <2>2. locals[p] = n
    BY <2>1
  <2>3. n.call = "append"
    BY <1>1, <2>1 DEF LocalNames
  <2> HIDE DEF locals, n
  <2>4. mine' = Witnessed(chunks', locals)
    BY DEF WriteLines, locals
  <2> QED
    BY <2>2, <2>3, <2>4 DEF Witnessed
<1>4. \A x \in LocalNames \ {"before"} : n[x] = m[x]
  BY DEF CInv, ThreadOK, LocalNames
<1> HIDE DEF n
<1>5. /\ mine'[p].call = "append" /\ mine'[p].batch = m.batch /\ mine'[p].tx = m.tx
      /\ mine'[p].target = m.target
  BY <1>1, <1>3, <1>4 DEF LocalNames
<1>6. Phase(p)'
  BY <1>1, <1>2, <1>5 DEF Phase, AppendPhase, LoadLabels, BuildLabels
<1> QED
  BY <1>1, <1>2, <1>6, WriterLInv DEF LogOK, Busy

LEMMA DurableLInv ==
  ASSUME CInv, LInv, NEW p \in Threads, DurableStep(p)
  PROVE  LInv'
<1> DEFINE m == mine[p]
<1>1. /\ pc[p] \in {"bytes", "length", "publish", "rows", "count"}
      /\ m.call = "append" /\ writer = p
  BY AppendIs DEF DurableStep, UpdateBytes, UpdateLength, Publish, UpdateRecords, Count,
                  AppendLabels
<1>2. LogOK(chunks) /\ Dense(chunks) /\ AppendPhase(pc[p], m)
  BY <1>1, WriterFinds DEF Phase
<1>3. /\ DistinctIds(m.batch) /\ m.tx + Len(m.batch) <= MaxTx + 1
      /\ TxBelow(chunks, m.tx + Len(m.batch)) /\ Size(chunks) = m.target.next
  BY <1>1, <1>2 DEF AppendPhase
<1>4. CASE Count(p)
  <2>1. /\ nextTx' = m.tx + Len(m.batch) /\ nextChunk' = m.target.next
        /\ writer' = None /\ chunks' = chunks
    BY <1>1, <1>4 DEF Count, Return
  <2>2. m.target.next # None
    BY <1>3, SizeType, ThreadsAssumption, <1>2 DEF LogOK
  <2>3. CountersLog'
    BY <1>3, <2>1, <2>2 DEF CountersLog
  <2> QED
    BY <1>2, <2>1, <2>3, FreeLInv
<1>5. CASE UpdateBytes(p) \/ UpdateLength(p) \/ Publish(p) \/ UpdateRecords(p)
  <2>1. /\ pc'[p] \in {"length", "forget", "rows", "count"}
        /\ mine' = mine /\ writer' = writer /\ chunks' = chunks
    BY <1>5, GotoIs DEF UpdateBytes, UpdateLength, Publish, UpdateRecords, disk, control
  <2>2. Phase(p)'
    BY <1>1, <1>3, <2>1 DEF Phase, AppendPhase, LoadLabels, BuildLabels
  <2> QED
    BY <1>1, <1>2, <2>1, <2>2, WriterLInv DEF Busy
<1> QED
  BY <1>4, <1>5 DEF DurableStep

LEMMA ForgetLInv ==
  ASSUME CInv, LInv, NEW p \in Threads, ForgetSnapshot(p)
  PROVE  LInv'
<1> DEFINE m == mine[p]
<1>1. /\ pc[p] = "forget" /\ mine' = mine /\ writer' = writer /\ chunks' = chunks
      /\ pc'[p] = IF m.call = "append" THEN "publish" ELSE "unproject"
  BY GotoIs DEF ForgetSnapshot, disk, control
<1>2. m.call \in {"append", "compact"} /\ writer = p
  BY <1>1, Running DEF Inside, LoadLabels, BuildLabels, GetLabels, Writing
<1>3. LogOK(chunks) /\ Dense(chunks) /\ Phase(p)
  BY <1>1, <1>2, WriterFinds
<1>4. Phase(p)'
  BY <1>1, <1>2, <1>3 DEF Phase, AppendPhase, CompactPhase, LoadLabels, BuildLabels
<1>5. pc'[p] \in Busy \ {"unlink", "install"}
  BY <1>1 DEF Busy
<1> QED
  BY <1>1, <1>2, <1>3, <1>4, <1>5, WriterLInv

(* Without its lowest chunks a log is still one. *)
LEMMA FewerChunks ==
  ASSUME LogOK(chunks), NEW kept \in SUBSET DOMAIN chunks,
         NEW files, files = [c \in kept |-> chunks[c]]
  PROVE  LogOK(files)
<1>1. IsFiles(files)
  BY DEF LogOK, IsFiles, PartialOn
<1>2. Positions(files) \subseteq Positions(chunks)
  BY DEF Positions
<1>3. \A q \in Positions(files) : At(files, q) = At(chunks, q)
  <2>1. \A q \in Positions(files) : q[1] \in kept
    BY <1>1, PositionType DEF IsFiles
  <2> QED
    BY <2>1 DEF At
<1>4. Whole(files)
  BY <1>2, <1>3 DEF LogOK, Whole
<1>5. TxOrdered(files)
  BY <1>2, <1>3 DEF LogOK, TxOrdered
<1> QED
  BY <1>1, <1>4, <1>5 DEF LogOK

LEMMA ReplaceLInv ==
  ASSUME CInv, LInv, NEW p \in Threads, ReplaceStep(p)
  PROVE  LInv'
<1> DEFINE m == mine[p]
           after == [c \in {0} |-> m.file]
<1>1. /\ pc[p] \in {"unlink", "install", "bytes0", "length0", "unproject", "finish"}
      /\ m.call = "compact" /\ writer = p /\ LocalsOK(pc[p], m)
  BY CompactIs DEF ReplaceStep, RemoveChunk, InstallChunk, ReplaceBytes, ReplaceLengths,
                   ForgetProjection, FinishCompaction, CompactLabels
<1>2. LogOK(chunks) /\ CompactPhase(pc[p], m) /\ SharedOK
  BY <1>1, WriterFinds DEF Phase, CInv
<1>3. pc[p] \in {"bytes0", "length0", "unproject", "finish"} => Dense(chunks)
  BY <1>1, WriterFinds
<1>4. CASE RemoveChunk(p)
  <2>1. pc[p] = "unlink" /\ mine' = mine /\ writer' = writer
    BY <1>4 DEF RemoveChunk, control
  <2>2. Written0(m)
    BY <1>2, <2>1 DEF CompactPhase
  <2>3. Written0(m)'
    BY <2>1, <2>2 DEF Written0
  <2>4. pc'[p] \in {"unlink", "install"} /\ LogOK(chunks')
    <3>1. CASE DOMAIN chunks # {}
      <4>1. pc' = pc /\ \E kept \in SUBSET DOMAIN chunks : chunks' = [c \in kept |-> chunks[c]]
        BY <1>4, <3>1 DEF RemoveChunk
      <4>2. PICK files : files = chunks'
        OBVIOUS
      <4>3. LogOK(files)
        BY <1>2, <4>1, <4>2, FewerChunks
      <4> QED
        BY <2>1, <4>1, <4>2, <4>3
    <3>2. CASE DOMAIN chunks = {}
      BY <1>2, <1>4, <3>2, GotoIs DEF RemoveChunk
    <3> QED
      BY <3>1, <3>2
  <2>5. Phase(p)'
    BY <1>1, <2>1, <2>3, <2>4 DEF Phase, CompactPhase
  <2> QED
    BY <1>1, <2>1, <2>4, <2>5, WriterLInv DEF Busy
<1>5. CASE InstallChunk(p)
  <2>1. /\ pc[p] = "install" /\ mine' = mine /\ writer' = writer /\ pc'[p] = "bytes0"
        /\ chunks' = after
    BY <1>5, GotoIs DEF InstallChunk, control
  <2>2. LogOK(after) /\ Size(after) = 1 /\ Dense(after) /\ TxBelow(after, m.tx)
    BY <1>2, <2>1 DEF CompactPhase, Written0
  <2>3. PICK files : files = after
    OBVIOUS
  <2>4. LogOK(chunks') /\ Size(chunks') = 1 /\ Dense(chunks') /\ TxBelow(chunks', m.tx)
    BY <2>1, <2>2, <2>3
  <2>5. Phase(p)'
    BY <1>1, <2>1, <2>4 DEF Phase, CompactPhase
  <2> QED
    BY <1>1, <2>1, <2>4, <2>5, WriterLInv DEF Busy
<1>6. CASE ReplaceBytes(p) \/ ReplaceLengths(p)
  <2>1. /\ pc[p] \in {"bytes0", "length0"} /\ pc'[p] \in {"length0", "forget"}
        /\ mine' = mine /\ writer' = writer /\ chunks' = chunks
    BY <1>6, GotoIs DEF ReplaceBytes, ReplaceLengths, control, disk
  <2>2. Phase(p)'
    BY <1>1, <1>2, <2>1 DEF Phase, CompactPhase
  <2> QED
    BY <1>1, <1>2, <1>3, <2>1, <2>2, WriterLInv DEF Busy
<1>7. CASE ForgetProjection(p)
  <2>1. /\ pc[p] = "unproject" /\ pc'[p] = "scan" /\ nextChunk' = 1 /\ nextTx' = m.tx
        /\ mine' = mine /\ writer' = writer /\ chunks' = chunks
    BY <1>7, GotoIs DEF ForgetProjection, control, disk
  <2>2. TxBelow(chunks, m.tx) /\ Size(chunks) = 1
    BY <1>2, <2>1 DEF CompactPhase
  <2>3. CountersLog'
    BY <2>1, <2>2, ThreadsAssumption DEF CountersLog
  <2>4. Phase(p)'
    BY <1>1, <2>1 DEF Phase, CompactPhase
  <2> QED
    BY <1>1, <1>2, <1>3, <2>1, <2>3, <2>4, WriterLInv
<1>8. CASE FinishCompaction(p)
  <2>1. /\ pc[p] = "finish" /\ meta' = Metadata(m.tx, NextChunkCounter) /\ writer' = None
        /\ UNCHANGED <<chunks, nextTx, nextChunk>>
    BY <1>1, <1>8 DEF FinishCompaction, Return, memory
  <2>2. CountersLog /\ Dense(chunks)
    BY <1>1, <2>1, WriterFinds DEF Busy
  <2>3. NextChunkCounter = Size(chunks) /\ Size(chunks) \in Nat
    BY <1>2, <2>2, CounterIsSize DEF LogOK, SharedOK
  <2>4. CountersLog'
    BY <2>1, <2>2, <2>3 DEF CountersLog, Metadata
  <2> QED
    BY <1>2, <2>1, <2>2, <2>4, FreeLInv
<1> QED
  BY <1>4, <1>5, <1>6, <1>7, <1>8 DEF ReplaceStep

LEMMA StepLog ==
  ASSUME CInv, LInv, NEW p \in Threads, Call(p) \/ Step(p)
  PROVE  LInv'
<1>1. CASE Call(p)
  BY <1>1, CallLInv
<1>2. CASE Lock(p)
  BY <1>2, LockLInv
<1>3. CASE LoadStep(p) \/ BuildStep(p)
  BY <1>3, SearchLInv
<1>4. CASE AppendStep(p)
  <2>1. CASE Take(p) \/ TakeSnapshot(p)
    BY <2>1, TakeLInv
  <2>2. CASE Validate(p)
    BY <2>2, ValidateLInv
  <2>3. CASE ChooseTarget(p)
    BY <2>3, TargetLInv
  <2>4. CASE Apply(p)
    BY <2>4, ApplyLInv
  <2>5. CASE WriteLines(p)
    BY <2>5, WriteLinesLInv
  <2>6. CASE DurableStep(p)
    BY <2>6, DurableLInv
  <2>7. CASE ForgetSnapshot(p)
    BY <2>7, ForgetLInv
  <2> QED
    BY <1>4, <2>1, <2>2, <2>3, <2>4, <2>5, <2>6, <2>7 DEF AppendStep, DurableStep
<1>5. CASE GetStep(p)
  BY <1>5, GetLInv
<1>6. CASE CompactStep(p)
  BY <1>6, PlanLInv, ReplaceLInv DEF CompactStep, ReplaceStep
<1> QED
  BY <1>1, <1>2, <1>3, <1>4, <1>5, <1>6 DEF Step

LEMMA NextLog ==
  CInv /\ LInv /\ [ThreadsNext]_threadVars => CInv' /\ LInv'
<1> SUFFICES ASSUME CInv, LInv, [ThreadsNext]_threadVars PROVE CInv' /\ LInv'
  OBVIOUS
<1>1. ASSUME NEW p \in Threads, Call(p) \/ Step(p) PROVE CInv' /\ LInv'
  <2>1. LInv'
    BY <1>1, StepLog
  <2>2. IsFiles(chunks')
    BY <2>1 DEF LInv, LogOK
  <2> QED
    BY <1>1, <2>1, <2>2, StepTypes
<1>2. CASE UNCHANGED threadVars
  <2>1. /\ UNCHANGED <<chunks, sixb, meta, runtime, sixbCache, rowCache, chunkCache, chunkLen,
                       nextTx, nextChunk, layout>>
        /\ UNCHANGED <<pc, mine, writer, calls, roles, sixbTmp>>
    BY <1>2 DEF threadVars, vars, disk, memory, control, turns
  <2>2. CInv'
    BY <2>1 DEF CInv, ControlOK, SharedOK, ThreadOK
  <2>3. LInv'
    BY <2>1 DEF LInv, CountersLog, Phase, AppendPhase, CompactPhase, Placed, Usable, Follows,
                NextTxId, RecoveredTx
  <2> QED
    BY <2>2, <2>3
<1> QED
  BY <1>1, <1>2 DEF ThreadsNext, Finished

LEMMA LogFound ==
  ASSUME NEW log, LeftByHandle(log)
  PROVE  LogOK(log) /\ Dense(log) /\ UniqueLookups(CacheOf(log).lookups)
<1>1. /\ IsFiles(log) /\ Dense(log) /\ TxOrdered(log)
      /\ UniqueLookups(CacheOf(log).lookups)
  BY DEF LeftByHandle, IsFiles, Dense, Size, TxOrdered
<1>2. Whole(log)
  BY DEF LeftByHandle, Whole
<1> QED
  BY <1>1, <1>2 DEF LogOK

LEMMA InitLog == ThreadsInit => CInv /\ LInv
<1> SUFFICES ASSUME ThreadsInit PROVE CInv /\ LInv
  OBVIOUS
<1>1. PICK s \in Situations :
        /\ roles = s.roles /\ calls = s.calls
        /\ chunks \in s.logs /\ sixb \in SixbFound(s.logs)
  BY DEF ThreadsInit
<1>2. /\ meta = None /\ runtime = None /\ sixbCache = None
      /\ rowCache = NoRows /\ chunkCache = NoRows /\ chunkLen = NoRows
      /\ nextTx = None /\ nextChunk = None /\ layout = FALSE
      /\ pc = [p \in Threads |-> "idle"]
      /\ mine = [p \in Threads |-> NoLocals]
      /\ writer = None /\ sixbTmp = None
  BY DEF ThreadsInit
<1>3. /\ roles \in [Threads -> SUBSET Calls] /\ calls \in [Threads -> Nat]
      /\ \A log \in s.logs : LeftByHandle(log)
  BY <1>1, ThreadsAssumption
<1>4. LogOK(chunks) /\ Dense(chunks)
  BY <1>1, <1>3, LogFound
<1>5. sixb # None => IsSixb(sixb)
  <2> SUFFICES ASSUME sixb # None PROVE IsSixb(sixb)
    OBVIOUS
  <2>1. PICK older \in s.logs : sixb = [source |-> SourceOf(older), cache |-> CacheOf(older)]
    BY <1>1 DEF SixbFound
  <2>2. PartialOn(Chunk, File(Tx), older)
    BY <1>3, LogFound DEF LogOK, IsFiles
  <2>3. PartialOn(Chunk, Seq(Line(Tx)), SourceOf(older)) /\ IsCache(CacheOf(older))
    BY <2>2, SourceType, CacheOfType
  <2> QED
    BY <2>1, <2>3 DEF IsSixb
<1>6. SharedOK
  BY <1>2, <1>5, NoRowsType DEF SharedOK, CountersOK
<1>7. ControlOK
  BY <1>2, <1>3 DEF ControlOK
<1>8. ASSUME NEW q \in Threads PROVE ThreadOK(q)
  <2>1. /\ DOMAIN NoLocals = LocalNames /\ NoLocals.cache = None /\ NoLocals.proj = None
        /\ NoLocals.before = None /\ NoLocals.may = {}
    BY NoLocalsNames DEF NoLocals
  <2>2. LocalsOK("idle", NoLocals)
    BY <2>1, IdleOK
  <2>3. writer # q
    BY <1>2, ThreadsAssumption
  <2> QED
    BY <1>2, <2>1, <2>2, <2>3 DEF ThreadOK, Writing
<1>9. LInv
  BY <1>2, <1>4, ThreadsAssumption DEF LInv, CountersLog
<1> QED
  BY <1>6, <1>7, <1>8, <1>9 DEF CInv

LEMMA LogInvariance == ThreadsSpec => [](CInv /\ LInv)
<1>1. ThreadsInit => CInv /\ LInv
  BY InitLog
<1>2. CInv /\ LInv /\ [ThreadsNext]_threadVars => (CInv /\ LInv)'
  BY NextLog
<1> QED
  BY <1>1, <1>2, PTL DEF ThreadsSpec

-----------------------------------------------------------------------------
(* What holds whichever calls the threads make.                            *)

(* The handle's caches, the locals of every call and the writer mutex keep  *)
(* their types under any interleaving of appends, reads, rebuilds and      *)
(* compactions.                                                            *)
THEOREM ThreadsTypeCorrect == ThreadsSpec => []ThreadsTypeOK
<1>1. CInv /\ LInv => ThreadsTypeOK
  <2> SUFFICES ASSUME CInv, LInv PROVE ThreadsTypeOK
    OBVIOUS
  <2>1. TypeOK
    BY DEF CInv, SharedOK, CountersOK, LInv, LogOK, IsFiles, TypeOK
  <2>2. ASSUME NEW p \in Threads
        PROVE  /\ calls[p] \in Nat
               /\ mine[p].cache # None => IsCache(mine[p].cache)
               /\ mine[p].proj # None => IsProjection(mine[p].proj)
               /\ mine[p].may \subseteq Record \cup {NoRecord}
               /\ writer = p <=> mine[p].call \in {"append", "compact"}
                                   /\ pc[p] \notin {"idle", "lock"}
    BY DEF CInv, ControlOK, ThreadOK, LocalsOK, Writing
  <2> QED
    BY <2>1, <2>2 DEF ThreadsTypeOK, CInv, SharedOK, ControlOK
<1> QED
  BY <1>1, LogInvariance, PTL

(* Reading the chunks in order is reading the operations in tx order, while *)
(* threads write, read, rebuild and compact.                               *)
THEOREM ThreadsTxOrderCorrect == ThreadsSpec => []TxOrder
<1>1. LInv => TxOrder
  BY DEF LInv, LogOK, TxOrdered, TxOrder, DataLines
<1> QED
  BY <1>1, LogInvariance, PTL

(* Only WriteLines changes the log of a table that nobody compacts. *)
LEMMA OnlyWriteLines ==
  ASSUME CInv, LInv, [ThreadsNext]_threadVars, chunks' # chunks, Nobody({"compact"})
  PROVE  \E p \in Threads : WriteLines(p)
<1>1. PICK p \in Threads : Step(p)
  BY DEF ThreadsNext, Finished, Call, Begin, threadVars, vars, disk
<1>2. ~CompactStep(p)
  <2>1. SUFFICES ASSUME CompactStep(p) PROVE FALSE
    OBVIOUS
  <2>2. mine[p].call = "compact" /\ pc[p] # "idle"
    BY <2>1, CompactIs DEF CompactStep, PlanCompaction, RemoveChunk, InstallChunk,
                           ReplaceBytes, ReplaceLengths, ForgetProjection,
                           FinishCompaction, CompactLabels
  <2>3. "compact" \in roles[p]
    BY SMTT(30), <2>2, Running
  <2> QED
    BY <2>3 DEF Nobody
<1>3. WriteLines(p)
  BY <1>1, <1>2 DEF Step, Lock, LoadStep, LoadRuntime, LoadCached, ReadSixb, CompareHash,
       RememberSnapshot, BuildStep, Scan, RememberRecords, WriteTmp, RenameTmp, RememberBuilt,
       RememberProjection, AppendStep, Take, TakeSnapshot, Validate, ChooseTarget, Apply,
       UpdateBytes, UpdateLength, ForgetSnapshot, Publish, UpdateRecords, Count, GetStep,
       Find, FindInSnapshot, ReadRecord, ReadChunk, OpenChunk, RememberLength, RememberBytes,
       Decode, vars, disk
<1> QED
  BY <1>3

(* Whatever readers and rebuilds do to the caches, the log of a table that  *)
(* is not compacted changes by one whole batch at a time (WriteLines).      *)
THEOREM AppendsChangeRowsCorrect == ThreadsSpec => AppendsChangeRows
<1> DEFINE A == Nobody({"compact"}) =>
       \E p \in {q \in Threads : pc[q] = "write"} :
         LET batch == mine[p].batch
         IN  \A id \in Ids :
               LiveTable(chunks')[id] =
                 IF id \in Touched(batch)
                   THEN batch[CHOOSE i \in DOMAIN batch : batch[i].id = id].rec
                   ELSE LiveTable(chunks)[id]
<1>1. CInv /\ LInv /\ [ThreadsNext]_threadVars => [A]_chunks
  <2> SUFFICES ASSUME CInv, LInv, [ThreadsNext]_threadVars, chunks' # chunks,
                      Nobody({"compact"})
               PROVE  A
    OBVIOUS
  <2>1. PICK p \in Threads : WriteLines(p)
    BY OnlyWriteLines
  <2> DEFINE batch == mine[p].batch
             ptr   == [j \in DOMAIN batch |->
                         <<mine[p].target.chunk, Ideal(mine[p].target).offset + j>>]
  <2>4. /\ pc[p] = "write" /\ batch \in Seq(Operation) /\ DistinctIds(batch)
        /\ IsFiles(chunks') /\ Whole(chunks')
        /\ Appended(chunks, chunks', batch, mine[p].tx, ptr)
    BY <2>1, BatchWritten
  <2>5. PICK new, b, ptrs, tx : new = chunks' /\ b = batch /\ ptrs = ptr /\ tx = mine[p].tx
    OBVIOUS
  <2> HIDE DEF batch, ptr
  <2>6. IsFiles(chunks) /\ Whole(chunks)
    BY DEF LInv, LogOK
  <2>7. /\ \A j \in DOMAIN b : LiveTable(new)[b[j].id] = b[j].rec
        /\ \A id \in Ids \ Touched(b) : LiveTable(new)[id] = LiveTable(chunks)[id]
    BY <2>4, <2>5, <2>6, BatchRows
  <2>8. ASSUME NEW id \in Ids
        PROVE  LiveTable(new)[id] =
                 IF id \in Touched(b) THEN b[CHOOSE i \in DOMAIN b : b[i].id = id].rec
                                      ELSE LiveTable(chunks)[id]
    <3>1. CASE id \in Touched(b)
      <4> DEFINE j == CHOOSE i \in DOMAIN b : b[i].id = id
      <4>1. \E i \in DOMAIN b : b[i].id = id
        BY <3>1 DEF Touched
      <4>2. j \in DOMAIN b /\ b[j].id = id
        BY <4>1
      <4> QED
        BY <2>7, <3>1, <4>2
    <3>2. CASE id \notin Touched(b)
      BY <2>7, <3>2
    <3> QED
      BY <3>1, <3>2
  <2> QED
    BY <2>4, <2>5, <2>8 DEF batch
<1> QED
  BY <1>1, LogInvariance, PTL DEF ThreadsSpec, AppendsChangeRows

-----------------------------------------------------------------------------
(* The caches, where only readers and rebuilds or only writers are at work. *)

Alone == OnlyReaders \/ OnlyWriters

(* Where the writer is. *)
Stage == IF writer = None THEN "idle" ELSE pc[writer]

Gone     == {"unlink", "install"}
Replaced == Gone \cup {"bytes0", "length0"}
Stored  == {"bytes", "length", "forget"}

(* Each cache is exact but from the change of the files to its own. *)
CachesAt(stage) ==
  /\ stage \notin Gone => UniqueRows(chunks)
  /\ stage \notin Replaced \cup Stored \cup {"publish", "unproject"}
       => RuntimeExact(runtime, chunks)
  /\ stage \notin Replaced \cup Stored => CacheExact(sixbCache, chunks)
  /\ stage \notin Gone \cup Stored \cup {"publish", "rows"} => RecordsExact(rowCache, chunks)
  /\ stage \notin Gone \cup {"bytes0", "bytes"} => FilesOK(chunkCache, chunks)
  /\ stage \notin Replaced \cup {"bytes", "length"} => LensOK(chunkLen, chunks)

(* What the locals of a call are, by where it is. *)
SearchExact(label, m) ==
  /\ label = "hash" => m.cache = CacheOf(Restored(m.source))
  /\ label \in {"remember", "records", "tmp", "rename", "snapshot", "project", "entry"}
       => m.cache = CacheOf(chunks)
  /\ label \in {"records", "tmp"} => m.source = SourceOf(chunks)
  /\ label = "records" => RecordsExact(m.records, chunks)

GetExact(label, m) ==
  /\ label \in {"row", "chunk", "open", "setlen", "setbytes", "decode"}
       => m.id \in DOMAIN ScanRows(chunks) /\ m.ptr = ScanRows(chunks)[m.id]
  /\ label \in {"setlen", "setbytes", "decode"} => m.file = chunks[m.ptr[1]]
  /\ LiveTable(chunks)[m.id] \in m.may

AppendExact(label, m) ==
  LET proj  == FromCache(CacheOf(chunks))
      lines == EncodeBatch(m.batch, m.tx)
  IN  /\ label \in {"validate", "target", "old"} => m.proj = proj
      /\ label \in {"target", "old", "write"} => NoUniqueConflict(proj, m.batch)
      /\ label \in {"old", "write"} => m.target.offset = Ideal(m.target).offset
      /\ label = "write" => m.proj = FromCache(CacheOf(Extended(m.target, "whole", lines)))
      /\ label \in Stored \cup {"publish"} => m.proj = proj
      /\ label \in {"bytes", "length"} =>
           /\ m.target.chunk \in DOMAIN chunks
           /\ m.target.isNew => chunks[m.target.chunk] = [head |-> "whole", lines |-> lines]
           /\ \A c \in DOMAIN chunkLen \ {m.target.chunk} :
                c \in DOMAIN chunks /\ chunkLen[c] = Len(chunks[c].lines)
      /\ label = "bytes" =>
           \A c \in DOMAIN chunkCache \ {m.target.chunk} :
             c \in DOMAIN chunks /\ chunkCache[c] = chunks[c]
      /\ label \in Stored \cup {"publish", "rows"}
           => RecordsExact(RecordsAfter(rowCache, m.batch), chunks)

CompactExact(label, m) ==
  LET after == [c \in {0} |-> m.file]
  IN  /\ label \in Gone => UniqueRows(after) /\ RecordsExact(rowCache, after)
      /\ label \in {"bytes0", "length0"} => chunks = after
      /\ label = "forget" => RecordsExact(rowCache, chunks)

LocalsExact(label, m) ==
  /\ SearchExact(label, m)
  /\ m.call = "get" => GetExact(label, m)
  /\ m.call = "append" => AppendExact(label, m)
  /\ m.call = "compact" => CompactExact(label, m)

XInv ==
  Alone =>
    /\ CachesAt(Stage)
    /\ SixbExact(sixb) /\ SixbExact(sixbTmp)
    /\ \A q \in Threads : pc[q] # "idle" => LocalsExact(pc[q], mine[q])
    /\ GetsCurrent

(* Where the caches owe nothing. *)
Settled(stage) == stage \notin Replaced \cup Stored \cup {"publish", "unproject", "rows"}

Coherent ==
  /\ UniqueRows(chunks)
  /\ RuntimeExact(runtime, chunks)
  /\ CacheExact(sixbCache, chunks)
  /\ RecordsExact(rowCache, chunks)
  /\ FilesOK(chunkCache, chunks)
  /\ LensOK(chunkLen, chunks)

LEMMA SettledIs ==
  ASSUME NEW stage, Settled(stage), CachesAt(stage)
  PROVE  Coherent
BY DEF Settled, CachesAt, Coherent, Replaced, Gone, Stored

(* Threads that read and threads that write do not meet. *)
LEMMA Sides ==
  ASSUME CInv, Alone, NEW p \in Threads, pc[p] # "idle"
  PROVE  /\ mine[p].call \in {"get", "rebuild"} => OnlyReaders
         /\ mine[p].call \in {"append", "compact"} => OnlyWriters
         /\ mine[p].call \in {"append", "compact", "get", "rebuild"}
<1>1. mine[p].call \in roles[p] /\ mine[p].call \in Calls
  BY Running
<1> QED
  BY <1>1 DEF Alone, OnlyReaders, OnlyWriters, Nobody, Calls

LEMMA ReadersStage ==
  ASSUME CInv, OnlyReaders
  PROVE  writer = None /\ Stage = "idle"
<1>1. ASSUME NEW q \in Threads, writer = q PROVE FALSE
  <2>1. Writing(pc[q], mine[q].call)
    BY <1>1 DEF CInv, ThreadOK
  <2>2. mine[q].call \in roles[q] /\ mine[q].call \in {"append", "compact"}
    BY <2>1 DEF CInv, ThreadOK, Writing
  <2> QED
    BY <2>2 DEF OnlyReaders, Nobody
<1>2. writer \in Threads \cup {None}
  BY DEF CInv, ControlOK
<1> QED
  BY <1>1, <1>2 DEF Stage

(* What a step leaves of the locals of the other threads. *)
LEMMA OtherStays ==
  ASSUME CInv, Alone, NEW p \in Threads, NEW q \in Threads \ {p}, pc[q] # "idle",
         NEW label, label = pc[q], NEW m, m = mine[q], LocalsExact(label, m),
         \/ OnlyReaders /\ chunks' = chunks
         \/ OnlyWriters /\ writer = p
         \/ UNCHANGED <<chunks, rowCache, chunkCache, chunkLen>>
  PROVE  LocalsExact(label, m)'
<1>1. m.call \in {"append", "compact", "get", "rebuild"}
  BY Sides
<1>2. CASE OnlyReaders /\ chunks' = chunks
  <2>1. m.call \notin {"append", "compact"}
    BY <1>2, Running DEF OnlyReaders, Nobody
  <2> QED
    BY <1>2, <2>1 DEF LocalsExact, SearchExact, GetExact
<1>3. CASE OnlyWriters /\ writer = p
  <2>1. m.call \in {"append", "compact"}
    BY <1>1, <1>3, Running DEF OnlyWriters, Nobody
  <2>2. label = "lock"
    BY SMTT(30), <1>3, <2>1, Running DEF Writing
  <2> QED
    BY <2>1, <2>2 DEF LocalsExact, SearchExact, AppendExact, CompactExact, Stored, Gone
<1>4. CASE UNCHANGED <<chunks, rowCache, chunkCache, chunkLen>>
  BY <1>4 DEF LocalsExact, SearchExact, GetExact, AppendExact, CompactExact, Ideal, Extended
<1> QED
  BY <1>2, <1>3, <1>4

(* What a step owes to the invariant. *)
LEMMA StepXInv ==
  ASSUME CInv, XInv, Alone, NEW p \in Threads,
         roles' = roles,
         \A q \in Threads \ {p} : pc'[q] = pc[q] /\ mine'[q] = mine[q],
         \/ OnlyReaders /\ chunks' = chunks
         \/ OnlyWriters /\ writer = p
         \/ UNCHANGED <<chunks, rowCache, chunkCache, chunkLen>>,
         CachesAt(Stage)', SixbExact(sixb'), SixbExact(sixbTmp'),
         NEW label, label = pc'[p], NEW m, m = mine'[p],
         label # "idle" => LocalsExact(label, m)',
         OnlyReaders /\ label = "idle" /\ m.call = "get" /\ m.outcome = "done"
           => m.answer \in m.may
  PROVE  XInv'
<1>1. ASSUME NEW q \in Threads, pc'[q] # "idle" PROVE LocalsExact(pc[q], mine[q])'
  <2>1. CASE q = p
    BY <1>1, <2>1
  <2>2. CASE q # p
    <3>1. pc'[q] = pc[q] /\ mine'[q] = mine[q] /\ pc[q] # "idle"
      BY <1>1, <2>2
    <3>2. PICK l, n : l = pc[q] /\ n = mine[q]
      OBVIOUS
    <3>3. LocalsExact(l, n)
      BY <3>1, <3>2 DEF XInv
    <3>4. LocalsExact(l, n)'
      BY <2>2, <3>1, <3>2, <3>3, OtherStays
    <3> QED
      BY <3>1, <3>2, <3>4
  <2> QED
    BY <2>1, <2>2
<1>2. GetsCurrent'
  <2>1. ASSUME OnlyReaders, NEW q \in Threads, pc'[q] = "idle", mine'[q].call = "get",
               mine'[q].outcome = "done"
        PROVE  mine'[q].answer \in mine'[q].may
    BY <2>1 DEF XInv, GetsCurrent
  <2>2. OnlyReaders' <=> OnlyReaders
    BY DEF OnlyReaders, Nobody
  <2> QED
    BY <2>1, <2>2 DEF GetsCurrent
<1> QED
  BY <1>1, <1>2 DEF XInv

LEMMA StageMoves ==
  ASSUME CInv, Alone, NEW p \in Threads, pc[p] \notin {"idle", "lock"},
         NEW label, NEW m, StepOK(p, label, m), m.call = mine[p].call, label # "lock"
  PROVE  /\ roles' = roles /\ pc'[p] = label /\ mine'[p] = m
         /\ \A q \in Threads \ {p} : pc'[q] = pc[q] /\ mine'[q] = mine[q]
         /\ \/ /\ OnlyReaders /\ m.call \in {"get", "rebuild"}
               /\ Stage = "idle" /\ Stage' = "idle"
            \/ /\ OnlyWriters /\ m.call \in {"append", "compact"}
               /\ writer = p /\ Stage = pc[p] /\ Stage' = label
<1>1. /\ roles' = roles /\ pc'[p] = label /\ mine'[p] = m
      /\ \A q \in Threads \ {p} : pc'[q] = pc[q] /\ mine'[q] = mine[q]
  BY MovedIs DEF StepOK, CInv
<1>2. writer' = IF Writing(label, m.call) THEN p ELSE IF writer = p THEN None ELSE writer
  BY DEF StepOK
<1>3. p # None /\ (writer = p <=> Writing(pc[p], mine[p].call))
  BY Running
<1>4. CASE m.call \in {"get", "rebuild"}
  <2>1. OnlyReaders /\ writer = None /\ Stage = "idle"
    BY <1>4, Sides, ReadersStage
  <2>2. Stage' = "idle"
    BY <1>2, <1>4, <2>1 DEF Stage, Writing
  <2> QED
    BY <1>1, <1>4, <2>1, <2>2
<1>5. CASE m.call \in {"append", "compact"}
  <2>1. OnlyWriters /\ writer = p /\ Stage = pc[p]
    BY <1>3, <1>5, Sides DEF Writing, Stage
  <2>2. Stage' = label
    BY <1>1, <1>2, <1>3, <1>5, <2>1 DEF Stage, Writing
  <2> QED
    BY <1>1, <1>5, <2>1, <2>2
<1> QED
  BY <1>1, <1>4, <1>5, Sides

(* A snapshot is loaded or built: what a thread knows before and after. *)
LEMMA SearchFinds ==
  ASSUME CInv, LInv, XInv, Alone, NEW p \in Threads, LoadStep(p) \/ BuildStep(p)
  PROVE  /\ roles' = roles
         /\ \A q \in Threads \ {p} : pc'[q] = pc[q] /\ mine'[q] = mine[q]
         /\ \/ OnlyReaders /\ chunks' = chunks
            \/ OnlyWriters /\ writer = p
         /\ chunks' = chunks /\ Coherent /\ Settled(Stage')
         /\ SixbExact(sixb) /\ SixbExact(sixbTmp)
         /\ LocalsExact(pc[p], mine[p]) /\ mine'[p].call = mine[p].call
         /\ mine[p].call \in {"append", "compact", "get", "rebuild"}
<1>1. PICK label, m : StepOK(p, label, m)
  BY LoadCInv, BuildCInv DEF LInv, LogOK
<1>2. pc'[p] = label /\ mine'[p] = m
  BY <1>1, MovedIs DEF StepOK, CInv
<1>3. m.call = mine[p].call
  BY <1>2, CallStays DEF Step
<1>4. /\ pc[p] \in LoadLabels \cup BuildLabels
      /\ label \in LoadLabels \cup BuildLabels \cup {"remove", "entry", "finish", "idle"}
      /\ chunks' = chunks
  BY <1>2, SearchMoves
<1>5. pc[p] \notin {"idle", "lock"} /\ label # "lock" /\ Settled(pc[p]) /\ Settled(label)
      /\ Settled("idle")
  BY <1>4 DEF LoadLabels, BuildLabels, Settled, Replaced, Gone, Stored
<1>6. /\ roles' = roles
      /\ \A q \in Threads \ {p} : pc'[q] = pc[q] /\ mine'[q] = mine[q]
      /\ \/ OnlyReaders /\ Stage = "idle" /\ Stage' = "idle"
         \/ OnlyWriters /\ writer = p /\ Stage = pc[p] /\ Stage' = label
  BY <1>1, <1>3, <1>5, StageMoves
<1>7. Settled(Stage) /\ Settled(Stage')
  BY <1>5, <1>6
<1>8. Coherent
  BY <1>7, SettledIs DEF XInv
<1> QED
  BY <1>2, <1>3, <1>4, <1>5, <1>6, <1>7, <1>8, Sides DEF XInv

LEMMA SearchKeeps ==
  ASSUME CInv, NEW p \in Threads, LoadStep(p) \/ BuildStep(p)
  PROVE  /\ pc'[p] # "idle" => mine'[p].id = mine[p].id /\ mine'[p].may = mine[p].may
         /\ pc'[p] = "idle" /\ mine[p].call = "get" => mine'[p].outcome = "error"
<1>1. ASSUME NEW locals, Set(p, locals), DOMAIN locals \subseteq {"cache", "source", "records"}
      PROVE  mine'[p].id = mine[p].id /\ mine'[p].may = mine[p].may
  BY <1>1, SetIs DEF LocalNames
<1>2. ASSUME NEW outcome, NEW answer, Answered(p, outcome, answer)
      PROVE  pc'[p] = "idle" /\ mine'[p].outcome = outcome
  BY <1>2, AnsweredIs
<1>3. ASSUME NEW label, Goto(p, label) PROVE pc'[p] = label
  BY <1>3, GotoIs
<1>4. CASE LoadStep(p)
  BY <1>1, <1>3, <1>4 DEF LoadStep, LoadRuntime, LoadCached, ReadSixb, CompareHash,
                          RememberSnapshot, Loaded
<1>5. CASE Scan(p)
  BY <1>1, <1>2, <1>3, <1>5 DEF Scan, Return
<1>6. CASE BuildStep(p) /\ ~Scan(p)
  BY <1>2, <1>3, <1>6 DEF BuildStep, RememberRecords, WriteTmp, RenameTmp, RememberBuilt,
                          RememberProjection, Return
<1> QED
  BY <1>4, <1>5, <1>6

(* What a step of a search owes to the invariant. *)
LEMMA SearchOwes ==
  ASSUME CInv, LInv, XInv, Alone, NEW p \in Threads, LoadStep(p) \/ BuildStep(p),
         Coherent', SixbExact(sixb'), SixbExact(sixbTmp'),
         NEW label, label = pc'[p], NEW m, m = mine'[p],
         label # "idle" => SearchExact(label, m)'
  PROVE  XInv'
<1>1. /\ roles' = roles
      /\ \A q \in Threads \ {p} : pc'[q] = pc[q] /\ mine'[q] = mine[q]
      /\ \/ OnlyReaders /\ chunks' = chunks
         \/ OnlyWriters /\ writer = p
      /\ chunks' = chunks /\ Settled(Stage')
      /\ LocalsExact(pc[p], mine[p]) /\ m.call = mine[p].call
  BY SearchFinds
<1>2. CachesAt(Stage)'
  BY <1>1 DEF CachesAt, Coherent
<1>3. label \in LoadLabels \cup BuildLabels \cup {"remove", "entry", "finish", "idle"}
  BY SearchMoves
<1>4. ASSUME label # "idle" PROVE LocalsExact(label, m)'
  <2>1. m.id = mine[p].id /\ m.may = mine[p].may
    BY <1>4, SearchKeeps
  <2>2. m.call = "get" => GetExact(label, m)'
    BY <1>1, <1>3, <1>4, <2>1 DEF LocalsExact, GetExact, LoadLabels, BuildLabels
  <2>3. AppendExact(label, m)'
    BY <1>3, <1>4 DEF AppendExact, LoadLabels, BuildLabels, Stored
  <2>4. CompactExact(label, m)'
    BY <1>3, <1>4 DEF CompactExact, LoadLabels, BuildLabels, Gone
  <2> QED
    BY <1>4, <2>2, <2>3, <2>4 DEF LocalsExact
<1>5. label = "idle" /\ m.call = "get" => m.outcome # "done"
  BY <1>1, SearchKeeps
<1> QED
  BY <1>1, <1>2, <1>4, <1>5, StepXInv

LEMMA LoadXInv ==
  ASSUME CInv, LInv, XInv, Alone, NEW p \in Threads, LoadStep(p)
  PROVE  XInv'
<1>1. /\ Coherent /\ SixbExact(sixb) /\ SixbExact(sixbTmp) /\ SearchExact(pc[p], mine[p])
      /\ mine[p].call \in {"append", "compact", "get", "rebuild"}
  BY SearchFinds DEF LocalsExact
<1>2. PICK label, m : label = pc'[p] /\ m = mine'[p]
  OBVIOUS
<1>3. CASE ~RememberSnapshot(p)
  <2>1. UNCHANGED <<vars, sixbTmp>>
    BY <1>3 DEF LoadStep, LoadRuntime, LoadCached, ReadSixb, CompareHash
  <2>2. Coherent' /\ SixbExact(sixb') /\ SixbExact(sixbTmp')
    BY <1>1, <2>1 DEF Coherent, RuntimeExact, CacheExact, RecordsExact, FilesOK, LensOK,
                      UniqueRows, vars, disk, memory
  <2>3. SearchExact(label, m)'
    <3>0. CacheOf(chunks)' = CacheOf(chunks)
      BY <2>1 DEF vars, disk
    <3>1. CASE LoadRuntime(p) /\ runtime # None
      <4>1. label = "remember" /\ m.cache = ToCache(runtime)
        BY <1>2, <3>1, GotoIs, SetIs DEF LoadRuntime, LocalNames
      <4>2. m.cache = CacheOf(chunks)
        BY <1>1, <3>1, <4>1, ToFromCache DEF Coherent, RuntimeExact
      <4> QED
        BY <3>0, <4>1, <4>2 DEF SearchExact
    <3>2. CASE LoadRuntime(p) /\ runtime = None
      <4>1. label = "cached"
        BY <1>2, <3>2, GotoIs DEF LoadRuntime
      <4> QED
        BY <4>1 DEF SearchExact
    <3>3. CASE LoadCached(p) /\ sixbCache # None
      <4>1. label \in {"remove", "entry"} /\ m.cache = sixbCache
        BY <1>2, <3>3, GotoIs, SetIs DEF LoadCached, LocalNames, Loaded
      <4>2. m.cache = CacheOf(chunks)
        BY <1>1, <3>3, <4>1 DEF Coherent, CacheExact
      <4> QED
        BY <3>0, <4>1, <4>2 DEF SearchExact
    <3>4. CASE LoadCached(p) /\ sixbCache = None
      <4>1. label = "file"
        BY <1>2, <3>4, GotoIs DEF LoadCached
      <4> QED
        BY <4>1 DEF SearchExact
    <3>5. CASE ReadSixb(p) /\ sixb # None
      <4>1. label = "hash" /\ m.cache = sixb.cache /\ m.source = sixb.source
        BY <1>2, <3>5, GotoIs, SetIs DEF ReadSixb, LocalNames
      <4> QED
        BY <1>1, <3>5, <4>1 DEF SearchExact, SixbExact
    <3>6. CASE ReadSixb(p) /\ sixb = None
      <4>1. label = "scan"
        BY <1>2, <3>6, GotoIs DEF ReadSixb
      <4> QED
        BY <4>1 DEF SearchExact
    <3>7. CASE CompareHash(p) /\ mine[p].source = SourceOf(chunks)
      <4>1. pc[p] = "hash" /\ label = "remember" /\ m = mine[p]
        BY <1>2, <3>7, GotoIs DEF CompareHash
      <4>2. m.cache = CacheOf(Restored(SourceOf(chunks)))
        BY <1>1, <3>7, <4>1 DEF SearchExact
      <4>3. m.cache = CacheOf(chunks)
        BY <4>2, RestoredCache DEF LInv, LogOK
      <4> QED
        BY <3>0, <4>1, <4>3 DEF SearchExact
    <3>8. CASE CompareHash(p) /\ mine[p].source # SourceOf(chunks)
      <4>1. label = "scan"
        BY <1>2, <3>8, GotoIs DEF CompareHash
      <4> QED
        BY <4>1 DEF SearchExact
    <3> QED
      BY <1>3, <3>1, <3>2, <3>3, <3>4, <3>5, <3>6, <3>7, <3>8 DEF LoadStep
  <2> QED
    BY <1>2, <2>2, <2>3, SearchOwes
<1>4. CASE RememberSnapshot(p)
  <2>1. /\ pc[p] = "remember" /\ label \in {"remove", "entry"} /\ m = mine[p]
        /\ sixbCache' = mine[p].cache
        /\ UNCHANGED <<chunks, sixb, runtime, rowCache, chunkCache, chunkLen, sixbTmp>>
    BY <1>2, <1>4, GotoIs DEF RememberSnapshot, Loaded, disk, chunkCaches
  <2>2. m.cache = CacheOf(chunks)
    BY <1>1, <2>1 DEF SearchExact
  <2>3. Coherent' /\ SixbExact(sixb') /\ SixbExact(sixbTmp')
    BY <1>1, <2>1, <2>2 DEF Coherent, RuntimeExact, CacheExact, RecordsExact, FilesOK, LensOK,
                            UniqueRows
  <2>4. SearchExact(label, m)'
    BY <2>1, <2>2 DEF SearchExact
  <2> QED
    BY <1>2, <2>3, <2>4, SearchOwes
<1> QED
  BY <1>3, <1>4

LEMMA BuildXInv ==
  ASSUME CInv, LInv, XInv, Alone, NEW p \in Threads, BuildStep(p)
  PROVE  XInv'
<1>1. /\ Coherent /\ SixbExact(sixb) /\ SixbExact(sixbTmp) /\ SearchExact(pc[p], mine[p])
      /\ mine[p].call \in {"append", "compact", "get", "rebuild"}
      /\ chunks' = chunks
  BY SearchFinds DEF LocalsExact
<1>2. PICK label, m : label = pc'[p] /\ m = mine'[p]
  OBVIOUS
<1>3. UniqueRows(chunks') /\ CacheOf(chunks)' = CacheOf(chunks)
      /\ SourceOf(chunks)' = SourceOf(chunks)
  BY <1>1 DEF Coherent
<1>4. CASE Scan(p)
  <2>1. UNCHANGED <<vars, sixbTmp>>
    BY <1>4 DEF Scan
  <2>2. Coherent' /\ SixbExact(sixb') /\ SixbExact(sixbTmp')
    BY <1>1, <2>1 DEF Coherent, RuntimeExact, CacheExact, RecordsExact, FilesOK, LensOK,
                      UniqueRows, vars, disk, memory
  <2>3. CASE CanRebuild
    <3>1. /\ label = "records" /\ m.cache = CacheOf(chunks) /\ m.source = SourceOf(chunks)
          /\ m.records = LiveRecords(chunks)
      BY <1>2, <1>4, <2>3, GotoIs, SetIs DEF Scan, LocalNames
    <3>2. RecordsExact(m.records, chunks)
      BY <3>1, LiveRecordsExact
    <3>3. RecordsExact(m.records, chunks)'
      BY <1>1, <3>2 DEF RecordsExact
    <3>4. SearchExact(label, m)'
      BY <1>3, <3>1, <3>3 DEF SearchExact
    <3> QED
      BY <1>2, <2>2, <3>4, SearchOwes
  <2>4. CASE ~CanRebuild
    <3>1. label = "idle"
      BY <1>2, <1>4, <2>4, AnsweredIs DEF Scan, Return
    <3> QED
      BY <1>2, <2>2, <3>1, SearchOwes
  <2> QED
    BY <2>3, <2>4
<1>5. CASE RememberRecords(p)
  <2>1. /\ pc[p] = "records" /\ label = "tmp" /\ m = mine[p] /\ rowCache' = m.records
        /\ UNCHANGED <<sixb, runtime, sixbCache, chunkCache, chunkLen, sixbTmp>>
    BY <1>2, <1>5, GotoIs DEF RememberRecords, disk, chunkCaches
  <2>2. RecordsExact(m.records, chunks) /\ m.cache = CacheOf(chunks)
        /\ m.source = SourceOf(chunks)
    BY <1>1, <2>1 DEF SearchExact
  <2>3. RecordsExact(rowCache', chunks')
    BY <1>1, <2>1, <2>2 DEF RecordsExact
  <2>4. Coherent' /\ SixbExact(sixb') /\ SixbExact(sixbTmp')
    BY <1>1, <1>3, <2>1, <2>3 DEF Coherent, RuntimeExact, CacheExact, FilesOK, LensOK
  <2>5. SearchExact(label, m)'
    BY <1>3, <2>1, <2>2 DEF SearchExact
  <2> QED
    BY <1>2, <2>4, <2>5, SearchOwes
<1>6. CASE WriteTmp(p) \/ RenameTmp(p)
  <2>1. UNCHANGED memory
    BY <1>6 DEF WriteTmp, RenameTmp, vars
  <2>2. Coherent'
    BY <1>1, <1>3, <2>1 DEF Coherent, RuntimeExact, CacheExact, RecordsExact, FilesOK, LensOK,
                            memory
  <2>3. CASE WriteTmp(p)
    <3>1. /\ pc[p] = "tmp" /\ label = "rename" /\ m = mine[p] /\ sixb' = sixb
          /\ sixbTmp' = [source |-> m.source, cache |-> m.cache]
      BY <1>2, <2>3, GotoIs DEF WriteTmp, vars, disk
    <3>2. m.source = SourceOf(chunks) /\ m.cache = CacheOf(chunks)
      BY <1>1, <3>1 DEF SearchExact
    <3>3. SixbExact(sixbTmp')
      BY <3>1, <3>2, SixbBuilt DEF LInv, LogOK
    <3>4. SearchExact(label, m)'
      BY <1>3, <3>1, <3>2 DEF SearchExact
    <3> QED
      BY <1>1, <1>2, <2>2, <3>1, <3>3, <3>4, SearchOwes
  <2>4. CASE RenameTmp(p)
    <3>1. SixbExact(sixb') /\ SixbExact(sixbTmp')
      BY <1>1, <2>4 DEF RenameTmp, SixbExact
    <3>2. ASSUME label # "idle" PROVE SearchExact(label, m)'
      <4>1. pc[p] = "rename" /\ label = "snapshot" /\ m = mine[p]
        BY <1>2, <2>4, <3>2, GotoIs, AnsweredIs DEF RenameTmp, Return
      <4> QED
        BY <1>1, <1>3, <4>1 DEF SearchExact
    <3> QED
      BY <1>2, <2>2, <3>1, <3>2, SearchOwes
  <2> QED
    BY <1>6, <2>3, <2>4
<1>7. CASE RememberBuilt(p)
  <2>1. /\ pc[p] = "snapshot" /\ label = "project" /\ m = mine[p] /\ sixbCache' = m.cache
        /\ UNCHANGED <<sixb, runtime, rowCache, chunkCache, chunkLen, sixbTmp>>
    BY <1>2, <1>7, GotoIs DEF RememberBuilt, disk, chunkCaches
  <2>2. m.cache = CacheOf(chunks)
    BY <1>1, <2>1 DEF SearchExact
  <2>3. Coherent' /\ SixbExact(sixb') /\ SixbExact(sixbTmp')
    BY <1>1, <1>3, <2>1, <2>2 DEF Coherent, RuntimeExact, CacheExact, RecordsExact, FilesOK,
                                  LensOK
  <2>4. SearchExact(label, m)'
    BY <1>3, <2>1, <2>2 DEF SearchExact
  <2> QED
    BY <1>2, <2>3, <2>4, SearchOwes
<1>8. CASE RememberProjection(p)
  <2>1. /\ pc[p] = "project" /\ runtime' = FromCache(mine[p].cache)
        /\ UNCHANGED <<sixb, sixbCache, rowCache, chunkCache, chunkLen, sixbTmp>>
    BY <1>8 DEF RememberProjection, disk, chunkCaches
  <2>2. mine[p].cache = CacheOf(chunks)
    BY <1>1, <2>1 DEF SearchExact
  <2>3. Coherent' /\ SixbExact(sixb') /\ SixbExact(sixbTmp')
    BY <1>1, <1>3, <2>1, <2>2 DEF Coherent, RuntimeExact, CacheExact, RecordsExact, FilesOK,
                                  LensOK
  <2>4. ASSUME label # "idle" PROVE SearchExact(label, m)'
    <3>1. label \in {"finish", "remember"} /\ m = mine[p]
      BY <1>2, <1>8, <2>4, GotoIs, AnsweredIs DEF RememberProjection, Return
    <3> QED
      BY <1>3, <2>2, <3>1 DEF SearchExact
  <2> QED
    BY <1>2, <2>3, <2>4, SearchOwes
<1> QED
  BY <1>4, <1>5, <1>6, <1>7, <1>8 DEF BuildStep

(* The line a row pointer leads to. *)
LEMMA RowFound ==
  ASSUME IsFiles(chunks), Whole(chunks), NEW id \in DOMAIN ScanRows(chunks),
         NEW ptr, ptr = ScanRows(chunks)[id]
  PROVE  /\ ptr[1] \in DOMAIN chunks /\ ptr[2] \in DOMAIN chunks[ptr[1]].lines
         /\ At(chunks, ptr) = chunks[ptr[1]].lines[ptr[2]]
         /\ At(chunks, ptr).op = "put" /\ At(chunks, ptr).id = id
         /\ LiveTable(chunks)[id] = At(chunks, ptr).rec
<1>1. ptr \in LivePositions(chunks) /\ At(chunks, ptr).id = id
  BY ScanRowsIs
<1>2. ptr \in Positions(chunks) /\ At(chunks, ptr).op = "put"
  BY <1>1, LiveIs
<1>3. PICK c \in DOMAIN chunks : \E i \in DOMAIN chunks[c].lines : ptr = <<c, i>>
  BY <1>2, PositionsAre
<1>4. PICK i \in DOMAIN chunks[c].lines : ptr = <<c, i>>
  BY <1>3
<1>5. ptr[1] = c /\ ptr[2] = i
  BY <1>4
<1>6. LiveTable(chunks)[id] = At(chunks, ptr).rec
  BY LiveTableIs
<1> QED
  BY <1>1, <1>2, <1>5, <1>6 DEF At

LEMMA GetFinds ==
  ASSUME CInv, LInv, XInv, Alone, NEW p \in Threads, GetStep(p)
  PROVE  /\ roles' = roles
         /\ \A q \in Threads \ {p} : pc'[q] = pc[q] /\ mine'[q] = mine[q]
         /\ OnlyReaders /\ Stage' = "idle" /\ UNCHANGED <<chunks, sixb, sixbTmp>>
         /\ Coherent /\ SixbExact(sixb) /\ SixbExact(sixbTmp)
         /\ SearchExact(pc[p], mine[p]) /\ GetExact(pc[p], mine[p])
         /\ mine[p].id \in Ids /\ mine'[p].call = "get"
<1>1. PICK label, m : StepOK(p, label, m)
  BY GetCInv DEF LInv, LogOK
<1>2. pc'[p] = label /\ mine'[p] = m
  BY <1>1, MovedIs DEF StepOK, CInv
<1>3. m.call = mine[p].call /\ mine[p].call = "get" /\ pc[p] \notin {"idle", "lock"}
  BY <1>2, CallStays, GetIs DEF Step, GetLabels
<1>4. label # "lock"
  BY <1>1, <1>3 DEF StepOK, Inside, LoadLabels, BuildLabels, GetLabels
<1>5. /\ roles' = roles
      /\ \A q \in Threads \ {p} : pc'[q] = pc[q] /\ mine'[q] = mine[q]
      /\ OnlyReaders /\ Stage = "idle" /\ Stage' = "idle"
  BY <1>1, <1>3, <1>4, StageMoves
<1>6. Settled("idle")
  BY DEF Settled, Replaced, Gone, Stored
<1>7. Coherent
  BY <1>5, <1>6, SettledIs DEF XInv
<1>8. UNCHANGED <<chunks, sixb, sixbTmp>>
  BY DEF GetStep, Find, FindInSnapshot, ReadRecord, ReadChunk, OpenChunk, RememberLength,
         RememberBytes, Decode, vars, disk, memory
<1>9. mine[p].id \in Ids
  BY <1>3, Running DEF LocalsOK
<1> QED
  BY <1>2, <1>3, <1>5, <1>7, <1>8, <1>9 DEF XInv, LocalsExact

LEMMA GetOwes ==
  ASSUME CInv, LInv, XInv, Alone, NEW p \in Threads, GetStep(p),
         Coherent', NEW label, label = pc'[p], NEW m, m = mine'[p],
         label # "idle" => SearchExact(label, m) /\ GetExact(label, m),
         label = "idle" /\ m.outcome = "done" => m.answer \in m.may
  PROVE  XInv'
<1>1. /\ roles' = roles
      /\ \A q \in Threads \ {p} : pc'[q] = pc[q] /\ mine'[q] = mine[q]
      /\ OnlyReaders /\ Stage' = "idle" /\ UNCHANGED <<chunks, sixb, sixbTmp>>
      /\ SixbExact(sixb) /\ SixbExact(sixbTmp) /\ m.call = "get"
  BY GetFinds
<1>2. CachesAt(Stage)'
  BY DEF CachesAt, Coherent
<1>3. label # "idle" => LocalsExact(label, m)'
  BY <1>1 DEF LocalsExact, SearchExact, GetExact
<1>4. SixbExact(sixb') /\ SixbExact(sixbTmp')
  BY <1>1
<1> QED
  BY <1>1, <1>2, <1>3, <1>4, StepXInv

(* A row is found in the projection or the snapshot, or is not there. *)
LEMMA FindXInv ==
  ASSUME CInv, LInv, XInv, Alone, NEW p \in Threads, Find(p) \/ FindInSnapshot(p)
  PROVE  XInv'
<1> DEFINE id == mine[p].id
<1>1. /\ Coherent /\ SearchExact(pc[p], mine[p]) /\ LiveTable(chunks)[id] \in mine[p].may
      /\ id \in Ids /\ GetStep(p)
  BY GetFinds DEF GetStep, GetExact
<1>2. PICK label, m : label = pc'[p] /\ m = mine'[p]
  OBVIOUS
<1>3. UNCHANGED vars
  BY DEF Find, FindInSnapshot
<1>4. Coherent'
  BY <1>1, <1>3 DEF Coherent, RuntimeExact, CacheExact, RecordsExact, FilesOK, LensOK,
                    UniqueRows, vars, disk, memory
<1>5. CacheOf(chunks).rows = ScanRows(chunks)
  BY DEF CacheOf
<1>6. CASE Find(p) /\ runtime # None /\ id \in DOMAIN runtime.rows
  <2>1. /\ label = "row" /\ m.ptr = runtime.rows[id] /\ m.id = id /\ m.may = mine[p].may
    BY <1>2, <1>6, GotoIs, SetIs DEF Find, LocalNames
  <2>2. runtime.rows = ScanRows(chunks)
    BY <1>1, <1>5, <1>6 DEF Coherent, RuntimeExact, FromCache
  <2>3. SearchExact(label, m) /\ GetExact(label, m)
    BY <1>1, <1>6, <2>1, <2>2 DEF SearchExact, GetExact
  <2> QED
    BY <1>1, <1>2, <1>4, <2>1, <2>3, GetOwes
<1>7. CASE Find(p) /\ ~(runtime # None /\ id \in DOMAIN runtime.rows)
  <2>1. label = "load" /\ m = mine[p]
    BY <1>2, <1>7, GotoIs DEF Find
  <2>2. SearchExact(label, m) /\ GetExact(label, m)
    BY <1>1, <2>1 DEF SearchExact, GetExact
  <2> QED
    BY <1>1, <1>2, <1>4, <2>1, <2>2, GetOwes
<1>8. CASE FindInSnapshot(p)
  <2>1. mine[p].cache = CacheOf(chunks)
    BY <1>1, <1>8 DEF FindInSnapshot, SearchExact
  <2>2. CASE id \in DOMAIN mine[p].cache.rows
    <3>1. /\ label = "row" /\ m.ptr = mine[p].cache.rows[id] /\ m.id = id
          /\ m.may = mine[p].may
      BY <1>2, <1>8, <2>2, GotoIs, SetIs DEF FindInSnapshot, LocalNames
    <3>2. SearchExact(label, m) /\ GetExact(label, m)
      BY <1>1, <1>5, <2>1, <2>2, <3>1 DEF SearchExact, GetExact
    <3> QED
      BY <1>1, <1>2, <1>4, <3>1, <3>2, GetOwes
  <2>3. CASE id \notin DOMAIN mine[p].cache.rows
    <3>1. label = "idle" /\ m.answer = NoRecord /\ m.may = mine[p].may
      BY <1>2, <1>8, <2>3, AnsweredIs DEF FindInSnapshot, Return
    <3>2. LiveTable(chunks)[id] = NoRecord
      BY <1>1, <1>5, <2>1, <2>3, LiveTableIs DEF LInv, LogOK
    <3> QED
      BY <1>1, <1>2, <1>4, <3>1, <3>2, GetOwes
  <2> QED
    BY <2>2, <2>3
<1> QED
  BY <1>6, <1>7, <1>8

(* The record of a row: cached, or from the cached chunk or its file. *)
LEMMA ReadXInv ==
  ASSUME CInv, LInv, XInv, Alone, NEW p \in Threads,
         ReadRecord(p) \/ ReadChunk(p) \/ OpenChunk(p)
  PROVE  XInv'
<1> DEFINE id == mine[p].id
           ptr == mine[p].ptr
<1>1. /\ Coherent /\ LiveTable(chunks)[id] \in mine[p].may
      /\ id \in DOMAIN ScanRows(chunks) /\ ptr = ScanRows(chunks)[id] /\ GetStep(p)
  BY GetFinds DEF GetStep, GetExact, ReadRecord, ReadChunk, OpenChunk
<1>2. PICK label, m : label = pc'[p] /\ m = mine'[p]
  OBVIOUS
<1>3. UNCHANGED vars
  BY DEF ReadRecord, ReadChunk, OpenChunk
<1>4. Coherent'
  BY <1>1, <1>3 DEF Coherent, RuntimeExact, CacheExact, RecordsExact, FilesOK, LensOK,
                    UniqueRows, vars, disk, memory
<1>5. CASE ReadRecord(p) /\ id \in DOMAIN rowCache
  <2>1. label = "idle" /\ m.answer = rowCache[id] /\ m.may = mine[p].may
    BY <1>2, <1>5, AnsweredIs DEF ReadRecord, Return
  <2>2. rowCache[id] = LiveTable(chunks)[id]
    BY <1>1, <1>5, LiveTableIs DEF Coherent, RecordsExact, LInv, LogOK
  <2> QED
    BY <1>1, <1>2, <1>4, <2>1, <2>2, GetOwes
<1>6. CASE ReadRecord(p) /\ id \notin DOMAIN rowCache
  <2>1. label = "chunk" /\ m = mine[p]
    BY <1>2, <1>6, GotoIs DEF ReadRecord
  <2>2. SearchExact(label, m) /\ GetExact(label, m)
    BY <1>1, <2>1 DEF SearchExact, GetExact
  <2> QED
    BY <1>1, <1>2, <1>4, <2>1, <2>2, GetOwes
<1>7. ASSUME NEW file, file = chunks[ptr[1]], Set(p, [file |-> file]),
             label \in {"decode", "setlen"}
      PROVE  XInv'
  <2>1. m.id = id /\ m.ptr = ptr /\ m.may = mine[p].may /\ m.file = file
    BY <1>2, <1>7, SetIs DEF LocalNames
  <2>2. SearchExact(label, m) /\ GetExact(label, m)
    BY <1>1, <1>7, <2>1 DEF SearchExact, GetExact
  <2> QED
    BY <1>1, <1>2, <1>4, <1>7, <2>2, GetOwes
<1>8. CASE ReadChunk(p) /\ ptr[1] \in DOMAIN chunkCache
  <2>1. Set(p, [file |-> chunkCache[ptr[1]]]) /\ label = "decode"
    BY <1>2, <1>8, GotoIs DEF ReadChunk
  <2>2. chunkCache[ptr[1]] = chunks[ptr[1]]
    BY <1>1, <1>8 DEF Coherent, FilesOK
  <2> QED
    BY <1>7, <2>1, <2>2
<1>9. CASE ReadChunk(p) /\ ptr[1] \notin DOMAIN chunkCache
  <2>1. label = "open" /\ m = mine[p]
    BY <1>2, <1>9, GotoIs DEF ReadChunk
  <2>2. SearchExact(label, m) /\ GetExact(label, m)
    BY <1>1, <2>1 DEF SearchExact, GetExact
  <2> QED
    BY <1>1, <1>2, <1>4, <2>1, <2>2, GetOwes
<1>10. CASE OpenChunk(p) /\ ptr[1] \in DOMAIN chunks
  <2>1. Set(p, [file |-> chunks[ptr[1]]]) /\ label = "setlen"
    BY <1>2, <1>10, GotoIs DEF OpenChunk
  <2> QED
    BY <1>7, <2>1
<1>11. CASE OpenChunk(p) /\ ptr[1] \notin DOMAIN chunks
  <2>1. label = "idle" /\ m.outcome = "error"
    BY <1>2, <1>11, AnsweredIs DEF OpenChunk, Return
  <2> QED
    BY <1>1, <1>2, <1>4, <2>1, GetOwes
<1> QED
  BY <1>5, <1>6, <1>8, <1>9, <1>10, <1>11

(* What a get leaves in the caches. *)
LEMMA FillFinds ==
  ASSUME CInv, LInv, XInv, Alone, NEW p \in Threads,
         RememberLength(p) \/ RememberBytes(p) \/ Decode(p),
         NEW id, id = mine[p].id, NEW ptr, ptr = mine[p].ptr, NEW file, file = mine[p].file
  PROVE  /\ GetStep(p) /\ Coherent /\ SharedOK' /\ chunks' = chunks
         /\ SearchExact(pc[p], mine[p]) /\ GetExact(pc[p], mine[p])
         /\ LiveTable(chunks)[id] \in mine[p].may
         /\ id \in DOMAIN ScanRows(chunks) /\ ptr = ScanRows(chunks)[id]
         /\ ptr[1] \in DOMAIN chunks /\ file = chunks[ptr[1]] /\ ptr[2] \in DOMAIN file.lines
         /\ file.lines[ptr[2]].op = "put" /\ file.lines[ptr[2]].id = id
         /\ LiveTable(chunks)[id] = file.lines[ptr[2]].rec
         /\ At(chunks, ScanRows(chunks)[id]) = file.lines[ptr[2]]
<1>1. GetStep(p) /\ pc[p] \in {"setlen", "setbytes", "decode"}
  BY DEF GetStep, RememberLength, RememberBytes, Decode
<1>2. Coherent /\ SearchExact(pc[p], mine[p]) /\ GetExact(pc[p], mine[p]) /\ chunks' = chunks
  BY <1>1, GetFinds
<1>3. /\ LiveTable(chunks)[id] \in mine[p].may
      /\ id \in DOMAIN ScanRows(chunks) /\ ptr = ScanRows(chunks)[id]
      /\ file = chunks[ptr[1]]
  BY <1>1, <1>2 DEF GetExact
<1>4. /\ ptr[1] \in DOMAIN chunks /\ ptr[2] \in DOMAIN chunks[ptr[1]].lines
      /\ At(chunks, ptr) = chunks[ptr[1]].lines[ptr[2]]
      /\ At(chunks, ptr).op = "put" /\ At(chunks, ptr).id = id
      /\ LiveTable(chunks)[id] = At(chunks, ptr).rec
  BY <1>3, RowFound DEF LInv, LogOK
<1>5. SharedOK'
  <2>1. IsFiles(chunks')
    BY <1>2 DEF LInv, LogOK
  <2> QED
    BY <1>1, <2>1, StepTypes DEF Step, CInv
<1> QED
  BY <1>1, <1>2, <1>3, <1>4, <1>5

LEMMA FillXInv ==
  ASSUME CInv, LInv, XInv, Alone, NEW p \in Threads,
         RememberLength(p) \/ RememberBytes(p) \/ Decode(p)
  PROVE  XInv'
<1>1. PICK label, m, ptr, file :
        label = pc'[p] /\ m = mine'[p] /\ ptr = mine[p].ptr /\ file = mine[p].file
  OBVIOUS
<1>2. PICK id : id = mine[p].id
  OBVIOUS
<1>3. /\ GetStep(p) /\ Coherent /\ SharedOK' /\ chunks' = chunks
      /\ SearchExact(pc[p], mine[p]) /\ GetExact(pc[p], mine[p])
      /\ LiveTable(chunks)[id] \in mine[p].may
      /\ id \in DOMAIN ScanRows(chunks)
      /\ ptr[1] \in DOMAIN chunks /\ file = chunks[ptr[1]] /\ ptr[2] \in DOMAIN file.lines
      /\ file.lines[ptr[2]].op = "put" /\ file.lines[ptr[2]].id = id
      /\ LiveTable(chunks)[id] = file.lines[ptr[2]].rec
      /\ At(chunks, ScanRows(chunks)[id]) = file.lines[ptr[2]]
  BY <1>1, <1>2, FillFinds
<1>4. /\ UniqueRows(chunks') /\ RuntimeExact(runtime, chunks') /\ CacheExact(sixbCache, chunks')
      /\ RecordsExact(rowCache, chunks')
      /\ FilesOK(chunkCache, chunks') /\ LensOK(chunkLen, chunks')
  BY SMTT(30), <1>3 DEF Coherent
<1>5. CASE RememberLength(p)
  <2>1. /\ label = "setbytes" /\ m = mine[p] /\ pc[p] = "setlen"
        /\ chunkLen' = Put(chunkLen, ptr[1], Len(file.lines))
        /\ runtime' = runtime /\ sixbCache' = sixbCache /\ rowCache' = rowCache
        /\ chunkCache' = chunkCache
    BY <1>1, <1>5, GotoIs DEF RememberLength, caches
  <2>2. LensOK(chunkLen', chunks')
    <3>1. \A c \in DOMAIN chunkLen' : c \in DOMAIN chunks /\ chunkLen'[c] = Len(chunks[c].lines)
      BY <1>3, <2>1 DEF Put, Coherent, LensOK
    <3> QED
      BY <1>3, <3>1 DEF LensOK, SharedOK
  <2>3. Coherent'
    BY <1>4, <2>1, <2>2 DEF Coherent
  <2>4. SearchExact(label, m) /\ GetExact(label, m)
    BY SMTT(30), <1>3, <2>1 DEF SearchExact, GetExact
  <2> QED
    BY <1>1, <1>3, <2>1, <2>3, <2>4, GetOwes
<1>6. CASE RememberBytes(p)
  <2>1. /\ label = "decode" /\ m = mine[p] /\ pc[p] = "setbytes"
        /\ chunkCache' = Put(chunkCache, ptr[1], file)
        /\ runtime' = runtime /\ sixbCache' = sixbCache /\ rowCache' = rowCache
        /\ chunkLen' = chunkLen
    BY <1>1, <1>6, GotoIs DEF RememberBytes, caches
  <2>2. FilesOK(chunkCache', chunks')
    <3>1. \A c \in DOMAIN chunkCache' : c \in DOMAIN chunks /\ chunkCache'[c] = chunks[c]
      BY <1>3, <2>1 DEF Put, Coherent, FilesOK
    <3> QED
      BY <1>3, <3>1 DEF FilesOK, SharedOK
  <2>3. Coherent'
    BY <1>4, <2>1, <2>2 DEF Coherent
  <2>4. SearchExact(label, m) /\ GetExact(label, m)
    BY <1>3, <2>1 DEF SearchExact, GetExact
  <2> QED
    BY <1>1, <1>3, <2>1, <2>3, <2>4, GetOwes
<1>7. CASE Decode(p)
  <2>1. PICK line : line = file.lines[ptr[2]]
    OBVIOUS
  <2>2. /\ Return(p, "done", line.rec) /\ rowCache' = Put(rowCache, line.id, line.rec)
        /\ runtime' = runtime /\ sixbCache' = sixbCache
        /\ chunkCache' = chunkCache /\ chunkLen' = chunkLen
    <3>1. mine[p].ptr[2] = ptr[2] /\ mine[p].file.lines = file.lines
      BY <1>1
    <3>2. ptr[2] \in DOMAIN file.lines /\ line.op = "put"
      BY <1>3, <2>1
    <3>3. Return(p, "done", line.rec) /\ rowCache' = Put(rowCache, line.id, line.rec)
      BY <1>7, <2>1, <3>1, <3>2, Zenon DEF Decode
    <3> QED
      BY <1>7, <3>3 DEF Decode, chunkCaches
  <2>3. label = "idle" /\ m.answer = line.rec /\ m.may = mine[p].may
    BY <1>1, <2>2, AnsweredIs DEF Return
  <2>4. RecordsExact(rowCache', chunks')
    <3>1. ASSUME NEW x \in DOMAIN rowCache'
          PROVE  x \in DOMAIN ScanRows(chunks) /\ rowCache'[x] = At(chunks, ScanRows(chunks)[x]).rec
      <4>1. CASE x = line.id
        BY <1>3, <2>1, <2>2, <4>1 DEF Put
      <4>2. CASE x # line.id
        BY <1>3, <2>2, <3>1, <4>2 DEF Put, Coherent, RecordsExact
      <4> QED
        BY SMTT(30), <4>1, <4>2
    <3> QED
      BY <1>3, <3>1 DEF RecordsExact
  <2>5. Coherent'
    BY <1>4, <2>2, <2>4 DEF Coherent
  <2>6. LiveTable(chunks)[id] = line.rec
    BY <1>3, <2>1
  <2> QED
    BY <1>1, <1>3, <2>3, <2>5, <2>6, GetOwes
<1> QED
  BY <1>5, <1>6, <1>7

LEMMA CallXInv ==
  ASSUME CInv, LInv, XInv, Alone, NEW p \in Threads, Call(p)
  PROVE  XInv'
<1>1. /\ pc[p] = "idle" /\ roles' = roles /\ writer' = writer /\ sixbTmp' = sixbTmp
      /\ UNCHANGED <<chunks, sixb, runtime, sixbCache, rowCache, chunkCache, chunkLen>>
      /\ \A q \in Threads \ {p} : pc'[q] = pc[q] /\ mine'[q] = mine[q]
  <2>1. DOMAIN mine = Threads /\ DOMAIN pc = Threads
    BY DEF CInv, ControlOK
  <2> QED
    BY <2>1 DEF Call, Begin, vars, disk, memory
<1>2. writer # p
  BY <1>1 DEF CInv, ThreadOK, Writing
<1>3. Stage' = Stage
  <2>1. writer \in Threads \cup {None}
    BY DEF CInv, ControlOK
  <2> QED
    BY <1>1, <1>2, <2>1 DEF Stage
<1>4. CachesAt(Stage)'
  BY <1>1, <1>3 DEF XInv, CachesAt, UniqueRows, RuntimeExact, CacheExact, RecordsExact, FilesOK,
                    LensOK
<1>5. PICK label, m : label = pc'[p] /\ m = mine'[p]
  OBVIOUS
<1>6. ASSUME NEW l, NEW locals, Begin(p, l, locals), "call" \in DOMAIN locals
      PROVE  label = l /\ m = Updated(NoLocals, locals) /\ m.call = locals.call
  <2>1. DOMAIN mine = Threads /\ DOMAIN pc = Threads
    BY DEF CInv, ControlOK
  <2>2. label = l /\ m = Updated(NoLocals, locals)
    BY <1>5, <1>6, <2>1 DEF Begin
  <2>3. m.call = locals.call
    BY <1>6, <2>2, NoLocalsNames DEF Updated, LocalNames
  <2> QED
    BY <2>2, <2>3
<1>7. label # "idle" /\ LocalsExact(label, m)
  <2>1. CASE label = "lock" /\ m.call \in {"append", "compact"}
    BY <2>1 DEF LocalsExact, SearchExact, AppendExact, CompactExact, Stored, Gone
  <2>2. CASE label = "scan" /\ m.call = "rebuild"
    BY <2>2 DEF LocalsExact, SearchExact
  <2>3. ASSUME NEW id \in Ids,
               Begin(p, "find", [call |-> "get", id |-> id, may |-> ValuesNow(id)])
        PROVE  label # "idle" /\ LocalsExact(label, m)
    <3>1. label = "find" /\ m.call = "get" /\ m.id = id /\ m.may = ValuesNow(id)
      BY <1>6, <2>3, NoLocalsNames DEF Updated, LocalNames
    <3>2. LiveTable(chunks)[id] \in m.may
      BY <3>1 DEF ValuesNow
    <3> QED
      BY <3>1, <3>2 DEF LocalsExact, SearchExact, GetExact
  <2>4. ASSUME NEW b, NEW mode,
               Begin(p, "lock", [call |-> "append", batch |-> b, mode |-> mode])
        PROVE  label = "lock" /\ m.call = "append"
    BY <1>6, <2>4
  <2>5. ASSUME Begin(p, "lock", [call |-> "compact"])
        PROVE  label = "lock" /\ m.call = "compact"
    BY <1>6, <2>5
  <2>6. ASSUME Begin(p, "scan", [call |-> "rebuild"])
        PROVE  label = "scan" /\ m.call = "rebuild"
    BY <1>6, <2>6
  <2> QED
    BY <2>1, <2>2, <2>3, <2>4, <2>5, <2>6 DEF Call
<1>8. LocalsExact(label, m)'
  BY <1>1, <1>7 DEF LocalsExact, SearchExact, GetExact, AppendExact, CompactExact, Ideal,
                    Extended
<1>9. SixbExact(sixb') /\ SixbExact(sixbTmp')
  BY <1>1 DEF XInv
<1> QED
  BY <1>1, <1>4, <1>5, <1>7, <1>8, <1>9, StepXInv

LEMMA LockXInv ==
  ASSUME CInv, LInv, XInv, Alone, NEW p \in Threads, Lock(p)
  PROVE  XInv'
<1>1. PICK label, m : StepOK(p, label, m)
  BY LockCInv
<1>2. /\ pc'[p] = label /\ mine'[p] = m /\ roles' = roles
      /\ \A q \in Threads \ {p} : pc'[q] = pc[q] /\ mine'[q] = mine[q]
  BY <1>1, MovedIs DEF StepOK, CInv
<1>3. /\ pc[p] = "lock" /\ writer = None /\ writer' = p /\ p # None
      /\ label \in {"take", "plan"} /\ m = mine[p]
      /\ UNCHANGED <<chunks, sixb, runtime, sixbCache, rowCache, chunkCache, chunkLen, sixbTmp>>
  BY <1>2, GotoIs, ThreadsAssumption DEF Lock, disk, caches, chunkCaches
<1>4. Stage = "idle" /\ Stage' = label
  BY <1>2, <1>3 DEF Stage
<1>5. Settled("idle") /\ Settled(label)
  BY <1>3 DEF Settled, Replaced, Gone, Stored
<1>6. Coherent
  BY <1>4, <1>5, SettledIs DEF XInv
<1>7. Coherent'
  BY <1>3, <1>6 DEF Coherent, RuntimeExact, CacheExact, RecordsExact, FilesOK, LensOK,
                    UniqueRows
<1>8. CachesAt(Stage)'
  BY <1>7 DEF CachesAt, Coherent
<1>9. m.call \in {"append", "compact"}
  BY <1>3, Running DEF Inside, LoadLabels, BuildLabels, GetLabels
<1>10. LocalsExact(label, m)'
  BY <1>3, <1>9 DEF LocalsExact, SearchExact, AppendExact, CompactExact, Stored, Gone
<1>11. SixbExact(sixb') /\ SixbExact(sixbTmp') /\ label # "idle"
  BY <1>3 DEF XInv
<1> QED
  BY <1>2, <1>3, <1>8, <1>10, <1>11, StepXInv

-----------------------------------------------------------------------------
(* A writer's step, where only writers are at work. *)

WriterLabels ==
  {"take", "load", "validate", "target", "old", "write", "bytes", "length", "forget",
   "publish", "rows", "count", "plan", "unlink", "install", "bytes0", "length0",
   "unproject", "scan", "idle"}

LEMMA WriterMoves ==
  ASSUME CInv, LInv, Alone, NEW p \in Threads, AppendStep(p) \/ CompactStep(p)
  PROVE  /\ roles' = roles /\ sixb' = sixb /\ sixbTmp' = sixbTmp
         /\ \A q \in Threads \ {p} : pc'[q] = pc[q] /\ mine'[q] = mine[q]
         /\ OnlyWriters /\ writer = p /\ Stage = pc[p] /\ Stage' = pc'[p]
         /\ pc'[p] \in WriterLabels /\ pc[p] \notin {"idle", "lock"}
         /\ mine'[p].call = mine[p].call /\ mine[p].call \in {"append", "compact"}
         /\ SharedOK'
<1>1. sixb' = sixb /\ sixbTmp' = sixbTmp
  BY DEF AppendStep, CompactStep, Take, TakeSnapshot, Validate, ChooseTarget, Apply, WriteLines,
         UpdateBytes, UpdateLength, ForgetSnapshot, Publish, UpdateRecords, Count,
         PlanCompaction, RemoveChunk, InstallChunk, ReplaceBytes, ReplaceLengths,
         ForgetProjection, FinishCompaction, vars, disk
<1>2. pc[p] \notin {"idle", "lock"} /\ mine[p].call \in {"append", "compact"}
  <2>1. CASE ForgetSnapshot(p)
    BY <2>1, Running DEF ForgetSnapshot, Inside, LoadLabels, BuildLabels, GetLabels
  <2>2. CASE AppendStep(p) /\ ~ForgetSnapshot(p)
    BY <2>2, AppendIs DEF AppendStep, Take, TakeSnapshot, Validate, ChooseTarget, Apply,
                          WriteLines, UpdateBytes, UpdateLength, Publish, UpdateRecords, Count,
                          AppendLabels
  <2>3. CASE CompactStep(p)
    BY <2>3, CompactIs DEF CompactStep, PlanCompaction, RemoveChunk, InstallChunk, ReplaceBytes,
                           ReplaceLengths, ForgetProjection, FinishCompaction, CompactLabels
  <2> QED
    BY <2>1, <2>2, <2>3
<1>3. SharedOK' /\ CInv'
  <2>1. LInv'
    BY StepLog DEF Step
  <2>2. IsFiles(chunks')
    BY <2>1 DEF LInv, LogOK
  <2> QED
    BY <2>2, StepTypes DEF Step, CInv
<1>4. mine'[p].call = mine[p].call
  BY CallStays DEF Step
<1>5. OnlyWriters /\ writer = p /\ p # None
  BY <1>2, Sides, Running DEF Writing
<1>6. pc'[p] \in WriterLabels
  <2>1. ASSUME NEW label, Goto(p, label) PROVE pc'[p] = label
    BY <2>1, GotoIs
  <2>2. ASSUME NEW outcome, NEW answer, Answered(p, outcome, answer) PROVE pc'[p] = "idle"
    BY <2>2, AnsweredIs
  <2>3. CASE AppendStep(p)
    BY <2>1, <2>2, <2>3 DEF AppendStep, Take, TakeSnapshot, Validate, ChooseTarget, Apply,
                            WriteLines, UpdateBytes, UpdateLength, ForgetSnapshot, Publish,
                            UpdateRecords, Count, Return, WriterLabels
  <2>4. CASE CompactStep(p)
    BY <2>1, <2>2, <2>4 DEF CompactStep, PlanCompaction, RemoveChunk, InstallChunk,
                            ReplaceBytes, ReplaceLengths, ForgetProjection, FinishCompaction,
                            Return, WriterLabels
  <2> QED
    BY <2>3, <2>4
<1>7. CASE WriteLines(p)
  <2>1. /\ roles' = roles /\ writer' = writer /\ pc'[p] = "bytes"
        /\ \A q \in Threads \ {p} : pc'[q] = pc[q]
    <3>1. DOMAIN pc = Threads
      BY DEF CInv, ControlOK
    <3> QED
      BY <1>7, <3>1 DEF WriteLines, Goto, control, turns
  <2>2. \A q \in Threads \ {p} : mine'[q] = mine[q]
    <3>1. PICK after : mine' = Witnessed(after, [mine EXCEPT ![p].before = LiveTable(chunks)])
      BY <1>7 DEF WriteLines
    <3>2. \A q \in Threads : ~(mine[q].call = "get" /\ pc[q] # "idle")
      BY <1>5, Running DEF OnlyWriters, Nobody
    <3>3. DOMAIN mine = Threads
      BY DEF CInv, ControlOK
    <3> QED
      BY <3>1, <3>2, <3>3 DEF Witnessed
  <2> QED
    BY <1>1, <1>2, <1>3, <1>4, <1>5, <1>6, <2>1, <2>2 DEF Stage
<1>8. CASE ~WriteLines(p)
  <2>1. PICK label, m : StepOK(p, label, m)
    BY <1>8, StepMoves DEF Step
  <2>2. pc'[p] = label /\ mine'[p] = m
    BY <2>1, MovedIs DEF StepOK, CInv
  <2>3. m.call = mine[p].call /\ label # "lock"
    BY <1>4, <1>6, <2>2 DEF WriterLabels
  <2>4. /\ roles' = roles /\ Stage = pc[p] /\ Stage' = label
        /\ \A q \in Threads \ {p} : pc'[q] = pc[q] /\ mine'[q] = mine[q]
    BY <1>2, <2>1, <2>3, StageMoves
  <2> QED
    BY <1>1, <1>2, <1>3, <1>4, <1>5, <1>6, <2>2, <2>4
<1> QED
  BY <1>7, <1>8

(* What the invariant says of the caches and the locals of a writer. *)
LEMMA WriterHas ==
  ASSUME CInv, LInv, XInv, Alone, NEW p \in Threads, AppendStep(p) \/ CompactStep(p),
         NEW label, label = pc[p], NEW m, m = mine[p]
  PROVE  /\ CachesAt(label) /\ SearchExact(label, m)
         /\ m.call = "append" => AppendExact(label, m)
         /\ m.call = "compact" => CompactExact(label, m)
         /\ Settled(label) => Coherent
         /\ LogOK(chunks)
<1>1. Stage = label /\ label # "idle"
  BY WriterMoves
<1>2. CachesAt(label) /\ LocalsExact(label, m)
  BY <1>1 DEF XInv
<1> QED
  BY <1>2, SettledIs DEF LocalsExact, LInv

(* What the step of a writer owes to the invariant. *)
LEMMA WriterOwes ==
  ASSUME CInv, LInv, XInv, Alone, NEW p \in Threads, AppendStep(p) \/ CompactStep(p),
         NEW label, label = pc'[p], NEW m, m = mine'[p],
         CachesAt(label)',
         label # "idle" /\ m.call = "append" => AppendExact(label, m)',
         label # "idle" /\ m.call = "compact" => CompactExact(label, m)'
  PROVE  XInv'
<1>1. /\ roles' = roles /\ sixb' = sixb /\ sixbTmp' = sixbTmp
      /\ \A q \in Threads \ {p} : pc'[q] = pc[q] /\ mine'[q] = mine[q]
      /\ OnlyWriters /\ writer = p /\ Stage' = label
      /\ label \in WriterLabels /\ pc[p] # "idle"
      /\ m.call = mine[p].call /\ m.call \in {"append", "compact"}
  BY WriterMoves
<1>2. label # "idle" => LocalsExact(label, m)'
  BY <1>1 DEF LocalsExact, SearchExact, WriterLabels
<1>3. CachesAt(Stage)'
  BY <1>1
<1>4. SixbExact(sixb') /\ SixbExact(sixbTmp')
  BY <1>1 DEF XInv
<1> QED
  BY <1>1, <1>2, <1>3, <1>4, StepXInv

(* The caches as a settled step leaves them. *)
LEMMA CoherentAt ==
  ASSUME Coherent', NEW label
  PROVE  CachesAt(label)'
BY DEF Coherent, CachesAt

(* The projection is taken from memory, or from the snapshot. *)
LEMMA TakeXInv ==
  ASSUME CInv, LInv, XInv, Alone, NEW p \in Threads, Take(p) \/ TakeSnapshot(p)
  PROVE  XInv'
<1>1. PICK label, m : label = pc'[p] /\ m = mine'[p]
  OBVIOUS
<1>2. AppendStep(p) /\ pc[p] \in {"take", "remove"} /\ Settled(pc[p])
  BY DEF AppendStep, Take, TakeSnapshot, Settled, Replaced, Gone, Stored
<1>3. Coherent /\ m.call = mine[p].call /\ mine[p].call = "append"
  BY <1>1, <1>2, WriterHas, WriterMoves, AppendIs DEF AppendLabels
<1>4. /\ chunks' = chunks /\ rowCache' = rowCache /\ chunkCache' = chunkCache
      /\ chunkLen' = chunkLen /\ runtime' \in {runtime, None} /\ sixbCache' \in {sixbCache, None}
  BY DEF Take, TakeSnapshot, disk, chunkCaches
<1>5. Coherent'
  <2>1. RuntimeExact(runtime', chunks) /\ CacheExact(sixbCache', chunks)
    BY <1>3, <1>4 DEF Coherent, RuntimeExact, CacheExact
  <2> QED
    BY <1>3, <1>4, <2>1 DEF Coherent
<1>6. CASE Take(p) /\ runtime = None
  <2>1. label = "load"
    BY <1>1, <1>6, GotoIs DEF Take
  <2>2. AppendExact(label, m)'
    BY <2>1 DEF AppendExact, Stored
  <2> QED
    BY <1>1, <1>2, <1>3, <1>5, <2>2, CoherentAt, WriterOwes
<1>7. CASE ~(Take(p) /\ runtime = None)
  <2>1. /\ label = "validate"
        /\ \/ m.proj = runtime /\ runtime # None
           \/ m.proj = FromCache(sixbCache) /\ sixbCache # None
    <3>1. ASSUME NEW locals, Set(p, locals), "proj" \in DOMAIN locals
          PROVE  m.proj = locals.proj
      BY <1>1, <3>1, SetIs DEF LocalNames
    <3>2. CASE Take(p)
      BY <1>1, <1>7, <3>1, <3>2, GotoIs DEF Take
    <3>3. CASE TakeSnapshot(p)
      BY <1>1, <3>1, <3>3, GotoIs DEF TakeSnapshot
    <3> QED
      BY <3>2, <3>3
  <2>2. m.proj = FromCache(CacheOf(chunks))
    BY <1>3, <2>1 DEF Coherent, RuntimeExact, CacheExact
  <2>3. AppendExact(label, m)'
    BY <1>4, <2>1, <2>2 DEF AppendExact, Stored
  <2> QED
    BY <1>1, <1>2, <1>3, <1>5, <2>3, CoherentAt, WriterOwes
<1> QED
  BY <1>6, <1>7

(* An accepted batch leaves unique keys unique. *)
LEMMA ValidateXInv ==
  ASSUME CInv, LInv, XInv, Alone, NEW p \in Threads, Validate(p)
  PROVE  XInv'
<1>1. PICK label, m : label = pc'[p] /\ m = mine'[p]
  OBVIOUS
<1>2. AppendStep(p) /\ pc[p] = "validate" /\ Settled(pc[p])
  BY DEF AppendStep, Validate, Settled, Replaced, Gone, Stored
<1>3. Coherent /\ AppendExact("validate", mine[p]) /\ m.call = mine[p].call /\ m.call = "append"
  BY <1>1, <1>2, WriterHas, WriterMoves, AppendIs DEF AppendLabels
<1>4. /\ chunks' = chunks /\ rowCache' = rowCache /\ chunkCache' = chunkCache
      /\ chunkLen' = chunkLen /\ runtime' = runtime /\ sixbCache' = sixbCache
  BY DEF Validate, disk, caches, chunkCaches
<1>5. Coherent'
  BY <1>3, <1>4 DEF Coherent
<1>6. CASE Accepts(mine[p].proj, mine[p].batch, mine[p].mode)
  <2>1. label = "target" /\ m.proj = mine[p].proj /\ m.batch = mine[p].batch
    BY <1>1, <1>6, GotoIs, SetIs DEF Validate, LocalNames
  <2>2. m.proj = FromCache(CacheOf(chunks)) /\ NoUniqueConflict(m.proj, m.batch)
    BY <1>3, <1>6, <2>1 DEF AppendExact, Accepts
  <2>3. AppendExact(label, m)'
    BY <1>4, <2>1, <2>2 DEF AppendExact, Stored
  <2> QED
    BY <1>1, <1>2, <1>3, <1>5, <2>3, CoherentAt, WriterOwes
<1>7. CASE ~Accepts(mine[p].proj, mine[p].batch, mine[p].mode)
  <2>1. label = "idle"
    BY <1>1, <1>7, AnsweredIs DEF Validate, Return
  <2> QED
    BY <1>1, <1>2, <1>5, <2>1, CoherentAt, WriterOwes
<1> QED
  BY <1>6, <1>7

(* The lengths that append_target remembers, and the offset it takes from   *)
(* them, are those of the files.                                           *)
LEMMA TargetExact ==
  ASSUME IsFiles(chunks), LensOK(chunkLen, chunks), CountersLog,
         CountersOK(meta, nextTx, nextChunk),
         NEW n \in Nat, NEW target, target = Target(n)
  PROVE  /\ PartialOn(Chunk, Nat, target.lens) => LensOK(target.lens, chunks)
         /\ target.offset = Ideal(target).offset
<1> DEFINE next    == NextChunkCounter
           current == next - 1
           exists  == next > 0 /\ current \in DOMAIN chunks
           len     == IF current \in DOMAIN chunkLen THEN chunkLen[current]
                                                     ELSE Len(chunks[current].lines)
           fits    == exists /\ len + n <= ChunkLimit
<1>1. /\ target.chunk = (IF fits THEN current ELSE next)
      /\ target.isNew = ~fits
      /\ target.offset = (IF fits THEN len ELSE 0)
      /\ target.lens = (IF exists THEN [c \in DOMAIN chunkLen \cup {current} |->
                                          IF c = current THEN len ELSE chunkLen[c]]
                                  ELSE chunkLen)
  <2> HIDE DEF next
  <2>1. target = TargetFrom(next, chunkLen, n)
    BY DEF Target, next
  <2> QED
    BY <2>1 DEF TargetFrom
<1>2. exists => len = Len(chunks[current].lines)
  BY DEF LensOK
<1> HIDE DEF len, exists, current
<1>3. \A c \in DOMAIN target.lens : c \in DOMAIN chunks /\ target.lens[c] = Len(chunks[c].lines)
  <2>1. CASE exists
    <3>1. current \in DOMAIN chunks
      BY <2>1 DEF exists
    <3> QED
      BY <1>1, <1>2, <2>1, <3>1 DEF LensOK
  <2>2. CASE ~exists
    BY <1>1, <2>2 DEF LensOK
  <2> QED
    BY <2>1, <2>2
<1>4. target.offset = Ideal(target).offset
  BY <1>1, <1>2 DEF Ideal
<1> QED
  BY <1>3, <1>4 DEF LensOK

LEMMA TargetXInv ==
  ASSUME CInv, LInv, XInv, Alone, NEW p \in Threads, ChooseTarget(p)
  PROVE  XInv'
<1>1. PICK label, m : label = pc'[p] /\ m = mine'[p]
  OBVIOUS
<1>2. AppendStep(p) /\ pc[p] = "target" /\ Settled(pc[p])
  BY DEF AppendStep, ChooseTarget, Settled, Replaced, Gone, Stored
<1>3. /\ Coherent /\ AppendExact("target", mine[p]) /\ m.call = mine[p].call
      /\ m.call = "append" /\ Len(mine[p].batch) \in Nat /\ writer = p /\ SharedOK /\ SharedOK'
      /\ IsFiles(chunks)
  BY <1>1, <1>2, WriterHas, WriterMoves, AppendIs DEF AppendLabels, CInv, LogOK
<1>4. PICK target : target = Target(Len(mine[p].batch))
  OBVIOUS
<1>5. /\ chunks' = chunks /\ rowCache' = rowCache /\ chunkCache' = chunkCache
      /\ chunkLen' = target.lens /\ runtime' = runtime /\ sixbCache' = sixbCache
  BY <1>4 DEF ChooseTarget, disk, caches
<1>6. CountersLog
  BY <1>2, <1>3, WriterFinds DEF Busy
<1>7. /\ PartialOn(Chunk, Nat, target.lens) => LensOK(target.lens, chunks)
      /\ target.offset = Ideal(target).offset
  BY <1>3, <1>4, <1>6, TargetExact DEF Coherent, SharedOK
<1>8. Coherent'
  <2>1. LensOK(chunkLen', chunks')
    BY <1>3, <1>5, <1>7 DEF SharedOK
  <2> QED
    BY <1>3, <1>5, <2>1 DEF Coherent
<1>9. CASE Usable(target)
  <2>1. label = "old" /\ m.proj = mine[p].proj /\ m.batch = mine[p].batch /\ m.target = target
    <3>1. Set(p, [target |-> target]) /\ Goto(p, "old")
      BY <1>4, <1>9 DEF ChooseTarget
    <3> QED
      BY <1>1, <3>1, GotoIs, SetIs DEF LocalNames
  <2>2. m.proj = FromCache(CacheOf(chunks)) /\ NoUniqueConflict(m.proj, m.batch)
    BY <1>3, <2>1 DEF AppendExact
  <2>3. Ideal(target)' = Ideal(target)
    BY <1>5 DEF Ideal
  <2>4. AppendExact(label, m)'
    BY <1>5, <1>7, <2>1, <2>2, <2>3 DEF AppendExact, Stored
  <2> QED
    BY <1>1, <1>2, <1>3, <1>8, <2>4, CoherentAt, WriterOwes
<1>10. CASE ~Usable(target)
  <2>1. label = "idle"
    BY <1>1, <1>4, <1>10, AnsweredIs DEF ChooseTarget, Return
  <2> QED
    BY <1>1, <1>2, <1>8, <2>1, CoherentAt, WriterOwes
<1> QED
  BY <1>9, <1>10

(* The projection of a batch is computed before its lines are written. *)
LEMMA ApplyXInv ==
  ASSUME CInv, LInv, XInv, Alone, NEW p \in Threads, Apply(p)
  PROVE  XInv'
<1>1. PICK label, m, old : label = pc'[p] /\ m = mine'[p] /\ old = mine[p]
  OBVIOUS
<1>2. AppendStep(p) /\ pc[p] = "old" /\ Settled(pc[p])
  BY DEF AppendStep, Apply, Settled, Replaced, Gone, Stored
<1>3. /\ Coherent /\ AppendExact("old", old) /\ m.call = old.call /\ m.call = "append"
      /\ LogOK(chunks)
  BY <1>1, <1>2, WriterHas, WriterMoves, AppendIs DEF AppendLabels
<1>4. UNCHANGED vars
  BY DEF Apply
<1>5. /\ chunks' = chunks /\ rowCache' = rowCache /\ chunkCache' = chunkCache
      /\ chunkLen' = chunkLen /\ runtime' = runtime /\ sixbCache' = sixbCache
  BY <1>4 DEF vars, disk, memory
<1>6. Coherent'
  BY <1>3, <1>5 DEF Coherent
<1>7. PICK new, ptr :
        /\ new = Extended(old.target, "whole", EncodeBatch(old.batch, old.tx))
        /\ ptr = [j \in DOMAIN old.batch |-> <<old.target.chunk, Ideal(old.target).offset + j>>]
  OBVIOUS
<1>8. /\ old.batch \in Seq(Operation) /\ DistinctIds(old.batch)
      /\ IsFiles(new) /\ Whole(new) /\ Appended(chunks, new, old.batch, old.tx, ptr)
  BY <1>1, <1>2, <1>7, BatchFits
<1>9. /\ label = "write" /\ m.target = old.target /\ m.batch = old.batch /\ m.tx = old.tx
      /\ m.proj = ApplyBatch(old.proj, old.batch, ptr, rowCache)
  <2>1. old.target.offset = Ideal(old.target).offset
    BY <1>3 DEF AppendExact
  <2>2. Set(p, [proj |-> ApplyBatch(old.proj, old.batch, ptr, rowCache)]) /\ Goto(p, "write")
    BY <1>1, <1>7, <2>1 DEF Apply
  <2>3. PICK proj : proj = ApplyBatch(old.proj, old.batch, ptr, rowCache)
    OBVIOUS
  <2>4. Set(p, [proj |-> proj])
    BY <2>2, <2>3
  <2> QED
    BY <1>1, <2>2, <2>3, <2>4, GotoIs, SetIs DEF LocalNames
<1>10. m.proj = FromCache(CacheOf(new))
  <2>1. old.proj = FromCache(CacheOf(chunks)) /\ RecordsExact(rowCache, chunks)
    BY <1>3 DEF AppendExact, Coherent
  <2> QED
    BY <1>3, <1>8, <1>9, <2>1, ApplyBatchExact DEF LogOK
<1>11. AppendExact(label, m)'
  <2>1. Extended(m.target, "whole", EncodeBatch(m.batch, m.tx))' = new
    BY <1>5, <1>7, <1>9 DEF Extended
  <2>2. Ideal(m.target)' = Ideal(m.target) /\ m.target.offset = Ideal(m.target).offset
    BY <1>3, <1>5, <1>9 DEF Ideal, AppendExact
  <2>3. NoUniqueConflict(FromCache(CacheOf(chunks)), m.batch)
    BY <1>3, <1>9 DEF AppendExact
  <2> QED
    BY <1>5, <1>9, <1>10, <2>1, <2>2, <2>3 DEF AppendExact, Stored
<1> QED
  BY <1>1, <1>2, <1>3, <1>6, <1>11, CoherentAt, WriterOwes

(* The batch is in the files; the caches still have to follow. *)
LEMMA WriteXInv ==
  ASSUME CInv, LInv, XInv, Alone, NEW p \in Threads, WriteLines(p)
  PROVE  XInv'
<1>1. PICK label, m, old : label = pc'[p] /\ m = mine'[p] /\ old = mine[p]
  OBVIOUS
<1>2. AppendStep(p) /\ pc[p] = "write" /\ Settled(pc[p])
  BY DEF AppendStep, WriteLines, Settled, Replaced, Gone, Stored
<1>3. /\ Coherent /\ AppendExact("write", old) /\ m.call = old.call /\ m.call = "append"
      /\ LogOK(chunks)
  BY <1>1, <1>2, WriterHas, WriterMoves, AppendIs DEF AppendLabels
<1>4. PICK new, ptr :
        /\ new = Extended(old.target, "whole", EncodeBatch(old.batch, old.tx))
        /\ ptr = [j \in DOMAIN old.batch |-> <<old.target.chunk, Ideal(old.target).offset + j>>]
  OBVIOUS
<1>5. /\ old.batch \in Seq(Operation) /\ DistinctIds(old.batch)
      /\ IsFiles(new) /\ Whole(new) /\ Appended(chunks, new, old.batch, old.tx, ptr)
  BY <1>1, <1>2, <1>4, BatchFits
<1>6. /\ chunks' = new /\ rowCache' = rowCache /\ chunkCache' = chunkCache
      /\ chunkLen' = chunkLen /\ label = "bytes"
  BY <1>1, <1>4, GotoIs DEF WriteLines, memory
<1>7. /\ m.proj = old.proj /\ m.batch = old.batch /\ m.tx = old.tx /\ m.target = old.target
  <2>1. DOMAIN mine = Threads /\ DOMAIN old = LocalNames
    BY <1>1 DEF CInv, ControlOK, ThreadOK
  <2>2. mine' = Witnessed(new, [mine EXCEPT ![p].before = LiveTable(chunks)])
    BY <1>1, <1>4 DEF WriteLines
  <2>3. PICK locals : locals = [mine EXCEPT ![p].before = LiveTable(chunks)]
    OBVIOUS
  <2>4. locals[p] = [old EXCEPT !.before = LiveTable(chunks)]
    BY <1>1, <2>1, <2>3
  <2>5. locals[p].call = "append"
    BY <1>3, <2>1, <2>4 DEF LocalNames
  <2>6. m = locals[p]
    BY <1>1, <2>2, <2>3, <2>5 DEF Witnessed
  <2> QED
    BY <2>1, <2>4, <2>6 DEF LocalNames
<1>8. UniqueRows(new)
  BY <1>3, <1>5, UniqueAppended DEF Coherent, AppendExact, LogOK
<1>9. CachesAt(label)'
  BY <1>6, <1>8 DEF CachesAt, Gone, Replaced, Stored
<1>10. m.proj = FromCache(CacheOf(new))
  BY <1>3, <1>4, <1>7 DEF AppendExact
<1>11. RecordsExact(RecordsAfter(rowCache, m.batch), new)
  BY <1>3, <1>5, <1>7, RecordsAfterExact DEF Coherent, LogOK
<1>12. PICK target : target = m.target
  BY SMTT(30)
<1>13. /\ target.chunk \in DOMAIN new
       /\ target.isNew => new[target.chunk] = [head |-> "whole", lines |-> EncodeBatch(m.batch, m.tx)]
       /\ \A c \in DOMAIN chunks \ {target.chunk} : c \in DOMAIN new /\ new[c] = chunks[c]
  BY <1>4, <1>7, <1>12 DEF Extended
<1>14. /\ \A c \in DOMAIN chunkLen \ {target.chunk} :
            c \in DOMAIN new /\ chunkLen[c] = Len(new[c].lines)
       /\ \A c \in DOMAIN chunkCache \ {target.chunk} :
            c \in DOMAIN new /\ chunkCache[c] = new[c]
  BY <1>3, <1>13 DEF Coherent, LensOK, FilesOK
<1>15. AppendExact(label, m)'
  BY <1>6, <1>10, <1>11, <1>12, <1>13, <1>14 DEF AppendExact, Stored
<1> QED
  BY <1>1, <1>2, <1>3, <1>9, <1>15, WriterOwes

(* The cached bytes and the cached length of the chunk that was extended. *)
LEMMA ChunkXInv ==
  ASSUME CInv, LInv, XInv, Alone, NEW p \in Threads, UpdateBytes(p) \/ UpdateLength(p)
  PROVE  XInv'
<1>1. PICK label, m, stage : label = pc'[p] /\ m = mine[p] /\ stage = pc[p]
  OBVIOUS
<1>2. AppendStep(p) /\ stage \in {"bytes", "length"}
  BY <1>1 DEF AppendStep, UpdateBytes, UpdateLength
<1>3. /\ CachesAt(stage) /\ AppendExact(stage, m) /\ m.call = "append" /\ SharedOK'
      /\ m.batch \in Seq(Operation) /\ Len(m.batch) \in Nat
  BY <1>1, <1>2, WriterHas, WriterMoves, AppendIs DEF AppendLabels
<1>4. /\ chunks' = chunks /\ rowCache' = rowCache /\ runtime' = runtime
      /\ sixbCache' = sixbCache /\ mine' = mine
  BY DEF UpdateBytes, UpdateLength, disk, caches
<1>5. PICK target, lines : target = m.target /\ lines = EncodeBatch(m.batch, m.tx)
  OBVIOUS
<1>6. /\ UniqueRows(chunks) /\ target.chunk \in DOMAIN chunks
      /\ target.isNew => chunks[target.chunk] = [head |-> "whole", lines |-> lines]
      /\ m.proj = FromCache(CacheOf(chunks))
      /\ RecordsExact(RecordsAfter(rowCache, m.batch), chunks)
      /\ \A c \in DOMAIN chunkLen \ {target.chunk} :
           c \in DOMAIN chunks /\ chunkLen[c] = Len(chunks[c].lines)
  BY <1>2, <1>3, <1>5 DEF CachesAt, AppendExact, Gone, Stored
<1>7. CASE UpdateBytes(p)
  <2>1. /\ stage = "bytes" /\ label = "length" /\ chunkLen' = chunkLen
        /\ chunkCache' = CachedAfter(target, chunkCache, [head |-> "whole", lines |-> lines])
    BY <1>1, <1>5, <1>7, GotoIs DEF UpdateBytes
  <2>2. \A c \in DOMAIN chunkCache \ {target.chunk} : c \in DOMAIN chunks /\ chunkCache[c] = chunks[c]
    BY <1>3, <1>5, <2>1 DEF AppendExact
  <2>3. FilesOK(chunkCache', chunks)
    <3>1. \A c \in DOMAIN chunkCache' : c \in DOMAIN chunks /\ chunkCache'[c] = chunks[c]
      BY <1>6, <2>1, <2>2 DEF CachedAfter
    <3> QED
      BY <1>3, <3>1 DEF FilesOK, SharedOK
  <2>4. CachesAt(label)'
    BY <1>4, <1>6, <2>1, <2>3 DEF CachesAt, Gone, Replaced, Stored
  <2>5. AppendExact(label, m)'
    BY <1>4, <1>5, <1>6, <2>1 DEF AppendExact, Stored
  <2> QED
    BY <1>1, <1>2, <1>3, <1>4, <2>4, <2>5, WriterOwes
<1>8. CASE UpdateLength(p)
  <2>1. /\ stage = "length" /\ label = "forget" /\ chunkCache' = chunkCache
        /\ chunkLen' = CachedAfter(target, chunkLen, Len(m.batch))
    BY <1>1, <1>5, <1>8, GotoIs DEF UpdateLength
  <2>2. Len(lines) = Len(m.batch)
    BY <1>3, <1>5 DEF EncodeBatch
  <2>3. LensOK(chunkLen', chunks)
    <3>1. \A c \in DOMAIN chunkLen' : c \in DOMAIN chunks /\ chunkLen'[c] = Len(chunks[c].lines)
      BY <1>6, <2>1, <2>2 DEF CachedAfter
    <3> QED
      BY <1>3, <3>1 DEF LensOK, SharedOK
  <2>4. FilesOK(chunkCache, chunks)
    BY <1>3, <2>1 DEF CachesAt, Gone
  <2>5. CachesAt(label)'
    BY <1>4, <1>6, <2>1, <2>3, <2>4 DEF CachesAt, Gone, Replaced, Stored
  <2>6. AppendExact(label, m)'
    BY <1>4, <1>5, <1>6, <2>1 DEF AppendExact, Stored
  <2> QED
    BY <1>1, <1>2, <1>3, <1>4, <2>5, <2>6, WriterOwes
<1> QED
  BY <1>7, <1>8

(* The snapshot is dropped, and what is left to do is left to do. *)
LEMMA ForgetXInv ==
  ASSUME CInv, LInv, XInv, Alone, NEW p \in Threads, ForgetSnapshot(p)
  PROVE  XInv'
<1>1. PICK label, m : label = pc'[p] /\ m = mine[p]
  OBVIOUS
<1>2. /\ AppendStep(p) /\ pc[p] = "forget" /\ sixbCache' = None
      /\ label = (IF m.call = "append" THEN "publish" ELSE "unproject")
  BY <1>1, GotoIs DEF AppendStep, ForgetSnapshot
<1>3. /\ CachesAt("forget") /\ m.call \in {"append", "compact"}
      /\ m.call = "append" => AppendExact("forget", m)
      /\ m.call = "compact" => CompactExact("forget", m)
  BY <1>1, <1>2, WriterHas, WriterMoves
<1>4. /\ chunks' = chunks /\ rowCache' = rowCache /\ chunkCache' = chunkCache
      /\ chunkLen' = chunkLen /\ runtime' = runtime /\ mine' = mine
  BY DEF ForgetSnapshot, disk, chunkCaches
<1>5. /\ UniqueRows(chunks) /\ FilesOK(chunkCache, chunks) /\ LensOK(chunkLen, chunks)
      /\ CacheExact(sixbCache', chunks)
  BY <1>2, <1>3 DEF CachesAt, CacheExact, Gone, Replaced, Stored
<1>6. CASE m.call = "append"
  <2>1. CachesAt(label)'
    BY <1>2, <1>4, <1>5, <1>6 DEF CachesAt, Gone, Replaced, Stored
  <2>2. AppendExact(label, m)'
    BY <1>2, <1>3, <1>4, <1>6 DEF AppendExact, Stored
  <2> QED
    BY <1>1, <1>2, <1>4, <1>6, <2>1, <2>2, WriterOwes
<1>7. CASE m.call = "compact"
  <2>1. RecordsExact(rowCache, chunks)
    BY <1>3, <1>7 DEF CompactExact
  <2>2. CachesAt(label)'
    BY <1>2, <1>4, <1>5, <1>7, <2>1 DEF CachesAt, Gone, Replaced, Stored
  <2>3. CompactExact(label, m)'
    BY <1>2, <1>7 DEF CompactExact, Gone
  <2> QED
    BY <1>1, <1>2, <1>4, <1>7, <2>2, <2>3, WriterOwes
<1> QED
  BY <1>3, <1>6, <1>7

(* The projection and the records of the batch, and the counters. *)
LEMMA PublishXInv ==
  ASSUME CInv, LInv, XInv, Alone, NEW p \in Threads,
         Publish(p) \/ UpdateRecords(p) \/ Count(p)
  PROVE  XInv'
<1>1. PICK label, m, stage : label = pc'[p] /\ m = mine[p] /\ stage = pc[p]
  OBVIOUS
<1>2. AppendStep(p) /\ stage \in {"publish", "rows", "count"}
  BY <1>1 DEF AppendStep, Publish, UpdateRecords, Count
<1>3. /\ CachesAt(stage) /\ AppendExact(stage, m) /\ mine'[p].call = "append"
      /\ Settled(stage) => Coherent
  BY <1>1, <1>2, WriterHas, WriterMoves, AppendIs DEF AppendLabels
<1>4. /\ chunks' = chunks /\ sixbCache' = sixbCache /\ chunkCache' = chunkCache
      /\ chunkLen' = chunkLen
  BY DEF Publish, UpdateRecords, Count, disk, caches, chunkCaches
<1>5. /\ UniqueRows(chunks) /\ CacheExact(sixbCache, chunks)
      /\ FilesOK(chunkCache, chunks) /\ LensOK(chunkLen, chunks)
  BY <1>2, <1>3 DEF CachesAt, Gone, Replaced, Stored
<1>6. CASE Publish(p)
  <2>1. /\ stage = "publish" /\ label = "rows" /\ mine' = mine /\ rowCache' = rowCache
        /\ runtime' = m.proj
    BY <1>1, <1>6, GotoIs DEF Publish
  <2>2. RuntimeExact(runtime', chunks)
    BY <1>3, <2>1 DEF AppendExact, RuntimeExact
  <2>3. CachesAt(label)'
    BY <1>4, <1>5, <2>1, <2>2 DEF CachesAt, Gone, Replaced, Stored
  <2>4. AppendExact(label, m)'
    BY <1>3, <1>4, <2>1 DEF AppendExact, Stored
  <2> QED
    BY <1>1, <1>2, <1>3, <2>1, <2>3, <2>4, WriterOwes
<1>7. CASE UpdateRecords(p)
  <2>1. /\ stage = "rows" /\ label = "count" /\ mine' = mine /\ runtime' = runtime
        /\ rowCache' = RecordsAfter(rowCache, m.batch)
    BY <1>1, <1>7, GotoIs DEF UpdateRecords
  <2>2. RuntimeExact(runtime, chunks) /\ RecordsExact(rowCache', chunks)
    BY <1>3, <2>1 DEF AppendExact, CachesAt, Gone, Replaced, Stored
  <2>3. Coherent'
    BY <1>4, <1>5, <2>1, <2>2 DEF Coherent
  <2>4. AppendExact(label, m)'
    BY <2>1 DEF AppendExact, Stored
  <2> QED
    BY <1>1, <1>2, <1>3, <2>1, <2>3, <2>4, CoherentAt, WriterOwes
<1>8. CASE Count(p)
  <2>1. /\ stage = "count" /\ label = "idle" /\ runtime' = runtime /\ rowCache' = rowCache
    BY <1>1, <1>8, AnsweredIs DEF Count, Return, caches
  <2>2. Settled(stage)
    BY <2>1 DEF Settled, Gone, Replaced, Stored
  <2>3. Coherent'
    BY <1>3, <1>4, <2>1, <2>2 DEF Coherent
  <2> QED
    BY <1>1, <1>2, <2>1, <2>3, CoherentAt, WriterOwes
<1> QED
  BY <1>6, <1>7, <1>8

(* A compaction writes the live rows again. *)
LEMMA PlanXInv ==
  ASSUME CInv, LInv, XInv, Alone, NEW p \in Threads, PlanCompaction(p)
  PROVE  XInv'
<1>1. PICK label, m : label = pc'[p] /\ m = mine'[p]
  OBVIOUS
<1>2. CompactStep(p) /\ pc[p] = "plan" /\ Settled(pc[p])
  BY DEF CompactStep, PlanCompaction, Settled, Replaced, Gone, Stored
<1>3. /\ Coherent /\ m.call = mine[p].call /\ m.call = "compact" /\ LogOK(chunks) /\ writer = p
  BY <1>1, <1>2, WriterHas, WriterMoves, CompactIs DEF CompactLabels
<1>4. UNCHANGED vars
  BY DEF PlanCompaction
<1>5. /\ chunks' = chunks /\ rowCache' = rowCache /\ chunkCache' = chunkCache
      /\ chunkLen' = chunkLen /\ runtime' = runtime /\ sixbCache' = sixbCache
  BY <1>4 DEF vars, disk, memory
<1>6. Coherent'
  BY <1>3, <1>5 DEF Coherent
<1>7. PICK order \in LiveOrders :
        /\ Set(p, [file |-> Compacted(order), tx |-> DiscoveredTx(chunks) + Len(order)])
        /\ Goto(p, "unlink")
  BY DEF PlanCompaction
<1>8. PICK after : after = [c \in {0} |-> Compacted(order)]
  OBVIOUS
<1>9. label = "unlink" /\ after = [c \in {0} |-> m.file]
  BY <1>1, <1>7, <1>8, GotoIs, SetIs DEF LocalNames
<1>10. UniqueRows(after) /\ SameRecords(chunks, after)
  <2>1. DiscoveredTx(chunks) + Cardinality(DOMAIN LiveRecords(chunks)) <= MaxTx + 1
    BY <1>2, <1>3, WriterFinds DEF Phase, CompactPhase
  <2> QED
    BY <1>3, <1>8, <2>1, CompactedExact DEF Coherent, LogOK, FilesExact
<1>11. RecordsExact(rowCache, after)
  BY <1>3, <1>10 DEF Coherent, RecordsExact, SameRecords
<1>12. CompactExact(label, m)'
  BY <1>5, <1>9, <1>10, <1>11 DEF CompactExact, Gone
<1> QED
  BY <1>1, <1>2, <1>3, <1>6, <1>12, CoherentAt, WriterOwes

(* The old chunks go and the new one comes; the caches follow. *)
LEMMA ReplaceXInv ==
  ASSUME CInv, LInv, XInv, Alone, NEW p \in Threads, ReplaceStep(p)
  PROVE  XInv'
<1>1. PICK label, m, stage : label = pc'[p] /\ m = mine[p] /\ stage = pc[p]
  OBVIOUS
<1>2. /\ CompactStep(p)
      /\ stage \in {"unlink", "install", "bytes0", "length0", "unproject", "finish"}
  BY <1>1 DEF CompactStep, ReplaceStep, RemoveChunk, InstallChunk, ReplaceBytes, ReplaceLengths,
              ForgetProjection, FinishCompaction
<1>3. /\ CachesAt(stage) /\ CompactExact(stage, m) /\ mine'[p].call = "compact" /\ SharedOK'
      /\ Settled(stage) => Coherent
  BY <1>1, <1>2, WriterHas, WriterMoves, CompactIs DEF CompactLabels
<1>4. PICK after : after = [c \in {0} |-> m.file]
  OBVIOUS
<1>5. sixbCache' = sixbCache /\ rowCache' = rowCache
  BY DEF ReplaceStep, RemoveChunk, InstallChunk, ReplaceBytes, ReplaceLengths,
         ForgetProjection, FinishCompaction, memory, caches
<1>6. CASE RemoveChunk(p) \/ InstallChunk(p)
  <2>1. /\ stage \in Gone /\ label \in Gone \cup {"bytes0"} /\ mine' = mine
        /\ label = "bytes0" => chunks' = after
    BY <1>1, <1>4, <1>6, GotoIs DEF RemoveChunk, InstallChunk, Gone
  <2>2. UniqueRows(after) /\ RecordsExact(rowCache, after)
    BY <1>3, <1>4, <2>1 DEF CompactExact
  <2>3. CachesAt(label)'
    <3>1. label = "bytes0" => UniqueRows(chunks') /\ RecordsExact(rowCache', chunks')
      BY <1>5, <2>1, <2>2
    <3> QED
      BY <2>1, <3>1 DEF CachesAt, Gone, Replaced, Stored
  <2>4. CompactExact(label, m)'
    <3>1. label \in Gone => UniqueRows(after)' /\ RecordsExact(rowCache, after)'
      BY <1>5, <2>2
    <3> QED
      BY <1>4, <2>1, <3>1 DEF CompactExact, Gone
  <2> QED
    BY <1>1, <1>2, <1>3, <2>1, <2>3, <2>4, WriterOwes
<1>7. CASE ReplaceBytes(p) \/ ReplaceLengths(p)
  <2>1. /\ stage \in {"bytes0", "length0"} /\ chunks' = chunks /\ mine' = mine
        /\ label = (IF stage = "bytes0" THEN "length0" ELSE "forget")
        /\ stage = "bytes0" => chunkCache' = [c \in {0} |-> m.file]
        /\ stage = "length0" => /\ chunkCache' = chunkCache
                                /\ chunkLen' = [c \in {0} |-> Len(m.file.lines)]
    BY <1>1, <1>7, GotoIs DEF ReplaceBytes, ReplaceLengths, disk
  <2>2. chunks = after /\ UniqueRows(chunks) /\ RecordsExact(rowCache, chunks)
    BY <1>3, <1>4, <2>1 DEF CompactExact, CachesAt, Gone, Stored
  <2>3. FilesOK(chunkCache', chunks)
    <3>1. CASE stage = "bytes0"
      BY <1>3, <1>4, <2>1, <2>2, <3>1 DEF FilesOK, SharedOK
    <3>2. CASE stage = "length0"
      BY <1>3, <2>1, <3>2 DEF CachesAt, Gone
    <3> QED
      BY <2>1, <3>1, <3>2
  <2>4. stage = "length0" => LensOK(chunkLen', chunks)
    BY <1>3, <1>4, <2>1, <2>2 DEF LensOK, SharedOK
  <2>5. CachesAt(label)'
    BY <1>5, <2>1, <2>2, <2>3, <2>4 DEF CachesAt, Gone, Replaced, Stored
  <2>6. CompactExact(label, m)'
    BY <1>4, <1>5, <2>1, <2>2 DEF CompactExact, Gone
  <2> QED
    BY <1>1, <1>2, <1>3, <2>1, <2>5, <2>6, WriterOwes
<1>8. CASE ForgetProjection(p) \/ FinishCompaction(p)
  <2>1. /\ stage \in {"unproject", "finish"} /\ label \in {"scan", "idle"} /\ chunks' = chunks
        /\ chunkCache' = chunkCache /\ chunkLen' = chunkLen
        /\ runtime' = None \/ (stage = "finish" /\ runtime' = runtime)
    <3>1. CASE ForgetProjection(p)
      BY <1>1, <3>1, GotoIs DEF ForgetProjection, disk, chunkCaches
    <3>2. CASE FinishCompaction(p)
      <4>1. label = "idle"
        BY <1>1, <3>2, AnsweredIs DEF FinishCompaction, Return
      <4> QED
        BY <1>1, <3>2, <4>1 DEF FinishCompaction, memory
    <3> QED
      BY <1>8, <3>1, <3>2
  <2>2. /\ UniqueRows(chunks) /\ CacheExact(sixbCache, chunks) /\ RecordsExact(rowCache, chunks)
        /\ FilesOK(chunkCache, chunks) /\ LensOK(chunkLen, chunks)
        /\ stage = "finish" => RuntimeExact(runtime, chunks)
    BY <1>3, <2>1 DEF CachesAt, Gone, Replaced, Stored
  <2>3. Coherent'
    <3>1. RuntimeExact(runtime', chunks)
      BY <2>1, <2>2 DEF RuntimeExact
    <3> QED
      BY <1>5, <2>1, <2>2, <3>1 DEF Coherent
  <2>4. PICK new : new = mine'[p]
    OBVIOUS
  <2>5. CompactExact(label, new)'
    BY <2>1 DEF CompactExact, Gone
  <2> QED
    BY <1>1, <1>2, <1>3, <2>3, <2>4, <2>5, CoherentAt, WriterOwes
<1> QED
  BY <1>6, <1>7, <1>8 DEF ReplaceStep

LEMMA StepCaches ==
  ASSUME CInv, LInv, XInv, Alone, NEW p \in Threads, Call(p) \/ Step(p)
  PROVE  XInv'
<1>1. CASE Call(p) \/ Lock(p)
  BY <1>1, CallXInv, LockXInv
<1>2. CASE LoadStep(p) \/ BuildStep(p)
  BY <1>2, LoadXInv, BuildXInv
<1>3. CASE AppendStep(p)
  <2>1. CASE Take(p) \/ TakeSnapshot(p) \/ Validate(p)
    BY <2>1, TakeXInv, ValidateXInv
  <2>2. CASE ChooseTarget(p) \/ Apply(p) \/ WriteLines(p)
    BY <2>2, TargetXInv, ApplyXInv, WriteXInv
  <2>3. CASE UpdateBytes(p) \/ UpdateLength(p) \/ ForgetSnapshot(p)
    BY <2>3, ChunkXInv, ForgetXInv
  <2>4. CASE Publish(p) \/ UpdateRecords(p) \/ Count(p)
    BY <2>4, PublishXInv
  <2> QED
    BY <1>3, <2>1, <2>2, <2>3, <2>4 DEF AppendStep
<1>4. CASE GetStep(p)
  BY <1>4, FindXInv, ReadXInv, FillXInv DEF GetStep
<1>5. CASE CompactStep(p)
  BY <1>5, PlanXInv, ReplaceXInv DEF CompactStep, ReplaceStep
<1> QED
  BY <1>1, <1>2, <1>3, <1>4, <1>5 DEF Step

LEMMA NextCaches ==
  CInv /\ LInv /\ XInv /\ [ThreadsNext]_threadVars => XInv'
<1> SUFFICES ASSUME CInv, LInv, XInv, [ThreadsNext]_threadVars PROVE XInv'
  OBVIOUS
<1>1. ASSUME NEW p \in Threads, Call(p) \/ Step(p) PROVE XInv'
  <2>1. roles' = roles
    <3>1. WriteLines(p) => roles' = roles
      BY DEF WriteLines, control, turns
    <3>2. (\E label, m : StepOK(p, label, m)) => roles' = roles
      BY MovedIs DEF StepOK, CInv
    <3> QED
      BY <1>1, <3>1, <3>2, StepMoves
  <2>2. Alone' <=> Alone
    BY <2>1 DEF Alone, OnlyReaders, OnlyWriters, Nobody
  <2>3. CASE Alone
    BY <1>1, <2>3, StepCaches
  <2>4. CASE ~Alone
    BY <2>2, <2>4 DEF XInv
  <2> QED
    BY <2>3, <2>4
<1>2. CASE UNCHANGED threadVars
  <2>1. /\ UNCHANGED <<chunks, sixb, runtime, sixbCache, rowCache, chunkCache, chunkLen>>
        /\ UNCHANGED <<pc, mine, writer, roles, sixbTmp>>
    BY <1>2 DEF threadVars, vars, disk, memory, control, turns
  <2>2. Alone' <=> Alone
    BY <2>1 DEF Alone, OnlyReaders, OnlyWriters, Nobody
  <2>3. ASSUME Alone PROVE XInv'
    <3>1. Stage' = Stage
      BY <2>1 DEF Stage
    <3>2. CachesAt(Stage)'
      BY <2>1, <2>3, <3>1 DEF XInv, CachesAt
    <3>3. SixbExact(sixb') /\ SixbExact(sixbTmp')
      BY <2>1, <2>3 DEF XInv
    <3>4. ASSUME NEW q \in Threads, pc'[q] # "idle" PROVE LocalsExact(pc[q], mine[q])'
      <4>1. PICK label, m : label = pc[q] /\ m = mine[q]
        OBVIOUS
      <4>2. LocalsExact(label, m)
        BY <2>1, <2>3, <3>4, <4>1 DEF XInv
      <4>3. LocalsExact(label, m)'
        BY <2>1, <4>2 DEF LocalsExact, SearchExact, GetExact, AppendExact, CompactExact, Ideal,
                          Extended
      <4> QED
        BY <2>1, <4>1, <4>3
    <3>5. GetsCurrent'
      BY <2>1, <2>3 DEF XInv, GetsCurrent, OnlyReaders, Nobody
    <3> QED
      BY <3>2, <3>3, <3>4, <3>5 DEF XInv
  <2> QED
    BY <2>2, <2>3 DEF XInv
<1> QED
  BY <1>1, <1>2 DEF ThreadsNext, Finished

LEMMA InitCaches == ThreadsInit => XInv
<1> SUFFICES ASSUME ThreadsInit, Alone PROVE XInv
  BY DEF XInv
<1>1. PICK s \in Situations : chunks \in s.logs /\ sixb \in SixbFound(s.logs)
  BY DEF ThreadsInit
<1>2. /\ runtime = None /\ sixbCache = None
      /\ rowCache = NoRows /\ chunkCache = NoRows /\ chunkLen = NoRows
      /\ pc = [p \in Threads |-> "idle"]
      /\ mine = [p \in Threads |-> NoLocals]
      /\ writer = None /\ sixbTmp = None
  BY DEF ThreadsInit
<1>3. \A log \in s.logs : LeftByHandle(log)
  BY <1>1, ThreadsAssumption
<1>4. UniqueRows(chunks)
  BY <1>1, <1>3, LogFound, UniqueIs DEF LogOK
<1>5. CachesAt(Stage)
  <2>1. DOMAIN NoRows = {}
    BY DEF NoRows
  <2>2. RuntimeExact(runtime, chunks) /\ CacheExact(sixbCache, chunks) /\ RecordsExact(rowCache, chunks)
    BY <1>2, <2>1 DEF RuntimeExact, CacheExact, RecordsExact
  <2>3. FilesOK(chunkCache, chunks) /\ LensOK(chunkLen, chunks)
    BY <1>2, <2>1, NoRowsType DEF FilesOK, LensOK
  <2> QED
    BY <1>4, <2>2, <2>3 DEF CachesAt
<1>6. SixbExact(sixb) /\ SixbExact(sixbTmp)
  <2>1. ASSUME sixb # None PROVE SixbExact(sixb)
    <3>1. PICK older \in s.logs : sixb = [source |-> SourceOf(older), cache |-> CacheOf(older)]
      BY <1>1, <2>1 DEF SixbFound
    <3>2. IsFiles(older) /\ Whole(older)
      BY <1>3, LogFound DEF LogOK
    <3> QED
      BY <3>1, <3>2, SixbBuilt
  <2> QED
    BY <1>2, <2>1 DEF SixbExact
<1>7. GetsCurrent
  <2>1. NoLocals.call = None /\ NoLocals.outcome = None
    BY DEF NoLocals
  <2>2. ~(NoLocals.call = "get" /\ NoLocals.outcome = "done")
    BY <2>1
  <2> QED
    BY <1>2, <2>2 DEF GetsCurrent
<1> QED
  BY <1>2, <1>5, <1>6, <1>7 DEF XInv

LEMMA CachesInvariance == ThreadsSpec => [](CInv /\ LInv /\ XInv)
<1>1. ThreadsInit => CInv /\ LInv /\ XInv
  BY InitLog, InitCaches
<1>2. CInv /\ LInv /\ XInv /\ [ThreadsNext]_threadVars => (CInv /\ LInv /\ XInv)'
  BY NextLog, NextCaches
<1> QED
  BY <1>1, <1>2, PTL DEF ThreadsSpec

-----------------------------------------------------------------------------
(* What holds where only readers and rebuilds, or only writers, are at work. *)

LEMMA CoherentShows ==
  ASSUME CInv, LInv, Coherent
  PROVE  ProjectionExact /\ MemoryCoherent /\ ChunksCoherent
<1>1. ProjectionExact
  BY DEF Coherent, RuntimeExact, CacheExact, ProjectionExact
<1>2. MemoryCoherent
  BY MemoryIs DEF Coherent, LInv, LogOK
<1>3. ChunksCoherent
  BY DEF Coherent, FilesOK, LensOK, ChunksCoherent
<1> QED
  BY <1>1, <1>2, <1>3

(* Whichever of the readers and rebuilds of a handle publishes last, its    *)
(* caches agree with the files (RememberRecords, RememberProjection,       *)
(* RememberBytes, Decode).                                                 *)
THEOREM CachesExactCorrect == ThreadsSpec => []CachesExact
<1>1. CInv /\ LInv /\ XInv => CachesExact
  <2> SUFFICES ASSUME CInv, LInv, XInv, OnlyReaders
               PROVE  ProjectionExact /\ MemoryCoherent /\ ChunksCoherent
    BY DEF CachesExact
  <2>1. CachesAt("idle")
    BY ReadersStage DEF XInv, Alone
  <2>2. Settled("idle")
    BY DEF Settled, Gone, Replaced, Stored
  <2> QED
    BY <2>1, <2>2, SettledIs, CoherentShows
<1> QED
  BY <1>1, CachesInvariance, PTL

(* A get beside rebuilds and other gets answers a value its row had during  *)
(* the call, whether from the projection, the snapshot, the row cache, the *)
(* chunk cache or the file (get_by_id).                                    *)
THEOREM GetsCurrentCorrect == ThreadsSpec => []GetsCurrent
<1>1. XInv => GetsCurrent
  BY DEF XInv, GetsCurrent, Alone
<1> QED
  BY <1>1, CachesInvariance, PTL

(* Appends and compactions of any number of threads leave the caches as     *)
(* exact as those of one thread, and no unique key twice, whenever none of *)
(* them holds the writer mutex.                                            *)
THEOREM QuietExactCorrect == ThreadsSpec => []QuietExact
<1>1. CInv /\ LInv /\ XInv => QuietExact
  <2> SUFFICES ASSUME CInv, LInv, XInv, OnlyWriters, writer = None
               PROVE  ProjectionExact /\ MemoryCoherent /\ ChunksCoherent /\ UniqueKeys
    BY DEF QuietExact
  <2>1. CachesAt("idle")
    BY DEF XInv, Alone, Stage
  <2>2. Settled("idle")
    BY DEF Settled, Gone, Replaced, Stored
  <2>3. Coherent
    BY <2>1, <2>2, SettledIs
  <2>4. UniqueKeys
    BY <2>3, UniqueTable DEF Coherent, UniqueKeys, LInv, LogOK
  <2> QED
    BY <2>3, <2>4, CoherentShows
<1> QED
  BY <1>1, CachesInvariance, PTL

(* Threads that append implement the abstract table, however their calls    *)
(* interleave: each change of the log is a whole batch that leaves unique  *)
(* keys unique (Validate under the writer mutex, WriteLines).              *)
THEOREM AppendsRefineCorrect == ThreadsSpec => AppendsRefineTable
<1>1. CInv /\ LInv /\ XInv /\ [ThreadsNext]_threadVars
        => [OnlyWriters /\ Nobody({"compact"}) => Table!Next]_chunks
  <2> SUFFICES ASSUME CInv, LInv, XInv, [ThreadsNext]_threadVars, chunks' # chunks,
                      OnlyWriters, Nobody({"compact"})
               PROVE  Table!Next
    OBVIOUS
  <2>1. PICK p \in Threads : WriteLines(p)
    BY OnlyWriteLines
  <2>2. PICK m, new : m = mine[p] /\ new = chunks'
    OBVIOUS
  <2>3. PICK b, tx, ptr :
          /\ b = m.batch /\ tx = m.tx
          /\ ptr = [j \in DOMAIN b |-> <<m.target.chunk, Ideal(m.target).offset + j>>]
    OBVIOUS
  <2>4. /\ b \in Seq(Operation) /\ DistinctIds(b) /\ IsFiles(new) /\ Whole(new)
        /\ Appended(chunks, new, b, tx, ptr)
    BY <2>1, <2>2, <2>3, BatchFits DEF WriteLines
  <2>5. IsFiles(chunks) /\ Whole(chunks)
    BY DEF LInv, LogOK
  <2>6. Len(b) <= MaxBatch
    <3>1. pc[p] = "write" /\ pc[p] \notin {"idle", "lock"} /\ mine[p].call = "append"
      BY <2>1, AppendIs DEF WriteLines, AppendLabels
    <3>2. b \in Batch
      BY <2>2, <2>3, <3>1, Running DEF LocalsOK
    <3> QED
      BY <3>2 DEF Batch
  <2>7. UniqueRows(new)
    <3>1. Coherent /\ AppendExact("write", m)
      <4>1. AppendStep(p) /\ pc[p] = "write" /\ Settled("write")
        BY <2>1 DEF AppendStep, WriteLines, Settled, Gone, Replaced, Stored
      <4>2. mine[p].call = "append"
        BY <4>1, AppendIs DEF AppendLabels
      <4> QED
        BY <2>2, <4>1, <4>2, WriterHas DEF Alone
    <3> QED
      BY <2>3, <2>4, <2>5, <3>1, UniqueAppended DEF Coherent, AppendExact
  <2>8. Cardinality({id \in Ids : LiveTable(new)[id] # LiveTable(chunks)[id]}) <= MaxBatch
    BY <2>4, <2>5, <2>6, BatchChanges
  <2> QED
    BY <2>2, <2>4, <2>7, <2>8, Commits
<1> QED
  BY <1>1, CachesInvariance, PTL DEF ThreadsSpec, AppendsRefineTable
=============================================================================
