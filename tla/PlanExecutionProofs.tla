------------------------ MODULE PlanExecutionProofs -------------------------
(***************************************************************************)
(* Plans over one table, for any clients, rows, tables to start from and    *)
(* requests: where nobody rebuilds beside a writer the rows change as those *)
(* of TableSpec, a read that goes through its pages misses no row while     *)
(* rows only come behind the others, and the batch of the only writer is    *)
(* the sequence of its changes.                                            *)
(***************************************************************************)
EXTENDS PlanExecution, MaximumProofs, SequenceTheorems

-----------------------------------------------------------------------------
(* Rows in order.                                                          *)

Below(S, x) == {other \in S : other < x}

Rank(S, x) == Cardinality(Below(S, x))

(* Each id has a rank of its own, and the ranks are 0, 1, ... *)
LEMMA Ranks ==
  ASSUME NEW S \in SUBSET Nat, IsFiniteSet(S)
  PROVE  /\ Cardinality(S) \in Nat
         /\ \A x \in S : Rank(S, x) \in 0..(Cardinality(S) - 1)
         /\ \A x, y \in S : x < y => Rank(S, x) < Rank(S, y)
         /\ \A k \in 0..(Cardinality(S) - 1) : \E x \in S : Rank(S, x) = k
<1> DEFINE n == Cardinality(S)
<1>1. n \in Nat
  BY FS_CardinalityType
<1>2. ASSUME NEW x \in S
      PROVE  Rank(S, x) \in 0..(n - 1) /\ IsFiniteSet(Below(S, x))
  <2>1. Below(S, x) \in SUBSET S /\ x \notin Below(S, x)
    BY DEF Below
  <2>2. IsFiniteSet(Below(S, x)) /\ Rank(S, x) <= n /\ Rank(S, x) # n
    BY <2>1, FS_Subset DEF Rank
  <2>3. Rank(S, x) \in Nat
    BY <2>2, FS_CardinalityType DEF Rank
  <2> HIDE DEF n
  <2> QED
    BY <1>1, <2>2, <2>3
<1>3. ASSUME NEW x \in S, NEW y \in S, x < y
      PROVE  Rank(S, x) < Rank(S, y)
  <2>1. x \in Nat /\ y \in Nat /\ \A z \in S : z \in Nat
    OBVIOUS
  <2>2. Below(S, x) \in SUBSET Below(S, y) /\ x \in Below(S, y) /\ x \notin Below(S, x)
    <3>1. \A z \in Nat : (z < x => z < y) /\ ~(x < x)
      BY <1>3, <2>1
    <3> QED
      BY <1>3, <2>1, <3>1 DEF Below
  <2>3. Rank(S, x) <= Rank(S, y) /\ Rank(S, x) # Rank(S, y)
    BY <1>2, <2>2, FS_Subset DEF Rank
  <2>4. Rank(S, x) \in Nat /\ Rank(S, y) \in Nat
    BY <1>2
  <2> QED
    BY <2>3, <2>4
<1>4. ASSUME NEW k \in 0..(n - 1)
      PROVE  \E x \in S : Rank(S, x) = k
  <2> DEFINE f == [x \in S |-> Rank(S, x)]
             T == 0..(n - 1)
  <2>1. IsFiniteSet(T) /\ Cardinality(T) = n
    <3> HIDE DEF n
    <3> QED
      BY <1>1, FS_Interval
  <2>2. f \in [S -> T]
    BY <1>2
  <2>3. \A x, y \in S : f[x] = f[y] => x = y
    <3> SUFFICES ASSUME NEW x \in S, NEW y \in S, Rank(S, x) = Rank(S, y), x # y
                 PROVE  FALSE
      OBVIOUS
    <3>1. x \in Nat /\ y \in Nat /\ Rank(S, x) \in Nat /\ Rank(S, y) \in Nat
      BY <1>2
    <3>2. x < y \/ y < x
      BY <3>1
    <3> QED
      BY <1>3, <3>1, <3>2
  <2> HIDE DEF f, T
  <2>4. f \in Injection(S, T)
    BY <2>2, <2>3 DEF Injection, IsInjective
  <2>5. f \in Surjection(S, T)
    BY <2>1, <2>4, FS_Injection DEF n
  <2>6. k \in T
    BY DEF T
  <2>7. PICK x \in S : f[x] = k
    BY <2>5, <2>6 DEF Surjection
  <2> QED
    BY <2>7 DEF f
<1> QED
  BY <1>1, <1>2, <1>3, <1>4

LEMMA InOrderIs ==
  ASSUME NEW S \in SUBSET Nat, IsFiniteSet(S)
  PROVE  /\ InOrder(S) \in Seq(S) /\ Len(InOrder(S)) = Cardinality(S)
         /\ Cardinality(S) \in Nat
         /\ \A i \in 1..Cardinality(S) : InOrder(S)[i] \in S /\ Rank(S, InOrder(S)[i]) = i - 1
         /\ \A i, j \in 1..Cardinality(S) : InOrder(S)[i] = InOrder(S)[j] => i = j
         /\ \A x \in S : \E i \in 1..Cardinality(S) : InOrder(S)[i] = x
<1> DEFINE n == Cardinality(S)
           s == InOrder(S)
<1>1. n \in Nat
  BY Ranks
<1>2. s = [i \in 1..n |-> CHOOSE x \in S : Rank(S, x) = i - 1]
  BY DEF InOrder, Rank, Below
<1>3. ASSUME NEW i \in 1..n
      PROVE  s[i] \in S /\ Rank(S, s[i]) = i - 1
  <2>1. \E x \in S : Rank(S, x) = i - 1
    <3>1. i - 1 \in 0..(n - 1)
      BY <1>1
    <3> QED
      BY <3>1, Ranks
  <2> QED
    BY <1>2, <2>1
<1> HIDE DEF s, n
<1>4. s \in Seq(S) /\ Len(s) = n
  <2>1. DOMAIN s = 1..n /\ s = [i \in 1..n |-> s[i]]
    BY <1>2
  <2>2. s \in [1..n -> S]
    BY <1>3, <2>1
  <2>3. s \in Seq(S)
    BY <1>1, <2>2, SeqDef
  <2> QED
    BY <1>1, <2>1, <2>3, LenProperties
<1>5. ASSUME NEW i \in 1..n, NEW j \in 1..n, s[i] = s[j]
      PROVE  i = j
  BY <1>1, <1>3, <1>5
<1>6. ASSUME NEW x \in S
      PROVE  \E i \in 1..n : s[i] = x
  <2> DEFINE i == Rank(S, x) + 1
  <2>1. Rank(S, x) \in 0..(n - 1)
    BY Ranks DEF n
  <2>2. i \in 1..n /\ i - 1 = Rank(S, x)
    BY <1>1, <2>1
  <2> HIDE DEF i
  <2>3. s[i] \in S /\ Rank(S, s[i]) = Rank(S, x)
    BY <1>3, <2>2
  <2>4. s[i] = x
    <3>0. Rank(S, x) \in Nat
      BY <1>1, <2>1
    <3>1. x \in Nat /\ s[i] \in Nat /\ Rank(S, x) \in Nat
      BY <2>3, <3>0
    <3>2. ~(s[i] < x) /\ ~(x < s[i])
      BY <2>3, <3>1, Ranks
    <3> QED
      BY <3>1, <3>2
  <2> QED
    BY <2>2, <2>4
<1> QED
  BY <1>1, <1>3, <1>4, <1>5, <1>6 DEF n, s

(* Ids that come behind all others leave the others at their places. *)
LEMMA InOrderGrows ==
  ASSUME NEW T \in SUBSET Nat, IsFiniteSet(T), NEW S \in SUBSET T,
         \A x \in T \ S, y \in S : y < x
  PROVE  /\ Cardinality(S) <= Cardinality(T)
         /\ \A i \in 1..Cardinality(S) : InOrder(T)[i] = InOrder(S)[i]
<1>1. IsFiniteSet(S) /\ Cardinality(S) <= Cardinality(T)
  BY FS_Subset
<1>2. S \in SUBSET Nat /\ Cardinality(S) \in Nat /\ Cardinality(T) \in Nat
  BY <1>1, FS_CardinalityType
<1>3. ASSUME NEW i \in 1..Cardinality(S)
      PROVE  InOrder(T)[i] = InOrder(S)[i]
  <2> DEFINE x == InOrder(S)[i]
             y == InOrder(T)[i]
  <2>1. x \in S /\ Rank(S, x) = i - 1
    BY <1>1, <1>2, InOrderIs
  <2>2. y \in T /\ Rank(T, y) = i - 1
    <3>1. i \in 1..Cardinality(T)
      BY <1>1, <1>2
    <3> QED
      BY <3>1, InOrderIs
  <2> HIDE DEF x, y
  <2>3. Below(T, x) = Below(S, x)
    <3>1. ASSUME NEW z \in T, z < x PROVE z \in S
      <4>1. z \in Nat /\ x \in Nat
        BY <1>2, <2>1
      <4>2. z \notin S => x < z
        BY <2>1
      <4> QED
        BY <3>1, <4>1, <4>2
    <3> QED
      BY <3>1 DEF Below
  <2>4. Rank(T, x) = Rank(T, y) /\ x \in T
    BY <2>1, <2>2, <2>3 DEF Rank
  <2>5. x \in Nat /\ y \in Nat /\ ~(x < y) /\ ~(y < x)
    <3>1. Rank(T, x) \in 0..(Cardinality(T) - 1)
      BY <2>4, Ranks
    <3>2. Rank(T, x) \in Nat
      BY <1>2, <3>1
    <3> QED
      BY <2>2, <2>4, <3>2, Ranks
  <2> QED
    BY <2>5 DEF x, y
<1> QED
  BY <1>1, <1>3

-----------------------------------------------------------------------------
(* Types.                                                                  *)

Rows == [Ids -> Record \cup {NoRecord}]

Entry == [id : Ids, rec : Record \cup {NoRecord}]

Locals ==
  [call : {"none", "write", "pages", "many", "rebuild"}, changes : Seq(Change), next : Nat,
   batch : Seq(Entry), plan : Seq(PagedRead), cursor : Nat, count : Nat,
   rows : Seq(Ids), stayed : SUBSET Ids, outcome : {"none", "done", "refused", "not found"}]

Labels == {"idle", "resolve", "check", "count", "rows", "scan", "publish"}

(* What the locals m of a call say that goes on at a label. *)
Held(label, m) ==
  /\ m.next \in 1..(Len(m.changes) + 1)
  /\ m.cursor <= Cardinality(Ids) /\ m.count <= Cardinality(Ids)
  /\ Len(m.batch) = IF label = "resolve" THEN m.next - 1 ELSE 0
  /\ label = "resolve" => m.call = "write" /\ Len(m.changes) <= MaxChanges
  /\ label \in {"check", "count", "rows"} =>
       /\ m.plan \in [1..1 -> PagedRead]
       /\ m.call = m.plan[1].call
  /\ label \in {"count", "rows"} => Limit(m.plan[1]) \in 1..MaxLimit
  /\ label \in {"scan", "publish"} => m.call = "rebuild"

(* The rows in the files, which may break a unique key, and those of the    *)
(* projections, which do not: they have passed append_batch or a rebuild.   *)
Stores ==
  /\ table \in Rows
  /\ projection \in Rows /\ Table!UniqueIn(projection)
  /\ scanned \in [Clients -> Rows] /\ \A c \in Clients : Table!UniqueIn(scanned[c])

Typed ==
  /\ setting \in DOMAIN Settings
  /\ Stores
  /\ pc \in [Clients -> Labels]
  /\ calls \in [Clients -> 0..MaxCalls]
  /\ mine \in [Clients -> Locals]
  /\ \A c \in Clients : Held(pc[c], mine[c])

LEMMA StoresKept ==
  ASSUME Typed, UNCHANGED <<table, projection, scanned>>
  PROVE  Stores'
BY DEF Typed, Stores, Table!UniqueIn

LEMMA IdsFinite == IsFiniteSet(Ids) /\ Ids \in SUBSET Nat /\ Cardinality(Ids) \in Nat
BY PlanAssumption, FS_CardinalityType

(* The locals of a call that has not looked at any row yet. *)
Fresh(m) ==
  /\ m.next = 1 /\ m.batch = <<>> /\ m.cursor = 0 /\ m.count = 0 /\ m.rows = <<>>

LEMMA NoLocalsTyped == NoLocals \in Locals /\ Fresh(NoLocals) /\ NoLocals.changes = <<>>
<1>1. /\ <<>> \in Seq(Change) /\ <<>> \in Seq(Entry) /\ <<>> \in Seq(PagedRead) /\ <<>> \in Seq(Ids)
  BY EmptySeq
<1> QED
  BY <1>1 DEF NoLocals, Locals, Fresh

LEMMA FreshHeld ==
  ASSUME NEW m \in Locals, Fresh(m)
  PROVE  /\ Held("idle", m)
         /\ m.call = "write" /\ Len(m.changes) <= MaxChanges => Held("resolve", m)
         /\ m.plan \in [1..1 -> PagedRead] /\ m.call = m.plan[1].call => Held("check", m)
         /\ m.call = "rebuild" => Held("scan", m)
<1>1. m.changes \in Seq(Change)
  BY DEF Locals
<1>2. Len(m.changes) \in Nat
  BY <1>1, LenProperties
<1>3. 1 \in 1..(Len(m.changes) + 1) /\ Len(<<>>) = 0
  BY <1>2, EmptySeq
<1>4. 0 <= Cardinality(Ids)
  <2> DEFINE n == Cardinality(Ids)
  <2>1. n \in Nat
    BY IdsFinite
  <2> HIDE DEF n
  <2>2. 0 <= n
    BY <2>1
  <2> QED
    BY <2>2 DEF n
<1> QED
  BY <1>3, <1>4 DEF Held, Fresh

LEMMA ReturnedTyped ==
  ASSUME NEW call \in {"none", "write", "pages", "many", "rebuild"},
         NEW outcome \in {"none", "done", "refused", "not found"}
  PROVE  LET m == [NoLocals EXCEPT !.call = call, !.outcome = outcome]
         IN  m \in Locals /\ Fresh(m)
<1> DEFINE m1 == [NoLocals EXCEPT !.call = call]
<1>1. m1 \in Locals /\ Fresh(m1)
  BY NoLocalsTyped DEF Locals, Fresh
<1> HIDE DEF m1
<1> DEFINE m2 == [m1 EXCEPT !.outcome = outcome]
<1>2. m2 \in Locals /\ Fresh(m2)
  BY <1>1 DEF Locals, Fresh
<1> QED
  BY <1>2 DEF m1

(* A step of one client that leaves its locals in order leaves all so. *)
LEMMA OneTyped ==
  ASSUME Typed, NEW c \in Clients, NEW label \in Labels, NEW m \in Locals,
         Held(label, m), setting' = setting,
         pc' = [pc EXCEPT ![c] = label], mine' = [mine EXCEPT ![c] = m],
         calls' \in [Clients -> 0..MaxCalls], Stores'
  PROVE  Typed'
<1>1. \A d \in Clients : Held(pc'[d], mine'[d])
  BY DEF Typed
<1>2. pc' \in [Clients -> Labels] /\ mine' \in [Clients -> Locals]
  BY DEF Typed
<1> QED
  BY <1>1, <1>2 DEF Typed

LEMMA ReturnTyped ==
  ASSUME Typed, NEW c \in Clients, NEW outcome \in {"done", "refused", "not found"},
         Return(c, outcome), UNCHANGED turns, Stores'
  PROVE  Typed'
<1> DEFINE call == mine[c].call
           m    == [NoLocals EXCEPT !.call = call, !.outcome = outcome]
<1>1. call \in {"none", "write", "pages", "many", "rebuild"}
  BY DEF Typed, Locals
<1>2. m \in Locals /\ Held("idle", m)
  BY <1>1, ReturnedTyped, FreshHeld
<1>3. /\ mine' = [mine EXCEPT ![c] = m] /\ pc' = [pc EXCEPT ![c] = "idle"]
      /\ setting' = setting /\ calls' \in [Clients -> 0..MaxCalls]
  BY DEF Return, turns, Typed
<1> HIDE DEF m
<1> QED
  BY <1>2, <1>3, OneTyped DEF Labels

LEMMA CallWriteTyped ==
  ASSUME Typed, NEW c \in Clients, CallWrite(c)
  PROVE  Typed'
<1>0. PICK n \in 1..MaxChanges : \E changes \in [1..n -> Writes(c)] :
        Begin(c, "resolve", [NoLocals EXCEPT !.call = "write", !.changes = changes])
  BY DEF CallWrite
<1>1. PICK changes \in [1..n -> Writes(c)] :
        Begin(c, "resolve", [NoLocals EXCEPT !.call = "write", !.changes = changes])
  BY <1>0
<1> DEFINE m == [NoLocals EXCEPT !.call = "write", !.changes = changes]
<1>2. changes \in Seq(Change) /\ Len(changes) = n /\ n \in Nat /\ n <= MaxChanges
  <2>1. n \in Nat /\ n <= MaxChanges
    BY PlanAssumption
  <2>2. Writes(c) \subseteq Change
    BY SettingsAssumption DEF Writes, Typed
  <2>3. changes \in [1..n -> Change]
    BY <1>1, <2>2
  <2>4. changes \in Seq(Change)
    BY <2>1, <2>3, SeqDef
  <2> QED
    BY <2>1, <2>3, <2>4, LenProperties
<1>3. m \in Locals /\ Fresh(m) /\ m.call = "write" /\ m.changes = changes
  <2> DEFINE m1 == [NoLocals EXCEPT !.call = "write"]
  <2>1. m1 \in Locals /\ Fresh(m1) /\ m1.call = "write"
    BY NoLocalsTyped DEF Locals, Fresh
  <2> HIDE DEF m1, m
  <2> DEFINE m2 == [m1 EXCEPT !.changes = changes]
  <2>2. m2 \in Locals /\ Fresh(m2) /\ m2.call = "write" /\ m2.changes = changes
    BY <1>2, <2>1 DEF Locals, Fresh
  <2>3. m = m2
    BY DEF m, m1
  <2> QED
    BY <2>2, <2>3
<1> HIDE DEF m
<1>4. Held("resolve", m)
  BY <1>2, <1>3, FreshHeld
<1>5. calls' \in [Clients -> 0..MaxCalls]
  BY <1>1, PlanAssumption DEF Begin, Typed
<1>6. /\ mine' = [mine EXCEPT ![c] = m] /\ pc' = [pc EXCEPT ![c] = "resolve"]
      /\ setting' = setting /\ UNCHANGED <<table, projection, scanned>>
  BY <1>1 DEF Begin, m
<1>7. Stores'
  BY <1>6, StoresKept
<1> QED
  BY <1>3, <1>4, <1>5, <1>6, <1>7, OneTyped DEF Labels

LEMMA CallReadTyped ==
  ASSUME Typed, NEW c \in Clients, CallRead(c)
  PROVE  Typed'
<1>1. PICK plan \in Reads(c) :
        Begin(c, "check", [NoLocals EXCEPT !.call = plan.call, !.plan = <<plan>>, !.stayed = Live])
  BY DEF CallRead
<1> DEFINE live == Live
           m    == [NoLocals EXCEPT !.call = plan.call, !.plan = <<plan>>, !.stayed = live]
<1>2. plan \in PagedRead /\ plan.call \in {"pages", "many"}
  BY SettingsAssumption DEF Reads, Typed, PagedRead
<1>3. <<plan>> \in Seq(PagedRead) /\ <<plan>> \in [1..1 -> PagedRead] /\ <<plan>>[1] = plan
  BY <1>2
<1>4. live \in SUBSET Ids
  BY DEF Live
<1>5. m \in Locals /\ Fresh(m) /\ m.call = plan.call /\ m.plan = <<plan>>
  <2> DEFINE m1 == [NoLocals EXCEPT !.call = plan.call]
             m2 == [m1 EXCEPT !.plan = <<plan>>]
             m3 == [m2 EXCEPT !.stayed = live]
  <2>1. m1 \in Locals /\ Fresh(m1) /\ m1.call = plan.call
    BY <1>2, NoLocalsTyped DEF Locals, Fresh
  <2> HIDE DEF m1, m, live
  <2>2. m2 \in Locals /\ Fresh(m2) /\ m2.call = plan.call /\ m2.plan = <<plan>>
    BY <1>3, <2>1 DEF Locals, Fresh
  <2> HIDE DEF m2
  <2>3. m3 \in Locals /\ Fresh(m3) /\ m3.call = plan.call /\ m3.plan = <<plan>>
    BY <1>4, <2>2 DEF Locals, Fresh
  <2>4. m = m3
    BY DEF m, m1, m2, m3
  <2> QED
    BY <2>3, <2>4
<1> HIDE DEF m
<1>6. Held("check", m)
  BY <1>3, <1>5, FreshHeld
<1>7. calls' \in [Clients -> 0..MaxCalls]
  BY <1>1, PlanAssumption DEF Begin, Typed
<1>8. /\ mine' = [mine EXCEPT ![c] = m] /\ pc' = [pc EXCEPT ![c] = "check"]
      /\ setting' = setting /\ UNCHANGED <<table, projection, scanned>>
  BY <1>1 DEF Begin, m
<1>9. Stores'
  BY <1>8, StoresKept
<1> QED
  BY <1>5, <1>6, <1>7, <1>8, <1>9, OneTyped DEF Labels

LEMMA MergedTyped ==
  ASSUME NEW rec \in Record, NEW value \in Patch
  PROVE  Merged(rec, value) \in Record
<1>1. PICK S \in SUBSET Fields : value \in [S -> Values]
  BY DEF Patch
<1>2. \A f \in Fields : (IF f \in DOMAIN value THEN value[f] ELSE rec[f]) \in Values
  BY <1>1 DEF Record
<1> QED
  BY <1>2 DEF Merged, Record

(* The entry a change becomes. *)
LEMMA PushTyped ==
  ASSUME Typed, NEW c \in Clients, NEW id \in Ids, NEW rec \in Record \cup {NoRecord},
         pc[c] = "resolve", mine[c].next <= Len(mine[c].changes),
         pc' = pc, UNCHANGED <<table, projection, scanned>>, UNCHANGED turns,
         mine' = [mine EXCEPT ![c].batch = Append(@, [id |-> id, rec |-> rec]),
                              ![c].next = @ + 1]
  PROVE  Typed'
<1> DEFINE e  == [id |-> id, rec |-> rec]
           m0 == mine[c]
           b  == Append(m0.batch, e)
           m1 == [m0 EXCEPT !.batch = b]
           k  == m0.next + 1
           m  == [m1 EXCEPT !.next = k]
<1>1. m0 \in Locals /\ Held("resolve", m0)
  BY DEF Typed
<1>2. m0.batch \in Seq(Entry) /\ m0.changes \in Seq(Change) /\ m0.next \in Nat
  BY <1>1 DEF Locals
<1>3. e \in Entry
  BY DEF Entry
<1>4. Len(m0.changes) \in Nat /\ Len(m0.batch) \in Nat
  BY <1>2, LenProperties
<1>5. mine' = [mine EXCEPT ![c] = m]
  <2>1. DOMAIN mine = Clients /\ mine \in [Clients -> Locals]
    BY DEF Typed
  <2> HIDE DEF e
  <2> QED
    BY <1>1, <2>1 DEF e, Locals
<1> HIDE DEF e, m0
<1>6. b \in Seq(Entry) /\ Len(b) = Len(m0.batch) + 1
  BY <1>2, <1>3, AppendProperties
<1>7. k \in Nat /\ k \in 1..(Len(m0.changes) + 1) /\ Len(b) = k - 1
  <2>1. m0.next <= Len(m0.changes)
    BY DEF m0
  <2>2. m0.next \in 1..(Len(m0.changes) + 1) /\ Len(m0.batch) = m0.next - 1
    BY <1>1 DEF Held
  <2> QED
    BY <1>2, <1>4, <1>6, <2>1, <2>2
<1> HIDE DEF b, k
<1>8. m1 \in Locals
  BY <1>1, <1>6 DEF Locals
<1>9. m \in Locals
  BY <1>7, <1>8 DEF Locals
<1>10. Held("resolve", m)
  BY <1>1, <1>7 DEF Held, Locals
<1>11. setting' = setting /\ calls' \in [Clients -> 0..MaxCalls] /\ pc' = [pc EXCEPT ![c] = "resolve"]
       /\ Stores'
  BY StoresKept DEF turns, Typed
<1> HIDE DEF m, m1
<1> QED
  BY <1>5, <1>9, <1>10, <1>11, OneTyped DEF Labels

LEMMA ResolvedChange ==
  ASSUME Typed, NEW c \in Clients, ResolveChange(c)
  PROVE  LET change == mine[c].changes[mine[c].next]
         IN  /\ change \in Change
             /\ change.op \in {"insert", "upsert", "patch", "remove", "delete"}
<1>1. mine[c].changes \in Seq(Change) /\ mine[c].next \in 1..Len(mine[c].changes)
  <2>1. mine[c] \in Locals /\ mine[c].next \in 1..(Len(mine[c].changes) + 1)
    BY DEF Typed, Held
  <2>2. mine[c].changes \in Seq(Change) /\ mine[c].next \in Nat
    BY <2>1 DEF Locals
  <2>3. Len(mine[c].changes) \in Nat /\ mine[c].next <= Len(mine[c].changes)
    BY <2>2, LenProperties DEF ResolveChange
  <2> QED
    BY <2>1, <2>2, <2>3
<1>2. mine[c].changes[mine[c].next] \in Change
  BY SMTT(30), <1>1, ElementOfSeq
<1> QED
  BY <1>2 DEF Change

LEMMA ResolveChangeTyped ==
  ASSUME Typed, NEW c \in Clients, ResolveChange(c)
  PROVE  Typed'
<1> DEFINE change == mine[c].changes[mine[c].next]
           found  == {id \in Live : Holds(id, change.at)}
           push(id, rec) ==
             IF \E i \in DOMAIN mine[c].batch : mine[c].batch[i].id = id
               THEN Return(c, "refused")
               ELSE /\ mine' = [mine EXCEPT ![c].batch = Append(@, [id |-> id, rec |-> rec]),
                                            ![c].next = @ + 1]
                    /\ UNCHANGED pc
<1>1. /\ pc[c] = "resolve" /\ mine[c].next <= Len(mine[c].changes)
      /\ UNCHANGED <<table, projection, scanned>> /\ UNCHANGED turns
  BY DEF ResolveChange
<1>2. Stores'
  BY <1>1, StoresKept
<1>3. \A id \in Ids, rec \in Record \cup {NoRecord} : push(id, rec) => Typed'
  <2> SUFFICES ASSUME NEW id \in Ids, NEW rec \in Record \cup {NoRecord}, push(id, rec)
               PROVE  Typed'
    OBVIOUS
  <2>1. CASE \E i \in DOMAIN mine[c].batch : mine[c].batch[i].id = id
    BY <1>1, <1>2, <2>1, ReturnTyped
  <2>2. CASE ~(\E i \in DOMAIN mine[c].batch : mine[c].batch[i].id = id)
    <3>1. /\ mine' = [mine EXCEPT ![c].batch = Append(@, [id |-> id, rec |-> rec]),
                                  ![c].next = @ + 1]
          /\ pc' = pc
      BY Zenon, <2>2
    <3> HIDE DEF push
    <3> QED
      BY Zenon, <1>1, <3>1, PushTyped
  <2> QED
    BY <2>1, <2>2
<1>4. change \in Change
  BY ResolvedChange
<1>5. \/ Return(c, "refused")
      \/ change.op \in {"insert", "upsert"} /\ push(change.id, change.rec)
      \/ change.op = "delete" /\ push(change.id, NoRecord)
      \/ Return(c, "not found")
      \/ /\ change.op \in {"patch", "remove"}
         /\ \E id \in found : push(id, IF change.op = "remove" THEN NoRecord
                                                                ELSE Merged(projection[id], change.value))
  <2>1. change.op \in {"insert", "upsert", "patch", "remove", "delete"}
    BY ResolvedChange
  <2> HIDE DEF change, push, found
  <2> QED
    BY <2>1 DEF ResolveChange, change, push, found
<1> HIDE DEF push
<1>6. CASE Return(c, "refused") \/ Return(c, "not found")
  BY <1>1, <1>2, <1>6, ReturnTyped
<1>7. CASE change.op \in {"insert", "upsert"} /\ push(change.id, change.rec)
  <2>1. change.id \in Ids /\ change.rec \in Record
    BY <1>4, <1>7 DEF Change
  <2> QED
    BY <1>3, <1>7, <2>1
<1>8. CASE change.op = "delete" /\ push(change.id, NoRecord)
  <2>1. change.id \in Ids
    BY <1>4, <1>8 DEF Change
  <2> QED
    BY <1>3, <1>8, <2>1
<1>9. CASE /\ change.op \in {"patch", "remove"}
           /\ \E id \in found : push(id, IF change.op = "remove" THEN NoRecord
                                                                  ELSE Merged(projection[id], change.value))
  <2>1. PICK id \in found : push(id, IF change.op = "remove" THEN NoRecord
                                                            ELSE Merged(projection[id], change.value))
    BY <1>9
  <2>2. id \in Ids /\ projection[id] \in Record
    BY <2>1 DEF Live, Typed, Stores, Rows
  <2>3. CASE change.op = "remove"
    BY <1>3, <2>1, <2>2, <2>3
  <2>4. CASE change.op = "patch"
    <3>1. change.value \in Patch
      BY <1>4, <2>4 DEF Change
    <3>2. Merged(projection[id], change.value) \in Record
      BY <2>2, <3>1, MergedTyped
    <3>3. push(id, Merged(projection[id], change.value))
      BY <2>1, <2>4
    <3> QED
      BY <1>3, <2>2, <3>2, <3>3
  <2> QED
    BY <1>9, <2>3, <2>4
<1> QED
  BY <1>5, <1>6, <1>7, <1>8, <1>9

-----------------------------------------------------------------------------
(* The rows after a batch.                                                 *)

LEMMA StoredIs ==
  ASSUME NEW rows, NEW batch \in Seq(Entry), NEW id \in Ids
  PROVE  \/ /\ \A i \in DOMAIN batch : batch[i].id # id
            /\ Stored(rows, batch)[id] = rows[id]
         \/ \E i \in DOMAIN batch : batch[i].id = id /\ Stored(rows, batch)[id] = batch[i].rec
<1>1. CASE \E i \in DOMAIN batch : batch[i].id = id
  BY <1>1 DEF Stored
<1>2. CASE ~(\E i \in DOMAIN batch : batch[i].id = id)
  BY <1>2 DEF Stored
<1> QED
  BY <1>1, <1>2

LEMMA StoredTyped ==
  ASSUME NEW rows \in Rows, NEW batch \in Seq(Entry)
  PROVE  Stored(rows, batch) \in Rows
<1>1. ASSUME NEW id \in Ids
      PROVE  Stored(rows, batch)[id] \in Record \cup {NoRecord}
  <2>1. CASE \E i \in DOMAIN batch : batch[i].id = id /\ Stored(rows, batch)[id] = batch[i].rec
    <3>1. PICK i \in DOMAIN batch : Stored(rows, batch)[id] = batch[i].rec
      BY <2>1
    <3>2. batch[i] \in Entry
      BY ElementOfSeq, LenProperties
    <3> QED
      BY <3>1, <3>2 DEF Entry
  <2>2. CASE Stored(rows, batch)[id] = rows[id]
    BY <2>2 DEF Rows
  <2> QED
    BY <2>1, <2>2, StoredIs
<1>2. DOMAIN Stored(rows, batch) = Ids /\ Stored(rows, batch) = [id \in Ids |-> Stored(rows, batch)[id]]
  BY DEF Stored
<1> QED
  BY <1>1, <1>2 DEF Rows

(* A batch that is accepted leaves no unique key to two rows. *)
LEMMA AcceptedUnique ==
  ASSUME projection \in Rows, Table!UniqueIn(projection), NEW batch \in Seq(Entry), NEW mode, Accepts(batch, mode)
  PROVE  Table!UniqueIn(Stored(projection, batch))
<1> DEFINE new == Stored(projection, batch)
<1> SUFFICES ASSUME NEW i \in Ids, NEW j \in Ids, NEW f \in UniqueFields,
                    new[i] # NoRecord, new[j] # NoRecord, new[i][f] = new[j][f]
             PROVE  i = j
  BY DEF Table!UniqueIn
<1> HIDE DEF new
<1>1. /\ \A a \in DOMAIN batch, g \in UniqueFields :
           batch[a].rec # NoRecord =>
             /\ \A id \in Live : projection[id][g] = batch[a].rec[g] => id = batch[a].id
             /\ \A b \in DOMAIN batch :
                  batch[b].rec # NoRecord /\ batch[a].rec[g] = batch[b].rec[g] => a = b
  BY DEF Accepts
<1>2. CASE new[i] = projection[i] /\ new[j] = projection[j]
  BY <1>2 DEF Table!UniqueIn
<1>3. ASSUME NEW k \in Ids, NEW l \in Ids, NEW a \in DOMAIN batch,
             batch[a].id = k, new[k] = batch[a].rec, new[l] = projection[l],
             new[k] # NoRecord, new[l] # NoRecord, new[k][f] = new[l][f]
      PROVE  k = l
  <2>1. l \in Live
    BY <1>3 DEF Live
  <2> QED
    BY <1>1, <1>3, <2>1
<1>4. ASSUME NEW a \in DOMAIN batch, NEW b \in DOMAIN batch,
             batch[a].id = i, new[i] = batch[a].rec, batch[b].id = j, new[j] = batch[b].rec
      PROVE  i = j
  BY <1>1, <1>4
<1>5. ASSUME NEW k \in Ids
      PROVE  new[k] = projection[k] \/ \E a \in DOMAIN batch : batch[a].id = k /\ new[k] = batch[a].rec
  BY StoredIs DEF new
<1> QED
  BY <1>2, <1>3, <1>4, <1>5

(* A batch changes no more rows than it has entries. *)
LEMMA StoredChanges ==
  ASSUME NEW rows, NEW batch \in Seq(Entry)
  PROVE  LET changed == {id \in Ids : Stored(rows, batch)[id] # rows[id]}
         IN  IsFiniteSet(changed) /\ Cardinality(changed) <= Len(batch)
<1> DEFINE changed == {id \in Ids : Stored(rows, batch)[id] # rows[id]}
           n       == Len(batch)
           image   == {batch[i].id : i \in 1..n}
<1>1. n \in Nat /\ DOMAIN batch = 1..n
  BY LenProperties
<1>2. IsFiniteSet(1..n) /\ Cardinality(1..n) = n
  <2> HIDE DEF n
  <2> QED
    BY <1>1, FS_Interval
<1>3. changed \in SUBSET image
  BY <1>1, StoredIs
<1>4. IsFiniteSet(image) /\ Cardinality(image) <= n
  <2> DEFINE f == [i \in 1..n |-> batch[i].id]
  <2>1. f \in Surjection(1..n, image)
    BY DEF Surjection
  <2> HIDE DEF f, image, n
  <2> QED
    BY <1>2, <2>1, FS_Surjection
<1> HIDE DEF changed, image, n
<1>5. IsFiniteSet(changed) /\ Cardinality(changed) <= Cardinality(image)
  BY <1>3, <1>4, FS_Subset
<1>6. Cardinality(changed) \in Nat /\ Cardinality(image) \in Nat
  BY <1>4, <1>5, FS_CardinalityType
<1>7. Cardinality(changed) <= n
  BY <1>1, <1>4, <1>5, <1>6
<1> QED
  BY <1>5, <1>7 DEF changed, n

(* What append_batch does: a batch that is accepted goes to the rows of the *)
(* files and to those of the projection.                                   *)
LEMMA AppendBatchIs ==
  ASSUME Typed, NEW c \in Clients, AppendBatch(c)
  PROVE  /\ mine[c].batch \in Seq(Entry) /\ Len(mine[c].batch) <= MaxChanges
         /\ \/ table' = table /\ projection' = projection
            \/ /\ Accepts(mine[c].batch, Mode(mine[c].changes))
               /\ table' = Stored(table, mine[c].batch)
               /\ projection' = Stored(projection, mine[c].batch)
         /\ scanned' = scanned
<1> DEFINE batch == mine[c].batch
<1>1. pc[c] = "resolve" /\ mine[c].next > Len(mine[c].changes)
  BY DEF AppendBatch
<1>2. batch \in Seq(Entry) /\ Len(batch) <= MaxChanges
  <2>1. mine[c] \in Locals /\ Held("resolve", mine[c])
    BY <1>1 DEF Typed
  <2>2. /\ batch \in Seq(Entry) /\ mine[c].changes \in Seq(Change) /\ mine[c].next \in Nat
        /\ Len(batch) = mine[c].next - 1 /\ Len(mine[c].changes) <= MaxChanges
        /\ mine[c].next \in 1..(Len(mine[c].changes) + 1)
    BY <2>1 DEF Locals, Held
  <2>3. Len(mine[c].changes) \in Nat /\ MaxChanges \in Nat
    BY <2>2, LenProperties, PlanAssumption
  <2> QED
    BY <1>1, <2>2, <2>3
<1> QED
  BY <1>2 DEF AppendBatch

LEMMA AppendBatchStores ==
  ASSUME Typed, NEW c \in Clients, AppendBatch(c)
  PROVE  Stores'
<1> DEFINE batch == mine[c].batch
<1>1. /\ table \in Rows /\ projection \in Rows /\ Table!UniqueIn(projection)
      /\ batch \in Seq(Entry) /\ scanned' = scanned
  BY AppendBatchIs DEF Typed, Stores
<1>2. CASE table' = table /\ projection' = projection
  BY <1>1, <1>2, StoresKept
<1>3. CASE /\ Accepts(batch, Mode(mine[c].changes))
           /\ table' = Stored(table, batch) /\ projection' = Stored(projection, batch)
  <2>1. table' \in Rows /\ projection' \in Rows /\ Table!UniqueIn(projection')
    BY <1>1, <1>3, StoredTyped, AcceptedUnique
  <2>2. scanned' \in [Clients -> Rows] /\ \A d \in Clients : Table!UniqueIn(scanned'[d])
    BY <1>1 DEF Typed, Stores
  <2> QED
    BY <2>1, <2>2 DEF Stores, Table!UniqueIn
<1> QED
  BY <1>2, <1>3, AppendBatchIs

(* A batch that was checked against the rows of the files commits. *)
LEMMA AppendBatchCommits ==
  ASSUME Typed, NEW c \in Clients, AppendBatch(c), projection = table
  PROVE  table' = table \/ Table!Commit(table')
<1> DEFINE batch == mine[c].batch
           mode  == Mode(mine[c].changes)
<1>2. batch \in Seq(Entry) /\ Len(batch) <= MaxChanges
  BY AppendBatchIs
<1>3. projection \in Rows /\ Table!UniqueIn(projection)
  BY DEF Typed, Stores
<1>5. CASE Accepts(batch, mode) /\ table' = Stored(table, batch)
  <2> DEFINE changed == {id \in Ids : table'[id] # table[id]}
  <2>1. table' \in Rows /\ Table!UniqueIn(table')
    BY <1>2, <1>3, <1>5, StoredTyped, AcceptedUnique
  <2>2. changed = {id \in Ids : Stored(table, batch)[id] # table[id]}
    BY <1>5
  <2>3. IsFiniteSet(changed) /\ Cardinality(changed) <= Len(batch)
    BY <1>2, <2>2, StoredChanges
  <2>4. Cardinality(changed) <= MaxChanges
    <3>1. Cardinality(changed) \in Nat /\ Len(batch) \in Nat /\ MaxChanges \in Nat
      BY <1>2, <2>3, FS_CardinalityType, LenProperties, PlanAssumption
    <3> HIDE DEF changed, batch
    <3> QED
      BY <1>2, <2>3, <3>1
  <2>5. Table!Cardinality(changed) <= MaxChanges
    <3> HIDE DEF changed
    <3>1. Table!Cardinality(changed) = Cardinality(changed)
      BY DEF Cardinality, Table!Cardinality
    <3> QED
      BY <2>4, <3>1
  <2> QED
    BY <2>1, <2>5 DEF Table!Commit
<1> QED
  BY <1>5, AppendBatchIs

LEMMA AppendBatchTyped ==
  ASSUME Typed, NEW c \in Clients, AppendBatch(c)
  PROVE  Typed'
BY AppendBatchStores, ReturnTyped DEF AppendBatch

-----------------------------------------------------------------------------
(* Pages.                                                                  *)

LEMMA FoundFinite ==
  ASSUME NEW at
  PROVE  /\ Found(at) \in SUBSET Ids /\ Found(at) \in SUBSET Nat
         /\ IsFiniteSet(Found(at)) /\ Cardinality(Found(at)) \in Nat
         /\ Cardinality(Found(at)) <= Cardinality(Ids)
<1> DEFINE S == Found(at)
<1>1. S \in SUBSET Ids
  BY DEF Found, Live
<1> HIDE DEF S
<1>2. S \in SUBSET Nat
  BY <1>1, IdsFinite
<1>3. IsFiniteSet(S) /\ Cardinality(S) <= Cardinality(Ids)
  BY <1>1, IdsFinite, FS_Subset
<1>4. Cardinality(S) \in Nat
  BY <1>3, FS_CardinalityType
<1> QED
  BY <1>1, <1>2, <1>3, <1>4 DEF S

LEMMA MatchingIs ==
  ASSUME NEW at
  PROVE  Matching(at) \in Seq(Ids) /\ Len(Matching(at)) = Cardinality(Found(at))
<1>1. /\ Found(at) \in SUBSET Nat /\ IsFiniteSet(Found(at))
      /\ \A x \in Found(at) : x \in Ids
  BY FoundFinite
<1>2. Matching(at) \in Seq(Found(at)) /\ Len(Matching(at)) = Cardinality(Found(at))
  BY <1>1, InOrderIs DEF Matching
<1>3. Matching(at) \in Seq(Ids)
  <2>1. DOMAIN Matching(at) = 1..Len(Matching(at)) /\ Len(Matching(at)) \in Nat
    BY <1>2, LenProperties
  <2>2. \A i \in 1..Len(Matching(at)) : Matching(at)[i] \in Ids
    BY <1>1, <1>2, ElementOfSeq
  <2>3. Matching(at) = [i \in 1..Len(Matching(at)) |-> Matching(at)[i]]
    BY <1>2, <2>1, LenProperties
  <2>4. Matching(at) \in [1..Len(Matching(at)) -> Ids]
    BY <2>2, <2>3
  <2> QED
    BY <2>1, <2>4, SeqDef
<1> QED
  BY <1>2, <1>3

PageOf(found, k, limit) == SubSeq(found, k + 1, Smaller(Len(found), k + limit))

(* Up to `limit` rows from the one behind the first k. *)
LEMMA PageIs ==
  ASSUME NEW found \in Seq(Ids), NEW k \in Nat, NEW limit \in Nat
  PROVE  /\ PageOf(found, k, limit) \in Seq(Ids)
         /\ k <= Len(found) =>
              /\ Len(PageOf(found, k, limit)) = Smaller(Len(found), k + limit) - k
              /\ \A i \in 1..Len(PageOf(found, k, limit)) :
                   PageOf(found, k, limit)[i] = found[k + i]
<1> DEFINE n == Smaller(Len(found), k + limit)
<1>1. Len(found) \in Nat /\ \A i \in 1..Len(found) : found[i] \in Ids
  BY LenProperties, ElementOfSeq
<1>2. n \in Nat /\ n <= Len(found) /\ (k <= Len(found) => k <= n)
  BY <1>1 DEF Smaller
<1> HIDE DEF n
<1>3. k + 1 \in Int /\ n \in Int /\ \A i \in (k + 1)..n : found[i] \in Ids
  BY <1>1, <1>2
<1> DEFINE page == SubSeq(found, k + 1, n)
<1>4. /\ page \in Seq(Ids)
      /\ Len(page) = IF k + 1 <= n THEN n - (k + 1) + 1 ELSE 0
      /\ \A i \in 1..(n - (k + 1) + 1) : page[i] = found[k + 1 + i - 1]
  BY <1>3, SubSeqProperties
<1> HIDE DEF page
<1>5. ASSUME k <= Len(found)
      PROVE  Len(page) = n - k /\ \A i \in 1..Len(page) : page[i] = found[k + i]
  <2>1. Len(page) = n - k
    BY <1>2, <1>4, <1>5
  <2>2. ASSUME NEW i \in 1..Len(page)
        PROVE  page[i] = found[k + i]
    <3>1. i \in 1..(n - (k + 1) + 1) /\ k + 1 + i - 1 = k + i
      BY <1>2, <2>1
    <3> QED
      BY <1>4, <3>1
  <2> QED
    BY <2>1, <2>2
<1> QED
  BY <1>4, <1>5 DEF PageOf, page, n

LEMMA CheckLimitTyped ==
  ASSUME Typed, NEW c \in Clients, CheckLimit(c)
  PROVE  Typed'
<1>1. pc[c] = "check" /\ UNCHANGED <<table, projection, scanned>> /\ UNCHANGED turns
  BY DEF CheckLimit
<1>2. Stores'
  BY <1>1, StoresKept
<1>3. CASE /\ Limit(mine[c].plan[1]) \in 1..MaxLimit
           /\ Goto(c, "count") /\ UNCHANGED mine
  <2> DEFINE m == mine[c]
  <2>1. m \in Locals /\ Held("check", m)
    BY <1>1 DEF Typed
  <2>2. Held("count", m)
    BY <1>3, <2>1 DEF Held
  <2>3. mine' = [mine EXCEPT ![c] = m] /\ pc' = [pc EXCEPT ![c] = "count"]
        /\ setting' = setting /\ calls' \in [Clients -> 0..MaxCalls]
    BY <1>1, <1>3 DEF Goto, turns, Typed
  <2> HIDE DEF m
  <2> QED
    BY <1>2, <2>1, <2>2, <2>3, OneTyped DEF Labels
<1>4. CASE Return(c, "refused")
  BY <1>1, <1>2, <1>4, ReturnTyped
<1> QED
  BY <1>3, <1>4 DEF CheckLimit

LEMMA StayedType ==
  ASSUME NEW c \in Clients
  PROVE  Stayed(c) \in SUBSET Ids /\ Stayed(c) \subseteq Found(mine[c].plan[1].at)
BY FoundFinite DEF Stayed

LEMMA CountRowsTyped ==
  ASSUME Typed, NEW c \in Clients, CountRows(c)
  PROVE  Typed'
<1>1. pc[c] = "count" /\ UNCHANGED <<table, projection, scanned>> /\ UNCHANGED turns /\ Goto(c, "rows")
  BY DEF CountRows
<1> DEFINE m0     == mine[c]
           n      == Len(Matching(m0.plan[1].at))
           stayed == Stayed(c)
           m1     == [m0 EXCEPT !.count = n]
           m      == [m1 EXCEPT !.stayed = stayed]
<1>2. m0 \in Locals /\ Held("count", m0)
  BY <1>1 DEF Typed
<1>3. n \in Nat /\ n <= Cardinality(Ids)
  BY MatchingIs, FoundFinite
<1>4. stayed \in SUBSET Ids
  BY StayedType
<1>5. mine' = [mine EXCEPT ![c] = m]
  <2>1. DOMAIN mine = Clients
    BY DEF Typed
  <2> HIDE DEF n, stayed
  <2> QED
    BY <1>2, <2>1 DEF CountRows, n, stayed, Locals
<1> HIDE DEF m0, n, stayed
<1>6. m1 \in Locals
  BY <1>2, <1>3 DEF Locals
<1>7. m \in Locals
  BY <1>4, <1>6 DEF Locals
<1>8. Held("rows", m)
  BY <1>2, <1>3 DEF Held, Locals
<1>9. /\ pc' = [pc EXCEPT ![c] = "rows"] /\ setting' = setting
      /\ calls' \in [Clients -> 0..MaxCalls] /\ Stores'
  BY <1>1, StoresKept DEF Goto, turns, Typed
<1> HIDE DEF m, m1
<1> QED
  BY <1>5, <1>7, <1>8, <1>9, OneTyped DEF Labels

(* Where a page ends a read and where it goes on. *)
PageEnds(m, rows, stayed) ==
  [NoLocals EXCEPT !.call = m.plan[1].call, !.plan = <<m.plan[1]>>, !.rows = rows,
                   !.stayed = stayed, !.outcome = "done"]

PageGoesOn(m, rows, stayed) ==
  [m EXCEPT !.rows = rows, !.stayed = stayed, !.cursor = m.cursor + Limit(m.plan[1])]

LastPage(m) ==
  ~(m.cursor + Limit(m.plan[1]) < m.count) \/ m.plan[1].call = "many"

RowsRead(m) ==
  m.rows \o PageOf(Matching(m.plan[1].at), m.cursor, Limit(m.plan[1]))

LEMMA ReadPageIs ==
  ASSUME Typed, NEW c \in Clients, ReadPage(c)
  PROVE  /\ pc[c] = "rows" /\ UNCHANGED <<table, projection, scanned>> /\ UNCHANGED turns
         /\ \/ /\ LastPage(mine[c]) /\ Goto(c, "idle")
               /\ mine' = [mine EXCEPT ![c] = PageEnds(mine[c], RowsRead(mine[c]), Stayed(c))]
            \/ /\ ~LastPage(mine[c]) /\ Goto(c, "count")
               /\ mine' = [mine EXCEPT ![c] = PageGoesOn(mine[c], RowsRead(mine[c]), Stayed(c))]
<1> DEFINE plan   == mine[c].plan[1]
           rows   == RowsRead(mine[c])
           cursor == NextCursor(mine[c].cursor, Limit(plan), mine[c].count)
<1>1. /\ pc[c] = "rows" /\ UNCHANGED <<table, projection, scanned>> /\ UNCHANGED turns
      /\ IF cursor = <<>> \/ plan.call = "many"
           THEN /\ Goto(c, "idle")
                /\ mine' = [mine EXCEPT ![c] =
                     [NoLocals EXCEPT !.call = plan.call, !.plan = <<plan>>, !.rows = rows,
                                      !.stayed = Stayed(c), !.outcome = "done"]]
           ELSE /\ Goto(c, "count")
                /\ mine' = [mine EXCEPT ![c].rows = rows, ![c].stayed = Stayed(c),
                                        ![c].cursor = cursor[1]]
  BY DEF ReadPage, RowsRead, PageOf
<1>2. LastPage(mine[c]) <=> cursor = <<>> \/ plan.call = "many"
  BY DEF LastPage, NextCursor
<1>3. CASE LastPage(mine[c])
  BY <1>1, <1>2, <1>3 DEF PageEnds
<1>4. CASE ~LastPage(mine[c])
  <2>1. cursor[1] = mine[c].cursor + Limit(plan)
    BY <1>4 DEF LastPage, NextCursor
  <2>2. mine' = [mine EXCEPT ![c].rows = rows, ![c].stayed = Stayed(c), ![c].cursor = cursor[1]]
        /\ Goto(c, "count")
    BY <1>1, <1>2, <1>4
  <2>3. mine \in [Clients -> Locals] /\ mine[c] \in Locals
    BY DEF Typed
  <2> HIDE DEF rows, cursor
  <2>4. mine' = [mine EXCEPT ![c] = PageGoesOn(mine[c], rows, Stayed(c))]
    BY <2>1, <2>2, <2>3 DEF PageGoesOn, Locals
  <2> QED
    BY <1>1, <1>4, <2>2, <2>4 DEF rows
<1> QED
  BY SMTT(30), <1>3, <1>4

LEMMA ReadPageTyped ==
  ASSUME Typed, NEW c \in Clients, ReadPage(c)
  PROVE  Typed'
<1> DEFINE m0     == mine[c]
           at     == m0.plan[1].at
           limit  == Limit(m0.plan[1])
           page   == PageOf(Matching(at), m0.cursor, limit)
           rows   == m0.rows \o page
           stayed == Stayed(c)
<1>1. pc[c] = "rows" /\ UNCHANGED <<table, projection, scanned>> /\ UNCHANGED turns
  BY ReadPageIs
<1>2. Stores' /\ setting' = setting /\ calls' \in [Clients -> 0..MaxCalls]
  BY <1>1, StoresKept DEF Typed, turns
<1>3. m0 \in Locals /\ Held("rows", m0)
  BY <1>1 DEF Typed
<1>4. /\ m0.rows \in Seq(Ids) /\ m0.cursor \in Nat /\ m0.count \in Nat
      /\ m0.plan \in [1..1 -> PagedRead] /\ limit \in Nat
      /\ m0.count <= Cardinality(Ids)
  <2>1. /\ m0.rows \in Seq(Ids) /\ m0.cursor \in Nat /\ m0.count \in Nat
    BY <1>3 DEF Locals
  <2>2. /\ m0.plan \in [1..1 -> PagedRead] /\ limit \in 1..MaxLimit
        /\ m0.count <= Cardinality(Ids)
    BY <1>3 DEF Held
  <2>3. \A l \in 1..MaxLimit : l \in Nat
    BY PlanAssumption
  <2> HIDE DEF m0, limit
  <2> QED
    BY <2>1, <2>2, <2>3
<1>5. rows \in Seq(Ids) /\ rows = RowsRead(m0)
  <2>1. page \in Seq(Ids)
    BY <1>4, MatchingIs, PageIs
  <2> HIDE DEF page
  <2>2. rows \in Seq(Ids)
    BY <1>4, <2>1, ConcatProperties
  <2> QED
    BY <2>2 DEF RowsRead, page
<1>6. stayed \in SUBSET Ids
  BY StayedType
<1>7. CASE /\ LastPage(m0) /\ Goto(c, "idle")
           /\ mine' = [mine EXCEPT ![c] = PageEnds(m0, rows, stayed)]
  <2> DEFINE m  == PageEnds(m0, rows, stayed)
             m1 == [NoLocals EXCEPT !.call = m0.plan[1].call]
             m2 == [m1 EXCEPT !.plan = <<m0.plan[1]>>]
             m3 == [m2 EXCEPT !.rows = rows]
             m4 == [m3 EXCEPT !.stayed = stayed]
             m5 == [m4 EXCEPT !.outcome = "done"]
  <2> HIDE DEF rows, stayed
  <2>1. m0.plan[1].call \in {"pages", "many"} /\ <<m0.plan[1]>> \in Seq(PagedRead)
    BY <1>4 DEF PagedRead
  <2>2. m1 \in Locals /\ m1.next = 1 /\ m1.batch = <<>> /\ m1.cursor = 0 /\ m1.count = 0
    BY <2>1, NoLocalsTyped DEF Locals, Fresh
  <2> HIDE DEF m1, m, m0
  <2>3. m2 \in Locals /\ m2.next = 1 /\ m2.batch = <<>> /\ m2.cursor = 0 /\ m2.count = 0
    BY <2>1, <2>2 DEF Locals
  <2> HIDE DEF m2
  <2>4. m3 \in Locals /\ m3.next = 1 /\ m3.batch = <<>> /\ m3.cursor = 0 /\ m3.count = 0
    BY <1>5, <2>3 DEF Locals
  <2> HIDE DEF m3
  <2>5. m4 \in Locals /\ m4.next = 1 /\ m4.batch = <<>> /\ m4.cursor = 0 /\ m4.count = 0
    BY <1>6, <2>4 DEF Locals
  <2> HIDE DEF m4
  <2>6. m5 \in Locals /\ m5.next = 1 /\ m5.batch = <<>> /\ m5.cursor = 0 /\ m5.count = 0
    BY <2>5 DEF Locals
  <2>7. m = m5
    BY DEF m, m1, m2, m3, m4, m5, PageEnds
  <2> HIDE DEF m5
  <2>8. Held("idle", m)
    <3>1. m.changes \in Seq(Change)
      BY <2>6, <2>7 DEF Locals
    <3>2. 1 \in 1..(Len(m.changes) + 1) /\ 0 <= Cardinality(Ids) /\ Len(<<>>) = 0
      <4>1. Len(m.changes) \in Nat /\ Cardinality(Ids) \in Nat
        BY <3>1, LenProperties, IdsFinite
      <4>2. \A k, l \in Nat : 1 \in 1..(k + 1) /\ 0 <= l
        OBVIOUS
      <4> QED
        BY <4>1, <4>2, EmptySeq
    <3> QED
      BY <2>6, <2>7, <3>2 DEF Held
  <2>9. mine' = [mine EXCEPT ![c] = m] /\ pc' = [pc EXCEPT ![c] = "idle"]
    BY <1>7 DEF m, Goto
  <2> QED
    BY <1>2, <2>6, <2>7, <2>8, <2>9, OneTyped DEF Labels
<1>8. CASE /\ ~LastPage(m0) /\ Goto(c, "count")
           /\ mine' = [mine EXCEPT ![c] = PageGoesOn(m0, rows, stayed)]
  <2> DEFINE k  == m0.cursor + limit
             m  == PageGoesOn(m0, rows, stayed)
             m1 == [m0 EXCEPT !.rows = rows]
             m2 == [m1 EXCEPT !.stayed = stayed]
             m3 == [m2 EXCEPT !.cursor = k]
  <2>1. m = m3
    BY DEF PageGoesOn
  <2>2. k \in Nat /\ k <= Cardinality(Ids)
    <3>1. k < m0.count
      BY <1>8 DEF LastPage
    <3> HIDE DEF limit, m0
    <3>2. \A l \in Nat : k < m0.count /\ m0.count <= l => k <= l
      BY <1>4
    <3> QED
      BY <1>4, <3>1, <3>2, IdsFinite
  <2> HIDE DEF rows, stayed, k, m, m0
  <2>3. m1 \in Locals /\ Held("rows", m1)
    BY <1>3, <1>5 DEF Locals, Held
  <2> HIDE DEF m1
  <2>4. m2 \in Locals /\ Held("rows", m2)
    BY <1>6, <2>3 DEF Locals, Held
  <2> HIDE DEF m2
  <2>5. m3 \in Locals /\ Held("count", m3)
    BY <2>2, <2>4 DEF Locals, Held
  <2> HIDE DEF m3
  <2>6. mine' = [mine EXCEPT ![c] = m] /\ pc' = [pc EXCEPT ![c] = "count"]
    BY <1>8 DEF m, Goto
  <2> QED
    BY <1>2, <2>1, <2>5, <2>6, OneTyped DEF Labels
<1> QED
  BY <1>5, <1>7, <1>8, ReadPageIs

-----------------------------------------------------------------------------

(* Rebuilds. *)

LEMMA CallRebuildTyped ==
  ASSUME Typed, NEW c \in Clients, CallRebuild(c)
  PROVE  Typed'
<1> DEFINE m == [NoLocals EXCEPT !.call = "rebuild"]
<1>1. m \in Locals /\ Fresh(m) /\ m.call = "rebuild"
  BY NoLocalsTyped DEF Locals, Fresh
<1>2. /\ mine' = [mine EXCEPT ![c] = m] /\ pc' = [pc EXCEPT ![c] = "scan"]
      /\ setting' = setting /\ UNCHANGED <<table, projection, scanned>>
      /\ calls' = [calls EXCEPT ![c] = @ - 1] /\ calls[c] > 0
  BY DEF CallRebuild, Begin
<1> HIDE DEF m
<1>3. Held("scan", m)
  BY <1>1, FreshHeld
<1>4. calls' \in [Clients -> 0..MaxCalls]
  BY <1>2, PlanAssumption DEF Typed
<1>5. Stores'
  BY <1>2, StoresKept
<1> QED
  BY <1>1, <1>2, <1>3, <1>4, <1>5, OneTyped DEF Labels

LEMMA ScanFilesTyped ==
  ASSUME Typed, NEW c \in Clients, ScanFiles(c)
  PROVE  Typed'
<1>1. pc[c] = "scan" /\ UNCHANGED <<table, projection>> /\ UNCHANGED turns
  BY DEF ScanFiles
<1>2. CASE /\ Table!UniqueIn(table) /\ scanned' = [scanned EXCEPT ![c] = table]
           /\ Goto(c, "publish") /\ UNCHANGED mine
  <2> DEFINE m == mine[c]
  <2>1. m \in Locals /\ Held("scan", m)
    BY <1>1 DEF Typed
  <2>2. Held("publish", m)
    BY <2>1 DEF Held
  <2>3. mine' = [mine EXCEPT ![c] = m] /\ pc' = [pc EXCEPT ![c] = "publish"]
        /\ setting' = setting /\ calls' \in [Clients -> 0..MaxCalls]
    BY <1>1, <1>2 DEF Goto, turns, Typed
  <2>4. scanned' \in [Clients -> Rows] /\ \A d \in Clients : Table!UniqueIn(scanned'[d])
    BY <1>2 DEF Typed, Stores
  <2>5. Stores'
    BY <1>1, <2>4 DEF Typed, Stores, Table!UniqueIn
  <2> HIDE DEF m
  <2> QED
    BY <2>1, <2>2, <2>3, <2>5, OneTyped DEF Labels
<1>3. CASE scanned' = scanned /\ Return(c, "refused")
  BY <1>1, <1>3, StoresKept, ReturnTyped
<1> QED
  BY <1>2, <1>3 DEF ScanFiles

LEMMA NoRowsTyped == NoRows \in Rows /\ Table!UniqueIn(NoRows)
BY DEF NoRows, Rows, Table!UniqueIn

LEMMA PublishTyped ==
  ASSUME Typed, NEW c \in Clients, Publish(c)
  PROVE  Typed'
<1>1. /\ table' = table /\ projection' = scanned[c] /\ UNCHANGED turns
      /\ scanned' = [scanned EXCEPT ![c] = NoRows] /\ Return(c, "done")
  BY DEF Publish
<1>2. projection' \in Rows /\ Table!UniqueIn(projection')
  BY <1>1 DEF Typed, Stores
<1>3. scanned' \in [Clients -> Rows] /\ \A d \in Clients : Table!UniqueIn(scanned'[d])
  BY <1>1, NoRowsTyped DEF Typed, Stores
<1>4. Stores'
  BY <1>1, <1>2, <1>3 DEF Typed, Stores, Table!UniqueIn
<1> QED
  BY <1>1, <1>4, ReturnTyped

LEMMA InitTyped ==
  ASSUME Init
  PROVE  Typed
<1>1. setting \in DOMAIN Settings /\ table \in Rows /\ Table!UniqueIn(table)
  BY SettingsAssumption DEF Init, Rows
<1>2. projection = table /\ scanned = [c \in Clients |-> NoRows]
  BY DEF Init
<1>3. Stores
  BY <1>1, <1>2, NoRowsTyped DEF Stores
<1>4. pc \in [Clients -> Labels] /\ calls \in [Clients -> 0..MaxCalls]
  BY SettingsAssumption DEF Init, Labels
<1>5. mine \in [Clients -> Locals] /\ \A c \in Clients : Held(pc[c], mine[c])
  BY NoLocalsTyped, FreshHeld DEF Init
<1> QED
  BY <1>1, <1>3, <1>4, <1>5 DEF Typed

LEMMA NextTyped ==
  ASSUME Typed, [Next]_vars
  PROVE  Typed'
<1>1. CASE UNCHANGED vars
  <2>1. /\ UNCHANGED <<table, projection, scanned>>
        /\ pc' = pc /\ mine' = mine /\ calls' = calls /\ setting' = setting
    BY <1>1 DEF vars, turns
  <2> QED
    BY <2>1, StoresKept DEF Typed
<1>2. CASE Next
  <2>1. CASE Finished
    BY <1>1, <2>1 DEF Finished
  <2>2. CASE \E c \in Clients : CallWrite(c) \/ CallRead(c) \/ CallRebuild(c) \/ Step(c)
    <3>1. PICK c \in Clients : CallWrite(c) \/ CallRead(c) \/ CallRebuild(c) \/ Step(c)
      BY <2>2
    <3> QED
      BY <3>1, CallWriteTyped, CallReadTyped, CallRebuildTyped, ResolveChangeTyped,
         AppendBatchTyped, CheckLimitTyped, CountRowsTyped, ReadPageTyped, ScanFilesTyped,
         PublishTyped DEF Step
  <2> QED
    BY <1>2, <2>1, <2>2 DEF Next
<1> QED
  BY <1>1, <1>2

LEMMA AlwaysTyped == Spec => []Typed
BY InitTyped, NextTyped, PTL DEF Spec

(* The types, and that a write resolves one change after another: as many   *)
(* entries as changes it has passed, and none left over when it returns.    *)
THEOREM PlansTyped == Spec => []TypeOK
<1>1. ASSUME Typed
      PROVE  TypeOK
  <2>1. ASSUME NEW c \in Clients
        PROVE  /\ mine[c].next \in 1..(Len(mine[c].changes) + 1)
               /\ mine[c].cursor <= Cardinality(Ids) /\ mine[c].count <= Cardinality(Ids)
               /\ mine[c].rows \in Seq(Ids) /\ mine[c].stayed \subseteq Ids
               /\ mine[c].outcome \in {"none", "done", "refused", "not found"}
               /\ Len(mine[c].batch) = IF pc[c] = "resolve" THEN mine[c].next - 1 ELSE 0
    <3>1. mine[c] \in Locals /\ Held(pc[c], mine[c])
      BY <1>1 DEF Typed
    <3> QED
      BY <3>1 DEF Locals, Held
  <2> QED
    BY <1>1, <2>1 DEF Typed, Stores, TypeOK, Rows, Labels, Table!Tables, Record, Table!Record
<1> QED
  BY <1>1, AlwaysTyped, PTL

-----------------------------------------------------------------------------
(* The projection beside rebuilds.                                         *)

(* Who rebuilds may; who writes has something to write. *)
Entitled(c) ==
  /\ pc[c] \in {"scan", "publish"} => c \in Rebuilders
  /\ pc[c] = "resolve" => Writes(c) # {}

(* Where nobody rebuilds beside a writer, the projection is that of the     *)
(* files, and so are the rows that a rebuild is about to publish.          *)
ProjectionCurrent ==
  RebuildsApart =>
    /\ projection = table
    /\ \A c \in Clients : pc[c] = "publish" => scanned[c] = table

Current == (\A c \in Clients : Entitled(c)) /\ ProjectionCurrent

LEMMA InitCurrent == Init => Current
BY DEF Init, Current, Entitled, ProjectionCurrent

LEMMA SettingKept ==
  ASSUME setting' = setting
  PROVE  /\ Rebuilders' = Rebuilders /\ \A d \in Clients : Writes(d)' = Writes(d)
         /\ RebuildsApart' = RebuildsApart
<1>1. Rebuilders' = Rebuilders /\ \A d \in Clients : Writes(d)' = Writes(d)
  BY DEF Rebuilders, Writes
<1>2. RebuildsApart' <=> RebuildsApart
  BY DEF RebuildsApart, Others, Rebuilders, Writes
<1>3. RebuildsApart \in BOOLEAN /\ RebuildsApart' \in BOOLEAN
  BY DEF RebuildsApart
<1> QED
  BY <1>1, <1>2, <1>3

(* The steps that leave the rows of files and projection alone. *)
LEMMA StillCurrent ==
  ASSUME Typed, Current, UNCHANGED <<table, projection, scanned, setting>>,
         NEW c \in Clients, NEW label, pc' = [pc EXCEPT ![c] = label], label # "publish",
         label = "scan" => c \in Rebuilders, label = "resolve" => Writes(c) # {}
  PROVE  Current'
<1>1. pc \in [Clients -> Labels]
  BY DEF Typed
<1>2. \A d \in Clients : pc'[d] = IF d = c THEN label ELSE pc[d]
  BY <1>1
<1>3. Rebuilders' = Rebuilders /\ \A d \in Clients : Writes(d)' = Writes(d)
  BY SettingKept
<1>4. RebuildsApart' = RebuildsApart
  BY SettingKept
<1>5. \A d \in Clients : Entitled(d)'
  BY <1>2, <1>3 DEF Current, Entitled
<1>6. ProjectionCurrent'
  <2>1. \A d \in Clients : pc'[d] = "publish" => pc[d] = "publish"
    BY <1>2
  <2> QED
    BY <1>4, <2>1 DEF Current, ProjectionCurrent
<1> QED
  BY <1>5, <1>6 DEF Current

LEMMA ReturnCurrent ==
  ASSUME Typed, Current, NEW c \in Clients, NEW outcome, Return(c, outcome),
         UNCHANGED <<table, projection, scanned, turns>>
  PROVE  Current'
BY StillCurrent DEF Return, turns

LEMMA CallCurrent ==
  ASSUME Typed, Current, NEW c \in Clients, CallWrite(c) \/ CallRead(c) \/ CallRebuild(c)
  PROVE  Current'
<1>1. CASE CallWrite(c)
  <2>1. PICK n \in 1..MaxChanges : \E changes \in [1..n -> Writes(c)] :
          Begin(c, "resolve", [NoLocals EXCEPT !.call = "write", !.changes = changes])
    BY <1>1 DEF CallWrite
  <2>2. PICK changes \in [1..n -> Writes(c)] :
          Begin(c, "resolve", [NoLocals EXCEPT !.call = "write", !.changes = changes])
    BY <2>1
  <2>3. Writes(c) # {}
    <3>1. n \in Nat /\ 1 <= n
      BY PlanAssumption
    <3>2. changes[1] \in Writes(c)
      BY <2>2, <3>1
    <3> QED
      BY <3>2
  <2>4. UNCHANGED <<table, projection, scanned, setting>> /\ pc' = [pc EXCEPT ![c] = "resolve"]
    BY <2>2 DEF Begin
  <2> QED
    BY <2>3, <2>4, StillCurrent
<1>2. CASE CallRead(c)
  <2>1. UNCHANGED <<table, projection, scanned, setting>> /\ pc' = [pc EXCEPT ![c] = "check"]
    BY <1>2 DEF CallRead, Begin
  <2> QED
    BY <2>1, StillCurrent
<1>3. CASE CallRebuild(c)
  <2>1. UNCHANGED <<table, projection, scanned, setting>> /\ pc' = [pc EXCEPT ![c] = "scan"]
        /\ c \in Rebuilders
    BY <1>3 DEF CallRebuild, Begin
  <2> QED
    BY <2>1, StillCurrent
<1> QED
  BY <1>1, <1>2, <1>3

LEMMA ReadsCurrent ==
  ASSUME Typed, Current, NEW c \in Clients,
         ResolveChange(c) \/ CheckLimit(c) \/ CountRows(c) \/ ReadPage(c)
  PROVE  Current'
<1>1. UNCHANGED <<table, projection, scanned, setting>>
  BY DEF ResolveChange, CheckLimit, CountRows, ReadPage, turns
<1>2. pc \in [Clients -> Labels]
  BY DEF Typed
<1>3. CASE ResolveChange(c)
  <2>1. pc[c] = "resolve" /\ (pc' = pc \/ pc' = [pc EXCEPT ![c] = "idle"])
    <3> DEFINE change == mine[c].changes[mine[c].next]
               push(id, rec) ==
                 IF \E i \in DOMAIN mine[c].batch : mine[c].batch[i].id = id
                   THEN Return(c, "refused")
                   ELSE /\ mine' = [mine EXCEPT ![c].batch = Append(@, [id |-> id, rec |-> rec]),
                                                ![c].next = @ + 1]
                        /\ UNCHANGED pc
    <3>1. \A id, rec : push(id, rec) => pc' = pc \/ pc' = [pc EXCEPT ![c] = "idle"]
      BY DEF Return
    <3>2. \A outcome : Return(c, outcome) => pc' = [pc EXCEPT ![c] = "idle"]
      BY DEF Return
    <3>3. \/ \E outcome : Return(c, outcome)
          \/ \E id, rec : push(id, rec)
      <4>1. change.op \in {"insert", "upsert", "patch", "remove", "delete"}
        BY <1>3, ResolvedChange
      <4>2. \/ Return(c, "refused") \/ Return(c, "not found")
            \/ push(change.id, change.rec)
            \/ push(change.id, NoRecord)
            \/ \E id \in Ids : push(id, IF change.op = "remove" THEN NoRecord
                                         ELSE Merged(projection[id], change.value))
        <5> HIDE DEF change, push
        <5> QED
          BY <1>3, <4>1 DEF ResolveChange, change, push, Live
      <4> HIDE DEF change, push
      <4> QED
        BY <4>2
    <3>4. pc[c] = "resolve"
      BY <1>3 DEF ResolveChange
    <3> HIDE DEF push
    <3> QED
      BY <3>1, <3>2, <3>3, <3>4
  <2>2. Writes(c) # {}
    BY <2>1 DEF Current, Entitled
  <2>3. CASE pc' = pc
    <3>1. pc' = [pc EXCEPT ![c] = "resolve"]
      BY <1>2, <2>1, <2>3
    <3> QED
      BY <1>1, <2>2, <3>1, StillCurrent
  <2>4. CASE pc' = [pc EXCEPT ![c] = "idle"]
    BY <1>1, <2>4, StillCurrent
  <2> QED
    BY <2>1, <2>3, <2>4
<1>4. CASE CheckLimit(c) \/ CountRows(c) \/ ReadPage(c)
  <2>1. \E label \in {"idle", "count", "rows"} : pc' = [pc EXCEPT ![c] = label]
    BY <1>4 DEF CheckLimit, CountRows, ReadPage, Goto, Return
  <2> QED
    BY <1>1, <2>1, StillCurrent
<1> QED
  BY <1>3, <1>4

LEMMA AppendBatchCurrent ==
  ASSUME Typed, Current, NEW c \in Clients, AppendBatch(c)
  PROVE  Current'
<1>1. /\ pc[c] = "resolve" /\ pc' = [pc EXCEPT ![c] = "idle"]
      /\ setting' = setting /\ scanned' = scanned
  BY DEF AppendBatch, Return, turns
<1>2. pc \in [Clients -> Labels]
  BY DEF Typed
<1>3. \A d \in Clients : pc'[d] = IF d = c THEN "idle" ELSE pc[d]
  BY <1>1, <1>2
<1>4. Rebuilders' = Rebuilders /\ \A d \in Clients : Writes(d)' = Writes(d)
  BY <1>1, SettingKept
<1>5. RebuildsApart' = RebuildsApart
  BY <1>1, SettingKept
<1>6. \A d \in Clients : Entitled(d)'
  BY <1>3, <1>4 DEF Current, Entitled
<1>7. CASE RebuildsApart
  <2>1. projection = table
    BY <1>7 DEF Current, ProjectionCurrent
  <2>2. projection' = table'
    <3>1. \/ table' = table /\ projection' = projection
          \/ /\ table' = Stored(table, mine[c].batch)
             /\ projection' = Stored(projection, mine[c].batch)
      BY AppendBatchIs
    <3> QED
      BY <2>1, <3>1
  <2>3. \A d \in Clients : pc'[d] # "publish"
    <3> SUFFICES ASSUME NEW d \in Clients, pc'[d] = "publish"
                 PROVE  FALSE
      OBVIOUS
    <3>1. d # c /\ pc[d] = "publish"
      BY <1>3
    <3>2. d \in Rebuilders /\ Writes(c) # {}
      BY <1>1, <3>1 DEF Current, Entitled
    <3> QED
      BY <1>7, <3>1, <3>2 DEF RebuildsApart, Others
  <2> QED
    BY <1>6, <2>2, <2>3 DEF Current, ProjectionCurrent
<1>8. CASE ~RebuildsApart
  BY <1>5, <1>6, <1>8 DEF Current, ProjectionCurrent
<1> QED
  BY <1>7, <1>8

LEMMA RebuildCurrent ==
  ASSUME Typed, Current, NEW c \in Clients, ScanFiles(c) \/ Publish(c)
  PROVE  Current'
<1>1. CASE ScanFiles(c) /\ Return(c, "refused") /\ scanned' = scanned
  BY <1>1, ReturnCurrent DEF ScanFiles
<1>2. CASE ScanFiles(c) /\ scanned' = [scanned EXCEPT ![c] = table] /\ Goto(c, "publish")
  <2>1. /\ pc[c] = "scan" /\ UNCHANGED <<table, projection>> /\ setting' = setting
        /\ pc' = [pc EXCEPT ![c] = "publish"]
    BY <1>2 DEF ScanFiles, Goto, turns
  <2>2. pc \in [Clients -> Labels] /\ scanned \in [Clients -> Rows]
    BY DEF Typed, Stores
  <2>3. /\ \A d \in Clients : pc'[d] = IF d = c THEN "publish" ELSE pc[d]
        /\ \A d \in Clients : scanned'[d] = IF d = c THEN table ELSE scanned[d]
    BY <1>2, <2>1, <2>2
  <2>4. Rebuilders' = Rebuilders /\ \A d \in Clients : Writes(d)' = Writes(d)
    BY <2>1, SettingKept
  <2>5. RebuildsApart' = RebuildsApart
    BY <2>1, SettingKept
  <2>6. \A d \in Clients : Entitled(d)'
    BY <2>1, <2>3, <2>4 DEF Current, Entitled
  <2>7. ProjectionCurrent'
    BY <2>1, <2>3, <2>5 DEF Current, ProjectionCurrent
  <2> QED
    BY <2>6, <2>7 DEF Current
<1>3. CASE Publish(c)
  <2>1. /\ pc[c] = "publish" /\ table' = table /\ projection' = scanned[c] /\ setting' = setting
        /\ scanned' = [scanned EXCEPT ![c] = NoRows] /\ pc' = [pc EXCEPT ![c] = "idle"]
    BY <1>3 DEF Publish, Return, turns
  <2>2. pc \in [Clients -> Labels] /\ scanned \in [Clients -> Rows]
    BY DEF Typed, Stores
  <2>3. /\ \A d \in Clients : pc'[d] = IF d = c THEN "idle" ELSE pc[d]
        /\ \A d \in Clients : d # c => scanned'[d] = scanned[d]
    BY <2>1, <2>2
  <2>4. Rebuilders' = Rebuilders /\ \A d \in Clients : Writes(d)' = Writes(d)
    BY <2>1, SettingKept
  <2>5. RebuildsApart' = RebuildsApart
    BY <2>1, SettingKept
  <2>6. \A d \in Clients : Entitled(d)'
    BY <2>3, <2>4 DEF Current, Entitled
  <2>7. ProjectionCurrent'
    BY <2>1, <2>3, <2>5 DEF Current, ProjectionCurrent
  <2> QED
    BY <2>6, <2>7 DEF Current
<1> QED
  BY <1>1, <1>2, <1>3 DEF ScanFiles

LEMMA NextCurrent ==
  ASSUME Typed, Current, [Next]_vars
  PROVE  Current'
<1>1. CASE UNCHANGED vars
  <2>1. UNCHANGED <<table, projection, scanned, pc, setting>>
    BY <1>1 DEF vars, turns
  <2> QED
    BY <2>1 DEF Current, Entitled, ProjectionCurrent, RebuildsApart, Rebuilders, Writes
<1>2. CASE Finished
  BY <1>1, <1>2 DEF Finished
<1>3. ASSUME NEW c \in Clients, CallWrite(c) \/ CallRead(c) \/ CallRebuild(c) \/ Step(c)
      PROVE  Current'
  BY <1>3, CallCurrent, ReadsCurrent, AppendBatchCurrent, RebuildCurrent DEF Step
<1> QED
  BY <1>1, <1>2, <1>3 DEF Next

LEMMA AlwaysCurrent == Spec => []Current
BY InitCurrent, NextCurrent, AlwaysTyped, PTL DEF Spec

LEMMA StepCommits ==
  ASSUME Typed, Current, [Next]_vars
  PROVE  [RebuildsApart \/ projection = table => Table!Commit(table')]_table
<1>1. ASSUME NEW c \in Clients, CallWrite(c) \/ CallRead(c) \/ CallRebuild(c)
      PROVE  table' = table
  BY <1>1 DEF CallWrite, CallRead, CallRebuild, Begin
<1>2. ASSUME NEW c \in Clients,
             \/ ResolveChange(c) \/ CheckLimit(c) \/ CountRows(c) \/ ReadPage(c)
             \/ ScanFiles(c) \/ Publish(c)
      PROVE  table' = table
  BY <1>2 DEF ResolveChange, CheckLimit, CountRows, ReadPage, ScanFiles, Publish
<1>3. ASSUME NEW c \in Clients, AppendBatch(c), RebuildsApart \/ projection = table
      PROVE  table' = table \/ Table!Commit(table')
  BY <1>3, AppendBatchCommits DEF Current, ProjectionCurrent
<1>4. CASE UNCHANGED vars \/ Finished
  BY <1>4 DEF vars, Finished
<1> QED
  BY <1>1, <1>2, <1>3, <1>4 DEF Next, Step

(* A batch is checked against the projection, which a rebuild may set back. *)
(* Where no client rebuilds beside another that writes it never is, however *)
(* the plans of any clients interleave: the rows change as those of the     *)
(* abstract table, by whole batches of at most MaxChanges rows that leave   *)
(* no unique key to two rows.  Beside a rebuild, a batch does so that finds *)
(* the projection as the files are (append_batch, rebuild_sixb).           *)
THEOREM PlansImplementTable == Spec => TableRefinement
<1>1. /\ Typed /\ Current /\ [Next]_vars
      => [RebuildsApart \/ projection = table => Table!Commit(table')]_table
  BY StepCommits
<1> QED
  BY <1>1, AlwaysTyped, AlwaysCurrent, PTL DEF Spec, TableRefinement

-----------------------------------------------------------------------------
(* Paged reads.                                                            *)

(* Of the rows that are read, those there are stay, and others come behind. *)
GrowsBehind ==
  \A c \in Clients : \A plan \in Reads(c) :
    /\ Found(plan.at) \subseteq Found(plan.at)'
    /\ \A id \in Found(plan.at)' \ Found(plan.at), other \in Found(plan.at) : other < id

(* A read has the rows up to its cursor; between count and page, the rows   *)
(* that have matched so far are among those it has counted.                *)
Covered(found, label, m) ==
  /\ label # "idle" => m.outcome = "none"
  /\ label = "check" => m.cursor = 0 /\ m.rows = <<>>
  /\ label \in {"count", "rows"} =>
       /\ m.cursor <= Cardinality(found) /\ Len(m.rows) = m.cursor
       /\ \A i \in 1..m.cursor : m.rows[i] = InOrder(found)[i]
       /\ m.call = "many" => m.cursor = 0
  /\ label = "rows" =>
       /\ m.count <= Cardinality(found)
       /\ \A id \in m.stayed : \E i \in 1..m.count : InOrder(found)[i] = id

Answered(m) ==
  m.outcome = "done" /\ m.call \in {"pages", "many"} =>
    /\ \/ m.call = "many" /\ Len(m.rows) = Limit(m.plan[1])
       \/ \A id \in m.stayed : \E i \in DOMAIN m.rows : m.rows[i] = id
    /\ \A i, j \in DOMAIN m.rows : m.rows[i] = m.rows[j] => i = j

Paged(c) ==
  /\ pc[c] \in {"check", "count", "rows"} => mine[c].plan[1] \in Reads(c)
  /\ Covered(Found(mine[c].plan[1].at), pc[c], mine[c])
  /\ Answered(mine[c])

PagesInv == \A c \in Clients : Paged(c)

(* Rows that come behind the others disturb no read. *)
LEMMA CoveredGrows ==
  ASSUME NEW T \in SUBSET Nat, IsFiniteSet(T), NEW S \in SUBSET T,
         \A x \in T \ S, y \in S : y < x,
         NEW label, NEW m \in Locals, Covered(S, label, m)
  PROVE  Covered(T, label, m)
<1>1. /\ Cardinality(S) <= Cardinality(T)
      /\ \A i \in 1..Cardinality(S) : InOrder(T)[i] = InOrder(S)[i]
  BY InOrderGrows
<1>2. m.cursor \in Nat /\ m.count \in Nat
  BY DEF Locals
<1>3. Cardinality(S) \in Nat /\ Cardinality(T) \in Nat
  BY FS_Subset, FS_CardinalityType
<1>4. ASSUME NEW k \in Nat, k <= Cardinality(S)
      PROVE  k <= Cardinality(T) /\ \A i \in 1..k : InOrder(T)[i] = InOrder(S)[i]
  BY <1>1, <1>3, <1>4
<1> QED
  BY <1>2, <1>4 DEF Covered

LEMMA FoundGrows ==
  ASSUME [GrowsBehind]_projection, NEW c \in Clients, NEW plan, plan \in Reads(c)
  PROVE  /\ Found(plan.at)' \in SUBSET Nat /\ IsFiniteSet(Found(plan.at)')
         /\ Found(plan.at) \in SUBSET (Found(plan.at)')
         /\ \A x \in Found(plan.at)' \ Found(plan.at), y \in Found(plan.at) : y < x
<1> DEFINE S == Found(plan.at)
           T == Found(plan.at)'
<1>1. T \in SUBSET Ids
  BY DEF Found, Live
<1>2. S \subseteq T /\ \A x \in T \ S, y \in S : y < x
  <2>1. CASE projection' = projection
    <3>1. S = T
      BY <2>1 DEF Found, Live, Holds
    <3> QED
      BY <3>1
  <2>2. CASE GrowsBehind
    BY <2>2 DEF GrowsBehind
  <2> QED
    BY <2>1, <2>2
<1> HIDE DEF S, T
<1>3. T \in SUBSET Nat /\ IsFiniteSet(T)
  BY <1>1, IdsFinite, FS_Subset
<1> QED
  BY <1>2, <1>3 DEF S, T

LEMMA KeepsPaged ==
  ASSUME Typed, NEW c \in Clients, Paged(c), [GrowsBehind]_projection,
         pc'[c] = pc[c], mine'[c] = mine[c], setting' = setting
  PROVE  Paged(c)'
<1>1. PICK m \in Locals : m = mine[c]
  BY DEF Typed
<1>2. PICK label : label = pc[c]
  OBVIOUS
<1>3. /\ label \in {"check", "count", "rows"} => m.plan[1] \in Reads(c)
      /\ Covered(Found(m.plan[1].at), label, m)
      /\ Answered(m)
  BY <1>1, <1>2 DEF Paged
<1>4. Reads(c)' = Reads(c)
  BY DEF Reads
<1>5. Covered(Found(m.plan[1].at)', label, m)
  <2>1. CASE label \in {"check", "count", "rows"}
    <3>1. m.plan[1] \in Reads(c)
      BY <1>3, <2>1
    <3> DEFINE S == Found(m.plan[1].at)
               T == Found(m.plan[1].at)'
    <3>2. /\ T \in SUBSET Nat /\ IsFiniteSet(T) /\ S \in SUBSET T
          /\ \A x \in T \ S, y \in S : y < x
      BY <3>1, FoundGrows
    <3>3. Covered(S, label, m)
      BY <1>3
    <3> HIDE DEF S, T
    <3>4. Covered(T, label, m)
      BY <3>2, <3>3, CoveredGrows
    <3> QED
      BY <3>4 DEF T
  <2>2. CASE label \notin {"check", "count", "rows"}
    BY <1>3, <2>2 DEF Covered
  <2> QED
    BY <2>1, <2>2
<1>6. mine'[c] = m /\ pc'[c] = label
  BY <1>1, <1>2
<1>7. (pc[c] \in {"check", "count", "rows"} => mine[c].plan[1] \in Reads(c))'
  BY <1>3, <1>4, <1>6
<1>8. Answered(mine[c])'
  BY <1>3, <1>6
<1>9. Covered(Found(mine[c].plan[1].at), pc[c], mine[c])'
  BY <1>5, <1>6
<1> QED
  BY <1>7, <1>8, <1>9 DEF Paged

(* The client that moves; the others keep what they have. *)
LEMMA OnePaged ==
  ASSUME Typed, PagesInv, [GrowsBehind]_projection, NEW c \in Clients, NEW label, NEW m,
         setting' = setting, pc' = [pc EXCEPT ![c] = label], mine' = [mine EXCEPT ![c] = m],
         label \in {"check", "count", "rows"} => m.plan[1] \in Reads(c),
         Covered(Found(m.plan[1].at)', label, m), Answered(m)
  PROVE  PagesInv'
<1>1. pc \in [Clients -> Labels] /\ mine \in [Clients -> Locals]
  BY DEF Typed
<1>2. ASSUME NEW d \in Clients, d # c
      PROVE  Paged(d)'
  <2>1. pc'[d] = pc[d] /\ mine'[d] = mine[d]
    BY <1>1, <1>2
  <2> QED
    BY <2>1, KeepsPaged DEF PagesInv
<1>3. Paged(c)'
  <2>1. pc'[c] = label /\ mine'[c] = m
    BY <1>1
  <2>2. Reads(c)' = Reads(c)
    BY DEF Reads
  <2>3. (pc[c] \in {"check", "count", "rows"} => mine[c].plan[1] \in Reads(c))'
    BY <2>1, <2>2
  <2>4. Answered(mine[c])' /\ Covered(Found(mine[c].plan[1].at), pc[c], mine[c])'
    BY <2>1
  <2> QED
    BY <2>3, <2>4 DEF Paged
<1> QED
  BY <1>2, <1>3 DEF PagesInv

LEMMA ReturnPaged ==
  ASSUME Typed, PagesInv, [GrowsBehind]_projection, NEW c \in Clients,
         NEW outcome \in {"done", "refused", "not found"},
         Return(c, outcome), outcome = "done" => mine[c].call \in {"write", "rebuild"}, setting' = setting
  PROVE  PagesInv'
<1>1. PICK call : call = mine[c].call
  OBVIOUS
<1> DEFINE m1 == [NoLocals EXCEPT !.call = call]
           m  == [m1 EXCEPT !.outcome = outcome]
<1>2. m1.call = call /\ m1 \in Locals
  <2>1. call \in {"none", "write", "pages", "many", "rebuild"}
    BY <1>1 DEF Typed, Locals
  <2> QED
    BY <2>1, NoLocalsTyped DEF Locals
<1>3. mine' = [mine EXCEPT ![c] = m] /\ pc' = [pc EXCEPT ![c] = "idle"]
  BY <1>1 DEF Return
<1> HIDE DEF m1
<1>4. m.outcome = outcome /\ m.call = call
  BY <1>2 DEF Locals
<1> HIDE DEF m
<1>5. Answered(m) /\ Covered(Found(m.plan[1].at)', "idle", m)
  BY <1>1, <1>4 DEF Answered, Covered
<1> QED
  BY <1>3, <1>5, OnePaged

LEMMA CallWritePaged ==
  ASSUME Typed, PagesInv, [GrowsBehind]_projection, NEW c \in Clients, CallWrite(c)
  PROVE  PagesInv'
<1>1. PICK n \in 1..MaxChanges : \E changes \in [1..n -> Writes(c)] :
        Begin(c, "resolve", [NoLocals EXCEPT !.call = "write", !.changes = changes])
  BY DEF CallWrite
<1>2. PICK changes \in [1..n -> Writes(c)] :
        Begin(c, "resolve", [NoLocals EXCEPT !.call = "write", !.changes = changes])
  BY <1>1
<1> DEFINE m1 == [NoLocals EXCEPT !.call = "write"]
           m  == [m1 EXCEPT !.changes = changes]
<1>3. m1 \in Locals /\ m1.outcome = "none"
  BY NoLocalsTyped DEF Locals, NoLocals
<1>4. mine' = [mine EXCEPT ![c] = m] /\ pc' = [pc EXCEPT ![c] = "resolve"] /\ setting' = setting
  BY <1>2 DEF Begin
<1> HIDE DEF m1
<1>5. m.outcome = "none"
  BY <1>3 DEF Locals
<1> HIDE DEF m
<1>6. Answered(m) /\ Covered(Found(m.plan[1].at)', "resolve", m)
  BY <1>5 DEF Answered, Covered
<1> QED
  BY <1>4, <1>6, OnePaged

LEMMA CallReadPaged ==
  ASSUME Typed, PagesInv, [GrowsBehind]_projection, NEW c \in Clients, CallRead(c)
  PROVE  PagesInv'
<1>1. PICK plan \in Reads(c) :
        Begin(c, "check", [NoLocals EXCEPT !.call = plan.call, !.plan = <<plan>>, !.stayed = Live])
  BY DEF CallRead
<1>2. PICK live \in SUBSET Ids : live = Live
  BY DEF Live
<1> DEFINE m1 == [NoLocals EXCEPT !.call = plan.call]
           m2 == [m1 EXCEPT !.plan = <<plan>>]
           m  == [m2 EXCEPT !.stayed = live]
<1>3. mine' = [mine EXCEPT ![c] = m] /\ pc' = [pc EXCEPT ![c] = "check"] /\ setting' = setting
  BY <1>1, <1>2 DEF Begin
<1>4. plan \in PagedRead /\ plan.call \in {"pages", "many"} /\ <<plan>> \in Seq(PagedRead)
      /\ <<plan>>[1] = plan
  BY SettingsAssumption DEF Reads, Typed, PagedRead
<1>5. m1 \in Locals /\ Fresh(m1) /\ m1.outcome = "none"
  BY <1>4, NoLocalsTyped DEF Locals, Fresh, NoLocals
<1> HIDE DEF m1
<1>6. m2 \in Locals /\ Fresh(m2) /\ m2.outcome = "none" /\ m2.plan = <<plan>>
  BY <1>4, <1>5 DEF Locals, Fresh
<1> HIDE DEF m2
<1>7. Fresh(m) /\ m.outcome = "none" /\ m.plan = <<plan>>
  BY <1>6 DEF Locals, Fresh
<1> HIDE DEF m
<1>8. Answered(m) /\ Covered(Found(m.plan[1].at)', "check", m) /\ m.plan[1] \in Reads(c)
  BY <1>4, <1>7 DEF Answered, Covered, Fresh
<1> QED
  BY <1>3, <1>8, OnePaged

LEMMA ResolveChangePaged ==
  ASSUME Typed, PagesInv, [GrowsBehind]_projection, NEW c \in Clients, ResolveChange(c)
  PROVE  PagesInv'
<1>1. pc[c] = "resolve" /\ setting' = setting
  BY DEF ResolveChange, turns
<1>2. CASE Return(c, "refused") \/ Return(c, "not found")
  BY <1>1, <1>2, ReturnPaged
<1>3. CASE /\ pc' = pc
           /\ \E id, rec :
                mine' = [mine EXCEPT ![c].batch = Append(@, [id |-> id, rec |-> rec]),
                                     ![c].next = @ + 1]
  <2>1. PICK id, rec :
          mine' = [mine EXCEPT ![c].batch = Append(@, [id |-> id, rec |-> rec]), ![c].next = @ + 1]
    BY <1>3
  <2>2. PICK m : m = mine'[c]
    OBVIOUS
  <2>3. mine \in [Clients -> Locals] /\ mine[c] \in Locals /\ mine[c].outcome = "none"
    BY <1>1 DEF Typed, PagesInv, Paged, Covered
  <2>4. PICK b, k : b = Append(mine[c].batch, [id |-> id, rec |-> rec]) /\ k = mine[c].next + 1
    OBVIOUS
  <2>5. mine' = [mine EXCEPT ![c] = [[mine[c] EXCEPT !.batch = b] EXCEPT !.next = k]]
    BY <2>1, <2>3, <2>4 DEF Locals
  <2>6. mine' = [mine EXCEPT ![c] = m] /\ m.outcome = "none"
    BY <2>2, <2>3, <2>5 DEF Locals
  <2>7. pc' = [pc EXCEPT ![c] = "resolve"]
    BY <1>1, <1>3 DEF Typed
  <2>8. Answered(m) /\ Covered(Found(m.plan[1].at)', "resolve", m)
    BY <2>6 DEF Answered, Covered
  <2> QED
    BY <1>1, <2>6, <2>7, <2>8, OnePaged
<1> DEFINE push(id, rec) ==
             IF \E i \in DOMAIN mine[c].batch : mine[c].batch[i].id = id
               THEN Return(c, "refused")
               ELSE /\ mine' = [mine EXCEPT ![c].batch = Append(@, [id |-> id, rec |-> rec]),
                                            ![c].next = @ + 1]
                    /\ UNCHANGED pc
<1>4. \A id, rec : push(id, rec) => PagesInv'
  BY <1>2, <1>3
<1>5. \/ Return(c, "refused")
      \/ Return(c, "not found")
      \/ \E id, rec : push(id, rec)
  <2> DEFINE change == mine[c].changes[mine[c].next]
             found  == {id \in Live : Holds(id, change.at)}
  <2>1. \/ Return(c, "refused")
        \/ push(change.id, change.rec)
        \/ push(change.id, NoRecord)
        \/ Return(c, "not found")
        \/ \E id \in found : push(id, IF change.op = "remove" THEN NoRecord
                                                              ELSE Merged(projection[id], change.value))
    <3>1. change.op \in {"insert", "upsert", "patch", "remove", "delete"}
      BY ResolvedChange
    <3> HIDE DEF change, push, found
    <3> QED
      BY <3>1 DEF ResolveChange, change, push, found
  <2> HIDE DEF change, push, found
  <2> QED
    BY <2>1
<1> QED
  BY <1>2, <1>4, <1>5

LEMMA AppendBatchPaged ==
  ASSUME Typed, PagesInv, [GrowsBehind]_projection, NEW c \in Clients, AppendBatch(c)
  PROVE  PagesInv'
<1>1. setting' = setting /\ mine[c].call = "write"
  BY DEF AppendBatch, turns, Typed, Held
<1>2. Return(c, "done") \/ Return(c, "refused")
  BY DEF AppendBatch
<1> QED
  BY <1>1, <1>2, ReturnPaged

LEMMA CheckLimitPaged ==
  ASSUME Typed, PagesInv, [GrowsBehind]_projection, NEW c \in Clients, CheckLimit(c)
  PROVE  PagesInv'
<1>1. pc[c] = "check" /\ setting' = setting
  BY DEF CheckLimit, turns
<1>2. CASE Goto(c, "count") /\ UNCHANGED mine
  <2>1. PICK m \in Locals : m = mine[c]
    BY DEF Typed
  <2>2. mine' = [mine EXCEPT ![c] = m] /\ pc' = [pc EXCEPT ![c] = "count"]
    BY <1>2, <2>1 DEF Goto, Typed
  <2>3. /\ m.plan[1] \in Reads(c) /\ Answered(m)
        /\ m.outcome = "none" /\ m.cursor = 0 /\ m.rows = <<>>
    BY <1>1, <2>1 DEF PagesInv, Paged, Covered
  <2> DEFINE T == Found(m.plan[1].at)'
  <2>4. T \in SUBSET Nat /\ IsFiniteSet(T)
    BY <2>3, FoundGrows
  <2> HIDE DEF T
  <2>5. 0 <= Cardinality(T)
    <3> DEFINE k == Cardinality(T)
    <3>1. k \in Nat
      BY <2>4, FS_CardinalityType
    <3> HIDE DEF k
    <3>2. 0 <= k
      BY <3>1
    <3> QED
      BY <3>2 DEF k
  <2>6. Len(<<>>) = 0 /\ 1..0 = {}
    BY EmptySeq
  <2>7. Covered(T, "count", m)
    BY <2>3, <2>5, <2>6 DEF Covered
  <2> QED
    BY <1>1, <2>2, <2>3, <2>7, OnePaged DEF T
<1> QED
  BY <1>1, <1>2, ReturnPaged DEF CheckLimit

(* The rows counted are all that match. *)
LEMMA CountedCovered ==
  ASSUME NEW found \in SUBSET Nat, IsFiniteSet(found), NEW m, NEW m2,
         Covered(found, "count", m),
         m2.outcome = m.outcome, m2.cursor = m.cursor, m2.rows = m.rows, m2.call = m.call,
         m2.count = Cardinality(found), m2.stayed \subseteq found
  PROVE  Covered(found, "rows", m2)
<1>1. Cardinality(found) \in Nat
  BY FS_CardinalityType
<1>2. Cardinality(found) <= Cardinality(found)
  BY <1>1
<1>3. \A id \in m2.stayed : \E i \in 1..Cardinality(found) : InOrder(found)[i] = id
  BY InOrderIs
<1> QED
  BY <1>2, <1>3 DEF Covered

LEMMA CountRowsPaged ==
  ASSUME Typed, PagesInv, [GrowsBehind]_projection, NEW c \in Clients, CountRows(c)
  PROVE  PagesInv'
<1>1. pc[c] = "count" /\ UNCHANGED <<table, projection, scanned>> /\ setting' = setting
      /\ pc' = [pc EXCEPT ![c] = "rows"]
  BY DEF CountRows, turns, Goto
<1>2. PICK m0 \in Locals : m0 = mine[c]
  BY DEF Typed
<1>3. PICK n \in Nat : n = Len(Matching(m0.plan[1].at))
  BY MatchingIs, FoundFinite
<1>4. PICK stayed \in SUBSET Ids : stayed = Stayed(c)
  BY StayedType
<1> DEFINE m1 == [m0 EXCEPT !.count = n]
           m  == [m1 EXCEPT !.stayed = stayed]
           S  == Found(m0.plan[1].at)
<1>5. mine' = [mine EXCEPT ![c] = m]
  <2>1. DOMAIN mine = Clients
    BY DEF Typed
  <2> QED
    BY <1>2, <1>3, <1>4, <2>1 DEF CountRows, Locals
<1>6. m1 \in Locals /\ m1.count = n /\ m1.plan = m0.plan /\ m1.outcome = m0.outcome
      /\ m1.cursor = m0.cursor /\ m1.rows = m0.rows /\ m1.call = m0.call
  BY DEF Locals
<1> HIDE DEF m1
<1>7. m.count = n /\ m.plan = m0.plan /\ m.outcome = m0.outcome
      /\ m.cursor = m0.cursor /\ m.rows = m0.rows /\ m.call = m0.call /\ m.stayed = stayed
  BY <1>6 DEF Locals
<1> HIDE DEF m
<1>8. /\ m0.plan[1] \in Reads(c) /\ m0.outcome = "none"
      /\ Covered(S, "count", m0)
  BY <1>1, <1>2 DEF PagesInv, Paged, Covered
<1>9. S \in SUBSET Nat /\ IsFiniteSet(S) /\ n = Cardinality(S) /\ stayed \subseteq S
  BY <1>2, <1>3, <1>4, MatchingIs, FoundFinite, StayedType
<1>10. Found(m.plan[1].at)' = S
  BY <1>1, <1>7 DEF Found, Live, Holds
<1> HIDE DEF S
<1>11. Covered(S, "rows", m)
  BY <1>7, <1>8, <1>9, CountedCovered
<1>12. Answered(m) /\ m.plan[1] \in Reads(c)
  BY <1>7, <1>8 DEF Answered
<1> QED
  BY <1>1, <1>5, <1>10, <1>11, <1>12, OnePaged

(* With the page the read has the rows up to the end of the page. *)
LEMMA PageCovered ==
  ASSUME NEW found \in SUBSET Ids, NEW m \in Locals, Covered(found, "rows", m),
         NEW limit \in Nat
  PROVE  LET n    == Smaller(Cardinality(found), m.cursor + limit)
             rows == m.rows \o PageOf(InOrder(found), m.cursor, limit)
         IN  /\ n \in Nat /\ n <= Cardinality(found)
             /\ rows \in Seq(Ids) /\ Len(rows) = n
             /\ \A i \in 1..n : rows[i] = InOrder(found)[i]
<1> DEFINE order == InOrder(found)
           size  == Cardinality(found)
           k     == m.cursor
           page  == PageOf(order, k, limit)
           n     == Smaller(size, k + limit)
           rows  == m.rows \o page
<1>1. found \in SUBSET Nat /\ IsFiniteSet(found)
  BY IdsFinite, FS_Subset
<1>2. size \in Nat /\ order \in Seq(found) /\ Len(order) = size
  BY <1>1, InOrderIs
<1>3. order \in Seq(Ids)
  <2> HIDE DEF order, size
  <2>1. order \in [1..size -> found]
    BY <1>2, LenProperties, ElementOfSeq
  <2>2. order \in [1..size -> Ids]
    BY <2>1
  <2> QED
    BY <1>2, <2>2, SeqDef
<1>4. k \in Nat /\ m.rows \in Seq(Ids)
  BY DEF Locals
<1>5. k <= size /\ Len(m.rows) = k /\ \A i \in 1..k : m.rows[i] = order[i]
  BY DEF Covered
<1> HIDE DEF order, size, k
<1>6. n \in Nat /\ n <= size /\ k <= n
  BY <1>2, <1>4, <1>5 DEF Smaller
<1>7. page \in Seq(Ids) /\ Len(page) = n - k /\ \A i \in 1..Len(page) : page[i] = order[k + i]
  BY <1>2, <1>3, <1>4, <1>5, PageIs
<1> HIDE DEF n, page
<1>8. /\ rows \in Seq(Ids) /\ Len(rows) = Len(m.rows) + Len(page)
      /\ \A i \in 1..(Len(m.rows) + Len(page)) :
           rows[i] = IF i <= Len(m.rows) THEN m.rows[i] ELSE page[i - Len(m.rows)]
  BY <1>4, <1>7, ConcatProperties
<1>9. Len(rows) = n
  BY <1>4, <1>5, <1>6, <1>7, <1>8
<1>10. ASSUME NEW i \in 1..n
       PROVE  rows[i] = order[i]
  <2>1. i \in 1..(Len(m.rows) + Len(page))
    BY <1>4, <1>5, <1>6, <1>7
  <2>2. CASE i <= k
    <3>1. i \in 1..k
      BY <1>4, <1>6, <2>2
    <3> QED
      BY <1>5, <1>8, <2>1, <2>2, <3>1
  <2>3. CASE ~(i <= k)
    <3>1. i - k \in 1..Len(page) /\ k + (i - k) = i
      BY <1>4, <1>6, <1>7, <2>3
    <3>2. page[i - k] = order[i]
      BY <1>7, <3>1
    <3> QED
      BY <1>5, <1>8, <2>1, <2>3, <3>2
  <2> QED
    BY <2>2, <2>3
<1> QED
  BY <1>6, <1>8, <1>9, <1>10 DEF n, rows, page, order, size, k

LEMMA ReadPagePaged ==
  ASSUME Typed, PagesInv, [GrowsBehind]_projection, NEW c \in Clients, ReadPage(c)
  PROVE  PagesInv'
<1>1. pc[c] = "rows" /\ UNCHANGED <<table, projection, scanned>> /\ setting' = setting
  BY ReadPageIs DEF turns
<1>2. PICK m0 \in Locals : m0 = mine[c]
  BY DEF Typed
<1>3. PICK S \in SUBSET Ids : S = Found(m0.plan[1].at)
  BY FoundFinite
<1>4. PICK limit \in Nat : limit = Limit(m0.plan[1])
  <2>1. Limit(m0.plan[1]) \in 1..MaxLimit
    BY <1>1, <1>2 DEF Typed, Held
  <2>2. \A l \in 1..MaxLimit : l \in Nat
    BY PlanAssumption
  <2> QED
    BY <2>1, <2>2
<1>5. PICK stayed \in SUBSET Ids : stayed = Stayed(c) /\ stayed \subseteq m0.stayed
  BY <1>2, StayedType DEF Stayed
<1>6. m0.plan[1] \in Reads(c) /\ m0.outcome = "none" /\ Covered(S, "rows", m0)
      /\ m0.call = m0.plan[1].call
  BY <1>1, <1>2, <1>3 DEF PagesInv, Paged, Covered, Typed, Held
<1> DEFINE n     == Smaller(Cardinality(S), m0.cursor + limit)
           order == InOrder(S)
<1>7. PICK rows : rows = m0.rows \o PageOf(order, m0.cursor, limit)
  OBVIOUS
<1>8. /\ n \in Nat /\ n <= Cardinality(S) /\ rows \in Seq(Ids) /\ Len(rows) = n
      /\ \A i \in 1..n : rows[i] = order[i]
  BY <1>6, <1>7, PageCovered
<1>9. rows = RowsRead(m0)
  BY <1>3, <1>4, <1>7 DEF RowsRead, Matching
<1>10. IsFiniteSet(S) /\ S \in SUBSET Nat /\ Cardinality(S) \in Nat
  BY <1>3, FoundFinite
<1>11. m0.cursor \in Nat /\ m0.count \in Nat /\ m0.count <= Cardinality(S)
  BY <1>6 DEF Locals, Covered
<1>12. \A i, j \in 1..n : rows[i] = rows[j] => i = j
  <2>1. \A i, j \in 1..Cardinality(S) : order[i] = order[j] => i = j
    BY <1>10, InOrderIs
  <2> HIDE DEF order
  <2>2. \A i \in 1..n : i \in 1..Cardinality(S)
    BY <1>8, <1>10
  <2> QED
    BY <1>8, <2>1, <2>2
<1>13. Found(m0.plan[1].at)' = S
  BY <1>1, <1>3 DEF Found, Live, Holds
<1>14. CASE /\ LastPage(m0) /\ Goto(c, "idle")
            /\ mine' = [mine EXCEPT ![c] = PageEnds(m0, rows, stayed)]
  <2> DEFINE m == PageEnds(m0, rows, stayed)
  <2>1. m.call = m0.plan[1].call /\ m.plan = <<m0.plan[1]>> /\ m.rows = rows /\ m.stayed = stayed
        /\ m.outcome = "done"
    BY DEF PageEnds, NoLocals
  <2>2. m.plan[1] = m0.plan[1]
    BY <2>1
  <2>3. mine' = [mine EXCEPT ![c] = m] /\ pc' = [pc EXCEPT ![c] = "idle"]
    BY <1>14 DEF Goto
  <2> HIDE DEF m
  <2>4. DOMAIN m.rows = 1..n
    BY <1>8, <2>1, LenProperties
  <2>5. \A i, j \in DOMAIN m.rows : m.rows[i] = m.rows[j] => i = j
    <3> HIDE DEF n, order
    <3> QED
      BY <1>12, <2>1, <2>4
  <2>6. ASSUME m0.cursor + limit < m0.count
        PROVE  Answered(m)
    <3>1. m0.call = "many" /\ m0.cursor = 0
      BY <1>4, <1>6, <1>14, <2>6 DEF LastPage, Covered
    <3>2. n = limit
      BY <1>10, <1>11, <2>6, <3>1 DEF Smaller
    <3> HIDE DEF n
    <3>3. m.call = "many" /\ Len(m.rows) = Limit(m.plan[1])
      BY <1>4, <1>6, <1>8, <2>1, <2>2, <3>1, <3>2
    <3> QED
      BY <2>1, <2>5, <3>3 DEF Answered
  <2>7. ASSUME ~(m0.cursor + limit < m0.count)
        PROVE  Answered(m)
    <3>1. m0.count <= n
      BY <1>10, <1>11, <2>7 DEF Smaller
    <3> HIDE DEF n, order
    <3>2. ASSUME NEW id \in m.stayed
          PROVE  \E i \in DOMAIN m.rows : m.rows[i] = id
      <4>1. PICK i \in 1..m0.count : order[i] = id
        BY <1>5, <1>6, <2>1 DEF Covered, order
      <4>2. i \in 1..n
        BY <1>8, <1>11, <3>1
      <4> QED
        BY <1>8, <2>1, <2>4, <4>1, <4>2
    <3> QED
      BY <2>1, <2>5, <3>2 DEF Answered
  <2>8. Covered(Found(m.plan[1].at)', "idle", m)
    BY DEF Covered
  <2> HIDE DEF n, order
  <2> QED
    BY <1>1, <2>3, <2>6, <2>7, <2>8, OnePaged
<1>15. CASE /\ ~LastPage(m0) /\ Goto(c, "count")
            /\ mine' = [mine EXCEPT ![c] = PageGoesOn(m0, rows, stayed)]
  <2>1. PICK k \in Nat : k = m0.cursor + limit
    BY <1>11
  <2> DEFINE m1 == [m0 EXCEPT !.rows = rows]
             m2 == [m1 EXCEPT !.stayed = stayed]
             m  == [m2 EXCEPT !.cursor = k]
  <2>2. mine' = [mine EXCEPT ![c] = m] /\ pc' = [pc EXCEPT ![c] = "count"]
    BY <1>4, <1>15, <2>1 DEF Goto, PageGoesOn
  <2>3. m1 \in Locals /\ m1.rows = rows /\ m1.plan = m0.plan /\ m1.outcome = "none" /\ m1.call = m0.call
    BY <1>6, <1>8 DEF Locals
  <2> HIDE DEF m1
  <2>4. m2 \in Locals /\ m2.rows = rows /\ m2.plan = m0.plan /\ m2.outcome = "none" /\ m2.call = m0.call
    BY <2>3 DEF Locals
  <2> HIDE DEF m2
  <2>5. m.rows = rows /\ m.plan = m0.plan /\ m.outcome = "none" /\ m.call = m0.call /\ m.cursor = k
    BY <2>4 DEF Locals
  <2> HIDE DEF m
  <2>6. k < m0.count /\ m0.call # "many"
    BY <1>4, <1>6, <1>15, <2>1 DEF LastPage
  <2>7. n = k /\ k <= Cardinality(S)
    BY <1>10, <1>11, <2>1, <2>6 DEF Smaller
  <2> HIDE DEF n
  <2>8. Covered(S, "count", m)
    BY <1>8, <2>5, <2>6, <2>7 DEF Covered, order
  <2>9. Answered(m) /\ Covered(Found(m.plan[1].at)', "count", m) /\ m.plan[1] \in Reads(c)
    BY <1>6, <1>13, <2>5, <2>8 DEF Answered
  <2> HIDE DEF order
  <2> QED
    BY <1>1, <2>2, <2>9, OnePaged
<1> QED
  BY <1>2, <1>5, <1>9, <1>14, <1>15, ReadPageIs

LEMMA CallRebuildPaged ==
  ASSUME Typed, PagesInv, [GrowsBehind]_projection, NEW c \in Clients, CallRebuild(c)
  PROVE  PagesInv'
<1> DEFINE m == [NoLocals EXCEPT !.call = "rebuild"]
<1>1. mine' = [mine EXCEPT ![c] = m] /\ pc' = [pc EXCEPT ![c] = "scan"] /\ setting' = setting
  BY DEF CallRebuild, Begin
<1>2. m.outcome = "none"
  BY DEF NoLocals
<1> HIDE DEF m
<1>3. Answered(m) /\ Covered(Found(m.plan[1].at)', "scan", m)
  BY <1>2 DEF Answered, Covered
<1> QED
  BY <1>1, <1>3, OnePaged

LEMMA ScanFilesPaged ==
  ASSUME Typed, PagesInv, [GrowsBehind]_projection, NEW c \in Clients, ScanFiles(c)
  PROVE  PagesInv'
<1>1. pc[c] = "scan" /\ setting' = setting
  BY DEF ScanFiles, turns
<1>2. CASE Goto(c, "publish") /\ UNCHANGED mine
  <2>1. PICK m \in Locals : m = mine[c]
    BY DEF Typed
  <2>2. mine' = [mine EXCEPT ![c] = m] /\ pc' = [pc EXCEPT ![c] = "publish"]
    BY <1>2, <2>1 DEF Goto, Typed
  <2>3. m.outcome = "none"
    BY <1>1, <2>1 DEF PagesInv, Paged, Covered
  <2>4. Answered(m) /\ Covered(Found(m.plan[1].at)', "publish", m)
    BY <2>3 DEF Answered, Covered
  <2> QED
    BY <1>1, <2>2, <2>4, OnePaged
<1>3. CASE Return(c, "refused")
  BY <1>1, <1>3, ReturnPaged
<1> QED
  BY <1>2, <1>3 DEF ScanFiles

LEMMA PublishPaged ==
  ASSUME Typed, PagesInv, [GrowsBehind]_projection, NEW c \in Clients, Publish(c)
  PROVE  PagesInv'
<1>1. setting' = setting /\ mine[c].call = "rebuild" /\ Return(c, "done")
  BY DEF Publish, turns, Typed, Held
<1> QED
  BY <1>1, ReturnPaged

LEMMA InitPaged ==
  ASSUME Init
  PROVE  PagesInv
<1>1. ASSUME NEW c \in Clients
      PROVE  pc[c] = "idle" /\ mine[c].outcome = "none"
  BY <1>1 DEF Init, NoLocals
<1> QED
  BY <1>1 DEF PagesInv, Paged, Covered, Answered

LEMMA NextPaged ==
  ASSUME Typed, PagesInv, [Next]_vars, [GrowsBehind]_projection
  PROVE  PagesInv'
<1>1. CASE UNCHANGED vars
  BY <1>1, KeepsPaged DEF vars, turns, PagesInv
<1>2. CASE Next
  <2>1. CASE Finished
    BY <1>1, <2>1 DEF Finished
  <2>2. CASE \E c \in Clients : CallWrite(c) \/ CallRead(c) \/ CallRebuild(c) \/ Step(c)
    <3>1. PICK c \in Clients : CallWrite(c) \/ CallRead(c) \/ CallRebuild(c) \/ Step(c)
      BY <2>2
    <3> QED
      BY <3>1, CallWritePaged, CallReadPaged, CallRebuildPaged, ResolveChangePaged,
         AppendBatchPaged, CheckLimitPaged, CountRowsPaged, ReadPagePaged, ScanFilesPaged,
         PublishPaged DEF Step
  <2> QED
    BY <1>2, <2>1, <2>2 DEF Next
<1> QED
  BY <1>1, <1>2

(* As long as rows that are read only come behind the others in the         *)
(* projection, or change in place and still match, whatever is written or   *)
(* rebuilt between the pages: an answer has every row that matched at each  *)
(* step of the read, and none twice (next_cursor, scan, find; get_many_by   *)
(* unless its page is full).                                               *)
THEOREM PagesCorrect == Spec /\ [][GrowsBehind]_projection => []PagesExact
<1>1. ASSUME PagesInv
      PROVE  PagesExact
  <2>1. ASSUME NEW c \in Clients, mine[c].outcome = "done", mine[c].call \in {"pages", "many"}
        PROVE  /\ \/ mine[c].call = "many" /\ Len(mine[c].rows) = Limit(mine[c].plan[1])
                  \/ mine[c].stayed \subseteq Seqs!ToSet(mine[c].rows)
               /\ \A i, j \in DOMAIN mine[c].rows :
                    i < j /\ mine[c].rows[i] \in mine[c].stayed => mine[c].rows[i] # mine[c].rows[j]
    <3>1. Answered(mine[c])
      BY <1>1 DEF PagesInv, Paged
    <3>2. \A i, j \in DOMAIN mine[c].rows : mine[c].rows[i] = mine[c].rows[j] => i = j
      BY <2>1, <3>1 DEF Answered
    <3>3. (\A id \in mine[c].stayed : \E i \in DOMAIN mine[c].rows : mine[c].rows[i] = id)
            => mine[c].stayed \subseteq Seqs!ToSet(mine[c].rows)
      BY DEF Seqs!ToSet
    <3>4. \/ mine[c].call = "many" /\ Len(mine[c].rows) = Limit(mine[c].plan[1])
          \/ mine[c].stayed \subseteq Seqs!ToSet(mine[c].rows)
      BY <2>1, <3>1, <3>3 DEF Answered
    <3> QED
      BY <3>2, <3>4
  <2> QED
    BY <2>1 DEF PagesExact
<1> QED
  BY <1>1, InitPaged, NextPaged, AlwaysTyped, PTL DEF Spec

-----------------------------------------------------------------------------
(* Changes one after another.                                              *)

(* The changes at the positions of a set, the highest one made last. *)
Made(g, rows, changes, s) ==
  IF s = {} THEN rows
            ELSE Applied(g[s \ {Seqs!Max(s)}], changes[Seqs!Max(s)])

Makes(g, rows, changes, m) == g = [s \in SUBSET (1..m) |-> Made(g, rows, changes, s)]

LEMMA MaxOfPositions ==
  ASSUME NEW m \in Nat, NEW s \in SUBSET (1..m), s # {}
  PROVE  /\ Seqs!Max(s) \in s
         /\ m \in s => Seqs!Max(s) = m
<1>1. s \in SUBSET Nat /\ \A x \in s : x <= m
  OBVIOUS
<1>2. \E x \in s : \A y \in s : y <= x
  BY <1>1, MaximumExists
<1>3. \E x \in s : \A y \in s : x >= y
  BY <1>1, <1>2
<1>4. Seqs!Max(s) \in s /\ \A y \in s : Seqs!Max(s) >= y
  BY <1>3 DEF Seqs!Max
<1>5. ASSUME m \in s
      PROVE  Seqs!Max(s) = m
  <2>1. PICK x \in s : x = Seqs!Max(s)
    BY <1>4
  <2>2. x >= m
    BY <1>4, <1>5, <2>1
  <2>3. x \in Nat /\ x <= m
    BY <1>1
  <2>4. x = m
    BY <2>2, <2>3
  <2> QED
    BY <2>1, <2>4
<1> QED
  BY <1>4, <1>5

LEMMA MakesExist ==
  ASSUME NEW n \in Nat, NEW rows, NEW changes
  PROVE  \E g : Makes(g, rows, changes, n)
<1> DEFINE S == {m \in 0..n : \E g : Makes(g, rows, changes, m)}
<1>1. 0 \in S
  <2> DEFINE g == [s \in SUBSET (1..0) |-> rows]
  <2>1. \A s \in SUBSET (1..0) : Made(g, rows, changes, s) = rows
    BY DEF Made
  <2>2. Makes(g, rows, changes, 0)
    BY <2>1 DEF Makes
  <2> QED
    BY <2>2
<1>2. ASSUME NEW m \in 0..(n - 1), m \in S
      PROVE  m + 1 \in S
  <2>1. PICK g : Makes(g, rows, changes, m)
    BY <1>2
  <2>2. \A s \in SUBSET (1..m) : g[s] = Made(g, rows, changes, s)
    BY <2>1 DEF Makes
  <2> DEFINE of(s) == IF m + 1 \in s THEN Applied(g[s \ {m + 1}], changes[m + 1]) ELSE g[s]
             h     == [s \in SUBSET (1..(m + 1)) |-> of(s)]
  <2>3. ASSUME NEW s \in SUBSET (1..m)
        PROVE  s \in SUBSET (1..(m + 1)) /\ h[s] = g[s]
    <3>1. s \in SUBSET (1..(m + 1)) /\ m + 1 \notin s
      OBVIOUS
    <3> QED
      BY <3>1
  <2>4. ASSUME NEW s \in SUBSET (1..(m + 1))
        PROVE  of(s) = Made(h, rows, changes, s)
    <3>1. CASE m + 1 \in s
      <4>1. Seqs!Max(s) = m + 1 /\ s # {}
        BY <3>1, MaxOfPositions
      <4>2. s \ {m + 1} \in SUBSET (1..m)
        OBVIOUS
      <4>3. h[s \ {m + 1}] = g[s \ {m + 1}]
        BY <2>3, <4>2
      <4> HIDE DEF h
      <4> QED
        BY <3>1, <4>1, <4>3 DEF Made
    <3>2. CASE m + 1 \notin s
      <4>1. s \in SUBSET (1..m)
        BY <3>2
      <4>2. of(s) = Made(g, rows, changes, s)
        BY <2>2, <3>2, <4>1
      <4>3. CASE s = {}
        BY <4>2, <4>3 DEF Made
      <4>4. CASE s # {}
        <5>1. s \ {Seqs!Max(s)} \in SUBSET (1..m)
          BY <4>1
        <5>2. h[s \ {Seqs!Max(s)}] = g[s \ {Seqs!Max(s)}]
          BY <2>3, <5>1
        <5> HIDE DEF h, of
        <5> QED
          BY <4>2, <4>4, <5>2 DEF Made
      <4> QED
        BY <4>3, <4>4
    <3> QED
      BY <3>1, <3>2
  <2>5. Makes(h, rows, changes, m + 1)
    <3>1. h = [s \in SUBSET (1..(m + 1)) |-> Made(h, rows, changes, s)]
      <4>1. \E h1 : h1 = h
        OBVIOUS
      <4>2. PICK h1 : h1 = h
        BY <4>1
      <4>3. \A s \in SUBSET (1..(m + 1)) : of(s) = Made(h1, rows, changes, s)
        BY <2>4, <4>2
      <4>4. h1 = [s \in SUBSET (1..(m + 1)) |-> of(s)]
        BY <4>2
      <4> HIDE DEF h, of
      <4>5. h1 = [s \in SUBSET (1..(m + 1)) |-> Made(h1, rows, changes, s)]
        BY <4>3, <4>4
      <4> QED
        BY <4>2, <4>5
    <3> HIDE DEF h
    <3> QED
      BY <3>1 DEF Makes
  <2>6. m + 1 \in 0..n
    OBVIOUS
  <2> QED
    BY <2>5, <2>6
<1>3. \A m \in 0..n : m \in S
  <2> HIDE DEF S
  <2> QED
    BY <1>1, <1>2, UpTo
<1>4. n \in S
  BY <1>3
<1> QED
  BY <1>4

(* FoldLeft makes one change after another. *)
LEMMA FoldIs ==
  ASSUME NEW rows, NEW changes \in Seq(Change)
  PROVE  \E h : /\ h[0] = rows
                /\ \A k \in 1..Len(changes) : h[k] = Applied(h[k - 1], changes[k])
                /\ Seqs!FoldLeft(Applied, rows, changes) = h[Len(changes)]
<1> DEFINE n == Len(changes)
           c == CHOOSE g : Makes(g, rows, changes, n)
<1>1. n \in Nat /\ DOMAIN changes = 1..n
  BY LenProperties
<1>2. Seqs!FoldLeft(Applied, rows, changes) =
        (CHOOSE g : g = [s \in SUBSET DOMAIN changes |-> Made(g, rows, changes, s)])[DOMAIN changes]
  BY DEF Seqs!FoldLeft, Seqs!MapThenFoldSet, Made, Seqs!Max
<1>3. Seqs!FoldLeft(Applied, rows, changes) = c[1..n]
  <2> HIDE DEF n
  <2> QED
    BY <1>1, <1>2 DEF Makes
<1>4. Makes(c, rows, changes, n)
  <2> HIDE DEF n
  <2>1. \E g : Makes(g, rows, changes, n)
    BY <1>1, MakesExist
  <2> QED
    BY <2>1
<1> HIDE DEF c, n
<1>5. \A s \in SUBSET (1..n) : c[s] = Made(c, rows, changes, s)
  BY <1>4 DEF Makes
<1> DEFINE h == [k \in 0..n |-> c[1..k]]
<1>6. h[0] = rows
  <2>1. 0 \in 0..n /\ 1..0 = {} /\ {} \in SUBSET (1..n)
    BY <1>1
  <2>2. c[{}] = rows
    BY <1>5, <2>1 DEF Made
  <2> QED
    BY <2>1, <2>2
<1>7. ASSUME NEW k \in 1..n
      PROVE  h[k] = Applied(h[k - 1], changes[k])
  <2>1. k \in Nat /\ k \in 1..k /\ 1..k \in SUBSET (1..n) /\ (1..k) \ {k} = 1..(k - 1)
    BY <1>1
  <2>2. Seqs!Max(1..k) = k /\ 1..k # {}
    BY <2>1, MaxOfPositions
  <2>3. c[1..k] = Applied(c[1..(k - 1)], changes[k])
    BY <1>5, <2>1, <2>2 DEF Made
  <2>4. k \in 0..n /\ k - 1 \in 0..n
    BY <1>1
  <2> QED
    BY <2>3, <2>4
<1>8. Seqs!FoldLeft(Applied, rows, changes) = h[n]
  BY <1>1, <1>3
<1> QED
  BY <1>6, <1>7, <1>8 DEF n

-----------------------------------------------------------------------------
(* Batches.                                                                *)

(* The entry e is what the change becomes on these rows. *)
Becomes(rows, change, e) ==
  /\ ~Refused(change)
  /\ change.op \in {"insert", "upsert"} => e.id = change.id /\ e.rec = change.rec
  /\ change.op = "delete" => e.id = change.id /\ e.rec = NoRecord
  /\ change.op \in {"patch", "remove"} =>
       /\ HoldsIn(rows, e.id, change.at)
       /\ e.rec = IF change.op = "remove" THEN NoRecord ELSE Merged(rows[e.id], change.value)

(* The rows with the first k entries of a batch. *)
Prefix(rows, batch, k) ==
  [id \in Ids |-> IF \E i \in 1..k : batch[i].id = id
                    THEN batch[CHOOSE i \in 1..k : batch[i].id = id].rec
                    ELSE rows[id]]

Distinct(batch) == \A i, j \in DOMAIN batch : batch[i].id = batch[j].id => i = j

LEMMA PrefixIs ==
  ASSUME NEW rows, NEW batch \in Seq(Entry), Distinct(batch), NEW k \in 0..Len(batch)
  PROVE  \A id \in Ids :
           /\ \A i \in 1..k : batch[i].id = id => Prefix(rows, batch, k)[id] = batch[i].rec
           /\ (\A i \in 1..k : batch[i].id # id) => Prefix(rows, batch, k)[id] = rows[id]
<1>1. Len(batch) \in Nat /\ DOMAIN batch = 1..Len(batch)
  BY LenProperties
<1>2. \A i \in 1..k : i \in DOMAIN batch
  BY <1>1
<1>3. ASSUME NEW id \in Ids, NEW i \in 1..k, batch[i].id = id
      PROVE  Prefix(rows, batch, k)[id] = batch[i].rec
  <2>1. PICK j : j = CHOOSE l \in 1..k : batch[l].id = id
    OBVIOUS
  <2>2. j \in 1..k /\ batch[j].id = id
    BY <1>3, <2>1
  <2>3. j = i
    BY <1>2, <1>3, <2>2 DEF Distinct
  <2> QED
    BY <1>3, <2>1, <2>3 DEF Prefix
<1>4. ASSUME NEW id \in Ids, \A i \in 1..k : batch[i].id # id
      PROVE  Prefix(rows, batch, k)[id] = rows[id]
  BY <1>4 DEF Prefix
<1> QED
  BY <1>3, <1>4

(* An edit of a whole record of the projection. *)
LEMMA EditedIsMerged ==
  ASSUME NEW rec \in Record, NEW value
  PROVE  Edited(rec, value) = Merged(rec, value)
BY DEF Edited, Merged, Record

(* The lookup of an edit names one row, in the rows before the batch and in *)
(* those that earlier changes of it leave.                                 *)
LEMMA HoldsOne ==
  ASSUME projection \in Rows, Table!UniqueIn(projection), NEW batch \in Seq(Entry), NEW mode,
         Accepts(batch, mode), NEW k \in 1..Len(batch), NEW at \in Target, IsUnique(at),
         HoldsIn(projection, batch[k].id, at), NEW id \in Ids
  PROVE  HoldsIn(Prefix(projection, batch, k - 1), id, at) <=> id = batch[k].id
<1> DEFINE before == Prefix(projection, batch, k - 1)
           own    == batch[k].id
<1>1. /\ Len(batch) \in Nat /\ DOMAIN batch = 1..Len(batch) /\ k - 1 \in 0..Len(batch)
      /\ k \in DOMAIN batch /\ \A i \in 1..(k - 1) : i \in DOMAIN batch /\ i # k
  BY LenProperties
<1>2. Distinct(batch)
  BY DEF Accepts, Distinct
<1>3. own \in Ids
  <2>1. batch[k] \in Entry
    BY ElementOfSeq
  <2> QED
    BY <2>1 DEF Entry
<1>4. \A x \in Ids :
        /\ \A i \in 1..(k - 1) : batch[i].id = x => before[x] = batch[i].rec
        /\ (\A i \in 1..(k - 1) : batch[i].id # x) => before[x] = projection[x]
  BY <1>1, <1>2, PrefixIs
<1> HIDE DEF before
<1>5. before[own] = projection[own]
  <2>1. \A i \in 1..(k - 1) : batch[i].id # own
    BY <1>1, <1>2 DEF Distinct
  <2> QED
    BY <1>3, <1>4, <2>1
<1>6. \/ before[id] = projection[id]
      \/ \E i \in 1..(k - 1) : batch[i].id = id /\ before[id] = batch[i].rec
  BY <1>4
<1> HIDE DEF own
<1>7. HoldsIn(projection, own, at)
  BY DEF own
<1>8. id = own => HoldsIn(before, id, at)
  BY <1>5, <1>7 DEF HoldsIn
<1>9. ASSUME HoldsIn(before, id, at)
      PROVE  id = own
  <2>1. CASE at.lookup = "id"
    BY <1>7, <1>9, <2>1 DEF HoldsIn
  <2>2. CASE at.lookup # "id"
    <3> DEFINE f == at.lookup
    <3>1. f \in UniqueFields
      BY <2>2 DEF IsUnique
    <3>2. /\ before[id] # NoRecord /\ before[id][f] = at.key
          /\ projection[own] # NoRecord /\ projection[own][f] = at.key
      BY <1>7, <1>9, <2>2 DEF HoldsIn
    <3>3. own \in Live
      BY <1>3, <3>2 DEF Live
    <3> HIDE DEF f
    <3>4. CASE before[id] = projection[id]
      BY <1>3, <3>1, <3>2, <3>4 DEF Table!UniqueIn
    <3>5. CASE \E i \in 1..(k - 1) : batch[i].id = id /\ before[id] = batch[i].rec
      <4>1. PICK i \in 1..(k - 1) : batch[i].id = id /\ before[id] = batch[i].rec
        BY <3>5
      <4>2. i \in DOMAIN batch
        BY <1>1
      <4>3. batch[i].rec # NoRecord /\ projection[own][f] = batch[i].rec[f]
        BY <3>2, <4>1
      <4>4. own = batch[i].id
        BY <3>1, <3>3, <4>2, <4>3 DEF Accepts
      <4> QED
        BY <4>1, <4>4
    <3> QED
      BY <1>6, <3>4, <3>5
  <2> QED
    BY <2>1, <2>2
<1> QED
  BY <1>8, <1>9 DEF before, own

(* What each kind of change does to a row. *)
LEMMA AppliedIs ==
  ASSUME NEW rows, NEW change, NEW id \in Ids
  PROVE  /\ change.op \in {"insert", "upsert"} =>
              Applied(rows, change)[id] = IF id = change.id THEN change.rec ELSE rows[id]
         /\ change.op = "delete" =>
              Applied(rows, change)[id] = IF id = change.id THEN NoRecord ELSE rows[id]
         /\ change.op = "patch" =>
              Applied(rows, change)[id] = IF HoldsIn(rows, id, change.at)
                                            THEN Edited(rows[id], change.value) ELSE rows[id]
         /\ change.op = "remove" =>
              Applied(rows, change)[id] = IF HoldsIn(rows, id, change.at)
                                            THEN NoRecord ELSE rows[id]
<1> DEFINE holds == HoldsIn(rows, id, change.at)
           value ==
             CASE change.op \in {"insert", "upsert"} /\ id = change.id -> change.rec
               [] change.op = "delete" /\ id = change.id -> NoRecord
               [] change.op = "patch" /\ holds -> Edited(rows[id], change.value)
               [] change.op = "remove" /\ holds -> NoRecord
               [] OTHER -> rows[id]
<1>1. Applied(rows, change)[id] = value
  BY Zenon DEF Applied
<1> HIDE DEF holds
<1>2. CASE change.op \in {"insert", "upsert"}
  BY Zenon, <1>1, <1>2
<1>3. CASE change.op = "delete"
  BY Zenon, <1>1, <1>3
<1>4. CASE change.op = "patch"
  BY Zenon, <1>1, <1>4 DEF holds
<1>5. CASE change.op = "remove"
  BY Zenon, <1>1, <1>5 DEF holds
<1> QED
  BY <1>2, <1>3, <1>4, <1>5

(* The next change made on what the changes before it leave. *)
LEMMA NextEntry ==
  ASSUME projection \in Rows, Table!UniqueIn(projection), NEW batch \in Seq(Entry), NEW mode,
         Accepts(batch, mode), NEW k \in 1..Len(batch), NEW change \in Change,
         Becomes(projection, change, batch[k])
  PROVE  Applied(Prefix(projection, batch, k - 1), change) = Prefix(projection, batch, k)
<1> DEFINE before == Prefix(projection, batch, k - 1)
           after  == Prefix(projection, batch, k)
           e      == batch[k]
<1>1. /\ Len(batch) \in Nat /\ DOMAIN batch = 1..Len(batch)
      /\ k - 1 \in 0..Len(batch) /\ k \in 0..Len(batch)
      /\ k \in DOMAIN batch /\ \A i \in 1..(k - 1) : i \in DOMAIN batch /\ i # k
      /\ \A i \in 1..k : i = k \/ i \in 1..(k - 1)
      /\ 1..(k - 1) \subseteq 1..k /\ k \in 1..k
  BY LenProperties
<1>2. Distinct(batch)
  BY DEF Accepts, Distinct
<1>3. e \in Entry /\ e.id \in Ids
  <2>1. batch[k] \in Entry
    BY ElementOfSeq
  <2> QED
    BY <2>1 DEF Entry
<1>4. \A id \in Ids :
         /\ \A i \in 1..(k - 1) : batch[i].id = id => before[id] = batch[i].rec
         /\ (\A i \in 1..(k - 1) : batch[i].id # id) => before[id] = projection[id]
  BY <1>1, <1>2, PrefixIs
<1>5. \A id \in Ids :
         /\ \A i \in 1..k : batch[i].id = id => after[id] = batch[i].rec
         /\ (\A i \in 1..k : batch[i].id # id) => after[id] = projection[id]
  BY <1>1, <1>2, PrefixIs
<1> HIDE DEF before, after
<1>6. after[e.id] = e.rec
  BY <1>1, <1>3, <1>5
<1>7. \A id \in Ids : id # e.id => after[id] = before[id]
  <2> TAKE id \in Ids
  <2> HAVE id # e.id
  <2>1. CASE \E i \in 1..(k - 1) : batch[i].id = id
    <3>1. PICK i \in 1..(k - 1) : batch[i].id = id
      BY <2>1
    <3>2. before[id] = batch[i].rec
      BY <1>4, <3>1
    <3>3. after[id] = batch[i].rec
      BY <1>1, <1>5, <3>1
    <3> QED
      BY <3>2, <3>3
  <2>2. CASE \A i \in 1..(k - 1) : batch[i].id # id
    <3>1. before[id] = projection[id]
      BY <1>4, <2>2
    <3>2. \A i \in 1..k : batch[i].id # id
      BY <1>1, <2>2
    <3>3. after[id] = projection[id]
      BY <1>5, <3>2
    <3> QED
      BY <3>1, <3>3
  <2> QED
    BY <2>1, <2>2
<1>8. before[e.id] = projection[e.id]
  <2>1. \A i \in 1..(k - 1) : batch[i].id # e.id
    BY <1>1, <1>2 DEF Distinct
  <2> QED
    BY <1>3, <1>4, <2>1
<1>9. after = [id \in Ids |-> after[id]]
  BY DEF Prefix, after
<1>10. change.op \in {"insert", "upsert", "patch", "remove", "delete"}
  BY DEF Change
<1>11. ASSUME change.op \in {"patch", "remove"}
      PROVE  /\ HoldsIn(projection, e.id, change.at)
             /\ \A id \in Ids : HoldsIn(before, id, change.at) <=> id = e.id
  <2>1. change.at \in Target
    BY <1>11 DEF Change
  <2>2. IsUnique(change.at)
    BY <1>11 DEF Becomes, Refused
  <2>3. HoldsIn(projection, e.id, change.at)
    BY <1>11 DEF Becomes
  <2> QED
    BY <2>1, <2>2, <2>3, HoldsOne DEF before
<1>12. Becomes(projection, change, e)
  OBVIOUS
<1> HIDE DEF e
<1>13. ASSUME NEW id \in Ids
       PROVE  Applied(before, change)[id] = after[id]
  <2>1. CASE change.op \in {"insert", "upsert"}
    BY <1>6, <1>7, <1>12, <2>1, AppliedIs DEF Becomes
  <2>2. CASE change.op = "delete"
    BY <1>6, <1>7, <1>12, <2>2, AppliedIs DEF Becomes
  <2>3. CASE change.op = "remove"
    <3>1. e.rec = NoRecord
      BY <1>12, <2>3 DEF Becomes
    <3> QED
      BY <1>6, <1>7, <1>11, <2>3, <3>1, AppliedIs
  <2>4. CASE change.op = "patch"
    <3>1. e.rec = Merged(projection[e.id], change.value)
      BY <1>12, <2>4 DEF Becomes
    <3>2. projection[e.id] \in Record
      <4>1. projection[e.id] # NoRecord
        BY <1>11, <2>4 DEF HoldsIn
      <4> QED
        BY <1>3, <4>1 DEF Rows
    <3>3. e.rec = Edited(before[e.id], change.value)
      BY <1>8, <3>1, <3>2, EditedIsMerged
    <3>4. Applied(before, change)[id] =
            IF HoldsIn(before, id, change.at) THEN Edited(before[id], change.value) ELSE before[id]
      BY <2>4, AppliedIs
    <3> QED
      BY <1>6, <1>7, <1>11, <2>4, <3>3, <3>4
  <2> QED
    BY <1>10, <2>1, <2>2, <2>3, <2>4
<1>14. Applied(before, change) = [id \in Ids |-> Applied(before, change)[id]]
  BY Zenon DEF Applied
<1>15. Applied(before, change) = after
  BY <1>9, <1>13, <1>14
<1> QED
  BY <1>15 DEF before, after

(* An accepted batch of what the changes become is the sequence of them. *)
LEMMA BatchMadeInSequence ==
  ASSUME projection \in Rows, Table!UniqueIn(projection), NEW batch \in Seq(Entry), NEW mode,
         Accepts(batch, mode), NEW changes \in Seq(Change), Len(changes) = Len(batch),
         \A k \in 1..Len(batch) : Becomes(projection, changes[k], batch[k])
  PROVE  Stored(projection, batch) = Seqs!FoldLeft(Applied, projection, changes)
<1> DEFINE n == Len(batch)
<1>1. n \in Nat /\ DOMAIN batch = 1..n
  BY LenProperties
<1>2. PICK h : /\ h[0] = projection
               /\ \A k \in 1..n : h[k] = Applied(h[k - 1], changes[k])
               /\ Seqs!FoldLeft(Applied, projection, changes) = h[n]
  <2> DEFINE l == Len(changes)
  <2>1. PICK h : /\ h[0] = projection
                 /\ \A k \in 1..l : h[k] = Applied(h[k - 1], changes[k])
                 /\ Seqs!FoldLeft(Applied, projection, changes) = h[l]
    BY FoldIs
  <2>2. l = n
    OBVIOUS
  <2> HIDE DEF l, n
  <2> QED
    BY <2>1, <2>2
<1> DEFINE S == {k \in 0..n : h[k] = Prefix(projection, batch, k)}
<1>3. 0 \in S
  <2>1. Prefix(projection, batch, 0) = [id \in Ids |-> projection[id]]
    BY DEF Prefix
  <2>2. projection = [id \in Ids |-> projection[id]]
    BY DEF Rows
  <2> QED
    BY <1>1, <1>2, <2>1, <2>2
<1>4. ASSUME NEW k \in 0..(n - 1), k \in S
      PROVE  k + 1 \in S
  <2>1. k + 1 \in 1..n /\ (k + 1) - 1 = k /\ k + 1 \in 0..n
    BY <1>1
  <2>2. changes[k + 1] \in Change /\ Becomes(projection, changes[k + 1], batch[k + 1])
    BY <2>1, ElementOfSeq
  <2>3. Applied(Prefix(projection, batch, k), changes[k + 1]) = Prefix(projection, batch, k + 1)
    BY <2>1, <2>2, NextEntry
  <2>4. h[k + 1] = Applied(h[k], changes[k + 1])
    BY <1>2, <2>1
  <2> QED
    BY <1>4, <2>1, <2>3, <2>4
<1>5. \A k \in 0..n : k \in S
  <2> HIDE DEF S, n
  <2> QED
    BY <1>1, <1>3, <1>4, UpTo
<1>6. h[n] = Prefix(projection, batch, n)
  <2> HIDE DEF n
  <2>1. n \in 0..n
    BY <1>1
  <2> QED
    BY <1>5, <2>1
<1>7. Stored(projection, batch) = Prefix(projection, batch, n)
  BY <1>1 DEF Stored, Prefix
<1> QED
  BY <1>2, <1>6, <1>7

-----------------------------------------------------------------------------
(* Writes of the only client that writes.                                  *)

(* What it has resolved is still what its changes become, for nobody else   *)
(* changes the rows of the projection; a client that writes nothing never   *)
(* resolves.                                                               *)
Resolving(c) ==
  pc[c] = "resolve" /\ Sole(c) =>
    \A i \in 1..(mine[c].next - 1) : Becomes(projection, mine[c].changes[i], mine[c].batch[i])

Silent(c) == Writes(c) = {} => pc[c] # "resolve"

BatchInv == \A c \in Clients : Resolving(c) /\ Silent(c)

(* A step of one client, which changes the rows only when it writes or rebuilds. *)
LEMMA OneResolves ==
  ASSUME BatchInv, NEW c \in Clients, setting' = setting,
         \A d \in Others(c) : pc'[d] = pc[d] /\ mine'[d] = mine[d],
         projection' = projection \/ pc[c] = "resolve" \/ c \in Rebuilders, Resolving(c)', Silent(c)'
  PROVE  BatchInv'
<1>1. ASSUME NEW d \in Clients, d # c
      PROVE  Silent(d)'
  <2>1. Silent(d) /\ pc'[d] = pc[d]
    BY <1>1 DEF BatchInv, Others
  <2> QED
    BY <2>1 DEF Silent, Writes
<1>2. ASSUME NEW d \in Clients, d # c
      PROVE  Resolving(d)'
  <2>1. Resolving(d) /\ pc'[d] = pc[d] /\ mine'[d] = mine[d]
    BY <1>2 DEF BatchInv, Others
  <2>2. CASE projection' = projection
    <3> SUFFICES ASSUME pc'[d] = "resolve", Sole(d)', NEW i \in 1..(mine'[d].next - 1)
                 PROVE  Becomes(projection', mine'[d].changes[i], mine'[d].batch[i])
      BY DEF Resolving
    <3>1. Sole(d)
      BY DEF Sole, Others, Writes, Rebuilders
    <3>2. Becomes(projection, mine[d].changes[i], mine[d].batch[i])
      BY <2>1, <3>1 DEF Resolving
    <3> QED
      BY <2>1, <2>2, <3>2
  <2>3. CASE pc[c] = "resolve"
    <3>1. Writes(c) # {}
      BY <2>3 DEF BatchInv, Silent
    <3>2. ~Sole(d)'
      BY <1>2, <3>1 DEF Sole, Others, Writes
    <3> QED
      BY <3>2 DEF Resolving
  <2>4. CASE c \in Rebuilders
    <3>1. ~Sole(d)'
      BY <1>2, <2>4 DEF Sole, Others, Rebuilders
    <3> QED
      BY <3>1 DEF Resolving
  <2> QED
    BY <2>2, <2>3, <2>4
<1> QED
  BY <1>1, <1>2 DEF BatchInv

(* A call that resolves no change after the step. *)
LEMMA NoneResolved ==
  ASSUME Typed, BatchInv, NEW c \in Clients, NEW label \in Labels \ {"resolve"}, NEW m,
         pc' = [pc EXCEPT ![c] = label], mine' = [mine EXCEPT ![c] = m], setting' = setting,
         projection' = projection \/ pc[c] = "resolve" \/ c \in Rebuilders
  PROVE  BatchInv'
<1>1. /\ pc'[c] # "resolve"
      /\ \A d \in Others(c) : pc'[d] = pc[d] /\ mine'[d] = mine[d]
  BY DEF Typed, Others
<1>2. Resolving(c)' /\ Silent(c)'
  BY <1>1 DEF Resolving, Silent
<1> QED
  BY <1>1, <1>2, OneResolves

LEMMA InitBatch ==
  ASSUME Init
  PROVE  BatchInv
BY DEF Init, BatchInv, Resolving, Silent

LEMMA CallWriteBatch ==
  ASSUME Typed, BatchInv, NEW c \in Clients, CallWrite(c)
  PROVE  BatchInv'
<1>1. PICK n \in 1..MaxChanges : \E changes \in [1..n -> Writes(c)] :
        Begin(c, "resolve", [NoLocals EXCEPT !.call = "write", !.changes = changes])
  BY DEF CallWrite
<1>2. PICK changes \in [1..n -> Writes(c)] :
        Begin(c, "resolve", [NoLocals EXCEPT !.call = "write", !.changes = changes])
  BY <1>1
<1>3. /\ mine'[c].next = 1 /\ projection' = projection /\ setting' = setting
      /\ \A d \in Others(c) : pc'[d] = pc[d] /\ mine'[d] = mine[d]
  <2>1. DOMAIN mine = Clients /\ DOMAIN pc = Clients
    BY DEF Typed
  <2> QED
    BY <1>2, <2>1 DEF Begin, NoLocals, Others
<1>4. Writes(c) # {}
  <2>1. 1 \in 1..n
    BY PlanAssumption
  <2> QED
    BY <1>2, <2>1
<1>5. Silent(c)'
  BY <1>3, <1>4 DEF Silent, Writes
<1>6. Resolving(c)'
  <2>1. 1..(mine'[c].next - 1) = {}
    BY <1>3
  <2> QED
    BY <2>1 DEF Resolving
<1> QED
  BY <1>3, <1>5, <1>6, OneResolves

LEMMA CallReadBatch ==
  ASSUME Typed, BatchInv, NEW c \in Clients, CallRead(c)
  PROVE  BatchInv'
<1>1. PICK plan \in Reads(c) :
        Begin(c, "check", [NoLocals EXCEPT !.call = plan.call, !.plan = <<plan>>, !.stayed = Live])
  BY DEF CallRead
<1>2. \E m : /\ pc' = [pc EXCEPT ![c] = "check"] /\ mine' = [mine EXCEPT ![c] = m]
             /\ setting' = setting /\ projection' = projection
  BY <1>1 DEF Begin
<1> QED
  BY <1>2, NoneResolved DEF Labels

LEMMA ReturnBatch ==
  ASSUME Typed, BatchInv, NEW c \in Clients, NEW outcome, Return(c, outcome), setting' = setting,
         projection' = projection \/ pc[c] = "resolve" \/ c \in Rebuilders
  PROVE  BatchInv'
<1>1. \E m : pc' = [pc EXCEPT ![c] = "idle"] /\ mine' = [mine EXCEPT ![c] = m]
  BY DEF Return
<1> QED
  BY <1>1, NoneResolved DEF Labels

(* The entry that a change becomes when it is resolved. *)
LEMMA PushBatch ==
  ASSUME Typed, BatchInv, NEW c \in Clients, NEW e,
         pc[c] = "resolve", mine[c].next <= Len(mine[c].changes),
         Becomes(projection, mine[c].changes[mine[c].next], e),
         pc' = pc, projection' = projection, setting' = setting,
         mine' = [mine EXCEPT ![c].batch = Append(@, e), ![c].next = @ + 1]
  PROVE  BatchInv'
<1> DEFINE m == mine[c]
<1>1. m \in Locals /\ Held("resolve", m) /\ DOMAIN mine = Clients
  BY DEF Typed
<1>2. m.batch \in Seq(Entry) /\ m.next \in Nat /\ m.next \in 1..(Len(m.changes) + 1)
      /\ Len(m.batch) = m.next - 1
  BY <1>1 DEF Locals, Held
<1>3. /\ mine'[c].batch = Append(m.batch, e) /\ mine'[c].next = m.next + 1
      /\ mine'[c].changes = m.changes
  BY <1>1 DEF Locals
<1>4. \A d \in Others(c) : pc'[d] = pc[d] /\ mine'[d] = mine[d]
  BY <1>1 DEF Others
<1>5. Silent(c)'
  BY DEF BatchInv, Silent, Writes
<1> HIDE DEF m
<1>6. Resolving(c)'
  <2> SUFFICES ASSUME Sole(c)', NEW i \in 1..(mine'[c].next - 1)
               PROVE  Becomes(projection', mine'[c].changes[i], mine'[c].batch[i])
    BY DEF Resolving
  <2>1. Sole(c)
    BY DEF Sole, Others, Writes, Rebuilders
  <2>2. i \in 1..m.next
    <3>1. mine'[c].next - 1 = m.next
      <4>1. PICK x, y : x = mine'[c].next /\ y = m.next
        OBVIOUS
      <4>2. y \in Nat /\ x = y + 1
        BY <1>2, <1>3, <4>1
      <4>3. x - 1 = y
        BY <4>2
      <4> QED
        BY <4>1, <4>3
    <3>2. 1..(mine'[c].next - 1) = 1..m.next
      BY <3>1
    <3> QED
      BY <3>2
  <2>3. Becomes(projection, mine'[c].changes[i], mine'[c].batch[i])
    <3>1. CASE i = m.next
      <4>1. mine'[c].batch[i] = e
        BY <1>2, <1>3, <3>1, AppendProperties
      <4> QED
        BY <1>3, <3>1, <4>1 DEF m
    <3>2. CASE i # m.next
      <4>1. i \in 1..(m.next - 1)
        BY <1>2, <2>2, <3>2
      <4>2. mine'[c].batch[i] = m.batch[i]
        <5>1. i \in 1..Len(m.batch)
          BY <1>2, <4>1
        <5>2. Append(m.batch, e)[i] = m.batch[i]
          BY <1>2, <5>1, AppendProperties
        <5> QED
          BY <1>3, <5>2
      <4> QED
        BY <1>3, <2>1, <4>1, <4>2 DEF BatchInv, Resolving, m
    <3> QED
      BY <3>1, <3>2
  <2> QED
    BY <2>3
<1> QED
  BY <1>4, <1>5, <1>6, OneResolves

(* A change that is resolved goes on to the next one or ends the call. *)
LEMMA ResolveEnds ==
  ASSUME Typed, NEW c \in Clients, ResolveChange(c)
  PROVE  pc' = pc \/ Return(c, "refused") \/ Return(c, "not found")
<1> DEFINE change == mine[c].changes[mine[c].next]
<1>1. change.op \in {"insert", "upsert", "patch", "remove", "delete"}
  BY ResolvedChange
<1> HIDE DEF change
<1> QED
  BY <1>1 DEF ResolveChange, change

LEMMA ResolveChangeBatch ==
  ASSUME Typed, BatchInv, NEW c \in Clients, ResolveChange(c)
  PROVE  BatchInv'
<1> DEFINE change == mine[c].changes[mine[c].next]
           found  == {id \in Live : Holds(id, change.at)}
           push(id, rec) ==
             IF \E i \in DOMAIN mine[c].batch : mine[c].batch[i].id = id
               THEN Return(c, "refused")
               ELSE /\ mine' = [mine EXCEPT ![c].batch = Append(@, [id |-> id, rec |-> rec]),
                                            ![c].next = @ + 1]
                    /\ UNCHANGED pc
<1>1. /\ pc[c] = "resolve" /\ mine[c].next <= Len(mine[c].changes)
      /\ projection' = projection /\ setting' = setting
  BY DEF ResolveChange, turns
<1>2. ASSUME NEW id, NEW rec, push(id, rec), Becomes(projection, change, [id |-> id, rec |-> rec])
      PROVE  BatchInv'
  <2>1. CASE \E i \in DOMAIN mine[c].batch : mine[c].batch[i].id = id
    BY <1>1, <1>2, <2>1, ReturnBatch
  <2>2. CASE ~(\E i \in DOMAIN mine[c].batch : mine[c].batch[i].id = id)
    <3> DEFINE e == [id |-> id, rec |-> rec]
    <3>1. /\ mine' = [mine EXCEPT ![c].batch = Append(@, e), ![c].next = @ + 1]
          /\ pc' = pc /\ Becomes(projection, change, e)
      BY <1>2, <2>2
    <3> HIDE DEF e, push
    <3> QED
      BY <1>1, <3>1, PushBatch
  <2> QED
    BY <2>1, <2>2
<1>3. \/ Return(c, "refused")
      \/ Return(c, "not found")
      \/ /\ ~Refused(change)
         /\ \/ change.op \in {"insert", "upsert"} /\ push(change.id, change.rec)
            \/ change.op = "delete" /\ push(change.id, NoRecord)
            \/ /\ change.op \in {"patch", "remove"}
               /\ \E id \in found : push(id, IF change.op = "remove" THEN NoRecord
                                                ELSE Merged(projection[id], change.value))
  <2>1. change.op \in {"insert", "upsert", "patch", "remove", "delete"}
    BY ResolvedChange
  <2> HIDE DEF change, push, found
  <2> QED
    BY <2>1 DEF ResolveChange, change, push, found
<1> HIDE DEF push, change
<1>4. CASE Return(c, "refused") \/ Return(c, "not found")
  BY <1>1, <1>4, ReturnBatch
<1>5. CASE ~Refused(change) /\ change.op \in {"insert", "upsert"} /\ push(change.id, change.rec)
  <2>1. Becomes(projection, change, [id |-> change.id, rec |-> change.rec])
    BY <1>5 DEF Becomes
  <2> QED
    BY <1>2, <1>5, <2>1
<1>6. CASE ~Refused(change) /\ change.op = "delete" /\ push(change.id, NoRecord)
  <2>1. Becomes(projection, change, [id |-> change.id, rec |-> NoRecord])
    BY <1>6 DEF Becomes
  <2> QED
    BY <1>2, <1>6, <2>1
<1>7. CASE /\ ~Refused(change) /\ change.op \in {"patch", "remove"}
           /\ \E id \in found : push(id, IF change.op = "remove" THEN NoRecord
                                            ELSE Merged(projection[id], change.value))
  <2>1. PICK id \in found : push(id, IF change.op = "remove" THEN NoRecord
                                      ELSE Merged(projection[id], change.value))
    BY <1>7
  <2> DEFINE rec == IF change.op = "remove" THEN NoRecord ELSE Merged(projection[id], change.value)
  <2>2. HoldsIn(projection, id, change.at)
    BY <2>1 DEF Holds
  <2>3. Becomes(projection, change, [id |-> id, rec |-> rec])
    <3> DEFINE e == [id |-> id, rec |-> rec]
    <3>1. e.id = id /\ e.rec = rec
      OBVIOUS
    <3> HIDE DEF e
    <3> QED
      BY <1>7, <2>2, <3>1 DEF Becomes, e
  <2>4. push(id, rec)
    BY <2>1
  <2> HIDE DEF rec
  <2> QED
    BY <1>2, <2>3, <2>4
<1> QED
  BY <1>3, <1>4, <1>5, <1>6, <1>7

LEMMA AppendBatchBatch ==
  ASSUME Typed, BatchInv, NEW c \in Clients, AppendBatch(c)
  PROVE  BatchInv'
<1>1. pc[c] = "resolve" /\ setting' = setting /\ \E outcome : Return(c, outcome)
  BY DEF AppendBatch, turns
<1> QED
  BY <1>1, ReturnBatch

LEMMA CheckLimitBatch ==
  ASSUME Typed, BatchInv, NEW c \in Clients, CheckLimit(c)
  PROVE  BatchInv'
<1>1. setting' = setting /\ projection' = projection
  BY DEF CheckLimit, turns
<1>2. CASE Return(c, "refused")
  BY <1>1, <1>2, ReturnBatch
<1>3. CASE Goto(c, "count") /\ mine' = mine
  <2>1. pc' = [pc EXCEPT ![c] = "count"] /\ mine' = [mine EXCEPT ![c] = mine[c]]
    BY <1>3 DEF Goto, Typed
  <2> QED
    BY <1>1, <2>1, NoneResolved DEF Labels
<1> QED
  BY <1>2, <1>3 DEF CheckLimit

LEMMA CountRowsBatch ==
  ASSUME Typed, BatchInv, NEW c \in Clients, CountRows(c)
  PROVE  BatchInv'
<1>1. /\ setting' = setting /\ projection' = projection /\ pc' = [pc EXCEPT ![c] = "rows"]
      /\ \E m : mine' = [mine EXCEPT ![c] = m]
  BY DEF CountRows, turns, Goto
<1> QED
  BY <1>1, NoneResolved DEF Labels

LEMMA ReadPageBatch ==
  ASSUME Typed, BatchInv, NEW c \in Clients, ReadPage(c)
  PROVE  BatchInv'
<1>1. /\ setting' = setting /\ projection' = projection
      /\ pc' = [pc EXCEPT ![c] = "idle"] \/ pc' = [pc EXCEPT ![c] = "count"]
      /\ \E m : mine' = [mine EXCEPT ![c] = m]
  BY DEF ReadPage, turns, Goto
<1> QED
  BY <1>1, NoneResolved DEF Labels

LEMMA CallRebuildBatch ==
  ASSUME Typed, BatchInv, NEW c \in Clients, CallRebuild(c)
  PROVE  BatchInv'
<1>1. /\ pc' = [pc EXCEPT ![c] = "scan"] /\ \E m : mine' = [mine EXCEPT ![c] = m]
      /\ setting' = setting /\ projection' = projection
  BY DEF CallRebuild, Begin
<1> QED
  BY <1>1, NoneResolved DEF Labels

LEMMA ScanFilesBatch ==
  ASSUME Typed, BatchInv, NEW c \in Clients, ScanFiles(c)
  PROVE  BatchInv'
<1>1. setting' = setting /\ projection' = projection
  BY DEF ScanFiles, turns
<1>2. CASE Return(c, "refused")
  BY <1>1, <1>2, ReturnBatch
<1>3. CASE Goto(c, "publish") /\ mine' = mine
  <2>1. pc' = [pc EXCEPT ![c] = "publish"] /\ mine' = [mine EXCEPT ![c] = mine[c]]
    BY <1>3 DEF Goto, Typed
  <2> QED
    BY <1>1, <2>1, NoneResolved DEF Labels
<1> QED
  BY <1>2, <1>3 DEF ScanFiles

LEMMA PublishBatch ==
  ASSUME Typed, Current, BatchInv, NEW c \in Clients, Publish(c)
  PROVE  BatchInv'
<1>1. setting' = setting /\ c \in Rebuilders /\ Return(c, "done")
  BY DEF Publish, turns, Current, Entitled
<1> QED
  BY <1>1, ReturnBatch

LEMMA NextBatch ==
  ASSUME Typed, Current, BatchInv, [Next]_vars
  PROVE  BatchInv'
<1>1. CASE UNCHANGED vars
  <2>1. /\ projection' = projection /\ pc' = pc /\ mine' = mine /\ setting' = setting
    BY <1>1 DEF vars, turns
  <2> QED
    BY <2>1 DEF BatchInv, Resolving, Silent, Sole, Others, Writes, Rebuilders
<1>2. CASE Next
  <2>1. CASE Finished
    BY <1>1, <2>1 DEF Finished
  <2>2. CASE \E c \in Clients : CallWrite(c) \/ CallRead(c) \/ CallRebuild(c) \/ Step(c)
    <3>1. PICK c \in Clients : CallWrite(c) \/ CallRead(c) \/ CallRebuild(c) \/ Step(c)
      BY <2>2
    <3> QED
      BY <3>1, CallWriteBatch, CallReadBatch, CallRebuildBatch, ResolveChangeBatch,
         AppendBatchBatch, CheckLimitBatch, CountRowsBatch, ReadPageBatch, ScanFilesBatch,
         PublishBatch DEF Step
  <2> QED
    BY <1>2, <2>1, <2>2 DEF Next
<1> QED
  BY <1>1, <1>2

(* The step with which a write ends well is the one that appends its batch. *)
LEMMA WroteAppends ==
  ASSUME Typed, [Next]_vars, NEW c \in Clients, Wrote(c)
  PROVE  /\ AppendBatch(c) /\ Accepts(mine[c].batch, Mode(mine[c].changes))
         /\ table' = Stored(table, mine[c].batch)
<1>1. pc[c] = "resolve" /\ pc'[c] = "idle" /\ mine'[c].outcome = "done"
  BY DEF Wrote
<1>2. DOMAIN pc = Clients /\ DOMAIN mine = Clients
  BY DEF Typed
<1>3. ~UNCHANGED vars
  BY <1>1 DEF vars
<1>4. ~Finished
  BY <1>3 DEF Finished
<1>5. PICK d \in Clients : CallWrite(d) \/ CallRead(d) \/ CallRebuild(d) \/ Step(d)
  BY <1>3, <1>4 DEF Next
<1>6. ASSUME NEW outcome, Return(c, outcome)
      PROVE  outcome = "done"
  BY <1>1, <1>2, <1>6 DEF Return, NoLocals
<1>7. d = c
  <2>1. CASE CallWrite(d) \/ CallRead(d) \/ CallRebuild(d)
    BY <1>1, <1>2, <2>1 DEF CallWrite, CallRead, CallRebuild, Begin
  <2>2. CASE CheckLimit(d) \/ CountRows(d) \/ ReadPage(d) \/ ScanFiles(d) \/ Publish(d)
    BY <1>1, <1>2, <2>2 DEF CheckLimit, CountRows, ReadPage, ScanFiles, Publish, Goto, Return
  <2>3. CASE AppendBatch(d)
    BY <1>1, <1>2, <2>3 DEF AppendBatch, Return
  <2>4. CASE ResolveChange(d)
    <3>1. pc' = pc \/ \E outcome : Return(d, outcome)
      BY <2>4, ResolveEnds
    <3> QED
      BY <1>1, <1>2, <3>1 DEF Return
  <2> QED
    BY <1>5, <2>1, <2>2, <2>3, <2>4 DEF Step
<1>8. ~ResolveChange(c)
  <2>1. ASSUME ResolveChange(c)
        PROVE  FALSE
    <3>1. pc' = pc \/ Return(c, "refused") \/ Return(c, "not found")
      BY <2>1, ResolveEnds
    <3> QED
      BY <1>1, <1>6, <3>1
  <2> QED
    BY <2>1
<1>9. AppendBatch(c)
  <2>1. ~CallWrite(c) /\ ~CallRead(c) /\ ~CallRebuild(c)
    BY <1>1 DEF CallWrite, CallRead, CallRebuild, Begin
  <2>2. ~CheckLimit(c) /\ ~CountRows(c) /\ ~ReadPage(c) /\ ~ScanFiles(c) /\ ~Publish(c)
    BY <1>1 DEF CheckLimit, CountRows, ReadPage, ScanFiles, Publish
  <2> QED
    BY <1>5, <1>7, <1>8, <2>1, <2>2 DEF Step
<1>10. ~Return(c, "refused")
  BY <1>6
<1> QED
  BY <1>9, <1>10 DEF AppendBatch

LEMMA WroteInSequence ==
  ASSUME Typed, Current, BatchInv, [Next]_vars, NEW c \in Clients, Wrote(c), Sole(c)
  PROVE  MadeInSequence(c)
<1> DEFINE m == mine[c]
<1>1. /\ AppendBatch(c) /\ Accepts(m.batch, Mode(m.changes)) /\ table' = Stored(table, m.batch)
  BY WroteAppends
<1>2. m \in Locals /\ Held("resolve", m) /\ pc[c] = "resolve" /\ m.next > Len(m.changes)
  BY <1>1 DEF Typed, AppendBatch
<1>3. \A i \in 1..(m.next - 1) : Becomes(projection, m.changes[i], m.batch[i])
  BY <1>2 DEF BatchInv, Resolving
<1> HIDE DEF m
<1>4. /\ m.batch \in Seq(Entry) /\ m.changes \in Seq(Change) /\ m.next \in Nat
      /\ Len(m.batch) = m.next - 1 /\ m.next \in 1..(Len(m.changes) + 1)
  BY <1>2 DEF Locals, Held
<1>5. Len(m.changes) \in Nat
  BY <1>4, LenProperties
<1>6. Len(m.changes) = Len(m.batch)
  BY <1>2, <1>4, <1>5
<1>7. \A k \in 1..Len(m.batch) : Becomes(projection, m.changes[k], m.batch[k])
  BY <1>3, <1>4
<1>8. projection \in Rows /\ Table!UniqueIn(projection)
  BY DEF Typed, Stores
<1>9. Stored(projection, m.batch) = Seqs!FoldLeft(Applied, projection, m.changes)
  BY <1>1, <1>4, <1>6, <1>7, <1>8, BatchMadeInSequence
<1>10. projection = table
  <2>1. Rebuilders \subseteq Clients
    BY SettingsAssumption DEF Rebuilders, Typed
  <2>2. ASSUME NEW r \in Rebuilders, NEW d \in Others(r) PROVE Writes(d) = {}
    <3>1. r \in Clients /\ d \in Clients /\ r # d
      BY <2>1, <2>2 DEF Others
    <3>2. r = c
      BY <3>1 DEF Sole, Others
    <3> QED
      BY <3>1, <3>2 DEF Sole, Others
  <2>3. RebuildsApart
    BY <2>2 DEF RebuildsApart
  <2> QED
    BY <2>3 DEF Current, ProjectionCurrent
<1> QED
  BY <1>1, <1>9, <1>10 DEF MadeInSequence, m

(* A write that is accepted, of the only client that writes or rebuilds,    *)
(* leaves the rows its changes leave when they are made one after another,  *)
(* although each was resolved against the rows before the batch             *)
(* (write_many).                                                           *)
THEOREM BatchesCorrect == Spec => BatchIsSequence
<1>1. ASSUME Typed, Current, BatchInv, [Next]_vars
      PROVE  \A c \in Clients :
               Wrote(c) /\ Sole(c) => MadeInSequence(c)
  BY <1>1, WroteInSequence
<1>2. Typed /\ Current /\ BatchInv /\ [Next]_vars =>
        [\A c \in Clients : Wrote(c) /\ Sole(c) => MadeInSequence(c)]_vars
  BY <1>1
<1> QED
  BY <1>2, InitBatch, NextBatch, AlwaysTyped, AlwaysCurrent, PTL DEF Spec, BatchIsSequence
=============================================================================
