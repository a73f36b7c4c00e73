--------------------------- MODULE FormatsProofs ----------------------------
(***************************************************************************)
(* The formats, for every value of their constants: schemas, texts of       *)
(* schemas, caches and rows of any size.                                   *)
(***************************************************************************)
EXTENDS Formats, MaximumProofs, SequenceTheorems, TLAPS

-----------------------------------------------------------------------------
(* The names of chunks: names are in the reverse order of counters, for the *)
(* digits of a number compare like the number.                             *)

(* Division leaves a quotient and a remainder. *)
LEMMA QuotientRemainder ==
  ASSUME NEW B \in Nat, B > 1, NEW n \in Nat
  PROVE  /\ n \div B \in Nat
         /\ n % B \in 0..(B - 1)
         /\ n = B * (n \div B) + (n % B)
  OBVIOUS

(* Numbers compare by their quotients first and then by their remainders. *)
LEMMA DivisionOrder ==
  ASSUME NEW B \in Nat, B > 1, NEW m \in Nat, NEW n \in Nat, m < n
  PROVE  m \div B < n \div B \/ (m \div B = n \div B /\ m % B < n % B)
<1> DEFINE p == m \div B
           q == n \div B
           r == m % B
           s == n % B
<1>1. p \in Nat /\ q \in Nat /\ r \in 0..(B - 1) /\ s \in 0..(B - 1)
        /\ m = B * p + r /\ n = B * q + s
  BY QuotientRemainder
<1> HIDE DEF p, q, r, s
<1>2. CASE p > q
  <2>1. B * p >= B * q + B
    BY <1>1, <1>2
  <2> QED BY <2>1, <1>1
<1>3. CASE p = q
  BY <1>1, <1>3
<1>4. CASE p < q
  BY <1>1, <1>4 DEF p, q
<1> QED BY <1>1, <1>2, <1>3, <1>4 DEF p, q, r, s

(* A number below B * k has a quotient below k. *)
LEMMA QuotientBound ==
  ASSUME NEW B \in Nat, B > 1, NEW k \in Nat, NEW n \in Nat, n < B * k
  PROVE  n \div B < k
<1> DEFINE q == n \div B
           s == n % B
<1>1. q \in Nat /\ s \in 0..(B - 1) /\ n = B * q + s
  BY QuotientRemainder
<1> HIDE DEF q, s
<1>2. CASE q >= k
  <2>1. B * q >= B * k
    BY <1>1, <1>2
  <2> QED BY <2>1, <1>1
<1>3. CASE q < k
  BY <1>3 DEF q
<1> QED BY <1>1, <1>2, <1>3

(* A number below the base is its own remainder. *)
LEMMA SmallRemainder ==
  ASSUME NEW B \in Nat, B > 1, NEW n \in Nat, n < B
  PROVE  n % B = n
  OBVIOUS

LEMMA MaxChunksNat == MaxChunks \in Nat /\ MaxChunks = Base * (Base * Base)
  BY BaseAssumption DEF MaxChunks

(* The digits of a counter are digits, and the first is the whole quotient. *)
LEMMA DigitsOf ==
  ASSUME NEW n \in Nat, n < MaxChunks
  PROVE  /\ EncodeFixed(n) \in Name
         /\ EncodeFixed(n)[1] = (n \div Base) \div Base
         /\ EncodeFixed(n)[2] = (n \div Base) % Base
         /\ EncodeFixed(n)[3] = n % Base
<1>1. Base \in Nat /\ Base > 1 /\ Base * Base \in Nat
  BY BaseAssumption
<1>2. n \div Base \in Nat /\ n \div Base < Base * Base
  BY <1>1, MaxChunksNat, QuotientRemainder, QuotientBound
<1>3. (n \div Base) \div Base \in Nat /\ (n \div Base) \div Base < Base
  BY <1>1, <1>2, QuotientRemainder, QuotientBound
<1>4. ((n \div Base) \div Base) % Base = (n \div Base) \div Base
  BY <1>1, <1>3, SmallRemainder
<1>5. n % Base \in Digit /\ (n \div Base) % Base \in Digit
  BY <1>1, <1>2, QuotientRemainder DEF Digit
<1>6. (n \div Base) \div Base \in Digit
  BY <1>1, <1>3 DEF Digit
<1> QED BY <1>4, <1>5, <1>6 DEF EncodeFixed, Name

(* Fixed-width names compare like the numbers they are written for. *)
LEMMA NamesOrdered ==
  ASSUME NEW m \in Nat, NEW n \in Nat, m < n, n < MaxChunks
  PROVE  Less(EncodeFixed(m), EncodeFixed(n))
<1>1. Base \in Nat /\ Base > 1
  BY BaseAssumption
<1>2. m < MaxChunks
  BY MaxChunksNat
<1>3. m \div Base \in Nat /\ n \div Base \in Nat
  BY <1>1, QuotientRemainder
<1>4. CASE m \div Base < n \div Base
  <2>1. \/ (m \div Base) \div Base < (n \div Base) \div Base
        \/ /\ (m \div Base) \div Base = (n \div Base) \div Base
           /\ (m \div Base) % Base < (n \div Base) % Base
    BY <1>1, <1>3, <1>4, DivisionOrder
  <2> QED BY <2>1, <1>2, DigitsOf DEF Less
<1>5. CASE m \div Base = n \div Base /\ m % Base < n % Base
  BY <1>5, <1>2, DigitsOf DEF Less
<1> QED BY <1>1, <1>4, <1>5, DivisionOrder

(* chunk_path: a later chunk has a name before those of the earlier ones. *)
LEMMA PathsReversed ==
  ASSUME NEW c \in Nat, NEW d \in Nat, c < d, d < MaxChunks
  PROVE  Less(ChunkPath(d), ChunkPath(c))
<1>1. /\ MaxChunks - 1 - d \in Nat /\ MaxChunks - 1 - c \in Nat
      /\ MaxChunks - 1 - d < MaxChunks - 1 - c /\ MaxChunks - 1 - c < MaxChunks
  BY MaxChunksNat
<1> QED BY <1>1, NamesOrdered DEF ChunkPath, EncodeReverse

(* Every file has the name of a counter that has been passed. *)
NamesUsed ==
  /\ next \in Nat /\ next <= MaxChunks
  /\ \A name \in names : \E c \in Nat : c < next /\ name = ChunkPath(c)

LEMMA InitNamesUsed == Init => NamesUsed
  BY MaxChunksNat DEF Init, NamesUsed

LEMMA NextNamesUsed == NamesUsed /\ [Next]_vars => NamesUsed'
<1> SUFFICES ASSUME NamesUsed, [Next]_vars PROVE NamesUsed'
  OBVIOUS
<1>1. CASE NewChunk
  BY <1>1, MaxChunksNat DEF NewChunk, NamesUsed
<1>2. CASE Compact
  <2>1. next # 0
    BY <1>2 DEF Compact, NamesUsed
  <2> QED BY <1>2, <2>1, MaxChunksNat DEF Compact, NamesUsed
<1>3. CASE Full \/ UNCHANGED vars
  BY <1>3 DEF Full, NamesUsed, vars
<1> QED BY <1>1, <1>2, <1>3 DEF Next

THEOREM NamesUsedAlways == Spec => []NamesUsed
<1> QED BY InitNamesUsed, NextNamesUsed, PTL DEF Spec

(* Every name in a table's directory is one of three digits, whatever base  *)
(* the names are written in (encode_fixed_base36).                         *)
THEOREM NamesTyped == Spec => []TypeOK
<1>1. NamesUsed => TypeOK
  <2> SUFFICES ASSUME NamesUsed PROVE TypeOK
    OBVIOUS
  <2>1. next \in 0..MaxChunks
    BY MaxChunksNat DEF NamesUsed
  <2>2. ASSUME NEW name \in names PROVE name \in Name
    <3>1. PICK c \in Nat : c < next /\ name = ChunkPath(c)
      BY DEF NamesUsed
    <3>2. MaxChunks - 1 - c \in Nat /\ MaxChunks - 1 - c < MaxChunks
      BY <3>1, MaxChunksNat DEF NamesUsed
    <3> QED BY <3>1, <3>2, DigitsOf DEF ChunkPath, EncodeReverse
  <2> QED BY <2>1, <2>2 DEF TypeOK
<1> QED BY <1>1, NamesUsedAlways, PTL

(* A new chunk file sorts before every file of the table, so that reading   *)
(* the sorted names backwards reads chunks in the order they were made in   *)
(* (chunk_path, six_files_in_read_order), at every digit boundary.         *)
THEOREM NewestFirst == Spec => ReadOrder
<1>1. NamesUsed /\ [Next]_vars => [SortsFirst]_vars
  <2> SUFFICES ASSUME NamesUsed, [Next]_vars, next' = next + 1, NEW old \in names
               PROVE  Less(ChunkPath(next), old)
    BY DEF SortsFirst
  <2>1. PICK c \in Nat : c < next /\ old = ChunkPath(c)
    BY DEF NamesUsed
  <2>2. next \in Nat
    BY DEF NamesUsed
  <2>3. CASE NewChunk
    BY <2>1, <2>2, <2>3, PathsReversed DEF NewChunk
  <2>4. CASE Compact \/ Full \/ UNCHANGED vars
    BY <2>1, <2>2, <2>4 DEF Compact, Full, vars
  <2> QED BY <2>3, <2>4 DEF Next
<1> QED BY <1>1, InitNamesUsed, NextNamesUsed, PTL DEF Spec, ReadOrder

-----------------------------------------------------------------------------
(* The schema compiler.                                                    *)

FieldIr == [name : Compiler!Identifiers, type : Compiler!Types]

LookupIr == [field : Compiler!Identifiers, unique : BOOLEAN]

TableIr ==
  [name : Compiler!Identifiers \cup {"none"}, fields : Seq(FieldIr), lookups : Seq(LookupIr)]

CompilerTypes ==
  /\ source \in Seq(Token) /\ pos \in 0..Len(source) /\ wrapped \in BOOLEAN
  /\ tables \in Seq(TableIr) /\ table \in TableIr
  /\ pc \in {"schema", "tables", "items", "validate", "load", "done"}
  /\ outcome \in {"none", "error", "invalid", "compiled"}

(* What the result says of the tables that were parsed. *)
CompilerResult ==
  /\ pc \notin {"load", "done"} => outcome = "none"
  /\ pc = "load" => outcome = "compiled"
  /\ pc = "done" => outcome # "none"
  /\ outcome = "compiled" => Compiler!Valid(tables)
  /\ outcome = "invalid" => ~Compiler!Valid(tables)
  /\ db = IF pc = "done" /\ outcome = "compiled" /\ Compiler!Loadable(tables)
            THEN Compiler!Loaded(tables) ELSE Compiler!NoSchema

CompilerInv == CompilerTypes /\ CompilerResult

LEMMA CompilerInit ==
  ASSUME Compiler!Init
  PROVE  CompilerInv
<1>1. PICK s \in Sources : source = s.tokens
  BY DEF Compiler!Init
<1>2. source \in Seq(Token) /\ Len(source) \in Nat
  BY <1>1, SourcesAssumption, LenProperties
<1>3. tables \in Seq(TableIr) /\ table \in TableIr
  BY EmptySeq DEF Compiler!Init, Compiler!NoTable, TableIr
<1>4. CompilerTypes
  <2>1. pos = 0 /\ wrapped = FALSE /\ pc = "schema" /\ outcome = "none"
    BY DEF Compiler!Init
  <2>2. source \in Seq(Token) /\ tables \in Seq(TableIr) /\ table \in TableIr
    BY <1>2, <1>3
  <2>3. pos \in 0..Len(source)
    BY <1>2, <2>1
  <2>4. wrapped \in BOOLEAN
    BY <2>1
  <2>5. pc \in {"schema", "tables", "items", "validate", "load", "done"}
    BY <2>1
  <2>6. outcome \in {"none", "error", "invalid", "compiled"}
    BY <2>1
  <2> QED
    BY <2>2, <2>3, <2>4, <2>5, <2>6 DEF CompilerTypes
<1>5. CompilerResult
  BY DEF Compiler!Init, CompilerResult
<1> QED
  BY <1>4, <1>5 DEF CompilerInv

(* A token that is not the end of the text is one of the text. *)
LEMMA PeekIs ==
  ASSUME CompilerTypes, NEW i \in 1..3, Compiler!Peek(i) # "end"
  PROVE  pos + i <= Len(source) /\ Compiler!Peek(i) = source[pos + i] /\ Compiler!Peek(i) \in Token
<1>1. Len(source) \in Nat /\ DOMAIN source = 1..Len(source) /\ pos \in Nat
  BY LenProperties DEF CompilerTypes
<1>2. pos + i <= Len(source) /\ Compiler!Peek(i) = source[pos + i]
  BY DEF Compiler!Peek
<1>3. source[pos + i] \in Token
  BY <1>1, <1>2, ElementOfSeq DEF CompilerTypes
<1> QED
  BY <1>2, <1>3
LEMMA CompilerVars ==
  ASSUME CompilerInv, UNCHANGED <<source, written, pos, wrapped, tables, table, pc, outcome, db>>
  PROVE  CompilerInv'
BY DEF CompilerInv, CompilerTypes, CompilerResult, Compiler!Valid, Compiler!Loadable,
       Compiler!Loaded, Compiler!NoSchema

(* A step of the parser reads tokens of the text. *)
LEMMA ReadTypes ==
  ASSUME CompilerTypes, NEW n \in Nat, pos + n <= Len(source),
         NEW label \in {"tables", "items", "validate"}, Compiler!Read(n, label),
         wrapped' \in BOOLEAN, tables' \in Seq(TableIr), table' \in TableIr
  PROVE  CompilerTypes'
<1>1. source' = source /\ outcome' = outcome /\ pos' = pos + n /\ pc' = label
  BY DEF Compiler!Read
<1>2. pos' \in 0..Len(source')
  <2>1. Len(source) \in Nat /\ pos \in 0..Len(source)
    BY LenProperties DEF CompilerTypes
  <2> QED
    BY <1>1, <2>1
<1>3. source' \in Seq(Token) /\ outcome' \in {"none", "error", "invalid", "compiled"}
  BY <1>1 DEF CompilerTypes
<1>4. pc' \in {"schema", "tables", "items", "validate", "load", "done"}
  BY <1>1
<1> QED
  BY <1>2, <1>3, <1>4 DEF CompilerTypes

LEMMA ReadResult ==
  ASSUME CompilerResult, NEW n, NEW label \in {"tables", "items", "validate"},
         Compiler!Read(n, label), pc \in {"schema", "tables", "items"}
  PROVE  CompilerResult'
<1>1. outcome = "none" /\ db = Compiler!NoSchema
  BY DEF CompilerResult
<1>2. outcome' = "none" /\ db' = Compiler!NoSchema /\ pc' \in {"tables", "items", "validate"}
  BY <1>1 DEF Compiler!Read
<1>3. pc' # "load" /\ pc' # "done"
  BY <1>2
<1> QED
  BY <1>2, <1>3 DEF CompilerResult, Compiler!NoSchema

LEMMA FailKeeps ==
  ASSUME CompilerInv, Compiler!Fail, pc \in {"schema", "tables", "items"}
  PROVE  CompilerInv'
<1>1. /\ pc' = "done" /\ outcome' = "error"
      /\ UNCHANGED <<source, pos, wrapped, tables, table, db>>
  BY DEF Compiler!Fail
<1>2. outcome = "none" /\ db = Compiler!NoSchema
  BY DEF CompilerInv, CompilerResult
<1>3. CompilerTypes'
  <2>1. pc' \in {"schema", "tables", "items", "validate", "load", "done"}
    BY <1>1
  <2> QED
    BY <1>1, <2>1 DEF CompilerInv, CompilerTypes
<1>4. CompilerResult'
  BY <1>1, <1>2 DEF CompilerResult, Compiler!NoSchema
<1> QED
  BY <1>3, <1>4 DEF CompilerInv

(* The tokens of a declaration with the semicolon that may follow. *)
LEMMA ConsumedIs ==
  ASSUME CompilerTypes, NEW n \in {2, 3}, pos + n <= Len(source)
  PROVE  \E k \in Nat :
           /\ Compiler!Consumed(n) = pos + k /\ pos + k <= Len(source)
           /\ \/ k = n
              \/ k = n + 1 /\ source[pos + k] = "Semicolon"
<1>1. Len(source) \in Nat /\ pos \in Nat /\ n \in Nat
  BY LenProperties DEF CompilerTypes
<1>2. CASE Compiler!Peek(n + 1) = "Semicolon"
  <2>1. pos + (n + 1) <= Len(source) /\ source[pos + (n + 1)] = "Semicolon"
    BY <1>2 DEF Compiler!Peek
  <2>2. Compiler!Consumed(n) = pos + (n + 1)
    BY <1>1, <1>2 DEF Compiler!Consumed
  <2> QED
    BY <1>1, <2>1, <2>2
<1>3. CASE Compiler!Peek(n + 1) # "Semicolon"
  <2>1. Compiler!Consumed(n) = pos + n
    BY <1>1, <1>3 DEF Compiler!Consumed
  <2> QED
    BY <1>1, <2>1
<1> QED
  BY <1>2, <1>3
LEMMA TablesRead ==
  ASSUME CompilerInv, Compiler!ParseSchema \/ Compiler!ParseTableList
  PROVE  CompilerInv'
<1>0. /\ CompilerTypes /\ CompilerResult /\ Len(source) \in Nat /\ pos \in 0..Len(source)
      /\ tables \in Seq(TableIr) /\ table \in TableIr /\ wrapped \in BOOLEAN
  BY LenProperties DEF CompilerInv, CompilerTypes
<1>1. pc \in {"schema", "tables", "items"}
  BY DEF Compiler!ParseSchema, Compiler!ParseTableList
<1>2. ASSUME NEW n \in Nat, pos + n <= Len(source), NEW label \in {"tables", "items", "validate"},
             Compiler!Read(n, label), wrapped' \in BOOLEAN, tables' = tables, table' \in TableIr
      PROVE  CompilerInv'
  BY <1>0, <1>1, <1>2, ReadTypes, ReadResult DEF CompilerInv
<1>3. CASE Compiler!ParseSchema
  <2>1. CASE /\ Compiler!Peek(1) = "schema" /\ Compiler!Peek(2) = "Bang"
             /\ Compiler!Peek(3) = "LBrace" /\ wrapped' = TRUE
             /\ Compiler!Read(3, "tables") /\ UNCHANGED <<tables, table>>
    <3>1. pos + 3 <= Len(source)
      BY <1>0, <2>1, PeekIs
    <3>2. wrapped' \in BOOLEAN /\ tables' = tables /\ table' \in TableIr
      BY <1>0, <2>1
    <3> QED
      BY <1>2, <2>1, <3>1, <3>2
  <2>2. CASE Compiler!Fail
    BY <1>1, <2>2, FailKeeps
  <2>3. CASE Compiler!Read(0, "tables") /\ UNCHANGED <<wrapped, tables, table>>
    <3>1. pos + 0 <= Len(source)
      BY <1>0
    <3>2. wrapped' \in BOOLEAN /\ tables' = tables /\ table' \in TableIr
      BY <1>0, <2>3
    <3> QED
      BY <1>2, <2>3, <3>1, <3>2
  <2> QED
    BY <1>3, <2>1, <2>2, <2>3 DEF Compiler!ParseSchema
<1>4. CASE Compiler!ParseTableList
  <2>1. CASE /\ Compiler!IsIdent(Compiler!Peek(1)) /\ Compiler!Peek(2) = "LBrace"
             /\ table' = [Compiler!NoTable EXCEPT !.name = Compiler!Peek(1)]
             /\ Compiler!Read(2, "items") /\ UNCHANGED <<wrapped, tables>>
    <3>1. pos + 2 <= Len(source)
      BY <1>0, <2>1, PeekIs
    <3>2. table' \in TableIr
      BY <2>1, EmptySeq DEF Compiler!IsIdent, Compiler!NoTable, TableIr
    <3>3. wrapped' \in BOOLEAN /\ tables' = tables
      BY <1>0, <2>1
    <3> QED
      BY <1>2, <2>1, <3>1, <3>2, <3>3
  <2>2. CASE Compiler!Fail
    BY <1>1, <2>2, FailKeeps
  <2>3. CASE /\ Compiler!Peek(1) = "RBrace" /\ Compiler!Read(IF wrapped THEN 1 ELSE 0, "validate")
             /\ UNCHANGED <<wrapped, tables, table>>
    <3> DEFINE n == IF wrapped THEN 1 ELSE 0
    <3>1. n \in {0, 1}
      OBVIOUS
    <3>2. pos + 1 <= Len(source)
      BY <1>0, <2>3, PeekIs
    <3>3. n \in Nat /\ pos + n <= Len(source)
      <4> HIDE DEF n
      <4> QED
        BY <1>0, <3>1, <3>2
    <3>4. wrapped' \in BOOLEAN /\ tables' = tables /\ table' \in TableIr
      BY <1>0, <2>3
    <3> QED
      BY <1>2, <2>3, <3>3, <3>4
  <2> QED
    BY <1>4, <2>1, <2>2, <2>3 DEF Compiler!ParseTableList
<1> QED
  BY <1>3, <1>4

LEMMA ItemsRead ==
  ASSUME CompilerInv,
         \/ Compiler!ParseLookup \/ Compiler!ParseField \/ Compiler!EndTable \/ Compiler!BadItem
  PROVE  CompilerInv'
<1>0. /\ CompilerTypes /\ CompilerResult /\ Len(source) \in Nat /\ pos \in 0..Len(source)
      /\ tables \in Seq(TableIr) /\ table \in TableIr /\ wrapped \in BOOLEAN
  BY LenProperties DEF CompilerInv, CompilerTypes
<1>1. pc \in {"schema", "tables", "items"}
  BY DEF Compiler!ParseLookup, Compiler!ParseField, Compiler!EndTable, Compiler!BadItem
<1>2. ASSUME NEW n \in Nat, pos + n <= Len(source), NEW label \in {"tables", "items", "validate"},
             Compiler!Read(n, label), wrapped' = wrapped, tables' \in Seq(TableIr),
             table' \in TableIr
      PROVE  CompilerInv'
  <2>1. wrapped' \in BOOLEAN
    BY <1>0, <1>2
  <2> QED
    BY <1>0, <1>1, <1>2, <2>1, ReadTypes, ReadResult DEF CompilerInv
<1>3. ASSUME NEW n \in {2, 3}, pos + n <= Len(source),
             Compiler!Read(Compiler!Consumed(n) - pos, "items")
      PROVE  \E k \in Nat : pos + k <= Len(source) /\ Compiler!Read(k, "items")
  <2>1. PICK k \in Nat : Compiler!Consumed(n) = pos + k /\ pos + k <= Len(source)
    BY <1>0, <1>3, ConsumedIs
  <2>2. Compiler!Consumed(n) - pos = k
    BY <1>0, <2>1
  <2> QED
    BY <1>3, <2>1, <2>2
<1>4. CASE Compiler!ParseLookup
  <2> DEFINE unique == Compiler!Peek(3) = "unique"
             n      == IF unique THEN 3 ELSE 2
             item   == [field |-> Compiler!Peek(2), unique |-> unique]
  <2>1. /\ Compiler!Peek(1) = "lookup" /\ Compiler!IsIdent(Compiler!Peek(2))
        /\ table' = [table EXCEPT !.lookups = Append(@, item)]
        /\ Compiler!Read(Compiler!Consumed(n) - pos, "items") /\ UNCHANGED <<wrapped, tables>>
    BY <1>4 DEF Compiler!ParseLookup
  <2>2. pos + 2 <= Len(source) /\ (unique => pos + 3 <= Len(source))
    <3>1. Compiler!Peek(2) # "end"
      BY <2>1, WordsAssumption DEF Compiler!IsIdent
    <3> QED
      BY <1>0, <3>1, PeekIs
  <2>3. n \in {2, 3} /\ pos + n <= Len(source)
    BY <2>2
  <2>4. item \in LookupIr
    BY <2>1 DEF LookupIr, Compiler!IsIdent
  <2>5. table' \in TableIr
    <3> HIDE DEF item
    <3>1. Append(table.lookups, item) \in Seq(LookupIr)
      BY <1>0, <2>4, AppendProperties DEF TableIr
    <3> QED
      BY <1>0, <2>1, <3>1 DEF TableIr
  <2> HIDE DEF n
  <2> QED
    BY <1>0, <1>2, <1>3, <2>1, <2>3, <2>5
<1>5. CASE Compiler!ParseField
  <2> DEFINE item == [name |-> Compiler!Peek(1), type |-> Compiler!Peek(2)]
  <2>1. /\ Compiler!IsIdent(Compiler!Peek(1)) /\ Compiler!Peek(2) \in Compiler!Types
        /\ table' = [table EXCEPT !.fields = Append(@, item)]
        /\ Compiler!Read(Compiler!Consumed(2) - pos, "items") /\ UNCHANGED <<wrapped, tables>>
    BY <1>5 DEF Compiler!ParseField
  <2>2. pos + 2 <= Len(source)
    <3>1. Compiler!Peek(2) # "end"
      BY <2>1 DEF Compiler!Types
    <3> QED
      BY <1>0, <3>1, PeekIs
  <2>3. item \in FieldIr
    BY <2>1 DEF FieldIr, Compiler!IsIdent
  <2>4. table' \in TableIr
    <3> HIDE DEF item
    <3>1. Append(table.fields, item) \in Seq(FieldIr)
      BY <1>0, <2>3, AppendProperties DEF TableIr
    <3> QED
      BY <1>0, <2>1, <3>1 DEF TableIr
  <2> QED
    BY <1>0, <1>2, <1>3, <2>1, <2>2, <2>4
<1>6. CASE Compiler!EndTable
  <2>1. /\ Compiler!Peek(1) = "RBrace" /\ tables' = Append(tables, table)
        /\ table' = Compiler!NoTable /\ Compiler!Read(1, "tables") /\ wrapped' = wrapped
    BY <1>6 DEF Compiler!EndTable
  <2>2. pos + 1 <= Len(source)
    BY <1>0, <2>1, PeekIs
  <2>3. table' \in TableIr
    BY <2>1, EmptySeq DEF Compiler!NoTable, TableIr
  <2>4. tables' \in Seq(TableIr)
    BY <1>0, <2>1, AppendProperties
  <2> QED
    BY <1>2, <2>1, <2>2, <2>3, <2>4
<1>7. CASE Compiler!BadItem
  <2>1. Compiler!Fail
    BY <1>7 DEF Compiler!BadItem
  <2> QED
    BY <1>1, <2>1, FailKeeps
<1> QED
  BY <1>4, <1>5, <1>6, <1>7

LEMMA ResultMade ==
  ASSUME CompilerInv, Compiler!Validate \/ Compiler!Load
  PROVE  CompilerInv'
<1>0. CompilerTypes /\ CompilerResult
  BY DEF CompilerInv
<1>1. UNCHANGED <<source, pos, wrapped, tables, table>>
  BY DEF Compiler!Validate, Compiler!Load
<1>2. CASE Compiler!Validate
  <2>1. /\ outcome' = IF Compiler!Valid(tables) THEN "compiled" ELSE "invalid"
        /\ pc' = IF Compiler!Valid(tables) THEN "load" ELSE "done"
        /\ pc = "validate" /\ db' = db
    BY <1>2 DEF Compiler!Validate
  <2>2. db' = Compiler!NoSchema
    BY <1>0, <2>1 DEF CompilerResult
  <2>3. CompilerTypes'
    BY <1>0, <1>1, <2>1 DEF CompilerTypes
  <2>4. CompilerResult'
    BY <1>1, <2>1, <2>2 DEF CompilerResult, Compiler!Valid, Compiler!NoSchema
  <2> QED
    BY <2>3, <2>4 DEF CompilerInv
<1>3. CASE Compiler!Load
  <2>1. /\ db' = IF Compiler!Loadable(tables) THEN Compiler!Loaded(tables) ELSE Compiler!NoSchema
        /\ pc' = "done" /\ pc = "load" /\ outcome' = outcome
    BY <1>3 DEF Compiler!Load
  <2>2. outcome = "compiled" /\ Compiler!Valid(tables)
    BY <1>0, <2>1 DEF CompilerResult
  <2>3. CompilerTypes'
    BY <1>0, <1>1, <2>1 DEF CompilerTypes
  <2>4. CompilerResult'
    BY <1>1, <2>1, <2>2
       DEF CompilerResult, Compiler!Valid, Compiler!NoSchema, Compiler!Loadable, Compiler!Loaded
  <2> QED
    BY <2>3, <2>4 DEF CompilerInv
<1> QED
  BY <1>2, <1>3

LEMMA CompilerStep ==
  ASSUME CompilerInv, Compiler!Compile
  PROVE  CompilerInv'
BY TablesRead, ItemsRead, ResultMade DEF Compiler!Compile

(* Among distinct names, the one chosen is the one that is there. *)
LEMMA ChosenIs ==
  ASSUME NEW list, Compiler!Distinct(list), NEW i \in DOMAIN list
  PROVE  (CHOOSE j \in DOMAIN list : list[j] = list[i]) = i
BY DEF Compiler!Distinct

LEMMA TableIs ==
  ASSUME NEW t \in TableIr
  PROVE  /\ DOMAIN Compiler!FieldNames(t) = DOMAIN t.fields
         /\ DOMAIN Compiler!LookupNames(t) = DOMAIN t.lookups
         /\ t.fields = [i \in DOMAIN t.fields |-> t.fields[i]]
         /\ t.lookups = [i \in DOMAIN t.lookups |-> t.lookups[i]]
         /\ \A i \in DOMAIN t.fields :
              /\ t.fields[i] = [name |-> t.fields[i].name, type |-> t.fields[i].type]
              /\ Compiler!FieldNames(t)[i] = t.fields[i].name
         /\ \A i \in DOMAIN t.lookups :
              /\ t.lookups[i] = [field |-> t.lookups[i].field, unique |-> t.lookups[i].unique]
              /\ Compiler!LookupNames(t)[i] = t.lookups[i].field
<1>1. t.fields \in Seq(FieldIr) /\ t.lookups \in Seq(LookupIr)
  BY DEF TableIr
<1>2. /\ t.fields = [i \in DOMAIN t.fields |-> t.fields[i]]
      /\ t.lookups = [i \in DOMAIN t.lookups |-> t.lookups[i]]
  BY <1>1
<1>3. \A i \in DOMAIN t.fields : t.fields[i] \in FieldIr
  BY <1>1, ElementOfSeq, LenProperties
<1>4. \A i \in DOMAIN t.lookups : t.lookups[i] \in LookupIr
  BY <1>1, ElementOfSeq, LenProperties
<1>5. \A i \in DOMAIN t.fields :
        t.fields[i] = [name |-> t.fields[i].name, type |-> t.fields[i].type]
  BY <1>3 DEF FieldIr
<1>6. \A i \in DOMAIN t.lookups :
        t.lookups[i] = [field |-> t.lookups[i].field, unique |-> t.lookups[i].unique]
  BY <1>4 DEF LookupIr
<1> QED
  BY <1>2, <1>5, <1>6 DEF Compiler!FieldNames, Compiler!LookupNames

LEMMA NamedIn ==
  ASSUME NEW s, NEW x
  PROVE  x \in Compiler!ToSet(s) <=> \E i \in DOMAIN s : s[i] = x
BY DEF Compiler!ToSet

(* The schema of a table has its fields and lookups. *)
LEMMA TableSchemaIs ==
  ASSUME NEW t \in TableIr, Compiler!Buildable(t)
  PROVE  /\ Compiler!TableSchema(t).fieldOrder = Compiler!FieldNames(t)
         /\ DOMAIN Compiler!TableSchema(t).kinds = Compiler!ToSet(Compiler!FieldNames(t))
         /\ DOMAIN Compiler!TableSchema(t).lookups = Compiler!ToSet(Compiler!LookupNames(t))
         /\ \A i \in DOMAIN t.fields :
              /\ t.fields[i].name \in DOMAIN Compiler!TableSchema(t).kinds
              /\ Compiler!TableSchema(t).kinds[t.fields[i].name] = t.fields[i].type
         /\ \A i \in DOMAIN t.lookups :
              /\ t.lookups[i].field \in DOMAIN Compiler!TableSchema(t).lookups
              /\ Compiler!TableSchema(t).lookups[t.lookups[i].field] = t.lookups[i].unique
<1> DEFINE F == Compiler!FieldNames(t)
           L == Compiler!LookupNames(t)
<1>1. Compiler!Distinct(F) /\ Compiler!Distinct(L)
  BY DEF Compiler!Buildable
<1>2. ASSUME NEW i \in DOMAIN t.fields
      PROVE  /\ t.fields[i].name \in Compiler!ToSet(F)
             /\ (CHOOSE j \in DOMAIN t.fields : t.fields[j].name = t.fields[i].name) = i
  <2>1. t.fields[i].name = F[i] /\ i \in DOMAIN F
    BY TableIs
  <2>2. \A j \in DOMAIN t.fields : t.fields[j].name = t.fields[i].name <=> j = i
    BY <1>1, <2>1, TableIs DEF Compiler!Distinct
  <2>3. (CHOOSE j \in DOMAIN t.fields : t.fields[j].name = t.fields[i].name) = i
    BY <2>2
  <2> QED
    BY <2>1, <2>3, NamedIn
<1>3. ASSUME NEW i \in DOMAIN t.lookups
      PROVE  /\ t.lookups[i].field \in Compiler!ToSet(L)
             /\ (CHOOSE j \in DOMAIN t.lookups : t.lookups[j].field = t.lookups[i].field) = i
  <2>1. t.lookups[i].field = L[i] /\ i \in DOMAIN L
    BY TableIs
  <2>2. \A j \in DOMAIN t.lookups : t.lookups[j].field = t.lookups[i].field <=> j = i
    BY <1>1, <2>1, TableIs DEF Compiler!Distinct
  <2>3. (CHOOSE j \in DOMAIN t.lookups : t.lookups[j].field = t.lookups[i].field) = i
    BY <2>2
  <2> QED
    BY <2>1, <2>3, NamedIn
<1>4. ASSUME NEW s, s = Compiler!TableSchema(t)
      PROVE  /\ s.fieldOrder = F
             /\ DOMAIN s.kinds = Compiler!ToSet(F)
             /\ DOMAIN s.lookups = Compiler!ToSet(L)
             /\ \A f \in Compiler!ToSet(F) :
                  s.kinds[f] = t.fields[CHOOSE i \in DOMAIN t.fields : t.fields[i].name = f].type
             /\ \A f \in Compiler!ToSet(L) :
                  s.lookups[f]
                    = t.lookups[CHOOSE i \in DOMAIN t.lookups : t.lookups[i].field = f].unique
  BY <1>4 DEF Compiler!TableSchema
<1>5. PICK s : s = Compiler!TableSchema(t)
  OBVIOUS
<1> HIDE DEF F, L
<1>6. \A i \in DOMAIN t.fields :
        t.fields[i].name \in DOMAIN s.kinds /\ s.kinds[t.fields[i].name] = t.fields[i].type
  <2> TAKE i \in DOMAIN t.fields
  <2>1. s.kinds[t.fields[i].name]
          = t.fields[CHOOSE j \in DOMAIN t.fields : t.fields[j].name = t.fields[i].name].type
    BY <1>2, <1>4, <1>5
  <2> QED
    BY <1>2, <1>4, <1>5, <2>1
<1>7. \A i \in DOMAIN t.lookups :
        t.lookups[i].field \in DOMAIN s.lookups
          /\ s.lookups[t.lookups[i].field] = t.lookups[i].unique
  <2> TAKE i \in DOMAIN t.lookups
  <2>1. s.lookups[t.lookups[i].field]
          = t.lookups[CHOOSE j \in DOMAIN t.lookups : t.lookups[j].field = t.lookups[i].field].unique
    BY <1>3, <1>4, <1>5
  <2> QED
    BY <1>3, <1>4, <1>5, <2>1
<1>8. s.fieldOrder = F /\ DOMAIN s.kinds = Compiler!ToSet(F) /\ DOMAIN s.lookups = Compiler!ToSet(L)
  BY <1>4, <1>5
<1> QED
  BY <1>5, <1>6, <1>7, <1>8 DEF F, L

LEMMA LoadedIs ==
  ASSUME NEW ir \in Seq(TableIr), Compiler!Loadable(ir)
  PROVE  /\ DOMAIN Compiler!Loaded(ir) = Compiler!ToSet(Compiler!TableNames(ir))
         /\ \A i \in DOMAIN ir :
              /\ ir[i] \in TableIr
              /\ ir[i].name \in DOMAIN Compiler!Loaded(ir)
              /\ Compiler!Loaded(ir)[ir[i].name] = Compiler!TableSchema(ir[i])
<1> DEFINE N == Compiler!TableNames(ir)
<1>1. Compiler!Distinct(N) /\ DOMAIN N = DOMAIN ir /\ \A i \in DOMAIN ir : N[i] = ir[i].name
  BY DEF Compiler!Loadable, Compiler!TableNames
<1>2. \A i \in DOMAIN ir : ir[i] \in TableIr
  BY ElementOfSeq, LenProperties
<1> HIDE DEF N
<1>3. /\ DOMAIN Compiler!Loaded(ir) = Compiler!ToSet(N)
      /\ \A n \in Compiler!ToSet(N) :
           Compiler!Loaded(ir)[n]
             = Compiler!TableSchema(ir[CHOOSE i \in DOMAIN ir : ir[i].name = n])
  BY DEF Compiler!Loaded, N
<1>4. ASSUME NEW i \in DOMAIN ir
      PROVE  /\ ir[i].name \in Compiler!ToSet(N)
             /\ (CHOOSE j \in DOMAIN ir : ir[j].name = ir[i].name) = i
  <2>1. \A j \in DOMAIN ir : ir[j].name = ir[i].name <=> j = i
    BY <1>1 DEF Compiler!Distinct
  <2>2. (CHOOSE j \in DOMAIN ir : ir[j].name = ir[i].name) = i
    BY <2>1
  <2> QED
    BY <1>1, <2>2, NamedIn
<1>5. \A i \in DOMAIN ir : Compiler!Loaded(ir)[ir[i].name] = Compiler!TableSchema(ir[i])
  BY <1>3, <1>4
<1> QED
  BY <1>2, <1>3, <1>4, <1>5 DEF N
(* Sorted names are a function on the first numbers. *)
LEMMA SortedIs ==
  ASSUME NEW S
  PROVE  Compiler!Sorted(S) = [k \in DOMAIN Compiler!Sorted(S) |-> Compiler!Sorted(S)[k]]
BY DEF Compiler!Sorted

LEMMA FieldsHashIs ==
  ASSUME NEW t \in TableIr, Compiler!Buildable(t)
  PROVE  Compiler!FieldsHash(Compiler!TableSchema(t)) = t.fields
<1>1. PICK s : s = Compiler!TableSchema(t)
  OBVIOUS
<1>2. s.fieldOrder = Compiler!FieldNames(t) /\ DOMAIN s.fieldOrder = DOMAIN t.fields
  BY <1>1, TableSchemaIs, TableIs
<1>3. ASSUME NEW i \in DOMAIN t.fields
      PROVE  [name |-> s.fieldOrder[i], type |-> s.kinds[s.fieldOrder[i]]] = t.fields[i]
  <2>1. s.fieldOrder[i] = t.fields[i].name
    <3>1. s.fieldOrder[i] = Compiler!FieldNames(t)[i]
      BY <1>2
    <3> QED
      BY <3>1, TableIs
  <2>2. s.kinds[t.fields[i].name] = t.fields[i].type
    BY <1>1, TableSchemaIs
  <2>3. t.fields[i] = [name |-> t.fields[i].name, type |-> t.fields[i].type]
    BY TableIs
  <2> QED
    BY <2>1, <2>2, <2>3
<1>4. Compiler!FieldsHash(s) = [i \in DOMAIN t.fields |-> t.fields[i]]
  BY <1>2, <1>3 DEF Compiler!FieldsHash
<1> QED
  BY <1>1, <1>4, TableIs

LEMMA LookupsHashIs ==
  ASSUME NEW t \in TableIr, Compiler!Buildable(t)
  PROVE  Compiler!LookupsHash(Compiler!TableSchema(t)) = t.lookups
           <=> Compiler!LookupNames(t) = Compiler!Sorted(Compiler!ToSet(Compiler!LookupNames(t)))
<1>1. PICK s : s = Compiler!TableSchema(t)
  OBVIOUS
<1>2. PICK order : order = Compiler!Sorted(Compiler!ToSet(Compiler!LookupNames(t)))
  OBVIOUS
<1>3. PICK L : L = Compiler!LookupNames(t)
  OBVIOUS
<1>4. DOMAIN s.lookups = Compiler!ToSet(L) /\ order = [k \in DOMAIN order |-> order[k]]
  BY <1>1, <1>2, <1>3, TableSchemaIs, SortedIs
<1>5. PICK hash : hash = [i \in DOMAIN order |-> [field |-> order[i], unique |-> s.lookups[order[i]]]]
  OBVIOUS
<1>6. Compiler!LookupsHash(s) = hash
  BY <1>2, <1>3, <1>4, <1>5 DEF Compiler!LookupsHash
<1>7. DOMAIN L = DOMAIN t.lookups /\ \A i \in DOMAIN t.lookups :
        /\ L[i] = t.lookups[i].field
        /\ t.lookups[i] = [field |-> L[i], unique |-> s.lookups[L[i]]]
  <2>1. DOMAIN L = DOMAIN t.lookups
    BY <1>3, TableIs
  <2> SUFFICES ASSUME NEW i \in DOMAIN t.lookups
               PROVE  /\ L[i] = t.lookups[i].field
                      /\ t.lookups[i] = [field |-> L[i], unique |-> s.lookups[L[i]]]
    BY <2>1
  <2>2. L[i] = t.lookups[i].field
    <3>1. L[i] = Compiler!LookupNames(t)[i]
      BY <1>3
    <3> QED
      BY <3>1, TableIs
  <2>3. s.lookups[t.lookups[i].field] = t.lookups[i].unique
    BY <1>1, TableSchemaIs
  <2>4. t.lookups[i] = [field |-> t.lookups[i].field, unique |-> t.lookups[i].unique]
    BY TableIs
  <2> QED
    BY <2>2, <2>3, <2>4
<1>8. L = [i \in DOMAIN t.lookups |-> L[i]]
  BY <1>3, <1>7 DEF Compiler!LookupNames
<1>9. t.lookups = [i \in DOMAIN t.lookups |-> t.lookups[i]]
  BY TableIs
<1>10. ASSUME hash = t.lookups
       PROVE  L = order
  <2>1. DOMAIN order = DOMAIN t.lookups
    BY <1>5, <1>10
  <2>2. ASSUME NEW i \in DOMAIN t.lookups
        PROVE  order[i] = L[i]
    <3>1. t.lookups[i] = [field |-> order[i], unique |-> s.lookups[order[i]]]
      BY <1>5, <1>10, <2>1
    <3>2. [field |-> order[i], unique |-> s.lookups[order[i]]].field = order[i]
      OBVIOUS
    <3>3. t.lookups[i].field = order[i]
      BY <3>1, <3>2
    <3> QED
      BY <1>7, <3>3
  <2> QED
    BY <1>4, <1>8, <2>1, <2>2
<1>11. ASSUME L = order
       PROVE  hash = t.lookups
  BY <1>5, <1>7, <1>9, <1>11
<1> QED
  BY <1>1, <1>2, <1>3, <1>6, <1>10, <1>11

LEMMA HashesAgreeAt ==
  ASSUME CompilerInv
  PROVE  Compiler!HashesAgree
<1> SUFFICES ASSUME pc = "done", DOMAIN db # {}
             PROVE  (Compiler!IrHash(tables) = Compiler!DatabaseHash(db)) <=>
                      (/\ Compiler!TableNames(tables) = Compiler!Sorted(DOMAIN db)
                       /\ \A i \in DOMAIN tables :
                            Compiler!LookupNames(tables[i])
                              = Compiler!Sorted(Compiler!ToSet(Compiler!LookupNames(tables[i]))))
  BY DEF Compiler!HashesAgree
<1>1. /\ tables \in Seq(TableIr) /\ db = Compiler!Loaded(tables) /\ Compiler!Loadable(tables)
  BY DEF CompilerInv, CompilerTypes, CompilerResult, Compiler!NoSchema
<1>2. \A i \in DOMAIN tables : tables[i] \in TableIr /\ Compiler!Buildable(tables[i])
  BY <1>1, LoadedIs DEF Compiler!Loadable
<1>3. PICK list : list = Compiler!Sorted(DOMAIN db)
  OBVIOUS
<1>4. list = [k \in DOMAIN list |-> list[k]]
  BY <1>3, SortedIs
<1>5. PICK N : N = Compiler!TableNames(tables)
  OBVIOUS
<1>6. N = [i \in DOMAIN tables |-> tables[i].name]
  BY <1>5 DEF Compiler!TableNames
<1>7. PICK ir : ir = [i \in DOMAIN tables |->
                        <<tables[i].name, tables[i].fields, tables[i].lookups>>]
  OBVIOUS
<1>8. PICK hash : hash = [i \in DOMAIN list |->
                            <<list[i], Compiler!FieldsHash(db[list[i]]),
                              Compiler!LookupsHash(db[list[i]])>>]
  OBVIOUS
<1>9. Compiler!IrHash(tables) = ir /\ Compiler!DatabaseHash(db) = hash
  BY <1>3, <1>7, <1>8 DEF Compiler!IrHash, Compiler!DatabaseHash
<1>10. ASSUME NEW i \in DOMAIN tables
       PROVE  /\ Compiler!FieldsHash(db[tables[i].name]) = tables[i].fields
              /\ Compiler!LookupsHash(db[tables[i].name]) = tables[i].lookups
                   <=> Compiler!LookupNames(tables[i])
                         = Compiler!Sorted(Compiler!ToSet(Compiler!LookupNames(tables[i])))
  <2>1. db[tables[i].name] = Compiler!TableSchema(tables[i])
    BY <1>1, LoadedIs
  <2> QED
    BY <1>2, <2>1, FieldsHashIs, LookupsHashIs
<1>11. ASSUME ir = hash
       PROVE  N = list /\ \A i \in DOMAIN tables :
                Compiler!LookupNames(tables[i])
                  = Compiler!Sorted(Compiler!ToSet(Compiler!LookupNames(tables[i])))
  <2>1. DOMAIN tables = DOMAIN list
    BY <1>7, <1>8, <1>11
  <2>2. ASSUME NEW i \in DOMAIN tables
        PROVE  /\ list[i] = tables[i].name
               /\ Compiler!LookupsHash(db[list[i]]) = tables[i].lookups
    <3>1. ir[i] = <<tables[i].name, tables[i].fields, tables[i].lookups>>
      BY <1>7
    <3>2. hash[i] = <<list[i], Compiler!FieldsHash(db[list[i]]),
                      Compiler!LookupsHash(db[list[i]])>>
      BY <1>8, <2>1
    <3> QED
      BY <1>11, <3>1, <3>2
  <2>3. N = list
    BY <1>4, <1>6, <2>1, <2>2
  <2> QED
    BY <1>10, <2>2, <2>3
<1>12. ASSUME N = list,
              \A i \in DOMAIN tables :
                Compiler!LookupNames(tables[i])
                  = Compiler!Sorted(Compiler!ToSet(Compiler!LookupNames(tables[i])))
       PROVE  ir = hash
  <2>1. DOMAIN list = DOMAIN tables /\ \A i \in DOMAIN tables : list[i] = tables[i].name
    BY <1>6, <1>12
  <2>2. \A i \in DOMAIN tables :
          /\ Compiler!FieldsHash(db[list[i]]) = tables[i].fields
          /\ Compiler!LookupsHash(db[list[i]]) = tables[i].lookups
    BY <1>10, <1>12, <2>1
  <2> QED
    BY <1>7, <1>8, <2>1, <2>2
<1> QED
  BY <1>3, <1>5, <1>9, <1>11, <1>12

(* Tables that were read have names of the text. *)
NamesInv ==
  /\ pc = "items" => table.name \in Compiler!Identifiers
  /\ \A i \in DOMAIN tables : tables[i].name \in Compiler!Identifiers

LEMMA NoNames ==
  ASSUME Compiler!Init
  PROVE  NamesInv
<1>1. pc = "schema" /\ DOMAIN tables = {}
  BY DEF Compiler!Init
<1> QED
  BY <1>1 DEF NamesInv

LEMMA NamesRead ==
  ASSUME CompilerInv, NamesInv, Compiler!Compile
  PROVE  NamesInv'
<1>1. tables \in Seq(TableIr) /\ table \in TableIr
  BY DEF CompilerInv, CompilerTypes
<1>2. CASE Compiler!ParseSchema
  BY <1>2 DEF NamesInv, Compiler!ParseSchema, Compiler!Fail, Compiler!Read
<1>3. CASE Compiler!ParseTableList
  <2>1. tables' = tables
    BY <1>3 DEF Compiler!ParseTableList, Compiler!Fail, Compiler!Read
  <2>2. pc' = "items" => table'.name \in Compiler!Identifiers
    <3>1. CASE /\ Compiler!IsIdent(Compiler!Peek(1))
               /\ table' = [Compiler!NoTable EXCEPT !.name = Compiler!Peek(1)]
      BY <3>1 DEF Compiler!IsIdent, Compiler!NoTable
    <3>2. CASE pc' # "items"
      BY <3>2
    <3> QED
      BY <1>3, <3>1, <3>2 DEF Compiler!ParseTableList, Compiler!Fail, Compiler!Read
  <2> QED
    BY <2>1, <2>2 DEF NamesInv
<1>4. CASE Compiler!ParseLookup \/ Compiler!ParseField
  <2>1. pc = "items" /\ tables' = tables
    BY <1>4 DEF Compiler!ParseLookup, Compiler!ParseField
  <2>2. table'.name = table.name
    <3>1. \A x : [table EXCEPT !.lookups = x].name = table.name
      BY <1>1 DEF TableIr
    <3>2. \A x : [table EXCEPT !.fields = x].name = table.name
      BY <1>1 DEF TableIr
    <3>3. CASE Compiler!ParseLookup
      <4>1. PICK x : table' = [table EXCEPT !.lookups = x]
        BY <3>3 DEF Compiler!ParseLookup
      <4> QED
        BY <3>1, <4>1
    <3>4. CASE Compiler!ParseField
      <4>1. PICK x : table' = [table EXCEPT !.fields = x]
        BY <3>4 DEF Compiler!ParseField
      <4> QED
        BY <3>2, <4>1
    <3> QED
      BY <1>4, <3>3, <3>4
  <2> QED
    BY <2>1, <2>2 DEF NamesInv
<1>5. CASE Compiler!EndTable
  <2>1. pc = "items" /\ pc' = "tables" /\ tables' = Append(tables, table)
    BY <1>5 DEF Compiler!EndTable, Compiler!Read
  <2>2. /\ DOMAIN tables' = 1..(Len(tables) + 1) /\ Len(tables) \in Nat
        /\ DOMAIN tables = 1..Len(tables) /\ tables'[Len(tables) + 1] = table
        /\ \A i \in DOMAIN tables : tables'[i] = tables[i]
    BY <1>1, <2>1, AppendProperties, LenProperties
  <2>3. \A i \in DOMAIN tables' : i \in DOMAIN tables \/ i = Len(tables) + 1
    BY <2>2
  <2> QED
    BY <2>1, <2>2, <2>3 DEF NamesInv
<1>6. CASE Compiler!BadItem \/ Compiler!Validate \/ Compiler!Load
  BY <1>6 DEF NamesInv, Compiler!BadItem, Compiler!Validate, Compiler!Load, Compiler!Fail
<1> QED
  BY <1>2, <1>3, <1>4, <1>5, <1>6 DEF Compiler!Compile

(* A name in snake case passes is_snake_case. *)
LEMMA SnakeCaseIs ==
  ASSUME NEW word \in Compiler!Identifiers, Compiler!InSnakeCase(word)
  PROVE  Compiler!IsSnakeCase(word)
<1>1. PICK letters \in Seq({"lower", "upper", "digit", "underscore"}) :
        letters = Letters[word] /\ letters # <<>> /\ letters[1] # "digit"
  BY LettersAssumption
<1>2. Len(letters) \in Nat /\ DOMAIN letters = 1..Len(letters) /\ Len(letters) >= 1
  BY <1>1, LenProperties, EmptySeq
<1>3. letters[1] \in {"lower", "upper", "digit", "underscore"} /\ letters[1] # "upper"
  <2>1. 1 \in DOMAIN letters
    BY <1>2
  <2>2. letters[1] \in {"lower", "upper", "digit", "underscore"}
    BY <2>1, ElementOfSeq, <1>2
  <2> QED
    BY <1>1, <2>1, <2>2 DEF Compiler!InSnakeCase
<1>4. \A i \in 2..Len(letters) : i \in DOMAIN letters /\ i > 1
  BY <1>2
<1>5. \A i \in 2..Len(letters) : ~(letters[i - 1] = "underscore" /\ letters[i] = "underscore")
  BY <1>1, <1>4 DEF Compiler!InSnakeCase
<1> QED
  BY <1>1, <1>3, <1>5 DEF Compiler!IsSnakeCase

(* What the compiler and what the core schema ask of a table, together. *)
InCase(t) ==
  Compiler!InSnakeCase(t.name) /\ \A i \in DOMAIN t.fields : Compiler!InSnakeCase(t.fields[i].name)

Accepted(t) ==
  Compiler!ValidTable(t) /\ Compiler!Buildable(t) /\ Compiler!Addable(Compiler!TableSchema(t))

LEMMA TableRulesAre ==
  ASSUME NEW t \in TableIr
  PROVE  /\ Accepted(t) => Compiler!TableRules(t)
         /\ Compiler!TableRules(t) /\ InCase(t) /\ t.name \in Compiler!Identifiers => Accepted(t)
<1>1. PICK F : F = Compiler!FieldNames(t)
  OBVIOUS
<1>2. PICK L : L = Compiler!LookupNames(t)
  OBVIOUS
<1>3. /\ DOMAIN F = DOMAIN t.fields /\ DOMAIN L = DOMAIN t.lookups
      /\ \A i \in DOMAIN t.fields : F[i] = t.fields[i].name
      /\ \A i \in DOMAIN t.lookups : L[i] = t.lookups[i].field
  BY <1>1, <1>2, TableIs DEF Compiler!FieldNames, Compiler!LookupNames
<1>4. /\ Compiler!Distinct(F)
           <=> \A k, l \in DOMAIN t.fields : t.fields[k].name = t.fields[l].name => k = l
      /\ Compiler!Distinct(L)
           <=> \A k, l \in DOMAIN t.lookups : t.lookups[k].field = t.lookups[l].field => k = l
  BY <1>3 DEF Compiler!Distinct
<1>5. Compiler!ToSet(L) \subseteq Compiler!ToSet(F)
        <=> \A k \in DOMAIN t.lookups : \E l \in DOMAIN t.fields :
              t.fields[l].name = t.lookups[k].field
  <2>1. Compiler!ToSet(L) \subseteq Compiler!ToSet(F)
          <=> \A k \in DOMAIN L : L[k] \in Compiler!ToSet(F)
    BY NamedIn
  <2>2. \A k \in DOMAIN t.lookups :
          L[k] \in Compiler!ToSet(F)
            <=> \E l \in DOMAIN t.fields : t.fields[l].name = t.lookups[k].field
    <3> TAKE k \in DOMAIN t.lookups
    <3>1. L[k] \in Compiler!ToSet(F) <=> \E l \in DOMAIN F : F[l] = L[k]
      BY NamedIn
    <3> QED
      BY <1>3, <3>1
  <2> QED
    BY <1>3, <2>1, <2>2
<1>6. \A k \in DOMAIN t.fields : F[k] \in Compiler!ToSet(F)
  BY <1>3, NamedIn
<1>7. \A i \in DOMAIN t.fields :
        t.fields[i] = [name |-> t.fields[i].name, type |-> t.fields[i].type]
  BY TableIs
<1>8. ASSUME Compiler!TableRules(t), InCase(t), t.name \in Compiler!Identifiers
      PROVE  Accepted(t)
  <2>1. PICK k \in DOMAIN t.fields : t.fields[k] = [name |-> "id", type |-> "id"]
    BY <1>8 DEF Compiler!TableRules
  <2>2. /\ Compiler!Distinct(F) /\ Compiler!Distinct(L)
        /\ Compiler!ToSet(L) \subseteq Compiler!ToSet(F)
        /\ \A i \in DOMAIN t.fields : ~Compiler!IsReserved(t.fields[i].name)
    BY <1>4, <1>5, <1>8 DEF Compiler!TableRules
  <2>3. t.fields[k].name = "id" /\ t.fields[k].type = "id"
    BY <2>1
  <2>4. "id" \in Compiler!ToSet(F)
    BY <1>3, <1>6, <2>3
  <2>5. Compiler!ValidTable(t)
    <3>1. /\ t.name \in Compiler!Identifiers
          /\ \A i \in DOMAIN t.fields : t.fields[i].name \in Compiler!Identifiers
      <4>1. t.fields \in Seq(FieldIr)
        BY DEF TableIr
      <4>2. \A i \in DOMAIN t.fields : t.fields[i] \in FieldIr
        BY <4>1, LenProperties, ElementOfSeq
      <4> QED
        BY <1>8, <4>2 DEF FieldIr
    <3>2. /\ Compiler!IsSnakeCase(t.name)
          /\ \A i \in DOMAIN t.fields : Compiler!IsSnakeCase(t.fields[i].name)
      BY <1>8, <3>1, SnakeCaseIs DEF InCase
    <3> QED
      BY <1>1, <1>2, <2>2, <2>4, <3>2 DEF Compiler!ValidTable
  <2>6. \A n \in Compiler!ToSet(F) \cup Compiler!ToSet(L) : ~Compiler!IsReserved(n)
    <3>1. \A n \in Compiler!ToSet(F) : ~Compiler!IsReserved(n)
      BY <1>3, <2>2, NamedIn
    <3> QED
      BY <2>2, <3>1
  <2>7. Compiler!Buildable(t)
    BY <1>1, <1>2, <2>2, <2>6 DEF Compiler!Buildable
  <2>8. PICK s : s = Compiler!TableSchema(t)
    OBVIOUS
  <2>9. DOMAIN s.kinds = Compiler!ToSet(F) /\ DOMAIN s.lookups = Compiler!ToSet(L)
    BY <1>1, <1>2, <2>7, <2>8, TableSchemaIs
  <2>10. s.kinds["id"] = "id"
    BY <2>3, <2>7, <2>8, TableSchemaIs
  <2> QED
    BY <2>2, <2>4, <2>5, <2>7, <2>8, <2>9, <2>10 DEF Accepted, Compiler!Addable
<1>9. ASSUME Accepted(t)
      PROVE  Compiler!TableRules(t)
  <2>1. PICK s : s = Compiler!TableSchema(t)
    OBVIOUS
  <2>2. DOMAIN s.kinds = Compiler!ToSet(F) /\ "id" \in DOMAIN s.kinds /\ s.kinds["id"] = "id"
    BY <1>1, <1>9, <2>1, TableSchemaIs DEF Accepted, Compiler!Addable
  <2>3. PICK k \in DOMAIN F : F[k] = "id"
    BY <2>2, NamedIn
  <2>4. t.fields[k].name = "id" /\ k \in DOMAIN t.fields
    BY <1>3, <2>3
  <2>5. s.kinds[t.fields[k].name] = t.fields[k].type
    BY <1>9, <2>1, <2>4, TableSchemaIs DEF Accepted
  <2>6. t.fields[k] = [name |-> "id", type |-> "id"]
    BY <1>7, <2>2, <2>4, <2>5
  <2>7. /\ Compiler!Distinct(F) /\ Compiler!Distinct(L)
        /\ Compiler!ToSet(L) \subseteq Compiler!ToSet(F)
        /\ \A i \in DOMAIN t.fields : ~Compiler!IsReserved(t.fields[i].name)
    BY <1>1, <1>2, <1>9 DEF Accepted, Compiler!ValidTable
  <2> QED
    BY <1>4, <1>5, <2>4, <2>6, <2>7 DEF Compiler!TableRules
<1> QED
  BY <1>8, <1>9

LEMMA RulesAre ==
  ASSUME NEW ir \in Seq(TableIr), \A i \in DOMAIN ir : ir[i].name \in Compiler!Identifiers
  PROVE  /\ Compiler!Valid(ir) /\ Compiler!Loadable(ir) => Compiler!RulesKept(ir)
         /\ Compiler!RulesKept(ir) /\ Compiler!NamesInSnakeCase(ir)
              => Compiler!Valid(ir) /\ Compiler!Loadable(ir)
<1>1. \A i \in DOMAIN ir : ir[i] \in TableIr
  BY ElementOfSeq, LenProperties
<1>2. Compiler!Distinct(Compiler!TableNames(ir))
        <=> \A i, j \in DOMAIN ir : ir[i].name = ir[j].name => i = j
  BY DEF Compiler!Distinct, Compiler!TableNames
<1>3. \A i \in DOMAIN ir :
        /\ Accepted(ir[i]) => Compiler!TableRules(ir[i])
        /\ Compiler!TableRules(ir[i]) /\ InCase(ir[i]) => Accepted(ir[i])
  <2> TAKE i \in DOMAIN ir
  <2>1. PICK t \in TableIr : t = ir[i]
    BY <1>1
  <2>2. t.name \in Compiler!Identifiers
    BY <2>1
  <2>3. /\ Accepted(t) => Compiler!TableRules(t)
        /\ Compiler!TableRules(t) /\ InCase(t) => Accepted(t)
    BY <2>2, TableRulesAre
  <2> QED
    BY <2>1, <2>3
<1>4. ASSUME Compiler!Valid(ir), Compiler!Loadable(ir)
      PROVE  Compiler!RulesKept(ir)
  <2>1. \A i \in DOMAIN ir : Accepted(ir[i])
    BY <1>4 DEF Accepted, Compiler!Valid, Compiler!Loadable
  <2> QED
    BY <1>2, <1>3, <1>4, <2>1 DEF Compiler!RulesKept, Compiler!Valid
<1>5. ASSUME Compiler!RulesKept(ir), Compiler!NamesInSnakeCase(ir)
      PROVE  Compiler!Valid(ir) /\ Compiler!Loadable(ir)
  <2>1. \A i \in DOMAIN ir : InCase(ir[i])
    BY <1>5 DEF InCase, Compiler!NamesInSnakeCase
  <2>2. \A i \in DOMAIN ir : Accepted(ir[i])
    BY <1>3, <1>5, <2>1 DEF Compiler!RulesKept
  <2> QED
    BY <1>2, <1>5, <2>2
       DEF Accepted, Compiler!RulesKept, Compiler!Valid, Compiler!Loadable
<1> QED
  BY <1>4, <1>5

LEMMA LoadsExactlyAt ==
  ASSUME CompilerInv, NamesInv
  PROVE  Compiler!LoadsExactly
<1> SUFFICES ASSUME pc = "done", outcome # "error"
             PROVE  /\ Compiler!IsLoaded => Compiler!RulesKept(tables)
                    /\ Compiler!RulesKept(tables) /\ Compiler!NamesInSnakeCase(tables)
                         => Compiler!IsLoaded
  BY DEF Compiler!LoadsExactly
<1>1. /\ tables \in Seq(TableIr) /\ outcome \in {"invalid", "compiled"}
      /\ \A i \in DOMAIN tables : tables[i].name \in Compiler!Identifiers
  BY DEF CompilerInv, CompilerTypes, CompilerResult, NamesInv
<1>2. /\ outcome = "compiled" => Compiler!Valid(tables)
      /\ outcome = "invalid" => ~Compiler!Valid(tables)
      /\ outcome = "compiled" /\ Compiler!Loadable(tables) => db = Compiler!Loaded(tables)
      /\ ~Compiler!Loadable(tables) => db = Compiler!NoSchema
  BY DEF CompilerInv, CompilerResult
<1>3. ASSUME Compiler!RulesKept(tables), Compiler!NamesInSnakeCase(tables)
      PROVE  Compiler!IsLoaded
  <2>1. Compiler!Valid(tables) /\ Compiler!Loadable(tables)
    BY <1>1, <1>3, RulesAre
  <2>2. outcome = "compiled" /\ db = Compiler!Loaded(tables)
    BY <1>1, <1>2, <2>1
  <2> QED
    BY <1>1, <2>1, <2>2, LoadedIs DEF Compiler!IsLoaded
<1>4. ASSUME outcome = "compiled",
             DOMAIN db = Compiler!ToSet(Compiler!TableNames(tables))
      PROVE  Compiler!RulesKept(tables)
  <2>1. CASE Compiler!Loadable(tables)
    BY <1>1, <1>2, <1>4, <2>1, RulesAre
  <2>2. CASE ~Compiler!Loadable(tables)
    <3>1. DOMAIN db = {}
      BY <1>2, <2>2 DEF Compiler!NoSchema
    <3>2. DOMAIN Compiler!TableNames(tables) = DOMAIN tables
      BY DEF Compiler!TableNames
    <3>3. DOMAIN tables = {}
      BY <1>4, <3>1, <3>2, NamedIn
    <3> QED
      BY <3>3 DEF Compiler!RulesKept
  <2> QED
    BY <2>1, <2>2
<1> QED
  BY <1>3, <1>4 DEF Compiler!IsLoaded

-----------------------------------------------------------------------------
(* Tokens that were read, and tokens the tables are written with.          *)

(* The component counts as everyone does. *)
LEMMA CompilerCounts == \A S : Compiler!Cardinality(S) = Cardinality(S)
BY DEF Compiler!Cardinality, Cardinality

LEMMA TableSizeType ==
  ASSUME NEW t \in TableIr
  PROVE  Compiler!TableSize(t) \in Nat
<1>1. Len(t.fields) \in Nat /\ Len(t.lookups) \in Nat /\ DOMAIN t.lookups = 1..Len(t.lookups)
  BY LenProperties DEF TableIr
<1>2. Compiler!Cardinality(Compiler!Flags(t)) \in Nat
  <2>1. PICK a \in Int, l \in Int : a = 1 /\ l = Len(t.lookups)
    BY <1>1
  <2>2. IsFiniteSet(a..l)
    BY FS_Interval
  <2>3. Compiler!Flags(t) \subseteq a..l
    BY <1>1, <2>1 DEF Compiler!Flags
  <2> QED
    BY <2>2, <2>3, FS_Subset, FS_CardinalityType, CompilerCounts
<1>3. PICK a \in Nat, b \in Nat, c \in Nat :
        a = Len(t.fields) /\ b = Len(t.lookups) /\ c = Compiler!Cardinality(Compiler!Flags(t))
  BY <1>1, <1>2
<1>4. Compiler!TableSize(t) = 3 + 2 * a + 2 * b + c
  BY <1>3 DEF Compiler!TableSize
<1> QED
  BY <1>4

Sizes(ir) == [k \in DOMAIN ir |-> Compiler!TableSize(ir[k])]

LEMMA SizeIs ==
  ASSUME NEW ir \in Seq(TableIr)
  PROVE  \E f \in [0..Len(ir) -> Nat] :
           Sums(f, 0, Sizes(ir), Len(ir)) /\ Compiler!Size(ir) = f[Len(ir)]
<1> DEFINE n       == Len(ir)
           w       == Sizes(ir)
           step(g) == [k \in 0..n |-> IF k = 0 THEN 0
                                      ELSE g[k - 1] + Compiler!TableSize(ir[k])]
<1>1. n \in Nat /\ DOMAIN ir = 1..n
  BY LenProperties
<1>2. \A k \in 1..n : w[k] = Compiler!TableSize(ir[k]) /\ w[k] \in Nat
  BY <1>1, ElementOfSeq, TableSizeType DEF Sizes
<1> HIDE DEF n, w
<1>3. PICK f \in [0..n -> Nat] : Sums(f, 0, w, n)
  BY <1>1, <1>2, SumsExist
<1>4. f = step(f)
  <2>1. ASSUME NEW k \in 0..n
        PROVE  f[k] = IF k = 0 THEN 0 ELSE f[k - 1] + Compiler!TableSize(ir[k])
    <3>1. CASE k = 0
      BY <1>3, <3>1 DEF Sums
    <3>2. CASE k # 0
      <4>1. k \in 1..n
        BY <1>1, <3>2
      <4>2. f[k] = f[k - 1] + w[k]
        BY <1>3, <4>1 DEF Sums
      <4> QED
        BY <1>2, <3>2, <4>1, <4>2
    <3> QED
      BY <3>1, <3>2
  <2>2. f = [k \in 0..n |-> f[k]]
    BY <1>3
  <2> QED
    BY <2>1, <2>2
<1> DEFINE c == CHOOSE g : g = step(g)
<1>5. c = step(c)
  BY <1>4
<1>6. Compiler!Size(ir) = c[n]
  BY DEF Compiler!Size, n
<1> HIDE DEF c
<1>7. Sums(c, 0, w, n)
  <2>1. \A k \in 0..n : c[k] = IF k = 0 THEN 0 ELSE c[k - 1] + Compiler!TableSize(ir[k])
    BY <1>5
  <2>2. c[0] = 0
    BY <1>1, <2>1
  <2>3. ASSUME NEW k \in 1..n
        PROVE  c[k] = c[k - 1] + w[k]
    <3>1. k \in 0..n /\ k # 0
      BY <1>1
    <3> QED
      BY <1>2, <2>1, <3>1
  <2> QED
    BY <2>2, <2>3 DEF Sums
<1>8. c[n] = f[n]
  BY <1>1, <1>3, <1>7, SumsUnique
<1> QED
  BY <1>3, <1>6, <1>8 DEF n, w

LEMMA SizeEmpty == Compiler!Size(<<>>) = 0
<1>1. <<>> \in Seq(TableIr) /\ Len(<<>>) = 0
  BY EmptySeq
<1> QED
  BY <1>1, SizeIs DEF Sums

LEMMA SizeAppend ==
  ASSUME NEW ir \in Seq(TableIr), NEW t \in TableIr
  PROVE  /\ Compiler!Size(ir) \in Nat
         /\ Compiler!Size(Append(ir, t)) = Compiler!Size(ir) + Compiler!TableSize(t)
<1>1. PICK n \in Nat : n = Len(ir) /\ DOMAIN ir = 1..n
  BY LenProperties
<1>2. PICK longer : longer = Append(ir, t)
  OBVIOUS
<1>3. /\ longer \in Seq(TableIr) /\ Len(longer) = n + 1 /\ longer[n + 1] = t
      /\ DOMAIN longer = 1..(n + 1)
      /\ \A k \in 1..n : longer[k] = ir[k]
  BY <1>1, <1>2, AppendProperties, LenProperties
<1>4. PICK f \in [0..n -> Nat] : Sums(f, 0, Sizes(ir), n) /\ Compiler!Size(ir) = f[n]
  BY <1>1, SizeIs
<1>5. PICK g \in [0..(n + 1) -> Nat] :
        Sums(g, 0, Sizes(longer), n + 1) /\ Compiler!Size(longer) = g[n + 1]
  BY <1>3, SizeIs
<1>6. Sums(g, 0, Sizes(longer), n)
  <2>1. \A k \in 1..n : k \in 1..(n + 1)
    OBVIOUS
  <2> QED
    BY <1>5, <2>1 DEF Sums
<1>7. \A k \in 1..n : Sizes(ir)[k] = Sizes(longer)[k]
  BY <1>1, <1>3 DEF Sizes
<1>8. g[n] = f[n]
  <2>1. Sums(f, 0, Sizes(longer), n)
    BY <1>4, <1>7 DEF Sums
  <2>2. PICK w, b : w = Sizes(longer) /\ b = 0
    OBVIOUS
  <2>3. Sums(g, b, w, n) /\ Sums(f, b, w, n)
    BY <1>6, <2>1, <2>2
  <2> QED
    BY <2>3, SumsUnique
<1>9. g[n + 1] = g[n] + Sizes(longer)[n + 1]
  <2>1. n + 1 \in 1..(n + 1) /\ (n + 1) - 1 = n
    OBVIOUS
  <2> QED
    BY <1>5, <2>1 DEF Sums
<1>10. Sizes(longer)[n + 1] = Compiler!TableSize(t)
  BY <1>3 DEF Sizes
<1> QED
  BY <1>2, <1>4, <1>5, <1>8, <1>9, <1>10

(* The tokens before a place, semicolons aside. *)
TokensTo(p) == {i \in 1..p : source[i] # "Semicolon"}

LEMMA CountNext ==
  ASSUME NEW p \in Nat
  PROVE  /\ Cardinality(TokensTo(p)) \in Nat
         /\ source[p + 1] = "Semicolon"
              => Cardinality(TokensTo(p + 1)) = Cardinality(TokensTo(p))
         /\ source[p + 1] # "Semicolon"
              => Cardinality(TokensTo(p + 1)) = Cardinality(TokensTo(p)) + 1
<1>1. IsFiniteSet(TokensTo(p)) /\ Cardinality(TokensTo(p)) \in Nat
  <2>1. IsFiniteSet(1..p) /\ TokensTo(p) \subseteq 1..p
    BY FS_Interval DEF TokensTo
  <2> QED
    BY <2>1, FS_Subset, FS_CardinalityType
<1>2. 1..(p + 1) = (1..p) \cup {p + 1} /\ p + 1 \notin 1..p
  OBVIOUS
<1>3. ASSUME source[p + 1] = "Semicolon"
      PROVE  TokensTo(p + 1) = TokensTo(p)
  BY <1>2, <1>3 DEF TokensTo
<1>4. ASSUME source[p + 1] # "Semicolon"
      PROVE  Cardinality(TokensTo(p + 1)) = Cardinality(TokensTo(p)) + 1
  <2>1. TokensTo(p + 1) = TokensTo(p) \cup {p + 1} /\ p + 1 \notin TokensTo(p)
    BY <1>2, <1>4 DEF TokensTo
  <2> QED
    BY <1>1, <2>1, FS_AddElement
<1> QED
  BY <1>1, <1>3, <1>4

(* Up to three tokens that are no semicolons. *)
LEMMA CountTokens ==
  ASSUME NEW p \in Nat, NEW n \in 1..3, \A i \in 1..n : source[p + i] # "Semicolon"
  PROVE  Cardinality(TokensTo(p + n)) = Cardinality(TokensTo(p)) + n
<1>1. Cardinality(TokensTo(p)) \in Nat
  BY CountNext
<1>2. Cardinality(TokensTo(p + 1)) = Cardinality(TokensTo(p)) + 1
  BY CountNext
<1>3. n >= 2 => Cardinality(TokensTo(p + 2)) = Cardinality(TokensTo(p)) + 2
  <2>1. p + 1 \in Nat /\ (p + 1) + 1 = p + 2
    OBVIOUS
  <2>2. n >= 2 => source[p + 2] # "Semicolon"
    OBVIOUS
  <2>3. n >= 2 => Cardinality(TokensTo(p + 2)) = Cardinality(TokensTo(p + 1)) + 1
    BY <2>1, <2>2, CountNext
  <2> QED
    BY <1>1, <1>2, <2>3
<1>4. n = 3 => Cardinality(TokensTo(p + 3)) = Cardinality(TokensTo(p)) + 3
  <2>1. p + 2 \in Nat /\ (p + 2) + 1 = p + 3
    OBVIOUS
  <2>2. n = 3 => source[p + 3] # "Semicolon"
    OBVIOUS
  <2>3. n = 3 => Cardinality(TokensTo(p + 3)) = Cardinality(TokensTo(p + 2)) + 1
    BY <2>1, <2>2, CountNext
  <2> QED
    BY <1>1, <1>3, <2>3
<1>5. n = 1 \/ n = 2 \/ n = 3
  OBVIOUS
<1> QED
  BY <1>2, <1>3, <1>4, <1>5

(* A declaration of n tokens, with or without a semicolon. *)
LEMMA CountDeclaration ==
  ASSUME CompilerTypes, NEW n \in {2, 3}, pos + n <= Len(source),
         \A i \in 1..n : source[pos + i] # "Semicolon"
  PROVE  Cardinality(TokensTo(Compiler!Consumed(n))) = Cardinality(TokensTo(pos)) + n
<1>1. pos \in Nat /\ n \in 1..3 /\ Len(source) \in Nat
  BY LenProperties DEF CompilerTypes
<1>2. Cardinality(TokensTo(pos + n)) = Cardinality(TokensTo(pos)) + n
  BY <1>1, CountTokens
<1>3. PICK k \in Nat :
        /\ Compiler!Consumed(n) = pos + k
        /\ \/ k = n
           \/ k = n + 1 /\ source[pos + k] = "Semicolon"
  BY ConsumedIs
<1>4. CASE k = n
  BY <1>2, <1>3, <1>4
<1>5. CASE k = n + 1 /\ source[pos + k] = "Semicolon"
  <2>1. pos + n \in Nat /\ pos + k = (pos + n) + 1
    BY <1>1, <1>5
  <2>2. source[(pos + n) + 1] = "Semicolon"
    BY <1>5, <2>1
  <2>3. Cardinality(TokensTo((pos + n) + 1)) = Cardinality(TokensTo(pos + n))
    BY <2>1, <2>2, CountNext
  <2> QED
    BY <1>2, <1>3, <2>1, <2>3
<1> QED
  BY <1>3, <1>4, <1>5

(* What a declaration adds to a table. *)
LEMMA TableSizeGrows ==
  ASSUME NEW t \in TableIr
  PROVE  /\ \A f \in FieldIr :
              Compiler!TableSize([t EXCEPT !.fields = Append(@, f)]) = Compiler!TableSize(t) + 2
         /\ \A l \in LookupIr :
              Compiler!TableSize([t EXCEPT !.lookups = Append(@, l)])
                = Compiler!TableSize(t) + 2 + (IF l.unique THEN 1 ELSE 0)
<1>1. /\ t.fields \in Seq(FieldIr) /\ t.lookups \in Seq(LookupIr)
      /\ DOMAIN t.lookups = 1..Len(t.lookups)
  BY LenProperties DEF TableIr
<1>2. PICK a \in Nat, b \in Nat : a = Len(t.fields) /\ b = Len(t.lookups)
  BY <1>1, LenProperties
<1>3. IsFiniteSet(Compiler!Flags(t)) /\ Cardinality(Compiler!Flags(t)) \in Nat
  <2>1. IsFiniteSet(1..Len(t.lookups))
    BY <1>1, <1>2, FS_Interval
  <2>2. Compiler!Flags(t) \subseteq 1..Len(t.lookups)
    BY <1>1 DEF Compiler!Flags
  <2> QED
    BY <2>1, <2>2, FS_Subset, FS_CardinalityType
<1>4. PICK c \in Nat : c = Cardinality(Compiler!Flags(t))
  BY <1>3
<1>5. Compiler!TableSize(t) = 3 + 2 * a + 2 * b + c
  BY <1>2, <1>4, CompilerCounts DEF Compiler!TableSize
<1>6. ASSUME NEW f \in FieldIr
      PROVE  Compiler!TableSize([t EXCEPT !.fields = Append(@, f)]) = Compiler!TableSize(t) + 2
  <2>1. PICK u : u = [t EXCEPT !.fields = Append(@, f)]
    OBVIOUS
  <2>2. u.fields = Append(t.fields, f) /\ u.lookups = t.lookups
    BY <2>1 DEF TableIr
  <2>3. Len(u.fields) = a + 1
    BY <1>1, <1>2, <2>2, AppendProperties
  <2>4. Compiler!Flags(u) = Compiler!Flags(t)
    BY <2>2 DEF Compiler!Flags
  <2>5. Compiler!TableSize(u) = 3 + 2 * (a + 1) + 2 * b + c
    BY <1>2, <1>4, <2>2, <2>3, <2>4, CompilerCounts DEF Compiler!TableSize
  <2> QED
    BY <1>5, <2>1, <2>5
<1>7. ASSUME NEW l \in LookupIr
      PROVE  Compiler!TableSize([t EXCEPT !.lookups = Append(@, l)])
               = Compiler!TableSize(t) + 2 + (IF l.unique THEN 1 ELSE 0)
  <2>1. PICK u : u = [t EXCEPT !.lookups = Append(@, l)]
    OBVIOUS
  <2>2. u.lookups = Append(t.lookups, l) /\ u.fields = t.fields
    BY <2>1 DEF TableIr
  <2>3. /\ Len(u.lookups) = b + 1 /\ DOMAIN u.lookups = 1..(b + 1) /\ u.lookups[b + 1] = l
        /\ \A i \in 1..b : u.lookups[i] = t.lookups[i]
    <3>1. u.lookups \in Seq(LookupIr)
      BY <1>1, <2>2, AppendProperties
    <3> QED
      BY <1>1, <1>2, <2>2, <3>1, AppendProperties, LenProperties
  <2>4. Compiler!Flags(u) = Compiler!Flags(t) \cup (IF l.unique THEN {b + 1} ELSE {})
    <3>1. DOMAIN u.lookups = DOMAIN t.lookups \cup {b + 1}
      BY <1>1, <1>2, <2>3
    <3>2. \A i \in DOMAIN t.lookups : u.lookups[i] = t.lookups[i]
      BY <1>1, <1>2, <2>3
    <3> QED
      BY <2>3, <3>1, <3>2 DEF Compiler!Flags
  <2>5. b + 1 \notin Compiler!Flags(t)
    BY <1>1, <1>2 DEF Compiler!Flags
  <2>6. Cardinality(Compiler!Flags(u)) = c + (IF l.unique THEN 1 ELSE 0)
    <3>1. CASE l.unique
      <4>1. Compiler!Flags(u) = Compiler!Flags(t) \cup {b + 1}
        BY <2>4, <3>1
      <4>2. Cardinality(Compiler!Flags(u)) = c + 1
        BY <1>3, <1>4, <2>5, <4>1, FS_AddElement
      <4> QED
        BY <3>1, <4>2
    <3>2. CASE ~l.unique
      <4>1. Compiler!Flags(u) = Compiler!Flags(t)
        BY <2>4, <3>2
      <4>2. Cardinality(Compiler!Flags(u)) = c + 0
        BY <1>4, <4>1
      <4> QED
        BY <3>2, <4>2
    <3> QED
      BY <3>1, <3>2
  <2>7. PICK e \in Nat : e = IF l.unique THEN 1 ELSE 0
    OBVIOUS
  <2>8. Compiler!TableSize(u) = 3 + 2 * a + 2 * (b + 1) + (c + e)
    BY <1>2, <2>2, <2>3, <2>6, <2>7, CompilerCounts DEF Compiler!TableSize
  <2>9. Compiler!TableSize(u) = Compiler!TableSize(t) + 2 + e
    BY <1>5, <2>8
  <2> QED
    BY <2>1, <2>7, <2>9
<1> QED
  BY <1>6, <1>7
(* The tokens that were read are those of the tables and of the table that  *)
(* is being read, but for the braces that are still to come.               *)
CountInv ==
  /\ pc = "schema" => ~wrapped /\ tables = <<>> /\ pos = 0
  /\ pc = "tables" =>
       Cardinality(TokensTo(pos)) = (IF wrapped THEN 3 ELSE 0) + Compiler!Size(tables)
  /\ pc = "items" =>
       Cardinality(TokensTo(pos)) + 1
         = (IF wrapped THEN 3 ELSE 0) + Compiler!Size(tables) + Compiler!TableSize(table)
  /\ Compiler!Parsed =>
       Cardinality(TokensTo(pos)) = (IF wrapped THEN 4 ELSE 0) + Compiler!Size(tables)

LEMMA CountSame ==
  ASSUME source' = source
  PROVE  TokensTo(pos)' = TokensTo(pos')
BY DEF TokensTo

LEMMA WordIs ==
  ASSUME NEW w, w \in Compiler!Identifiers
  PROVE  w # "Semicolon" /\ w # "end"
BY WordsAssumption DEF Compiler!Punctuation

LEMMA CountInit ==
  ASSUME Compiler!Init
  PROVE  CountInv
BY DEF Compiler!Init, CountInv, Compiler!Parsed

LEMMA CountSchema ==
  ASSUME CompilerInv, CountInv, Compiler!ParseSchema
  PROVE  CountInv'
<1>0. CompilerTypes /\ pos = 0 /\ tables = <<>> /\ ~wrapped /\ outcome = "none"
  BY DEF CompilerInv, CompilerResult, CountInv, Compiler!ParseSchema
<1>1. CASE /\ Compiler!Peek(1) = "schema" /\ Compiler!Peek(2) = "Bang"
           /\ Compiler!Peek(3) = "LBrace" /\ wrapped' = TRUE
           /\ Compiler!Read(3, "tables") /\ UNCHANGED <<tables, table>>
  <2>1. \A i \in 1..3 : source[0 + i] # "Semicolon"
    BY <1>0, <1>1, PeekIs
  <2>2. pos' = 3 /\ source' = source /\ pc' = "tables" /\ outcome' = "none"
    BY <1>0, <1>1 DEF Compiler!Read
  <2>3. Cardinality(TokensTo(0 + 3)) = Cardinality(TokensTo(0)) + 3
    BY <2>1, CountTokens
  <2>4. Cardinality(TokensTo(0)) = 0
    <3>1. TokensTo(0) = {}
      BY DEF TokensTo
    <3> QED
      BY <3>1, FS_EmptySet
  <2>5. Cardinality(TokensTo(pos)') = 3
    BY <2>2, <2>3, <2>4, CountSame
  <2>6. Compiler!Size(tables') = 0
    BY <1>0, <1>1, SizeEmpty
  <2> QED
    BY <1>1, <2>2, <2>5, <2>6 DEF CountInv, Compiler!Parsed
<1>2. CASE Compiler!Fail
  BY <1>2 DEF CountInv, Compiler!Parsed, Compiler!Fail
<1>3. CASE Compiler!Read(0, "tables") /\ UNCHANGED <<wrapped, tables, table>>
  <2>1. pos' = 0 /\ source' = source /\ pc' = "tables" /\ outcome' = "none"
    BY <1>0, <1>3 DEF Compiler!Read
  <2>2. TokensTo(pos)' = {}
    BY <2>1 DEF TokensTo
  <2>3. Compiler!Size(tables') = 0
    BY <1>0, <1>3, SizeEmpty
  <2> QED
    BY <1>0, <1>3, <2>1, <2>2, <2>3, FS_EmptySet DEF CountInv, Compiler!Parsed
<1> QED
  BY <1>1, <1>2, <1>3 DEF Compiler!ParseSchema
LEMMA SizesTyped ==
  ASSUME CompilerTypes
  PROVE  /\ Compiler!Size(tables) \in Nat /\ Compiler!TableSize(table) \in Nat
         /\ Cardinality(TokensTo(pos)) \in Nat /\ pos \in Nat
<1>1. pos \in Nat /\ tables \in Seq(TableIr) /\ table \in TableIr
  BY LenProperties DEF CompilerTypes
<1> QED
  BY <1>1, SizeAppend, TableSizeType, CountNext

LEMMA CountTableList ==
  ASSUME CompilerInv, CountInv, Compiler!ParseTableList
  PROVE  CountInv'
<1>0. CompilerTypes /\ outcome = "none"
  BY DEF CompilerInv, CompilerResult, Compiler!ParseTableList
<1>1. PICK c \in Nat, z \in Nat :
        c = Cardinality(TokensTo(pos)) /\ z = Compiler!Size(tables)
  BY <1>0, SizesTyped
<1>2. c = (IF wrapped THEN 3 ELSE 0) + z
  BY <1>1 DEF CountInv, Compiler!ParseTableList
<1>3. pos \in Nat
  BY <1>0, SizesTyped
<1>4. CASE /\ Compiler!IsIdent(Compiler!Peek(1)) /\ Compiler!Peek(2) = "LBrace"
           /\ table' = [Compiler!NoTable EXCEPT !.name = Compiler!Peek(1)]
           /\ Compiler!Read(2, "items") /\ UNCHANGED <<wrapped, tables>>
  <2>1. /\ pos' = pos + 2 /\ source' = source /\ pc' = "items" /\ outcome' = "none"
        /\ wrapped' = wrapped /\ tables' = tables
    BY <1>0, <1>4 DEF Compiler!Read
  <2>2. Compiler!Peek(1) # "end" /\ Compiler!Peek(1) # "Semicolon"
    BY <1>4, WordIs DEF Compiler!IsIdent
  <2>3. source[pos + 1] # "Semicolon" /\ source[pos + 2] # "Semicolon"
    BY <1>0, <1>4, <2>2, PeekIs
  <2>4. Cardinality(TokensTo(pos + 2)) = c + 2
    BY <1>1, <1>3, <2>3, CountTokens
  <2>5. Cardinality(TokensTo(pos)') = c + 2
    BY <2>1, <2>4, CountSame
  <2>6. Compiler!TableSize(table') = 3
    <3>1. PICK t : t = [Compiler!NoTable EXCEPT !.name = Compiler!Peek(1)]
      OBVIOUS
    <3>2. t.fields = <<>> /\ t.lookups = <<>>
      BY <3>1 DEF Compiler!NoTable
    <3>3. Compiler!Flags(t) = {}
      BY <3>2 DEF Compiler!Flags
    <3>4. Cardinality({}) = 0 /\ Len(<<>>) = 0
      BY FS_EmptySet, EmptySeq
    <3>5. Compiler!TableSize(t) = 3 + 2 * 0 + 2 * 0 + 0
      BY <3>2, <3>3, <3>4, CompilerCounts DEF Compiler!TableSize
    <3> QED
      BY <1>4, <3>1, <3>5
  <2>7. c + 2 + 1 = (IF wrapped THEN 3 ELSE 0) + z + 3
    <3>1. PICK w \in Nat : w = IF wrapped THEN 3 ELSE 0
      OBVIOUS
    <3> QED
      BY <1>2, <3>1
  <2> QED
    BY <1>1, <2>1, <2>5, <2>6, <2>7 DEF CountInv, Compiler!Parsed
<1>5. CASE Compiler!Fail
  BY <1>5 DEF CountInv, Compiler!Parsed, Compiler!Fail
<1>6. CASE /\ Compiler!Peek(1) = "RBrace"
           /\ Compiler!Read(IF wrapped THEN 1 ELSE 0, "validate")
           /\ UNCHANGED <<wrapped, tables, table>>
  <2>1. source[pos + 1] # "Semicolon"
    BY <1>0, <1>6, PeekIs
  <2>2. Cardinality(TokensTo(pos + 1)) = c + 1
    BY <1>1, <1>3, <2>1, CountNext
  <2>3. /\ source' = source /\ pc' = "validate" /\ outcome' = "none"
        /\ wrapped' = wrapped /\ tables' = tables
        /\ pos' = pos + (IF wrapped THEN 1 ELSE 0)
    BY <1>0, <1>6 DEF Compiler!Read
  <2>4. CASE wrapped
    <3>1. pos' = pos + 1
      BY <2>3, <2>4
    <3>2. Cardinality(TokensTo(pos)') = c + 1
      BY <2>2, <2>3, <3>1, CountSame
    <3>3. c + 1 = 4 + z
      BY <1>2, <2>4
    <3> QED
      BY <1>1, <2>3, <2>4, <3>2, <3>3 DEF CountInv, Compiler!Parsed
  <2>5. CASE ~wrapped
    <3>1. pos' = pos
      BY <1>3, <2>3, <2>5
    <3>2. Cardinality(TokensTo(pos)') = c
      BY <1>1, <2>3, <3>1, CountSame
    <3>3. c = 0 + z
      BY <1>2, <2>5
    <3> QED
      BY <1>1, <2>3, <2>5, <3>2, <3>3 DEF CountInv, Compiler!Parsed
  <2> QED
    BY <2>4, <2>5
<1> QED
  BY <1>4, <1>5, <1>6 DEF Compiler!ParseTableList

LEMMA CountItems ==
  ASSUME CompilerInv, CountInv,
         \/ Compiler!ParseLookup \/ Compiler!ParseField \/ Compiler!EndTable \/ Compiler!BadItem
  PROVE  CountInv'
<1>0. CompilerTypes /\ outcome = "none" /\ table \in TableIr /\ tables \in Seq(TableIr)
  BY DEF CompilerInv, CompilerTypes, CompilerResult, Compiler!ParseLookup,
         Compiler!ParseField, Compiler!EndTable, Compiler!BadItem
<1>1. PICK c \in Nat, z \in Nat, y \in Nat :
        /\ c = Cardinality(TokensTo(pos)) /\ z = Compiler!Size(tables)
        /\ y = Compiler!TableSize(table)
  BY <1>0, SizesTyped
<1>2. PICK w \in Nat : w = IF wrapped THEN 3 ELSE 0
  OBVIOUS
<1>3. c + 1 = w + z + y
  BY <1>1, <1>2 DEF CountInv, Compiler!ParseLookup, Compiler!ParseField, Compiler!EndTable,
                    Compiler!BadItem
<1>4. pos \in Nat
  BY <1>0, SizesTyped
<1>5. ASSUME NEW n \in {2, 3}, pos + n <= Len(source),
             \A i \in 1..n : source[pos + i] # "Semicolon",
             Compiler!Read(Compiler!Consumed(n) - pos, "items"),
             UNCHANGED <<wrapped, tables>>, Compiler!TableSize(table') = y + n
      PROVE  CountInv'
  <2>1. PICK k \in Nat : Compiler!Consumed(n) = pos + k
    BY <1>0, <1>5, ConsumedIs
  <2>2. Compiler!Consumed(n) - pos = k
    BY <1>4, <2>1
  <2>3. /\ pos' = Compiler!Consumed(n) /\ source' = source /\ pc' = "items" /\ outcome' = "none"
        /\ wrapped' = wrapped /\ tables' = tables
    BY <1>0, <1>5, <2>1, <2>2 DEF Compiler!Read
  <2>4. Cardinality(TokensTo(Compiler!Consumed(n))) = c + n
    BY <1>0, <1>1, <1>5, CountDeclaration
  <2>5. Cardinality(TokensTo(pos)') = c + n
    BY <2>3, <2>4, CountSame
  <2>6. (c + n) + 1 = w + z + (y + n)
    BY <1>3
  <2> QED
    BY <1>1, <1>2, <1>5, <2>3, <2>5, <2>6 DEF CountInv, Compiler!Parsed
<1>6. CASE Compiler!ParseLookup
  <2> DEFINE unique == Compiler!Peek(3) = "unique"
             n      == IF unique THEN 3 ELSE 2
             item   == [field |-> Compiler!Peek(2), unique |-> unique]
  <2>1. /\ Compiler!Peek(1) = "lookup" /\ Compiler!IsIdent(Compiler!Peek(2))
        /\ table' = [table EXCEPT !.lookups = Append(@, item)]
        /\ Compiler!Read(Compiler!Consumed(n) - pos, "items") /\ UNCHANGED <<wrapped, tables>>
    BY <1>6 DEF Compiler!ParseLookup
  <2>2. Compiler!Peek(2) # "end" /\ Compiler!Peek(2) # "Semicolon"
    BY <2>1, WordIs DEF Compiler!IsIdent
  <2>3. /\ source[pos + 1] # "Semicolon" /\ source[pos + 2] # "Semicolon"
        /\ pos + 2 <= Len(source)
    BY <1>0, <2>1, <2>2, PeekIs
  <2>4. unique => source[pos + 3] # "Semicolon" /\ pos + 3 <= Len(source)
    BY <1>0, PeekIs
  <2>5. n \in {2, 3} /\ pos + n <= Len(source) /\ \A i \in 1..n : source[pos + i] # "Semicolon"
    BY <2>3, <2>4
  <2>6. item \in LookupIr
    BY <2>1 DEF LookupIr, Compiler!IsIdent
  <2>7. Compiler!TableSize(table') = y + n
    <3>1. Compiler!TableSize(table') = y + 2 + (IF item.unique THEN 1 ELSE 0)
      <4> HIDE DEF item
      <4> QED
        BY <1>0, <1>1, <2>1, <2>6, TableSizeGrows
    <3>2. item.unique = unique
      OBVIOUS
    <3>3. y + 2 + 1 = y + 3 /\ y + 2 + 0 = y + 2
      BY <1>1
    <3> HIDE DEF unique, item
    <3>4. CASE unique
      <4>1. Compiler!TableSize(table') = y + 2 + 1 /\ n = 3
        BY <3>1, <3>2, <3>4
      <4> QED
        BY <3>3, <4>1
    <3>5. CASE ~unique
      <4>1. Compiler!TableSize(table') = y + 2 + 0 /\ n = 2
        BY <3>1, <3>2, <3>5
      <4> QED
        BY <3>3, <4>1
    <3> QED
      BY <3>4, <3>5
  <2> HIDE DEF n, unique, item
  <2> QED
    BY <1>5, <2>1, <2>5, <2>7
<1>7. CASE Compiler!ParseField
  <2> DEFINE item == [name |-> Compiler!Peek(1), type |-> Compiler!Peek(2)]
  <2>1. /\ Compiler!IsIdent(Compiler!Peek(1)) /\ Compiler!Peek(2) \in Compiler!Types
        /\ table' = [table EXCEPT !.fields = Append(@, item)]
        /\ Compiler!Read(Compiler!Consumed(2) - pos, "items") /\ UNCHANGED <<wrapped, tables>>
    BY <1>7 DEF Compiler!ParseField
  <2>2. /\ Compiler!Peek(1) # "end" /\ Compiler!Peek(1) # "Semicolon"
        /\ Compiler!Peek(2) # "end" /\ Compiler!Peek(2) # "Semicolon"
    BY <2>1, WordIs DEF Compiler!IsIdent, Compiler!Types
  <2>3. /\ source[pos + 1] # "Semicolon" /\ source[pos + 2] # "Semicolon"
        /\ pos + 2 <= Len(source)
    BY <1>0, <2>2, PeekIs
  <2>4. \A i \in 1..2 : source[pos + i] # "Semicolon"
    BY <2>3
  <2>5. item \in FieldIr
    BY <2>1 DEF FieldIr, Compiler!IsIdent
  <2>6. Compiler!TableSize(table') = y + 2
    <3> HIDE DEF item
    <3> QED
      BY <1>0, <1>1, <2>1, <2>5, TableSizeGrows
  <2> HIDE DEF item
  <2> QED
    BY <1>5, <2>1, <2>3, <2>4, <2>6
<1>8. CASE Compiler!EndTable
  <2>1. /\ Compiler!Peek(1) = "RBrace" /\ tables' = Append(tables, table)
        /\ pos' = pos + 1 /\ source' = source /\ pc' = "tables" /\ outcome' = "none"
        /\ wrapped' = wrapped
    BY <1>0, <1>8 DEF Compiler!EndTable, Compiler!Read
  <2>2. source[pos + 1] # "Semicolon"
    BY <1>0, <2>1, PeekIs
  <2>3. Cardinality(TokensTo(pos + 1)) = c + 1
    BY <1>1, <1>4, <2>2, CountNext
  <2>4. Cardinality(TokensTo(pos)') = c + 1
    BY <2>1, <2>3, CountSame
  <2>5. Compiler!Size(tables') = z + y
    BY <1>0, <1>1, <2>1, SizeAppend
  <2>6. c + 1 = w + (z + y)
    BY <1>3
  <2> QED
    BY <1>2, <2>1, <2>4, <2>5, <2>6 DEF CountInv, Compiler!Parsed
<1>9. CASE Compiler!BadItem
  <2>1. Compiler!Fail
    BY <1>9 DEF Compiler!BadItem
  <2> QED
    BY <2>1 DEF CountInv, Compiler!Parsed, Compiler!Fail
<1> QED
  BY <1>6, <1>7, <1>8, <1>9

LEMMA CountStep ==
  ASSUME CompilerInv, CountInv, Compiler!Compile
  PROVE  CountInv'
<1>1. CASE Compiler!Validate \/ Compiler!Load
  <2>1. UNCHANGED <<source, pos, wrapped, tables>> /\ Compiler!Parsed
        /\ pc' \in {"load", "done"}
    BY <1>1 DEF CompilerInv, CompilerResult, Compiler!Validate, Compiler!Load, Compiler!Parsed
  <2>2. TokensTo(pos)' = TokensTo(pos)
    BY <2>1 DEF TokensTo
  <2> QED
    BY <2>1, <2>2 DEF CountInv
<1> QED
  BY <1>1, CountSchema, CountTableList, CountItems DEF Compiler!Compile

LEMMA NothingSkippedAt ==
  ASSUME CountInv
  PROVE  Compiler!NothingSkipped
BY CompilerCounts DEF CountInv, Compiler!NothingSkipped, TokensTo
-----------------------------------------------------------------------------
(* The lexer.                                                              *)

LEMMA LexerCounts == \A S : Lexer!Cardinality(S) = Cardinality(S)
  BY DEF Lexer!Cardinality, Cardinality

LEMMA LexerMax ==
  ASSUME NEW S \in SUBSET Int, NEW m \in S, \A y \in S : y <= m
  PROVE  Lexer!Max(S) = m
<1>1. \A y \in S : m >= y
  OBVIOUS
<1> DEFINE n == Lexer!Max(S)
<1>2. n \in S /\ \A y \in S : n >= y
  BY <1>1 DEF Lexer!Max
<1> HIDE DEF n
<1>3. n \in Int /\ m \in Int /\ n <= m /\ m <= n
  BY <1>2
<1>4. n = m
  BY <1>3
<1> QED
  BY <1>4 DEF n

LEMMA LexerMin ==
  ASSUME NEW S \in SUBSET Int, NEW m \in S, \A y \in S : m <= y
  PROVE  Lexer!Min(S) = m
<1>1. \A y \in S : m =< y
  OBVIOUS
<1> DEFINE n == Lexer!Min(S)
<1>2. n \in S /\ \A y \in S : n =< y
  BY <1>1 DEF Lexer!Min
<1> HIDE DEF n
<1>3. n \in Int /\ m \in Int /\ n <= m /\ m <= n
  BY <1>2
<1>4. n = m
  BY <1>3
<1> QED
  BY <1>4 DEF n

(* The ends of lines before k. *)
Ends(k) == {i \in 1..(k - 1) : input[i] = "newline"}

LEMMA EndsFinite ==
  ASSUME NEW k \in Nat
  PROVE  IsFiniteSet(Ends(k)) /\ Cardinality(Ends(k)) \in Nat
<1>1. IsFiniteSet(1..(k - 1))
  BY FS_Interval
<1>2. Ends(k) \in SUBSET (1..(k - 1))
  BY DEF Ends
<1> QED
  BY <1>1, <1>2, FS_Subset, FS_CardinalityType

LEMMA LineIs ==
  ASSUME NEW k \in Nat
  PROVE  Lexer!Line(k) = 1 + Cardinality(Ends(k))
BY LexerCounts DEF Lexer!Line, Ends

(* The column counts from the last end of a line. *)
LEMMA ColumnIs ==
  ASSUME NEW k \in Nat \ {0}, NEW m \in 0..(k - 1), m = 0 \/ input[m] = "newline",
         \A i \in (m + 1)..(k - 1) : input[i] # "newline"
  PROVE  Lexer!Column(k) = k - m
<1> DEFINE S == {0} \cup {i \in 1..(k - 1) : input[i] = "newline"}
<1>1. m \in S /\ S \in SUBSET Int
  OBVIOUS
<1>2. \A y \in S : y <= m
  OBVIOUS
<1>3. Lexer!Max(S) = m
  <2> HIDE DEF S
  <2> QED
    BY <1>1, <1>2, LexerMax
<1> QED
  BY <1>3 DEF Lexer!Column

LEMMA LastEnd ==
  ASSUME NEW k \in Nat \ {0}
  PROVE  \E m \in 0..(k - 1) : /\ m = 0 \/ input[m] = "newline"
                               /\ \A i \in (m + 1)..(k - 1) : input[i] # "newline"
<1> DEFINE S == {0} \cup {i \in 1..(k - 1) : input[i] = "newline"}
<1>1. S \in SUBSET Nat /\ S # {} /\ \A s \in S : s <= k
  OBVIOUS
<1>2. \E m \in S : \A s \in S : s <= m
  <2> HIDE DEF S
  <2> QED
    BY <1>1, MaximumExists
<1>3. PICK m \in S : \A s \in S : s <= m
  BY <1>2
<1>4. m \in 0..(k - 1) /\ (m = 0 \/ input[m] = "newline")
  OBVIOUS
<1>5. ASSUME NEW i \in (m + 1)..(k - 1), input[i] = "newline"
      PROVE  FALSE
  <2>1. i \in S
    BY <1>4, <1>5
  <2> QED
    BY <1>3, <1>4, <2>1
<1> QED
  BY <1>4, <1>5

LEMMA FirstPlace == Lexer!Line(1) = 1 /\ Lexer!Column(1) = 1
<1>1. Ends(1) = {}
  BY DEF Ends
<1>2. Lexer!Line(1) = 1
  BY <1>1, LineIs, FS_EmptySet
<1>3. Lexer!Column(1) = 1 - 0
  BY ColumnIs
<1> QED
  BY <1>2, <1>3

LEMMA PlaceTypes ==
  ASSUME NEW k \in Nat \ {0}
  PROVE  Lexer!Line(k) \in Nat /\ Lexer!Column(k) \in Nat
<1>1. PICK m \in 0..(k - 1) : /\ m = 0 \/ input[m] = "newline"
                              /\ \A i \in (m + 1)..(k - 1) : input[i] # "newline"
  BY LastEnd
<1>2. Lexer!Column(k) = k - m
  BY <1>1, ColumnIs
<1> QED
  BY <1>2, LineIs, EndsFinite

(* Without an end of a line from a on, b is on the same line as a. *)
LEMMA SameLine ==
  ASSUME NEW a \in Nat \ {0}, NEW b \in Nat, a <= b, \A i \in a..(b - 1) : input[i] # "newline"
  PROVE  Lexer!Line(b) = Lexer!Line(a) /\ Lexer!Column(b) = Lexer!Column(a) + (b - a)
<1>1. Ends(b) = Ends(a)
  BY DEF Ends
<1>2. PICK m \in 0..(a - 1) : /\ m = 0 \/ input[m] = "newline"
                              /\ \A i \in (m + 1)..(a - 1) : input[i] # "newline"
  BY LastEnd
<1>3. Lexer!Column(a) = a - m
  BY <1>2, ColumnIs
<1>4. Lexer!Column(b) = b - m
  <2>1. \A i \in (m + 1)..(b - 1) : input[i] # "newline"
    BY <1>2
  <2> QED
    BY <1>2, <2>1, ColumnIs
<1> QED
  BY <1>1, <1>3, <1>4, LineIs

LEMMA NextLine ==
  ASSUME NEW a \in Nat \ {0}, input[a] = "newline"
  PROVE  Lexer!Line(a + 1) = Lexer!Line(a) + 1 /\ Lexer!Column(a + 1) = 1
<1>1. Ends(a + 1) = Ends(a) \cup {a}
  BY DEF Ends
<1>2. a \notin Ends(a)
  BY DEF Ends
<1>3. Cardinality(Ends(a + 1)) = Cardinality(Ends(a)) + 1
  BY <1>1, <1>2, EndsFinite, FS_AddElement
<1>4. Lexer!Column(a + 1) = (a + 1) - a
  BY ColumnIs
<1> QED
  BY <1>3, <1>4, LineIs, EndsFinite

TokenRecord == [kind : {"mark", "ident"}, size : Nat, line : Nat, col : Nat]

(* The first a characters have no bad one, and their tokens are in o.      *)
LexedTo(a, o) ==
  /\ \A k \in 1..a : ~Lexer!IsBad(k)
  /\ o \in Seq(TokenRecord) /\ Len(o) = Cardinality(Lexer!Starts(a))
  /\ \A k \in Lexer!Starts(a) : Lexer!TokenAt(o[Cardinality(Lexer!Starts(k))], k)

(* Between two tokens, and not in a comment. *)
Between(a) ==
  a \in 1..(Len(input) - 1) =>
    /\ ~Lexer!InComment(a)
    /\ ~(Lexer!IsIdentContinue(input[a]) /\ Lexer!IsIdentContinue(input[a + 1]))

LexState(a, l, c, o) ==
  /\ a \in 0..Len(input)
  /\ l = Lexer!Line(a + 1) /\ (a < Len(input) => c = Lexer!Column(a + 1))
  /\ LexedTo(a, o) /\ Between(a)

LexerInv ==
  /\ input \in Seq(Lexer!Chars) /\ LexState(at, line, col, out)
  /\ pc \in {"lex", "done"} /\ (pc = "lex" => outcome = "none")
  /\ outcome = "tokens" => at = Len(input)
  /\ outcome = "error" => at < Len(input) /\ Lexer!IsBad(at + 1)

LEMMA LexPrimed ==
  ASSUME input' = input, NEW a, NEW l, NEW c, NEW o, LexState(a, l, c, o),
         at' = a, line' = l, col' = c, out' = o
  PROVE  LexState(at, line, col, out)'
<1>0. LexedTo(a, o)
  BY DEF LexState
<1>1. LexedTo(at, out)'
  <2>1. \A k : Lexer!IsBad(k)' = Lexer!IsBad(k)
    BY DEF Lexer!IsBad, Lexer!InComment, Lexer!IsIdentContinue
  <2>2. Lexer!Starts(at)' = Lexer!Starts(a) /\ \A k : Lexer!Starts(k)' = Lexer!Starts(k)
    BY DEF Lexer!Starts, Lexer!IsStart, Lexer!InComment, Lexer!IsIdentContinue
  <2>3. (\A k \in 1..at : ~Lexer!IsBad(k))'
    BY <1>0, <2>1 DEF LexedTo
  <2>4. out' \in Seq(TokenRecord) /\ Len(out') = Cardinality(Lexer!Starts(at)')
    BY <1>0, <2>2 DEF LexedTo
  <2>5. ASSUME NEW k \in Lexer!Starts(at)'
        PROVE  Lexer!TokenAt(out[Cardinality(Lexer!Starts(k))], k)'
    <3>1. Lexer!TokenAt(o[Cardinality(Lexer!Starts(k))], k)
      BY <1>0, <2>2, <2>5 DEF LexedTo
    <3>2. Lexer!Starts(k)' = Lexer!Starts(k)
      BY <2>2
    <3> QED
      BY <3>1, <3>2 DEF Lexer!TokenAt, Lexer!Line, Lexer!Column, Lexer!IsIdentContinue
  <2> QED
    BY <2>3, <2>4, <2>5 DEF LexedTo
<1>2. Between(at)'
  BY DEF LexState, Between, Lexer!InComment, Lexer!IsIdentContinue
<1>3. line' = Lexer!Line(at + 1)' /\ (at' < Len(input') => col' = Lexer!Column(at + 1)')
  BY DEF LexState, Lexer!Line, Lexer!Column
<1> QED
  BY <1>1, <1>2, <1>3 DEF LexState

LEMMA StartsFinite ==
  ASSUME NEW a \in Nat
  PROVE  IsFiniteSet(Lexer!Starts(a)) /\ Cardinality(Lexer!Starts(a)) \in Nat
<1>1. IsFiniteSet(1..a) /\ Lexer!Starts(a) \in SUBSET (1..a)
  BY FS_Interval DEF Lexer!Starts
<1> QED
  BY <1>1, FS_Subset, FS_CardinalityType

(* The start k is the last of those up to k. *)
LEMMA StartPlace ==
  ASSUME NEW a \in Nat, NEW k \in Lexer!Starts(a)
  PROVE  Cardinality(Lexer!Starts(k)) \in 1..Cardinality(Lexer!Starts(a))
<1>1. k \in 1..a /\ k \in Lexer!Starts(k) /\ Lexer!Starts(k) \in SUBSET Lexer!Starts(a)
  BY DEF Lexer!Starts
<1>2. /\ Cardinality(Lexer!Starts(k)) \in Nat
      /\ Cardinality(Lexer!Starts(k)) <= Cardinality(Lexer!Starts(a))
  BY <1>1, StartsFinite, FS_Subset
<1>3. Cardinality(Lexer!Starts(k)) # 0
  BY <1>1, StartsFinite, FS_EmptySet
<1> QED
  BY <1>2, <1>3, StartsFinite

LEMMA LexedSkip ==
  ASSUME NEW a \in Nat, NEW b \in Nat, a <= b, NEW o, LexedTo(a, o),
         \A k \in (a + 1)..b : ~Lexer!IsBad(k) /\ ~Lexer!IsStart(k)
  PROVE  LexedTo(b, o)
<1>1. Lexer!Starts(b) = Lexer!Starts(a)
  BY DEF Lexer!Starts
<1>2. \A k \in 1..b : k \in 1..a \/ k \in (a + 1)..b
  OBVIOUS
<1> QED
  BY <1>1, <1>2 DEF LexedTo

LEMMA LexedPush ==
  ASSUME NEW a \in Nat, NEW b \in Nat, a < b, NEW o, LexedTo(a, o),
         NEW t \in TokenRecord, Lexer!IsStart(a + 1), Lexer!TokenAt(t, a + 1),
         \A k \in (a + 1)..b : ~Lexer!IsBad(k),
         \A k \in (a + 2)..b : ~Lexer!IsStart(k)
  PROVE  LexedTo(b, Append(o, t))
<1> DEFINE S == Lexer!Starts(a)
           T == Lexer!Starts(b)
<1>1. T = S \cup {a + 1} /\ a + 1 \notin S /\ Lexer!Starts(a + 1) = T
  <2>1. \A k : k \in 1..b <=> k \in 1..a \/ k = a + 1 \/ k \in (a + 2)..b
    OBVIOUS
  <2>2. \A k : k \in 1..(a + 1) <=> k \in 1..a \/ k = a + 1
    OBVIOUS
  <2>3. a + 1 \notin 1..a
    OBVIOUS
  <2> QED
    BY <2>1, <2>2, <2>3 DEF Lexer!Starts
<1>2. PICK n \in Nat : n = Cardinality(S) /\ n = Len(o)
  BY StartsFinite DEF LexedTo
<1>3. Cardinality(T) = n + 1
  <2>1. IsFiniteSet(S)
    BY StartsFinite
  <2> HIDE DEF S, T
  <2>2. Cardinality(S \cup {a + 1}) = Cardinality(S) + 1
    BY <1>1, <2>1, FS_AddElement
  <2> QED
    BY <1>1, <1>2, <2>2
<1>4. o \in Seq(TokenRecord)
  BY DEF LexedTo
<1>5. /\ Append(o, t) \in Seq(TokenRecord) /\ Len(Append(o, t)) = n + 1
      /\ Append(o, t)[n + 1] = t /\ \A i \in 1..n : Append(o, t)[i] = o[i]
  BY <1>2, <1>4
<1>6. ASSUME NEW k \in T
      PROVE  Lexer!TokenAt(Append(o, t)[Cardinality(Lexer!Starts(k))], k)
  <2>1. CASE k = a + 1
    BY <1>1, <1>3, <1>5, <2>1
  <2>2. CASE k \in S
    <3>1. Cardinality(Lexer!Starts(k)) \in 1..n
      BY <1>2, <2>2, StartPlace
    <3>2. Append(o, t)[Cardinality(Lexer!Starts(k))] = o[Cardinality(Lexer!Starts(k))]
      BY <1>5, <3>1
    <3> QED
      BY <2>2, <3>2 DEF LexedTo
  <2> QED
    BY <1>1, <2>1, <2>2
<1>7. \A k \in 1..b : ~Lexer!IsBad(k)
  <2>1. \A k \in 1..b : k \in 1..a \/ k \in (a + 1)..b
    OBVIOUS
  <2> QED
    BY <2>1 DEF LexedTo
<1> QED
  BY <1>3, <1>5, <1>6, <1>7 DEF LexedTo

LEMMA AheadIs ==
  ASSUME LexerInv, NEW i \in Nat \ {0}
  PROVE  /\ Lexer!Ahead(i) # "end" => at + i <= Len(input) /\ Lexer!Ahead(i) = input[at + i]
         /\ Lexer!Ahead(i) = "end" => at + i > Len(input)
<1>1. at + i <= Len(input) => input[at + i] # "end"
  <2> SUFFICES ASSUME at + i <= Len(input) PROVE input[at + i] # "end"
    OBVIOUS
  <2>1. at + i \in 1..Len(input)
    BY DEF LexerInv, LexState
  <2>2. input[at + i] \in Lexer!Chars
    BY <2>1 DEF LexerInv
  <2> QED
    BY <2>2 DEF Lexer!Chars
<1>2. at + i \in Nat /\ Len(input) \in Nat
  BY DEF LexerInv, LexState
<1> QED
  BY <1>1, <1>2 DEF Lexer!Ahead

(* No comment goes on where there is none, unless a slash opens one. *)
LEMMA NoComment ==
  ASSUME NEW a \in Nat \ {0}, a = 1 \/ ~Lexer!InComment(a - 1), input[a] # "slash"
  PROVE  ~Lexer!InComment(a)
<1> SUFFICES ASSUME Lexer!InComment(a) PROVE FALSE
  OBVIOUS
<1>1. PICK i \in 1..a : input[i] = "slash" /\ \A j \in i..a : input[j] # "newline"
  BY DEF Lexer!InComment
<1>2. i # a /\ i \in 1..(a - 1) /\ a - 1 \in i..a
  BY <1>1
<1>3. Lexer!InComment(a - 1)
  BY <1>1, <1>2 DEF Lexer!InComment
<1> QED
  BY <1>2, <1>3

LEMMA LineEndsComment ==
  ASSUME NEW a, input[a] = "newline"
  PROVE  ~Lexer!InComment(a)
BY DEF Lexer!InComment

LEMMA CommentGoesOn ==
  ASSUME NEW a \in Nat \ {0}, NEW k \in Nat, a <= k, input[a] = "slash",
         \A j \in a..k : input[j] # "newline"
  PROVE  Lexer!InComment(k)
BY DEF Lexer!InComment

(* What the characters at hand say of the one that is read next. *)
LEMMA LexerFacts ==
  ASSUME LexerInv, pc = "lex"
  PROVE  /\ at \in Nat /\ Len(input) \in Nat /\ at <= Len(input)
         /\ outcome = "none" /\ LexedTo(at, out) /\ Between(at)
         /\ line = Lexer!Line(at + 1) /\ line \in Nat
         /\ at < Len(input) => col = Lexer!Column(at + 1) /\ col \in Nat
         /\ at < Len(input) => at = 0 \/ ~Lexer!InComment(at)
<1>1. /\ at \in 0..Len(input) /\ Len(input) \in Nat
      /\ outcome = "none" /\ LexedTo(at, out) /\ Between(at)
      /\ line = Lexer!Line(at + 1) /\ (at < Len(input) => col = Lexer!Column(at + 1))
  BY DEF LexerInv, LexState
<1>2. at + 1 \in Nat \ {0}
  BY <1>1
<1>3. at < Len(input) => at = 0 \/ ~Lexer!InComment(at)
  <2> SUFFICES ASSUME at < Len(input), at # 0 PROVE ~Lexer!InComment(at)
    OBVIOUS
  <2>1. at \in 1..(Len(input) - 1)
    BY <1>1
  <2> QED
    BY <1>1, <2>1 DEF Between
<1> QED
  BY <1>1, <1>2, <1>3, PlaceTypes

LEMMA LexNewline ==
  ASSUME LexerInv, pc = "lex", Lexer!Newline
  PROVE  LexerInv'
<1>1. /\ at + 1 <= Len(input) /\ input[at + 1] = "newline"
      /\ line' = line + 1 /\ col' = 1 /\ out' = out
      /\ at' = at + 1 /\ input' = input /\ outcome' = outcome /\ pc' = pc
  BY AheadIs DEF Lexer!Newline, Lexer!Take
<1>2. LexedTo(at + 1, out)
  <2>1. ~Lexer!IsBad(at + 1) /\ ~Lexer!IsStart(at + 1)
    BY <1>1 DEF Lexer!IsBad, Lexer!IsStart
  <2> QED
    BY <2>1, LexerFacts, LexedSkip
<1>3. Between(at + 1)
  BY <1>1, LineEndsComment DEF Between, Lexer!IsIdentContinue
<1>4. Lexer!Line((at + 1) + 1) = line + 1 /\ Lexer!Column((at + 1) + 1) = 1
  BY <1>1, LexerFacts, NextLine
<1>5. LexState(at + 1, line + 1, 1, out)
  BY <1>1, <1>2, <1>3, <1>4, LexerFacts DEF LexState
<1>6. LexState(at, line, col, out)'
  BY <1>1, <1>5, LexPrimed
<1> QED
  BY <1>1, <1>6, LexerFacts DEF LexerInv

LEMMA LexSpace ==
  ASSUME LexerInv, pc = "lex", Lexer!Space
  PROVE  LexerInv'
<1>1. /\ at + 1 <= Len(input) /\ input[at + 1] = "space"
      /\ line' = line /\ col' = col + 1 /\ out' = out
      /\ at' = at + 1 /\ input' = input /\ outcome' = outcome /\ pc' = pc
  BY AheadIs DEF Lexer!Space, Lexer!Take
<1>2. LexedTo(at + 1, out)
  <2>1. ~Lexer!IsBad(at + 1) /\ ~Lexer!IsStart(at + 1)
    BY <1>1 DEF Lexer!IsBad, Lexer!IsStart
  <2> QED
    BY <2>1, LexerFacts, LexedSkip
<1>3. Between(at + 1)
  <2>1. ~Lexer!InComment(at + 1)
    BY <1>1, LexerFacts, NoComment
  <2> QED
    BY <1>1, <2>1 DEF Between, Lexer!IsIdentContinue
<1>4. Lexer!Line((at + 1) + 1) = line /\ Lexer!Column((at + 1) + 1) = col + 1
  BY <1>1, LexerFacts, SameLine
<1>5. LexState(at + 1, line, col + 1, out)
  BY <1>1, <1>2, <1>3, <1>4, LexerFacts DEF LexState
<1>6. LexState(at, line, col, out)'
  BY <1>1, <1>5, LexPrimed
<1> QED
  BY <1>1, <1>6, LexerFacts DEF LexerInv

LEMMA LexMark ==
  ASSUME LexerInv, pc = "lex", Lexer!Mark
  PROVE  LexerInv'
<1> DEFINE t == [kind |-> "mark", size |-> 1, line |-> line, col |-> col]
<1>1. /\ at + 1 <= Len(input) /\ input[at + 1] = "mark"
      /\ line' = line /\ col' = col + 1 /\ out' = Append(out, t)
      /\ at' = at + 1 /\ input' = input /\ outcome' = outcome /\ pc' = pc
  BY AheadIs DEF Lexer!Mark, Lexer!Take, Lexer!Push
<1>2. ~Lexer!InComment(at + 1)
  BY <1>1, LexerFacts, NoComment
<1>3. LexedTo(at + 1, Append(out, t))
  <2>1. ~Lexer!IsBad(at + 1) /\ Lexer!IsStart(at + 1)
    BY <1>1, <1>2 DEF Lexer!IsBad, Lexer!IsStart
  <2>2. t \in TokenRecord /\ Lexer!TokenAt(t, at + 1)
    BY <1>1, LexerFacts DEF TokenRecord, Lexer!TokenAt
  <2> HIDE DEF t
  <2> QED
    BY <2>1, <2>2, LexerFacts, LexedPush
<1>4. Between(at + 1)
  BY <1>1, <1>2 DEF Between, Lexer!IsIdentContinue
<1>5. Lexer!Line((at + 1) + 1) = line /\ Lexer!Column((at + 1) + 1) = col + 1
  BY <1>1, LexerFacts, SameLine
<1>6. LexState(at + 1, line, col + 1, Append(out, t))
  BY <1>1, <1>3, <1>4, <1>5, LexerFacts DEF LexState
<1>7. LexState(at, line, col, out)'
  BY <1>1, <1>6, LexPrimed
<1> QED
  BY <1>1, <1>7, LexerFacts DEF LexerInv

(* The characters of a comment are no tokens, and none is bad. *)
LEMMA CommentSkipped ==
  ASSUME LexerInv, pc = "lex", NEW b \in Nat, at + 2 <= b, b <= Len(input),
         input[at + 1] = "slash", input[at + 2] = "slash",
         \A k \in (at + 1)..b : input[k] # "newline"
  PROVE  /\ \A k \in (at + 1)..b : ~Lexer!IsBad(k) /\ ~Lexer!IsStart(k)
         /\ Lexer!Line(b + 1) = line
<1>1. at \in Nat /\ at + 1 \in Nat \ {0} /\ at + 1 <= b /\ at < Len(input)
  BY LexerFacts
<1>2. \A k \in (at + 1)..b : Lexer!InComment(k)
  <2> SUFFICES ASSUME NEW k \in (at + 1)..b PROVE Lexer!InComment(k)
    OBVIOUS
  <2>1. k \in Nat /\ at + 1 <= k /\ \A j \in (at + 1)..k : input[j] # "newline"
    BY <1>1
  <2> QED
    BY <1>1, <2>1, CommentGoesOn
<1>3. ASSUME NEW k \in (at + 1)..b
      PROVE  ~Lexer!IsBad(k)
  <2>1. CASE k = at + 1
    BY <1>1, <1>2, <2>1 DEF Lexer!IsBad
  <2>2. CASE k # at + 1
    <3>1. k - 1 \in (at + 1)..b /\ k # 1
      BY <1>1, <2>2
    <3> QED
      BY <1>2, <3>1 DEF Lexer!IsBad
  <2> QED
    BY <2>1, <2>2
<1>4. \A k \in (at + 1)..b : ~Lexer!IsStart(k)
  BY <1>2 DEF Lexer!IsStart
<1>5. Lexer!Line(b + 1) = Lexer!Line(at + 1)
  <2>1. \A i \in (at + 1)..((b + 1) - 1) : input[i] # "newline"
    BY <1>1
  <2> QED
    BY <1>1, <2>1, SameLine
<1> QED
  BY <1>3, <1>4, <1>5, LexerFacts

(* A set of numbers that is not empty has a least one. *)
LEMMA LeastExists ==
  ASSUME NEW n \in Nat, NEW S \in SUBSET (1..n), S # {}
  PROVE  \E m \in S : \A s \in S : m <= s
<1> DEFINE T == {n - s : s \in S}
<1>1. T \in SUBSET Nat /\ T # {} /\ \A t \in T : t <= n
  <2>1. \A s \in S : n - s \in Nat /\ n - s <= n
    OBVIOUS
  <2> QED
    BY <2>1
<1>2. \E m \in T : \A t \in T : t <= m
  <2> HIDE DEF T
  <2> QED
    BY <1>1, MaximumExists
<1>3. PICK m \in S : \A t \in T : t <= n - m
  BY <1>2
<1>4. ASSUME NEW s \in S
      PROVE  m <= s
  <2>1. n - s <= n - m /\ s \in 1..n /\ m \in 1..n
    BY <1>3
  <2> QED
    BY <2>1
<1> QED
  BY <1>4

LEMMA LexComment ==
  ASSUME LexerInv, pc = "lex", Lexer!Comment
  PROVE  LexerInv'
<1>1. /\ at + 2 <= Len(input) /\ input[at + 1] = "slash" /\ input[at + 2] = "slash"
      /\ out' = out /\ input' = input /\ outcome' = outcome /\ pc' = pc
  BY AheadIs DEF Lexer!Comment, Lexer!Take
<1> DEFINE ends == {k \in (at + 2)..Len(input) : input[k] = "newline"}
<1>2. at \in Nat /\ Len(input) \in Nat /\ LexedTo(at, out) /\ line \in Nat
  BY LexerFacts
<1>3. CASE ends = {}
  <2>1. Lexer!CommentEnd = Len(input) + 1
    BY <1>3 DEF Lexer!CommentEnd
  <2>2. line' = line /\ at' = Len(input)
    BY <1>2, <2>1 DEF Lexer!Comment, Lexer!Take
  <2>3. \A k \in (at + 1)..Len(input) : input[k] # "newline"
    BY <1>1, <1>2, <1>3
  <2>4. /\ \A k \in (at + 1)..Len(input) : ~Lexer!IsBad(k) /\ ~Lexer!IsStart(k)
        /\ Lexer!Line(Len(input) + 1) = line
    BY <1>1, <1>2, <2>3, CommentSkipped
  <2>5. LexedTo(Len(input), out)
    BY <1>1, <1>2, <2>4, LexedSkip
  <2>6. LexState(Len(input), line, col', out)
    BY <1>2, <2>4, <2>5 DEF LexState, Between
  <2>7. PICK c : c = col'
    OBVIOUS
  <2>8. LexState(at, line, col, out)'
    BY <1>1, <2>2, <2>6, <2>7, LexPrimed
  <2>9. outcome' = "none"
    BY <1>1, LexerFacts
  <2> QED
    BY <1>1, <2>8, <2>9 DEF LexerInv
<1>4. CASE ends # {}
  <2>1. ends \in SUBSET (1..Len(input))
    BY <1>2
  <2>2. PICK e \in ends : \A k \in ends : e <= k
    <3> HIDE DEF ends
    <3> QED
      BY <1>2, <1>4, <2>1, LeastExists
  <2>3. Lexer!Min(ends) = e
    <3>1. ends \in SUBSET Int
      BY <2>1
    <3> HIDE DEF ends
    <3> QED
      BY <2>2, <3>1, LexerMin
  <2>4. Lexer!CommentEnd = e
    BY <1>4, <2>3 DEF Lexer!CommentEnd
  <2>5. e \in (at + 2)..Len(input) /\ input[e] = "newline" /\ e # at + 2
    BY <1>1, <2>2
  <2>6. e \in Nat /\ at + 3 <= e /\ e <= Len(input) /\ e - 1 \in Nat /\ e - 1 <= Len(input)
        /\ at + 2 <= e - 1
    BY <1>2, <2>5
  <2>7. line' = line + 1 /\ col' = 1 /\ at' = e
    BY <1>2, <2>4, <2>6 DEF Lexer!Comment, Lexer!Take
  <2>8. \A k \in (at + 1)..(e - 1) : input[k] # "newline"
    <3> SUFFICES ASSUME NEW k \in (at + 1)..(e - 1), input[k] = "newline" PROVE FALSE
      OBVIOUS
    <3>1. k # at + 1
      BY <1>1
    <3>2. k \in (at + 2)..Len(input) /\ k < e
      BY <1>2, <2>6, <3>1
    <3> QED
      BY <2>2, <2>6, <3>2
  <2>9. /\ \A k \in (at + 1)..(e - 1) : ~Lexer!IsBad(k) /\ ~Lexer!IsStart(k)
        /\ Lexer!Line((e - 1) + 1) = line
    BY <1>1, <2>6, <2>8, CommentSkipped
  <2>10. LexedTo(e, out)
    <3>1. ~Lexer!IsBad(e) /\ ~Lexer!IsStart(e)
      BY <2>5 DEF Lexer!IsBad, Lexer!IsStart
    <3>2. \A k \in (at + 1)..e : k \in (at + 1)..(e - 1) \/ k = e
      BY <1>2, <2>6
    <3>3. \A k \in (at + 1)..e : ~Lexer!IsBad(k) /\ ~Lexer!IsStart(k)
      BY <2>9, <3>1, <3>2
    <3>4. at <= e
      BY <1>2, <2>6
    <3> QED
      BY <1>2, <2>6, <3>3, <3>4, LexedSkip
  <2>11. Between(e)
    BY <2>5, LineEndsComment DEF Between, Lexer!IsIdentContinue
  <2>12. Lexer!Line(e + 1) = line + 1 /\ Lexer!Column(e + 1) = 1
    <3>1. (e - 1) + 1 = e /\ e \in Nat \ {0}
      BY <1>2, <2>6
    <3> QED
      BY <2>5, <2>9, <3>1, NextLine
  <2>13. LexState(e, line + 1, 1, out)
    BY <1>2, <2>6, <2>10, <2>11, <2>12 DEF LexState
  <2>14. LexState(at, line, col, out)'
    BY <1>1, <2>7, <2>13, LexPrimed
  <2>15. outcome' = "none"
    BY <1>1, LexerFacts
  <2> QED
    BY <1>1, <2>14, <2>15 DEF LexerInv
<1> QED
  BY <1>3, <1>4

LEMMA IdentSizeIs ==
  ASSUME LexerInv, pc = "lex", at + 1 <= Len(input), input[at + 1] = "letter"
  PROVE  /\ Lexer!IdentSize \in 1..(Len(input) - at)
         /\ \A k \in (at + 1)..(at + Lexer!IdentSize) : Lexer!IsIdentContinue(input[k])
         /\ at + Lexer!IdentSize < Len(input) =>
              ~Lexer!IsIdentContinue(input[(at + Lexer!IdentSize) + 1])
<1> DEFINE S == {n \in 1..(Len(input) - at) : \A i \in 1..n : Lexer!IsIdentContinue(Lexer!Ahead(i))}
<1>1. at \in Nat /\ Len(input) \in Nat /\ at <= Len(input)
  BY LexerFacts
<1>2. \A i \in 1..(Len(input) - at) : Lexer!Ahead(i) = input[at + i]
  BY <1>1 DEF Lexer!Ahead
<1>3. 1 \in S
  <2>1. 1 \in 1..(Len(input) - at)
    BY <1>1
  <2>2. \A i \in 1..1 : i = 1
    OBVIOUS
  <2>3. Lexer!IsIdentContinue(Lexer!Ahead(1))
    BY <1>2, <2>1 DEF Lexer!IsIdentContinue
  <2> QED
    BY <2>1, <2>2, <2>3
<1>4. S \in SUBSET Nat /\ S \in SUBSET Int /\ S # {} /\ \A s \in S : s <= Len(input)
  <2>1. \A n \in 1..(Len(input) - at) : n \in Nat /\ n <= Len(input)
    BY <1>1
  <2>2. S \in SUBSET (1..(Len(input) - at)) /\ S # {}
    BY <1>3
  <2> HIDE DEF S
  <2> QED
    BY <2>1, <2>2
<1>5. \E m \in S : \A s \in S : s <= m
  <2> HIDE DEF S
  <2> QED
    BY <1>1, <1>4, MaximumExists
<1>6. PICK m \in S : \A s \in S : s <= m
  BY <1>5
<1>7. Lexer!IdentSize = m
  <2>1. Lexer!Max(S) = m
    <3> HIDE DEF S
    <3> QED
      BY <1>4, <1>6, LexerMax
  <2> QED
    BY <2>1 DEF Lexer!IdentSize
<1>8. m \in 1..(Len(input) - at) /\ \A i \in 1..m : Lexer!IsIdentContinue(input[at + i])
  <2>1. m \in 1..(Len(input) - at) /\ \A i \in 1..m : Lexer!IsIdentContinue(Lexer!Ahead(i))
    OBVIOUS
  <2>2. \A i \in 1..m : i \in 1..(Len(input) - at)
    BY <1>1, <2>1
  <2> QED
    BY <1>2, <2>1, <2>2
<1>9. ASSUME NEW k \in (at + 1)..(at + m)
      PROVE  Lexer!IsIdentContinue(input[k])
  <2>1. k - at \in 1..m /\ at + (k - at) = k
    BY <1>1, <1>8
  <2> QED
    BY <1>8, <2>1
<1>10. ASSUME at + m < Len(input), Lexer!IsIdentContinue(input[(at + m) + 1])
       PROVE  FALSE
  <2>1. m + 1 \in 1..(Len(input) - at) /\ (at + m) + 1 = at + (m + 1)
    BY <1>1, <1>8, <1>10
  <2>2. \A i \in 1..(m + 1) : i \in 1..m \/ i = m + 1
    BY <1>8
  <2>3. \A i \in 1..(m + 1) : Lexer!IsIdentContinue(input[at + i]) /\ i \in 1..(Len(input) - at)
    <3> SUFFICES ASSUME NEW i \in 1..(m + 1)
                 PROVE  Lexer!IsIdentContinue(input[at + i]) /\ i \in 1..(Len(input) - at)
      OBVIOUS
    <3>1. CASE i = m + 1
      BY <1>10, <2>1, <3>1
    <3>2. CASE i \in 1..m
      BY <1>1, <1>8, <3>2
    <3> QED
      BY <2>2, <3>1, <3>2
  <2>4. m + 1 \in S
    BY <1>2, <2>1, <2>3
  <2>5. m + 1 <= m
    <3> HIDE DEF S
    <3> QED
      BY <1>6, <2>4
  <2> QED
    BY <1>8, <2>5
<1> HIDE DEF S
<1> QED
  BY <1>7, <1>8, <1>9, <1>10

LEMMA LexIdent ==
  ASSUME LexerInv, pc = "lex", Lexer!Ident
  PROVE  LexerInv'
<1> DEFINE n == Lexer!IdentSize
           b == at + n
           t == [kind |-> "ident", size |-> n, line |-> line, col |-> col]
<1>1. /\ at + 1 <= Len(input) /\ input[at + 1] = "letter"
      /\ line' = line /\ col' = col + n /\ out' = Append(out, t)
      /\ at' = b /\ input' = input /\ outcome' = outcome /\ pc' = pc
  BY AheadIs DEF Lexer!Ident, Lexer!Take, Lexer!Push
<1>2. /\ at \in Nat /\ Len(input) \in Nat /\ LexedTo(at, out) /\ Between(at)
      /\ line = Lexer!Line(at + 1) /\ line \in Nat
      /\ col = Lexer!Column(at + 1) /\ col \in Nat
      /\ outcome = "none" /\ (at = 0 \/ ~Lexer!InComment(at))
  BY <1>1, LexerFacts
<1>3. /\ n \in 1..(Len(input) - at)
      /\ \A k \in (at + 1)..b : Lexer!IsIdentContinue(input[k])
      /\ b < Len(input) => ~Lexer!IsIdentContinue(input[b + 1])
  BY <1>1, IdentSizeIs
<1> HIDE DEF n
<1>4. b \in Nat /\ at < b /\ b <= Len(input) /\ b - at = n
  BY <1>2, <1>3
<1>5. ~Lexer!InComment(at + 1)
  BY <1>1, <1>2, NoComment
<1>6. \A k \in (at + 1)..b : input[k] \in {"letter", "digit"}
  BY <1>3 DEF Lexer!IsIdentContinue
<1>7. \A k \in (at + 2)..b : /\ k - 1 \in (at + 1)..b /\ k \in (at + 1)..b
                             /\ k # 1 /\ Lexer!IsIdentContinue(input[k - 1])
  <2>1. \A k \in (at + 2)..b : k - 1 \in (at + 1)..b /\ k \in (at + 1)..b /\ k # 1
    BY <1>2, <1>4
  <2> QED
    BY <1>3, <2>1
<1>8. \A k \in (at + 1)..b : ~Lexer!IsBad(k)
  <2> SUFFICES ASSUME NEW k \in (at + 1)..b PROVE ~Lexer!IsBad(k)
    OBVIOUS
  <2>1. CASE k = at + 1
    BY <1>1, <2>1 DEF Lexer!IsBad
  <2>2. CASE k \in (at + 2)..b
    BY <1>6, <1>7, <2>2 DEF Lexer!IsBad
  <2> QED
    BY <1>2, <1>4, <2>1, <2>2
<1>9. \A k \in (at + 2)..b : ~Lexer!IsStart(k)
  BY <1>6, <1>7 DEF Lexer!IsStart
<1>10. Lexer!IsStart(at + 1)
  <2>1. at + 1 = 1 \/ ~Lexer!IsIdentContinue(input[(at + 1) - 1])
    <3> SUFFICES ASSUME at # 0 PROVE ~Lexer!IsIdentContinue(input[at])
      BY <1>2
    <3>1. at \in 1..(Len(input) - 1) /\ Lexer!IsIdentContinue(input[at + 1])
      BY <1>1, <1>2 DEF Lexer!IsIdentContinue
    <3> QED
      BY <1>2, <3>1 DEF Between
  <2> QED
    BY <1>1, <1>5, <2>1 DEF Lexer!IsStart
<1>11. t \in TokenRecord /\ Lexer!TokenAt(t, at + 1)
  <2>1. t \in TokenRecord
    BY <1>2, <1>3 DEF TokenRecord
  <2>2. (at + 1) + t.size - 1 = b /\ (at + 1) + t.size = b + 1
    BY <1>2, <1>3
  <2>3. DOMAIN input = 1..Len(input)
    BY DEF LexerInv
  <2>4. \A j \in (at + 1)..b : j \in DOMAIN input /\ Lexer!IsIdentContinue(input[j])
    BY <1>2, <1>3, <1>4, <2>3
  <2>5. b + 1 \in DOMAIN input => ~Lexer!IsIdentContinue(input[b + 1])
    BY <1>3, <1>4, <2>3
  <2>6. t.kind = "ident" /\ t.line = Lexer!Line(at + 1) /\ t.col = Lexer!Column(at + 1)
    BY <1>2
  <2> HIDE DEF t
  <2> QED
    BY <2>1, <2>2, <2>4, <2>5, <2>6 DEF Lexer!TokenAt
<1>12. LexedTo(b, Append(out, t))
  <2> HIDE DEF t, b
  <2> QED
    BY <1>2, <1>4, <1>8, <1>9, <1>10, <1>11, LexedPush
<1>13. Between(b)
  <2> SUFFICES ASSUME b \in 1..(Len(input) - 1)
               PROVE  /\ ~Lexer!InComment(b)
                      /\ ~(Lexer!IsIdentContinue(input[b]) /\ Lexer!IsIdentContinue(input[b + 1]))
    BY DEF Between
  <2>1. \A k \in 0..n : k \in {i \in 0..n : i > 0 => ~Lexer!InComment(at + i)}
    <3> DEFINE S == {i \in 0..n : i > 0 => ~Lexer!InComment(at + i)}
    <3>1. n \in Nat /\ 0 \in S
      BY <1>3
    <3>2. ASSUME NEW i \in 0..(n - 1), i \in S
          PROVE  i + 1 \in S
      <4>1. i + 1 \in 0..n /\ at + (i + 1) \in (at + 1)..b
        BY <1>2, <1>3, <1>4
      <4>2. CASE i = 0
        BY <1>5, <4>1, <4>2
      <4>3. CASE i # 0
        <5>1. (at + (i + 1)) - 1 = at + i /\ ~Lexer!InComment(at + i)
          BY <1>2, <3>2, <4>3
        <5>2. input[at + (i + 1)] # "slash" /\ at + (i + 1) \in Nat \ {0}
          BY <1>2, <1>6, <4>1
        <5>3. ~Lexer!InComment(at + (i + 1))
          BY <5>1, <5>2, NoComment
        <5> QED
          BY <4>1, <5>3
      <4> QED
        BY <4>2, <4>3
    <3> HIDE DEF S
    <3>3. \A k \in 0..n : k \in S
      BY <3>1, <3>2, UpTo
    <3> QED
      BY <3>3 DEF S
  <2>2. n \in 0..n /\ n > 0
    BY <1>3
  <2>3. ~Lexer!InComment(b)
    BY <2>1, <2>2
  <2>4. b < Len(input)
    BY <1>2, <1>4
  <2> QED
    BY <1>3, <2>3, <2>4
<1>14. Lexer!Line(b + 1) = line /\ Lexer!Column(b + 1) = col + n
  <2>1. \A i \in (at + 1)..((b + 1) - 1) : input[i] # "newline"
    BY <1>2, <1>4, <1>6
  <2>2. at + 1 \in Nat \ {0} /\ b + 1 \in Nat \ {0} /\ at + 1 <= b + 1 /\ (b + 1) - (at + 1) = n
    BY <1>2, <1>3, <1>4
  <2> QED
    BY <1>2, <2>1, <2>2, SameLine
<1>15. LexState(b, line, col + n, Append(out, t))
  BY <1>2, <1>4, <1>12, <1>13, <1>14 DEF LexState
<1>16. LexState(at, line, col, out)'
  <2> HIDE DEF t, b
  <2> QED
    BY <1>1, <1>15, LexPrimed
<1> QED
  BY <1>1, <1>2, <1>16 DEF LexerInv

LEMMA BadPrimed ==
  ASSUME input' = input, at' = at, Lexer!IsBad(at + 1)
  PROVE  Lexer!IsBad(at + 1)'
BY DEF Lexer!IsBad, Lexer!InComment, Lexer!IsIdentContinue

LEMMA LexError ==
  ASSUME LexerInv, pc = "lex", Lexer!Slash \/ Lexer!Other
  PROVE  LexerInv'
<1>1. /\ pc' = "done" /\ outcome' = "error" /\ out' = out /\ line' = line /\ col' = col
      /\ input' = input /\ at' = at
  BY DEF Lexer!Slash, Lexer!Other, Lexer!Error
<1>2. /\ at \in Nat /\ Len(input) \in Nat /\ Between(at)
  BY LexerFacts
<1>3. at + 1 <= Len(input) /\ Lexer!IsBad(at + 1)
  <2>1. CASE Lexer!Slash
    <3>1. at + 1 <= Len(input) /\ input[at + 1] = "slash"
      BY <2>1, AheadIs DEF Lexer!Slash
    <3>2. at + 1 = Len(input) \/ input[(at + 1) + 1] # "slash"
      <4>1. CASE at + 2 <= Len(input)
        <5>1. Lexer!Ahead(2) = input[at + 2] /\ (at + 1) + 1 = at + 2
          BY <1>2, <4>1 DEF Lexer!Ahead
        <5> QED
          BY <2>1, <5>1 DEF Lexer!Slash
      <4>2. CASE at + 2 > Len(input)
        BY <1>2, <3>1, <4>2
      <4> QED
        BY <1>2, <4>1, <4>2
    <3>3. at + 1 = 1 \/ ~Lexer!InComment((at + 1) - 1)
      BY <1>2, <3>1, LexerFacts
    <3> QED
      BY <3>1, <3>2, <3>3 DEF Lexer!IsBad
  <2>2. CASE Lexer!Other
    <3>1. at + 1 <= Len(input) /\ input[at + 1] \in {"digit", "other"}
      BY <2>2, AheadIs DEF Lexer!Other
    <3>2. ~Lexer!InComment(at + 1)
      <4>1. at + 1 \in Nat \ {0} /\ input[at + 1] # "slash"
        BY <1>2, <3>1
      <4>2. at + 1 = 1 \/ ~Lexer!InComment((at + 1) - 1)
        BY <1>2, <3>1, LexerFacts
      <4> QED
        BY <4>1, <4>2, NoComment
    <3>3. CASE input[at + 1] = "other"
      BY <3>1, <3>2, <3>3 DEF Lexer!IsBad
    <3>4. CASE input[at + 1] = "digit"
      <4>1. at + 1 = 1 \/ ~Lexer!IsIdentContinue(input[(at + 1) - 1])
        <5> SUFFICES ASSUME at # 0 PROVE ~Lexer!IsIdentContinue(input[at])
          BY <1>2
        <5>1. at \in 1..(Len(input) - 1) /\ Lexer!IsIdentContinue(input[at + 1])
          BY <1>2, <3>1, <3>4 DEF Lexer!IsIdentContinue
        <5> QED
          BY <1>2, <5>1 DEF Between
      <4> QED
        BY <3>1, <3>2, <3>4, <4>1 DEF Lexer!IsBad
    <3> QED
      BY <3>1, <3>3, <3>4
  <2> QED
    BY <2>1, <2>2
<1>4. LexState(at, line, col, out)'
  <2>1. LexState(at, line, col, out)
    BY DEF LexerInv
  <2> QED
    BY <1>1, <2>1, LexPrimed
<1>5. at' < Len(input') /\ Lexer!IsBad(at + 1)'
  BY <1>1, <1>2, <1>3, BadPrimed
<1> QED
  BY <1>1, <1>4, <1>5 DEF LexerInv

LEMMA LexStep ==
  ASSUME LexerInv, Lexer!Next
  PROVE  LexerInv'
<1>1. CASE pc = "lex" /\ Lexer!EndOfText
  <2>1. /\ pc' = "done" /\ outcome' = "tokens" /\ out' = out /\ line' = line /\ col' = col
        /\ input' = input /\ at' = at
    BY <1>1 DEF Lexer!EndOfText
  <2>2. at = Len(input)
    BY <1>1, AheadIs DEF Lexer!EndOfText, LexerInv, LexState
  <2>3. LexState(at, line, col, out)'
    <3>1. LexState(at, line, col, out)
      BY DEF LexerInv
    <3> QED
      BY <2>1, <3>1, LexPrimed
  <2> QED
    BY <2>1, <2>2, <2>3 DEF LexerInv
<1>2. CASE Lexer!Finished
  <2>1. UNCHANGED <<input, at, line, col, out, outcome, pc>>
    BY <1>2 DEF Lexer!Finished, Lexer!vars
  <2>2. LexState(at, line, col, out)'
    <3>1. LexState(at, line, col, out)
      BY DEF LexerInv
    <3> QED
      BY <2>1, <3>1, LexPrimed
  <2> QED
    BY <2>1, <2>2, BadPrimed DEF LexerInv
<1> QED
  BY <1>1, <1>2, LexNewline, LexSpace, LexMark, LexComment, LexIdent, LexError
     DEF Lexer!Next, Lexer!Lex

LEMMA LexInit == Lexer!Init => LexerInv
<1> SUFFICES ASSUME Lexer!Init PROVE LexerInv
  OBVIOUS
<1>1. input \in Seq(Lexer!Chars) /\ Len(input) \in Nat
  <2>1. PICK n \in 0..MaxLength : input \in [1..n -> Lexer!Chars]
    BY DEF Lexer!Init
  <2>2. n \in Nat
    BY <2>1
  <2> QED
    BY <2>1, <2>2
<1>2. at = 0 /\ line = 1 /\ col = 1 /\ out = <<>> /\ outcome = "none" /\ pc = "lex"
  BY DEF Lexer!Init
<1>3. LexedTo(0, <<>>)
  <2>1. Lexer!Starts(0) = {}
    BY DEF Lexer!Starts
  <2>2. Cardinality(Lexer!Starts(0)) = 0
    BY <2>1, FS_EmptySet
  <2>3. <<>> \in Seq(TokenRecord) /\ Len(<<>>) = 0
    OBVIOUS
  <2> QED
    BY <2>1, <2>2, <2>3 DEF LexedTo
<1>4. LexState(0, 1, 1, <<>>)
  BY <1>1, <1>3, FirstPlace DEF LexState, Between
<1> QED
  BY <1>1, <1>2, <1>4 DEF LexerInv

LEMMA LexedAt ==
  ASSUME LexerInv
  PROVE  Lexer!TokensExact /\ Lexer!ErrorExact
<1>1. /\ input \in Seq(Lexer!Chars) /\ at \in 0..Len(input) /\ Len(input) \in Nat
      /\ DOMAIN input = 1..Len(input) /\ LexedTo(at, out)
  BY DEF LexerInv, LexState
<1>2. Lexer!TokensExact
  <2> SUFFICES ASSUME outcome = "tokens"
               PROVE  /\ Lexer!Bad = {} /\ Len(out) = Cardinality(Lexer!Starts(Len(input)))
                      /\ \A k \in Lexer!Starts(Len(input)) :
                           Lexer!TokenAt(out[Cardinality(Lexer!Starts(k))], k)
    BY LexerCounts DEF Lexer!TokensExact
  <2>1. at = Len(input)
    BY DEF LexerInv
  <2> QED
    BY <1>1, <2>1 DEF LexedTo, Lexer!Bad
<1>3. Lexer!ErrorExact
  <2> SUFFICES ASSUME outcome = "error"
               PROVE  /\ Lexer!Bad # {} /\ line = Lexer!Line(Lexer!Min(Lexer!Bad))
                      /\ col = Lexer!Column(Lexer!Min(Lexer!Bad))
    BY DEF Lexer!ErrorExact
  <2>1. /\ at < Len(input) /\ Lexer!IsBad(at + 1)
        /\ line = Lexer!Line(at + 1) /\ col = Lexer!Column(at + 1)
    BY DEF LexerInv, LexState
  <2>2. at + 1 \in Lexer!Bad /\ Lexer!Bad \in SUBSET Int
    BY <1>1, <2>1 DEF Lexer!Bad
  <2>3. \A y \in Lexer!Bad : at + 1 <= y
    <3> SUFFICES ASSUME NEW y \in 1..Len(input), Lexer!IsBad(y) PROVE at + 1 <= y
      BY <1>1 DEF Lexer!Bad
    <3>1. y \notin 1..at
      BY <1>1 DEF LexedTo
    <3> QED
      BY <1>1, <3>1
  <2>4. Lexer!Min(Lexer!Bad) = at + 1
    BY <2>2, <2>3, LexerMin
  <2> QED
    BY <2>1, <2>2, <2>4
<1> QED
  BY <1>2, <1>3

-----------------------------------------------------------------------------
(* The text of rows.                                                       *)

(* Characters that neither end a line or a column nor are taken for the     *)
(* end of a line.                                                          *)
Plain == (Characters \cup {"bs", "t", "n", "r"}) \ {"tab", "nl", "cr"}

LEMMA EscapeCharType ==
  ASSUME NEW c \in Characters
  PROVE  /\ Rows!EscapeChar(c) \in Seq(Plain)
         /\ c \in Rows!Special => Rows!EscapeChar(c) = <<"bs", Rows!Letter[c]>>
         /\ c \notin Rows!Special => Rows!EscapeChar(c) = <<c>>
<1>1. CASE c \in Rows!Special
  <2>1. Rows!Letter[c] \in {"bs", "t", "n", "r"}
    BY <1>1 DEF Rows!Letter, Rows!Special
  <2>2. "bs" \in Plain /\ Rows!Letter[c] \in Plain
    BY <2>1 DEF Plain
  <2> QED
    BY <1>1, <2>2 DEF Rows!EscapeChar
<1>2. CASE c \notin Rows!Special
  <2>1. c \in Plain
    BY <1>2 DEF Plain, Rows!Special
  <2> QED
    BY <1>2, <2>1 DEF Rows!EscapeChar
<1> QED
  BY <1>1, <1>2

LEMMA LettersDiffer ==
  ASSUME NEW c \in Rows!Special
  PROVE  /\ \E s \in Rows!Special : Rows!Letter[s] = Rows!Letter[c]
         /\ (CHOOSE s \in Rows!Special : Rows!Letter[s] = Rows!Letter[c]) = c
<1>1. \A s \in Rows!Special : Rows!Letter[s] = Rows!Letter[c] => s = c
  BY DEF Rows!Letter, Rows!Special
<1> QED
  BY <1>1

LEMMA Concat ==
  ASSUME NEW S, NEW a \in Seq(S), NEW b \in Seq(S)
  PROVE  /\ a \o b \in Seq(S) /\ Len(a \o b) = Len(a) + Len(b) /\ Len(a) <= Len(a \o b)
         /\ \A i \in 1..Len(a) : (a \o b)[i] = a[i]
         /\ \A i \in 1..Len(b) : (a \o b)[Len(a) + i] = b[i]
OBVIOUS

(* The escaped beginnings of a text. *)
Escapes(f, text) ==
  /\ f \in [0..Len(text) -> Seq(Plain)] /\ f[0] = <<>>
  /\ \A k \in 1..Len(text) : f[k] = f[k - 1] \o Rows!EscapeChar(text[k])

LEMMA EscapeIs ==
  ASSUME NEW text \in Seq(Characters)
  PROVE  \E f : Escapes(f, text) /\ Rows!Escape(text) = f[Len(text)]
<1> DEFINE n       == Len(text)
           d       == [k \in 1..n |-> [x \in Seq(Plain) |-> x \o Rows!EscapeChar(text[k])]]
           step(g) == [k \in 0..n |-> IF k = 0 THEN <<>>
                                      ELSE g[k - 1] \o Rows!EscapeChar(text[k])]
<1>1. n \in Nat /\ \A k \in 1..n : text[k] \in Characters
  OBVIOUS
<1>2. <<>> \in Seq(Plain) /\ \A k \in 1..n : d[k] \in [Seq(Plain) -> Seq(Plain)]
  <2>1. \A k \in 1..n : Rows!EscapeChar(text[k]) \in Seq(Plain)
    BY <1>1, EscapeCharType
  <2> QED
    BY <2>1
<1>3. \E f \in [0..n -> Seq(Plain)] : Runs(f, <<>>, d, n)
  <2> HIDE DEF n, d
  <2> QED
    BY <1>1, <1>2, RunsExist
<1>4. PICK f \in [0..n -> Seq(Plain)] : Runs(f, <<>>, d, n)
  BY <1>3
<1>5. Escapes(f, text)
  <2>1. ASSUME NEW k \in 1..n
        PROVE  f[k] = d[k][f[k - 1]] /\ f[k - 1] \in Seq(Plain)
    <3>1. k - 1 \in 0..n
      BY <1>1
    <3> HIDE DEF d
    <3> QED
      BY <1>4, <3>1 DEF Runs
  <2>2. \A k \in 1..n : f[k] = f[k - 1] \o Rows!EscapeChar(text[k])
    BY <2>1
  <2> QED
    BY <1>4, <2>2 DEF Escapes, Runs
<1> HIDE DEF d
<1>6. f = step(f)
  <2>1. \A k \in 0..n : k = 0 \/ k \in 1..n
    BY <1>1
  <2>2. \A k \in 0..n : f[k] = IF k = 0 THEN <<>> ELSE f[k - 1] \o Rows!EscapeChar(text[k])
    BY <1>5, <2>1, Zenon DEF Escapes
  <2>3. f = [k \in 0..n |-> f[k]]
    BY <1>4
  <2> QED
    BY <2>2, <2>3
<1> DEFINE c == CHOOSE g : g = step(g)
<1>7. c = step(c)
  BY <1>6, Zenon
<1>8. Rows!Escape(text) = c[n]
  BY DEF Rows!Escape
<1> HIDE DEF c
<1>9. \A k \in 0..n : c[k] = f[k]
  <2> DEFINE S == {k \in 0..n : c[k] = f[k]}
  <2>1. 0 \in S
    BY <1>1, <1>6, <1>7
  <2>2. ASSUME NEW k \in 0..(n - 1), k \in S
        PROVE  k + 1 \in S
    <3>1. k + 1 \in 0..n /\ k + 1 # 0 /\ (k + 1) - 1 = k
      BY <1>1
    <3>2. c[k + 1] = c[k] \o Rows!EscapeChar(text[k + 1])
      BY <1>7, <3>1
    <3>3. f[k + 1] = f[k] \o Rows!EscapeChar(text[k + 1])
      BY <1>6, <3>1
    <3> QED
      BY <2>2, <3>1, <3>2, <3>3
  <2>3. \A k \in 0..n : k \in S
    <3> HIDE DEF S, n
    <3> QED
      BY <1>1, <2>1, <2>2, UpTo
  <2> QED
    BY <2>3
<1>10. n \in 0..n
  BY <1>1
<1> QED
  BY <1>5, <1>8, <1>9, <1>10

LEMMA EscapeType ==
  ASSUME NEW text \in Seq(Characters)
  PROVE  Rows!Escape(text) \in Seq(Plain)
<1>1. PICK f : Escapes(f, text) /\ Rows!Escape(text) = f[Len(text)]
  BY EscapeIs
<1>2. Len(text) \in 0..Len(text)
  OBVIOUS
<1> QED
  BY <1>1, <1>2 DEF Escapes

(* The escaped beginnings of a text are beginnings of the escaped text. *)
LEMMA EscapedPrefix ==
  ASSUME NEW text \in Seq(Characters), NEW f, Escapes(f, text), NEW k \in 0..Len(text)
  PROVE  /\ Len(f[k]) <= Len(f[Len(text)])
         /\ \A i \in 1..Len(f[k]) : f[Len(text)][i] = f[k][i]
<1> DEFINE n == Len(text)
           Begins(j) == /\ Len(f[j]) <= Len(f[n])
                        /\ \A i \in 1..Len(f[j]) : f[n][i] = f[j][i]
           S == {m \in 0..n : Begins(n - m)}
<1>1. n \in Nat /\ f \in [0..n -> Seq(Plain)]
  BY DEF Escapes
<1>2. 0 \in S
  BY <1>1
<1>3. ASSUME NEW m \in 0..(n - 1), m \in S
      PROVE  m + 1 \in S
  <2> DEFINE j == n - (m + 1)
  <2>1. j \in 0..n /\ j + 1 \in 1..n /\ j + 1 = n - m /\ m + 1 \in 0..n /\ (j + 1) - 1 = j
    BY <1>1
  <2>2. Begins(j + 1)
    BY <1>3, <2>1
  <2>3. f[j + 1] = f[j] \o Rows!EscapeChar(text[j + 1])
    BY <2>1 DEF Escapes
  <2>4. Rows!EscapeChar(text[j + 1]) \in Seq(Plain) /\ f[j] \in Seq(Plain) /\ f[n] \in Seq(Plain)
    <3>1. text[j + 1] \in Characters /\ n \in 0..n
      BY <1>1, <2>1
    <3> HIDE DEF n, j
    <3> QED
      BY <1>1, <2>1, <3>1, EscapeCharType
  <2> HIDE DEF j, n
  <2>5. Len(f[j]) <= Len(f[j + 1]) /\ \A i \in 1..Len(f[j]) : f[j + 1][i] = f[j][i]
    <3> DEFINE x == Rows!EscapeChar(text[j + 1])
    <3> HIDE DEF x
    <3>1. f[j] \in Seq(Plain) /\ x \in Seq(Plain) /\ f[j + 1] = f[j] \o x
      BY <2>3, <2>4 DEF x
    <3>2. /\ Len(f[j]) <= Len(f[j] \o x)
          /\ \A i \in 1..Len(f[j]) : (f[j] \o x)[i] = f[j][i]
      BY <3>1, Concat
    <3> QED
      BY <3>1, <3>2
  <2>6. Begins(j)
    BY <2>2, <2>4, <2>5
  <2> QED
    BY <2>1, <2>6 DEF j
<1>4. \A m \in 0..n : m \in S
  <2> HIDE DEF S, n
  <2> QED
    BY <1>1, <1>2, <1>3, UpTo
<1>5. n - k \in 0..n /\ n - (n - k) = k
  BY <1>1
<1> QED
  BY <1>4, <1>5

AnyChar == Characters \cup {"bs", "t", "n", "r", "tab", "nl", "cr"}

AnyText == Seq(AnyChar)

ReadState == [ok : BOOLEAN, escaped : BOOLEAN, out : AnyText]

Fresh == [ok |-> TRUE, escaped |-> FALSE, out |-> <<>>]

LEMMA UnescapeCharType ==
  ASSUME NEW s \in ReadState, NEW c \in AnyChar
  PROVE  Rows!UnescapeChar(s, c) \in ReadState
<1>1. /\ s.ok \in BOOLEAN /\ s.escaped \in BOOLEAN /\ s.out \in AnyText
      /\ s = [ok |-> s.ok, escaped |-> s.escaped, out |-> s.out]
  BY DEF ReadState
<1>2. Append(s.out, c) \in AnyText
  BY <1>1 DEF AnyText
<1>3. CASE ~s.escaped
  <2>1. Rows!UnescapeChar(s, c) = IF c = "bs" THEN [s EXCEPT !.escaped = TRUE]
                                             ELSE [s EXCEPT !.out = Append(@, c)]
    BY <1>3 DEF Rows!UnescapeChar
  <2>2. [s EXCEPT !.escaped = TRUE] \in ReadState
    BY DEF ReadState
  <2>3. [s EXCEPT !.out = Append(@, c)] \in ReadState
    BY <1>1, <1>2 DEF ReadState
  <2> QED
    BY <2>1, <2>2, <2>3
<1>4. CASE s.escaped /\ \E t \in Rows!Special : Rows!Letter[t] = c
  <2> DEFINE x == CHOOSE t \in Rows!Special : Rows!Letter[t] = c
  <2>1. Rows!UnescapeChar(s, c) = [s EXCEPT !.escaped = FALSE, !.out = Append(@, x)]
    BY <1>4 DEF Rows!UnescapeChar
  <2>2. x \in Rows!Special
    BY <1>4
  <2>3. x \in AnyChar
    BY <2>2 DEF Rows!Special, AnyChar
  <2> HIDE DEF x
  <2>4. Append(s.out, x) \in AnyText
    BY <1>1, <2>3 DEF AnyText
  <2> QED
    BY <1>1, <2>1, <2>4 DEF ReadState
<1>5. CASE s.escaped /\ ~\E t \in Rows!Special : Rows!Letter[t] = c
  <2>1. Rows!UnescapeChar(s, c) = [s EXCEPT !.ok = FALSE, !.escaped = FALSE]
    BY <1>5 DEF Rows!UnescapeChar
  <2> QED
    BY <1>1, <2>1 DEF ReadState
<1> QED
  BY <1>3, <1>4, <1>5

(* The states of the reader of an escaped text. *)
Reads(r, text) ==
  /\ r \in [0..Len(text) -> ReadState] /\ r[0] = Fresh
  /\ \A k \in 1..Len(text) : r[k] = Rows!UnescapeChar(r[k - 1], text[k])

LEMMA UnescapeIs ==
  ASSUME NEW text \in AnyText
  PROVE  \E r : /\ Reads(r, text)
                /\ Rows!Unescape(text) = [ok  |-> r[Len(text)].ok /\ ~r[Len(text)].escaped,
                                          out |-> r[Len(text)].out]
<1> DEFINE n       == Len(text)
           d       == [k \in 1..n |-> [x \in ReadState |-> Rows!UnescapeChar(x, text[k])]]
           step(g) == [k \in 0..n |-> IF k = 0 THEN [ok |-> TRUE, escaped |-> FALSE, out |-> <<>>]
                                      ELSE Rows!UnescapeChar(g[k - 1], text[k])]
<1>1. n \in Nat /\ \A k \in 1..n : text[k] \in AnyChar
  BY DEF AnyText
<1>2. Fresh \in ReadState /\ \A k \in 1..n : d[k] \in [ReadState -> ReadState]
  <2>1. \A k \in 1..n : \A x \in ReadState : Rows!UnescapeChar(x, text[k]) \in ReadState
    BY <1>1, UnescapeCharType
  <2>2. Fresh \in ReadState
    BY DEF Fresh, ReadState, AnyText
  <2> QED
    BY <2>1, <2>2
<1>3. \E f \in [0..n -> ReadState] : Runs(f, Fresh, d, n)
  <2> HIDE DEF n, d
  <2> QED
    BY <1>1, <1>2, RunsExist
<1>4. PICK f \in [0..n -> ReadState] : Runs(f, Fresh, d, n)
  BY <1>3
<1>5. Reads(f, text)
  <2>1. ASSUME NEW k \in 1..n
        PROVE  f[k] = d[k][f[k - 1]] /\ f[k - 1] \in ReadState
    <3>1. k - 1 \in 0..n
      BY <1>1
    <3> HIDE DEF d
    <3> QED
      BY <1>4, <3>1 DEF Runs
  <2>2. \A k \in 1..n : f[k] = Rows!UnescapeChar(f[k - 1], text[k])
    BY <2>1
  <2> QED
    BY <1>4, <2>2 DEF Reads, Runs
<1> HIDE DEF d
<1>6. f = step(f)
  <2>1. \A k \in 0..n : k = 0 \/ k \in 1..n
    BY <1>1
  <2>2. \A k \in 0..n : f[k] = IF k = 0 THEN [ok |-> TRUE, escaped |-> FALSE, out |-> <<>>]
                               ELSE Rows!UnescapeChar(f[k - 1], text[k])
    BY <1>5, <2>1 DEF Reads, Fresh
  <2>3. f = [k \in 0..n |-> f[k]]
    BY <1>4
  <2> QED
    BY <2>2, <2>3
<1> DEFINE c == CHOOSE g : g = step(g)
<1>7. c = step(c)
  BY <1>6
<1>8. Rows!Unescape(text) = [ok |-> c[n].ok /\ ~c[n].escaped, out |-> c[n].out]
  BY DEF Rows!Unescape
<1> HIDE DEF c
<1>9. \A k \in 0..n : c[k] = f[k]
  <2> DEFINE S == {k \in 0..n : c[k] = f[k]}
  <2>1. 0 \in S
    BY <1>1, <1>6, <1>7
  <2>2. ASSUME NEW k \in 0..(n - 1), k \in S
        PROVE  k + 1 \in S
    <3>1. k + 1 \in 0..n /\ k + 1 # 0 /\ (k + 1) - 1 = k
      BY <1>1
    <3>2. c[k + 1] = Rows!UnescapeChar(c[k], text[k + 1])
      BY <1>7, <3>1
    <3>3. f[k + 1] = Rows!UnescapeChar(f[k], text[k + 1])
      BY <1>6, <3>1
    <3> QED
      BY <2>2, <3>1, <3>2, <3>3
  <2>3. \A k \in 0..n : k \in S
    <3> HIDE DEF S, n
    <3> QED
      BY <1>1, <2>1, <2>2, UpTo
  <2> QED
    BY <2>3
<1>10. c[n] = f[n]
  BY <1>1, <1>9
<1> QED
  BY <1>5, <1>8, <1>10

LEMMA UnescapeBackslash ==
  ASSUME NEW o
  PROVE  Rows!UnescapeChar([ok |-> TRUE, escaped |-> FALSE, out |-> o], "bs")
           = [ok |-> TRUE, escaped |-> TRUE, out |-> o]
BY DEF Rows!UnescapeChar

LEMMA UnescapeOther ==
  ASSUME NEW o, NEW c, c # "bs"
  PROVE  Rows!UnescapeChar([ok |-> TRUE, escaped |-> FALSE, out |-> o], c)
           = [ok |-> TRUE, escaped |-> FALSE, out |-> Append(o, c)]
BY DEF Rows!UnescapeChar

LEMMA UnescapeLetter ==
  ASSUME NEW o, NEW c \in Rows!Special
  PROVE  Rows!UnescapeChar([ok |-> TRUE, escaped |-> TRUE, out |-> o], Rows!Letter[c])
           = [ok |-> TRUE, escaped |-> FALSE, out |-> Append(o, c)]
<1> DEFINE x == Rows!Letter[c]
           y == CHOOSE t \in Rows!Special : Rows!Letter[t] = x
           s == [ok |-> TRUE, escaped |-> TRUE, out |-> o]
<1>1. (\E t \in Rows!Special : Rows!Letter[t] = x) /\ y = c
  BY LettersDiffer
<1>2. Rows!UnescapeChar(s, x) = [s EXCEPT !.escaped = FALSE, !.out = Append(@, y)]
  <2> HIDE DEF x
  <2> QED
    BY <1>1 DEF Rows!UnescapeChar
<1> HIDE DEF x, y
<1> QED
  BY <1>1, <1>2 DEF x

(* What escape_six_value wrote, unescape_six_value reads. *)
LEMMA EscapeReadsBack ==
  ASSUME NEW text \in Seq(Characters)
  PROVE  Rows!Unescape(Rows!Escape(text)) = [ok |-> TRUE, out |-> text]
<1> DEFINE n == Len(text)
           e == Rows!Escape(text)
<1>1. PICK f : Escapes(f, text) /\ e = f[n]
  BY EscapeIs
<1>2. e \in AnyText
  <2>1. e \in Seq(Plain) /\ Plain \subseteq AnyChar
    BY EscapeType DEF Plain, AnyChar
  <2> HIDE DEF e
  <2> QED
    BY <2>1 DEF AnyText
<1>3. PICK r : /\ Reads(r, e)
               /\ Rows!Unescape(e) = [ok |-> r[Len(e)].ok /\ ~r[Len(e)].escaped, out |-> r[Len(e)].out]
  BY <1>2, UnescapeIs
<1> DEFINE state(k) == [ok |-> TRUE, escaped |-> FALSE, out |-> SubSeq(text, 1, k)]
           S        == {k \in 0..n : r[Len(f[k])] = state(k)}
<1>4. n \in Nat /\ \A k \in 0..n : f[k] \in Seq(Plain) /\ Len(f[k]) \in Nat
  <2>1. \A k \in 0..n : f[k] \in Seq(Plain)
    BY <1>1 DEF Escapes
  <2> QED
    BY <2>1
<1>5. 0 \in S
  <2>1. Len(f[0]) = 0 /\ SubSeq(text, 1, 0) = <<>>
    BY <1>1 DEF Escapes
  <2>2. r[0] = state(0)
    BY <1>3, <2>1 DEF Reads, Fresh
  <2> HIDE DEF e, state
  <2> QED
    BY <1>4, <2>1, <2>2
<1>6. ASSUME NEW k \in 0..(n - 1), k \in S
      PROVE  k + 1 \in S
  <2> DEFINE c == text[k + 1]
             p == Len(f[k])
  <2>1. k \in 0..n /\ k + 1 \in 0..n /\ k + 1 \in 1..n /\ (k + 1) - 1 = k /\ c \in Characters
    BY <1>4
  <2>2. f[k + 1] = f[k] \o Rows!EscapeChar(c)
    BY <1>1, <2>1 DEF Escapes
  <2>3. r[p] = state(k)
    BY <1>6
  <2>4. /\ Len(f[k + 1]) <= Len(e)
        /\ \A i \in 1..Len(f[k + 1]) : e[i] = f[k + 1][i]
    BY <1>1, <2>1, EscapedPrefix
  <2>5. SubSeq(text, 1, k + 1) = Append(SubSeq(text, 1, k), c)
    BY <2>1
  <2>6. p \in Nat /\ Len(f[k + 1]) \in Nat /\ Len(e) \in Nat
    <3>1. n \in 0..n
      BY <1>4
    <3> HIDE DEF n
    <3> QED
      BY <1>1, <1>4, <2>1, <3>1
  <2>7. /\ Rows!EscapeChar(c) \in Seq(Plain)
        /\ c \in Rows!Special => Rows!EscapeChar(c) = <<"bs", Rows!Letter[c]>>
        /\ c \notin Rows!Special => Rows!EscapeChar(c) = <<c>>
    BY <2>1, EscapeCharType
  <2> HIDE DEF c, p, e, n
  <2>8. /\ Len(f[k + 1]) = p + Len(Rows!EscapeChar(c))
        /\ \A i \in 1..Len(Rows!EscapeChar(c)) : f[k + 1][p + i] = Rows!EscapeChar(c)[i]
    <3> DEFINE x == Rows!EscapeChar(c)
               y == f[k]
    <3>1. y \in Seq(Plain) /\ x \in Seq(Plain)
      BY <1>4, <2>1, <2>2, <2>7
    <3>2. f[k + 1] = y \o x /\ p = Len(y)
      BY <1>4, <2>1, <2>2, <2>7 DEF p
    <3> HIDE DEF x, y
    <3>3. /\ Len(y \o x) = Len(y) + Len(x)
          /\ \A i \in 1..Len(x) : (y \o x)[Len(y) + i] = x[i]
      BY <3>1, Concat
    <3>4. Len(f[k + 1]) = p + Len(x) /\ \A i \in 1..Len(x) : f[k + 1][p + i] = x[i]
      BY <3>2, <3>3
    <3> QED
      BY <3>4 DEF x
  <2>9. \A j \in 1..Len(e) : r[j] = Rows!UnescapeChar(r[j - 1], e[j])
    BY <1>3 DEF Reads
  <2>10. CASE c \in Rows!Special
    <3>1. Len(f[k + 1]) = p + 2 /\ f[k + 1][p + 1] = "bs" /\ f[k + 1][p + 2] = Rows!Letter[c]
      <4> DEFINE x == Rows!EscapeChar(c)
      <4>1. Len(x) = 2 /\ x[1] = "bs" /\ x[2] = Rows!Letter[c]
        BY <2>7, <2>10
      <4> HIDE DEF x
      <4>2. Len(f[k + 1]) = p + Len(x) /\ \A i \in 1..Len(x) : f[k + 1][p + i] = x[i]
        BY <2>8 DEF x
      <4> QED
        BY <4>1, <4>2
    <3>2. /\ p + 1 \in 1..Len(f[k + 1]) /\ p + 2 \in 1..Len(f[k + 1])
          /\ p + 1 \in 1..Len(e) /\ p + 2 \in 1..Len(e)
          /\ (p + 1) - 1 = p /\ (p + 2) - 1 = p + 1
      BY <2>4, <2>6, <3>1, SMTT(30)
    <3>3. e[p + 1] = "bs" /\ e[p + 2] = Rows!Letter[c]
      BY <2>4, <3>1, <3>2
    <3>4. r[p + 1] = Rows!UnescapeChar(r[p], "bs")
      BY <2>9, <3>2, <3>3
    <3>5. r[p + 2] = Rows!UnescapeChar(r[p + 1], Rows!Letter[c])
      BY <2>9, <3>2, <3>3
    <3>6. r[p + 1] = [ok |-> TRUE, escaped |-> TRUE, out |-> SubSeq(text, 1, k)]
      BY <2>3, <3>4, UnescapeBackslash
    <3>7. r[p + 2] = [ok |-> TRUE, escaped |-> FALSE, out |-> Append(SubSeq(text, 1, k), c)]
      BY <2>10, <3>5, <3>6, UnescapeLetter
    <3> QED
      BY <2>1, <2>5, <3>1, <3>7
  <2>11. CASE c \notin Rows!Special
    <3>1. Len(f[k + 1]) = p + 1 /\ f[k + 1][p + 1] = c
      <4> DEFINE x == Rows!EscapeChar(c)
      <4>1. Len(x) = 1 /\ x[1] = c
        BY <2>7, <2>11
      <4> HIDE DEF x
      <4>2. Len(f[k + 1]) = p + Len(x) /\ \A i \in 1..Len(x) : f[k + 1][p + i] = x[i]
        BY <2>8 DEF x
      <4> QED
        BY <4>1, <4>2
    <3>2. p + 1 \in 1..Len(f[k + 1]) /\ p + 1 \in 1..Len(e) /\ (p + 1) - 1 = p
      BY <2>4, <2>6, <3>1
    <3>3. e[p + 1] = c
      BY <2>4, <3>1, <3>2
    <3>4. r[p + 1] = Rows!UnescapeChar(r[p], c)
      BY <2>9, <3>2, <3>3
    <3>5. c # "bs"
      BY <2>11 DEF Rows!Special
    <3>6. r[p + 1] = [ok |-> TRUE, escaped |-> FALSE, out |-> Append(SubSeq(text, 1, k), c)]
      BY <2>3, <3>4, <3>5, UnescapeOther
    <3> QED
      BY <2>1, <2>5, <3>1, <3>6
  <2> QED
    BY <2>10, <2>11
<1>7. \A k \in 0..n : k \in S
  <2> HIDE DEF S, n
  <2> QED
    BY <1>4, <1>5, <1>6, UpTo
<1>8. r[Len(e)] = state(n)
  <2>1. n \in 0..n
    BY <1>4
  <2> QED
    BY <1>1, <1>7, <2>1
<1>9. SubSeq(text, 1, n) = text
  OBVIOUS
<1>10. r[Len(e)].ok = TRUE /\ r[Len(e)].escaped = FALSE /\ r[Len(e)].out = text
  BY <1>8, <1>9
<1> HIDE DEF e
<1>11. (r[Len(e)].ok /\ ~r[Len(e)].escaped) = TRUE
  BY <1>10
<1> QED
  BY <1>3, <1>10, <1>11 DEF e

(* Columns. *)
LEMMA RowsCounts == \A S : Rows!Cardinality(S) = Cardinality(S)
  BY DEF Rows!Cardinality, Cardinality

LEMMA RowsMin ==
  ASSUME NEW S \in SUBSET Int, NEW m \in S, \A y \in S : m <= y
  PROVE  Rows!Min(S) = m
<1>1. \A y \in S : m =< y
  OBVIOUS
<1> DEFINE n == Rows!Min(S)
<1>2. n \in S /\ \A y \in S : n =< y
  BY <1>1 DEF Rows!Min
<1> HIDE DEF n
<1>3. n \in Int /\ m \in Int /\ n <= m /\ m <= n
  BY <1>2
<1>4. n = m
  BY <1>3
<1> QED
  BY <1>4 DEF n

LEMMA RowsMax ==
  ASSUME NEW S \in SUBSET Int, NEW m \in S, \A y \in S : y <= m
  PROVE  Rows!Max(S) = m
<1>1. \A y \in S : m >= y
  OBVIOUS
<1> DEFINE n == Rows!Max(S)
<1>2. n \in S /\ \A y \in S : n >= y
  BY <1>1 DEF Rows!Max
<1> HIDE DEF n
<1>3. n \in Int /\ m \in Int /\ n <= m /\ m <= n
  BY <1>2
<1>4. n = m
  BY <1>3
<1> QED
  BY <1>4 DEF n

LEMMA SubSeqIs ==
  ASSUME NEW S, NEW t \in Seq(S), NEW m \in 1..(Len(t) + 1), NEW n \in (m - 1)..Len(t)
  PROVE  /\ SubSeq(t, m, n) \in Seq(S) /\ Len(SubSeq(t, m, n)) = n - m + 1
         /\ \A i \in 1..(n - m + 1) : SubSeq(t, m, n)[i] = t[m + i - 1]
OBVIOUS

(* The text t is the column a, a tab, and the rest b. *)
Splits(t, a, b) ==
  /\ Len(t) = (Len(a) + 1) + Len(b) /\ t[Len(a) + 1] = "tab"
  /\ \A i \in 1..Len(a) : t[i] = a[i] /\ a[i] # "tab"
  /\ \A i \in 1..Len(b) : t[(Len(a) + 1) + i] = b[i]

LEMMA SplitsAtTab ==
  ASSUME NEW S, NEW t \in Seq(S), NEW a \in Seq(S), NEW b \in Seq(S), Splits(t, a, b)
  PROVE  Rows!Column(t) = a /\ Rows!Rest(t) = b /\ Len(a) + 1 \in Rows!Tabs(t)
<1>1. PICK m \in Nat : m = Len(a)
  OBVIOUS
<1>2. PICK n \in Nat : n = Len(b)
  OBVIOUS
<1>3. /\ Len(t) = (m + 1) + n /\ t[m + 1] = "tab" /\ DOMAIN t = 1..Len(t)
      /\ \A i \in 1..m : t[i] = a[i] /\ a[i] # "tab"
      /\ \A i \in 1..n : t[(m + 1) + i] = b[i]
  BY <1>1, <1>2 DEF Splits
<1>4. m + 1 \in Rows!Tabs(t)
  BY <1>3 DEF Rows!Tabs
<1>5. Rows!FirstTab(t) = m + 1
  <2> DEFINE T == Rows!Tabs(t) \cup {Len(t) + 1}
  <2>1. T \in SUBSET Int /\ m + 1 \in T
    BY <1>3, <1>4 DEF Rows!Tabs
  <2>2. \A y \in T : m + 1 <= y
    BY <1>3 DEF Rows!Tabs
  <2>3. Rows!Min(T) = m + 1
    <3> HIDE DEF T
    <3> QED
      BY <2>1, <2>2, RowsMin
  <2> QED
    BY <2>3 DEF Rows!FirstTab
<1>6. Rows!Column(t) = SubSeq(t, 1, m) /\ Rows!Rest(t) = SubSeq(t, m + 2, Len(t))
  BY <1>5 DEF Rows!Column, Rows!Rest
<1>7. SubSeq(t, 1, m) = a
  <2>1. /\ SubSeq(t, 1, m) \in Seq(S) /\ Len(SubSeq(t, 1, m)) = m
        /\ \A i \in 1..m : SubSeq(t, 1, m)[i] = t[i]
    <3>1. 1 \in 1..(Len(t) + 1) /\ m \in (1 - 1)..Len(t) /\ m - 1 + 1 = m
          /\ \A i \in 1..m : 1 + i - 1 = i
      BY <1>3
    <3> QED
      BY <3>1, SubSeqIs
  <2> QED
    BY <1>1, <1>3, <2>1, SeqEqual
<1>8. SubSeq(t, m + 2, Len(t)) = b
  <2> DEFINE s == SubSeq(t, m + 2, Len(t))
  <2>1. /\ s \in Seq(S) /\ Len(s) = n
        /\ \A i \in 1..n : s[i] = t[(m + 1) + i]
    <3>1. m + 2 \in 1..(Len(t) + 1) /\ Len(t) \in ((m + 2) - 1)..Len(t)
          /\ Len(t) - (m + 2) + 1 = n /\ \A i \in 1..n : (m + 2) + i - 1 = (m + 1) + i
      BY <1>3
    <3> QED
      BY <3>1, SubSeqIs
  <2> HIDE DEF s
  <2>2. s = b
    BY <1>2, <1>3, <2>1, SeqEqual
  <2> QED
    BY <2>2 DEF s
<1> QED
  BY <1>1, <1>4, <1>6, <1>7, <1>8

LEMMA ConcatSplits ==
  ASSUME NEW S, NEW a \in Seq(S), NEW b \in Seq(S), "tab" \in S,
         \A i \in 1..Len(a) : a[i] # "tab"
  PROVE  a \o <<"tab">> \o b \in Seq(S) /\ Splits(a \o <<"tab">> \o b, a, b)
<1> DEFINE c == a \o <<"tab">>
<1>1. <<"tab">> \in Seq(S) /\ Len(<<"tab">>) = 1 /\ <<"tab">>[1] = "tab"
  OBVIOUS
<1>2. /\ c \in Seq(S) /\ Len(c) = Len(a) + 1 /\ c[Len(a) + 1] = "tab"
      /\ \A i \in 1..Len(a) : c[i] = a[i]
  BY <1>1
<1> HIDE DEF c
<1>3. /\ c \o b \in Seq(S) /\ Len(c \o b) = Len(c) + Len(b)
      /\ \A i \in 1..Len(c) : (c \o b)[i] = c[i]
      /\ \A i \in 1..Len(b) : (c \o b)[Len(c) + i] = b[i]
  <2>1. c \in Seq(S)
    BY <1>2
  <2> QED
    BY <2>1, Concat
<1>4. \A i \in 1..Len(a) : i \in 1..Len(c)
  BY <1>2
<1>5. Len(a) + 1 \in 1..Len(c)
  BY <1>2
<1>6. Splits(c \o b, a, b)
  BY <1>2, <1>3, <1>4, <1>5 DEF Splits
<1> QED
  BY <1>3, <1>6 DEF c

(* A text without a tab is one column. *)
LEMMA OneColumn ==
  ASSUME NEW S, NEW t \in Seq(S), \A i \in 1..Len(t) : t[i] # "tab"
  PROVE  Rows!Tabs(t) = {} /\ Rows!Column(t) = t
<1>1. Rows!Tabs(t) = {}
  BY DEF Rows!Tabs
<1>2. Rows!FirstTab(t) = Len(t) + 1
  <2>1. Rows!Tabs(t) \cup {Len(t) + 1} = {Len(t) + 1}
    BY <1>1
  <2>2. Len(t) + 1 \in Int
    OBVIOUS
  <2>3. Rows!Min({Len(t) + 1}) = Len(t) + 1
    BY <2>2, RowsMin
  <2> QED
    BY <2>1, <2>3 DEF Rows!FirstTab
<1>3. Rows!Column(t) = SubSeq(t, 1, Len(t))
  BY <1>2 DEF Rows!Column
<1> QED
  BY <1>1, <1>3

(* An operation of tx id n that the checks let through. *)
Valid(o, n) ==
  /\ n \in 1..9 /\ o.op \in {"put", "delete"} /\ o.tx = n /\ o.id \in Seq(Characters)
  /\ o.op = "put" => o.body \in Bodies[kind] /\ o.body.type = kind
  /\ o.op = "delete" => o.body = Rows!NoBody

RowChar == Plain \cup {"tab"}

LineChar == RowChar \cup {"R", "D"} \cup {Rows!Digits[n] : n \in 1..9}

LEMMA DigitsAre ==
  /\ \A n \in 1..9 : Rows!Digits[n] \notin {"tab", "nl", "cr"}
  /\ \A m \in 1..9, n \in 1..9 : Rows!Digits[m] = Rows!Digits[n] => m = n
BY DEF Rows!Digits

LEMMA LineCharsPlain == "nl" \notin LineChar /\ "cr" \notin LineChar /\ "tab" \in LineChar
<1>1. \A n \in 1..9 : Rows!Digits[n] # "nl" /\ Rows!Digits[n] # "cr"
  BY DigitsAre
<1> QED
  BY <1>1 DEF LineChar, RowChar, Plain

LEMMA SeqWider ==
  ASSUME NEW S, NEW T, S \subseteq T, NEW s \in Seq(S)
  PROVE  s \in Seq(T)
OBVIOUS

LEMMA EscapedColumn ==
  ASSUME NEW text \in Seq(Characters)
  PROVE  /\ Rows!Escape(text) \in Seq(RowChar)
         /\ \A i \in 1..Len(Rows!Escape(text)) : Rows!Escape(text)[i] # "tab"
<1> DEFINE e == Rows!Escape(text)
<1>1. e \in Seq(Plain)
  BY EscapeType
<1> HIDE DEF e
<1>2. \A i \in 1..Len(e) : e[i] \in Plain
  BY <1>1
<1>3. Plain \subseteq RowChar
  BY DEF RowChar
<1>4. e \in Seq(RowChar)
  BY <1>1, <1>3, SeqWider
<1> QED
  BY <1>2, <1>4 DEF e, Plain

Record(o) == [ok |-> TRUE, op |-> "put", tx |-> o.tx, id |-> o.id, body |-> o.body]

BodyFacts(o) ==
  /\ kind \in DOMAIN Bodies /\ o.body \in Bodies[kind] /\ o.body.type = kind

LEMMA BodyIs ==
  ASSUME NEW o, BodyFacts(o)
  PROVE  /\ o.body = [type |-> kind, text |-> o.body.text] /\ o.body.text \in Seq(Characters)
         /\ kind = "bool" => Rows!IsBool(o.body.text)
         /\ kind = "none" => o.body = Rows!NoBody
BY RowsAssumption DEF BodyFacts, RowBody

(* decode_six_row reads what encode_six_row wrote. *)
LEMMA RowReadsBack ==
  ASSUME NEW o, NEW n \in 1..9, Valid(o, n), o.op = "put", kind \in DOMAIN Bodies
  PROVE  /\ Rows!EncodeRow(o) \in Seq(RowChar)
         /\ Rows!DecodeRow(Rows!EncodeRow(o), n) = Record(o)
<1> DEFINE id  == Rows!Escape(o.id)
           raw == Rows!Escape(o.body.text)
<1>1. /\ o.id \in Seq(Characters) /\ o.tx = n /\ BodyFacts(o)
  BY DEF Valid, BodyFacts
<1>2. /\ o.body = [type |-> kind, text |-> o.body.text] /\ o.body.text \in Seq(Characters)
      /\ kind = "bool" => Rows!IsBool(o.body.text)
      /\ kind = "none" => o.body = Rows!NoBody
  BY <1>1, BodyIs
<1>3. /\ id \in Seq(RowChar) /\ raw \in Seq(RowChar)
      /\ \A i \in 1..Len(id) : id[i] # "tab"
      /\ \A i \in 1..Len(raw) : raw[i] # "tab"
  BY <1>1, <1>2, EscapedColumn
<1>4. /\ Rows!Unescape(id) = [ok |-> TRUE, out |-> o.id]
      /\ Rows!Unescape(raw) = [ok |-> TRUE, out |-> o.body.text]
  BY <1>1, <1>2, EscapeReadsBack
<1> HIDE DEF id, raw
<1>5. CASE kind = "none"
  <2>1. Rows!EncodeRow(o) = id
    BY <1>5 DEF Rows!EncodeRow, id
  <2>2. Rows!Tabs(id) = {} /\ Rows!Column(id) = id
    BY <1>3, OneColumn
  <2>3. Rows!Cardinality(Rows!Tabs(id)) = 0
    BY <2>2, RowsCounts, FS_EmptySet
  <2>4. Rows!DecodeRow(id, n) = [ok |-> TRUE, op |-> "put", tx |-> n, id |-> o.id, body |-> Rows!NoBody]
    <3>1. /\ Rows!Unescape(Rows!Column(id)).ok
          /\ Rows!Unescape(Rows!Column(id)).out = o.id
      BY <1>4, <2>2
    <3>2. ~(Rows!Cardinality(Rows!Tabs(id)) # (IF kind = "none" THEN 0 ELSE 1)
            \/ ~Rows!Unescape(Rows!Column(id)).ok)
      BY <1>5, <2>3, <3>1
    <3> QED
      BY <1>5, <3>1, <3>2 DEF Rows!DecodeRow
  <2> QED
    BY <1>1, <1>2, <1>3, <1>5, <2>1, <2>4 DEF Record
<1>6. CASE kind # "none"
  <2> DEFINE t == id \o <<"tab">> \o raw
  <2>1. Rows!EncodeRow(o) = t
    BY <1>6 DEF Rows!EncodeRow, id, raw
  <2>2. t \in Seq(RowChar) /\ Splits(t, id, raw)
    BY <1>3, ConcatSplits DEF RowChar
  <2> HIDE DEF t
  <2>3. Rows!Column(t) = id /\ Rows!Rest(t) = raw
    BY <1>3, <2>2, SplitsAtTab
  <2>4. Rows!Tabs(t) = {Len(id) + 1}
    <3>1. PICK m \in Nat : m = Len(id)
      BY <1>3
    <3>2. PICK k \in Nat : k = Len(raw)
      BY <1>3
    <3>3. /\ Len(t) = (m + 1) + k /\ t[m + 1] = "tab" /\ DOMAIN t = 1..Len(t)
          /\ \A i \in 1..m : t[i] # "tab"
          /\ \A i \in 1..k : t[(m + 1) + i] # "tab"
      BY <1>3, <2>2, <3>1, <3>2 DEF Splits
    <3>4. ASSUME NEW j \in 1..Len(t), t[j] = "tab"
          PROVE  j = m + 1
      <4>1. CASE j > m + 1
        <5>1. j - (m + 1) \in 1..k /\ (m + 1) + (j - (m + 1)) = j
          BY <3>3, <4>1
        <5> QED
          BY <3>3, <3>4, <5>1
      <4>2. CASE j < m + 1
        BY <3>3, <3>4, <4>2
      <4> QED
        BY <3>3, <4>1, <4>2
    <3>5. m + 1 \in 1..Len(t)
      BY <3>3
    <3> QED
      BY <3>1, <3>3, <3>4, <3>5 DEF Rows!Tabs
  <2>5. Rows!Cardinality(Rows!Tabs(t)) = 1
    BY <2>4, RowsCounts, FS_Singleton
  <2>6. /\ Rows!ParseValue(o.body.text).ok = TRUE
        /\ Rows!ParseValue(o.body.text).value = o.body
    BY <1>2 DEF Rows!ParseValue
  <2>7. Rows!DecodeRow(t, n) = [ok |-> TRUE, op |-> "put", tx |-> n, id |-> o.id, body |-> o.body]
    <3>1. /\ Rows!Unescape(Rows!Column(t)).ok
          /\ Rows!Unescape(Rows!Column(t)).out = o.id
      BY <1>4, <2>3
    <3>2. ~(Rows!Cardinality(Rows!Tabs(t)) # (IF kind = "none" THEN 0 ELSE 1)
            \/ ~Rows!Unescape(Rows!Column(t)).ok)
      BY <1>6, <2>5, <3>1
    <3>3. /\ Rows!Unescape(Rows!Rest(t)).ok
          /\ Rows!Unescape(Rows!Rest(t)).out = o.body.text
      BY <1>4, <2>3
    <3>4. ~(~Rows!Unescape(Rows!Rest(t)).ok
            \/ ~Rows!ParseValue(Rows!Unescape(Rows!Rest(t)).out).ok)
      BY <2>6, <3>3
    <3> QED
      BY <1>6, <2>6, <3>1, <3>2, <3>3, <3>4 DEF Rows!DecodeRow
  <2> QED
    BY <1>1, <2>1, <2>2, <2>7 DEF Record
<1> QED
  BY <1>5, <1>6

(* The text of an operation: a tag, a tx id, and what is behind them. *)
LEMMA OperationText ==
  ASSUME NEW tag \in {"R", "D"}, NEW n \in 1..9, NEW tail \in Seq(RowChar),
         NEW t, t = <<tag, "tab", Rows!Digits[n], "tab">> \o tail
  PROVE  /\ t \in Seq(LineChar) /\ Len(t) = 4 + Len(tail) /\ Rows!IsOperation(t)
         /\ Rows!Column(t) = <<tag>> /\ Rows!Column(Rows!Rest(t)) = <<Rows!Digits[n]>>
         /\ Rows!Rest(Rows!Rest(t)) = tail /\ ~(Rows!Cardinality(Rows!Tabs(t)) < 2)
<1> DEFINE d == Rows!Digits[n]
           h == <<tag, "tab", d, "tab">>
<1>1. /\ tag \in LineChar /\ tag # "tab" /\ "tab" \in LineChar /\ d \in LineChar /\ d # "tab"
      /\ RowChar \subseteq LineChar
  BY DigitsAre, LineCharsPlain DEF LineChar
<1> HIDE DEF d
<1>2. tail \in Seq(LineChar)
  BY <1>1, SeqWider
<1>3. PICK m \in Nat : m = Len(tail)
  OBVIOUS
<1>4. /\ h \in Seq(LineChar) /\ Len(h) = 4
      /\ h[1] = tag /\ h[2] = "tab" /\ h[3] = d /\ h[4] = "tab"
  BY <1>1
<1>5. t = h \o tail
  BY DEF d
<1> HIDE DEF h
<1>6. /\ t \in Seq(LineChar) /\ Len(t) = 4 + m
      /\ \A i \in 1..4 : t[i] = h[i]
      /\ \A i \in 1..m : t[4 + i] = tail[i]
  <2>1. /\ h \o tail \in Seq(LineChar) /\ Len(h \o tail) = Len(h) + Len(tail)
        /\ \A i \in 1..Len(h) : (h \o tail)[i] = h[i]
        /\ \A i \in 1..Len(tail) : (h \o tail)[Len(h) + i] = tail[i]
    <3>1. h \in Seq(LineChar)
      BY <1>4
    <3> QED
      BY <1>2, <3>1, Concat, SMTT(30)
  <2> QED
    BY <1>3, <1>4, <1>5, <2>1
<1>7. t[1] = tag /\ t[2] = "tab" /\ t[3] = d /\ t[4] = "tab"
  BY <1>4, <1>6
<1> DEFINE rest == SubSeq(t, 3, Len(t))
<1>8. /\ rest \in Seq(LineChar) /\ Len(rest) = 2 + m
      /\ \A i \in 1..(2 + m) : rest[i] = t[2 + i]
  <2>1. 3 \in 1..(Len(t) + 1) /\ Len(t) \in (3 - 1)..Len(t) /\ Len(t) - 3 + 1 = 2 + m
        /\ \A i \in 1..(2 + m) : 3 + i - 1 = 2 + i
    BY <1>6
  <2> QED
    BY <1>6, <2>1, SubSeqIs
<1> HIDE DEF rest
<1>9. <<tag>> \in Seq(LineChar) /\ Len(<<tag>>) = 1 /\ <<tag>>[1] = tag
  BY <1>1
<1>10. Splits(t, <<tag>>, rest)
  <2>1. \A i \in 1..1 : i = 1
    OBVIOUS
  <2>2. \A i \in 1..(2 + m) : t[(1 + 1) + i] = rest[i]
    <3> TAKE i \in 1..(2 + m)
    <3>1. (1 + 1) + i = 2 + i
      BY <1>3
    <3> QED
      BY <1>8, <3>1
  <2>3. Len(t) = (1 + 1) + (2 + m)
    BY <1>6
  <2> QED
    BY <1>1, <1>7, <1>8, <1>9, <2>1, <2>2, <2>3 DEF Splits
<1>11. Rows!Column(t) = <<tag>> /\ Rows!Rest(t) = rest
  BY <1>6, <1>8, <1>9, <1>10, SplitsAtTab
<1>12. <<d>> \in Seq(LineChar) /\ Len(<<d>>) = 1 /\ <<d>>[1] = d
  BY <1>1
<1>13. rest[1] = d /\ rest[2] = "tab"
  BY <1>7, <1>8
<1>14. Splits(rest, <<d>>, tail)
  <2>1. \A i \in 1..1 : i = 1
    OBVIOUS
  <2>2. \A i \in 1..m : rest[(1 + 1) + i] = tail[i]
    <3> TAKE i \in 1..m
    <3>1. 2 + i \in 1..(2 + m) /\ 2 + (2 + i) = 4 + i /\ (1 + 1) + i = 2 + i
      OBVIOUS
    <3>2. rest[2 + i] = t[4 + i]
      BY <1>8, <3>1
    <3> QED
      BY <1>6, <3>1, <3>2
  <2>3. Len(rest) = (1 + 1) + m
    BY <1>8
  <2> QED
    BY <1>1, <1>3, <1>12, <1>13, <2>1, <2>2, <2>3 DEF Splits
<1>15. Rows!Column(rest) = <<d>> /\ Rows!Rest(rest) = tail
  BY <1>2, <1>8, <1>12, <1>14, SplitsAtTab
<1>16. Rows!IsOperation(t)
  BY <1>6, <1>7 DEF Rows!IsOperation
<1>17. ~(Rows!Cardinality(Rows!Tabs(t)) < 2)
  <2>1. /\ DOMAIN t = 1..(4 + m) /\ 2 \in 1..(4 + m) /\ 4 \in 1..(4 + m)
    BY <1>6
  <2>2. {2, 4} \in SUBSET Rows!Tabs(t) /\ Rows!Tabs(t) \in SUBSET (1..(4 + m))
    BY <1>7, <2>1 DEF Rows!Tabs
  <2>3. IsFiniteSet(Rows!Tabs(t))
    <3>1. IsFiniteSet(1..(4 + m))
      BY FS_Interval
    <3> QED
      BY <2>2, <3>1, FS_Subset
  <2>4. Cardinality({2} \cup {4}) = 2
    <3> DEFINE S == {2}
    <3>1. IsFiniteSet(S) /\ Cardinality(S) = 1
      BY FS_Singleton
    <3>2. 4 \notin S
      OBVIOUS
    <3> HIDE DEF S
    <3>3. Cardinality(S \cup {4}) = Cardinality(S) + 1
      BY <3>1, <3>2, FS_AddElement
    <3>4. Cardinality(S \cup {4}) = 2
      BY <3>1, <3>3
    <3> QED
      BY <3>4 DEF S
  <2>5. {2} \cup {4} = {2, 4}
    OBVIOUS
  <2>6. Cardinality({2, 4}) <= Cardinality(Rows!Tabs(t))
    BY <2>2, <2>3, FS_Subset
  <2>7. Cardinality(Rows!Tabs(t)) \in Nat
    BY <2>3, FS_CardinalityType
  <2>8. Cardinality({2, 4}) = 2
    BY <2>4, <2>5
  <2>9. PICK z \in Nat : z = Cardinality(Rows!Tabs(t))
    BY <2>7
  <2>10. 2 <= z
    BY <2>6, <2>8, <2>9
  <2> QED
    BY <2>9, <2>10, RowsCounts
<1> QED
  BY <1>3, <1>6, <1>11, <1>15, <1>16, <1>17 DEF d

LEMMA NumberIs ==
  ASSUME NEW n \in 1..9, NEW x, x = <<Rows!Digits[n]>>
  PROVE  /\ \E k \in 1..9 : x = <<Rows!Digits[k]>>
         /\ (CHOOSE k \in 1..9 : x = <<Rows!Digits[k]>>) = n
<1>1. \A k \in 1..9 : x = <<Rows!Digits[k]>> => k = n
  <2> TAKE k \in 1..9
  <2>1. x = <<Rows!Digits[k]>> => Rows!Digits[k] = Rows!Digits[n]
    OBVIOUS
  <2> QED
    BY <2>1, DigitsAre
<1> QED
  BY <1>1

(* decode_six_operation reads what encode_six_operation wrote. *)
LEMMA OperationReadsBack ==
  ASSUME NEW o, NEW n \in 1..9, Valid(o, n), kind \in DOMAIN Bodies,
         NEW t, t = Rows!EncodeOperation(o)
  PROVE  /\ t \in Seq(LineChar) /\ Len(t) >= 4 /\ Rows!IsOperation(t)
         /\ Rows!Column(Rows!Rest(t)) = <<Rows!Digits[n]>>
         /\ Rows!DecodeOperation(t) = Rows!Written(o)
<1>1. o.tx = n /\ o.op \in {"put", "delete"} /\ o.id \in Seq(Characters)
  BY DEF Valid
<1>2. CASE o.op = "put"
  <2> DEFINE tail == Rows!EncodeRow(o)
  <2>1. tail \in Seq(RowChar) /\ Rows!DecodeRow(tail, n) = Record(o)
    BY <1>2, RowReadsBack
  <2>2. t = <<"R", "tab", Rows!Digits[n], "tab">> \o tail
    BY <1>1, <1>2 DEF Rows!EncodeOperation
  <2> HIDE DEF tail
  <2>3. /\ t \in Seq(LineChar) /\ Len(t) = 4 + Len(tail) /\ Rows!IsOperation(t)
        /\ Rows!Column(t) = <<"R">> /\ Rows!Column(Rows!Rest(t)) = <<Rows!Digits[n]>>
        /\ Rows!Rest(Rows!Rest(t)) = tail /\ ~(Rows!Cardinality(Rows!Tabs(t)) < 2)
    BY <2>1, <2>2, OperationText
  <2>4. Rows!DecodeOperation(t) = Rows!DecodeRow(tail, n)
    <3> DEFINE x == Rows!Column(Rows!Rest(t))
    <3>1. /\ \E k \in 1..9 : x = <<Rows!Digits[k]>>
          /\ (CHOOSE k \in 1..9 : x = <<Rows!Digits[k]>>) = n
      BY <2>3, NumberIs
    <3> HIDE DEF x
    <3> QED
      BY <2>3, <3>1 DEF Rows!DecodeOperation, x
  <2>5. Record(o) = Rows!Written(o)
    BY <1>2 DEF Record, Rows!Written
  <2>6. Len(tail) \in Nat
    BY <2>1
  <2> QED
    BY <2>1, <2>3, <2>4, <2>5, <2>6
<1>3. CASE o.op = "delete"
  <2> DEFINE tail == Rows!Escape(o.id)
  <2>1. /\ tail \in Seq(RowChar)
        /\ Rows!Unescape(tail).ok /\ Rows!Unescape(tail).out = o.id
    BY <1>1, EscapedColumn, EscapeReadsBack
  <2>2. t = <<"D", "tab", Rows!Digits[n], "tab">> \o tail
    BY <1>1, <1>3 DEF Rows!EncodeOperation
  <2> HIDE DEF tail
  <2>3. /\ t \in Seq(LineChar) /\ Len(t) = 4 + Len(tail) /\ Rows!IsOperation(t)
        /\ Rows!Column(t) = <<"D">> /\ Rows!Column(Rows!Rest(t)) = <<Rows!Digits[n]>>
        /\ Rows!Rest(Rows!Rest(t)) = tail /\ ~(Rows!Cardinality(Rows!Tabs(t)) < 2)
    BY <2>1, <2>2, OperationText
  <2>4. Rows!DecodeOperation(t)
          = [ok |-> TRUE, op |-> "delete", tx |-> n, id |-> o.id, body |-> Rows!NoBody]
    <3> DEFINE x == Rows!Column(Rows!Rest(t))
    <3>1. /\ \E k \in 1..9 : x = <<Rows!Digits[k]>>
          /\ (CHOOSE k \in 1..9 : x = <<Rows!Digits[k]>>) = n
      BY <2>3, NumberIs
    <3>2. Rows!Column(t) # <<"R">>
      BY <2>3
    <3> HIDE DEF x
    <3> QED
      BY <2>1, <2>3, <3>1, <3>2 DEF Rows!DecodeOperation, x
  <2>5. o.body = Rows!NoBody
    BY <1>3 DEF Valid
  <2>6. Len(tail) \in Nat
    BY <2>1
  <2> QED
    BY <1>1, <1>3, <2>3, <2>4, <2>5, <2>6 DEF Rows!Written
<1> QED
  BY <1>1, <1>2, <1>3

(* Lines. *)
FileChar == LineChar \cup {"nl"}

(* The characters of f behind x and up to y are the text s and a newline. *)
WholeAt(f, x, y, s) ==
  /\ s \in Seq(LineChar) /\ Len(s) >= 4 /\ y = (x + Len(s)) + 1
  /\ \A j \in 1..Len(s) : f[x + j] = s[j]
  /\ f[y] = "nl"

(* They are the beginning of a line. *)
PartAt(f, x, y) == \A j \in (x + 1)..y : f[j] \in LineChar

LEMMA WholeLine ==
  ASSUME file \in Seq(FileChar), NEW x \in Nat, NEW y \in Nat, y <= Len(file),
         NEW s, WholeAt(file, x, y, s)
  PROVE  /\ Rows!LineAt(x) = SubSeq(file, x + 1, y) /\ Len(Rows!LineAt(x)) = y - x
         /\ Rows!Trimmed(Rows!LineAt(x)) = s
<1>1. PICK n \in Nat : n = Len(s)
  BY DEF WholeAt
<1>2. /\ n >= 4 /\ y = (x + n) + 1 /\ Len(file) \in Nat /\ file[y] = "nl"
      /\ \A j \in 1..n : file[x + j] = s[j] /\ s[j] \in LineChar
  BY <1>1 DEF WholeAt
<1> DEFINE ends == {i \in (x + 1)..Len(file) : file[i] = "nl"}
<1>3. ends \in SUBSET Int /\ y \in ends
  BY <1>2
<1>4. ASSUME NEW i \in ends PROVE y <= i
  <2> SUFFICES ASSUME i < y PROVE FALSE
    BY <1>2
  <2>1. i - x \in 1..n /\ x + (i - x) = i
    BY <1>2
  <2>2. file[i] \in LineChar
    BY <1>2, <2>1
  <2> QED
    BY <2>2, LineCharsPlain
<1>5. Rows!Min(ends) = y /\ ends # {}
  <2> HIDE DEF ends
  <2> QED
    BY <1>3, <1>4, RowsMin
<1> DEFINE l == SubSeq(file, x + 1, y)
<1>6. Rows!LineAt(x) = l
  BY <1>5 DEF Rows!LineAt
<1>7. /\ l \in Seq(FileChar) /\ Len(l) = n + 1
      /\ \A i \in 1..(n + 1) : l[i] = file[x + i]
  <2>1. /\ x + 1 \in 1..(Len(file) + 1) /\ y \in ((x + 1) - 1)..Len(file)
        /\ y - (x + 1) + 1 = n + 1
        /\ \A i \in 1..(n + 1) : (x + 1) + i - 1 = x + i
    BY <1>2
  <2> QED
    BY <2>1, SubSeqIs
<1> HIDE DEF l
<1> DEFINE kept == {i \in DOMAIN l : l[i] \notin {"nl", "cr"}}
<1>8. DOMAIN l = 1..(n + 1)
  BY <1>7
<1>9. n \in kept
  <2>1. n \in 1..(n + 1) /\ n \in 1..n
    BY <1>2
  <2>2. l[n] \in LineChar
    BY <1>2, <1>7, <2>1
  <2> QED
    BY <1>8, <2>1, <2>2, LineCharsPlain
<1>10. ASSUME NEW i \in kept PROVE i <= n
  <2>1. l[n + 1] = "nl"
    <3>1. n + 1 \in 1..(n + 1) /\ x + (n + 1) = y
      BY <1>2
    <3> QED
      BY <1>2, <1>7, <3>1
  <2>2. i # n + 1
    BY <2>1
  <2> QED
    BY <1>8, <2>2
<1>11. kept \in SUBSET Int
  BY <1>8
<1>12. Rows!Max(kept) = n /\ kept # {}
  <2> HIDE DEF kept
  <2> QED
    BY <1>9, <1>10, <1>11, RowsMax
<1>13. Rows!Trimmed(l) = SubSeq(l, 1, n)
  BY <1>12 DEF Rows!Trimmed
<1>14. SubSeq(l, 1, n) = s
  <2>1. /\ SubSeq(l, 1, n) \in Seq(FileChar) /\ Len(SubSeq(l, 1, n)) = n
        /\ \A i \in 1..n : SubSeq(l, 1, n)[i] = l[i]
    <3>1. 1 \in 1..(Len(l) + 1) /\ n \in (1 - 1)..Len(l) /\ n - 1 + 1 = n
          /\ \A i \in 1..n : 1 + i - 1 = i
      BY <1>7
    <3> QED
      BY <1>7, <3>1, SubSeqIs
  <2>2. \A i \in 1..n : SubSeq(l, 1, n)[i] = s[i]
    <3> TAKE i \in 1..n
    <3>1. i \in 1..(n + 1)
      OBVIOUS
    <3> QED
      BY <1>2, <1>7, <2>1, <3>1
  <2>3. s \in Seq(LineChar)
    BY DEF WholeAt
  <2>4. s \in Seq(FileChar)
    <3>1. LineChar \subseteq FileChar
      BY DEF FileChar
    <3> QED
      BY <2>3, <3>1, SeqWider
  <2> QED
    BY <1>1, <2>1, <2>2, <2>4, SeqEqual
<1>15. n + 1 = y - x
  BY <1>2
<1> QED
  BY <1>6, <1>7, <1>13, <1>14, <1>15 DEF l

(* A line that was cut has no newline, and nothing is trimmed from it. *)
LEMMA PartLine ==
  ASSUME file \in Seq(FileChar), NEW x \in Nat, NEW y \in Nat, x < y, y = Len(file),
         PartAt(file, x, y)
  PROVE  /\ Rows!LineAt(x) = SubSeq(file, x + 1, y) /\ Len(Rows!LineAt(x)) = y - x
         /\ Rows!Trimmed(Rows!LineAt(x)) = Rows!LineAt(x) /\ Rows!LineAt(x) # <<>>
         /\ Rows!LineAt(x) \in Seq(FileChar) /\ Rows!LineAt(x)[y - x] # "nl"
<1>1. {i \in (x + 1)..Len(file) : file[i] = "nl"} = {}
  BY LineCharsPlain DEF PartAt
<1> DEFINE l == SubSeq(file, x + 1, y)
<1>2. Rows!LineAt(x) = l
  BY <1>1 DEF Rows!LineAt
<1>3. PICK n \in Nat : n = y - x /\ n >= 1
  <2>1. y - x \in Nat /\ y - x >= 1
    OBVIOUS
  <2> QED
    BY <2>1
<1>4. /\ l \in Seq(FileChar) /\ Len(l) = n
      /\ \A i \in 1..n : l[i] = file[x + i]
  <2>1. /\ x + 1 \in 1..(Len(file) + 1) /\ y \in ((x + 1) - 1)..Len(file)
        /\ y - (x + 1) + 1 = n
        /\ \A i \in 1..n : (x + 1) + i - 1 = x + i
    BY <1>3
  <2> QED
    BY <2>1, SubSeqIs
<1>5. \A i \in 1..n : l[i] \in LineChar
  <2> TAKE i \in 1..n
  <2>1. x + i \in (x + 1)..y
    BY <1>3
  <2> QED
    BY <1>4, <2>1 DEF PartAt
<1> HIDE DEF l
<1> DEFINE kept == {i \in DOMAIN l : l[i] \notin {"nl", "cr"}}
<1>6. DOMAIN l = 1..n
  BY <1>4
<1>7. kept = 1..n
  BY <1>5, <1>6, LineCharsPlain
<1>8. n \in 1..n
  BY <1>3
<1>9. Rows!Max(kept) = n /\ kept # {}
  <2>1. 1..n \in SUBSET Int /\ \A i \in 1..n : i <= n
    OBVIOUS
  <2>2. Rows!Max(1..n) = n
    BY <1>8, <2>1, RowsMax
  <2> QED
    BY <1>7, <1>8, <2>2
<1>10. Rows!Trimmed(l) = SubSeq(l, 1, n)
  BY <1>9 DEF Rows!Trimmed
<1>11. SubSeq(l, 1, n) = l /\ l # <<>>
  BY <1>3, <1>4
<1>12. l[n] # "nl"
  BY <1>5, <1>8, LineCharsPlain
<1> QED
  BY <1>2, <1>3, <1>4, <1>10, <1>11, <1>12 DEF l

(* There is no line behind the end. *)
LEMMA NoLine ==
  ASSUME file \in Seq(FileChar)
  PROVE  ~Rows!IsOperation(Rows!Trimmed(Rows!LineAt(Len(file))))
<1>1. Len(file) \in Nat
  OBVIOUS
<1>2. {i \in (Len(file) + 1)..Len(file) : file[i] = "nl"} = {}
  BY <1>1
<1>3. Rows!LineAt(Len(file)) = SubSeq(file, Len(file) + 1, Len(file))
  BY <1>2 DEF Rows!LineAt
<1>4. SubSeq(file, Len(file) + 1, Len(file)) = <<>>
  BY <1>1
<1>5. Rows!Trimmed(<<>>) = <<>>
  BY DEF Rows!Trimmed
<1>6. ~Rows!IsOperation(<<>>)
  BY DEF Rows!IsOperation
<1> QED
  BY <1>3, <1>4, <1>5, <1>6

(* The operation a pointer addresses. *)
LEMMA WholePointer ==
  ASSUME file \in Seq(FileChar), NEW x \in Nat, NEW y \in Nat, y <= Len(file),
         NEW s, WholeAt(file, x, y, s), Rows!IsOperation(s),
         NEW p, p.offset = x, p.len = y - x
  PROVE  Rows!ReadPointer(p) = Rows!DecodeOperation(s)
<1> DEFINE l == SubSeq(file, x + 1, y)
<1>1. PICK n \in Nat : n = Len(s)
  BY DEF WholeAt
<1>2. /\ n >= 4 /\ y = (x + n) + 1 /\ Len(file) \in Nat /\ file[y] = "nl"
      /\ \A j \in 1..n : file[x + j] = s[j] /\ s[j] \in LineChar
  BY <1>1 DEF WholeAt
<1>3. /\ l \in Seq(FileChar) /\ Len(l) = n + 1
      /\ \A i \in 1..(n + 1) : l[i] = file[x + i]
  <2>1. /\ x + 1 \in 1..(Len(file) + 1) /\ y \in ((x + 1) - 1)..Len(file)
        /\ y - (x + 1) + 1 = n + 1
        /\ \A i \in 1..(n + 1) : (x + 1) + i - 1 = x + i
    BY <1>2
  <2> QED
    BY <2>1, SubSeqIs
<1>4. SubSeq(file, p.offset + 1, p.offset + p.len) = l
  <2>1. p.offset + p.len = y
    OBVIOUS
  <2> QED
    BY <2>1
<1> HIDE DEF l
<1>5. l # <<>> /\ Rows!Last(l) = "nl"
  <2>1. n + 1 \in 1..(n + 1) /\ x + (n + 1) = y
    BY <1>2
  <2>2. l[Len(l)] = "nl"
    BY <1>2, <1>3, <2>1
  <2>3. l # <<>>
    BY <1>3
  <2> QED
    BY <2>2, <2>3 DEF Rows!Last
<1>6. Rows!Front(l) = s
  <2>1. Len(l) - 1 = n
    BY <1>3
  <2>2. Rows!Front(l) = SubSeq(l, 1, n)
    BY <2>1 DEF Rows!Front
  <2>3. /\ SubSeq(l, 1, n) \in Seq(FileChar) /\ Len(SubSeq(l, 1, n)) = n
        /\ \A i \in 1..n : SubSeq(l, 1, n)[i] = l[i]
    <3>1. 1 \in 1..(Len(l) + 1) /\ n \in (1 - 1)..Len(l) /\ n - 1 + 1 = n
          /\ \A i \in 1..n : 1 + i - 1 = i
      BY <1>3
    <3> QED
      BY <1>3, <3>1, SubSeqIs
  <2>4. \A i \in 1..n : SubSeq(l, 1, n)[i] = s[i]
    <3> TAKE i \in 1..n
    <3>1. i \in 1..(n + 1)
      OBVIOUS
    <3> QED
      BY <1>2, <1>3, <2>3, <3>1
  <2>5. s \in Seq(FileChar)
    <3>1. LineChar \subseteq FileChar /\ s \in Seq(LineChar)
      BY DEF FileChar, WholeAt
    <3> QED
      BY <3>1, SeqWider
  <2>6. SubSeq(l, 1, n) = s
    BY <1>1, <2>3, <2>4, <2>5, SeqEqual
  <2> QED
    BY <2>2, <2>6
<1> QED
  BY <1>4, <1>5, <1>6 DEF Rows!ReadPointer

LEMMA PartPointer ==
  ASSUME file \in Seq(FileChar), NEW x \in Nat, NEW y \in Nat, x < y, y = Len(file),
         PartAt(file, x, y), NEW p, p.offset = x, p.len = y - x
  PROVE  Rows!ReadPointer(p) = IF Rows!IsOperation(Rows!LineAt(x))
                                 THEN Rows!DecodeOperation(Rows!LineAt(x)) ELSE Rows!Bad
<1> DEFINE l == Rows!LineAt(x)
<1>1. /\ l = SubSeq(file, x + 1, y) /\ Len(l) = y - x
      /\ l # <<>> /\ l[y - x] # "nl"
  BY PartLine
<1>2. SubSeq(file, p.offset + 1, p.offset + p.len) = l
  <2>1. p.offset + p.len = y
    OBVIOUS
  <2> QED
    BY <1>1, <2>1
<1> HIDE DEF l
<1>3. Rows!Last(l) # "nl"
  BY <1>1 DEF Rows!Last
<1> QED
  BY <1>2, <1>3 DEF Rows!ReadPointer, l

LEMMA ReadPrimed ==
  ASSUME NEW p, file' = file, kind' = kind
  PROVE  Rows!ReadPointer(p)' = Rows!ReadPointer(p)
<1>1. \A t : Rows!DecodeOperation(t)' = Rows!DecodeOperation(t)
  <2>1. \A t, n : Rows!DecodeRow(t, n)' = Rows!DecodeRow(t, n)
    BY DEF Rows!DecodeRow, Rows!ParseValue
  <2> QED
    BY <2>1 DEF Rows!DecodeOperation
<1> QED
  BY <1>1 DEF Rows!ReadPointer

(* A row of the older format has no tx id. *)
LEMMA OldRow ==
  ASSUME NEW t, Rows!DecodeRow(t, 0).ok
  PROVE  Rows!DecodeRow(t, 0).tx = 0
<1>1. ~Rows!Bad.ok
  BY DEF Rows!Bad
<1> QED
  BY <1>1 DEF Rows!DecodeRow

LEMMA EncodePrimed ==
  ASSUME NEW o, kind' = kind
  PROVE  Rows!EncodeOperation(o)' = Rows!EncodeOperation(o)
BY DEF Rows!EncodeOperation, Rows!EncodeRow

(* The n lines of f end at c[1], ..., c[n]; the first m are whole, with the *)
(* texts t, and if one is not it is the last.                              *)
Laid(f, t, c, n, m) ==
  /\ f \in Seq(FileChar) /\ n \in Nat /\ m \in Nat
  /\ c \in [0..n -> Nat] /\ c[0] = 0 /\ c[n] = Len(f)
  /\ \A i \in 0..n : \A j \in 0..i : c[j] <= c[i]
  /\ \A i \in 1..n : c[i - 1] < c[i]
  /\ m <= n /\ \A i \in 1..m : WholeAt(f, c[i - 1], c[i], t[i])
  /\ m < n => m = n - 1 /\ PartAt(f, c[m], c[n])
  /\ m = n => \A k \in 1..Len(f) : f[k] = "nl" => \E i \in 1..n : c[i] = k

LEMMA LaidEmpty == Laid(<<>>, <<>>, [i \in 0..0 |-> 0], 0, 0)
<1>1. <<>> \in Seq(FileChar) /\ Len(<<>>) = 0
  OBVIOUS
<1> QED
  BY <1>1 DEF Laid

LEMMA OneMore ==
  ASSUME NEW S, NEW h \in Seq(S), NEW x \in S
  PROVE  /\ h \o <<x>> \in Seq(S) /\ Len(h \o <<x>>) = Len(h) + 1
         /\ \A i \in 1..Len(h) : (h \o <<x>>)[i] = h[i]
         /\ (h \o <<x>>)[Len(h) + 1] = x
OBVIOUS

LEMMA LaidWrite ==
  ASSUME NEW f, NEW t, NEW c, NEW n, Laid(f, t, c, n, n),
         NEW s \in Seq(LineChar), Len(s) >= 4,
         NEW u, \A i \in 1..n : u[i] = t[i], u[n + 1] = s,
         NEW g, g = f \o s \o <<"nl">>
  PROVE  \E d : Laid(g, u, d, n + 1, n + 1)
<1>1. /\ f \in Seq(FileChar) /\ n \in Nat
      /\ c \in [0..n -> Nat] /\ c[0] = 0 /\ c[n] = Len(f)
      /\ \A i \in 0..n : \A j \in 0..i : c[j] <= c[i]
      /\ \A i \in 1..n : c[i - 1] < c[i]
      /\ \A i \in 1..n : WholeAt(f, c[i - 1], c[i], t[i])
      /\ \A k \in 1..Len(f) : f[k] = "nl" => \E i \in 1..n : c[i] = k
  BY DEF Laid
<1>2. PICK a \in Nat : a = Len(f)
  BY <1>1
<1>3. PICK b \in Nat : b = Len(s)
  OBVIOUS
<1>4. LineChar \subseteq FileChar /\ "nl" \in FileChar
  BY DEF FileChar
<1>5. s \in Seq(FileChar)
  BY <1>4, SeqWider
<1> DEFINE h == f \o s
<1>6. /\ h \in Seq(FileChar) /\ Len(h) = a + b
      /\ \A i \in 1..a : h[i] = f[i]
      /\ \A i \in 1..b : h[a + i] = s[i]
  BY <1>1, <1>2, <1>3, <1>5, Concat
<1>7. g = h \o <<"nl">>
  OBVIOUS
<1> HIDE DEF h
<1>8. /\ g \in Seq(FileChar) /\ Len(g) = (a + b) + 1
      /\ \A i \in 1..(a + b) : g[i] = h[i]
      /\ g[(a + b) + 1] = "nl"
  <2>1. h \in Seq(FileChar)
    BY <1>6
  <2>2. /\ h \o <<"nl">> \in Seq(FileChar) /\ Len(h \o <<"nl">>) = Len(h) + 1
        /\ \A i \in 1..Len(h) : (h \o <<"nl">>)[i] = h[i]
        /\ (h \o <<"nl">>)[Len(h) + 1] = "nl"
    BY <1>4, <2>1, OneMore
  <2> QED
    BY <1>6, <1>7, <2>2
<1>9. /\ \A i \in 1..a : g[i] = f[i]
      /\ \A i \in 1..b : g[a + i] = s[i]
  <2>1. \A i \in 1..a : i \in 1..(a + b)
    OBVIOUS
  <2>2. \A i \in 1..b : a + i \in 1..(a + b)
    OBVIOUS
  <2> QED
    BY <1>6, <1>8, <2>1, <2>2
<1> DEFINE e == (a + b) + 1
           d == [i \in 0..(n + 1) |-> IF i = n + 1 THEN e ELSE c[i]]
<1>10. /\ d \in [0..(n + 1) -> Nat] /\ d[n + 1] = e
       /\ \A i \in 0..n : d[i] = c[i] /\ d[i] <= a
  <2>1. \A i \in 0..n : c[i] \in Nat /\ c[i] <= c[n]
    BY <1>1
  <2>2. \A i \in 0..(n + 1) : i # n + 1 => i \in 0..n
    BY <1>1
  <2>3. n + 1 \in 0..(n + 1) /\ \A i \in 0..n : i \in 0..(n + 1) /\ i # n + 1
    BY <1>1
  <2> QED
    BY <1>1, <1>2, <2>1, <2>2, <2>3
<1>11. e \in Nat /\ e > a /\ d[0] = 0 /\ d[n] = a
  BY <1>1, <1>2, <1>10
<1> HIDE DEF d, e
<1>12. \A i \in 0..(n + 1) : \A j \in 0..i : d[j] <= d[i]
  <2> SUFFICES ASSUME NEW i \in 0..(n + 1), NEW j \in 0..i PROVE d[j] <= d[i]
    OBVIOUS
  <2>1. CASE i = n + 1
    <3>1. j \in 0..n \/ j = n + 1
      BY <1>1, <2>1
    <3>2. CASE j \in 0..n
      <4>1. d[j] <= a /\ d[j] \in Nat
        BY <1>1, <1>10, <3>2
      <4> QED
        BY <1>10, <1>11, <2>1, <4>1
    <3>3. CASE j = n + 1
      BY <1>10, <1>11, <2>1, <3>3
    <3> QED
      BY <3>1, <3>2, <3>3
  <2>2. CASE i # n + 1
    <3>1. i \in 0..n /\ j \in 0..n
      BY <1>1, <2>2
    <3> QED
      BY <1>1, <1>10, <3>1
  <2> QED
    BY <2>1, <2>2
<1>13. \A i \in 1..(n + 1) : d[i - 1] < d[i]
  <2> TAKE i \in 1..(n + 1)
  <2>1. CASE i = n + 1
    <3>1. i - 1 = n
      BY <1>1, <2>1
    <3> QED
      BY <1>10, <1>11, <2>1, <3>1
  <2>2. CASE i # n + 1
    <3>1. i \in 1..n /\ i \in 0..n /\ i - 1 \in 0..n
      BY <1>1, <2>2
    <3> QED
      BY <1>1, <1>10, <3>1
  <2> QED
    BY <2>1, <2>2
<1>14. \A i \in 1..(n + 1) : WholeAt(g, d[i - 1], d[i], u[i])
  <2> TAKE i \in 1..(n + 1)
  <2>1. CASE i = n + 1
    <3>1. i - 1 = n
      BY <1>1, <2>1
    <3>2. d[i - 1] = a /\ d[i] = e /\ u[i] = s
      BY <1>10, <1>11, <2>1, <3>1
    <3> QED
      BY <1>3, <1>8, <1>9, <3>2 DEF WholeAt, e
  <2>2. CASE i # n + 1
    <3>1. i \in 1..n /\ i \in 0..n /\ i - 1 \in 0..n
      BY <1>1, <2>2
    <3>2. d[i - 1] = c[i - 1] /\ d[i] = c[i] /\ u[i] = t[i]
      BY <1>10, <3>1
    <3>3. PICK x \in Nat : x = c[i - 1]
      BY <1>1, <3>1
    <3>4. PICK y \in Nat : y = c[i] /\ y <= a
      BY <1>1, <1>10, <3>1
    <3>5. WholeAt(f, x, y, t[i])
      BY <1>1, <3>1, <3>3, <3>4
    <3>6. PICK z \in Nat : z = Len(t[i])
      BY <3>5 DEF WholeAt
    <3>7. y = (x + z) + 1 /\ z >= 4
      BY <3>5, <3>6 DEF WholeAt
    <3>8. y \in 1..a /\ \A j \in 1..z : x + j \in 1..a
      BY <3>4, <3>7
    <3>9. g[y] = f[y] /\ \A j \in 1..z : g[x + j] = f[x + j]
      BY <1>9, <3>8
    <3>10. WholeAt(g, x, y, t[i])
      BY <3>5, <3>6, <3>9 DEF WholeAt
    <3> QED
      BY <3>2, <3>3, <3>4, <3>10
  <2> QED
    BY <2>1, <2>2
<1>15. ASSUME NEW k \in 1..Len(g), g[k] = "nl"
       PROVE  \E i \in 1..(n + 1) : d[i] = k
  <2>1. CASE k <= a
    <3>1. k \in 1..a
      BY <1>8, <2>1
    <3>2. PICK i \in 1..n : c[i] = k
      BY <1>1, <1>2, <1>9, <1>15, <3>1
    <3>3. i \in 0..n /\ i \in 1..(n + 1)
      BY <1>1
    <3> QED
      BY <1>10, <3>2, <3>3
  <2>2. CASE a < k /\ k <= a + b
    <3>1. k - a \in 1..b /\ a + (k - a) = k
      BY <1>8, <2>2
    <3>2. g[k] = s[k - a]
      BY <1>9, <3>1
    <3>3. s[k - a] \in LineChar
      BY <1>3, <3>1
    <3> QED
      BY <1>15, <3>2, <3>3, LineCharsPlain
  <2>3. CASE k > a + b
    <3>1. k = e /\ n + 1 \in 1..(n + 1)
      BY <1>1, <1>8, <2>3 DEF e
    <3> QED
      BY <1>10, <3>1
  <2> QED
    BY <1>8, <2>1, <2>2, <2>3
<1>16. n + 1 \in Nat /\ n + 1 <= n + 1 /\ ~(n + 1 < n + 1)
  BY <1>1
<1>17. Len(g) = e
  BY <1>8 DEF e
<1> QED
  <2>1. PICK k \in Nat : k = n + 1
    BY <1>16
  <2>2. /\ d \in [0..k -> Nat] /\ d[0] = 0 /\ d[k] = Len(g)
        /\ \A i \in 0..k : \A j \in 0..i : d[j] <= d[i]
        /\ \A i \in 1..k : d[i - 1] < d[i]
    BY <1>10, <1>11, <1>12, <1>13, <1>17, <2>1
  <2>3. \A i \in 1..k : WholeAt(g, d[i - 1], d[i], u[i])
    BY <1>14, <2>1
  <2>4. \A i \in 1..Len(g) : g[i] = "nl" => \E j \in 1..k : d[j] = i
    BY <1>15, <2>1
  <2>5. k <= k /\ ~(k < k)
    OBVIOUS
  <2>6. Laid(g, u, d, k, k)
    BY <1>8, <2>2, <2>3, <2>4, <2>5 DEF Laid
  <2> QED
    BY <2>1, <2>6

(* The end of the last line is lost. *)
LEMMA LaidStop ==
  ASSUME NEW f, NEW t, NEW c, NEW n, n > 0, Laid(f, t, c, n, n), NEW l \in 1..Len(t[n]),
         NEW g, g = SubSeq(f, 1, Len(f) - l)
  PROVE  \E d : Laid(g, t, d, n, n - 1)
<1>1. /\ f \in Seq(FileChar) /\ n \in Nat /\ n - 1 \in Nat /\ n - 1 < n /\ n - 1 <= n
      /\ c \in [0..n -> Nat] /\ c[0] = 0 /\ c[n] = Len(f)
      /\ \A i \in 0..n : \A j \in 0..i : c[j] <= c[i]
      /\ \A i \in 1..n : c[i - 1] < c[i]
      /\ \A i \in 1..n : WholeAt(f, c[i - 1], c[i], t[i])
  BY DEF Laid
<1>2. PICK a \in Nat : a = Len(f)
  BY <1>1
<1>3. PICK x \in Nat : x = c[n - 1]
  BY <1>1
<1>4. WholeAt(f, x, a, t[n])
  BY <1>1, <1>2, <1>3
<1>5. PICK z \in Nat : z = Len(t[n])
  BY <1>4 DEF WholeAt
<1>6. a = (x + z) + 1 /\ z >= 4 /\ \A j \in 1..z : f[x + j] \in LineChar
  BY <1>4, <1>5, SMTT(30) DEF WholeAt
<1>7. PICK e \in Nat : e = a - l /\ x < e /\ e <= x + z
  <2>1. a - l \in Nat /\ x < a - l /\ a - l <= x + z
    BY <1>5, <1>6
  <2> QED
    BY <2>1
<1>8. g \in Seq(FileChar) /\ Len(g) = e /\ \A i \in 1..e : g[i] = f[i]
  <2>1. /\ 1 \in 1..(Len(f) + 1) /\ e \in (1 - 1)..Len(f) /\ e - 1 + 1 = e
        /\ \A i \in 1..e : 1 + i - 1 = i
    BY <1>2, <1>6, <1>7
  <2>2. g = SubSeq(f, 1, e)
    BY <1>2, <1>7
  <2>3. /\ SubSeq(f, 1, e) \in Seq(FileChar) /\ Len(SubSeq(f, 1, e)) = e - 1 + 1
        /\ \A i \in 1..(e - 1 + 1) : SubSeq(f, 1, e)[i] = f[1 + i - 1]
    BY <1>1, <2>1, SubSeqIs
  <2> QED
    BY <2>1, <2>2, <2>3
<1> DEFINE d == [i \in 0..n |-> IF i = n THEN e ELSE c[i]]
<1>9. /\ d \in [0..n -> Nat] /\ d[n] = e
      /\ \A i \in 0..(n - 1) : d[i] = c[i] /\ d[i] \in Nat /\ d[i] <= x
  <2>1. \A i \in 0..(n - 1) : i \in 0..n /\ i # n /\ c[i] \in Nat /\ c[i] <= x
    BY <1>1, <1>3
  <2>2. n \in 0..n /\ \A i \in 0..n : i # n => i \in 0..(n - 1)
    BY <1>1
  <2> QED
    BY <2>1, <2>2
<1>10. d[0] = 0 /\ d[n - 1] = x
  BY <1>1, <1>3, <1>9
<1> HIDE DEF d
<1>11. \A i \in 0..n : \A j \in 0..i : d[j] <= d[i]
  <2> SUFFICES ASSUME NEW i \in 0..n, NEW j \in 0..i PROVE d[j] <= d[i]
    OBVIOUS
  <2>1. CASE j = n
    <3>1. i = n
      BY <1>1, <2>1
    <3> QED
      BY <1>9, <2>1, <3>1
  <2>2. CASE j # n /\ i = n
    <3>1. j \in 0..(n - 1)
      BY <1>1, <2>2
    <3> QED
      BY <1>7, <1>9, <2>2, <3>1
  <2>3. CASE j # n /\ i # n
    <3>1. j \in 0..(n - 1) /\ i \in 0..(n - 1) /\ i \in 0..n
      BY <1>1, <2>3
    <3> QED
      BY <1>1, <1>9, <3>1
  <2> QED
    BY <2>1, <2>2, <2>3
<1>12. \A i \in 1..n : d[i - 1] < d[i]
  <2> TAKE i \in 1..n
  <2>1. CASE i = n
    BY <1>7, <1>9, <1>10, <2>1
  <2>2. CASE i # n
    <3>1. i \in 0..(n - 1) /\ i - 1 \in 0..(n - 1) /\ i \in 1..n
      BY <1>1, <2>2
    <3> QED
      BY <1>1, <1>9, <3>1
  <2> QED
    BY <2>1, <2>2
<1>13. \A i \in 1..(n - 1) : WholeAt(g, d[i - 1], d[i], t[i])
  <2> TAKE i \in 1..(n - 1)
  <2>1. i \in 1..n /\ i \in 0..(n - 1) /\ i - 1 \in 0..(n - 1)
    BY <1>1
  <2>2. PICK v \in Nat : v = d[i - 1] /\ v = c[i - 1]
    BY <1>9, <2>1
  <2>3. PICK y \in Nat : y = d[i] /\ y = c[i] /\ y <= x
    BY <1>9, <2>1
  <2>4. WholeAt(f, v, y, t[i])
    BY <1>1, <2>1, <2>2, <2>3
  <2>5. PICK w \in Nat : w = Len(t[i])
    BY <2>4 DEF WholeAt
  <2>6. y = (v + w) + 1 /\ w >= 4
    BY <2>4, <2>5 DEF WholeAt
  <2>7. y \in 1..e /\ \A j \in 1..w : v + j \in 1..e
    BY <1>7, <2>3, <2>6
  <2>8. g[y] = f[y] /\ \A j \in 1..w : g[v + j] = f[v + j]
    BY <1>8, <2>7
  <2>9. WholeAt(g, v, y, t[i])
    BY <2>4, <2>5, <2>8 DEF WholeAt
  <2> QED
    BY <2>2, <2>3, <2>9
<1>14. PartAt(g, d[n - 1], d[n])
  <2> SUFFICES ASSUME NEW j \in (x + 1)..e PROVE g[j] \in LineChar
    BY <1>9, <1>10 DEF PartAt
  <2>1. j \in 1..e /\ j - x \in 1..z /\ x + (j - x) = j
    BY <1>7
  <2> QED
    BY <1>6, <1>8, <2>1
<1>15. n - 1 # n
  BY <1>1
<1> QED
  BY <1>1, <1>8, <1>9, <1>10, <1>11, <1>12, <1>13, <1>14, <1>15 DEF Laid

IsSequence(s) == \E S : s \in Seq(S)

LEMMA SeqFacts ==
  ASSUME NEW s, IsSequence(s), NEW x
  PROVE  /\ Len(s) \in Nat /\ DOMAIN s = 1..Len(s) /\ (s = <<>> <=> Len(s) = 0)
         /\ IsSequence(Append(s, x)) /\ Len(Append(s, x)) = Len(s) + 1
         /\ \A i \in 1..Len(s) : Append(s, x)[i] = s[i]
         /\ Append(s, x)[Len(s) + 1] = x
<1>1. PICK S : s \in Seq(S)
  BY DEF IsSequence
<1>2. PICK T : T = S \cup {x}
  OBVIOUS
<1>3. s \in Seq(T) /\ x \in T
  BY <1>1, <1>2
<1>4. Append(s, x) \in Seq(T)
  BY <1>3
<1>5. IsSequence(Append(s, x))
  BY <1>4 DEF IsSequence
<1> QED
  BY <1>3, <1>5

(* The texts of the operations written. *)
TextsAre(t) ==
  \A i \in 1..Len(ops) : Valid(ops[i], i) /\ t[i] = Rows!EncodeOperation(ops[i])

EntryAt(e, x, y) ==
  /\ e.offset = x /\ e.len = y - x
  /\ e.entry.tx # 0 => Rows!ReadPointer(e) = e.entry

(* As many lines were scanned as there are entries. *)
Scanned(c, m) ==
  /\ Len(entries) <= Len(ops)
  /\ pc # "error" => offset = c[Len(entries)]
  /\ \A i \in 1..Len(entries) : EntryAt(entries[i], c[i - 1], c[i])
  /\ \A i \in 1..Len(entries) : i <= m => entries[i].entry = Rows!Written(ops[i])
  /\ pc = "write" => Len(entries) = 0 /\ m = Len(ops)
  /\ pc = "done" => offset = Len(file)
  /\ pc = "error" => Len(entries) = 0 /\ m # Len(ops)

RowsTyped ==
  /\ kind \in DOMAIN Bodies /\ pc \in {"write", "scan", "done", "error"}
  /\ IsSequence(ops) /\ Len(ops) \in 0..MaxOps /\ IsSequence(entries)

RowsInv ==
  /\ RowsTyped
  /\ \E t, c, m : /\ TextsAre(t) /\ Laid(file, t, c, Len(ops), m) /\ Scanned(c, m)
                  /\ ~cut => m = Len(ops)

LEMMA OpsLength ==
  ASSUME RowsTyped
  PROVE  Len(ops) \in 0..9
<1>1. PICK m \in 0..9 : m = MaxOps
  BY RowsAssumption
<1>2. PICK n \in 0..m : n = Len(ops)
  BY <1>1 DEF RowsTyped
<1>3. n \in 0..9
  OBVIOUS
<1> QED
  BY <1>2, <1>3

LEMMA TextFacts ==
  ASSUME RowsTyped, NEW t, TextsAre(t), NEW i \in 1..Len(ops)
  PROVE  /\ t[i] \in Seq(LineChar) /\ Len(t[i]) >= 4 /\ Rows!IsOperation(t[i]) /\ t[i] # <<>>
         /\ Rows!Column(Rows!Rest(t[i])) = <<Rows!Digits[i]>>
         /\ Rows!DecodeOperation(t[i]) = Rows!Written(ops[i])
<1>1. i \in 1..9 /\ Valid(ops[i], i) /\ t[i] = Rows!EncodeOperation(ops[i])
  BY OpsLength, SMTT(30) DEF TextsAre
<1>2. /\ t[i] \in Seq(LineChar) /\ Len(t[i]) >= 4 /\ Rows!IsOperation(t[i])
      /\ Rows!Column(Rows!Rest(t[i])) = <<Rows!Digits[i]>>
      /\ Rows!DecodeOperation(t[i]) = Rows!Written(ops[i])
  BY <1>1, OperationReadsBack DEF RowsTyped
<1>3. t[i] # <<>>
  BY <1>2
<1> QED
  BY <1>2, <1>3

(* max_tx_in_six_file of a file that is whole. *)
LEMMA MaxTxIs ==
  ASSUME RowsTyped, NEW t, TextsAre(t), NEW c, Laid(file, t, c, Len(ops), Len(ops))
  PROVE  Rows!MaxTx = Len(ops)
<1>1. PICK n \in 0..9 : n = Len(ops)
  BY OpsLength
<1>2. /\ file \in Seq(FileChar) /\ DOMAIN file = 1..Len(file) /\ Len(file) \in Nat
      /\ c \in [0..n -> Nat] /\ c[0] = 0 /\ c[n] = Len(file)
      /\ \A i \in 0..n : \A j \in 0..i : c[j] <= c[i]
      /\ \A i \in 1..n : c[i - 1] < c[i]
      /\ \A i \in 1..n : WholeAt(file, c[i - 1], c[i], t[i])
      /\ \A k \in 1..Len(file) : file[k] = "nl" => \E i \in 1..n : c[i] = k
  BY <1>1 DEF Laid
<1> DEFINE starts == {0} \cup {i \in DOMAIN file : file[i] = "nl"}
           Text(k) == Rows!Trimmed(Rows!LineAt(k))
           Tx(k, x) == Rows!IsOperation(Text(k)) /\ Rows!Column(Rows!Rest(Text(k))) = <<Rows!Digits[x]>>
           txs == {x \in 1..9 : \E k \in starts : Tx(k, x)}
<1>3. Rows!MaxTx = Rows!Max({0} \cup txs)
  BY DEF Rows!MaxTx
<1>4. ASSUME NEW i \in 1..n
      PROVE  Text(c[i - 1]) = t[i]
  <2>1. i \in 0..n /\ i - 1 \in 0..n /\ n \in 0..n /\ i \in 0..n
    OBVIOUS
  <2>2. c[i - 1] \in Nat /\ c[i] \in Nat /\ c[i] <= Len(file) /\ WholeAt(file, c[i - 1], c[i], t[i])
    BY <1>2, <2>1
  <2> QED
    BY <1>2, <2>2, WholeLine
<1>5. \A k \in starts : \E i \in 0..n : c[i] = k
  <2> TAKE k \in starts
  <2>1. CASE k = 0
    BY <1>2, <2>1
  <2>2. CASE k # 0
    <3>1. k \in 1..Len(file) /\ file[k] = "nl"
      BY <1>2, <2>2
    <3>2. PICK i \in 1..n : c[i] = k
      BY <1>2, <3>1
    <3>3. i \in 0..n
      OBVIOUS
    <3> QED
      BY <3>2, <3>3
  <2> QED
    BY <2>1, <2>2
<1>6. ASSUME NEW x \in 1..9, NEW k \in starts, Tx(k, x)
      PROVE  x <= n
  <2>1. PICK i \in 0..n : c[i] = k
    BY <1>5
  <2>2. CASE i = n
    <3>1. k = Len(file)
      BY <1>2, <2>1, <2>2, Zenon
    <3>2. ~Rows!IsOperation(Rows!Trimmed(Rows!LineAt(Len(file))))
      BY <1>2, NoLine
    <3> QED
      BY <1>6, <3>1, <3>2
  <2>3. CASE i # n
    <3>1. PICK j \in 1..n : j = i + 1 /\ j - 1 = i
      BY <2>3
    <3>2. Text(k) = t[j]
      BY <1>4, <2>1, <3>1
    <3>3. Rows!Column(Rows!Rest(t[j])) = <<Rows!Digits[j]>>
      BY <1>1, <3>1, TextFacts
    <3>4. <<Rows!Digits[j]>> = <<Rows!Digits[x]>>
      BY <1>6, <3>2, <3>3
    <3>5. Rows!Digits[j] = Rows!Digits[x]
      BY <3>4
    <3>6. j \in 1..9
      BY <3>1
    <3>7. j = x
      BY <3>5, <3>6, DigitsAre
    <3> QED
      BY <3>7
  <2> QED
    BY <2>2, <2>3
<1>7. n > 0 => n \in txs
  <2> SUFFICES ASSUME n > 0 PROVE n \in txs
    OBVIOUS
  <2>1. n \in 1..n /\ n \in 1..9 /\ n - 1 \in 0..n /\ n \in 0..n
    OBVIOUS
  <2>2. Text(c[n - 1]) = t[n]
    BY <1>4, <2>1
  <2>3. /\ Rows!IsOperation(t[n]) /\ Rows!Column(Rows!Rest(t[n])) = <<Rows!Digits[n]>>
    BY <1>1, <2>1, TextFacts
  <2>4. c[n - 1] \in starts
    <3>1. CASE n = 1
      <4>1. n - 1 = 0
        BY <3>1
      <4> QED
        BY <1>2, <4>1
    <3>2. CASE n # 1
      <4>1. PICK j \in 1..n : j = n - 1
        BY <2>1, <3>2
      <4>2. j \in 0..n /\ j - 1 \in 0..n
        BY <4>1
      <4>3. file[c[j]] = "nl"
        BY <1>2 DEF WholeAt
      <4>4. c[j] \in Nat /\ c[j] <= Len(file) /\ c[j - 1] \in Nat /\ c[j - 1] < c[j]
        BY <1>2, <2>1, <4>2
      <4>5. c[j] \in DOMAIN file
        BY <1>2, <4>4
      <4> QED
        BY <4>1, <4>3, <4>5
    <3> QED
      BY <3>1, <3>2
  <2>5. Tx(c[n - 1], n)
    BY <2>2, <2>3
  <2> HIDE DEF Tx, starts
  <2> QED
    BY <2>1, <2>4, <2>5
<1>8. \A x \in txs : x \in 1..9 /\ x <= n
  <2> HIDE DEF Tx, starts
  <2> QED
    BY <1>6
<1>9. Rows!Max({0} \cup txs) = n
  <2> HIDE DEF txs
  <2>1. {0} \cup txs \in SUBSET Int
    BY <1>8
  <2>2. n \in {0} \cup txs
    BY <1>7
  <2>3. \A y \in {0} \cup txs : y <= n
    BY <1>8
  <2> QED
    BY <2>1, <2>2, <2>3, RowsMax
<1> QED
  BY <1>1, <1>3, <1>9

(* What a scan makes of line i. *)
Decoded(text) ==
  IF Rows!IsOperation(text) THEN Rows!DecodeOperation(text) ELSE Rows!DecodeRow(text, 0)

LEMMA LineRead ==
  ASSUME RowsTyped, NEW t, TextsAre(t), NEW c, NEW m, Laid(file, t, c, Len(ops), m),
         NEW i \in 1..Len(ops), NEW l, l = Rows!LineAt(c[i - 1]),
         NEW text, text = Rows!Trimmed(l), NEW e,
         e = [entry |-> Decoded(text), offset |-> c[i - 1], len |-> Len(l)]
  PROVE  /\ Len(l) = c[i] - c[i - 1] /\ text # <<>>
         /\ i <= m => Decoded(text) = Rows!Written(ops[i])
         /\ Decoded(text).ok => EntryAt(e, c[i - 1], c[i])
<1>1. PICK n \in 0..9 : n = Len(ops)
  BY OpsLength
<1>2. /\ file \in Seq(FileChar) /\ c \in [0..n -> Nat] /\ c[n] = Len(file) /\ m \in Nat
      /\ \A j \in 0..n : \A k \in 0..j : c[k] <= c[j]
      /\ c[i - 1] < c[i]
      /\ i <= m => WholeAt(file, c[i - 1], c[i], t[i])
      /\ m <= n /\ (m < n => m = n - 1 /\ PartAt(file, c[m], c[n]))
  BY <1>1 DEF Laid
<1>3. i \in 0..n /\ i - 1 \in 0..n /\ n \in 0..n
  BY <1>1
<1>4. PICK x \in Nat : x = c[i - 1]
  BY <1>2, <1>3
<1>5. PICK y \in Nat : y = c[i] /\ y <= Len(file) /\ x < y
  BY <1>2, <1>3, <1>4
<1>6. e.entry = Decoded(text) /\ e.offset = x /\ e.len = Len(l)
  BY <1>4
<1>7. CASE i <= m
  <2>1. WholeAt(file, x, y, t[i])
    BY <1>2, <1>4, <1>5, <1>7
  <2>2. Len(l) = y - x /\ text = t[i]
    <3>1. file \in Seq(FileChar) /\ y <= Len(file)
      BY <1>2, <1>5
    <3>2. Len(Rows!LineAt(x)) = y - x /\ Rows!Trimmed(Rows!LineAt(x)) = t[i]
      BY <2>1, <3>1, WholeLine
    <3> QED
      BY <1>4, <3>2
  <2>3. /\ Rows!IsOperation(t[i]) /\ t[i] # <<>>
        /\ Rows!DecodeOperation(t[i]) = Rows!Written(ops[i])
    BY TextFacts
  <2>4. Decoded(text) = Rows!Written(ops[i])
    BY <2>2, <2>3 DEF Decoded
  <2>5. Rows!ReadPointer(e) = Rows!DecodeOperation(t[i])
    <3>1. e.offset = x /\ e.len = y - x
      BY <1>6, <2>2
    <3>2. file \in Seq(FileChar) /\ y <= Len(file) /\ Rows!IsOperation(t[i])
      BY <1>2, <1>5, <2>3
    <3>3. PICK s : s = t[i]
      OBVIOUS
    <3>4. PICK p : p = e
      OBVIOUS
    <3>5. WholeAt(file, x, y, s) /\ Rows!IsOperation(s) /\ p.offset = x /\ p.len = y - x
      BY <2>1, <3>1, <3>2, <3>3, <3>4
    <3>6. Rows!ReadPointer(p) = Rows!DecodeOperation(s)
      BY <3>2, <3>5, WholePointer
    <3> QED
      BY <3>3, <3>4, <3>6
  <2>6. EntryAt(e, x, y)
    BY <1>6, <2>2, <2>3, <2>4, <2>5 DEF EntryAt
  <2> QED
    BY <1>4, <1>5, <2>2, <2>3, <2>4, <2>6
<1>8. CASE ~(i <= m)
  <2>1. m = i - 1 /\ i = n /\ PartAt(file, c[m], c[n])
    BY <1>1, <1>2, <1>8
  <2>2. PartAt(file, x, y) /\ y = Len(file)
    BY <1>2, <1>4, <1>5, <2>1
  <2>3. Len(l) = y - x /\ text = l /\ l # <<>>
    BY <1>2, <1>4, <1>5, <2>2, PartLine
  <2>4. Rows!ReadPointer(e) = IF Rows!IsOperation(l) THEN Rows!DecodeOperation(l) ELSE Rows!Bad
    BY <1>2, <1>4, <1>5, <1>6, <2>2, <2>3, PartPointer
  <2>5. Decoded(text).ok => EntryAt(e, x, y)
    <3> SUFFICES ASSUME Decoded(text).ok PROVE EntryAt(e, x, y)
      OBVIOUS
    <3>1. e.entry.tx # 0 => Rows!ReadPointer(e) = e.entry
      <4>1. CASE Rows!IsOperation(l)
        BY <1>6, <2>3, <2>4, <4>1 DEF Decoded
      <4>2. CASE ~Rows!IsOperation(l)
        <5>1. Decoded(text) = Rows!DecodeRow(l, 0)
          BY <2>3, <4>2 DEF Decoded
        <5>2. Rows!DecodeRow(l, 0).ok
          BY <5>1
        <5>3. e.entry.tx = 0
          BY <1>6, <5>1, <5>2, OldRow
        <5> QED
          BY <5>3
      <4> QED
        BY <4>1, <4>2
    <3> QED
      BY <1>6, <2>3, <3>1 DEF EntryAt
  <2> QED
    BY <1>4, <1>5, <1>8, <2>3, <2>5
<1> QED
  BY <1>7, <1>8

LEMMA TextsPrimed ==
  ASSUME kind' = kind, NEW q, q = ops', NEW t,
         \A i \in 1..Len(q) : Valid(q[i], i) /\ t[i] = Rows!EncodeOperation(q[i])
  PROVE  TextsAre(t)'
BY DEF TextsAre, Valid, Rows!EncodeOperation, Rows!EncodeRow

LEMMA RowsInit == Rows!Init => RowsInv
<1> SUFFICES ASSUME Rows!Init PROVE RowsInv
  OBVIOUS
<1>1. /\ kind \in DOMAIN Bodies /\ ops = <<>> /\ file = <<>> /\ cut = FALSE /\ offset = 0
      /\ entries = <<>> /\ pc = "write"
  BY DEF Rows!Init
<1>2. Len(<<>>) = 0 /\ IsSequence(<<>>)
  BY DEF IsSequence
<1>3. MaxOps \in 0..9
  BY RowsAssumption
<1>4. RowsTyped
  BY <1>1, <1>2, <1>3 DEF RowsTyped
<1> DEFINE c == [i \in 0..0 |-> 0]
<1>5. Laid(file, <<>>, c, Len(ops), 0)
  BY <1>1, <1>2, LaidEmpty
<1>6. c[0] = 0
  OBVIOUS
<1> HIDE DEF c
<1>7. TextsAre(<<>>)
  BY <1>1, <1>2 DEF TextsAre
<1>8. Scanned(c, 0)
  BY <1>1, <1>2, <1>6 DEF Scanned
<1> QED
  BY <1>1, <1>2, <1>4, <1>5, <1>7, <1>8 DEF RowsInv

LEMMA RowsWrite ==
  ASSUME RowsInv, Rows!Write
  PROVE  RowsInv'
<1>1. PICK t, c, m : /\ TextsAre(t) /\ Laid(file, t, c, Len(ops), m) /\ Scanned(c, m)
                     /\ ~cut => m = Len(ops)
  BY DEF RowsInv
<1>2. PICK o \in Rows!Operations(Len(ops) + 1) :
        /\ o.op = "put" => Rows!ValidRecord(o)
        /\ ops' = Append(ops, o)
        /\ file' = file \o Rows!EncodeOperation(o) \o <<"nl">>
  BY DEF Rows!Write
<1>3. /\ pc = "write" /\ Len(ops) < MaxOps
      /\ kind' = kind /\ cut' = cut /\ offset' = offset /\ entries' = entries /\ pc' = pc
  BY DEF Rows!Write
<1>4. RowsTyped /\ MaxOps \in 0..9
  BY RowsAssumption DEF RowsInv
<1>5. PICK n \in 0..8 : n = Len(ops) /\ n + 1 <= MaxOps
  <2>1. Len(ops) \in 0..8 /\ Len(ops) + 1 <= MaxOps
    <3>1. PICK x \in 0..9 : x = Len(ops)
      BY <1>4, OpsLength
    <3>2. PICK y \in 0..9 : y = MaxOps
      BY <1>4
    <3>3. x < y
      BY <1>3, <3>1, <3>2
    <3>4. x \in 0..8 /\ x + 1 <= y
      BY <3>3
    <3>5. Len(ops) \in 0..8
      BY <3>1, <3>4
    <3>6. Len(ops) + 1 <= MaxOps
      BY <3>1, <3>2, <3>4
    <3> QED
      BY <3>5, <3>6
  <2> QED
    BY <2>1
<1>6. /\ IsSequence(ops') /\ Len(ops') = n + 1 /\ ops'[n + 1] = o
      /\ \A i \in 1..n : ops'[i] = ops[i]
  BY <1>2, <1>4, <1>5, SeqFacts DEF RowsTyped
<1>7. RowsTyped'
  <2>1. n + 1 \in 0..MaxOps
    BY <1>4, <1>5
  <2> QED
    BY <1>3, <1>4, <1>6, <2>1 DEF RowsTyped
<1>8. Valid(o, n + 1)
  <2>1. /\ o.op \in {"put", "delete"} /\ o.tx = n + 1 /\ o.id \in RowIds
        /\ o.op = "put" => o.body \in Bodies[kind]
        /\ o.op = "delete" => o.body = Rows!NoBody
    BY <1>5 DEF Rows!Operations
  <2>2. RowIds \subseteq Seq(Characters)
    BY RowsAssumption
  <2>3. o.op = "put" => o.body.type = kind
    BY <1>2 DEF Rows!ValidRecord
  <2>4. n + 1 \in 1..9
    OBVIOUS
  <2> QED
    BY <2>1, <2>2, <2>3, <2>4 DEF Valid
<1>9. PICK s : s = Rows!EncodeOperation(o)
  OBVIOUS
<1>10. PICK u : u = [i \in 1..(n + 1) |-> IF i = n + 1 THEN s ELSE t[i]]
  OBVIOUS
<1>11. s \in Seq(LineChar) /\ Len(s) >= 4
  <2>1. n + 1 \in 1..9
    OBVIOUS
  <2> QED
    BY <1>4, <1>8, <1>9, <2>1, OperationReadsBack DEF RowsTyped
<1>12. u[n + 1] = s /\ \A i \in 1..n : u[i] = t[i]
  <2>1. n + 1 \in 1..(n + 1) /\ \A i \in 1..n : i \in 1..(n + 1) /\ i # n + 1
    OBVIOUS
  <2> QED
    BY <1>10, <2>1
<1>13. file' = file \o s \o <<"nl">>
  BY <1>2, <1>9
<1>14. m = n
  BY <1>1, <1>3, <1>5 DEF Scanned
<1>15. \E d : Laid(file', u, d, n + 1, n + 1)
  <2>1. Laid(file, t, c, n, n)
    BY <1>1, <1>5, <1>14
  <2> QED
    BY <1>11, <1>12, <1>13, <2>1, LaidWrite
<1>16. PICK d : Laid(file', u, d, n + 1, n + 1)
  BY <1>15
<1>17. TextsAre(u)'
  <2>1. PICK q : q = ops'
    OBVIOUS
  <2>2. ASSUME NEW i \in 1..Len(q)
        PROVE  Valid(q[i], i) /\ u[i] = Rows!EncodeOperation(q[i])
    <3>1. CASE i = n + 1
      BY <1>6, <1>8, <1>12, <1>9, <2>1, <3>1
    <3>2. CASE i # n + 1
      <4>1. i \in 1..n
        BY <1>6, <2>1, <3>2
      <4>2. Valid(ops[i], i) /\ t[i] = Rows!EncodeOperation(ops[i])
        BY <1>1, <1>5, <4>1 DEF TextsAre
      <4> QED
        BY <1>6, <1>12, <2>1, <4>1, <4>2
    <3> QED
      BY <3>1, <3>2
  <2>3. kind' = kind
    BY <1>3
  <2>4. \A i \in 1..Len(q) : Valid(q[i], i) /\ u[i] = Rows!EncodeOperation(q[i])
    BY <2>2
  <2> QED
    BY <2>1, <2>3, <2>4, TextsPrimed
<1>18. Scanned(d, n + 1)'
  <2>1. Len(entries) = 0 /\ offset = c[Len(entries)] /\ c[0] = 0
    BY <1>1, <1>3 DEF Scanned, Laid
  <2>2. d[0] = 0
    BY <1>16 DEF Laid
  <2> QED
    BY <1>3, <1>6, <2>1, <2>2 DEF Scanned
<1>19. Laid(file, u, d, Len(ops), n + 1)'
  BY <1>6, <1>16 DEF Laid
<1>20. (~cut => n + 1 = Len(ops))'
  BY <1>6
<1> QED
  BY <1>7, <1>17, <1>18, <1>19, <1>20 DEF RowsInv

LEMMA RowsMinOfTwo ==
  ASSUME NEW a \in Nat, NEW b \in Nat
  PROVE  Rows!Min({a, b}) \in Nat /\ Rows!Min({a, b}) <= b
<1>1. PICK S : S = {a, b}
  OBVIOUS
<1>2. S \in SUBSET Int /\ a \in S /\ b \in S
  BY <1>1
<1>3. CASE a <= b
  <2>1. \A y \in S : a <= y
    BY <1>1, <1>3
  <2>2. Rows!Min(S) = a
    BY <1>2, <2>1, RowsMin
  <2> QED
    BY <1>1, <1>3, <2>2
<1>4. CASE b <= a
  <2>1. \A y \in S : b <= y
    BY <1>1, <1>4
  <2>2. Rows!Min(S) = b
    BY <1>2, <2>1, RowsMin
  <2> QED
    BY <1>1, <2>2
<1> QED
  BY <1>3, <1>4

LEMMA RowsStop ==
  ASSUME RowsInv, Rows!Stop
  PROVE  RowsInv'
<1>1. PICK t, c, m : /\ TextsAre(t) /\ Laid(file, t, c, Len(ops), m) /\ Scanned(c, m)
                     /\ ~cut => m = Len(ops)
  BY DEF RowsInv
<1>2. /\ pc = "write" /\ ops # <<>> /\ cut' = TRUE /\ pc' = "scan"
      /\ kind' = kind /\ ops' = ops /\ offset' = offset /\ entries' = entries
  BY DEF Rows!Stop
<1>3. RowsTyped
  BY DEF RowsInv
<1>4. PICK n \in 1..9 : n = Len(ops)
  <2>1. Len(ops) \in 0..9
    BY <1>3, OpsLength
  <2>2. Len(ops) # 0
    BY <1>2, <1>3, SeqFacts DEF RowsTyped
  <2> QED
    BY <2>1, <2>2
<1>5. m = n /\ Len(entries) = 0 /\ offset = c[0] /\ c[0] = 0
  BY <1>1, <1>2, <1>4 DEF Scanned, Laid
<1>6. t[n] = Rows!EncodeOperation(Rows!Last(ops)) /\ t[n] \in Seq(LineChar)
  <2>1. n \in 1..Len(ops)
    BY <1>4
  <2>2. t[n] = Rows!EncodeOperation(ops[n])
    BY <1>1, <2>1 DEF TextsAre
  <2>3. Rows!Last(ops) = ops[n]
    BY <1>4 DEF Rows!Last
  <2>4. t[n] \in Seq(LineChar)
    BY <1>1, <1>3, <2>1, TextFacts
  <2> QED
    BY <2>2, <2>3, <2>4
<1>7. PICK l \in 1..Rows!Min({MaxCut[kind], Len(t[n])}) : file' = SubSeq(file, 1, Len(file) - l)
  BY <1>6 DEF Rows!Stop
<1>8. l \in 1..Len(t[n])
  <2>1. PICK a \in Nat : a = MaxCut[kind]
    BY <1>3, RowsAssumption DEF RowsTyped
  <2>2. PICK b \in Nat : b = Len(t[n])
    BY <1>6
  <2>3. Rows!Min({a, b}) \in Nat /\ Rows!Min({a, b}) <= b
    BY RowsMinOfTwo
  <2>4. l \in 1..Rows!Min({a, b})
    BY <1>7, <2>1, <2>2
  <2> QED
    BY <2>2, <2>3, <2>4
<1>9. PICK d : Laid(file', t, d, n, n - 1)
  <2>1. Laid(file, t, c, Len(ops), m)
    BY <1>1
  <2>2. Laid(file, t, c, n, n)
    BY <1>4, <1>5, <2>1
  <2>3. n > 0
    OBVIOUS
  <2> QED
    BY <1>7, <1>8, <2>2, <2>3, LaidStop
<1>10. RowsTyped'
  BY <1>2, <1>3 DEF RowsTyped
<1>11. TextsAre(t)'
  <2>1. PICK q : q = ops'
    OBVIOUS
  <2>2. \A i \in 1..Len(q) : Valid(q[i], i) /\ t[i] = Rows!EncodeOperation(q[i])
    BY <1>1, <1>2, <2>1 DEF TextsAre
  <2> QED
    BY <1>2, <2>1, <2>2, TextsPrimed
<1>12. Scanned(d, n - 1)'
  <2>1. d[0] = 0
    BY <1>9 DEF Laid
  <2> QED
    BY <1>2, <1>4, <1>5, <2>1 DEF Scanned
<1>13. Laid(file, t, d, Len(ops), n - 1)'
  <2>1. Len(ops)' = n
    BY <1>2, <1>4
  <2> QED
    BY <1>9, <2>1 DEF Laid
<1>14. (~cut => n - 1 = Len(ops))'
  BY <1>2
<1> QED
  BY <1>10, <1>11, <1>12, <1>13, <1>14 DEF RowsInv

(* What a step that leaves the file alone has to keep. *)
LEMMA RowsScanned ==
  ASSUME kind' = kind, ops' = ops, file' = file, cut' = cut, RowsTyped',
         NEW t, NEW c, NEW m, TextsAre(t), Laid(file, t, c, Len(ops), m),
         ~cut => m = Len(ops), Scanned(c, m)'
  PROVE  RowsInv'
<1>1. TextsAre(t)'
  <2>1. PICK q : q = ops'
    OBVIOUS
  <2>2. \A i \in 1..Len(q) : Valid(q[i], i) /\ t[i] = Rows!EncodeOperation(q[i])
    BY <2>1 DEF TextsAre
  <2> QED
    BY <2>1, <2>2, TextsPrimed
<1>2. Laid(file, t, c, Len(ops), m)'
  BY DEF Laid
<1>3. (~cut => m = Len(ops))'
  OBVIOUS
<1> QED
  BY <1>1, <1>2, <1>3 DEF RowsInv

LEMMA EntryPrimed ==
  ASSUME kind' = kind, file' = file, NEW e, NEW x, NEW y, EntryAt(e, x, y)
  PROVE  EntryAt(e, x, y)'
<1>1. Rows!ReadPointer(e)' = Rows!ReadPointer(e)
  BY ReadPrimed
<1> QED
  BY <1>1 DEF EntryAt

(* Another step of the scan, without an entry. *)
LEMMA SameEntries ==
  ASSUME kind' = kind, ops' = ops, file' = file, offset' = offset, entries' = entries,
         NEW c, NEW m, Scanned(c, m), pc # "error", pc' # "write",
         pc' = "done" => offset = Len(file), pc' # "error"
  PROVE  Scanned(c, m)'
<1>1. PICK q : q = entries'
  OBVIOUS
<1>2. \A i \in 1..Len(q) : EntryAt(q[i], c[i - 1], c[i])
  BY <1>1 DEF Scanned
<1>3. \A i \in 1..Len(q) : EntryAt(q[i], c[i - 1], c[i])'
  <2> TAKE i \in 1..Len(q)
  <2>1. PICK e, x, y : e = q[i] /\ x = c[i - 1] /\ y = c[i]
    OBVIOUS
  <2>2. EntryAt(e, x, y)'
    BY <1>2, <2>1, EntryPrimed
  <2> QED
    BY <2>1, <2>2
<1>4. (\A i \in 1..Len(entries) : EntryAt(entries[i], c[i - 1], c[i]))'
  BY <1>1, <1>3 DEF EntryAt
<1>5. (\A i \in 1..Len(entries) : i <= m => entries[i].entry = Rows!Written(ops[i]))'
  BY DEF Scanned, Rows!Written
<1> QED
  BY <1>4, <1>5 DEF Scanned

LEMMA RowsStartScan ==
  ASSUME RowsInv, Rows!StartScan
  PROVE  RowsInv'
<1>1. PICK t, c, m : /\ TextsAre(t) /\ Laid(file, t, c, Len(ops), m) /\ Scanned(c, m)
                     /\ ~cut => m = Len(ops)
  BY DEF RowsInv
<1>2. /\ pc = "write" /\ pc' = "scan"
      /\ kind' = kind /\ ops' = ops /\ file' = file /\ cut' = cut
      /\ offset' = offset /\ entries' = entries
  BY DEF Rows!StartScan
<1>3. RowsTyped'
  BY <1>2 DEF RowsInv, RowsTyped
<1>4. Scanned(c, m)'
  BY <1>1, <1>2, SameEntries
<1> QED
  BY <1>1, <1>2, <1>3, <1>4, RowsScanned

LEMMA RowsEndScan ==
  ASSUME RowsInv, Rows!EndScan
  PROVE  RowsInv'
<1>1. PICK t, c, m : /\ TextsAre(t) /\ Laid(file, t, c, Len(ops), m) /\ Scanned(c, m)
                     /\ ~cut => m = Len(ops)
  BY DEF RowsInv
<1>2. /\ pc = "scan" /\ pc' = "done" /\ offset = Len(file)
      /\ kind' = kind /\ ops' = ops /\ file' = file /\ cut' = cut
      /\ offset' = offset /\ entries' = entries
  BY DEF Rows!EndScan
<1>3. RowsTyped'
  BY <1>2 DEF RowsInv, RowsTyped
<1>4. Scanned(c, m)'
  BY <1>1, <1>2, SameEntries
<1> QED
  BY <1>1, <1>2, <1>3, <1>4, RowsScanned

LEMMA RowsScanLine ==
  ASSUME RowsInv, Rows!ScanLine
  PROVE  RowsInv'
<1>1. PICK t, c, m : /\ TextsAre(t) /\ Laid(file, t, c, Len(ops), m) /\ Scanned(c, m)
                     /\ ~cut => m = Len(ops)
  BY DEF RowsInv
<1>2. PICK l : l = Rows!LineAt(offset)
  OBVIOUS
<1>3. PICK text : text = Rows!Trimmed(l)
  OBVIOUS
<1>4. PICK decoded : decoded = Decoded(text)
  OBVIOUS
<1>5. /\ pc = "scan" /\ offset < Len(file) /\ offset' = offset + Len(l)
      /\ kind' = kind /\ ops' = ops /\ file' = file /\ cut' = cut
      /\ IF text = <<>> THEN entries' = entries /\ pc' = pc
         ELSE IF ~decoded.ok THEN entries' = <<>> /\ pc' = "error"
         ELSE /\ entries' = Append(entries,
                   [entry |-> decoded, offset |-> offset, len |-> Len(l)])
              /\ pc' = pc
  BY <1>2, <1>3, <1>4 DEF Rows!ScanLine, Decoded
<1>6. RowsTyped
  BY DEF RowsInv
<1>7. PICK n \in 0..9 : n = Len(ops)
  BY <1>6, OpsLength
<1>8. PICK k \in 0..n : k = Len(entries) /\ offset = c[k]
  <2>1. Len(entries) \in Nat
    BY <1>6, SeqFacts DEF RowsTyped
  <2>2. Len(entries) <= n /\ offset = c[Len(entries)]
    BY <1>1, <1>5, <1>7 DEF Scanned
  <2> QED
    BY <2>1, <2>2
<1>9. c[n] = Len(file) /\ c \in [0..n -> Nat]
  BY <1>1, <1>7 DEF Laid
<1>10. k # n
  BY <1>5, <1>8, <1>9
<1>11. PICK j \in 1..n : j = k + 1 /\ j - 1 = k
  BY <1>10
<1>12. PICK e : e = [entry |-> decoded, offset |-> offset, len |-> Len(l)]
  OBVIOUS
<1>13. /\ Len(l) = c[j] - c[k] /\ text # <<>>
       /\ j <= m => decoded = Rows!Written(ops[j])
       /\ decoded.ok => EntryAt(e, c[k], c[j])
  <2>1. j \in 1..Len(ops) /\ l = Rows!LineAt(c[j - 1])
        /\ e = [entry |-> Decoded(text), offset |-> c[j - 1], len |-> Len(l)]
    BY <1>2, <1>4, <1>7, <1>8, <1>11, <1>12
  <2>2. Laid(file, t, c, Len(ops), m) /\ TextsAre(t)
    BY <1>1
  <2>3. /\ Len(l) = c[j] - c[j - 1] /\ text # <<>>
        /\ j <= m => Decoded(text) = Rows!Written(ops[j])
        /\ Decoded(text).ok => EntryAt(e, c[j - 1], c[j])
    BY <1>3, <1>6, <2>1, <2>2, LineRead
  <2> QED
    BY <1>4, <1>11, <2>3
<1>14. offset' = c[j]
  <2>1. c[k] \in Nat /\ c[j] \in Nat
    BY <1>9
  <2> QED
    BY <1>5, <1>8, <1>13, <2>1
<1>15. CASE ~decoded.ok
  <2>1. entries' = <<>> /\ pc' = "error"
    BY <1>5, <1>13, <1>15
  <2>2. Len(<<>>) = 0 /\ IsSequence(<<>>)
    BY DEF IsSequence
  <2>3. RowsTyped'
    BY <1>5, <1>6, <2>1, <2>2 DEF RowsTyped
  <2>4. ~(j <= m)
    BY <1>13, <1>15 DEF Rows!Written
  <2>5. m # n /\ Len(ops)' = n
    BY <1>5, <1>7, <2>4
  <2>6. Scanned(c, m)'
    BY <2>1, <2>2, <2>5 DEF Scanned
  <2> QED
    BY <1>1, <1>5, <2>3, <2>6, RowsScanned
<1>16. CASE decoded.ok
  <2>1. entries' = Append(entries, e) /\ pc' = "scan"
    BY <1>5, <1>12, <1>13, <1>16
  <2>2. /\ IsSequence(entries') /\ Len(entries') = j /\ entries'[j] = e
        /\ \A i \in 1..k : entries'[i] = entries[i]
    BY <1>6, <1>8, <1>11, <2>1, SeqFacts DEF RowsTyped
  <2>3. RowsTyped'
    BY <1>5, <1>6, <2>1, <2>2 DEF RowsTyped
  <2>4. PICK q : q = entries'
    OBVIOUS
  <2>5. \A i \in 1..j : /\ EntryAt(q[i], c[i - 1], c[i])
                        /\ i <= m => q[i].entry = Rows!Written(ops[i])
    <3> TAKE i \in 1..j
    <3>1. CASE i = j
      <4>1. q[i] = e /\ e.entry = decoded
        BY <1>12, <2>2, <2>4, <3>1
      <4> QED
        BY <1>11, <1>13, <1>16, <3>1, <4>1
    <3>2. CASE i # j
      <4>1. i \in 1..k
        BY <1>11, <3>2
      <4>2. EntryAt(entries[i], c[i - 1], c[i]) /\ (i <= m => entries[i].entry = Rows!Written(ops[i]))
        BY <1>1, <1>8, <4>1 DEF Scanned
      <4> QED
        BY <2>2, <2>4, <4>1, <4>2
    <3> QED
      BY <3>1, <3>2
  <2>6. \A i \in 1..j : EntryAt(q[i], c[i - 1], c[i])'
    <3> TAKE i \in 1..j
    <3>1. PICK p, x, y : p = q[i] /\ x = c[i - 1] /\ y = c[i]
      OBVIOUS
    <3>2. EntryAt(p, x, y)'
      BY <1>5, <2>5, <3>1, EntryPrimed
    <3> QED
      BY <3>1, <3>2
  <2>7. (\A i \in 1..Len(entries) : EntryAt(entries[i], c[i - 1], c[i]))'
    BY <2>2, <2>4, <2>6 DEF EntryAt
  <2>8. (\A i \in 1..Len(entries) : i <= m => entries[i].entry = Rows!Written(ops[i]))'
    BY <1>5, <2>2, <2>4, <2>5 DEF Rows!Written
  <2>9. j <= n /\ Len(ops)' = n
    BY <1>5, <1>7
  <2>10. Scanned(c, m)'
    BY <1>14, <2>1, <2>2, <2>7, <2>8, <2>9 DEF Scanned
  <2> QED
    BY <1>1, <1>5, <2>3, <2>10, RowsScanned
<1> QED
  BY <1>15, <1>16

LEMMA RowsSame ==
  ASSUME RowsInv, UNCHANGED <<kind, ops, file, cut, offset, entries, pc>>
  PROVE  RowsInv'
<1>1. PICK t, c, m : /\ TextsAre(t) /\ Laid(file, t, c, Len(ops), m) /\ Scanned(c, m)
                     /\ ~cut => m = Len(ops)
  BY DEF RowsInv
<1>2. RowsTyped'
  BY DEF RowsInv, RowsTyped
<1>3. PICK q : q = entries'
  OBVIOUS
<1>4. \A i \in 1..Len(q) : EntryAt(q[i], c[i - 1], c[i])
  BY <1>1, <1>3 DEF Scanned
<1>5. \A i \in 1..Len(q) : EntryAt(q[i], c[i - 1], c[i])'
  <2> TAKE i \in 1..Len(q)
  <2>1. PICK p, x, y : p = q[i] /\ x = c[i - 1] /\ y = c[i]
    OBVIOUS
  <2>2. EntryAt(p, x, y)'
    BY <1>4, <2>1, EntryPrimed
  <2> QED
    BY <2>1, <2>2
<1>6. (\A i \in 1..Len(entries) : EntryAt(entries[i], c[i - 1], c[i]))'
  BY <1>3, <1>5 DEF EntryAt
<1>7. (\A i \in 1..Len(entries) : i <= m => entries[i].entry = Rows!Written(ops[i]))'
  BY <1>1 DEF Scanned, Rows!Written
<1>8. Scanned(c, m)'
  BY <1>1, <1>6, <1>7 DEF Scanned
<1> QED
  BY <1>1, <1>2, <1>8, RowsScanned

LEMMA RowsStep ==
  ASSUME RowsInv, Rows!Next
  PROVE  RowsInv'
<1>1. CASE Rows!Finished
  BY <1>1, RowsSame DEF Rows!Finished, Rows!vars
<1> QED
  BY <1>1, RowsWrite, RowsStop, RowsStartScan, RowsScanLine, RowsEndScan DEF Rows!Next

(* The scan is done only when all lines are read. *)
LEMMA AllScanned ==
  ASSUME RowsInv, pc = "done", NEW c, NEW m, NEW t, Laid(file, t, c, Len(ops), m), Scanned(c, m)
  PROVE  Len(entries) = Len(ops)
<1>1. RowsTyped
  BY DEF RowsInv
<1>2. PICK n \in 0..9 : n = Len(ops)
  BY <1>1, OpsLength
<1>3. Len(entries) \in Nat
  BY <1>1, SeqFacts DEF RowsTyped
<1>4. PICK k \in 0..n : k = Len(entries) /\ c[k] = Len(file)
  <2>1. Len(entries) <= n /\ c[Len(entries)] = Len(file)
    BY <1>2 DEF Scanned
  <2> QED
    BY <1>3, <2>1
<1>5. /\ c \in [0..n -> Nat] /\ c[n] = Len(file)
      /\ \A i \in 0..n : \A j \in 0..i : c[j] <= c[i]
      /\ \A i \in 1..n : c[i - 1] < c[i]
  BY <1>2 DEF Laid
<1>6. k = n
  <2> SUFFICES ASSUME k # n PROVE FALSE
    OBVIOUS
  <2>1. PICK j \in 1..n : j = k + 1 /\ j - 1 = k
    OBVIOUS
  <2>2. j \in 0..n /\ j \in 0..n /\ n \in 0..n
    OBVIOUS
  <2>3. c[k] < c[j] /\ c[j] <= c[n] /\ c[k] \in Nat /\ c[j] \in Nat /\ c[n] \in Nat
    BY <1>5, <2>1, <2>2
  <2> QED
    BY <1>4, <1>5, <2>3
<1> QED
  BY <1>2, <1>4, <1>6

LEMMA RoundTripAt ==
  ASSUME RowsInv
  PROVE  Rows!RoundTrip /\ Rows!WholeLinesSurvive
<1>1. PICK t, c, m : /\ TextsAre(t) /\ Laid(file, t, c, Len(ops), m) /\ Scanned(c, m)
                     /\ ~cut => m = Len(ops)
  BY DEF RowsInv
<1>2. RowsTyped
  BY DEF RowsInv
<1>3. PICK n \in 0..9 : n = Len(ops)
  BY <1>2, OpsLength
<1>4. /\ DOMAIN entries = 1..Len(entries) /\ DOMAIN ops = 1..n
  BY <1>2, <1>3, SeqFacts DEF RowsTyped
<1>5. pc = "done" => Len(entries) = n
  BY <1>1, <1>3, AllScanned
<1>6. \A i \in 1..Len(entries) : i <= m => entries[i].entry = Rows!Written(ops[i])
  BY <1>1 DEF Scanned
<1>7. Rows!RoundTrip
  <2> SUFFICES ASSUME ~cut
               PROVE  /\ pc # "error"
                      /\ pc = "done" => [i \in DOMAIN entries |-> entries[i].entry]
                                          = [i \in DOMAIN ops |-> Rows!Written(ops[i])]
                      /\ Rows!MaxTx = Len(ops)
    BY DEF Rows!RoundTrip
  <2>1. m = n
    BY <1>1, <1>3
  <2>2. pc # "error"
    BY <1>1, <1>3, <2>1 DEF Scanned
  <2>3. pc = "done" => \A i \in 1..n : entries[i].entry = Rows!Written(ops[i])
    BY <1>5, <1>6, <2>1
  <2>4. pc = "done" => [i \in DOMAIN entries |-> entries[i].entry]
                         = [i \in DOMAIN ops |-> Rows!Written(ops[i])]
    BY <1>4, <1>5, <2>3, Zenon
  <2>5. Laid(file, t, c, Len(ops), Len(ops))
    BY <1>1, <1>3, <2>1
  <2>6. Rows!MaxTx = Len(ops)
    BY <1>1, <1>2, <2>5, MaxTxIs
  <2> QED
    BY <2>2, <2>4, <2>6
<1>8. Rows!WholeLinesSurvive
  <2>1. n - 1 <= m
    BY <1>1, <1>3 DEF Laid
  <2>2. m \in Nat
    BY <1>1 DEF Laid
  <2>3. pc = "done" => \A i \in 1..(n - 1) : entries[i].entry = Rows!Written(ops[i])
    <3> SUFFICES ASSUME pc = "done", NEW i \in 1..(n - 1)
                 PROVE  entries[i].entry = Rows!Written(ops[i])
      OBVIOUS
    <3>1. i \in 1..Len(entries) /\ i <= m
      BY <1>5, <2>1, <2>2
    <3> QED
      BY <1>6, <3>1
  <2> QED
    BY <1>3, <1>5, <2>3 DEF Rows!WholeLinesSurvive
<1> QED
  BY <1>7, <1>8

LEMMA PointersAt ==
  ASSUME RowsInv
  PROVE  Rows!PointersExact
<1>1. PICK t, c, m : /\ TextsAre(t) /\ Laid(file, t, c, Len(ops), m) /\ Scanned(c, m)
  BY DEF RowsInv
<1>2. RowsTyped
  BY DEF RowsInv
<1>3. PICK n \in 0..9 : n = Len(ops)
  BY <1>2, OpsLength
<1>4. DOMAIN entries = 1..Len(entries)
  BY <1>2, SeqFacts DEF RowsTyped
<1>5. PICK k \in 0..n : k = Len(entries)
  <2>1. Len(entries) <= n
    BY <1>1, <1>3 DEF Scanned
  <2>2. Len(entries) \in Nat
    BY <1>2, SeqFacts DEF RowsTyped
  <2> QED
    BY <2>1, <2>2
<1>6. \A i \in 1..k : EntryAt(entries[i], c[i - 1], c[i])
  BY <1>1, <1>5 DEF Scanned
<1>7. c \in [0..n -> Nat]
  BY <1>1, <1>3 DEF Laid
<1>8. ASSUME NEW i \in 1..k
      PROVE  /\ entries[i].entry.tx # 0 => Rows!ReadPointer(entries[i]) = entries[i].entry
             /\ i > 1 => entries[i].offset = entries[i - 1].offset + entries[i - 1].len
  <2>1. /\ entries[i].offset = c[i - 1]
        /\ entries[i].entry.tx # 0 => Rows!ReadPointer(entries[i]) = entries[i].entry
    BY <1>6 DEF EntryAt
  <2>2. i > 1 => entries[i].offset = entries[i - 1].offset + entries[i - 1].len
    <3> SUFFICES ASSUME i > 1 PROVE entries[i].offset = entries[i - 1].offset + entries[i - 1].len
      OBVIOUS
    <3>1. PICK j \in 1..k : j = i - 1
      OBVIOUS
    <3>2. entries[j].offset = c[j - 1] /\ entries[j].len = c[j] - c[j - 1]
      BY <1>6 DEF EntryAt
    <3>3. j \in 0..n /\ j - 1 \in 0..n
      OBVIOUS
    <3>4. PICK x, y \in Nat : x = c[j - 1] /\ y = c[j]
      BY <1>7, <3>3
    <3>5. x + (y - x) = y
      BY <3>4
    <3> QED
      BY <2>1, <3>1, <3>2, <3>4, <3>5
  <2> QED
    BY <2>1, <2>2
<1> QED
  BY <1>4, <1>5, <1>8 DEF Rows!PointersExact

-----------------------------------------------------------------------------
(* The bytes of caches.                                                    *)

(* FlattenSeq appends one sequence after another. *)
Flattens(f, w, n, S) ==
  /\ f \in [0..n -> Seq(S)] /\ f[0] = <<>>
  /\ \A k \in 1..n : f[k] = f[k - 1] \o w[k]

LEMMA FlattenIs ==
  ASSUME NEW S, NEW n \in Nat, NEW w \in [1..n -> Seq(S)]
  PROVE  \E f : Flattens(f, w, n, S) /\ Sixb!FlattenSeq(w) = f[n]
<1> DEFINE d       == [k \in 1..n |-> [x \in Seq(S) |-> x \o w[k]]]
           step(g) == [k \in 1..n |-> IF k = 1 THEN w[k] ELSE g[k - 1] \o w[k]]
<1>1. <<>> \in Seq(S) /\ \A k \in 1..n : d[k] \in [Seq(S) -> Seq(S)]
  OBVIOUS
<1>2. \E f \in [0..n -> Seq(S)] : Runs(f, <<>>, d, n)
  <2> HIDE DEF d
  <2> QED
    BY <1>1, RunsExist
<1>3. PICK f \in [0..n -> Seq(S)] : Runs(f, <<>>, d, n)
  BY <1>2
<1>4. \A k \in 1..n : f[k] = f[k - 1] \o w[k]
  <2> TAKE k \in 1..n
  <2>1. k - 1 \in 0..n
    OBVIOUS
  <2>2. f[k] = d[k][f[k - 1]] /\ f[k - 1] \in Seq(S)
    <3> HIDE DEF d
    <3> QED
      BY <1>3, <2>1 DEF Runs
  <2> QED
    BY <2>2
<1> HIDE DEF d
<1>5. Flattens(f, w, n, S)
  BY <1>3, <1>4 DEF Flattens, Runs
<1>6. w \in Seq(Seq(S)) /\ Len(w) = n
  OBVIOUS
<1>7. CASE n = 0
  <2>1. w = <<>>
    BY <1>6, <1>7
  <2>2. Sixb!FlattenSeq(w) = w
    BY <1>6, <1>7 DEF Sixb!FlattenSeq
  <2> QED
    BY <1>5, <1>7, <2>1, <2>2 DEF Flattens
<1>8. CASE n # 0
  <2>1. PICK h : h = [k \in 1..n |-> f[k]]
    OBVIOUS
  <2>2. h = step(h)
    <3>1. \A k \in 1..n : h[k] = IF k = 1 THEN w[k] ELSE h[k - 1] \o w[k]
      <4> TAKE k \in 1..n
      <4>1. CASE k = 1
        <5>1. f[1] = <<>> \o w[1] /\ w[1] \in Seq(S)
          <6>1. 1 - 1 = 0 /\ 1 \in 1..n
            BY <4>1
          <6> QED
            BY <1>3, <1>4, <6>1 DEF Runs
        <5> QED
          BY <2>1, <4>1, <5>1
      <4>2. CASE k # 1
        <5>1. k - 1 \in 1..n
          BY <4>2
        <5> QED
          BY <1>4, <2>1, <4>2, <5>1
      <4> QED
        BY <4>1, <4>2
    <3>2. h = [k \in 1..n |-> h[k]]
      BY <2>1, SMTT(30)
    <3> QED
      BY <3>1, <3>2
  <2> DEFINE c == CHOOSE g : g = step(g)
  <2>3. c = step(c)
    BY <2>2, Zenon
  <2>4. Sixb!FlattenSeq(w) = c[n]
    BY <1>6, <1>8 DEF Sixb!FlattenSeq
  <2> HIDE DEF c
  <2>5. \A k \in 0..n : k = 0 \/ c[k] = h[k]
    <3> DEFINE T == {k \in 0..n : k = 0 \/ c[k] = h[k]}
    <3>1. 0 \in T
      OBVIOUS
    <3>2. ASSUME NEW k \in 0..(n - 1), k \in T
          PROVE  k + 1 \in T
      <4>1. k + 1 \in 1..n /\ (k + 1) - 1 = k
        OBVIOUS
      <4>2. c[k + 1] = IF k + 1 = 1 THEN w[k + 1] ELSE c[k] \o w[k + 1]
        BY <2>3, <4>1
      <4>3. h[k + 1] = IF k + 1 = 1 THEN w[k + 1] ELSE h[k] \o w[k + 1]
        BY <2>2, <4>1
      <4> QED
        BY <3>2, <4>1, <4>2, <4>3
    <3>3. \A k \in 0..n : k \in T
      <4> HIDE DEF T
      <4> QED
        BY <3>1, <3>2, UpTo
    <3> QED
      BY <3>3
  <2>6. n \in 0..n /\ n \in 1..n
    BY <1>8
  <2> QED
    BY <1>5, <1>8, <2>1, <2>4, <2>5, <2>6
<1> QED
  BY <1>7, <1>8

(* The sequence s is made of the pieces e[a + 1], ..., e[b]; the piece i    *)
(* ends at c[i].                                                           *)
Pieced(s, e, c, a, b) ==
  /\ c[a] = 0 /\ c[b] = Len(s)
  /\ \A i \in a..b : c[i] \in 0..Len(s)
  /\ \A i \in (a + 1)..b :
       /\ Len(e[i]) \in Nat /\ c[i] = c[i - 1] + Len(e[i])
       /\ \A j \in 1..Len(e[i]) : s[c[i - 1] + j] = e[i][j]

Made(s, e, a, b) == \E c : Pieced(s, e, c, a, b)

LEMMA MadeNone ==
  ASSUME NEW e, NEW a \in Int
  PROVE  Made(<<>>, e, a, a)
<1>1. PICK c : c = [i \in {a} |-> 0]
  OBVIOUS
<1>2. Len(<<>>) = 0 /\ a..a = {a} /\ (a + 1)..a = {}
  OBVIOUS
<1>3. c[a] = 0
  BY <1>1
<1>4. Pieced(<<>>, e, c, a, a)
  BY <1>2, <1>3 DEF Pieced
<1> QED
  BY <1>4 DEF Made

LEMMA MadeOne ==
  ASSUME NEW S, NEW s \in Seq(S), NEW e, NEW a \in Int, e[a + 1] = s
  PROVE  Made(s, e, a, a + 1)
<1>1. PICK c : c = [i \in a..(a + 1) |-> IF i = a THEN 0 ELSE Len(s)]
  OBVIOUS
<1>2. PICK n \in Nat : n = Len(s)
  OBVIOUS
<1>3. c[a] = 0 /\ c[a + 1] = n
  BY <1>1, <1>2
<1>4. ASSUME NEW i \in (a + 1)..(a + 1)
      PROVE  /\ Len(e[i]) \in Nat /\ c[i] = c[i - 1] + Len(e[i])
             /\ \A j \in 1..Len(e[i]) : s[c[i - 1] + j] = e[i][j]
  <2>1. i = a + 1 /\ i - 1 = a
    OBVIOUS
  <2>2. c[i] = n /\ c[i - 1] = 0 /\ e[i] = s
    BY <1>3, <2>1
  <2> QED
    BY <1>2, <2>2
<1>5. \A i \in a..(a + 1) : i = a \/ i = a + 1
  OBVIOUS
<1>6. \A i \in a..(a + 1) : c[i] \in 0..Len(s)
  BY <1>2, <1>3, <1>5
<1>7. Pieced(s, e, c, a, a + 1)
  BY <1>2, <1>3, <1>4, <1>6 DEF Pieced
<1> QED
  BY <1>7 DEF Made

LEMMA MadeConcat ==
  ASSUME NEW S, NEW s \in Seq(S), NEW t \in Seq(S), NEW e,
         NEW a \in Int, NEW b \in Int, NEW g \in Int, a <= b, b <= g,
         Made(s, e, a, b), Made(t, e, b, g)
  PROVE  s \o t \in Seq(S) /\ Made(s \o t, e, a, g)
<1>1. PICK c : Pieced(s, e, c, a, b)
  BY DEF Made
<1>2. PICK d : Pieced(t, e, d, b, g)
  BY DEF Made
<1>3. PICK m, n \in Nat : m = Len(s) /\ n = Len(t)
  OBVIOUS
<1>4. PICK u : u = s \o t
  OBVIOUS
<1>5. /\ u \in Seq(S) /\ Len(u) = m + n
      /\ \A i \in 1..m : u[i] = s[i]
      /\ \A i \in 1..n : u[m + i] = t[i]
  BY <1>3, <1>4, Concat
<1>6. PICK f : f = [i \in a..g |-> IF i <= b THEN c[i] ELSE m + d[i]]
  OBVIOUS
<1>7. /\ \A i \in a..b : f[i] = c[i] /\ c[i] \in 0..m
      /\ \A i \in b..g : f[i] = m + d[i] /\ d[i] \in 0..n
  <2>1. c[b] = m /\ d[b] = 0
    BY <1>1, <1>2, <1>3 DEF Pieced
  <2>2. \A i \in a..b : f[i] = c[i] /\ c[i] \in 0..m
    <3> TAKE i \in a..b
    <3>1. i \in a..g /\ i <= b
      OBVIOUS
    <3> QED
      BY <1>1, <1>3, <1>6, <3>1 DEF Pieced
  <2>3. \A i \in b..g : f[i] = m + d[i] /\ d[i] \in 0..n
    <3> TAKE i \in b..g
    <3>1. d[i] \in 0..n
      BY <1>2, <1>3 DEF Pieced
    <3>2. CASE i = b
      <4>1. b \in a..g /\ b <= b
        OBVIOUS
      <4> QED
        BY <1>6, <2>1, <3>1, <3>2, <4>1
    <3>3. CASE i # b
      <4>1. i \in a..g /\ ~(i <= b)
        BY <3>3
      <4> QED
        BY <1>6, <3>1, <4>1
    <3> QED
      BY <3>2, <3>3
  <2> QED
    BY <2>2, <2>3
<1>8. ASSUME NEW i \in (a + 1)..g
      PROVE  /\ Len(e[i]) \in Nat /\ f[i] = f[i - 1] + Len(e[i])
             /\ \A j \in 1..Len(e[i]) : u[f[i - 1] + j] = e[i][j]
  <2>1. CASE i <= b
    <3>1. i \in (a + 1)..b /\ i \in a..b /\ i - 1 \in a..b
      BY <2>1
    <3>2. /\ Len(e[i]) \in Nat /\ c[i] = c[i - 1] + Len(e[i])
          /\ \A j \in 1..Len(e[i]) : s[c[i - 1] + j] = e[i][j]
      BY <1>1, <3>1 DEF Pieced
    <3>3. PICK x, y \in 0..m : x = c[i - 1] /\ y = c[i]
      BY <1>7, <3>1
    <3>4. PICK l \in Nat : l = Len(e[i])
      BY <3>2
    <3>5. f[i] = y /\ f[i - 1] = x /\ y = x + l
      BY <1>7, <3>1, <3>2, <3>3, <3>4
    <3>6. \A j \in 1..l : u[x + j] = s[x + j]
      <4> TAKE j \in 1..l
      <4>1. x + j \in 1..m
        BY <3>5
      <4> QED
        BY <1>5, <4>1
    <3> QED
      BY <3>2, <3>3, <3>4, <3>5, <3>6
  <2>2. CASE i > b
    <3>1. i \in (b + 1)..g /\ i \in b..g /\ i - 1 \in b..g
      BY <2>2
    <3>2. /\ Len(e[i]) \in Nat /\ d[i] = d[i - 1] + Len(e[i])
          /\ \A j \in 1..Len(e[i]) : t[d[i - 1] + j] = e[i][j]
      BY <1>2, <3>1 DEF Pieced
    <3>3. PICK x, y \in 0..n : x = d[i - 1] /\ y = d[i]
      BY <1>7, <3>1
    <3>4. PICK l \in Nat : l = Len(e[i])
      BY <3>2
    <3>5. f[i] = m + y /\ f[i - 1] = m + x /\ y = x + l
      BY <1>7, <3>1, <3>2, <3>3, <3>4
    <3>6. \A j \in 1..l : u[(m + x) + j] = t[x + j]
      <4> TAKE j \in 1..l
      <4>1. x + j \in 1..n /\ (m + x) + j = m + (x + j)
        BY <3>5
      <4> QED
        BY <1>5, <4>1
    <3>7. \A j \in 1..l : u[f[i - 1] + j] = e[i][j]
      <4> TAKE j \in 1..l
      <4>1. t[x + j] = e[i][j]
        BY <3>2, <3>3, <3>4
      <4> QED
        BY <3>5, <3>6, <4>1
    <3>8. f[i] = f[i - 1] + l
      BY <3>5
    <3> QED
      BY <3>4, <3>7, <3>8
  <2> QED
    BY <2>1, <2>2
<1>9. f[a] = 0 /\ f[g] = m + n
  <2>1. a \in a..b /\ g \in b..g /\ c[a] = 0 /\ d[g] = n
    BY <1>1, <1>2, <1>3 DEF Pieced
  <2> QED
    BY <1>7, <2>1
<1>10. \A i \in a..g : f[i] \in 0..(m + n)
  <2> TAKE i \in a..g
  <2>1. CASE i \in a..b
    <3>1. PICK x \in 0..m : f[i] = x
      BY <1>7, <2>1
    <3> QED
      BY <3>1
  <2>2. CASE i \in b..g
    <3>1. PICK x \in 0..n : f[i] = m + x
      BY <1>7, <2>2
    <3> QED
      BY <3>1
  <2> QED
    BY <2>1, <2>2
<1>11. Pieced(u, e, f, a, g)
  BY <1>5, <1>8, <1>9, <1>10 DEF Pieced
<1> QED
  BY <1>4, <1>5, <1>11 DEF Made

(* Sequences of the same pieces are the same. *)
LEMMA PlaceFound ==
  ASSUME NEW s, NEW e, NEW c, NEW a \in Int, NEW b \in Int, a <= b, Pieced(s, e, c, a, b),
         Len(s) \in Nat, NEW p \in 1..Len(s)
  PROVE  \E i \in (a + 1)..b : \E j \in 1..Len(e[i]) : p = c[i - 1] + j /\ s[p] = e[i][j]
<1>0. PICK N \in Nat : N = b - a
  OBVIOUS
<1> DEFINE Found == \E i \in (a + 1)..b : \E j \in 1..Len(e[i]) :
                      p = c[i - 1] + j /\ s[p] = e[i][j]
           T     == {k \in 0..N : p <= c[a + k] => Found}
<1>1. 0 \in T
  BY DEF Pieced
<1>2. ASSUME NEW k \in 0..(N - 1), k \in T
      PROVE  k + 1 \in T
  <2>1. PICK i \in (a + 1)..b : i = a + (k + 1)
    BY <1>0
  <2>2. i - 1 = a + k /\ i - 1 \in a..b /\ i \in a..b
    BY <2>1
  <2>3. PICK x, y \in 0..Len(s) : x = c[i - 1] /\ y = c[i]
    BY <2>2 DEF Pieced
  <2>4. PICK l \in Nat : l = Len(e[i]) /\ y = x + l
    BY <2>3 DEF Pieced
  <2>5. CASE p <= x
    <3> HIDE DEF Found
    <3> QED
      BY <1>2, <2>1, <2>2, <2>3, <2>5
  <2>6. CASE p > x /\ p <= y
    <3>0. y = x + l /\ x \in Nat /\ y \in Nat /\ p \in Nat
      BY <2>3, <2>4
    <3>1. p - x \in 1..l /\ p = x + (p - x)
      BY <2>6, <3>0
    <3>2. PICK j \in 1..Len(e[i]) : p = c[i - 1] + j
      BY <2>3, <2>4, <3>1
    <3>3. s[p] = e[i][j]
      BY <3>2 DEF Pieced
    <3>4. Found
      BY <3>2, <3>3
    <3> HIDE DEF Found
    <3>5. k + 1 \in 0..N
      OBVIOUS
    <3> QED
      BY <3>4, <3>5
  <2>7. CASE ~(p <= y)
    <3> HIDE DEF Found
    <3> QED
      BY <2>1, <2>3, <2>7
  <2>8. p <= x \/ (p > x /\ p <= y) \/ ~(p <= y)
    BY <2>3
  <2> QED
    BY <2>5, <2>6, <2>7, <2>8, Zenon
<1>3. \A k \in 0..N : k \in T
  <2> HIDE DEF T
  <2> QED
    BY <1>1, <1>2, UpTo
<1>4. N \in 0..N /\ a + N = b
  BY <1>0
<1>5. p <= c[b]
  BY DEF Pieced
<1> QED
  BY <1>3, <1>4, <1>5

(* Pieces end where they end. *)
LEMMA PlacesUnique ==
  ASSUME NEW a \in Int, NEW b \in Int, a <= b, NEW c, NEW d, c[a] = d[a],
         \A i \in (a + 1)..b : c[i - 1] = d[i - 1] => c[i] = d[i]
  PROVE  \A i \in a..b : c[i] = d[i]
<1>0. PICK N \in Nat : N = b - a
  OBVIOUS
<1> DEFINE T == {k \in 0..N : c[a + k] = d[a + k]}
<1>1. 0 \in T
  OBVIOUS
<1>2. ASSUME NEW k \in 0..(N - 1), k \in T
      PROVE  k + 1 \in T
  <2>1. PICK i \in (a + 1)..b : i = a + (k + 1)
    BY <1>0
  <2>2. i - 1 = a + k
    BY <2>1
  <2>3. c[i - 1] = d[i - 1]
    BY <1>2, <2>2
  <2>4. c[i] = d[i]
    BY <2>3
  <2> QED
    BY <2>1, <2>4
<1>3. \A k \in 0..N : k \in T
  <2> HIDE DEF T
  <2> QED
    BY <1>1, <1>2, UpTo
<1> SUFFICES ASSUME NEW i \in a..b PROVE c[i] = d[i]
  OBVIOUS
<1>4. i - a \in 0..N /\ a + (i - a) = i
  BY <1>0
<1> QED
  BY <1>3, <1>4

LEMMA SamePlaces ==
  ASSUME NEW s, NEW t, NEW e, NEW c, NEW d, NEW a \in Int, NEW b \in Int, a <= b,
         Pieced(s, e, c, a, b), Pieced(t, e, d, a, b)
  PROVE  \A i \in a..b : c[i] = d[i]
<1>1. c[a] = d[a]
  BY DEF Pieced
<1>2. \A i \in (a + 1)..b : c[i - 1] = d[i - 1] => c[i] = d[i]
  BY DEF Pieced
<1> HIDE DEF Pieced
<1> QED
  BY <1>1, <1>2, PlacesUnique, SMTT(30)

LEMMA MadeUnique ==
  ASSUME NEW S, NEW s \in Seq(S), NEW t \in Seq(S), NEW e, NEW a \in Int, NEW b \in Int, a <= b,
         Made(s, e, a, b), Made(t, e, a, b)
  PROVE  s = t
<1>1. PICK c : Pieced(s, e, c, a, b)
  BY DEF Made
<1>2. PICK d : Pieced(t, e, d, a, b)
  BY DEF Made
<1>3. \A i \in a..b : c[i] = d[i]
  BY <1>1, <1>2, SamePlaces
<1>4. Len(s) = Len(t)
  <2>1. b \in a..b
    OBVIOUS
  <2> QED
    BY <1>1, <1>2, <1>3, <2>1 DEF Pieced
<1>5. PICK n \in Nat : n = Len(s) /\ n = Len(t)
  BY <1>4
<1>6. ASSUME NEW p \in 1..n
      PROVE  s[p] = t[p]
  <2>0. Len(s) \in Nat /\ p \in 1..Len(s)
    BY <1>5
  <2>1. PICK i \in (a + 1)..b : \E j \in 1..Len(e[i]) : p = c[i - 1] + j /\ s[p] = e[i][j]
    BY <1>1, <2>0, PlaceFound, SMTT(30)
  <2>2. PICK j \in 1..Len(e[i]) : p = c[i - 1] + j /\ s[p] = e[i][j]
    BY <2>1
  <2>3. i - 1 \in a..b
    OBVIOUS
  <2>4. t[d[i - 1] + j] = e[i][j]
    BY <1>2 DEF Pieced
  <2> QED
    BY <1>3, <2>2, <2>3, <2>4
<1>7. s = [p \in 1..n |-> s[p]] /\ t = [p \in 1..n |-> t[p]]
  BY <1>5, LenProperties
<1> QED
  BY <1>6, <1>7

-----------------------------------------------------------------------------
(* What is in a cache, field by field.                                     *)

KindAt(n, i) ==
  IF i <= 5 THEN Sixb!Header[i]
  ELSE IF i <= 5 + 5 * n THEN Sixb!RowFields[((i - 6) % 5) + 1]
  ELSE IF i = 6 + 5 * n THEN "lookups" ELSE "string"

RowValues(r) == <<r.id, r.chunk, r.offset, r.len, r.tx>>

LookupValues(l) == <<l.field, l.key, l.id>>

ValueAt(cache, i) ==
  LET n == Len(cache.rows)
  IN  IF i <= 5
        THEN <<Sixb!Version, cache.table, cache.schema, cache.source, n>>[i]
      ELSE IF i <= 5 + 5 * n
        THEN RowValues(cache.rows[(i - 6) \div 5 + 1])[((i - 6) % 5) + 1]
      ELSE IF i = 6 + 5 * n THEN Len(cache.lookups)
      ELSE LookupValues(cache.lookups[(i - 7 - 5 * n) \div 3 + 1])[((i - 7 - 5 * n) % 3) + 1]

Coded(kd, v) ==
  CASE kd = "string" -> Sixb!Str(v) [] kd = "u64" -> Sixb!U64(v) [] OTHER -> Sixb!U32(v)

Fields(n, m) == 6 + 5 * n + 3 * m

(* The magic bytes and the fields. *)
PieceAt(cache) ==
  [i \in 0..Fields(Len(cache.rows), Len(cache.lookups)) |->
     IF i = 0 THEN Sixb!Magic ELSE Coded(KindAt(Len(cache.rows), i), ValueAt(cache, i))]

Byte == 0..255

(* The numbers of a cache.                                                 *)
LEMMA LargeIs == Sixb!Large = 65536
BY DEF Sixb!Large

LEMMA LargeNat == Sixb!Large \in Nat
BY LargeIs

LEMMA SmallIs ==
  /\ \A v \in Small : v \in Nat /\ v < Sixb!Large
  /\ \A v \in Nat : v < Sixb!Large => v \in Small
  /\ Sixb!Large \notin Small
BY LargeNat DEF Small

LEMMA NumberBytes ==
  ASSUME NEW n \in Small
  PROVE  /\ Sixb!U32(n) \in Seq(Byte) /\ Len(Sixb!U32(n)) = 4
         /\ Sixb!U64(n) \in Seq(Byte) /\ Len(Sixb!U64(n)) = 8
         /\ Sixb!U32(n)[1] = n % 256 /\ Sixb!U32(n)[2] = n \div 256
         /\ Sixb!U64(n)[1] = n % 256 /\ Sixb!U64(n)[2] = n \div 256
         /\ \A j \in 3..4 : Sixb!U32(n)[j] = 0
         /\ \A j \in 3..8 : Sixb!U64(n)[j] = 0
         /\ n % 256 \in Byte /\ n \div 256 \in Byte /\ n = 256 * (n \div 256) + (n % 256)
<1>1. n \in Nat /\ n < 65536
  BY SmallIs, LargeIs
<1>2. PICK x \in Byte, y \in Nat : x = n % 256 /\ y = n \div 256 /\ n = 256 * y + x
  <2>1. /\ n \div 256 \in Nat /\ n % 256 \in 0..(256 - 1)
        /\ n = 256 * (n \div 256) + (n % 256)
    BY <1>1, QuotientRemainder
  <2>2. n % 256 \in Byte
    BY <2>1 DEF Byte
  <2> QED
    BY <2>1, <2>2
<1>3. y \in Byte
  BY <1>1, <1>2 DEF Byte
<1>4. PICK s : s = <<x, y, 0, 0>>
  OBVIOUS
<1>5. s \in Seq(Byte) /\ Len(s) = 4 /\ s[1] = x /\ s[2] = y /\ s[3] = 0 /\ s[4] = 0
  <2>1. 0 \in Byte
    BY DEF Byte
  <2> QED
    BY <1>2, <1>3, <1>4, <2>1
<1>6. PICK z : z = <<0, 0, 0, 0>>
  OBVIOUS
<1>7. z \in Seq(Byte) /\ Len(z) = 4 /\ z[1] = 0 /\ z[2] = 0 /\ z[3] = 0 /\ z[4] = 0
  <2>1. 0 \in Byte
    BY DEF Byte
  <2> QED
    BY <1>6, <2>1
<1>8. Sixb!U32(n) = s /\ Sixb!U64(n) = s \o z
  BY <1>2, <1>4, <1>6 DEF Sixb!U32, Sixb!U64
<1>9. PICK w : w = s \o z
  OBVIOUS
<1>10. /\ w \in Seq(Byte) /\ Len(w) = 8
       /\ \A i \in 1..4 : w[i] = s[i]
       /\ \A i \in 1..4 : w[4 + i] = z[i]
  <2>1. s \in Seq(Byte) /\ z \in Seq(Byte)
    BY <1>5, <1>7
  <2>2. /\ s \o z \in Seq(Byte) /\ Len(s \o z) = Len(s) + Len(z)
        /\ \A i \in 1..Len(s) : (s \o z)[i] = s[i]
        /\ \A i \in 1..Len(z) : (s \o z)[Len(s) + i] = z[i]
    BY <2>1, Concat
  <2>3. Len(s) = 4 /\ Len(z) = 4
    BY <1>5, <1>7
  <2> QED
    BY <1>9, <2>2, <2>3
<1>11. w[1] = x /\ w[2] = y /\ w[3] = 0 /\ w[4] = 0
  BY <1>5, <1>10
<1>12. w[4 + 1] = 0 /\ w[4 + 2] = 0 /\ w[4 + 3] = 0 /\ w[4 + 4] = 0
  BY <1>7, <1>10
<1>13. \A j \in 3..8 : w[j] = 0
  <2> TAKE j \in 3..8
  <2>1. j = 3 \/ j = 4 \/ j = 4 + 1 \/ j = 4 + 2 \/ j = 4 + 3 \/ j = 4 + 4
    OBVIOUS
  <2> QED
    BY <1>11, <1>12, <2>1
<1>14. \A j \in 3..4 : s[j] = 0
  <2> TAKE j \in 3..4
  <2>1. j = 3 \/ j = 4
    OBVIOUS
  <2> QED
    BY <1>5, <2>1
<1>15. /\ s \in Seq(Byte) /\ Len(s) = 4 /\ w \in Seq(Byte) /\ Len(w) = 8
       /\ s[1] = x /\ s[2] = y /\ w[1] = x /\ w[2] = y
  BY <1>5, <1>10, <1>11
<1>16. Sixb!U32(n) = s /\ Sixb!U64(n) = w
  BY <1>8, <1>9
<1> QED
  BY <1>2, <1>3, <1>13, <1>14, <1>15, <1>16, SMTT(30)

LEMMA StringBytes ==
  ASSUME NEW s \in CachedText
  PROVE  /\ Len(s) \in Small /\ Sixb!Str(s) \in Seq(Byte) /\ Len(Sixb!Str(s)) = 4 + Len(s)
         /\ \A j \in 1..4 : Sixb!Str(s)[j] = Sixb!U32(Len(s))[j]
         /\ \A j \in 1..Len(s) : Sixb!Str(s)[4 + j] = s[j] /\ s[j] \in 0..127
<1>1. s \in Seq(0..127) /\ Len(s) \in Small
  BY DEF CachedText
<1>2. s \in Seq(Byte)
  BY <1>1 DEF Byte
<1>3. PICK u : u = Sixb!U32(Len(s))
  OBVIOUS
<1>4. u \in Seq(Byte) /\ Len(u) = 4
  BY <1>1, <1>3, NumberBytes
<1>5. Sixb!Str(s) = u \o s
  BY <1>3 DEF Sixb!Str
<1>6. /\ u \o s \in Seq(Byte) /\ Len(u \o s) = Len(u) + Len(s)
      /\ \A i \in 1..Len(u) : (u \o s)[i] = u[i]
      /\ \A i \in 1..Len(s) : (u \o s)[Len(u) + i] = s[i]
  <2>1. u \in Seq(Byte)
    BY <1>4
  <2> QED
    BY <1>2, <2>1, Concat
<1>7. \A j \in 1..Len(s) : s[j] \in 0..127
  <2>1. PICK C : C = 0..127
    OBVIOUS
  <2>2. s \in Seq(C)
    BY <1>1, <2>1
  <2>3. \A j \in 1..Len(s) : s[j] \in C
    BY <2>2
  <2> QED
    BY <2>1, <2>3
<1> QED
  BY <1>1, <1>3, <1>4, <1>5, <1>6, <1>7

LEMMA DividedBy5 ==
  ASSUME NEW q \in Nat, NEW r \in 0..4
  PROVE  (5 * q + r) \div 5 = q /\ (5 * q + r) % 5 = r
<1>1. PICK x \in Nat : x = 5 * q + r
  OBVIOUS
<1>2. /\ x \div 5 \in Nat /\ x % 5 \in 0..(5 - 1) /\ x = 5 * (x \div 5) + (x % 5)
  BY QuotientRemainder
<1>3. PICK u \in Nat, v \in 0..4 : u = x \div 5 /\ v = x % 5
  BY <1>2
<1>4. 5 * u + v = 5 * q + r
  BY <1>1, <1>2, <1>3
<1>5. u = q /\ v = r
  BY <1>4
<1> QED
  BY <1>1, <1>3, <1>5

LEMMA DividedBy3 ==
  ASSUME NEW q \in Nat, NEW r \in 0..2
  PROVE  (3 * q + r) \div 3 = q /\ (3 * q + r) % 3 = r
<1>1. PICK x \in Nat : x = 3 * q + r
  OBVIOUS
<1>2. /\ x \div 3 \in Nat /\ x % 3 \in 0..(3 - 1) /\ x = 3 * (x \div 3) + (x % 3)
  BY QuotientRemainder
<1>3. PICK u \in Nat, v \in 0..2 : u = x \div 3 /\ v = x % 3
  BY <1>2
<1>4. 3 * u + v = 3 * q + r
  BY <1>1, <1>2, <1>3
<1>5. u = q /\ v = r
  BY <1>4
<1> QED
  BY <1>1, <1>3, <1>5

Counts(cache, n, m) == n = Len(cache.rows) /\ m = Len(cache.lookups)

(* The fields of a cache, by what they are in. *)
LEMMA HeaderAt ==
  ASSUME NEW n, NEW cache
  PROVE  /\ KindAt(n, 1) = "u32" /\ ValueAt(cache, 1) = 2
         /\ KindAt(n, 2) = "string" /\ ValueAt(cache, 2) = cache.table
         /\ KindAt(n, 3) = "string" /\ ValueAt(cache, 3) = cache.schema
         /\ KindAt(n, 4) = "string" /\ ValueAt(cache, 4) = cache.source
         /\ KindAt(n, 5) = "rows" /\ ValueAt(cache, 5) = Len(cache.rows)
BY DEF KindAt, ValueAt, Sixb!Header, Sixb!Version

LEMMA RowAt ==
  ASSUME NEW n \in Nat, NEW i \in 1..n, NEW j \in 1..5
  PROVE  /\ 5 * i + j \in 6..(5 + 5 * n)
         /\ KindAt(n, 5 * i + j) = Sixb!RowFields[j]
         /\ \A cache, m : Counts(cache, n, m) =>
              ValueAt(cache, 5 * i + j) = RowValues(cache.rows[i])[j]
<1>1. PICK x \in Nat : x = 5 * i + j
  OBVIOUS
<1>2. PICK q \in Nat, r \in 0..4 : q = i - 1 /\ r = j - 1
  OBVIOUS
<1>3. x - 6 = 5 * q + r /\ x \in 6..(5 + 5 * n) /\ ~(x <= 5) /\ x <= 5 + 5 * n
  BY <1>1, <1>2
<1>4. (x - 6) \div 5 + 1 = i /\ ((x - 6) % 5) + 1 = j
  <2>1. (x - 6) \div 5 = q /\ (x - 6) % 5 = r
    BY <1>3, DividedBy5
  <2> QED
    BY <1>2, <2>1
<1>5. KindAt(n, x) = Sixb!RowFields[j]
  BY <1>3, <1>4 DEF KindAt
<1>6. ASSUME NEW cache, NEW m, Counts(cache, n, m)
      PROVE  ValueAt(cache, x) = RowValues(cache.rows[i])[j]
  BY <1>3, <1>4, <1>6 DEF ValueAt, Counts
<1> QED
  BY <1>1, <1>3, <1>5, <1>6

LEMMA CountAt ==
  ASSUME NEW n \in Nat
  PROVE  /\ KindAt(n, 6 + 5 * n) = "lookups"
         /\ \A cache, m : Counts(cache, n, m) => ValueAt(cache, 6 + 5 * n) = m
<1>1. PICK x \in Nat : x = 6 + 5 * n
  OBVIOUS
<1>2. ~(x <= 5) /\ ~(x <= 5 + 5 * n)
  BY <1>1
<1> QED
  BY <1>1, <1>2 DEF KindAt, ValueAt, Counts

(* The last field before those of a lookup. *)
Before(n, i) == 3 + 5 * n + 3 * i

LEMMA LookupIndex ==
  ASSUME NEW n \in Nat, NEW i \in Nat \ {0}, NEW j \in 1..3
  PROVE  /\ KindAt(n, Before(n, i) + j) = "string"
         /\ \A cache, m : Counts(cache, n, m) =>
              ValueAt(cache, Before(n, i) + j) = LookupValues(cache.lookups[i])[j]
<1>1. PICK x \in Nat : x = Before(n, i) + j /\ x = (3 + 5 * n + 3 * i) + j
  BY DEF Before
<1>2. PICK q \in Nat, r \in 0..2 : q = i - 1 /\ r = j - 1
  OBVIOUS
<1>3. x - 7 - 5 * n = 3 * q + r /\ ~(x <= 5) /\ ~(x <= 5 + 5 * n) /\ x # 6 + 5 * n
  BY <1>1, <1>2
<1>4. (x - 7 - 5 * n) \div 3 + 1 = i /\ ((x - 7 - 5 * n) % 3) + 1 = j
  <2>1. (x - 7 - 5 * n) \div 3 = q /\ (x - 7 - 5 * n) % 3 = r
    BY <1>3, DividedBy3
  <2> QED
    BY <1>2, <2>1
<1>5. KindAt(n, x) = "string"
  BY <1>3 DEF KindAt
<1>6. ASSUME NEW cache, NEW m, Counts(cache, n, m)
      PROVE  ValueAt(cache, x) = LookupValues(cache.lookups[i])[j]
  BY <1>3, <1>4, <1>6 DEF ValueAt, Counts
<1> QED
  BY <1>1, <1>5, <1>6

LEMMA LookupAt ==
  ASSUME NEW cache, NEW n \in Nat, NEW m \in Nat, Counts(cache, n, m), NEW i \in 1..m, NEW j \in 1..3
  PROVE  /\ KindAt(n, Before(n, i) + j) = "string"
         /\ ValueAt(cache, Before(n, i) + j) = LookupValues(cache.lookups[i])[j]
<1>1. i \in Nat \ {0}
  OBVIOUS
<1> QED
  BY <1>1, LookupIndex

LEMMA FieldsSplit ==
  ASSUME NEW n \in Nat, NEW m \in Nat, NEW x \in 1..Fields(n, m)
  PROVE  \/ x \in 1..5 \/ x = 6 + 5 * n
         \/ \E i \in 1..n : \E j \in 1..5 : x = 5 * i + j
         \/ \E i \in 1..m : \E j \in 1..3 : x = Before(n, i) + j
<1>1. CASE x \in 6..(5 + 5 * n)
  <2>1. PICK y \in Nat : y = x - 6
    BY <1>1
  <2>2. y \div 5 \in Nat /\ y % 5 \in 0..(5 - 1) /\ y = 5 * (y \div 5) + (y % 5)
    BY QuotientRemainder
  <2>3. PICK q \in Nat, r \in 0..4 : y = 5 * q + r
    BY <2>2
  <2>4. q + 1 \in 1..n /\ r + 1 \in 1..5 /\ x = 5 * (q + 1) + (r + 1)
    BY <1>1, <2>1, <2>3
  <2> QED
    BY <2>4
<1>2. CASE x > 6 + 5 * n
  <2>1. PICK y \in Nat : y = x - 7 - 5 * n
    BY <1>2
  <2>2. y \div 3 \in Nat /\ y % 3 \in 0..(3 - 1) /\ y = 3 * (y \div 3) + (y % 3)
    BY QuotientRemainder
  <2>3. PICK q \in Nat, r \in 0..2 : y = 3 * q + r
    BY <2>2
  <2>4. q + 1 \in 1..m /\ r + 1 \in 1..3 /\ x = Before(n, q + 1) + (r + 1)
    BY <1>2, <2>1, <2>3 DEF Fields, Before
  <2> QED
    BY <2>4
<1>3. x \in 1..5 \/ x \in 6..(5 + 5 * n) \/ x = 6 + 5 * n \/ x > 6 + 5 * n
  OBVIOUS
<1> QED
  BY <1>1, <1>2, <1>3

-----------------------------------------------------------------------------
(* A cache that is encoded is made of its fields.                          *)


LEMMA CachedType ==
  ASSUME NEW cache \in Cached
  PROVE  /\ cache.table \in CachedText /\ cache.schema \in CachedText /\ cache.source \in CachedText
         /\ Len(cache.rows) \in Small /\ Len(cache.rows) \in Nat
         /\ Len(cache.lookups) \in Small /\ Len(cache.lookups) \in Nat
         /\ DOMAIN cache.rows = 1..Len(cache.rows)
         /\ DOMAIN cache.lookups = 1..Len(cache.lookups)
         /\ \A i \in 1..Len(cache.rows) : cache.rows[i] \in CachedRow
         /\ \A i \in 1..Len(cache.lookups) : cache.lookups[i] \in CachedLookup
<1>1. cache.rows \in CachedRows /\ cache.lookups \in CachedLookups
  BY DEF Cached
<1>2. PICK s, t : s = cache.rows /\ t = cache.lookups
  OBVIOUS
<1>3. s \in Seq(CachedRow) /\ Len(s) \in Small /\ t \in Seq(CachedLookup) /\ Len(t) \in Small
  BY <1>1, <1>2 DEF CachedRows, CachedLookups
<1>4. /\ Len(s) \in Nat /\ DOMAIN s = 1..Len(s) /\ Len(t) \in Nat /\ DOMAIN t = 1..Len(t)
      /\ \A i \in 1..Len(s) : s[i] \in CachedRow
      /\ \A i \in 1..Len(t) : t[i] \in CachedLookup
  BY <1>3, LenProperties, ElementOfSeq
<1>5. cache.table \in CachedText /\ cache.schema \in CachedText /\ cache.source \in CachedText
  BY DEF Cached
<1> QED
  BY <1>2, <1>3, <1>4, <1>5

LEMMA RowType ==
  ASSUME NEW r \in CachedRow
  PROVE  /\ r.id \in CachedText /\ r.chunk \in CachedText
         /\ r.offset \in Small /\ r.len \in Small /\ r.tx \in Small
BY DEF CachedRow

LEMMA LookupType ==
  ASSUME NEW l \in CachedLookup
  PROVE  l.field \in CachedText /\ l.key \in CachedText /\ l.id \in CachedText
BY DEF CachedLookup

(* The parts a cache is encoded by, one at a time. *)
LEMMA PiecesAre ==
  ASSUME NEW cache \in Cached, NEW n \in Nat, NEW m \in Nat, Counts(cache, n, m),
         NEW e, e = PieceAt(cache)
  PROVE  /\ e[0] = Sixb!Magic /\ e[1] = Sixb!U32(2)
         /\ e[2] = Sixb!Str(cache.table) /\ e[3] = Sixb!Str(cache.schema)
         /\ e[4] = Sixb!Str(cache.source) /\ e[5] = Sixb!U32(n)
         /\ e[6 + 5 * n] = Sixb!U32(m)
         /\ \A i \in 1..n :
              /\ e[5 * i + 1] = Sixb!Str(cache.rows[i].id)
              /\ e[5 * i + 2] = Sixb!Str(cache.rows[i].chunk)
              /\ e[5 * i + 3] = Sixb!U64(cache.rows[i].offset)
              /\ e[5 * i + 4] = Sixb!U32(cache.rows[i].len)
              /\ e[5 * i + 5] = Sixb!U64(cache.rows[i].tx)
         /\ \A i \in 1..m :
              /\ e[Before(n, i) + 1] = Sixb!Str(cache.lookups[i].field)
              /\ e[Before(n, i) + 2] = Sixb!Str(cache.lookups[i].key)
              /\ e[Before(n, i) + 3] = Sixb!Str(cache.lookups[i].id)
<1>1. Fields(n, m) \in Nat /\ Fields(n, m) = 6 + 5 * n + 3 * m
  BY DEF Fields
<1>2. e[0] = Sixb!Magic
  <2>1. 0 \in 0..Fields(n, m)
    BY <1>1
  <2> QED
    BY <2>1 DEF PieceAt, Counts
<1>3. \A x \in 1..Fields(n, m) : e[x] = Coded(KindAt(n, x), ValueAt(cache, x))
  <2> TAKE x \in 1..Fields(n, m)
  <2>1. x \in 0..Fields(n, m) /\ x # 0
    BY <1>1
  <2> QED
    BY <2>1 DEF PieceAt, Counts
<1>4. /\ e[1] = Sixb!U32(2)
      /\ e[2] = Sixb!Str(cache.table) /\ e[3] = Sixb!Str(cache.schema)
      /\ e[4] = Sixb!Str(cache.source) /\ e[5] = Sixb!U32(n)
  <2>1. \A x \in 1..5 : x \in 1..Fields(n, m)
    BY <1>1
  <2>2. 1 \in 1..5 /\ 2 \in 1..5 /\ 3 \in 1..5 /\ 4 \in 1..5 /\ 5 \in 1..5
    OBVIOUS
  <2> QED
    BY <1>3, <2>1, <2>2, HeaderAt DEF Coded, Counts
<1>5. e[6 + 5 * n] = Sixb!U32(m)
  <2>1. 6 + 5 * n \in 1..Fields(n, m)
    BY <1>1
  <2>2. KindAt(n, 6 + 5 * n) = "lookups" /\ ValueAt(cache, 6 + 5 * n) = m
    BY CountAt
  <2> QED
    BY <1>3, <2>1, <2>2 DEF Coded
<1>6. ASSUME NEW i \in 1..n, NEW j \in 1..5
      PROVE  e[5 * i + j] = Coded(Sixb!RowFields[j], RowValues(cache.rows[i])[j])
  <2>1. 5 * i + j \in 1..Fields(n, m)
    BY <1>1
  <2>2. /\ KindAt(n, 5 * i + j) = Sixb!RowFields[j]
        /\ ValueAt(cache, 5 * i + j) = RowValues(cache.rows[i])[j]
    BY RowAt, ZenonT(60)
  <2> QED
    BY <1>3, <2>1, <2>2
<1>7. ASSUME NEW i \in 1..n
      PROVE  /\ e[5 * i + 1] = Sixb!Str(cache.rows[i].id)
             /\ e[5 * i + 2] = Sixb!Str(cache.rows[i].chunk)
             /\ e[5 * i + 3] = Sixb!U64(cache.rows[i].offset)
             /\ e[5 * i + 4] = Sixb!U32(cache.rows[i].len)
             /\ e[5 * i + 5] = Sixb!U64(cache.rows[i].tx)
  <2>1. \A j \in 1..5 : e[5 * i + j] = Coded(Sixb!RowFields[j], RowValues(cache.rows[i])[j])
    BY <1>6
  <2>2. 1 \in 1..5 /\ 2 \in 1..5 /\ 3 \in 1..5 /\ 4 \in 1..5 /\ 5 \in 1..5
    OBVIOUS
  <2>3. /\ Sixb!RowFields[1] = "string" /\ Sixb!RowFields[2] = "string"
        /\ Sixb!RowFields[3] = "u64" /\ Sixb!RowFields[4] = "u32" /\ Sixb!RowFields[5] = "u64"
    BY DEF Sixb!RowFields
  <2>4. PICK r : r = cache.rows[i]
    OBVIOUS
  <2>5. /\ RowValues(r)[1] = r.id /\ RowValues(r)[2] = r.chunk /\ RowValues(r)[3] = r.offset
        /\ RowValues(r)[4] = r.len /\ RowValues(r)[5] = r.tx
    BY DEF RowValues
  <2> QED
    BY <2>1, <2>2, <2>3, <2>4, <2>5 DEF Coded
<1>8. ASSUME NEW i \in 1..m, NEW j \in 1..3
      PROVE  e[Before(n, i) + j] = Sixb!Str(LookupValues(cache.lookups[i])[j])
  <2>1. Before(n, i) + j \in 1..Fields(n, m)
    BY <1>1 DEF Before
  <2>2. /\ KindAt(n, Before(n, i) + j) = "string"
        /\ ValueAt(cache, Before(n, i) + j) = LookupValues(cache.lookups[i])[j]
    BY LookupAt
  <2> QED
    BY <1>3, <2>1, <2>2 DEF Coded
<1>9. ASSUME NEW i \in 1..m
      PROVE  /\ e[Before(n, i) + 1] = Sixb!Str(cache.lookups[i].field)
             /\ e[Before(n, i) + 2] = Sixb!Str(cache.lookups[i].key)
             /\ e[Before(n, i) + 3] = Sixb!Str(cache.lookups[i].id)
  <2>1. 1 \in 1..3 /\ 2 \in 1..3 /\ 3 \in 1..3
    OBVIOUS
  <2>2. PICK l : l = cache.lookups[i]
    OBVIOUS
  <2>3. LookupValues(l)[1] = l.field /\ LookupValues(l)[2] = l.key /\ LookupValues(l)[3] = l.id
    BY DEF LookupValues
  <2> QED
    BY <1>8, <2>1, <2>2, <2>3
<1> QED
  BY <1>2, <1>4, <1>5, <1>7, <1>9

LEMMA OneByOne ==
  ASSUME NEW e, NEW a \in Int, NEW b \in Int, a <= b,
         NEW s \in Seq(Byte), NEW t \in Seq(Byte), Made(s, e, a, b), e[b + 1] = t
  PROVE  s \o t \in Seq(Byte) /\ Made(s \o t, e, a, b + 1)
<1>1. Made(t, e, b, b + 1)
  BY MadeOne
<1>2. b + 1 \in Int /\ b <= b + 1
  OBVIOUS
<1> QED
  BY <1>1, <1>2, MadeConcat

LEMMA RowMade ==
  ASSUME NEW e, NEW a \in Int, NEW r \in CachedRow,
         e[a + 1] = Sixb!Str(r.id), e[a + 2] = Sixb!Str(r.chunk), e[a + 3] = Sixb!U64(r.offset),
         e[a + 4] = Sixb!U32(r.len), e[a + 5] = Sixb!U64(r.tx)
  PROVE  Sixb!Row(r) \in Seq(Byte) /\ Made(Sixb!Row(r), e, a, a + 5)
<1>1. PICK s1, s2, s3, s4, s5 :
        /\ s1 = Sixb!Str(r.id) /\ s2 = Sixb!Str(r.chunk) /\ s3 = Sixb!U64(r.offset)
        /\ s4 = Sixb!U32(r.len) /\ s5 = Sixb!U64(r.tx)
  OBVIOUS
<1>2. /\ s1 \in Seq(Byte) /\ s2 \in Seq(Byte) /\ s3 \in Seq(Byte) /\ s4 \in Seq(Byte)
      /\ s5 \in Seq(Byte)
  <2>1. s1 \in Seq(Byte) /\ s2 \in Seq(Byte)
    BY <1>1, RowType, StringBytes
  <2>2. PICK x, y, z \in Small : x = r.offset /\ y = r.len /\ z = r.tx
    BY RowType
  <2>3. s3 = Sixb!U64(x) /\ s4 = Sixb!U32(y) /\ s5 = Sixb!U64(z)
    BY <1>1, <2>2
  <2>4. s3 \in Seq(Byte) /\ s4 \in Seq(Byte) /\ s5 \in Seq(Byte)
    BY <2>3, NumberBytes
  <2> QED
    BY <2>1, <2>4
<1>3. Made(s1, e, a, a + 1)
  BY <1>1, <1>2, MadeOne
<1>4. /\ (a + 1) + 1 = a + 2 /\ (a + 2) + 1 = a + 3 /\ (a + 3) + 1 = a + 4 /\ (a + 4) + 1 = a + 5
      /\ a + 1 \in Int /\ a + 2 \in Int /\ a + 3 \in Int /\ a + 4 \in Int
      /\ a <= a + 1 /\ a <= a + 2 /\ a <= a + 3 /\ a <= a + 4
  OBVIOUS
<1>5. PICK t2 : t2 = s1 \o s2
  OBVIOUS
<1>6. t2 \in Seq(Byte) /\ Made(t2, e, a, a + 2)
  BY <1>1, <1>2, <1>3, <1>4, <1>5, OneByOne
<1>7. PICK t3 : t3 = t2 \o s3
  OBVIOUS
<1>8. t3 \in Seq(Byte) /\ Made(t3, e, a, a + 3)
  BY <1>1, <1>2, <1>4, <1>6, <1>7, OneByOne
<1>9. PICK t4 : t4 = t3 \o s4
  OBVIOUS
<1>10. t4 \in Seq(Byte) /\ Made(t4, e, a, a + 4)
  BY <1>1, <1>2, <1>4, <1>8, <1>9, OneByOne
<1>11. PICK t5 : t5 = t4 \o s5
  OBVIOUS
<1>12. t5 \in Seq(Byte) /\ Made(t5, e, a, a + 5)
  BY <1>1, <1>2, <1>4, <1>10, <1>11, OneByOne
<1>13. Sixb!Row(r) = t5
  BY <1>1, <1>5, <1>7, <1>9, <1>11 DEF Sixb!Row
<1> QED
  BY <1>12, <1>13

LEMMA LookupMade ==
  ASSUME NEW e, NEW a \in Int, NEW l \in CachedLookup,
         e[a + 1] = Sixb!Str(l.field), e[a + 2] = Sixb!Str(l.key), e[a + 3] = Sixb!Str(l.id)
  PROVE  Sixb!Lookup(l) \in Seq(Byte) /\ Made(Sixb!Lookup(l), e, a, a + 3)
<1>1. PICK s1, s2, s3 : s1 = Sixb!Str(l.field) /\ s2 = Sixb!Str(l.key) /\ s3 = Sixb!Str(l.id)
  OBVIOUS
<1>2. s1 \in Seq(Byte) /\ s2 \in Seq(Byte) /\ s3 \in Seq(Byte)
  BY <1>1, LookupType, StringBytes
<1>3. Made(s1, e, a, a + 1)
  BY <1>1, <1>2, MadeOne
<1>4. /\ (a + 1) + 1 = a + 2 /\ (a + 2) + 1 = a + 3
      /\ a + 1 \in Int /\ a + 2 \in Int /\ a <= a + 1 /\ a <= a + 2
  OBVIOUS
<1>5. PICK t2 : t2 = s1 \o s2
  OBVIOUS
<1>6. t2 \in Seq(Byte) /\ Made(t2, e, a, a + 2)
  BY <1>1, <1>2, <1>3, <1>4, <1>5, OneByOne
<1>7. PICK t3 : t3 = t2 \o s3
  OBVIOUS
<1>8. t3 \in Seq(Byte) /\ Made(t3, e, a, a + 3)
  BY <1>1, <1>2, <1>4, <1>6, <1>7, OneByOne
<1>9. Sixb!Lookup(l) = t3
  BY <1>1, <1>5, <1>7 DEF Sixb!Lookup
<1> QED
  BY <1>8, <1>9

(* Sequences of w pieces each, one after another. *)
LEMMA ManyMade ==
  ASSUME NEW n \in Nat, NEW u \in [1..n -> Seq(Byte)], NEW e, NEW a \in Int, NEW w \in Nat,
         \A i \in 1..n : Made(u[i], e, a + w * (i - 1), a + w * i)
  PROVE  Sixb!FlattenSeq(u) \in Seq(Byte) /\ Made(Sixb!FlattenSeq(u), e, a, a + w * n)
<1>1. PICK f : Flattens(f, u, n, Byte) /\ Sixb!FlattenSeq(u) = f[n]
  BY FlattenIs
<1> DEFINE S == {k \in 0..n : Made(f[k], e, a, a + w * k)}
<1>2. 0 \in S
  <2>1. Made(<<>>, e, a, a) /\ f[0] = <<>> /\ a + w * 0 = a
    BY <1>1, MadeNone DEF Flattens
  <2> QED
    BY <2>1
<1>3. ASSUME NEW k \in 0..(n - 1), k \in S
      PROVE  k + 1 \in S
  <2>1. k + 1 \in 1..n /\ (k + 1) - 1 = k /\ k \in 0..n /\ k + 1 \in 0..n
    OBVIOUS
  <2>2. f[k + 1] = f[k] \o u[k + 1] /\ f[k] \in Seq(Byte)
    BY <1>1, <2>1 DEF Flattens
  <2>3. u[k + 1] \in Seq(Byte) /\ Made(u[k + 1], e, a + w * k, a + w * (k + 1))
    BY <2>1
  <2>4. PICK b, g \in Int : b = a + w * k /\ g = a + w * (k + 1) /\ a <= b /\ b <= g
    <3>1. PICK x \in Nat : x = w * k
      OBVIOUS
    <3>2. w * (k + 1) = x + w
      BY <3>1
    <3> QED
      BY <3>1, <3>2
  <2>5. Made(f[k], e, a, b) /\ Made(u[k + 1], e, b, g)
    BY <1>3, <2>3, <2>4
  <2>6. Made(f[k] \o u[k + 1], e, a, g)
    BY <2>2, <2>3, <2>4, <2>5, MadeConcat
  <2>7. Made(f[k + 1], e, a, a + w * (k + 1))
    BY <2>2, <2>4, <2>6
  <2> QED
    BY <2>1, <2>7
<1>4. \A k \in 0..n : k \in S
  <2> HIDE DEF S
  <2> QED
    BY <1>2, <1>3, UpTo
<1>5. n \in 0..n
  OBVIOUS
<1> QED
  BY <1>1, <1>4, <1>5 DEF Flattens

LEMMA RowsMade ==
  ASSUME NEW cache \in Cached, NEW n \in Nat, NEW m \in Nat, Counts(cache, n, m),
         NEW e, e = PieceAt(cache),
         NEW u, u = [i \in DOMAIN cache.rows |-> Sixb!Row(cache.rows[i])]
  PROVE  Sixb!FlattenSeq(u) \in Seq(Byte) /\ Made(Sixb!FlattenSeq(u), e, 5, 5 + 5 * n)
<1>1. DOMAIN cache.rows = 1..n /\ \A i \in 1..n : cache.rows[i] \in CachedRow
  BY CachedType DEF Counts
<1>2. ASSUME NEW i \in 1..n
      PROVE  u[i] \in Seq(Byte) /\ Made(u[i], e, 5 + 5 * (i - 1), 5 + 5 * i)
  <2>1. PICK r \in CachedRow : r = cache.rows[i] /\ u[i] = Sixb!Row(r)
    BY <1>1
  <2>2. PICK a \in Int : a = 5 * i /\ a = 5 + 5 * (i - 1) /\ a + 5 = 5 + 5 * i
    OBVIOUS
  <2>3. /\ e[a + 1] = Sixb!Str(r.id) /\ e[a + 2] = Sixb!Str(r.chunk)
        /\ e[a + 3] = Sixb!U64(r.offset) /\ e[a + 4] = Sixb!U32(r.len)
        /\ e[a + 5] = Sixb!U64(r.tx)
    <3>1. /\ e[5 * i + 1] = Sixb!Str(cache.rows[i].id)
          /\ e[5 * i + 2] = Sixb!Str(cache.rows[i].chunk)
          /\ e[5 * i + 3] = Sixb!U64(cache.rows[i].offset)
          /\ e[5 * i + 4] = Sixb!U32(cache.rows[i].len)
          /\ e[5 * i + 5] = Sixb!U64(cache.rows[i].tx)
      BY PiecesAre
    <3>2. a = 5 * i /\ r = cache.rows[i]
      BY <2>1, <2>2
    <3> QED
      BY <3>1, <3>2
  <2>4. Sixb!Row(r) \in Seq(Byte) /\ Made(Sixb!Row(r), e, a, a + 5)
    BY <2>3, RowMade
  <2> QED
    BY <2>1, <2>2, <2>4
<1>3. u \in [1..n -> Seq(Byte)]
  BY <1>1, <1>2
<1>4. \A i \in 1..n : Made(u[i], e, 5 + 5 * (i - 1), 5 + 5 * i)
  BY <1>2
<1>5. 5 \in Int /\ 5 \in Nat
  OBVIOUS
<1> QED
  BY <1>3, <1>4, <1>5, ManyMade

LEMMA LookupsMade ==
  ASSUME NEW cache \in Cached, NEW n \in Nat, NEW m \in Nat, Counts(cache, n, m),
         NEW e, e = PieceAt(cache), NEW b \in Int, b = 6 + 5 * n,
         NEW u, u = [i \in DOMAIN cache.lookups |-> Sixb!Lookup(cache.lookups[i])]
  PROVE  Sixb!FlattenSeq(u) \in Seq(Byte) /\ Made(Sixb!FlattenSeq(u), e, b, b + 3 * m)
<1>1. DOMAIN cache.lookups = 1..m /\ \A i \in 1..m : cache.lookups[i] \in CachedLookup
  BY CachedType DEF Counts
<1>2. ASSUME NEW i \in 1..m
      PROVE  u[i] \in Seq(Byte) /\ Made(u[i], e, b + 3 * (i - 1), b + 3 * i)
  <2>1. PICK l \in CachedLookup : l = cache.lookups[i] /\ u[i] = Sixb!Lookup(l)
    BY <1>1
  <2>2. PICK a \in Int : a = Before(n, i) /\ a = b + 3 * (i - 1) /\ a + 3 = b + 3 * i
    BY DEF Before
  <2>3. /\ e[Before(n, i) + 1] = Sixb!Str(l.field) /\ e[Before(n, i) + 2] = Sixb!Str(l.key)
        /\ e[Before(n, i) + 3] = Sixb!Str(l.id)
    BY <2>1, PiecesAre
  <2>4. Sixb!Lookup(l) \in Seq(Byte) /\ Made(Sixb!Lookup(l), e, a, a + 3)
    <3>1. a = Before(n, i)
      BY <2>2
    <3> QED
      BY <2>3, <3>1, LookupMade
  <2> QED
    BY <2>1, <2>2, <2>4
<1>3. u \in [1..m -> Seq(Byte)]
  BY <1>1, <1>2
<1>4. \A i \in 1..m : Made(u[i], e, b + 3 * (i - 1), b + 3 * i)
  BY <1>2
<1>5. 3 \in Nat
  OBVIOUS
<1> QED
  BY <1>3, <1>4, <1>5, ManyMade

LEMMA MagicBytes ==
  /\ Sixb!Magic \in Seq(Byte) /\ Len(Sixb!Magic) = 5
<1>1. 83 \in Byte /\ 73 \in Byte /\ 88 \in Byte /\ 66 \in Byte /\ 0 \in Byte
  BY DEF Byte
<1> QED
  BY <1>1 DEF Sixb!Magic

(* A cache is written as the magic bytes and its fields in their order. *)
LEMMA EncodeMade ==
  ASSUME NEW cache \in Cached, NEW n \in Nat, NEW m \in Nat, Counts(cache, n, m)
  PROVE  /\ Sixb!Encode(cache) \in Seq(Byte)
         /\ Made(Sixb!Encode(cache), PieceAt(cache), -1, Fields(n, m))
<1>1. PICK e : e = PieceAt(cache)
  OBVIOUS
<1>2. PICK u, v : /\ u = [i \in DOMAIN cache.rows |-> Sixb!Row(cache.rows[i])]
                  /\ v = [i \in DOMAIN cache.lookups |-> Sixb!Lookup(cache.lookups[i])]
  OBVIOUS
<1>3. PICK s0, s1, s2, s3, s4, s5, s6 :
        /\ s0 = Sixb!Magic /\ s1 = Sixb!U32(2) /\ s2 = Sixb!Str(cache.table)
        /\ s3 = Sixb!Str(cache.schema) /\ s4 = Sixb!Str(cache.source)
        /\ s5 = Sixb!U32(n) /\ s6 = Sixb!U32(m)
  OBVIOUS
<1>4. /\ s0 \in Seq(Byte) /\ s1 \in Seq(Byte) /\ s2 \in Seq(Byte) /\ s3 \in Seq(Byte)
      /\ s4 \in Seq(Byte) /\ s5 \in Seq(Byte) /\ s6 \in Seq(Byte)
  <2>1. s2 \in Seq(Byte) /\ s3 \in Seq(Byte) /\ s4 \in Seq(Byte)
    BY <1>3, CachedType, StringBytes
  <2>2. 2 \in Small /\ n \in Small /\ m \in Small
    <3>1. 2 \in Small
      BY SmallIs, LargeIs
    <3>2. n \in Small /\ m \in Small
      BY CachedType DEF Counts
    <3> QED
      BY <3>1, <3>2
  <2>3. s1 \in Seq(Byte) /\ s5 \in Seq(Byte) /\ s6 \in Seq(Byte)
    BY <1>3, <2>2, NumberBytes
  <2> QED
    BY <1>3, <2>1, <2>3, MagicBytes
<1>5. /\ e[0] = s0 /\ e[1] = s1 /\ e[2] = s2 /\ e[3] = s3 /\ e[4] = s4 /\ e[5] = s5
      /\ e[6 + 5 * n] = s6
  BY <1>1, <1>3, PiecesAre
<1>6. PICK a, x0, x1, x2, x3, x4, x5 \in Int :
        a = -1 /\ x0 = 0 /\ x1 = 1 /\ x2 = 2 /\ x3 = 3 /\ x4 = 4 /\ x5 = 5
  OBVIOUS
<1>7. /\ x0 = a + 1 /\ x1 = x0 + 1 /\ x2 = x1 + 1 /\ x3 = x2 + 1 /\ x4 = x3 + 1 /\ x5 = x4 + 1
      /\ a <= x0 /\ a <= x1 /\ a <= x2 /\ a <= x3 /\ a <= x4 /\ a <= x5
  BY <1>6
<1>8. e[x0] = s0 /\ e[x1] = s1 /\ e[x2] = s2 /\ e[x3] = s3 /\ e[x4] = s4 /\ e[x5] = s5
  BY <1>5, <1>6
<1>9. Made(s0, e, a, x0)
  BY <1>4, <1>7, <1>8, MadeOne
<1>10. PICK t1 : t1 = s0 \o s1
  OBVIOUS
<1>11. t1 \in Seq(Byte) /\ Made(t1, e, a, x1)
  BY <1>4, <1>8, <1>9, <1>7, <1>10, OneByOne
<1>12. PICK t2 : t2 = t1 \o s2
  OBVIOUS
<1>13. t2 \in Seq(Byte) /\ Made(t2, e, a, x2)
  BY <1>4, <1>8, <1>7, <1>11, <1>12, OneByOne
<1>14. PICK t3 : t3 = t2 \o s3
  OBVIOUS
<1>15. t3 \in Seq(Byte) /\ Made(t3, e, a, x3)
  BY <1>4, <1>8, <1>7, <1>13, <1>14, OneByOne
<1>16. PICK t4 : t4 = t3 \o s4
  OBVIOUS
<1>17. t4 \in Seq(Byte) /\ Made(t4, e, a, x4)
  BY <1>4, <1>8, <1>7, <1>15, <1>16, OneByOne
<1>18. PICK t5 : t5 = t4 \o s5
  OBVIOUS
<1>19. t5 \in Seq(Byte) /\ Made(t5, e, a, x5)
  BY <1>4, <1>8, <1>7, <1>17, <1>18, OneByOne
<1>20. PICK b, d, g \in Int :
         /\ b = 5 + 5 * n /\ d = 6 + 5 * n /\ g = Fields(n, m) /\ d = b + 1 /\ g = d + 3 * m
         /\ x5 <= b /\ a <= b /\ a <= d /\ d <= g
  BY <1>6 DEF Fields
<1>21. PICK f, h : f = Sixb!FlattenSeq(u) /\ h = Sixb!FlattenSeq(v)
  OBVIOUS
<1>22. f \in Seq(Byte) /\ Made(f, e, x5, b)
  BY <1>1, <1>2, <1>6, <1>20, <1>21, RowsMade
<1>23. h \in Seq(Byte) /\ Made(h, e, d, g)
  BY <1>1, <1>2, <1>20, <1>21, LookupsMade
<1>24. PICK t6 : t6 = t5 \o f
  OBVIOUS
<1>25. t6 \in Seq(Byte) /\ Made(t6, e, a, b)
  <2>1. a <= x5 /\ x5 <= b
    BY <1>7, <1>20
  <2> QED
    BY <1>19, <1>22, <1>24, <2>1, MadeConcat
<1>26. PICK t7 : t7 = t6 \o s6
  OBVIOUS
<1>27. t7 \in Seq(Byte) /\ Made(t7, e, a, d)
  <2>1. e[b + 1] = s6 /\ a <= b /\ d = b + 1
    BY <1>5, <1>20
  <2> QED
    BY <1>4, <1>25, <1>26, <2>1, OneByOne
<1>28. PICK t8 : t8 = t7 \o h
  OBVIOUS
<1>29. t8 \in Seq(Byte) /\ Made(t8, e, a, g)
  <2>1. a <= d /\ d <= g
    BY <1>20, ZenonT(60)
  <2> QED
    BY <1>23, <1>27, <1>28, <2>1, MadeConcat
<1>30. Sixb!Encode(cache) = t8
  BY <1>2, <1>3, <1>10, <1>12, <1>14, <1>16, <1>18, <1>21, <1>24, <1>26, <1>28
     DEF Sixb!Encode, Sixb!Version, Counts
<1> QED
  BY <1>1, <1>6, <1>20, <1>29, <1>30

-----------------------------------------------------------------------------
(* Numbers and strings are read as they are written, and nothing else is    *)
(* read as them.                                                           *)

NumberAt(b, p, w) ==
  IF \E i \in 3..w : b[p + i] # 0 THEN Sixb!Large ELSE b[p + 1] + 256 * b[p + 2]

Wide(w, v) == IF w = 8 THEN Sixb!U64(v) ELSE Sixb!U32(v)

(* The bytes that are not 0, and the others. *)
LEMMA Halves ==
  ASSUME NEW v \in Small
  PROVE  /\ v % 256 \in Byte /\ v \div 256 \in Byte /\ v = 256 * (v \div 256) + (v % 256)
         /\ v \in Nat
BY NumberBytes, SmallIs

Bytes(v, j) == IF j = 1 THEN v % 256 ELSE IF j = 2 THEN v \div 256 ELSE 0

LEMMA WideIs ==
  ASSUME NEW w \in {4, 8}, NEW v \in Small
  PROVE  /\ Wide(w, v) \in Seq(Byte) /\ Len(Wide(w, v)) = w
         /\ \A j \in 1..w : Wide(w, v)[j] = Bytes(v, j)
<1>1. CASE w = 4
  <2>1. PICK s : s = Sixb!U32(v)
    OBVIOUS
  <2>2. Wide(w, v) = s
    BY <1>1, <2>1 DEF Wide
  <2>3. /\ s \in Seq(Byte) /\ Len(s) = 4 /\ s[1] = v % 256 /\ s[2] = v \div 256
        /\ \A j \in 3..4 : s[j] = 0
    BY <2>1, NumberBytes
  <2>4. \A j \in 1..4 : j = 1 \/ j = 2 \/ j \in 3..4
    OBVIOUS
  <2>5. \A j \in 1..4 : s[j] = Bytes(v, j)
    BY <2>3, <2>4 DEF Bytes
  <2> QED
    BY <1>1, <2>2, <2>3, <2>5
<1>2. CASE w = 8
  <2>1. PICK s : s = Sixb!U64(v)
    OBVIOUS
  <2>2. Wide(w, v) = s
    BY <1>2, <2>1 DEF Wide
  <2>3. /\ s \in Seq(Byte) /\ Len(s) = 8 /\ s[1] = v % 256 /\ s[2] = v \div 256
        /\ \A j \in 3..8 : s[j] = 0
    BY <2>1, NumberBytes
  <2>4. \A j \in 1..8 : j = 1 \/ j = 2 \/ j \in 3..8
    OBVIOUS
  <2>5. \A j \in 1..8 : s[j] = Bytes(v, j)
    BY <2>3, <2>4 DEF Bytes
  <2> QED
    BY <1>2, <2>2, <2>3, <2>5
<1> QED
  BY <1>1, <1>2

LEMMA NumberReadBack ==
  ASSUME NEW w \in {4, 8}, NEW v \in Small, NEW b, NEW p \in Nat,
         \A j \in 1..w : b[p + j] = Wide(w, v)[j]
  PROVE  NumberAt(b, p, w) = v
<1>1. 1 \in 1..w /\ 2 \in 1..w /\ \A i \in 3..w : i \in 1..w /\ i # 1 /\ i # 2
  OBVIOUS
<1>2. PICK x \in Byte, y \in Byte : x = v % 256 /\ y = v \div 256 /\ v = 256 * y + x
  BY Halves
<1>3. \A j \in 1..w : b[p + j] = Bytes(v, j)
  BY WideIs
<1>4. b[p + 1] = x /\ b[p + 2] = y
  BY <1>1, <1>2, <1>3 DEF Bytes
<1>5. \A i \in 3..w : b[p + i] = 0
  BY <1>1, <1>3 DEF Bytes
<1>6. NumberAt(b, p, w) = x + 256 * y
  BY <1>4, <1>5 DEF NumberAt
<1>7. x + 256 * y = v
  BY <1>2 DEF Byte
<1> QED
  BY <1>6, <1>7

LEMMA NumberIsOf ==
  ASSUME NEW w \in {4, 8}, NEW b \in Seq(Byte), NEW p \in Nat, p + w <= Len(b)
  PROVE  /\ NumberAt(b, p, w) \in Nat
         /\ NumberAt(b, p, w) \in Small =>
              \A j \in 1..w : b[p + j] = Wide(w, NumberAt(b, p, w))[j]
<1>1. PICK l \in Nat : l = Len(b)
  OBVIOUS
<1>2. \A j \in 1..w : b[p + j] \in Byte
  <2> TAKE j \in 1..w
  <2>1. p + j \in 1..Len(b)
    BY <1>1
  <2> QED
    BY <2>1, ElementOfSeq
<1>3. PICK x, y \in Byte : x = b[p + 1] /\ y = b[p + 2]
  <2>1. 1 \in 1..w /\ 2 \in 1..w
    OBVIOUS
  <2> QED
    BY <1>2, <2>1
<1>4. CASE \E i \in 3..w : b[p + i] # 0
  <2>1. NumberAt(b, p, w) = Sixb!Large
    BY <1>4 DEF NumberAt
  <2> QED
    BY <2>1, LargeNat, SmallIs
<1>5. CASE ~\E i \in 3..w : b[p + i] # 0
  <2>1. PICK v \in Nat : v = x + 256 * y
    BY DEF Byte
  <2>2. NumberAt(b, p, w) = v
    BY <1>3, <1>5, <2>1 DEF NumberAt
  <2>3. v < 65536
    BY <2>1 DEF Byte
  <2>4. v \in Small
    BY <2>3, SmallIs, LargeIs
  <2>5. PICK q, r \in Byte : r = v % 256 /\ q = v \div 256 /\ v = 256 * q + r
    BY <2>4, Halves
  <2>6. q = y /\ r = x
    BY <2>1, <2>5 DEF Byte
  <2>7. \A j \in 1..w : Wide(w, v)[j] = Bytes(v, j)
    BY <2>4, WideIs
  <2>8. ASSUME NEW j \in 1..w
        PROVE  b[p + j] = Wide(w, v)[j]
    <3>1. Wide(w, v)[j] = IF j = 1 THEN x ELSE IF j = 2 THEN y ELSE 0
      BY <2>5, <2>6, <2>7 DEF Bytes
    <3>2. j = 1 \/ j = 2 \/ j \in 3..w
      OBVIOUS
    <3> QED
      BY <1>3, <1>5, <3>1, <3>2
  <2> QED
    BY <2>2, <2>8
<1> QED
  BY <1>4, <1>5

WidthOf(kd) == IF kd = "u64" THEN 8 ELSE 4

Legal(kd, v) == IF kd = "string" THEN v \in CachedText ELSE v \in Small

(* A number or a count is read as the one value that is written so. *)
LEMMA NumberCoded ==
  ASSUME NEW kd, kd # "string", NEW v, Legal(kd, v)
  PROVE  /\ WidthOf(kd) \in {4, 8} /\ v \in Small
         /\ Coded(kd, v) = Wide(WidthOf(kd), v) /\ Len(Coded(kd, v)) = WidthOf(kd)
<1>1. WidthOf(kd) \in {4, 8} /\ v \in Small
  BY DEF WidthOf, Legal
<1>2. Coded(kd, v) = Wide(WidthOf(kd), v)
  BY DEF Coded, Wide, WidthOf
<1> QED
  BY <1>1, <1>2, WideIs

TextAt(b, p) == SubSeq(b, p + 5, p + 4 + NumberAt(b, p, 4))

LEMMA TextRange ==
  ASSUME NEW p \in Nat, NEW l \in Nat, NEW z \in Nat, p + (4 + l) <= z
  PROVE  /\ p + 5 \in 1..(z + 1) /\ p + 4 + l \in ((p + 5) - 1)..z
         /\ (p + 4 + l) - (p + 5) + 1 = l
OBVIOUS

LEMMA TextIs ==
  ASSUME NEW b \in Seq(Byte), NEW p \in Nat, NEW l \in Nat, l = NumberAt(b, p, 4),
         p + (4 + l) <= Len(b), \A i \in (p + 5)..(p + 4 + l) : b[i] < 128
  PROVE  /\ Len(TextAt(b, p)) = l
         /\ \A j \in 1..l : TextAt(b, p)[j] = b[(p + 4) + j]
         /\ TextAt(b, p) \in CachedText => Legal("string", TextAt(b, p))
         /\ TextAt(b, p) \in CachedText =>
              /\ Len(Coded("string", TextAt(b, p))) = 4 + l
              /\ \A j \in 1..(4 + l) : b[p + j] = Coded("string", TextAt(b, p))[j]
<1>1. PICK z \in Nat : z = Len(b)
  OBVIOUS
<1>2. PICK m \in Nat, g \in Nat : m = p + 5 /\ g = p + 4 + l
  OBVIOUS
<1>3. m \in 1..(Len(b) + 1) /\ g \in (m - 1)..Len(b) /\ g - m + 1 = l
  <2>1. p + (4 + l) <= z
    BY <1>1
  <2>2. m \in 1..(z + 1) /\ g \in (m - 1)..z /\ g - m + 1 = l
    BY <1>2, <2>1, TextRange
  <2> QED
    BY <1>1, <2>2
<1>4. PICK t : t = SubSeq(b, m, g)
  OBVIOUS
<1>5. TextAt(b, p) = t
  BY <1>2, <1>4 DEF TextAt
<1>6. /\ t \in Seq(Byte) /\ Len(t) = g - m + 1
      /\ \A i \in 1..(g - m + 1) : t[i] = b[m + i - 1]
  BY <1>3, <1>4, SubSeqIs
<1>7. Len(t) = l /\ \A j \in 1..l : t[j] = b[(p + 4) + j]
  <2>1. \A j \in 1..l : m + j - 1 = (p + 4) + j
    BY <1>2
  <2> QED
    BY <1>3, <1>6, <2>1
<1>8. ASSUME t \in CachedText
      PROVE  /\ Len(Coded("string", t)) = 4 + l
             /\ \A j \in 1..(4 + l) : b[p + j] = Coded("string", t)[j]
  <2>1. PICK s : s = Sixb!Str(t) /\ Coded("string", t) = s
    BY DEF Coded
  <2>2. /\ l \in Small /\ Len(s) = 4 + l
        /\ \A j \in 1..4 : s[j] = Sixb!U32(l)[j]
        /\ \A j \in 1..l : s[4 + j] = t[j]
    BY <1>7, <1>8, <2>1, StringBytes, SMTT(30)
  <2>3. p + 4 <= Len(b)
    BY <1>1
  <2>4. \A j \in 1..4 : b[p + j] = Wide(4, l)[j]
    BY <2>2, <2>3, NumberIsOf
  <2>5. Wide(4, l) = Sixb!U32(l)
    BY DEF Wide
  <2>6. ASSUME NEW j \in 1..(4 + l)
        PROVE  b[p + j] = s[j]
    <3>1. CASE j \in 1..4
      BY <2>2, <2>4, <2>5, <3>1
    <3>2. CASE j > 4
      <4>1. PICK i \in 1..l : i = j - 4
        BY <3>2
      <4>2. 4 + i = j /\ (p + 4) + i = p + j
        BY <4>1
      <4>3. s[4 + i] = t[i] /\ t[i] = b[(p + 4) + i]
        BY <1>7, <2>2
      <4> QED
        BY <4>2, <4>3
    <3> QED
      BY <3>1, <3>2
  <2> QED
    BY <2>1, <2>2, <2>6
<1> QED
  BY <1>5, <1>7, <1>8 DEF Legal

(* A string that is written is read. *)
LEMMA TextReadBack ==
  ASSUME NEW v \in CachedText, NEW b \in Seq(Byte), NEW p \in Nat,
         p + 4 <= Len(b), \A j \in 1..4 : b[p + j] = Sixb!Str(v)[j]
  PROVE  /\ NumberAt(b, p, 4) = Len(v)
         /\ (p + (4 + Len(v)) <= Len(b) /\ \A j \in 1..(4 + Len(v)) : b[p + j] = Sixb!Str(v)[j]) =>
              /\ TextAt(b, p) = v
              /\ \A i \in (p + 5)..(p + 4 + Len(v)) : b[i] < 128
<1>1. /\ Len(v) \in Small
      /\ \A j \in 1..4 : Sixb!Str(v)[j] = Sixb!U32(Len(v))[j]
      /\ \A j \in 1..Len(v) : Sixb!Str(v)[4 + j] = v[j] /\ v[j] \in 0..127
  BY StringBytes
<1>2. PICK l \in Small : l = Len(v)
  BY <1>1
<1>3. NumberAt(b, p, 4) = l
  <2>1. \A j \in 1..4 : b[p + j] = Wide(4, l)[j]
    BY <1>1, <1>2 DEF Wide
  <2> QED
    BY <2>1, NumberReadBack
<1>4. ASSUME p + (4 + l) <= Len(b), \A j \in 1..(4 + l) : b[p + j] = Sixb!Str(v)[j]
      PROVE  /\ TextAt(b, p) = v
             /\ \A i \in (p + 5)..(p + 4 + l) : b[i] < 128
  <2>1. l \in Nat
    BY SmallIs
  <2>2. ASSUME NEW j \in 1..l
        PROVE  b[(p + 4) + j] = v[j] /\ v[j] \in 0..127
    <3>1. 4 + j \in 1..(4 + l) /\ p + (4 + j) = (p + 4) + j
      BY <2>1
    <3>2. b[p + (4 + j)] = Sixb!Str(v)[4 + j]
      BY <1>4, <3>1
    <3>3. Sixb!Str(v)[4 + j] = v[j] /\ v[j] \in 0..127
      BY <1>1, <1>2
    <3> QED
      BY <3>1, <3>2, <3>3
  <2>3. \A i \in (p + 5)..(p + 4 + l) : b[i] < 128
    <3> TAKE i \in (p + 5)..(p + 4 + l)
    <3>1. PICK j \in 1..l : i = (p + 4) + j
      <4>1. i - (p + 4) \in 1..l /\ i = (p + 4) + (i - (p + 4))
        BY <2>1
      <4> QED
        BY <4>1
    <3>2. PICK x \in 0..127 : b[i] = x
      BY <2>2, <3>1
    <3> QED
      BY <3>2
  <2>4. /\ Len(TextAt(b, p)) = l
        /\ \A j \in 1..l : TextAt(b, p)[j] = b[(p + 4) + j]
    BY <1>3, <1>4, <2>1, <2>3, TextIs
  <2>5. v = [j \in 1..l |-> v[j]]
    BY <1>2, LenProperties DEF CachedText
  <2>6. TextAt(b, p) \in Seq(Byte)
    <3>1. PICK z \in Nat : z = Len(b)
      OBVIOUS
    <3>2. PICK m, g \in Nat : m = p + 5 /\ g = p + 4 + l
      BY <2>1
    <3>3. m \in 1..(Len(b) + 1) /\ g \in (m - 1)..Len(b)
      BY <1>4, <2>1, <3>1, <3>2
    <3>4. SubSeq(b, m, g) \in Seq(Byte)
      BY <3>3, SubSeqIs
    <3> QED
      BY <1>3, <3>2, <3>4 DEF TextAt
  <2>7. TextAt(b, p) = [j \in 1..l |-> TextAt(b, p)[j]]
    BY <2>4, <2>6, LenProperties
  <2>8. \A j \in 1..l : TextAt(b, p)[j] = v[j]
    BY <2>2, <2>4
  <2> QED
    BY <2>3, <2>5, <2>7, <2>8
<1> QED
  BY <1>2, <1>3, <1>4

-----------------------------------------------------------------------------
(* A step of the decoder: a field is read where it is written.             *)

ValueRead(kd, b, p) == IF kd = "string" THEN TextAt(b, p) ELSE NumberAt(b, p, WidthOf(kd))

SizeRead(kd, b, p) == IF kd = "string" THEN 4 + NumberAt(b, p, 4) ELSE WidthOf(kd)

CanRead(kd, b, p) ==
  IF kd = "string"
    THEN /\ p + 4 <= Len(b) /\ p + (4 + NumberAt(b, p, 4)) <= Len(b)
         /\ \A i \in (p + 5)..(p + 4 + NumberAt(b, p, 4)) : b[i] < 128
    ELSE p + WidthOf(kd) <= Len(b)

LEMMA WidthIs == \A kd : WidthOf(kd) \in {4, 8} /\ WidthOf(kd) \in Nat
BY DEF WidthOf

(* What is read is coded in the bytes it was read from. *)
LEMMA ReadIs ==
  ASSUME NEW b \in Seq(Byte), NEW p \in Nat, NEW kd, CanRead(kd, b, p)
  PROVE  /\ SizeRead(kd, b, p) \in Nat /\ p + SizeRead(kd, b, p) <= Len(b)
         /\ kd # "string" => ValueRead(kd, b, p) \in Nat
         /\ Legal(kd, ValueRead(kd, b, p)) =>
              /\ Len(Coded(kd, ValueRead(kd, b, p))) = SizeRead(kd, b, p)
              /\ \A j \in 1..SizeRead(kd, b, p) :
                   b[p + j] = Coded(kd, ValueRead(kd, b, p))[j]
<1>1. CASE kd = "string"
  <2>1. p + 4 <= Len(b)
    BY <1>1 DEF CanRead
  <2>2. PICK l \in Nat : l = NumberAt(b, p, 4)
    BY <2>1, NumberIsOf
  <2>3. p + (4 + l) <= Len(b) /\ \A i \in (p + 5)..(p + 4 + l) : b[i] < 128
    BY <1>1, <2>2 DEF CanRead
  <2>4. /\ Len(TextAt(b, p)) = l
        /\ TextAt(b, p) \in CachedText =>
             /\ Len(Coded("string", TextAt(b, p))) = 4 + l
             /\ \A j \in 1..(4 + l) : b[p + j] = Coded("string", TextAt(b, p))[j]
    BY <2>2, <2>3, TextIs
  <2>5. SizeRead(kd, b, p) = 4 + l /\ ValueRead(kd, b, p) = TextAt(b, p)
    BY <1>1, <2>2 DEF SizeRead, ValueRead
  <2>6. Legal(kd, TextAt(b, p)) <=> TextAt(b, p) \in CachedText
    BY <1>1 DEF Legal
  <2>7. 4 + l \in Nat
    BY <2>2
  <2> QED
    BY <1>1, <2>3, <2>4, <2>5, <2>6, <2>7
<1>2. CASE kd # "string"
  <2>1. PICK w \in {4, 8} : w = WidthOf(kd)
    BY WidthIs
  <2>2. p + w <= Len(b) /\ SizeRead(kd, b, p) = w /\ ValueRead(kd, b, p) = NumberAt(b, p, w)
    BY <1>2, <2>1 DEF CanRead, SizeRead, ValueRead
  <2>3. PICK v : v = NumberAt(b, p, w)
    OBVIOUS
  <2>4. v \in Nat /\ (v \in Small => \A j \in 1..w : b[p + j] = Wide(w, v)[j])
    BY <2>2, <2>3, NumberIsOf, ZenonT(60)
  <2>5. ASSUME Legal(kd, v)
        PROVE  Len(Coded(kd, v)) = w /\ \A j \in 1..w : b[p + j] = Coded(kd, v)[j]
    <3>1. v \in Small /\ Coded(kd, v) = Wide(w, v) /\ Len(Coded(kd, v)) = w
      BY <1>2, <2>1, <2>5, NumberCoded
    <3> QED
      BY <2>4, <3>1
  <2> QED
    BY <1>2, <2>2, <2>3, <2>4, <2>5
<1> QED
  BY <1>1, <1>2

(* Where a value is coded, it is read, if the file does not end before.    *)
LEMMA ReadBack ==
  ASSUME NEW b \in Seq(Byte), NEW p \in Nat, NEW kd, NEW u, Legal(kd, u),
         \A j \in 1..Len(Coded(kd, u)) : p + j <= Len(b) => b[p + j] = Coded(kd, u)[j]
  PROVE  /\ CanRead(kd, b, p) => /\ ValueRead(kd, b, p) = u
                                 /\ SizeRead(kd, b, p) = Len(Coded(kd, u))
         /\ p + Len(Coded(kd, u)) <= Len(b) => CanRead(kd, b, p)
<1>0. PICK z \in Nat : z = Len(b)
  OBVIOUS
<1>1. CASE kd = "string"
  <2>1. u \in CachedText
    BY <1>1 DEF Legal
  <2>2. PICK s : s = Sixb!Str(u) /\ Coded(kd, u) = s
    BY <1>1 DEF Coded
  <2>3. PICK l \in Nat : l = Len(u)
    BY <2>1, StringBytes, SmallIs
  <2>4. Len(s) = 4 + l
    BY <2>1, <2>2, <2>3, StringBytes
  <2>5. \A j \in 1..(4 + l) : p + j <= Len(b) => b[p + j] = s[j]
    BY <2>2, <2>4
  <2>6. ASSUME p + 4 <= Len(b)
        PROVE  /\ NumberAt(b, p, 4) = l
               /\ p + (4 + l) <= Len(b) =>
                    /\ TextAt(b, p) = u
                    /\ \A i \in (p + 5)..(p + 4 + l) : b[i] < 128
    <3>1. \A j \in 1..4 : j \in 1..(4 + l) /\ p + j <= Len(b)
      BY <1>0, <2>6
    <3>2. \A j \in 1..4 : b[p + j] = s[j]
      BY <2>5, <3>1
    <3>3. p + (4 + l) <= Len(b) => \A j \in 1..(4 + l) : p + j <= Len(b)
      BY <1>0
    <3>4. p + (4 + l) <= Len(b) => \A j \in 1..(4 + l) : b[p + j] = s[j]
      BY <2>5, <3>3
    <3>5. /\ NumberAt(b, p, 4) = Len(u)
          /\ (p + (4 + Len(u)) <= Len(b) /\ \A j \in 1..(4 + Len(u)) : b[p + j] = Sixb!Str(u)[j]) =>
               /\ TextAt(b, p) = u
               /\ \A i \in (p + 5)..(p + 4 + Len(u)) : b[i] < 128
      <4>1. \A j \in 1..4 : b[p + j] = Sixb!Str(u)[j]
        BY <2>2, <3>2
      <4> QED
        BY <2>1, <2>6, <4>1, TextReadBack
    <3>6. p + (4 + l) <= Len(b) => \A j \in 1..(4 + l) : b[p + j] = Sixb!Str(u)[j]
      BY <2>2, <3>4
    <3> QED
      BY <2>3, <3>5, <3>6
  <2>7. CanRead(kd, b, p) => p + 4 <= Len(b) /\ p + (4 + NumberAt(b, p, 4)) <= Len(b)
    BY <1>1 DEF CanRead
  <2>8. ValueRead(kd, b, p) = TextAt(b, p) /\ SizeRead(kd, b, p) = 4 + NumberAt(b, p, 4)
    BY <1>1 DEF ValueRead, SizeRead
  <2>9. CanRead(kd, b, p) => ValueRead(kd, b, p) = u /\ SizeRead(kd, b, p) = 4 + l
    BY <2>6, <2>7, <2>8
  <2>10. p + (4 + l) <= Len(b) => p + 4 <= Len(b)
    BY <1>0
  <2>11. p + (4 + l) <= Len(b) => CanRead(kd, b, p)
    BY <1>1, <2>6, <2>10 DEF CanRead
  <2> QED
    BY <2>2, <2>4, <2>9, <2>11
<1>2. CASE kd # "string"
  <2>1. PICK w \in {4, 8} : w = WidthOf(kd)
    BY WidthIs
  <2>2. u \in Small /\ Coded(kd, u) = Wide(w, u) /\ Len(Coded(kd, u)) = w
    BY <1>2, <2>1, NumberCoded
  <2>3. /\ CanRead(kd, b, p) <=> p + w <= Len(b)
        /\ SizeRead(kd, b, p) = w /\ ValueRead(kd, b, p) = NumberAt(b, p, w)
    BY <1>2, <2>1 DEF CanRead, SizeRead, ValueRead
  <2>4. ASSUME p + w <= Len(b)
        PROVE  NumberAt(b, p, w) = u
    <3>1. \A j \in 1..w : p + j <= Len(b)
      BY <1>0, <2>4
    <3>2. \A j \in 1..w : b[p + j] = Wide(w, u)[j]
      BY <2>2, <3>1
    <3>3. u \in Small
      BY <2>2
    <3> QED
      BY <2>1, <3>2, <3>3, NumberReadBack, ZenonT(60)
  <2> QED
    BY <2>2, <2>3, <2>4
<1> QED
  BY <1>1, <1>2

-----------------------------------------------------------------------------
(* What is still to be read: the fields that the counts which were read    *)
(* announce.                                                               *)

Kind == {"string", "u32", "u64", "rows", "lookups"}

HasLength(q, w) == Len(q) = w

LEMMA TimesIs ==
  ASSUME NEW n \in Nat, NEW q \in Seq(Kind), NEW w \in Nat, HasLength(q, w)
  PROVE  /\ Sixb!Times(n, q) \in Seq(Kind) /\ Len(Sixb!Times(n, q)) = w * n
         /\ \A i \in 1..n : \A j \in 1..w : Sixb!Times(n, q)[w * (i - 1) + j] = q[j]
<1>1. PICK u : u = [i \in 1..n |-> q]
  OBVIOUS
<1>2. u \in [1..n -> Seq(Kind)] /\ \A i \in 1..n : u[i] = q
  BY <1>1
<1>3. PICK f : Flattens(f, u, n, Kind) /\ Sixb!FlattenSeq(u) = f[n]
  BY <1>2, FlattenIs
<1>4. Sixb!Times(n, q) = f[n]
  BY <1>1, <1>3 DEF Sixb!Times
<1> DEFINE Good(k) == /\ Len(f[k]) = w * k
                      /\ \A i \in 1..k : \A j \in 1..w : f[k][w * (i - 1) + j] = q[j]
           S == {k \in 0..n : Good(k)}
<1>5. 0 \in S
  <2>1. f[0] = <<>> /\ w * 0 = 0
    BY <1>3 DEF Flattens
  <2> QED
    BY <2>1
<1>6. ASSUME NEW k \in 0..(n - 1), k \in S
      PROVE  k + 1 \in S
  <2>1. k + 1 \in 1..n /\ (k + 1) - 1 = k /\ k \in 0..n /\ k + 1 \in 0..n
    OBVIOUS
  <2>2. f[k + 1] = f[k] \o q /\ f[k] \in Seq(Kind)
    BY <1>2, <1>3, <2>1 DEF Flattens
  <2>3. Len(f[k]) = w * k /\ \A i \in 1..k : \A j \in 1..w : f[k][w * (i - 1) + j] = q[j]
    BY <1>6
  <2>4. PICK x \in Nat : x = w * k
    OBVIOUS
  <2>5. w * (k + 1) = x + w
    BY <2>4
  <2>6. /\ Len(f[k] \o q) = Len(f[k]) + Len(q)
        /\ \A i \in 1..Len(f[k]) : (f[k] \o q)[i] = f[k][i]
        /\ \A i \in 1..Len(q) : (f[k] \o q)[Len(f[k]) + i] = q[i]
    BY <2>2, Concat
  <2>7. /\ Len(f[k + 1]) = x + w
        /\ \A i \in 1..x : f[k + 1][i] = f[k][i]
        /\ \A i \in 1..w : f[k + 1][x + i] = q[i]
    BY <2>2, <2>3, <2>4, <2>6 DEF HasLength
  <2>8. ASSUME NEW i \in 1..(k + 1), NEW j \in 1..w
        PROVE  f[k + 1][w * (i - 1) + j] = q[j]
    <3>1. CASE i = k + 1
      <4>1. w * (i - 1) = x
        BY <2>4, <3>1
      <4> QED
        BY <2>7, <4>1
    <3>2. CASE i # k + 1
      <4>1. i \in 1..k
        BY <3>2
      <4>2. PICK d \in Nat, y \in Nat : d = k - i /\ y = w * (i - 1)
        BY <4>1
      <4>3. w * d \in Nat /\ x = y + w + w * d
        BY <2>4, <4>2
      <4>4. y + j \in 1..x
        BY <4>3
      <4>5. f[k][y + j] = q[j]
        BY <2>3, <4>1, <4>2
      <4> QED
        BY <2>7, <4>2, <4>4, <4>5
    <3> QED
      BY <3>1, <3>2
  <2>9. Good(k + 1)
    BY <2>5, <2>7, <2>8
  <2> QED
    BY <2>1, <2>9
<1>7. \A k \in 0..n : k \in S
  <2> HIDE DEF S
  <2> QED
    BY <1>5, <1>6, UpTo
<1>8. n \in 0..n
  OBVIOUS
<1>9. f[n] \in Seq(Kind)
  BY <1>3, <1>8 DEF Flattens
<1>10. Good(n)
  BY <1>7, <1>8
<1> QED
  BY <1>4, <1>9, <1>10

LEMMA RowKinds ==
  /\ Sixb!RowFields \in Seq(Kind) /\ Len(Sixb!RowFields) = 5
  /\ Sixb!LookupFields \in Seq(Kind) /\ Len(Sixb!LookupFields) = 3
  /\ Sixb!Header \in Seq(Kind) /\ Len(Sixb!Header) = 5
  /\ \A j \in 1..5 : Sixb!RowFields[j] \in {"string", "u64", "u32"}
  /\ \A j \in 1..3 : Sixb!LookupFields[j] = "string"
<1>1. /\ "string" \in Kind /\ "u32" \in Kind /\ "u64" \in Kind /\ "rows" \in Kind
      /\ "lookups" \in Kind
  BY DEF Kind
<1>2. Sixb!RowFields \in Seq(Kind) /\ Len(Sixb!RowFields) = 5
  BY <1>1 DEF Sixb!RowFields
<1>3. Sixb!LookupFields \in Seq(Kind) /\ Len(Sixb!LookupFields) = 3
  BY <1>1 DEF Sixb!LookupFields
<1>4. Sixb!Header \in Seq(Kind) /\ Len(Sixb!Header) = 5
  BY <1>1 DEF Sixb!Header
<1>5. \A j \in 1..5 : Sixb!RowFields[j] \in {"string", "u64", "u32"}
  <2>1. \A j \in 1..5 : j = 1 \/ j = 2 \/ j = 3 \/ j = 4 \/ j = 5
    OBVIOUS
  <2> QED
    BY <2>1 DEF Sixb!RowFields
<1>6. \A j \in 1..3 : Sixb!LookupFields[j] = "string"
  <2>1. \A j \in 1..3 : j = 1 \/ j = 2 \/ j = 3
    OBVIOUS
  <2> QED
    BY <2>1 DEF Sixb!LookupFields
<1> QED
  BY <1>2, <1>3, <1>4, <1>5, <1>6

LEMMA KindIs ==
  ASSUME NEW n \in Nat, NEW i \in Nat \ {0}
  PROVE  /\ KindAt(n, i) \in Kind
         /\ KindAt(n, i) = "rows" <=> i = 5
         /\ KindAt(n, i) = "lookups" <=> i = 6 + 5 * n
         /\ i <= 5 => KindAt(n, i) = Sixb!Header[i]
<1>1. CASE i <= 5
  <2>1. i = 1 \/ i = 2 \/ i = 3 \/ i = 4 \/ i = 5
    BY <1>1
  <2>2. KindAt(n, i) = Sixb!Header[i]
    BY <1>1 DEF KindAt
  <2>3. Sixb!Header[i] \in Kind /\ (Sixb!Header[i] = "rows" <=> i = 5) /\ Sixb!Header[i] # "lookups"
    BY <2>1 DEF Sixb!Header, Kind
  <2> QED
    BY <1>1, <2>2, <2>3
<1>2. CASE i \in 6..(5 + 5 * n)
  <2>1. PICK y \in Nat : y = i - 6
    BY <1>2
  <2>2. y % 5 \in 0..(5 - 1)
    BY QuotientRemainder
  <2>3. PICK j \in 1..5 : j = (y % 5) + 1
    BY <2>2
  <2>4. KindAt(n, i) = Sixb!RowFields[j]
    BY <1>2, <2>1, <2>3 DEF KindAt
  <2>5. KindAt(n, i) \in {"string", "u64", "u32"}
    BY <2>4, RowKinds
  <2> QED
    BY <1>2, <2>5 DEF Kind
<1>3. CASE i = 6 + 5 * n
  BY <1>3 DEF KindAt, Kind
<1>4. CASE i > 6 + 5 * n
  <2>1. KindAt(n, i) = "string"
    BY <1>4 DEF KindAt
  <2> QED
    BY <1>4, <2>1 DEF Kind
<1>5. i <= 5 \/ i \in 6..(5 + 5 * n) \/ i = 6 + 5 * n \/ i > 6 + 5 * n
  OBVIOUS
<1> QED
  BY <1>1, <1>2, <1>3, <1>4, <1>5

LEMMA TimesRows ==
  ASSUME NEW n \in Nat
  PROVE  /\ Sixb!Times(n, Sixb!RowFields) \in Seq(Kind)
         /\ Len(Sixb!Times(n, Sixb!RowFields)) = 5 * n
         /\ \A x \in 1..(5 * n) : Sixb!Times(n, Sixb!RowFields)[x] = KindAt(n, 5 + x)
<1>1. PICK t : t = Sixb!Times(n, Sixb!RowFields)
  OBVIOUS
<1>2. /\ t \in Seq(Kind) /\ Len(t) = 5 * n
      /\ \A i \in 1..n : \A j \in 1..5 : t[5 * (i - 1) + j] = Sixb!RowFields[j]
  <2>1. PICK w \in Nat : w = 5
    OBVIOUS
  <2>2. Sixb!RowFields \in Seq(Kind) /\ HasLength(Sixb!RowFields, w)
    BY <2>1, RowKinds DEF HasLength
  <2>3. /\ t \in Seq(Kind) /\ Len(t) = w * n
        /\ \A i \in 1..n : \A j \in 1..w : t[w * (i - 1) + j] = Sixb!RowFields[j]
    BY <1>1, <2>2, TimesIs, ZenonT(60)
  <2> QED
    BY <2>1, <2>3
<1>3. ASSUME NEW x \in 1..(5 * n)
      PROVE  t[x] = KindAt(n, 5 + x)
  <2>1. PICK y \in Nat : y = x - 1
    OBVIOUS
  <2>2. y \div 5 \in Nat /\ y % 5 \in 0..(5 - 1) /\ y = 5 * (y \div 5) + (y % 5)
    BY QuotientRemainder
  <2>3. PICK q \in Nat, r \in 0..4 : y = 5 * q + r
    BY <2>2
  <2>4. PICK i, j : i = q + 1 /\ j = r + 1
    OBVIOUS
  <2>5. /\ i \in 1..n /\ j \in 1..5 /\ 5 + x = 5 * i + j /\ 5 * (i - 1) + j = x
    BY <2>1, <2>3, <2>4
  <2>6. KindAt(n, 5 * i + j) = Sixb!RowFields[j]
    BY <2>5, RowAt
  <2> QED
    BY <1>2, <2>5, <2>6
<1> QED
  BY <1>1, <1>2, <1>3

LEMMA TimesLookups ==
  ASSUME NEW n \in Nat
  PROVE  /\ Sixb!Times(n, Sixb!LookupFields) \in Seq(Kind)
         /\ Len(Sixb!Times(n, Sixb!LookupFields)) = 3 * n
         /\ \A x \in 1..(3 * n) : Sixb!Times(n, Sixb!LookupFields)[x] = "string"
<1>1. PICK t : t = Sixb!Times(n, Sixb!LookupFields)
  OBVIOUS
<1>2. /\ t \in Seq(Kind) /\ Len(t) = 3 * n
      /\ \A i \in 1..n : \A j \in 1..3 : t[3 * (i - 1) + j] = Sixb!LookupFields[j]
  <2>1. PICK w \in Nat : w = 3
    OBVIOUS
  <2>2. Sixb!LookupFields \in Seq(Kind) /\ HasLength(Sixb!LookupFields, w)
    BY <2>1, RowKinds DEF HasLength
  <2>3. /\ t \in Seq(Kind) /\ Len(t) = w * n
        /\ \A i \in 1..n : \A j \in 1..w : t[w * (i - 1) + j] = Sixb!LookupFields[j]
    BY <1>1, <2>2, TimesIs
  <2> QED
    BY <2>1, <2>3
<1>3. ASSUME NEW x \in 1..(3 * n)
      PROVE  t[x] = "string"
  <2>1. PICK y \in Nat : y = x - 1
    OBVIOUS
  <2>2. y \div 3 \in Nat /\ y % 3 \in 0..(3 - 1) /\ y = 3 * (y \div 3) + (y % 3)
    BY QuotientRemainder
  <2>3. PICK q \in Nat, r \in 0..2 : y = 3 * q + r
    BY <2>2
  <2>4. PICK i, j : i = q + 1 /\ j = r + 1
    OBVIOUS
  <2>5. /\ i \in 1..n /\ j \in 1..3 /\ 3 * (i - 1) + j = x
    BY <2>1, <2>3, <2>4
  <2>6. t[3 * (i - 1) + j] = Sixb!LookupFields[j]
    BY <1>2, <2>5
  <2>7. Sixb!LookupFields[j] = "string"
    BY <2>5, RowKinds
  <2> QED
    BY <2>5, <2>6, <2>7
<1> QED
  BY <1>1, <1>2, <1>3

RowCount(fs) == IF Len(fs) >= 5 THEN fs[5] ELSE 0

Total(fs) ==
  IF Len(fs) < 5 THEN 5
  ELSE IF Len(fs) < 6 + 5 * RowCount(fs) THEN 6 + 5 * RowCount(fs)
  ELSE Fields(RowCount(fs), fs[6 + 5 * RowCount(fs)])

(* The fields fs are read, and the fields td are to be read behind them. *)
Planned(fs, td) ==
  /\ IsSequence(fs) /\ td \in Seq(Kind)
  /\ RowCount(fs) \in Nat /\ Total(fs) \in Nat
  /\ Len(fs) >= 6 + 5 * RowCount(fs) => fs[6 + 5 * RowCount(fs)] \in Nat
  /\ Len(fs) <= Total(fs) /\ Len(td) = Total(fs) - Len(fs)
  /\ \A i \in 1..Len(td) : td[i] = KindAt(RowCount(fs), Len(fs) + i)

LEMMA HeadIs ==
  ASSUME NEW fs, NEW td, Planned(fs, td), td # <<>>
  PROVE  /\ Len(fs) \in Nat /\ Len(fs) + 1 <= Total(fs)
         /\ Head(td) = KindAt(RowCount(fs), Len(fs) + 1) /\ Head(td) \in Kind
         /\ Head(td) = "rows" <=> Len(fs) = 4
         /\ Head(td) = "lookups" <=> Len(fs) = 5 + 5 * RowCount(fs)
<1>1. td \in Seq(Kind) /\ IsSequence(fs) /\ RowCount(fs) \in Nat
  BY DEF Planned
<1>2. PICK k \in Nat : k = Len(fs)
  BY <1>1, SeqFacts
<1>3. PICK n \in Nat : n = RowCount(fs)
  BY <1>1
<1>4. Len(td) \in Nat /\ Len(td) # 0 /\ Head(td) = td[1]
  BY <1>1
<1>5. 1 \in 1..Len(td)
  BY <1>4
<1>6. Head(td) = KindAt(n, k + 1)
  BY <1>2, <1>3, <1>4, <1>5 DEF Planned
<1>7. k + 1 <= Total(fs)
  BY <1>2, <1>4 DEF Planned
<1>8. PICK i \in Nat \ {0} : i = k + 1
  OBVIOUS
<1>9. /\ KindAt(n, i) \in Kind
      /\ KindAt(n, i) = "rows" <=> i = 5
      /\ KindAt(n, i) = "lookups" <=> i = 6 + 5 * n
  BY KindIs
<1>10. /\ KindAt(n, k + 1) \in Kind
       /\ KindAt(n, k + 1) = "rows" <=> k = 4
       /\ KindAt(n, k + 1) = "lookups" <=> k = 5 + 5 * n
  <2>1. (i = 5 <=> k = 4) /\ (i = 6 + 5 * n <=> k = 5 + 5 * n)
    BY <1>8
  <2> QED
    BY <1>8, <1>9, <2>1
<1> QED
  BY <1>2, <1>3, <1>6, <1>7, <1>10

(* A field that is no count changes nothing of what is to be read. *)
LEMMA PlannedField ==
  ASSUME NEW fs, NEW td, Planned(fs, td), td # <<>>, Head(td) \notin {"rows", "lookups"}, NEW v
  PROVE  /\ Planned(Append(fs, v), Tail(td))
         /\ RowCount(Append(fs, v)) = RowCount(fs) /\ Total(Append(fs, v)) = Total(fs)
<1>1. td \in Seq(Kind) /\ IsSequence(fs) /\ RowCount(fs) \in Nat /\ Total(fs) \in Nat
  BY DEF Planned
<1>2. PICK k \in Nat : k = Len(fs)
  BY <1>1, SeqFacts
<1>3. PICK n \in Nat : n = RowCount(fs)
  BY <1>1
<1>4. PICK g : g = Append(fs, v)
  OBVIOUS
<1>5. IsSequence(g) /\ Len(g) = k + 1 /\ \A i \in 1..k : g[i] = fs[i]
  BY <1>1, <1>2, <1>4, SeqFacts
<1>6. k # 4 /\ k # 5 + 5 * n /\ k + 1 <= Total(fs)
  BY <1>2, <1>3, HeadIs
<1>7. RowCount(g) = n
  <2>1. CASE k < 4
    BY <1>2, <1>3, <1>5, <2>1 DEF RowCount
  <2>2. CASE k > 4
    <3>1. 5 \in 1..k /\ k >= 5 /\ k + 1 >= 5
      BY <2>2
    <3>2. fs[5] = n
      BY <1>2, <1>3, <3>1 DEF RowCount
    <3> QED
      BY <1>5, <3>1, <3>2 DEF RowCount
  <2> QED
    BY <1>6, <2>1, <2>2
<1>8. Total(g) = Total(fs)
  <2>1. CASE k < 4
    BY <1>2, <1>5, <2>1 DEF Total
  <2>2. CASE k > 4 /\ k < 5 + 5 * n
    <3>1. ~(k < 5) /\ ~(k + 1 < 5) /\ k < 6 + 5 * n /\ k + 1 < 6 + 5 * n
      BY <2>2
    <3> QED
      BY <1>2, <1>3, <1>5, <1>7, <3>1 DEF Total
  <2>3. CASE k > 5 + 5 * n
    <3>1. /\ ~(k < 5) /\ ~(k + 1 < 5) /\ ~(k < 6 + 5 * n) /\ ~(k + 1 < 6 + 5 * n)
          /\ 6 + 5 * n \in 1..k
      BY <2>3
    <3>2. g[6 + 5 * n] = fs[6 + 5 * n]
      BY <1>5, <3>1
    <3> QED
      BY <1>2, <1>3, <1>5, <1>7, <3>1, <3>2 DEF Total
  <2> QED
    BY <1>6, <2>1, <2>2, <2>3
<1>9. PICK l \in Nat : l = Len(td)
  BY <1>1
<1>10. l # 0 /\ Tail(td) \in Seq(Kind) /\ Len(Tail(td)) = l - 1
       /\ \A i \in 1..(l - 1) : Tail(td)[i] = td[i + 1]
  BY <1>1, <1>9
<1>11. l = Total(fs) - k /\ \A i \in 1..l : td[i] = KindAt(n, k + i)
  BY <1>2, <1>3, <1>9 DEF Planned
<1>12. ASSUME NEW i \in 1..(l - 1)
       PROVE  Tail(td)[i] = KindAt(n, (k + 1) + i)
  <2>1. i + 1 \in 1..l /\ k + (i + 1) = (k + 1) + i
    BY <1>10
  <2> QED
    BY <1>10, <1>11, <2>1
<1>13. l - 1 = Total(fs) - (k + 1)
  BY <1>1, <1>11
<1>14. k + 1 >= 6 + 5 * n => g[6 + 5 * n] \in Nat
  <2>1. ASSUME k + 1 >= 6 + 5 * n
        PROVE  6 + 5 * n \in 1..k /\ k >= 6 + 5 * n
    BY <1>6, <2>1
  <2>2. k >= 6 + 5 * n => fs[6 + 5 * n] \in Nat
    BY <1>2, <1>3 DEF Planned
  <2> QED
    BY <1>5, <2>1, <2>2
<1>15. Planned(g, Tail(td))
  BY <1>1, <1>3, <1>5, <1>6, <1>7, <1>8, <1>10, <1>12, <1>13, <1>14 DEF Planned
<1> QED
  BY <1>3, <1>4, <1>7, <1>8, <1>15

(* The count of rows is followed by their fields and another count. *)
LEMMA PlannedRows ==
  ASSUME NEW fs, NEW td, Planned(fs, td), td # <<>>, Head(td) = "rows", NEW v \in Nat
  PROVE  /\ Planned(Append(fs, v), Sixb!Times(v, Sixb!RowFields) \o <<"lookups">>)
         /\ RowCount(Append(fs, v)) = v
<1>1. IsSequence(fs) /\ Len(fs) = 4
  BY HeadIs DEF Planned
<1>2. PICK g : g = Append(fs, v)
  OBVIOUS
<1>3. IsSequence(g) /\ Len(g) = 5 /\ g[5] = v
  <2>1. PICK k \in Nat : k = Len(fs) /\ k = 4
    BY <1>1
  <2>2. IsSequence(fs)
    BY <1>1
  <2>3. IsSequence(Append(fs, v)) /\ Len(Append(fs, v)) = Len(fs) + 1 /\ Append(fs, v)[Len(fs) + 1] = v
    BY <2>2, SeqFacts
  <2>4. IsSequence(g) /\ Len(g) = k + 1 /\ g[k + 1] = v
    BY <1>2, <2>1, <2>3
  <2> QED
    BY <2>1, <2>4
<1>4. RowCount(g) = v
  BY <1>3 DEF RowCount
<1>5. Total(g) = 6 + 5 * v
  <2>1. 5 < 6 + 5 * v
    OBVIOUS
  <2> QED
    BY <1>3, <1>4, <2>1 DEF Total
<1>6. PICK t : t = Sixb!Times(v, Sixb!RowFields)
  OBVIOUS
<1>7. PICK x \in Nat : x = 5 * v
  OBVIOUS
<1>8. t \in Seq(Kind) /\ Len(t) = x /\ \A i \in 1..x : t[i] = KindAt(v, 5 + i)
  BY <1>6, <1>7, TimesRows
<1>9. <<"lookups">> \in Seq(Kind) /\ Len(<<"lookups">>) = 1 /\ <<"lookups">>[1] = "lookups"
  BY DEF Kind
<1>10. PICK y : y = <<"lookups">>
  OBVIOUS
<1>11. /\ t \o y \in Seq(Kind) /\ Len(t \o y) = Len(t) + Len(y)
       /\ \A i \in 1..Len(t) : (t \o y)[i] = t[i]
       /\ \A i \in 1..Len(y) : (t \o y)[Len(t) + i] = y[i]
  <2>1. t \in Seq(Kind) /\ y \in Seq(Kind)
    BY <1>8, <1>9, <1>10
  <2> QED
    BY <2>1, Concat
<1>12. PICK td2 : td2 = t \o y
  OBVIOUS
<1>13. Len(y) = 1 /\ y[1] = "lookups"
  BY <1>9, <1>10
<1>14. /\ td2 \in Seq(Kind) /\ Len(td2) = x + 1
       /\ \A i \in 1..x : td2[i] = t[i]
       /\ td2[x + 1] = "lookups"
  BY <1>8, <1>11, <1>12, <1>13
<1>15. ASSUME NEW i \in 1..(x + 1)
       PROVE  td2[i] = KindAt(v, 5 + i)
  <2>1. CASE i \in 1..x
    BY <1>8, <1>14, <2>1
  <2>2. CASE i = x + 1
    <3>1. 5 + i = 6 + 5 * v
      BY <1>7, <2>2
    <3> QED
      BY <1>14, <2>2, <3>1, CountAt
  <2> QED
    BY <2>1, <2>2
<1>16. Planned(g, td2)
  <2>1. x + 1 = Total(g) - 5 /\ 5 <= Total(g) /\ Total(g) \in Nat /\ ~(5 >= 6 + 5 * v)
    BY <1>5, <1>7
  <2> QED
    BY <1>3, <1>4, <1>14, <1>15, <2>1 DEF Planned
<1> QED
  BY <1>2, <1>4, <1>6, <1>10, <1>12, <1>16

(* The count of lookups is followed by their fields. *)
LEMMA PlannedLookups ==
  ASSUME NEW fs, NEW td, Planned(fs, td), td # <<>>, Head(td) = "lookups", NEW v \in Nat
  PROVE  /\ Planned(Append(fs, v), Sixb!Times(v, Sixb!LookupFields))
         /\ RowCount(Append(fs, v)) = RowCount(fs)
<1>1. PICK n \in Nat : n = RowCount(fs)
  BY DEF Planned
<1>2. IsSequence(fs) /\ Len(fs) = 5 + 5 * n
  BY <1>1, HeadIs DEF Planned
<1>3. PICK g : g = Append(fs, v)
  OBVIOUS
<1>4. PICK k \in Nat : k = 5 + 5 * n
  OBVIOUS
<1>5. IsSequence(g) /\ Len(g) = k + 1 /\ g[k + 1] = v /\ \A i \in 1..k : g[i] = fs[i]
  BY <1>2, <1>3, <1>4, SeqFacts
<1>6. 5 \in 1..k /\ k >= 5 /\ k + 1 >= 5 /\ k + 1 = 6 + 5 * n
  BY <1>4
<1>7. RowCount(g) = n
  <2>1. fs[5] = n
    BY <1>1, <1>2, <1>4, <1>6 DEF RowCount
  <2> QED
    BY <1>5, <1>6, <2>1 DEF RowCount
<1>8. Total(g) = Fields(n, v)
  <2>1. ~(k + 1 < 5) /\ ~(k + 1 < 6 + 5 * n)
    BY <1>6
  <2> QED
    BY <1>5, <1>6, <1>7, <2>1 DEF Total
<1>9. PICK t : t = Sixb!Times(v, Sixb!LookupFields)
  OBVIOUS
<1>10. t \in Seq(Kind) /\ Len(t) = 3 * v /\ \A i \in 1..(3 * v) : t[i] = "string"
  BY <1>9, TimesLookups
<1>11. ASSUME NEW i \in 1..(3 * v)
       PROVE  t[i] = KindAt(n, (k + 1) + i)
  <2>1. (k + 1) + i > 6 + 5 * n
    BY <1>6
  <2>2. KindAt(n, (k + 1) + i) = "string"
    BY <2>1 DEF KindAt
  <2> QED
    BY <1>10, <2>2
<1>12. Fields(n, v) = (k + 1) + 3 * v
  BY <1>6 DEF Fields
<1>13. k + 1 <= Total(g) /\ 3 * v = Total(g) - (k + 1) /\ Total(g) \in Nat
  BY <1>8, <1>12
<1>14. Planned(g, t)
  <2>1. g[6 + 5 * n] \in Nat
    BY <1>5, <1>6
  <2> QED
    BY <1>5, <1>7, <1>10, <1>11, <1>13, <2>1 DEF Planned
<1> QED
  BY <1>1, <1>3, <1>7, <1>9, <1>14

(* At first the header is to be read. *)
LEMMA PlannedHeader == Planned(<<>>, Sixb!Header)
<1>1. IsSequence(<<>>) /\ Len(<<>>) = 0
  BY DEF IsSequence
<1>2. RowCount(<<>>) = 0 /\ Total(<<>>) = 5
  BY <1>1 DEF RowCount, Total
<1>3. ASSUME NEW i \in 1..5
      PROVE  Sixb!Header[i] = KindAt(0, 0 + i)
  BY DEF KindAt
<1>4. 0 \in Nat /\ 5 \in Nat /\ 0 <= 5 /\ 5 = 5 - 0
  OBVIOUS
<1> QED
  BY <1>1, <1>2, <1>3, <1>4, RowKinds DEF Planned

After(kd, td, v) ==
  IF kd = "rows" THEN Sixb!Times(v, Sixb!RowFields) \o <<"lookups">>
  ELSE IF kd = "lookups" THEN Sixb!Times(v, Sixb!LookupFields)
  ELSE Tail(td)

(* What was read stays of the kinds it was read as. *)
LEMMA PlannedAfter ==
  ASSUME NEW fs, NEW td, Planned(fs, td), td # <<>>, NEW v,
         Head(td) \in {"rows", "lookups"} => v \in Nat
  PROVE  /\ Planned(Append(fs, v), After(Head(td), td, v))
         /\ \A i \in 1..(Len(fs) + 1) :
              KindAt(RowCount(Append(fs, v)), i) = KindAt(RowCount(fs), i)
<1>1. CASE Head(td) \notin {"rows", "lookups"}
  <2>1. After(Head(td), td, v) = Tail(td)
    BY <1>1 DEF After
  <2> QED
    BY <1>1, <2>1, PlannedField
<1>2. CASE Head(td) = "rows"
  <2>1. After(Head(td), td, v) = Sixb!Times(v, Sixb!RowFields) \o <<"lookups">>
    BY <1>2 DEF After
  <2>2. v \in Nat
    BY <1>2
  <2>3. Planned(Append(fs, v), After(Head(td), td, v)) /\ RowCount(Append(fs, v)) = v
    BY <1>2, <2>1, <2>2, PlannedRows
  <2>4. Len(fs) = 4 /\ RowCount(fs) \in Nat
    BY <1>2, HeadIs DEF Planned
  <2>5. ASSUME NEW i \in 1..(Len(fs) + 1)
        PROVE  KindAt(v, i) = KindAt(RowCount(fs), i)
    <3>1. i \in Nat \ {0} /\ i <= 5
      BY <2>4
    <3>2. KindAt(v, i) = Sixb!Header[i]
      BY <2>2, <3>1, KindIs
    <3>3. KindAt(RowCount(fs), i) = Sixb!Header[i]
      BY <2>4, <3>1, KindIs
    <3> QED
      BY <3>2, <3>3
  <2> QED
    BY <2>3, <2>5
<1>3. CASE Head(td) = "lookups"
  <2>1. After(Head(td), td, v) = Sixb!Times(v, Sixb!LookupFields)
    BY <1>3 DEF After
  <2>2. v \in Nat
    BY <1>3
  <2> QED
    BY <1>3, <2>1, <2>2, PlannedLookups
<1> QED
  BY <1>1, <1>2, <1>3

(* From x to y the bytes are those of the value v, if v can be written.    *)
Codes(b, kd, v, x, y) ==
  Legal(kd, v) => /\ y = x + Len(Coded(kd, v))
                  /\ \A j \in 1..Len(Coded(kd, v)) : b[x + j] = Coded(kd, v)[j]

Places(b, fs, p, c) ==
  /\ c[0] = 5 /\ c[Len(fs)] = p
  /\ \A i \in 0..Len(fs) : c[i] \in 0..Len(b)
  /\ \A i \in 1..Len(fs) : Codes(b, KindAt(RowCount(fs), i), fs[i], c[i - 1], c[i])

(* The fields fs are in the bytes of b behind the magic and up to p.       *)
Placed(b, fs, p) == p \in 0..Len(b) /\ \E c : Places(b, fs, p, c)

LEMMA PlacedNone ==
  ASSUME NEW b \in Seq(Byte), 5 <= Len(b)
  PROVE  Placed(b, <<>>, 5)
<1>1. PICK z \in Nat : z = Len(b)
  OBVIOUS
<1>2. PICK c : c = [i \in 0..0 |-> 5]
  OBVIOUS
<1>3. c[0] = 5 /\ 5 \in 0..Len(b)
  BY <1>1, <1>2
<1>4. Len(<<>>) = 0
  OBVIOUS
<1>5. Places(b, <<>>, 5, c)
  BY <1>3, <1>4 DEF Places
<1> QED
  BY <1>3, <1>5 DEF Placed

LEMMA PlacedAfter ==
  ASSUME NEW b \in Seq(Byte), NEW fs, IsSequence(fs), NEW p, Placed(b, fs, p),
         NEW kd, kd = KindAt(RowCount(fs), Len(fs) + 1), CanRead(kd, b, p),
         NEW v, v = ValueRead(kd, b, p),
         \A i \in 1..(Len(fs) + 1) :
           KindAt(RowCount(Append(fs, v)), i) = KindAt(RowCount(fs), i)
  PROVE  Placed(b, Append(fs, v), p + SizeRead(kd, b, p))
<1>1. PICK k \in Nat : k = Len(fs)
  BY SeqFacts
<1>2. PICK c : Places(b, fs, p, c)
  BY DEF Placed
<1>3. p \in Nat
  <2>1. Len(b) \in Nat
    OBVIOUS
  <2> QED
    BY <2>1 DEF Placed
<1>4. PICK w \in Nat : w = SizeRead(kd, b, p)
  BY <1>3, ReadIs
<1>5. /\ p + w \in 0..Len(b)
      /\ Legal(kd, v) => Len(Coded(kd, v)) = w /\ \A j \in 1..w : b[p + j] = Coded(kd, v)[j]
  <2>1. p + w <= Len(b) /\ Len(b) \in Nat
    BY <1>3, <1>4, ReadIs
  <2>2. Legal(kd, v) => Len(Coded(kd, v)) = w /\ \A j \in 1..w : b[p + j] = Coded(kd, v)[j]
    BY <1>3, <1>4, ReadIs
  <2> QED
    BY <1>3, <2>1, <2>2
<1>6. Codes(b, kd, v, p, p + w)
  BY <1>5 DEF Codes
<1>7. PICK g : g = Append(fs, v)
  OBVIOUS
<1>8. Len(g) = k + 1 /\ g[k + 1] = v /\ \A i \in 1..k : g[i] = fs[i]
  BY <1>1, <1>7, SeqFacts
<1>9. PICK d : d = [i \in 0..(k + 1) |-> IF i = k + 1 THEN p + w ELSE c[i]]
  OBVIOUS
<1>10. d[k + 1] = p + w /\ \A i \in 0..k : d[i] = c[i]
  BY <1>9
<1>11. /\ c[0] = 5 /\ c[k] = p
       /\ \A i \in 0..k : c[i] \in 0..Len(b)
       /\ \A i \in 1..k : Codes(b, KindAt(RowCount(fs), i), fs[i], c[i - 1], c[i])
  BY <1>1, <1>2 DEF Places
<1>12. d[0] = 5
  BY <1>10, <1>11
<1>13. \A i \in 0..(k + 1) : d[i] \in 0..Len(b)
  <2> TAKE i \in 0..(k + 1)
  <2>1. i = k + 1 \/ i \in 0..k
    OBVIOUS
  <2> QED
    BY <1>5, <1>10, <1>11, <2>1
<1>14. ASSUME NEW i \in 1..(k + 1)
       PROVE  Codes(b, KindAt(RowCount(g), i), g[i], d[i - 1], d[i])
  <2>1. KindAt(RowCount(g), i) = KindAt(RowCount(fs), i)
    BY <1>1, <1>7
  <2>2. CASE i = k + 1
    <3>1. i - 1 = k /\ k \in 0..k
      BY <2>2
    <3>2. d[i - 1] = p /\ d[i] = p + w /\ g[i] = v
      BY <1>8, <1>10, <1>11, <2>2, <3>1
    <3>3. KindAt(RowCount(fs), i) = kd
      BY <1>1, <2>2
    <3> QED
      BY <1>6, <2>1, <3>2, <3>3
  <2>3. CASE i \in 1..k
    <3>1. i \in 0..k /\ i - 1 \in 0..k
      BY <2>3
    <3>2. d[i - 1] = c[i - 1] /\ d[i] = c[i] /\ g[i] = fs[i]
      BY <1>8, <1>10, <2>3, <3>1
    <3> QED
      BY <1>11, <2>1, <2>3, <3>2
  <2> QED
    BY <2>2, <2>3
<1>15. Places(b, g, p + w, d)
  BY <1>8, <1>10, <1>12, <1>13, <1>14 DEF Places
<1> QED
  BY <1>4, <1>5, <1>7, <1>15 DEF Placed

-----------------------------------------------------------------------------
(* What was written is read.                                               *)

LEMMA LegalAt ==
  ASSUME NEW cache \in Cached, NEW n \in Nat, NEW m \in Nat, Counts(cache, n, m),
         NEW i \in 1..Fields(n, m)
  PROVE  Legal(KindAt(n, i), ValueAt(cache, i))
<1>1. /\ cache.table \in CachedText /\ cache.schema \in CachedText /\ cache.source \in CachedText
      /\ n \in Small /\ m \in Small
      /\ \A j \in 1..n : cache.rows[j] \in CachedRow
      /\ \A j \in 1..m : cache.lookups[j] \in CachedLookup
  BY CachedType DEF Counts
<1>2. 2 \in Small
  BY SmallIs, LargeIs
<1>3. CASE i \in 1..5
  <2>1. i = 1 \/ i = 2 \/ i = 3 \/ i = 4 \/ i = 5
    BY <1>3
  <2>2. ValueAt(cache, 5) = n
    BY HeaderAt DEF Counts
  <2>3. Legal("u32", 2) /\ Legal("rows", n) /\ \A v \in CachedText : Legal("string", v)
    BY <1>1, <1>2 DEF Legal
  <2> QED
    BY <1>1, <2>1, <2>2, <2>3, HeaderAt
<1>4. CASE i = 6 + 5 * n
  <2>1. KindAt(n, i) = "lookups" /\ ValueAt(cache, i) = m
    BY <1>4, CountAt
  <2> QED
    BY <1>1, <2>1 DEF Legal
<1>5. ASSUME NEW x \in 1..n, NEW j \in 1..5, i = 5 * x + j
      PROVE  Legal(KindAt(n, i), ValueAt(cache, i))
  <2>1. PICK r : r = cache.rows[x] /\ r \in CachedRow
    BY <1>1
  <2>2. KindAt(n, i) = Sixb!RowFields[j] /\ ValueAt(cache, i) = RowValues(r)[j]
    BY <1>5, <2>1, RowAt
  <2>3. /\ r.id \in CachedText /\ r.chunk \in CachedText
        /\ r.offset \in Small /\ r.len \in Small /\ r.tx \in Small
    BY <2>1, RowType
  <2>4. j = 1 \/ j = 2 \/ j = 3 \/ j = 4 \/ j = 5
    OBVIOUS
  <2>5. Legal(Sixb!RowFields[j], RowValues(r)[j])
    BY <2>3, <2>4 DEF Legal, Sixb!RowFields, RowValues
  <2> QED
    BY <2>2, <2>5
<1>6. ASSUME NEW x \in 1..m, NEW j \in 1..3, i = Before(n, x) + j
      PROVE  Legal(KindAt(n, i), ValueAt(cache, i))
  <2>1. PICK l : l = cache.lookups[x] /\ l \in CachedLookup
    BY <1>1
  <2>2. KindAt(n, i) = "string" /\ ValueAt(cache, i) = LookupValues(l)[j]
    BY <1>6, <2>1, LookupAt
  <2>3. l.field \in CachedText /\ l.key \in CachedText /\ l.id \in CachedText
    BY <2>1, LookupType
  <2>4. j = 1 \/ j = 2 \/ j = 3
    OBVIOUS
  <2>5. LookupValues(l)[j] \in CachedText
    BY <2>3, <2>4 DEF LookupValues
  <2> QED
    BY <2>2, <2>5 DEF Legal
<1>7. \/ i \in 1..5 \/ i = 6 + 5 * n
      \/ \E x \in 1..n : \E j \in 1..5 : i = 5 * x + j
      \/ \E x \in 1..m : \E j \in 1..3 : i = Before(n, x) + j
  BY FieldsSplit
<1>8. CASE \E x \in 1..n : \E j \in 1..5 : i = 5 * x + j
  BY <1>5, <1>8
<1>9. CASE \E x \in 1..m : \E j \in 1..3 : i = Before(n, x) + j
  BY <1>6, <1>9
<1> QED
  BY <1>3, <1>4, <1>7, <1>8, <1>9

LEMMA LegalCoded ==
  ASSUME NEW kd, NEW v, Legal(kd, v)
  PROVE  Coded(kd, v) \in Seq(Byte) /\ Len(Coded(kd, v)) \in Nat /\ Len(Coded(kd, v)) >= 4
<1>1. CASE kd = "string"
  <2>1. v \in CachedText /\ Coded(kd, v) = Sixb!Str(v)
    BY <1>1 DEF Legal, Coded
  <2>2. PICK l \in Nat : l = Len(v)
    BY <2>1, StringBytes, SmallIs
  <2>3. Sixb!Str(v) \in Seq(Byte) /\ Len(Sixb!Str(v)) = 4 + l
    BY <2>1, <2>2, StringBytes
  <2> QED
    BY <2>1, <2>3
<1>2. CASE kd # "string"
  <2>1. PICK w \in {4, 8} : w = WidthOf(kd)
    BY WidthIs
  <2>2. v \in Small /\ Coded(kd, v) = Wide(w, v) /\ Len(Coded(kd, v)) = w
    BY <1>2, <2>1, NumberCoded
  <2>3. Wide(w, v) \in Seq(Byte)
    BY <2>2, WideIs
  <2> QED
    BY <2>2, <2>3
<1> QED
  BY <1>1, <1>2

LEMMA FieldsIs ==
  ASSUME NEW n \in Nat, NEW m \in Nat
  PROVE  /\ Fields(n, m) \in Nat /\ 6 + 5 * n <= Fields(n, m) /\ 5 <= Fields(n, m)
         /\ n <= Fields(n, m) /\ m <= Fields(n, m)
BY DEF Fields

(* The fields of the cache o, n rows and m lookups, are at d in its bytes. *)
Written(o, n, m, d) ==
  /\ o \in Cached /\ n \in Nat /\ m \in Nat /\ Counts(o, n, m)
  /\ Pieced(Sixb!Encode(o), PieceAt(o), d, -1, Fields(n, m))

LEMMA WrittenIs ==
  ASSUME NEW o, NEW n, NEW m, NEW d, Written(o, n, m, d)
  PROVE  /\ Sixb!Encode(o) \in Seq(Byte) /\ d[0] = 5 /\ d[Fields(n, m)] = Len(Sixb!Encode(o))
         /\ \A i \in 0..Fields(n, m) : d[i] \in 0..Len(Sixb!Encode(o)) /\ i <= d[i]
         /\ \A j \in 1..5 : Sixb!Encode(o)[j] = Sixb!Magic[j]
         /\ \A i \in 1..Fields(n, m) : Codes(Sixb!Encode(o), KindAt(n, i), ValueAt(o, i), d[i - 1], d[i])
<1>1. o \in Cached /\ n \in Nat /\ m \in Nat /\ Counts(o, n, m)
  BY DEF Written
<1>2. PICK z : z = Sixb!Encode(o)
  OBVIOUS
<1>3. z \in Seq(Byte)
  BY <1>1, <1>2, EncodeMade
<1>4. PICK F \in Nat : F = Fields(n, m)
  BY <1>1, FieldsIs
<1>5. PICK a \in Int : a = -1
  OBVIOUS
<1>6. PICK e : e = PieceAt(o)
  OBVIOUS
<1>7. Pieced(z, e, d, a, F)
  BY <1>2, <1>4, <1>5, <1>6 DEF Written
<1>8. e[0] = Sixb!Magic /\ \A i \in 1..F : e[i] = Coded(KindAt(n, i), ValueAt(o, i))
  <2>1. DOMAIN e = 0..F /\ e = [i \in 0..F |->
          IF i = 0 THEN Sixb!Magic ELSE Coded(KindAt(n, i), ValueAt(o, i))]
    BY <1>1, <1>4, <1>6 DEF PieceAt, Counts
  <2> QED
    BY <2>1
<1>9. /\ d[a] = 0 /\ d[F] = Len(z)
      /\ \A i \in a..F : d[i] \in 0..Len(z)
      /\ \A i \in (a + 1)..F :
           /\ Len(e[i]) \in Nat /\ d[i] = d[i - 1] + Len(e[i])
           /\ \A j \in 1..Len(e[i]) : z[d[i - 1] + j] = e[i][j]
  BY <1>7 DEF Pieced
<1>10. d[0] = 5 /\ \A j \in 1..5 : z[j] = Sixb!Magic[j]
  <2>1. PICK i \in (a + 1)..F : i = 0 /\ i - 1 = a
    BY <1>5
  <2>2. d[0] = 0 + Len(e[0]) /\ \A j \in 1..Len(e[0]) : z[0 + j] = e[0][j]
    <3>1. d[i] = d[i - 1] + Len(e[i]) /\ \A j \in 1..Len(e[i]) : z[d[i - 1] + j] = e[i][j]
      BY <1>9
    <3>2. d[a] = 0
      BY <1>9
    <3> QED
      BY <2>1, <3>1, <3>2
  <2>3. Len(e[0]) = 5
    BY <1>8, MagicBytes
  <2>4. \A j \in 1..5 : 0 + j = j
    OBVIOUS
  <2> QED
    BY <1>8, <2>2, <2>3, <2>4
<1>11. ASSUME NEW i \in 1..F
       PROVE  /\ Codes(z, KindAt(n, i), ValueAt(o, i), d[i - 1], d[i])
              /\ d[i] \in Nat /\ d[i - 1] \in Nat /\ d[i - 1] + 1 <= d[i]
  <2>1. i \in (a + 1)..F /\ i \in a..F /\ i - 1 \in a..F
    BY <1>5
  <2>2. d[i] \in Nat /\ d[i - 1] \in Nat
    <3>1. Len(z) \in Nat
      BY <1>3
    <3> QED
      BY <1>9, <2>1, <3>1
  <2>3. Legal(KindAt(n, i), ValueAt(o, i))
    BY <1>1, <1>4, LegalAt
  <2>4. PICK s : s = Coded(KindAt(n, i), ValueAt(o, i)) /\ e[i] = s
    BY <1>8
  <2>5. /\ d[i] = d[i - 1] + Len(s)
        /\ \A j \in 1..Len(s) : z[d[i - 1] + j] = s[j]
    BY <1>9, <2>1, <2>4
  <2>6. Len(s) \in Nat /\ Len(s) >= 4
    BY <2>3, <2>4, LegalCoded
  <2>7. Codes(z, KindAt(n, i), ValueAt(o, i), d[i - 1], d[i])
    BY <2>4, <2>5 DEF Codes
  <2>8. d[i - 1] + 1 <= d[i]
    BY <2>2, <2>5, <2>6
  <2> QED
    BY <2>2, <2>7, <2>8
<1>12. \A i \in 0..F : i <= d[i]
  <2> DEFINE S == {i \in 0..F : i <= d[i]}
  <2>1. 0 \in S
    BY <1>10
  <2>2. ASSUME NEW i \in 0..(F - 1), i \in S
        PROVE  i + 1 \in S
    <3>1. i + 1 \in 1..F /\ (i + 1) - 1 = i /\ i + 1 \in 0..F
      OBVIOUS
    <3>2. d[i] \in Nat /\ d[i + 1] \in Nat /\ d[i] + 1 <= d[i + 1]
      BY <1>11, <3>1
    <3>3. i <= d[i]
      BY <2>2
    <3>4. i + 1 <= d[i + 1]
      BY <3>2, <3>3
    <3> QED
      BY <3>1, <3>4
  <2>3. \A i \in 0..F : i \in S
    <3> HIDE DEF S
    <3> QED
      BY <2>1, <2>2, UpTo
  <2> QED
    BY <2>3
<1>13. \A i \in 0..F : i \in a..F
  BY <1>5
<1> QED
  BY <1>2, <1>3, <1>4, <1>9, <1>10, <1>11, <1>12, <1>13

LEMMA PlanSame ==
  ASSUME NEW o \in Cached, NEW n \in Nat, NEW m \in Nat, Counts(o, n, m),
         NEW fs, NEW td, Planned(fs, td), Len(fs) <= Fields(n, m),
         \A i \in 1..Len(fs) : fs[i] = ValueAt(o, i)
  PROVE  /\ td = <<>> <=> Len(fs) = Fields(n, m)
         /\ td # <<>> => Head(td) = KindAt(n, Len(fs) + 1)
<1>1. IsSequence(fs) /\ td \in Seq(Kind) /\ RowCount(fs) \in Nat
  BY DEF Planned
<1>2. PICK k \in Nat : k = Len(fs)
  BY <1>1, SeqFacts
<1>3. ValueAt(o, 5) = n /\ ValueAt(o, 6 + 5 * n) = m
  BY HeaderAt, CountAt DEF Counts
<1>4. k >= 5 => RowCount(fs) = n
  <2>1. k >= 5 => 5 \in 1..k
    OBVIOUS
  <2>2. k >= 5 => fs[5] = n
    BY <1>2, <1>3, <2>1
  <2> QED
    BY <1>2, <2>2 DEF RowCount
<1>5. PICK F \in Nat : F = Fields(n, m) /\ 6 + 5 * n <= F /\ 5 <= F /\ k <= F
  BY <1>2, FieldsIs
<1>6. Total(fs) \in Nat /\ (Total(fs) = k <=> k = F)
  <2>1. CASE k < 5
    <3>1. Total(fs) = 5
      BY <1>2, <2>1 DEF Total
    <3> QED
      BY <1>5, <2>1, <3>1
  <2>2. CASE k >= 5 /\ k < 6 + 5 * n
    <3>1. Total(fs) = 6 + 5 * n
      <4>1. ~(k < 5) /\ RowCount(fs) = n
        BY <1>4, <2>2
      <4> QED
        BY <1>2, <2>2, <4>1 DEF Total
    <3> QED
      BY <1>5, <2>2, <3>1
  <2>3. CASE k >= 6 + 5 * n
    <3>1. ~(k < 5) /\ k >= 5 /\ ~(k < 6 + 5 * n) /\ 6 + 5 * n \in 1..k
      BY <2>3
    <3>2. fs[6 + 5 * n] = m /\ RowCount(fs) = n
      BY <1>2, <1>3, <1>4, <3>1
    <3>3. Total(fs) = Fields(n, m)
      BY <1>2, <3>1, <3>2 DEF Total
    <3> QED
      BY <1>5, <3>3
  <2> QED
    BY <2>1, <2>2, <2>3
<1>7. td = <<>> <=> k = F
  <2>1. PICK l \in Nat : l = Len(td)
    BY <1>1
  <2>2. td = <<>> <=> l = 0
    BY <1>1, <2>1
  <2>3. l = Total(fs) - k
    BY <1>2, <2>1 DEF Planned
  <2>4. l = 0 <=> Total(fs) = k
    BY <1>6, <2>3
  <2> QED
    BY <1>6, <2>2, <2>4
<1>8. ASSUME td # <<>>
      PROVE  Head(td) = KindAt(n, k + 1)
  <2>1. Head(td) = KindAt(RowCount(fs), k + 1) /\ (Head(td) = "rows" <=> k = 4)
    BY <1>2, <1>8, HeadIs
  <2>2. CASE k >= 5
    BY <1>4, <2>1, <2>2
  <2>3. CASE k < 5
    <3>1. PICK i \in Nat \ {0} : i = k + 1
      OBVIOUS
    <3>2. i <= 5
      BY <2>3, <3>1
    <3>3. KindAt(n, i) = Sixb!Header[i]
      BY <3>2, KindIs
    <3>4. KindAt(RowCount(fs), i) = Sixb!Header[i]
      BY <1>1, <3>2, KindIs
    <3> QED
      BY <2>1, <3>1, <3>3, <3>4
  <2> QED
    BY <2>2, <2>3
<1> QED
  BY <1>2, <1>5, <1>7, <1>8

(* What was read, fs up to p, is what was written. *)
Alike(o, n, m, d, fs, p) ==
  /\ Written(o, n, m, d)
  /\ Len(fs) <= Fields(n, m) /\ p = d[Len(fs)]
  /\ \A i \in 1..Len(fs) : fs[i] = ValueAt(o, i)

(* As far as they go, the bytes b are those that were written. *)
Agree(b, o) == \A i \in 1..Len(Sixb!Encode(o)) : i <= Len(b) => b[i] = Sixb!Encode(o)[i]

LEMMA AlikeStep ==
  ASSUME NEW o, NEW n, NEW m, NEW d, NEW fs, NEW td, NEW p, NEW b \in Seq(Byte),
         Alike(o, n, m, d, fs, p), Agree(b, o), Planned(fs, td), td # <<>>
  PROVE  /\ CanRead(Head(td), b, p) =>
              Alike(o, n, m, d, Append(fs, ValueRead(Head(td), b, p)), p + SizeRead(Head(td), b, p))
         /\ Len(Sixb!Encode(o)) <= Len(b) =>
              /\ CanRead(Head(td), b, p)
              /\ Head(td) \in {"rows", "lookups"} => ValueRead(Head(td), b, p) <= Len(b)
<1>1. Written(o, n, m, d) /\ o \in Cached /\ n \in Nat /\ m \in Nat /\ Counts(o, n, m)
  BY DEF Alike, Written
<1>2. PICK z : z = Sixb!Encode(o)
  OBVIOUS
<1>3. PICK F \in Nat : F = Fields(n, m)
  BY <1>1, FieldsIs
<1>4. /\ z \in Seq(Byte) /\ d[F] = Len(z)
      /\ \A i \in 0..F : d[i] \in 0..Len(z) /\ i <= d[i]
      /\ \A i \in 1..F : Codes(z, KindAt(n, i), ValueAt(o, i), d[i - 1], d[i])
  BY <1>1, <1>2, <1>3, WrittenIs
<1>5. IsSequence(fs)
  BY DEF Planned
<1>6. PICK k \in Nat : k = Len(fs)
  BY <1>5, SeqFacts
<1>7. k <= F /\ p = d[k] /\ \A i \in 1..k : fs[i] = ValueAt(o, i)
  BY <1>3, <1>6 DEF Alike
<1>8. k # F /\ Head(td) = KindAt(n, k + 1)
  BY <1>1, <1>3, <1>6, <1>7, PlanSame
<1>9. k + 1 \in 1..F /\ (k + 1) - 1 = k /\ k \in 0..F /\ k + 1 \in 0..F
  BY <1>7, <1>8
<1>10. PICK kd, u : kd = Head(td) /\ u = ValueAt(o, k + 1)
  OBVIOUS
<1>11. Legal(kd, u)
  BY <1>1, <1>3, <1>8, <1>9, <1>10, LegalAt
<1>12. PICK s : s = Coded(kd, u)
  OBVIOUS
<1>13. PICK l \in Nat : l = Len(s)
  BY <1>11, <1>12, LegalCoded
<1>14. Codes(z, kd, u, p, d[k + 1])
  BY <1>4, <1>7, <1>8, <1>9, <1>10
<1>15. PICK y \in Nat : y = Len(z)
  BY <1>4
<1>16. p \in Nat /\ d[k + 1] = p + l /\ p + l <= y /\ \A j \in 1..l : z[p + j] = s[j]
  <2>1. p \in 0..y /\ d[k + 1] \in 0..y
    BY <1>4, <1>7, <1>9, <1>15
  <2>2. d[k + 1] = p + l /\ \A j \in 1..l : z[p + j] = s[j]
    BY <1>11, <1>12, <1>13, <1>14 DEF Codes
  <2> QED
    BY <2>1, <2>2
<1>17. PICK h \in Nat : h = Len(b)
  OBVIOUS
<1>18. ASSUME NEW j \in 1..l, p + j <= h
       PROVE  b[p + j] = s[j]
  <2>1. p + j \in 1..y
    BY <1>16
  <2>2. b[p + j] = z[p + j]
    BY <1>2, <1>15, <1>17, <1>18, <2>1 DEF Agree
  <2> QED
    BY <1>16, <2>2
<1>19. /\ CanRead(kd, b, p) => ValueRead(kd, b, p) = u /\ SizeRead(kd, b, p) = l
       /\ p + l <= h => CanRead(kd, b, p)
  <2>1. \A j \in 1..Len(Coded(kd, u)) : p + j <= Len(b) => b[p + j] = Coded(kd, u)[j]
    BY <1>12, <1>13, <1>17, <1>18
  <2>2. /\ CanRead(kd, b, p) => /\ ValueRead(kd, b, p) = u
                                /\ SizeRead(kd, b, p) = Len(Coded(kd, u))
        /\ p + Len(Coded(kd, u)) <= Len(b) => CanRead(kd, b, p)
    BY <1>11, <1>16, <2>1, ReadBack
  <2> QED
    BY <1>12, <1>13, <1>17, <2>2
<1>20. ASSUME CanRead(kd, b, p)
       PROVE  Alike(o, n, m, d, Append(fs, ValueRead(kd, b, p)), p + SizeRead(kd, b, p))
  <2>1. PICK g : g = Append(fs, u)
    OBVIOUS
  <2>2. Len(g) = k + 1 /\ g[k + 1] = u /\ \A i \in 1..k : g[i] = fs[i]
    BY <1>5, <1>6, <2>1, SeqFacts
  <2>3. \A i \in 1..(k + 1) : g[i] = ValueAt(o, i)
    <3>1. \A i \in 1..(k + 1) : i \in 1..k \/ i = k + 1
      OBVIOUS
    <3> QED
      BY <1>7, <1>10, <2>2, <3>1
  <2>4. k + 1 <= F
    BY <1>9
  <2>5. Alike(o, n, m, d, g, p + l)
    BY <1>1, <1>3, <1>16, <2>2, <2>3, <2>4 DEF Alike
  <2>6. ValueRead(kd, b, p) = u /\ SizeRead(kd, b, p) = l
    BY <1>19, <1>20
  <2> QED
    BY <2>1, <2>5, <2>6
<1>21. ASSUME y <= h
       PROVE  CanRead(kd, b, p) /\ (kd \in {"rows", "lookups"} => ValueRead(kd, b, p) <= h)
  <2>1. p + l <= h
    BY <1>16, <1>21
  <2>2. CanRead(kd, b, p) /\ ValueRead(kd, b, p) = u
    BY <1>19, <2>1
  <2>3. F <= y
    <3>1. F \in 0..F
      OBVIOUS
    <3> QED
      BY <1>4, <1>15, <3>1
  <2>4. n <= F /\ m <= F
    BY <1>1, <1>3, FieldsIs
  <2>5. ASSUME kd \in {"rows", "lookups"}
        PROVE  u = n \/ u = m
    <3>1. PICK i \in Nat \ {0} : i = k + 1
      OBVIOUS
    <3>2. (KindAt(n, i) = "rows" <=> i = 5) /\ (KindAt(n, i) = "lookups" <=> i = 6 + 5 * n)
      BY <1>1, KindIs
    <3>3. k + 1 = 5 \/ k + 1 = 6 + 5 * n
      BY <1>8, <1>10, <2>5, <3>1, <3>2
    <3>4. ValueAt(o, 5) = n /\ ValueAt(o, 6 + 5 * n) = m
      BY <1>1, HeaderAt, CountAt DEF Counts
    <3> QED
      BY <1>10, <3>3, <3>4
  <2> QED
    BY <1>1, <1>21, <2>2, <2>3, <2>4, <2>5
<1> QED
  BY <1>2, <1>10, <1>15, <1>17, <1>20, <1>21

-----------------------------------------------------------------------------
(* What the fields that were read make is the cache they are fields of.    *)

LEMMA SameBounds ==
  ASSUME NEW a \in Nat, NEW b \in Nat, 1..a = 1..b
  PROVE  a = b
<1>1. a \in 1..a => a \in 1..b
  OBVIOUS
<1>2. b \in 1..b => b \in 1..a
  OBVIOUS
<1>3. CASE a = 0
  BY <1>2, <1>3
<1>4. CASE a # 0
  BY <1>1, <1>2, <1>4
<1> QED
  BY <1>3, <1>4

DecodedRow(i) ==
  [id |-> fields[5 * i + 1], chunk |-> fields[5 * i + 2], offset |-> fields[5 * i + 3],
   len |-> fields[5 * i + 4], tx |-> fields[5 * i + 5]]

DecodedLookup(n, i) ==
  [field |-> fields[Before(n, i) + 1], key |-> fields[Before(n, i) + 2],
   id |-> fields[Before(n, i) + 3]]

FieldCounts(n, m) == n = fields[5] /\ m = fields[6 + 5 * n]

LEMMA DecodedIs ==
  ASSUME NEW n \in Nat, NEW m \in Nat, FieldCounts(n, m)
  PROVE  Sixb!Decoded =
           [table |-> fields[2], schema |-> fields[3], source |-> fields[4],
            rows |-> [i \in 1..n |-> DecodedRow(i)],
            lookups |-> [i \in 1..m |-> DecodedLookup(n, i)]]
<1>1. ASSUME NEW i \in 1..n
      PROVE  [id |-> fields[5 + 5 * (i - 1) + 1], chunk |-> fields[5 + 5 * (i - 1) + 2],
              offset |-> fields[5 + 5 * (i - 1) + 3], len |-> fields[5 + 5 * (i - 1) + 4],
              tx |-> fields[5 + 5 * (i - 1) + 5]] = DecodedRow(i)
  <2>1. \A j \in 1..5 : 5 + 5 * (i - 1) + j = 5 * i + j
    OBVIOUS
  <2>2. /\ 5 + 5 * (i - 1) + 1 = 5 * i + 1 /\ 5 + 5 * (i - 1) + 2 = 5 * i + 2
        /\ 5 + 5 * (i - 1) + 3 = 5 * i + 3 /\ 5 + 5 * (i - 1) + 4 = 5 * i + 4
        /\ 5 + 5 * (i - 1) + 5 = 5 * i + 5
    OBVIOUS
  <2> QED
    BY <2>2 DEF DecodedRow
<1>2. ASSUME NEW i \in 1..m
      PROVE  [field |-> fields[6 + 5 * n + 3 * (i - 1) + 1],
              key |-> fields[6 + 5 * n + 3 * (i - 1) + 2],
              id |-> fields[6 + 5 * n + 3 * (i - 1) + 3]] = DecodedLookup(n, i)
  <2>1. /\ 6 + 5 * n + 3 * (i - 1) + 1 = Before(n, i) + 1
        /\ 6 + 5 * n + 3 * (i - 1) + 2 = Before(n, i) + 2
        /\ 6 + 5 * n + 3 * (i - 1) + 3 = Before(n, i) + 3
    BY DEF Before
  <2> QED
    BY <2>1 DEF DecodedLookup
<1>3. Sixb!Decoded =
        [table |-> fields[2], schema |-> fields[3], source |-> fields[4],
         rows |-> [i \in 1..n |->
           [id |-> fields[5 + 5 * (i - 1) + 1], chunk |-> fields[5 + 5 * (i - 1) + 2],
            offset |-> fields[5 + 5 * (i - 1) + 3], len |-> fields[5 + 5 * (i - 1) + 4],
            tx |-> fields[5 + 5 * (i - 1) + 5]]],
         lookups |-> [i \in 1..m |->
           [field |-> fields[6 + 5 * n + 3 * (i - 1) + 1],
            key |-> fields[6 + 5 * n + 3 * (i - 1) + 2],
            id |-> fields[6 + 5 * n + 3 * (i - 1) + 3]]]]
  BY DEF Sixb!Decoded, FieldCounts
<1>4. [i \in 1..n |->
           [id |-> fields[5 + 5 * (i - 1) + 1], chunk |-> fields[5 + 5 * (i - 1) + 2],
            offset |-> fields[5 + 5 * (i - 1) + 3], len |-> fields[5 + 5 * (i - 1) + 4],
            tx |-> fields[5 + 5 * (i - 1) + 5]]] = [i \in 1..n |-> DecodedRow(i)]
  BY <1>1
<1>5. [i \in 1..m |->
           [field |-> fields[6 + 5 * n + 3 * (i - 1) + 1],
            key |-> fields[6 + 5 * n + 3 * (i - 1) + 2],
            id |-> fields[6 + 5 * n + 3 * (i - 1) + 3]]] = [i \in 1..m |-> DecodedLookup(n, i)]
  BY <1>2
<1> QED
  BY <1>3, <1>4, <1>5

LEMMA Records ==
  /\ \A r \in CachedRow :
       r = [id |-> r.id, chunk |-> r.chunk, offset |-> r.offset, len |-> r.len, tx |-> r.tx]
  /\ \A l \in CachedLookup : l = [field |-> l.field, key |-> l.key, id |-> l.id]
  /\ \A o \in Cached : o = [table |-> o.table, schema |-> o.schema, source |-> o.source,
                            rows |-> o.rows, lookups |-> o.lookups]
<1>1. \A r \in CachedRow :
        r = [id |-> r.id, chunk |-> r.chunk, offset |-> r.offset, len |-> r.len, tx |-> r.tx]
  BY DEF CachedRow
<1>2. \A l \in CachedLookup : l = [field |-> l.field, key |-> l.key, id |-> l.id]
  BY DEF CachedLookup
<1>3. \A o \in Cached : o = [table |-> o.table, schema |-> o.schema, source |-> o.source,
                             rows |-> o.rows, lookups |-> o.lookups]
  BY DEF Cached
<1> QED
  BY <1>1, <1>2, <1>3

LEMMA CachedSeqs ==
  ASSUME NEW o \in Cached, NEW n \in Nat, NEW m \in Nat, Counts(o, n, m)
  PROVE  /\ o.rows = [i \in 1..n |-> o.rows[i]] /\ o.lookups = [i \in 1..m |-> o.lookups[i]]
         /\ \A i \in 1..n : o.rows[i] \in CachedRow
         /\ \A i \in 1..m : o.lookups[i] \in CachedLookup
<1>1. PICK s, t : s = o.rows /\ t = o.lookups
  OBVIOUS
<1>2. s \in Seq(CachedRow) /\ t \in Seq(CachedLookup)
  <2>1. s \in CachedRows /\ t \in CachedLookups
    BY <1>1 DEF Cached
  <2> QED
    BY <2>1 DEF CachedRows, CachedLookups
<1>3. Len(s) = n /\ Len(t) = m
  BY <1>1 DEF Counts
<1>4. s = [i \in 1..n |-> s[i]] /\ t = [i \in 1..m |-> t[i]]
  BY <1>2, <1>3
<1> QED
  BY <1>1, <1>4, <1>3, CachedType DEF Counts

LEMMA FieldsOf ==
  ASSUME NEW n \in Nat, NEW m \in Nat
  PROVE  /\ 1 \in 1..Fields(n, m) /\ 2 \in 1..Fields(n, m) /\ 3 \in 1..Fields(n, m)
         /\ 4 \in 1..Fields(n, m) /\ 5 \in 1..Fields(n, m) /\ 6 + 5 * n \in 1..Fields(n, m)
         /\ \A i \in 1..n : \A j \in 1..5 : 5 * i + j \in 1..Fields(n, m)
         /\ \A i \in 1..m : \A j \in 1..3 : Before(n, i) + j \in 1..Fields(n, m)
<1>1. PICK F \in Nat : F = 6 + 5 * n + 3 * m
  OBVIOUS
<1>2. Fields(n, m) = F
  BY <1>1 DEF Fields
<1>3. ASSUME NEW i \in 1..n, NEW j \in 1..5
      PROVE  5 * i + j \in 1..F
  BY <1>1
<1>4. ASSUME NEW i \in 1..m, NEW j \in 1..3
      PROVE  Before(n, i) + j \in 1..F
  BY <1>1 DEF Before
<1>5. /\ 1 \in 1..F /\ 2 \in 1..F /\ 3 \in 1..F /\ 4 \in 1..F /\ 5 \in 1..F
      /\ 6 + 5 * n \in 1..F
  BY <1>1
<1> QED
  BY <1>2, <1>3, <1>4, <1>5

(* Fields with the values of a cache are decoded as the cache. *)
LEMMA ValuesDecoded ==
  ASSUME NEW o \in Cached, NEW n \in Nat, NEW m \in Nat, Counts(o, n, m),
         \A i \in 1..Fields(n, m) : fields[i] = ValueAt(o, i)
  PROVE  Sixb!Decoded = o /\ fields[1] = Sixb!Version
<1>1. /\ fields[1] = 2 /\ fields[2] = o.table /\ fields[3] = o.schema /\ fields[4] = o.source
      /\ fields[5] = n /\ fields[6 + 5 * n] = m
  <2>1. /\ fields[1] = ValueAt(o, 1) /\ fields[2] = ValueAt(o, 2) /\ fields[3] = ValueAt(o, 3)
        /\ fields[4] = ValueAt(o, 4) /\ fields[5] = ValueAt(o, 5)
        /\ fields[6 + 5 * n] = ValueAt(o, 6 + 5 * n)
    BY FieldsOf
  <2>2. ValueAt(o, 5) = n /\ ValueAt(o, 6 + 5 * n) = m
    BY HeaderAt, CountAt DEF Counts
  <2> QED
    BY <2>1, <2>2, HeaderAt
<1>2. ASSUME NEW i \in 1..n
      PROVE  DecodedRow(i) = o.rows[i]
  <2>1. PICK r : r = o.rows[i] /\ r \in CachedRow
    BY CachedSeqs
  <2>2. \A j \in 1..5 : fields[5 * i + j] = RowValues(r)[j]
    <3> TAKE j \in 1..5
    <3>1. ValueAt(o, 5 * i + j) = RowValues(r)[j]
      BY <2>1, RowAt, ZenonT(60)
    <3>2. 5 * i + j \in 1..Fields(n, m)
      BY FieldsOf
    <3> QED
      BY <3>1, <3>2
  <2>3. 1 \in 1..5 /\ 2 \in 1..5 /\ 3 \in 1..5 /\ 4 \in 1..5 /\ 5 \in 1..5
    OBVIOUS
  <2>4. /\ RowValues(r)[1] = r.id /\ RowValues(r)[2] = r.chunk /\ RowValues(r)[3] = r.offset
        /\ RowValues(r)[4] = r.len /\ RowValues(r)[5] = r.tx
    BY DEF RowValues
  <2>5. /\ fields[5 * i + 1] = r.id /\ fields[5 * i + 2] = r.chunk
        /\ fields[5 * i + 3] = r.offset /\ fields[5 * i + 4] = r.len /\ fields[5 * i + 5] = r.tx
    BY <2>2, <2>3, <2>4
  <2>6. DecodedRow(i) =
          [id |-> r.id, chunk |-> r.chunk, offset |-> r.offset, len |-> r.len, tx |-> r.tx]
    BY <2>5 DEF DecodedRow
  <2> QED
    BY <2>1, <2>6, Records
<1>3. ASSUME NEW i \in 1..m
      PROVE  DecodedLookup(n, i) = o.lookups[i]
  <2>1. PICK l : l = o.lookups[i] /\ l \in CachedLookup
    BY CachedSeqs
  <2>2. \A j \in 1..3 : fields[Before(n, i) + j] = LookupValues(l)[j]
    <3> TAKE j \in 1..3
    <3>1. ValueAt(o, Before(n, i) + j) = LookupValues(l)[j]
      BY <2>1, LookupAt
    <3>2. Before(n, i) + j \in 1..Fields(n, m)
      BY FieldsOf
    <3> QED
      BY <3>1, <3>2
  <2>3. 1 \in 1..3 /\ 2 \in 1..3 /\ 3 \in 1..3
    OBVIOUS
  <2>4. LookupValues(l)[1] = l.field /\ LookupValues(l)[2] = l.key /\ LookupValues(l)[3] = l.id
    BY DEF LookupValues
  <2>5. /\ fields[Before(n, i) + 1] = l.field /\ fields[Before(n, i) + 2] = l.key
        /\ fields[Before(n, i) + 3] = l.id
    BY <2>2, <2>3, <2>4
  <2>6. DecodedLookup(n, i) = [field |-> l.field, key |-> l.key, id |-> l.id]
    BY <2>5 DEF DecodedLookup
  <2> QED
    BY <2>1, <2>6, Records
<1>4. [i \in 1..n |-> DecodedRow(i)] = o.rows
  <2>1. [i \in 1..n |-> DecodedRow(i)] = [i \in 1..n |-> o.rows[i]]
    BY <1>2
  <2> QED
    BY <2>1, CachedSeqs
<1>5. [i \in 1..m |-> DecodedLookup(n, i)] = o.lookups
  <2>1. [i \in 1..m |-> DecodedLookup(n, i)] = [i \in 1..m |-> o.lookups[i]]
    BY <1>3
  <2> QED
    BY <2>1, CachedSeqs
<1>6. FieldCounts(n, m)
  BY <1>1 DEF FieldCounts
<1>7. Sixb!Decoded =
        [table |-> fields[2], schema |-> fields[3], source |-> fields[4],
         rows |-> [i \in 1..n |-> DecodedRow(i)],
         lookups |-> [i \in 1..m |-> DecodedLookup(n, i)]]
  BY <1>6, DecodedIs
<1>8. Sixb!Decoded = [table |-> o.table, schema |-> o.schema, source |-> o.source,
                      rows |-> o.rows, lookups |-> o.lookups]
  BY <1>1, <1>4, <1>5, <1>7
<1> QED
  BY <1>1, <1>8, Records DEF Sixb!Version

(* Fields that are decoded as a cache have its values. *)
LEMMA DecodedValues ==
  ASSUME NEW o \in Cached, NEW n \in Nat, NEW m \in Nat, FieldCounts(n, m),
         Sixb!Decoded = o, fields[1] = Sixb!Version
  PROVE  /\ Counts(o, n, m)
         /\ \A i \in 1..Fields(n, m) : fields[i] = ValueAt(o, i)
<1>1. o = [table |-> fields[2], schema |-> fields[3], source |-> fields[4],
           rows |-> [i \in 1..n |-> DecodedRow(i)],
           lookups |-> [i \in 1..m |-> DecodedLookup(n, i)]]
  BY DecodedIs
<1>2. /\ o.table = fields[2] /\ o.schema = fields[3] /\ o.source = fields[4]
      /\ o.rows = [i \in 1..n |-> DecodedRow(i)]
      /\ o.lookups = [i \in 1..m |-> DecodedLookup(n, i)]
  BY <1>1
<1>3. Counts(o, n, m)
  <2>1. PICK a \in Nat, b \in Nat : Counts(o, a, b)
    BY CachedType DEF Counts
  <2>2. o.rows = [i \in 1..a |-> o.rows[i]] /\ o.lookups = [i \in 1..b |-> o.lookups[i]]
    BY <2>1, CachedSeqs
  <2>3. DOMAIN o.rows = 1..a /\ DOMAIN o.lookups = 1..b
    BY <2>2
  <2>4. DOMAIN o.rows = 1..n /\ DOMAIN o.lookups = 1..m
    BY <1>2
  <2>5. a = n /\ b = m
    BY <2>3, <2>4, SameBounds
  <2> QED
    BY <2>1, <2>5
<1>4. ASSUME NEW i \in 1..n, NEW j \in 1..5
      PROVE  fields[5 * i + j] = ValueAt(o, 5 * i + j)
  <2>1. PICK r : r = o.rows[i]
    OBVIOUS
  <2>2. ValueAt(o, 5 * i + j) = RowValues(r)[j]
    BY <1>3, <2>1, RowAt
  <2>3. r = DecodedRow(i)
    BY <1>2, <2>1
  <2>4. /\ r.id = fields[5 * i + 1] /\ r.chunk = fields[5 * i + 2]
        /\ r.offset = fields[5 * i + 3] /\ r.len = fields[5 * i + 4] /\ r.tx = fields[5 * i + 5]
    BY <2>3 DEF DecodedRow
  <2>5. /\ RowValues(r)[1] = r.id /\ RowValues(r)[2] = r.chunk /\ RowValues(r)[3] = r.offset
        /\ RowValues(r)[4] = r.len /\ RowValues(r)[5] = r.tx
    BY DEF RowValues
  <2>6. j = 1 \/ j = 2 \/ j = 3 \/ j = 4 \/ j = 5
    OBVIOUS
  <2> QED
    BY <2>2, <2>4, <2>5, <2>6
<1>5. ASSUME NEW i \in 1..m, NEW j \in 1..3
      PROVE  fields[Before(n, i) + j] = ValueAt(o, Before(n, i) + j)
  <2>1. PICK l : l = o.lookups[i]
    OBVIOUS
  <2>2. ValueAt(o, Before(n, i) + j) = LookupValues(l)[j]
    BY <1>3, <2>1, LookupAt
  <2>3. l = DecodedLookup(n, i)
    BY <1>2, <2>1
  <2>4. /\ l.field = fields[Before(n, i) + 1] /\ l.key = fields[Before(n, i) + 2]
        /\ l.id = fields[Before(n, i) + 3]
    BY <2>3 DEF DecodedLookup
  <2>5. LookupValues(l)[1] = l.field /\ LookupValues(l)[2] = l.key /\ LookupValues(l)[3] = l.id
    BY DEF LookupValues
  <2>6. j = 1 \/ j = 2 \/ j = 3
    OBVIOUS
  <2> QED
    BY <2>2, <2>4, <2>5, <2>6
<1>6. ASSUME NEW i \in 1..5
      PROVE  fields[i] = ValueAt(o, i)
  <2>1. i = 1 \/ i = 2 \/ i = 3 \/ i = 4 \/ i = 5
    OBVIOUS
  <2>2. fields[1] = 2 /\ fields[5] = n
    BY DEF Sixb!Version, FieldCounts
  <2>3. ValueAt(o, 5) = n
    BY <1>3, HeaderAt DEF Counts
  <2>4. /\ ValueAt(o, 1) = 2 /\ ValueAt(o, 2) = o.table /\ ValueAt(o, 3) = o.schema
        /\ ValueAt(o, 4) = o.source
    BY HeaderAt
  <2> QED
    BY <1>2, <2>1, <2>2, <2>3, <2>4
<1>7. fields[6 + 5 * n] = ValueAt(o, 6 + 5 * n)
  <2>1. ValueAt(o, 6 + 5 * n) = m
    BY <1>3, CountAt
  <2> QED
    BY <2>1 DEF FieldCounts
<1>8. ASSUME NEW i \in 1..Fields(n, m)
      PROVE  fields[i] = ValueAt(o, i)
  <2>1. \/ i \in 1..5 \/ i = 6 + 5 * n
        \/ \E x \in 1..n : \E j \in 1..5 : i = 5 * x + j
        \/ \E x \in 1..m : \E j \in 1..3 : i = Before(n, x) + j
    BY FieldsSplit
  <2>2. CASE \E x \in 1..n : \E j \in 1..5 : i = 5 * x + j
    BY <1>4, <2>2
  <2>3. CASE \E x \in 1..m : \E j \in 1..3 : i = Before(n, x) + j
    BY <1>5, <2>3
  <2> QED
    BY <1>6, <1>7, <2>1, <2>2, <2>3
<1> QED
  BY <1>3, <1>8

-----------------------------------------------------------------------------
(* What happened to the file b of the cache o.                             *)
Changed(o, how, b) ==
  /\ b \in Seq(Byte) /\ how \in {"none", "cut", "longer", "byte"}
  /\ how # "byte" => Agree(b, o)
  /\ how = "none" => b = Sixb!Encode(o)
  /\ how = "cut" => Len(b) < Len(Sixb!Encode(o))
  /\ how = "longer" => Len(b) > Len(Sixb!Encode(o))

LEMMA ChangedIs ==
  ASSUME NEW o \in Cached, NEW x \in Sixb!Changes(Sixb!Encode(o))
  PROVE  Changed(o, x[1], x[2])
<1>1. PICK z : z = Sixb!Encode(o)
  OBVIOUS
<1>2. z \in Seq(Byte)
  <2>1. PICK n \in Nat, m \in Nat : Counts(o, n, m)
    BY CachedType DEF Counts
  <2> QED
    BY <1>1, <2>1, EncodeMade
<1>3. PICK l \in Nat : l = Len(z)
  BY <1>2
<1>4. /\ 0 \in Byte /\ 1 \in Byte /\ 2 \in Byte /\ 97 \in Byte /\ 200 \in Byte
  BY DEF Byte
<1>5. CASE x = <<"none", z>>
  <2>1. x[1] = "none" /\ x[2] = z
    BY <1>5
  <2> QED
    BY <1>1, <1>2, <2>1 DEF Changed, Agree
<1>6. ASSUME NEW n \in 0..(Len(z) - 1), x = <<"cut", SubSeq(z, 1, n)>>
      PROVE  Changed(o, x[1], x[2])
  <2>1. PICK b : b = SubSeq(z, 1, n)
    OBVIOUS
  <2>2. x[1] = "cut" /\ x[2] = b
    BY <1>6, <2>1
  <2>3. b \in Seq(Byte) /\ Len(b) = n /\ \A i \in 1..n : b[i] = z[i]
    BY <1>2, <2>1
  <2>4. n < l /\ n \in Nat
    BY <1>3
  <2>5. Agree(b, o)
    BY <1>1, <2>3, <2>4 DEF Agree
  <2> QED
    BY <1>1, <1>3, <2>2, <2>3, <2>4, <2>5 DEF Changed
<1>7. ASSUME NEW v \in {0, 1}, x = <<"longer", Append(z, v)>>
      PROVE  Changed(o, x[1], x[2])
  <2>1. PICK b : b = Append(z, v)
    OBVIOUS
  <2>2. x[1] = "longer" /\ x[2] = b
    BY <1>7, <2>1
  <2>3. v \in Byte
    BY <1>4
  <2>4. b \in Seq(Byte) /\ Len(b) = l + 1 /\ \A i \in 1..l : b[i] = z[i]
    BY <1>2, <1>3, <2>1, <2>3, AppendProperties
  <2>5. Agree(b, o)
    BY <1>1, <1>3, <2>4 DEF Agree
  <2>6. Len(b) > Len(z)
    BY <1>3, <2>4
  <2> QED
    BY <1>1, <2>2, <2>4, <2>5, <2>6 DEF Changed
<1>8. ASSUME NEW i \in DOMAIN z, NEW v \in {0, 1, 2, 97, 200}, x = <<"byte", [z EXCEPT ![i] = v]>>
      PROVE  Changed(o, x[1], x[2])
  <2>1. x[1] = "byte" /\ x[2] = [z EXCEPT ![i] = v]
    BY <1>8
  <2>2. v \in Byte
    BY <1>4
  <2>3. [z EXCEPT ![i] = v] \in Seq(Byte)
    BY <1>2, <2>2
  <2> QED
    BY <2>1, <2>3 DEF Changed
<1> QED
  BY <1>1, <1>5, <1>6, <1>7, <1>8 DEF Sixb!Changes

SixbInv ==
  /\ original \in Cached /\ Changed(original, change, bytes)
  /\ outcome \in {"none", "text", "cache", "error"}
  /\ outcome # "text" =>
       /\ Sixb!StartsWithMagic
       /\ Planned(fields, todo) /\ Placed(bytes, fields, at)
       /\ change # "byte" => \E n, m, d : Alike(original, n, m, d, fields, at)
  /\ outcome = "cache" => todo = <<>> /\ at = Len(bytes)
  /\ change = "none" => outcome \in {"none", "cache"}
  /\ change \in {"cut", "longer"} => outcome # "cache"

(* Every cache has its fields somewhere in its bytes. *)
LEMMA WrittenExists ==
  ASSUME NEW o \in Cached
  PROVE  \E n, m, d : Written(o, n, m, d)
<1>1. PICK n \in Nat, m \in Nat : Counts(o, n, m)
  BY CachedType DEF Counts
<1>2. Made(Sixb!Encode(o), PieceAt(o), -1, Fields(n, m))
  BY <1>1, EncodeMade
<1>3. PICK d : Pieced(Sixb!Encode(o), PieceAt(o), d, -1, Fields(n, m))
  BY <1>2 DEF Made
<1>4. Written(o, n, m, d)
  BY <1>1, <1>3 DEF Written
<1> QED
  BY <1>4

LEMMA FirstBytes ==
  ASSUME NEW b \in Seq(Byte), 5 <= Len(b)
  PROVE  SubSeq(b, 1, 5) = Sixb!Magic <=> \A j \in 1..5 : b[j] = Sixb!Magic[j]
<1>1. PICK l \in Nat : l = Len(b)
  OBVIOUS
<1>2. PICK f \in 0..l : f = 5
  BY <1>1
<1>3. PICK s : s = SubSeq(b, 1, f)
  OBVIOUS
<1>4. s \in Seq(Byte) /\ Len(s) = f /\ \A j \in 1..f : s[j] = b[j]
  BY <1>1, <1>3
<1>5. PICK t : t = Sixb!Magic
  OBVIOUS
<1>6. t \in Seq(Byte) /\ Len(t) = f
  BY <1>2, <1>5, MagicBytes
<1>7. s = [j \in 1..f |-> s[j]] /\ t = [j \in 1..f |-> t[j]]
  BY <1>4, <1>6
<1>8. s = t <=> \A j \in 1..f : b[j] = t[j]
  BY <1>4, <1>7
<1> QED
  BY <1>2, <1>3, <1>5, <1>8

LEMMA SixbInit == Sixb!Init => SixbInv
<1> SUFFICES ASSUME Sixb!Init PROVE SixbInv
  OBVIOUS
<1>1. original \in Cached
  BY CachesAssumption DEF Sixb!Init
<1>2. PICK x \in Sixb!Changes(Sixb!Encode(original)) : change = x[1] /\ bytes = x[2]
  BY DEF Sixb!Init
<1>3. Changed(original, change, bytes)
  BY <1>1, <1>2, ChangedIs
<1>4. at = 5 /\ fields = <<>> /\ todo = Sixb!Header
  BY DEF Sixb!Init
<1>5. outcome = IF Sixb!StartsWithMagic THEN "none" ELSE "text"
  BY DEF Sixb!Init
<1>6. PICK b : b = bytes
  OBVIOUS
<1>7. b \in Seq(Byte)
  BY <1>3, <1>6 DEF Changed
<1>8. PICK n, m, d : Written(original, n, m, d)
  BY <1>1, WrittenExists
<1>9. Alike(original, n, m, d, fields, at)
  <2>1. d[0] = 5
    BY <1>8, WrittenIs
  <2>2. n \in Nat /\ m \in Nat
    BY <1>8 DEF Written
  <2>3. 0 <= Fields(n, m)
    BY <2>2, FieldsIs
  <2>4. Len(<<>>) = 0
    OBVIOUS
  <2> QED
    BY <1>4, <1>8, <2>1, <2>3, <2>4 DEF Alike
<1>10. ASSUME Sixb!StartsWithMagic
       PROVE  Planned(fields, todo) /\ Placed(bytes, fields, at)
  <2>1. Len(b) >= 5
    BY <1>6, <1>10 DEF Sixb!StartsWithMagic
  <2>2. Placed(b, <<>>, 5)
    <3>1. 5 <= Len(b)
      BY <1>7, <2>1
    <3> QED
      BY <1>7, <3>1, PlacedNone
  <2> QED
    BY <1>4, <1>6, <2>2, PlannedHeader
<1>11. change = "none" => Sixb!StartsWithMagic
  <2>1. SUFFICES ASSUME change = "none" PROVE Sixb!StartsWithMagic
    OBVIOUS
  <2>2. b = Sixb!Encode(original)
    BY <1>3, <1>6, <2>1 DEF Changed
  <2>3. \A j \in 1..5 : b[j] = Sixb!Magic[j]
    BY <1>8, <2>2, WrittenIs
  <2>4. 5 <= Len(b)
    <3>1. n \in Nat /\ m \in Nat
      BY <1>8 DEF Written
    <3>2. 0 \in 0..Fields(n, m)
      BY <3>1, FieldsIs
    <3>3. d[0] = 5 /\ d[0] \in 0..Len(b)
      BY <1>8, <2>2, <3>2, WrittenIs
    <3> QED
      BY <1>7, <3>3
  <2>5. SubSeq(b, 1, 5) = Sixb!Magic
    BY <1>7, <2>3, <2>4, FirstBytes
  <2> QED
    BY <1>6, <1>7, <2>4, <2>5 DEF Sixb!StartsWithMagic
<1> QED
  BY <1>1, <1>3, <1>5, <1>9, <1>10, <1>11 DEF SixbInv

-----------------------------------------------------------------------------
(* The steps of the decoder.                                               *)

SixbReads ==
  /\ todo # <<>> /\ CanRead(Head(todo), bytes, at)
  /\ at' = at + SizeRead(Head(todo), bytes, at)
  /\ fields' = Append(fields, ValueRead(Head(todo), bytes, at))
  /\ todo' = After(Head(todo), todo, ValueRead(Head(todo), bytes, at))
  /\ outcome' = "none"

SixbFails ==
  /\ todo # <<>>
  /\ CanRead(Head(todo), bytes, at) =>
       Head(todo) \in {"rows", "lookups"} /\ ValueRead(Head(todo), bytes, at) > Len(bytes)
  /\ outcome' = "error" /\ UNCHANGED <<at, fields, todo>>

SixbEnds ==
  /\ todo = <<>> /\ outcome' = (IF at = Len(bytes) THEN "cache" ELSE "error")
  /\ UNCHANGED <<at, fields, todo>>

LEMMA ReadableIs ==
  ASSUME Head(todo) \in Kind
  PROVE  Sixb!Readable <=> CanRead(Head(todo), bytes, at)
<1>1. PICK kd : kd = Head(todo)
  OBVIOUS
<1>2. \A w : Sixb!Number(w) = NumberAt(bytes, at, w) /\ (Sixb!Fits(w) <=> at + w <= Len(bytes))
  BY DEF Sixb!Number, NumberAt, Sixb!Fits
<1>3. CASE kd = "string"
  <2>1. Sixb!Readable <=>
          /\ Sixb!Fits(4) /\ Sixb!Fits(4 + Sixb!Number(4))
          /\ \A i \in (at + 5)..(at + 4 + Sixb!Number(4)) : bytes[i] < 128
    BY <1>1, <1>3 DEF Sixb!Readable
  <2> QED
    BY <1>1, <1>2, <1>3, <2>1 DEF CanRead
<1>4. CASE kd = "u64"
  <2>1. Sixb!Readable <=> Sixb!Fits(8)
    BY <1>1, <1>4 DEF Sixb!Readable
  <2> QED
    BY <1>1, <1>2, <1>4, <2>1 DEF CanRead, WidthOf
<1>5. CASE kd \notin {"string", "u64"}
  <2>1. Sixb!Readable <=> Sixb!Fits(4)
    BY <1>1, <1>5 DEF Sixb!Readable
  <2> QED
    BY <1>1, <1>2, <1>5, <2>1 DEF CanRead, WidthOf
<1> QED
  BY <1>3, <1>4, <1>5

LEMMA DecodeIs ==
  ASSUME bytes \in Seq(Byte), at \in Nat, Planned(fields, todo), Sixb!Decode
  PROVE  /\ UNCHANGED <<original, change, bytes>> /\ outcome = "none"
         /\ SixbReads \/ SixbFails \/ SixbEnds
<1>1. outcome = "none"
  BY DEF Sixb!Decode
<1>2. todo # <<>> => Head(todo) \in Kind
  BY HeadIs
<1>3. todo # <<>> => (Sixb!Readable <=> CanRead(Head(todo), bytes, at))
  BY <1>2, ReadableIs
<1>4. \A w : Sixb!Number(w) = NumberAt(bytes, at, w)
  BY DEF Sixb!Number, NumberAt
<1>5. CASE todo # <<>> /\ Sixb!ReadNumber
  <2>1. PICK kd : kd = Head(todo)
    OBVIOUS
  <2>2. kd \in {"u32", "u64"} /\ CanRead(kd, bytes, at) /\ todo' = Tail(todo)
    BY <1>3, <1>5, <2>1 DEF Sixb!ReadNumber
  <2>3. PICK w : w = WidthOf(kd)
    OBVIOUS
  <2>4. w = IF kd = "u32" THEN 4 ELSE 8
    BY <2>2, <2>3 DEF WidthOf
  <2>5. Sixb!Got(w, Sixb!Number(w))
    BY <1>5, <2>1, <2>4 DEF Sixb!ReadNumber
  <2>6. ValueRead(kd, bytes, at) = Sixb!Number(w) /\ SizeRead(kd, bytes, at) = w
    BY <1>4, <2>2, <2>3 DEF ValueRead, SizeRead
  <2>7. After(kd, todo, ValueRead(kd, bytes, at)) = Tail(todo)
    BY <2>2 DEF After
  <2> QED
    BY <1>1, <1>5, <2>1, <2>2, <2>5, <2>6, <2>7 DEF Sixb!Got, SixbReads
<1>6. CASE todo # <<>> /\ Sixb!ReadString
  <2>1. PICK kd : kd = Head(todo)
    OBVIOUS
  <2>2. kd = "string" /\ CanRead(kd, bytes, at) /\ todo' = Tail(todo)
    BY <1>3, <1>6, <2>1 DEF Sixb!ReadString
  <2>3. Sixb!Got(4 + Sixb!Number(4), SubSeq(bytes, at + 5, at + 4 + Sixb!Number(4)))
    BY <1>6 DEF Sixb!ReadString
  <2>4. /\ ValueRead(kd, bytes, at) = SubSeq(bytes, at + 5, at + 4 + Sixb!Number(4))
        /\ SizeRead(kd, bytes, at) = 4 + Sixb!Number(4)
    BY <1>4, <2>2 DEF ValueRead, SizeRead, TextAt
  <2>5. After(kd, todo, ValueRead(kd, bytes, at)) = Tail(todo)
    BY <2>2 DEF After
  <2> QED
    BY <1>1, <1>6, <2>1, <2>2, <2>3, <2>4, <2>5 DEF Sixb!Got, SixbReads
<1>7. CASE todo # <<>> /\ Sixb!ReadCount
  <2>1. PICK kd : kd = Head(todo)
    OBVIOUS
  <2>2. kd \in {"rows", "lookups"} /\ CanRead(kd, bytes, at)
    BY <1>3, <1>7, <2>1 DEF Sixb!ReadCount
  <2>3. PICK v : v = Sixb!Number(4)
    OBVIOUS
  <2>4. ValueRead(kd, bytes, at) = v /\ SizeRead(kd, bytes, at) = 4
    BY <1>4, <2>2, <2>3 DEF ValueRead, SizeRead, WidthOf
  <2>5. CASE v > Len(bytes)
    <3>1. Sixb!Done("error")
      BY <1>7, <2>3, <2>5 DEF Sixb!ReadCount
    <3> QED
      BY <1>1, <1>7, <2>1, <2>2, <2>4, <2>5, <3>1 DEF Sixb!Done, SixbFails
  <2>6. CASE ~(v > Len(bytes))
    <3>1. /\ Sixb!Got(4, v)
          /\ todo' = IF kd = "rows" THEN Sixb!Times(v, Sixb!RowFields) \o <<"lookups">>
                     ELSE Sixb!Times(v, Sixb!LookupFields)
      BY <1>7, <2>1, <2>3, <2>6 DEF Sixb!ReadCount
    <3>2. todo' = After(kd, todo, v)
      BY <2>2, <3>1 DEF After
    <3> QED
      BY <1>1, <1>7, <2>1, <2>2, <2>4, <3>1, <3>2 DEF Sixb!Got, SixbReads
  <2> QED
    BY <2>5, <2>6
<1>8. CASE todo # <<>> /\ ~Sixb!Readable /\ Sixb!Done("error")
  BY <1>1, <1>3, <1>8 DEF Sixb!Done, SixbFails
<1>9. CASE todo = <<>> /\ Sixb!End
  BY <1>1, <1>9 DEF Sixb!End, Sixb!Done, SixbEnds
<1> QED
  BY <1>5, <1>6, <1>7, <1>8, <1>9 DEF Sixb!Decode

LEMMA MagicSame == bytes' = bytes => (Sixb!StartsWithMagic' <=> Sixb!StartsWithMagic)
BY DEF Sixb!StartsWithMagic

LEMMA SixbSame ==
  SixbInv /\ UNCHANGED <<original, change, bytes, at, fields, todo, outcome>> => SixbInv'
<1> SUFFICES ASSUME SixbInv, UNCHANGED <<original, change, bytes, at, fields, todo, outcome>>
             PROVE  SixbInv'
  OBVIOUS
<1>1. Sixb!StartsWithMagic' <=> Sixb!StartsWithMagic
  BY MagicSame
<1> QED
  BY <1>1 DEF SixbInv

(* What is read of a changed file is what was written of it, as far as its  *)
(* bytes are those that were written.                                      *)
LEMMA ReadsStep ==
  ASSUME SixbInv, outcome = "none", SixbReads, UNCHANGED <<original, change, bytes>>
  PROVE  SixbInv'
<1>1. /\ original \in Cached /\ Changed(original, change, bytes) /\ Sixb!StartsWithMagic
      /\ Planned(fields, todo) /\ Placed(bytes, fields, at)
      /\ change # "byte" => \E n, m, d : Alike(original, n, m, d, fields, at)
  BY DEF SixbInv
<1>2. PICK kd, v : kd = Head(todo) /\ v = ValueRead(kd, bytes, at)
  OBVIOUS
<1>3. /\ todo # <<>> /\ CanRead(kd, bytes, at) /\ at' = at + SizeRead(kd, bytes, at)
      /\ fields' = Append(fields, v) /\ todo' = After(kd, todo, v) /\ outcome' = "none"
  BY <1>2 DEF SixbReads
<1>4. bytes \in Seq(Byte) /\ at \in Nat
  BY <1>1 DEF Changed, Placed
<1>5. kd # "string" => v \in Nat
  BY <1>2, <1>3, <1>4, ReadIs
<1>6. /\ Planned(fields', todo')
      /\ \A i \in 1..(Len(fields) + 1) :
           KindAt(RowCount(Append(fields, v)), i) = KindAt(RowCount(fields), i)
  BY <1>1, <1>2, <1>3, <1>5, PlannedAfter
<1>7. Placed(bytes, fields', at')
  <2>1. kd = KindAt(RowCount(fields), Len(fields) + 1)
    BY <1>1, <1>2, <1>3, HeadIs
  <2>2. IsSequence(fields)
    BY <1>1 DEF Planned
  <2> QED
    BY <1>1, <1>2, <1>3, <1>4, <1>6, <2>1, <2>2, PlacedAfter
<1>8. change # "byte" => \E n, m, d : Alike(original, n, m, d, fields', at')
  <2>1. SUFFICES ASSUME change # "byte"
                 PROVE  \E n, m, d : Alike(original, n, m, d, fields', at')
    OBVIOUS
  <2>2. PICK n, m, d : Alike(original, n, m, d, fields, at)
    BY <1>1, <2>1
  <2>3. Agree(bytes, original)
    BY <1>1, <2>1 DEF Changed
  <2>4. Alike(original, n, m, d, Append(fields, v), at + SizeRead(kd, bytes, at))
    BY <1>1, <1>2, <1>3, <1>4, <2>2, <2>3, AlikeStep
  <2> QED
    BY <1>3, <2>4
<1>9. Sixb!StartsWithMagic'
  BY <1>1, MagicSame
<1> QED
  BY <1>1, <1>3, <1>6, <1>7, <1>8, <1>9 DEF SixbInv

(* A file as it was written does not fail.                                 *)
LEMMA FailsStep ==
  ASSUME SixbInv, outcome = "none", SixbFails, UNCHANGED <<original, change, bytes>>
  PROVE  SixbInv'
<1>1. /\ original \in Cached /\ Changed(original, change, bytes) /\ Sixb!StartsWithMagic
      /\ Planned(fields, todo) /\ Placed(bytes, fields, at)
      /\ change # "byte" => \E n, m, d : Alike(original, n, m, d, fields, at)
  BY DEF SixbInv
<1>2. /\ todo # <<>> /\ outcome' = "error" /\ UNCHANGED <<at, fields, todo>>
      /\ CanRead(Head(todo), bytes, at) =>
           Head(todo) \in {"rows", "lookups"} /\ ValueRead(Head(todo), bytes, at) > Len(bytes)
  BY DEF SixbFails
<1>3. bytes \in Seq(Byte)
  BY <1>1 DEF Changed
<1>4. change # "none"
  <2>1. SUFFICES ASSUME change = "none" PROVE FALSE
    OBVIOUS
  <2>2. PICK n, m, d : Alike(original, n, m, d, fields, at)
    BY <1>1, <2>1
  <2>3. Agree(bytes, original) /\ bytes = Sixb!Encode(original)
    BY <1>1, <2>1 DEF Changed
  <2>4. PICK l : l = Len(bytes)
    OBVIOUS
  <2>5. l \in Nat /\ Len(Sixb!Encode(original)) <= Len(bytes)
    BY <1>3, <2>3, <2>4
  <2>6. PICK kd, v : kd = Head(todo) /\ v = ValueRead(kd, bytes, at)
    OBVIOUS
  <2>7. CanRead(kd, bytes, at) /\ (kd \in {"rows", "lookups"} => v <= l)
    BY <1>1, <1>2, <1>3, <2>2, <2>3, <2>4, <2>5, <2>6, AlikeStep
  <2>8. kd \in {"rows", "lookups"} /\ v > l
    BY <1>2, <2>4, <2>6, <2>7
  <2>9. v \in Nat
    <3>1. at \in Nat /\ kd # "string"
      BY <1>1, <2>8 DEF Placed
    <3> QED
      BY <1>3, <2>6, <2>7, <3>1, ReadIs
  <2> QED
    BY <2>5, <2>7, <2>8, <2>9
<1>5. Sixb!StartsWithMagic'
  BY <1>1, MagicSame
<1> QED
  BY <1>1, <1>2, <1>4, <1>5 DEF SixbInv

(* What ends where the last field ends is neither cut nor longer.          *)
LEMMA EndsStep ==
  ASSUME SixbInv, outcome = "none", SixbEnds, UNCHANGED <<original, change, bytes>>
  PROVE  SixbInv'
<1>1. /\ original \in Cached /\ Changed(original, change, bytes) /\ Sixb!StartsWithMagic
      /\ Planned(fields, todo) /\ Placed(bytes, fields, at)
      /\ change # "byte" => \E n, m, d : Alike(original, n, m, d, fields, at)
  BY DEF SixbInv
<1>2. /\ todo = <<>> /\ outcome' = (IF at = Len(bytes) THEN "cache" ELSE "error")
      /\ UNCHANGED <<at, fields, todo>>
  BY DEF SixbEnds
<1>3. bytes \in Seq(Byte)
  BY <1>1 DEF Changed
<1>4. change # "byte" => at = Len(Sixb!Encode(original)) /\ Len(Sixb!Encode(original)) \in Nat
  <2>1. SUFFICES ASSUME change # "byte"
                 PROVE  at = Len(Sixb!Encode(original)) /\ Len(Sixb!Encode(original)) \in Nat
    OBVIOUS
  <2>2. PICK n, m, d : Alike(original, n, m, d, fields, at)
    BY <1>1, <2>1
  <2>3. /\ Written(original, n, m, d) /\ Len(fields) <= Fields(n, m) /\ at = d[Len(fields)]
        /\ \A i \in 1..Len(fields) : fields[i] = ValueAt(original, i)
    BY <2>2 DEF Alike
  <2>4. n \in Nat /\ m \in Nat /\ Counts(original, n, m)
    BY <2>3 DEF Written
  <2>5. Len(fields) = Fields(n, m)
    BY <1>1, <1>2, <2>3, <2>4, PlanSame
  <2>6. Sixb!Encode(original) \in Seq(Byte) /\ d[Fields(n, m)] = Len(Sixb!Encode(original))
    BY <2>3, WrittenIs
  <2> QED
    BY <2>3, <2>5, <2>6
<1>5. change = "none" => at = Len(bytes)
  BY <1>1, <1>4 DEF Changed
<1>6. change \in {"cut", "longer"} => at # Len(bytes)
  <2>1. SUFFICES ASSUME change \in {"cut", "longer"} PROVE at # Len(bytes)
    OBVIOUS
  <2>2. Len(bytes) < Len(Sixb!Encode(original)) \/ Len(bytes) > Len(Sixb!Encode(original))
    BY <1>1, <2>1 DEF Changed
  <2>3. Len(bytes) \in Nat
    BY <1>3
  <2> QED
    BY <1>4, <2>1, <2>2, <2>3
<1>7. Sixb!StartsWithMagic'
  BY <1>1, MagicSame
<1> QED
  BY <1>1, <1>2, <1>5, <1>6, <1>7 DEF SixbInv

LEMMA SixbStep == SixbInv /\ Sixb!Next => SixbInv'
<1> SUFFICES ASSUME SixbInv, Sixb!Next PROVE SixbInv'
  OBVIOUS
<1>1. CASE Sixb!Decode
  <2>1. outcome = "none" /\ original \in Cached /\ Changed(original, change, bytes)
        /\ Planned(fields, todo) /\ Placed(bytes, fields, at)
    BY <1>1 DEF SixbInv, Sixb!Decode
  <2>2. bytes \in Seq(Byte) /\ at \in Nat
    BY <2>1 DEF Changed, Placed
  <2>3. UNCHANGED <<original, change, bytes>> /\ (SixbReads \/ SixbFails \/ SixbEnds)
    BY <1>1, <2>1, <2>2, DecodeIs
  <2> QED
    BY <2>1, <2>3, ReadsStep, FailsStep, EndsStep
<1>2. CASE Sixb!Finished
  BY <1>2, SixbSame DEF Sixb!Finished, Sixb!vars
<1> QED
  BY <1>1, <1>2 DEF Sixb!Next

LEMMA ReadsBackAt == SixbInv => Sixb!ReadsBack
<1> SUFFICES ASSUME SixbInv, change = "none", outcome = "cache"
             PROVE  Sixb!Decoded = original /\ fields[1] = Sixb!Version
  BY DEF SixbInv, Sixb!ReadsBack
<1>1. /\ original \in Cached /\ Planned(fields, todo) /\ todo = <<>>
      /\ \E n, m, d : Alike(original, n, m, d, fields, at)
  BY DEF SixbInv
<1>2. PICK n, m, d : Alike(original, n, m, d, fields, at)
  BY <1>1
<1>3. /\ Written(original, n, m, d) /\ Len(fields) <= Fields(n, m)
      /\ \A i \in 1..Len(fields) : fields[i] = ValueAt(original, i)
  BY <1>2 DEF Alike
<1>4. n \in Nat /\ m \in Nat /\ Counts(original, n, m)
  BY <1>3 DEF Written
<1>5. Len(fields) = Fields(n, m)
  BY <1>1, <1>3, <1>4, PlanSame
<1>6. \A i \in 1..Fields(n, m) : fields[i] = ValueAt(original, i)
  BY <1>3, <1>5
<1> QED
  BY <1>1, <1>4, <1>6, ValuesDecoded

LEMMA NoPartialCacheAt == SixbInv => Sixb!NoPartialCache
BY DEF SixbInv, Sixb!NoPartialCache

(* The bytes of the fields of a cache are the bytes of the cache.          *)
LEMMA SameBytes ==
  ASSUME NEW o \in Cached, NEW n \in Nat, NEW m \in Nat, Counts(o, n, m),
         NEW b \in Seq(Byte), \A j \in 1..5 : b[j] = Sixb!Magic[j],
         NEW c, c[0] = 5, c[Fields(n, m)] = Len(b),
         \A i \in 0..Fields(n, m) : c[i] \in 0..Len(b),
         \A i \in 1..Fields(n, m) : Codes(b, KindAt(n, i), ValueAt(o, i), c[i - 1], c[i])
  PROVE  b = Sixb!Encode(o)
<1>1. PICK F \in Nat : F = Fields(n, m) /\ 5 <= F
  BY FieldsIs
<1>2. PICK e : e = PieceAt(o)
  OBVIOUS
<1>3. e = [i \in 0..F |-> IF i = 0 THEN Sixb!Magic ELSE Coded(KindAt(n, i), ValueAt(o, i))]
  BY <1>1, <1>2 DEF PieceAt, Counts
<1>4. e[0] = Sixb!Magic /\ \A i \in 1..F : e[i] = Coded(KindAt(n, i), ValueAt(o, i))
  BY <1>3
<1>5. PICK a \in Int : a = -1
  OBVIOUS
<1>6. PICK f : f = [i \in a..F |-> IF i = a THEN 0 ELSE c[i]]
  OBVIOUS
<1>7. a <= F /\ a \in a..F /\ F \in a..F /\ F # a /\ a..F = {a} \cup 0..F /\ a \notin 0..F
  BY <1>1, <1>5, SMTT(30)
<1>8. f[a] = 0 /\ f[F] = Len(b) /\ \A i \in 0..F : f[i] = c[i]
  BY <1>1, <1>6, <1>7
<1>9. \A i \in a..F : f[i] \in 0..Len(b)
  <2>1. 0 \in 0..Len(b)
    OBVIOUS
  <2> QED
    BY <1>1, <1>7, <1>8, <2>1
<1>10. ASSUME NEW i \in (a + 1)..F
       PROVE  /\ Len(e[i]) \in Nat /\ f[i] = f[i - 1] + Len(e[i])
              /\ \A j \in 1..Len(e[i]) : b[f[i - 1] + j] = e[i][j]
  <2>1. CASE i = 0
    <3>1. PICK s : s = Sixb!Magic
      OBVIOUS
    <3>2. PICK l \in Nat : l = 5
      OBVIOUS
    <3>3. Len(s) = l /\ \A j \in 1..l : b[j] = s[j]
      BY <3>1, <3>2, MagicBytes
    <3>4. e[i] = s /\ f[i] = l /\ f[i - 1] = 0
      <4>1. i - 1 = a /\ i \in 0..F
        BY <1>5, <2>1
      <4> QED
        BY <1>4, <1>8, <2>1, <3>1, <3>2, <4>1
    <3>5. l = 0 + l /\ \A j \in 1..l : b[0 + j] = s[j]
      BY <3>3
    <3> QED
      BY <3>3, <3>4, <3>5
  <2>2. CASE i # 0
    <3>1. i \in 1..F /\ i \in 0..F /\ i - 1 \in 0..F
      BY <1>1, <1>5, <2>2
    <3>2. PICK s : s = Coded(KindAt(n, i), ValueAt(o, i))
      OBVIOUS
    <3>3. Legal(KindAt(n, i), ValueAt(o, i))
      BY <1>1, <3>1, LegalAt
    <3>4. Len(s) \in Nat
      BY <3>2, <3>3, LegalCoded
    <3>5. Codes(b, KindAt(n, i), ValueAt(o, i), c[i - 1], c[i])
      BY <1>1, <3>1
    <3>6. c[i] = c[i - 1] + Len(s) /\ \A j \in 1..Len(s) : b[c[i - 1] + j] = s[j]
      BY <3>2, <3>3, <3>5 DEF Codes
    <3>7. e[i] = s /\ f[i] = c[i] /\ f[i - 1] = c[i - 1]
      BY <1>4, <1>8, <3>1, <3>2
    <3> QED
      BY <3>4, <3>6, <3>7
  <2> QED
    BY <2>1, <2>2
<1>11. Pieced(b, e, f, a, F)
  BY <1>8, <1>9, <1>10 DEF Pieced
<1>12. Made(b, e, a, F)
  BY <1>11 DEF Made
<1>13. Sixb!Encode(o) \in Seq(Byte) /\ Made(Sixb!Encode(o), e, a, F)
  BY <1>1, <1>2, <1>5, EncodeMade
<1> QED
  BY <1>7, <1>12, <1>13, MadeUnique

LEMMA ChangesShowAt == SixbInv => Sixb!ChangesShow
<1> SUFFICES ASSUME SixbInv, outcome = "cache", Sixb!Decoded = original,
                    fields[1] = Sixb!Version
             PROVE  bytes = Sixb!Encode(original)
  BY DEF Sixb!ChangesShow
<1>1. /\ original \in Cached /\ Changed(original, change, bytes) /\ Sixb!StartsWithMagic
      /\ Planned(fields, todo) /\ Placed(bytes, fields, at) /\ todo = <<>> /\ at = Len(bytes)
  BY DEF SixbInv
<1>2. bytes \in Seq(Byte)
  BY <1>1 DEF Changed
<1>3. PICK k \in Nat : k = Len(fields)
  BY <1>1, SeqFacts DEF Planned
<1>4. PICK n \in Nat : n = RowCount(fields)
  BY <1>1 DEF Planned
<1>5. Total(fields) = k
  <2>1. Len(todo) = 0 /\ Total(fields) \in Nat /\ Len(todo) = Total(fields) - Len(fields)
    BY <1>1 DEF Planned
  <2> QED
    BY <1>3, <2>1
<1>6. k >= 5 /\ k >= 6 + 5 * n
  <2>1. Total(fields) =
          IF k < 5 THEN 5
          ELSE IF k < 6 + 5 * n THEN 6 + 5 * n ELSE Fields(n, fields[6 + 5 * n])
    BY <1>3, <1>4 DEF Total
  <2>2. k < 5 => FALSE
    BY <1>3, <1>5, <2>1
  <2>3. ~(k < 5) /\ k < 6 + 5 * n => FALSE
    BY <1>3, <1>4, <1>5, <2>1
  <2> QED
    BY <1>3, <1>4, <2>2, <2>3
<1>7. PICK m \in Nat : m = fields[6 + 5 * n]
  BY <1>1, <1>3, <1>4, <1>6 DEF Planned
<1>8. n = fields[5]
  BY <1>3, <1>4, <1>6 DEF RowCount
<1>9. k = Fields(n, m)
  <2>1. ~(k < 5) /\ ~(k < 6 + 5 * n)
    BY <1>6
  <2> QED
    BY <1>3, <1>4, <1>5, <1>7, <2>1 DEF Total
<1>10. FieldCounts(n, m)
  BY <1>7, <1>8 DEF FieldCounts
<1>11. Counts(original, n, m) /\ \A i \in 1..Fields(n, m) : fields[i] = ValueAt(original, i)
  BY <1>1, <1>10, DecodedValues
<1>12. PICK c : Places(bytes, fields, at, c)
  BY <1>1 DEF Placed
<1>13. /\ c[0] = 5 /\ c[Fields(n, m)] = Len(bytes)
       /\ \A i \in 0..Fields(n, m) : c[i] \in 0..Len(bytes)
       /\ \A i \in 1..Fields(n, m) : Codes(bytes, KindAt(n, i), fields[i], c[i - 1], c[i])
  BY <1>1, <1>3, <1>4, <1>9, <1>12 DEF Places
<1>14. \A i \in 1..Fields(n, m) :
         Codes(bytes, KindAt(n, i), ValueAt(original, i), c[i - 1], c[i])
  BY <1>11, <1>13
<1>15. \A j \in 1..5 : bytes[j] = Sixb!Magic[j]
  <2>1. Len(bytes) >= 5 /\ SubSeq(bytes, 1, 5) = Sixb!Magic
    BY <1>1 DEF Sixb!StartsWithMagic
  <2>2. 5 <= Len(bytes)
    BY <1>2, <2>1
  <2> QED
    BY <1>2, <2>1, <2>2, FirstBytes
<1> QED
  BY <1>1, <1>2, <1>11, <1>13, <1>14, <1>15, SameBytes

-----------------------------------------------------------------------------
(* The text of a schema.                                                   *)

(* What is written in the text of a schema. *)
Mark == Token \cup Compiler!Types \cup {"lookup", "unique", "schema"}

LEMMA FlattensAlike ==
  ASSUME NEW w
  PROVE  Compiler!FlattenSeq(w) = Sixb!FlattenSeq(w)
BY DEF Compiler!FlattenSeq, Sixb!FlattenSeq

(* The sequence s is in src behind its first x tokens. *)
Behind(src, x, s) ==
  x + Len(s) <= Len(src) /\ \A i \in 1..Len(s) : src[x + i] = s[i]

(* So are the members of w, one behind another, from c[0] on. *)
Chained(src, w, c, n) ==
  /\ c \in [0..n -> Nat]
  /\ \A k \in 1..n : c[k] = c[k - 1] + Len(w[k]) /\ Behind(src, c[k - 1], w[k])

LEMMA BehindConcat ==
  ASSUME NEW src \in Seq(Token), NEW x \in Nat, NEW s \in Seq(Mark), NEW t \in Seq(Mark),
         Behind(src, x, s \o t)
  PROVE  /\ Behind(src, x, s) /\ Behind(src, x + Len(s), t)
         /\ Len(s \o t) = Len(s) + Len(t)
<1>1. /\ Len(s) \in Nat /\ Len(t) \in Nat /\ Len(src) \in Nat
      /\ Len(s \o t) = Len(s) + Len(t)
      /\ \A i \in 1..(Len(s) + Len(t)) :
           (s \o t)[i] = IF i <= Len(s) THEN s[i] ELSE t[i - Len(s)]
  BY ConcatProperties, LenProperties
<1>2. Behind(src, x, s)
  <2>1. x + Len(s) <= Len(src)
    BY <1>1 DEF Behind
  <2>2. ASSUME NEW i \in 1..Len(s)
        PROVE  src[x + i] = s[i]
    <3>1. i \in 1..(Len(s) + Len(t)) /\ i <= Len(s)
      BY <1>1
    <3> QED
      BY <1>1, <3>1 DEF Behind
  <2> QED
    BY <2>1, <2>2 DEF Behind
<1>3. Behind(src, x + Len(s), t)
  <2>1. (x + Len(s)) + Len(t) <= Len(src)
    BY <1>1 DEF Behind
  <2>2. ASSUME NEW i \in 1..Len(t)
        PROVE  src[(x + Len(s)) + i] = t[i]
    <3>1. PICK j \in 1..(Len(s) + Len(t)) : j = Len(s) + i
      BY <1>1
    <3>2. ~(j <= Len(s)) /\ j - Len(s) = i /\ (x + Len(s)) + i = x + j
      BY <1>1, <3>1
    <3>3. (s \o t)[j] = t[i]
      BY <1>1, <3>2
    <3>4. src[x + j] = (s \o t)[j]
      BY <1>1 DEF Behind
    <3> QED
      BY <3>2, <3>3, <3>4
  <2> QED
    BY <2>1, <2>2 DEF Behind
<1> QED
  BY <1>1, <1>2, <1>3

Texts(w, n) == w \in [1..n -> Seq(Mark)]

LEMMA FlatType ==
  ASSUME NEW n \in Nat, NEW w, Texts(w, n)
  PROVE  Compiler!FlattenSeq(w) \in Seq(Mark)
<1>0. w \in [1..n -> Seq(Mark)]
  BY DEF Texts
<1>1. PICK f : Flattens(f, w, n, Mark) /\ Compiler!FlattenSeq(w) = f[n]
  BY <1>0, FlattenIs, FlattensAlike
<1>2. n \in 0..n
  OBVIOUS
<1> QED
  BY <1>1, <1>2 DEF Flattens

(* Where the members of a sequence are that was flattened. *)
LEMMA FlatChained ==
  ASSUME NEW src \in Seq(Token), NEW x \in Nat, NEW n \in Nat, NEW w, Texts(w, n),
         Behind(src, x, Compiler!FlattenSeq(w))
  PROVE  \E c : /\ Chained(src, w, c, n)
               /\ c[0] = x /\ c[n] = x + Len(Compiler!FlattenSeq(w))
<1>0. w \in [1..n -> Seq(Mark)]
  BY DEF Texts
<1>1. PICK f : Flattens(f, w, n, Mark) /\ Compiler!FlattenSeq(w) = f[n]
  BY <1>0, FlattenIs, FlattensAlike
<1>2. /\ f \in [0..n -> Seq(Mark)] /\ f[0] = <<>>
      /\ \A k \in 1..n : f[k] = f[k - 1] \o w[k]
  BY <1>1 DEF Flattens
<1> DEFINE c == [k \in 0..n |-> x + Len(f[k])]
           (* Downwards: what is behind x with n - k members less. *)
           S == {k \in 0..n : Behind(src, x, f[n - k])}
<1>3. \A k \in 0..n : f[k] \in Seq(Mark) /\ Len(f[k]) \in Nat
  BY <1>2, LenProperties
<1>4. ASSUME NEW k \in 1..n, Behind(src, x, f[k])
      PROVE  /\ Behind(src, x, f[k - 1]) /\ Behind(src, x + Len(f[k - 1]), w[k])
             /\ Len(f[k]) = Len(f[k - 1]) + Len(w[k])
  <2>1. f[k - 1] \in Seq(Mark) /\ w[k] \in Seq(Mark) /\ f[k] = f[k - 1] \o w[k]
    <3>1. k - 1 \in 0..n
      OBVIOUS
    <3> QED
      BY <1>0, <1>2, <1>3, <3>1
  <2>2. Behind(src, x, f[k - 1] \o w[k])
    BY <1>4, <2>1
  <2>3. PICK y \in Seq(Mark), z \in Seq(Mark) : y = f[k - 1] /\ z = w[k]
    BY <2>1
  <2>4. Behind(src, x, y \o z)
    BY <2>2, <2>3
  <2>5. /\ Behind(src, x, y) /\ Behind(src, x + Len(y), z)
        /\ Len(y \o z) = Len(y) + Len(z)
    BY <2>4, BehindConcat
  <2> QED
    BY <2>1, <2>3, <2>5
<1>5. 0 \in S
  <2>1. n - 0 = n
    OBVIOUS
  <2> QED
    BY <1>1, <2>1
<1>6. ASSUME NEW k \in 0..(n - 1), k \in S
      PROVE  k + 1 \in S
  <2>1. PICK j \in 1..n : j = n - k
    OBVIOUS
  <2>2. Behind(src, x, f[j - 1])
    BY <1>4, <1>6, <2>1
  <2>3. j - 1 = n - (k + 1) /\ k + 1 \in 0..n
    BY <2>1
  <2> QED
    BY <2>2, <2>3
<1>7. \A k \in 0..n : k \in S
  <2> HIDE DEF S
  <2> QED
    BY <1>5, <1>6, UpTo
<1>8. ASSUME NEW k \in 0..n
      PROVE  Behind(src, x, f[k])
  <2>1. PICK j \in 0..n : j = n - k
    OBVIOUS
  <2>2. j \in S
    BY <1>7
  <2>3. Behind(src, x, f[n - j])
    BY <2>2
  <2>4. n - j = k
    BY <2>1
  <2> QED
    BY <2>3, <2>4
<1>9. ASSUME NEW k \in 1..n
      PROVE  c[k] = c[k - 1] + Len(w[k]) /\ Behind(src, c[k - 1], w[k])
  <2>1. k \in 0..n /\ k - 1 \in 0..n
    OBVIOUS
  <2>2. /\ Behind(src, x + Len(f[k - 1]), w[k])
        /\ Len(f[k]) = Len(f[k - 1]) + Len(w[k])
    BY <1>4, <1>8, <2>1
  <2>3. Len(f[k - 1]) \in Nat /\ Len(w[k]) \in Nat
    BY <1>0, <1>3, <2>1, LenProperties
  <2>4. c[k] = x + Len(f[k]) /\ c[k - 1] = x + Len(f[k - 1])
    BY <2>1
  <2>5. PICK p \in Nat, q \in Nat : p = Len(f[k - 1]) /\ q = Len(w[k])
    BY <2>3
  <2> HIDE DEF c
  <2>6. c[k] = c[k - 1] + Len(w[k])
    <3>1. c[k] = x + (p + q) /\ c[k - 1] = x + p
      BY <2>2, <2>4, <2>5
    <3>2. x + (p + q) = (x + p) + q
      OBVIOUS
    <3> QED
      BY <2>5, <3>1, <3>2
  <2> QED
    BY <2>2, <2>4, <2>6
<1>10. c \in [0..n -> Nat]
  BY <1>3
<1>11. c[0] = x /\ c[n] = x + Len(f[n])
  <2>1. 0 \in 0..n /\ n \in 0..n
    OBVIOUS
  <2>2. c[0] = x + Len(f[0]) /\ c[n] = x + Len(f[n])
    BY <2>1
  <2>3. Len(f[0]) = 0
    BY <1>2, EmptySeq
  <2> HIDE DEF c
  <2> QED
    BY <2>2, <2>3
<1> HIDE DEF c
<1>12. Chained(src, w, c, n)
  BY <1>9, <1>10 DEF Chained
<1> QED
  BY <1>1, <1>11, <1>12

LEMMA ShortConcat ==
  ASSUME NEW a, NEW b, NEW c, NEW d
  PROVE  /\ <<a, b>> \o <<>> = <<a, b>>
         /\ <<a, b>> \o <<c>> = <<a, b, c>>
         /\ <<a, b, c>> \o <<>> = <<a, b, c>>
         /\ <<a, b, c>> \o <<d>> = <<a, b, c, d>>
<1> DEFINE T == {a, b, c, d}
<1>1. /\ <<a, b>> \in Seq(T) /\ <<c>> \in Seq(T) /\ <<d>> \in Seq(T)
      /\ <<a, b, c>> \in Seq(T) /\ <<a, b, c, d>> \in Seq(T)
  OBVIOUS
<1>2. <<a, b>> \o <<>> = <<a, b>> /\ <<a, b, c>> \o <<>> = <<a, b, c>>
  BY <1>1, ConcatEmptySeq
<1>3. <<a, b>> \o <<c>> = <<a, b, c>>
  <2>1. PICK s : s = <<a, b>> \o <<c>>
    OBVIOUS
  <2>2. s \in Seq(T) /\ Len(s) = 3 /\ s[1] = a /\ s[2] = b /\ s[3] = c
    BY <1>1, <2>1, ConcatProperties
  <2>3. \A i \in 1..3 : s[i] = <<a, b, c>>[i]
    BY <2>2
  <2> HIDE DEF T
  <2> QED
    BY <1>1, <2>1, <2>2, <2>3, SeqEqual
<1>4. <<a, b, c>> \o <<d>> = <<a, b, c, d>>
  <2>1. PICK s : s = <<a, b, c>> \o <<d>>
    OBVIOUS
  <2>2. s \in Seq(T) /\ Len(s) = 4 /\ s[1] = a /\ s[2] = b /\ s[3] = c /\ s[4] = d
    BY <1>1, <2>1, ConcatProperties
  <2>3. \A i \in 1..4 : s[i] = <<a, b, c, d>>[i]
    BY <2>2
  <2> HIDE DEF T
  <2> QED
    BY <1>1, <2>1, <2>2, <2>3, SeqEqual
<1> QED
  BY <1>2, <1>3, <1>4

(* The tokens of a declaration. *)
LEMMA TokensOf ==
  ASSUME NEW item \in Compiler!Item
  PROVE  LET t == Compiler!Tokens(item)
         IN  /\ t \in Seq(Mark)
             /\ item.kind = "field" =>
                  /\ Len(t) = IF item.semicolon THEN 3 ELSE 2
                  /\ t[1] = item.name /\ t[2] = item.type
             /\ item.kind = "lookup" =>
                  /\ Len(t) = (IF item.unique THEN 3 ELSE 2) + (IF item.semicolon THEN 1 ELSE 0)
                  /\ t[1] = "lookup" /\ t[2] = item.name
                  /\ item.unique => t[3] = "unique"
             /\ item.semicolon => t[Len(t)] = "Semicolon"
             /\ item.kind \in {"field", "lookup"} /\ Len(t) >= 2
<1> DEFINE end == IF item.semicolon THEN <<"Semicolon">> ELSE <<>>
           flag == IF item.unique THEN <<"unique">> ELSE <<>>
<1>0. item.kind \in {"field", "lookup"} /\ item.name \in Compiler!Identifiers
  BY DEF Compiler!Item
<1>1. "Semicolon" \in Mark /\ "lookup" \in Mark /\ "unique" \in Mark /\ item.name \in Mark
  BY <1>0 DEF Mark, Token, Compiler!Punctuation
<1>2. CASE item.kind = "field"
  <2>1. item.type \in Mark
    BY <1>2 DEF Mark, Compiler!Item
  <2>2. Compiler!Tokens(item) = <<item.name, item.type>> \o end
    BY <1>2 DEF Compiler!Tokens
  <2>3. CASE item.semicolon
    <3>1. Compiler!Tokens(item) = <<item.name, item.type, "Semicolon">>
      BY <2>2, <2>3, ShortConcat
    <3> QED
      BY <1>1, <1>2, <2>1, <2>3, <3>1
  <2>4. CASE ~item.semicolon
    <3>1. Compiler!Tokens(item) = <<item.name, item.type>>
      BY <2>2, <2>4, ShortConcat
    <3> QED
      BY <1>1, <1>2, <2>1, <2>4, <3>1
  <2> QED
    BY <2>3, <2>4
<1>3. CASE item.kind = "lookup"
  <2>1. Compiler!Tokens(item) = (<<"lookup", item.name>> \o flag) \o end
    BY <1>3 DEF Compiler!Tokens
  <2>2. CASE item.unique /\ item.semicolon
    <3>1. Compiler!Tokens(item) = <<"lookup", item.name, "unique", "Semicolon">>
      BY <2>1, <2>2, ShortConcat
    <3> QED
      BY <1>1, <1>3, <2>2, <3>1
  <2>3. CASE item.unique /\ ~item.semicolon
    <3>1. Compiler!Tokens(item) = <<"lookup", item.name, "unique">>
      BY <2>1, <2>3, ShortConcat
    <3> QED
      BY <1>1, <1>3, <2>3, <3>1
  <2>4. CASE ~item.unique /\ item.semicolon
    <3>1. Compiler!Tokens(item) = <<"lookup", item.name, "Semicolon">>
      BY <2>1, <2>4, ShortConcat
    <3> QED
      BY <1>1, <1>3, <2>4, <3>1
  <2>5. CASE ~item.unique /\ ~item.semicolon
    <3>1. Compiler!Tokens(item) = <<"lookup", item.name>>
      BY <2>1, <2>5, ShortConcat
    <3> QED
      BY <1>1, <1>3, <2>5, <3>1
  <2> QED
    BY <2>2, <2>3, <2>4, <2>5
<1> QED
  BY <1>0, <1>2, <1>3

(* Where the items of a table are, and the table itself, behind x. *)
ItemTexts(t) == [i \in DOMAIN t.items |-> Compiler!Tokens(t.items[i])]

TableAt(src, x, t, d) ==
  /\ src[x + 1] = t.name /\ src[x + 2] = "LBrace"
  /\ Chained(src, ItemTexts(t), d, Len(t.items)) /\ d[0] = x + 2
  /\ src[d[Len(t.items)] + 1] = "RBrace" /\ d[Len(t.items)] + 1 <= Len(src)
  /\ x + Len(Compiler!TableText(t)) = d[Len(t.items)] + 1

LEMMA WrittenType ==
  ASSUME NEW t \in Compiler!Written
  PROVE  /\ t.name \in Compiler!Identifiers /\ t.name \in Mark
         /\ t.items \in Seq(Compiler!Item) /\ Len(t.items) \in Nat
         /\ DOMAIN t.items = 1..Len(t.items)
         /\ \A i \in 1..Len(t.items) : t.items[i] \in Compiler!Item
         /\ Texts(ItemTexts(t), Len(t.items))
         /\ \A i \in 1..Len(t.items) : ItemTexts(t)[i] = Compiler!Tokens(t.items[i])
<1>1. t.name \in Compiler!Identifiers /\ t.items \in Seq(Compiler!Item)
  BY DEF Compiler!Written
<1>2. t.name \in Mark
  BY <1>1 DEF Mark, Token
<1>3. Len(t.items) \in Nat /\ DOMAIN t.items = 1..Len(t.items)
  BY <1>1, LenProperties
<1>4. \A i \in 1..Len(t.items) : t.items[i] \in Compiler!Item
  BY <1>1, <1>3, ElementOfSeq
<1>5. \A i \in 1..Len(t.items) : Compiler!Tokens(t.items[i]) \in Seq(Mark)
  BY <1>4, TokensOf
<1>6. \A i \in 1..Len(t.items) : ItemTexts(t)[i] = Compiler!Tokens(t.items[i])
  BY <1>3 DEF ItemTexts
<1>7. Texts(ItemTexts(t), Len(t.items))
  BY <1>3, <1>5 DEF ItemTexts, Texts
<1> QED
  BY <1>1, <1>2, <1>3, <1>4, <1>6, <1>7

LEMMA TableTextType ==
  ASSUME NEW t \in Compiler!Written
  PROVE  /\ <<t.name, "LBrace">> \in Seq(Mark) /\ <<"RBrace">> \in Seq(Mark)
         /\ Compiler!FlattenSeq(ItemTexts(t)) \in Seq(Mark)
         /\ Compiler!TableText(t) \in Seq(Mark)
         /\ Compiler!TableText(t)
              = (<<t.name, "LBrace">> \o Compiler!FlattenSeq(ItemTexts(t))) \o <<"RBrace">>
<1>1. t.name \in Mark /\ "LBrace" \in Mark /\ "RBrace" \in Mark
  BY WrittenType DEF Mark, Token, Compiler!Punctuation
<1>2. <<t.name, "LBrace">> \in Seq(Mark) /\ <<"RBrace">> \in Seq(Mark)
  BY <1>1
<1>3. Compiler!FlattenSeq(ItemTexts(t)) \in Seq(Mark)
  BY WrittenType, FlatType
<1>4. Compiler!TableText(t)
        = (<<t.name, "LBrace">> \o Compiler!FlattenSeq(ItemTexts(t))) \o <<"RBrace">>
  BY DEF Compiler!TableText, ItemTexts
<1>5. <<t.name, "LBrace">> \o Compiler!FlattenSeq(ItemTexts(t)) \in Seq(Mark)
  BY <1>2, <1>3, ConcatProperties
<1>6. Compiler!TableText(t) \in Seq(Mark)
  BY <1>2, <1>4, <1>5, ConcatProperties
<1> QED
  BY <1>2, <1>3, <1>4, <1>6

LEMMA TableLaid ==
  ASSUME NEW src \in Seq(Token), NEW x \in Nat, NEW t \in Compiler!Written,
         Behind(src, x, Compiler!TableText(t))
  PROVE  \E d : TableAt(src, x, t, d)
<1>1. PICK head \in Seq(Mark), flat \in Seq(Mark), last \in Seq(Mark) :
        /\ head = <<t.name, "LBrace">> /\ flat = Compiler!FlattenSeq(ItemTexts(t))
        /\ last = <<"RBrace">>
        /\ Compiler!TableText(t) = (head \o flat) \o last
  BY TableTextType
<1>2. PICK both \in Seq(Mark) : both = head \o flat
  BY ConcatProperties
<1>3. /\ Behind(src, x, both) /\ Behind(src, x + Len(both), last)
      /\ Len(Compiler!TableText(t)) = Len(both) + Len(last)
  <2>1. Behind(src, x, both \o last)
    BY <1>1, <1>2
  <2>2. /\ Behind(src, x, both) /\ Behind(src, x + Len(both), last)
        /\ Len(both \o last) = Len(both) + Len(last)
    BY <2>1, BehindConcat
  <2>3. Compiler!TableText(t) = both \o last
    BY <1>1, <1>2
  <2> QED
    BY <2>2, <2>3
<1>4. /\ Behind(src, x, head) /\ Behind(src, x + Len(head), flat)
      /\ Len(both) = Len(head) + Len(flat)
  <2>1. Behind(src, x, head \o flat)
    BY <1>2, <1>3
  <2> QED
    BY <1>2, <2>1, BehindConcat
<1>5. Len(head) = 2 /\ Len(last) = 1 /\ Len(flat) \in Nat
  BY <1>1, LenProperties
<1>6. src[x + 1] = t.name /\ src[x + 2] = "LBrace"
  BY <1>1, <1>4, <1>5 DEF Behind
<1>7. PICK m, w : m \in Nat /\ Texts(w, m) /\ m = Len(t.items) /\ w = ItemTexts(t)
  BY WrittenType
<1>8. PICK d : /\ Chained(src, w, d, m) /\ d[0] = x + 2 /\ d[m] = (x + 2) + Len(flat)
  <2>1. PICK y \in Nat : y = x + 2
    OBVIOUS
  <2>2. Compiler!FlattenSeq(w) = flat
    BY <1>1, <1>7
  <2>3. Behind(src, y, Compiler!FlattenSeq(w))
    BY <1>4, <1>5, <2>1, <2>2
  <2>4. \E d : /\ Chained(src, w, d, m)
               /\ d[0] = y /\ d[m] = y + Len(Compiler!FlattenSeq(w))
    <3>1. m \in Nat /\ Texts(w, m)
      BY <1>7
    <3> QED
      BY <2>3, <3>1, FlatChained
  <2> QED
    BY <2>1, <2>2, <2>4
<1>9. src[(x + Len(both)) + 1] = "RBrace" /\ (x + Len(both)) + 1 <= Len(src)
  BY <1>1, <1>3, <1>5 DEF Behind
<1>10. x + Len(both) = d[m] /\ x + Len(Compiler!TableText(t)) = d[m] + 1
  BY <1>3, <1>4, <1>5, <1>8
<1> QED
  BY <1>6, <1>7, <1>8, <1>9, <1>10 DEF TableAt

(* Where the tables of a schema are in its text. *)
TableTexts(schema) == [i \in DOMAIN schema |-> Compiler!TableText(schema[i])]

SchemaAt(src, text, c) ==
  /\ text.form = "block" =>
       Len(src) >= 3 /\ src[1] = "schema" /\ src[2] = "Bang" /\ src[3] = "LBrace"
  /\ Chained(src, TableTexts(text.tables), c, Len(text.tables))
  /\ c[0] = IF text.form = "block" THEN 3 ELSE 0
  /\ text.form = "bare" => c[Len(text.tables)] = Len(src)
  /\ text.form # "bare" =>
       src[c[Len(text.tables)] + 1] = "RBrace" /\ c[Len(text.tables)] + 1 <= Len(src)

LEMMA TextType ==
  ASSUME NEW text \in Compiler!Text
  PROVE  /\ text.form \in {"block", "closed", "bare"}
         /\ text.tables \in Seq(Compiler!Written)
         /\ text.behind \in Seq(Compiler!Identifiers \cup Compiler!Punctuation)
BY EmptySeq DEF Compiler!Text

LEMMA OpeningIs ==
  ASSUME NEW text \in Compiler!Text
  PROVE  LET head == Compiler!Opening(text)
         IN  /\ head \in Seq(Mark) /\ Len(head) = IF text.form = "block" THEN 3 ELSE 0
             /\ text.form = "block" =>
                  head[1] = "schema" /\ head[2] = "Bang" /\ head[3] = "LBrace"
<1>1. "schema" \in Mark /\ "Bang" \in Mark /\ "LBrace" \in Mark
  BY DEF Mark, Token, Compiler!Punctuation
<1>2. CASE text.form = "block"
  <2>1. Compiler!Opening(text) = <<"schema", "Bang", "LBrace">>
    BY <1>2 DEF Compiler!Opening
  <2> QED
    BY <1>1, <1>2, <2>1
<1>3. CASE text.form # "block"
  <2>1. Compiler!Opening(text) = <<>>
    BY <1>3 DEF Compiler!Opening
  <2> QED
    BY <1>3, <2>1, EmptySeq
<1> QED
  BY <1>2, <1>3

LEMMA ClosingIs ==
  ASSUME NEW text \in Compiler!Text
  PROVE  LET last == Compiler!Closing(text)
         IN  /\ last \in Seq(Mark)
             /\ text.form = "bare" => Len(last) = 0
             /\ text.form # "bare" => Len(last) >= 1 /\ last[1] = "RBrace"
<1>1. CASE text.form = "bare"
  <2>1. Compiler!Closing(text) = <<>>
    BY <1>1 DEF Compiler!Closing
  <2> QED
    BY <1>1, <2>1, EmptySeq
<1>2. CASE text.form # "bare"
  <2>1. PICK brace \in Seq(Mark), behind \in Seq(Mark) :
          brace = <<"RBrace">> /\ behind = text.behind
    <3>1. "RBrace" \in Mark
      BY DEF Mark, Token, Compiler!Punctuation
    <3>2. text.behind \in Seq(Token)
      BY TextType DEF Token
    <3>3. \A i \in 1..Len(text.behind) : text.behind[i] \in Mark
      BY <3>2, ElementOfSeq DEF Mark
    <3>4. text.behind \in Seq(Mark)
      <4>1. Len(text.behind) \in Nat /\ text.behind \in [1..Len(text.behind) -> Token]
        BY <3>2, LenProperties
      <4>2. text.behind \in [1..Len(text.behind) -> Mark]
        BY <3>3, <4>1
      <4> QED
        BY <4>1, <4>2, SeqDef
    <3>5. <<"RBrace">> \in Seq(Mark)
      BY <3>1
    <3> QED
      BY <3>4, <3>5, Zenon
  <2>2. Compiler!Closing(text) = brace \o behind
    BY <1>2, <2>1 DEF Compiler!Closing
  <2>3. Len(brace) = 1 /\ brace[1] = "RBrace" /\ Len(behind) \in Nat
    BY <2>1, LenProperties
  <2>4. PICK last : last = brace \o behind
    OBVIOUS
  <2>5. last \in Seq(Mark) /\ Len(last) >= 1 /\ last[1] = "RBrace"
    <3>1. /\ last \in Seq(Mark) /\ Len(last) = Len(brace) + Len(behind)
          /\ \A i \in 1..(Len(brace) + Len(behind)) :
               last[i] = IF i <= Len(brace) THEN brace[i] ELSE behind[i - Len(brace)]
      BY <2>4, ConcatProperties
    <3>2. 1 \in 1..(Len(brace) + Len(behind)) /\ 1 <= Len(brace)
      BY <2>3
    <3>3. last[1] = brace[1]
      BY <3>1, <3>2
    <3> QED
      BY <2>3, <3>1, <3>3
  <2> QED
    BY <1>2, <2>2, <2>4, <2>5
<1> QED
  BY <1>1, <1>2

LEMMA SchemaLaid ==
  ASSUME NEW src \in Seq(Token), NEW text \in Compiler!Text,
         src = Compiler!TextTokens(text)
  PROVE  \E c : SchemaAt(src, text, c)
<1>0. PICK schema \in Seq(Compiler!Written) : schema = text.tables
  BY TextType
<1>1. PICK m, w : m \in Nat /\ Texts(w, m) /\ m = Len(schema) /\ w = TableTexts(schema)
  <2>1. Len(schema) \in Nat /\ DOMAIN schema = 1..Len(schema)
    BY LenProperties
  <2>2. \A i \in 1..Len(schema) : schema[i] \in Compiler!Written
    BY <2>1, ElementOfSeq
  <2>3. \A i \in 1..Len(schema) : Compiler!TableText(schema[i]) \in Seq(Mark)
    BY <2>2, TableTextType
  <2>4. Texts(TableTexts(schema), Len(schema))
    BY <2>1, <2>3 DEF TableTexts, Texts
  <2> QED
    BY <2>1, <2>4
<1>2. PICK head \in Seq(Mark), flat \in Seq(Mark), last \in Seq(Mark) :
        /\ head = Compiler!Opening(text) /\ flat = Compiler!FlattenSeq(w)
        /\ last = Compiler!Closing(text)
  BY <1>1, FlatType, OpeningIs, ClosingIs
<1>3. src = (head \o flat) \o last
  BY <1>0, <1>1, <1>2 DEF Compiler!TextTokens, TableTexts
<1>4. PICK both \in Seq(Mark) : both = head \o flat
  BY ConcatProperties
<1>5. Behind(src, 0, both \o last)
  <2>1. Len(src) \in Nat
    BY LenProperties
  <2>2. both \o last = src
    BY <1>3, <1>4
  <2>3. Behind(src, 0, src)
    BY <2>1 DEF Behind
  <2> QED
    BY <2>2, <2>3
<1>6. PICK z \in Nat : z = 0
  OBVIOUS
<1>7. /\ Behind(src, 0, both) /\ Behind(src, Len(both), last)
      /\ Len(src) = Len(both) + Len(last)
  <2>1. /\ Behind(src, z, both) /\ Behind(src, z + Len(both), last)
        /\ Len(both \o last) = Len(both) + Len(last)
    BY <1>5, <1>6, BehindConcat
  <2>2. z + Len(both) = Len(both)
    BY <1>6, LenProperties
  <2>3. both \o last = src
    BY <1>3, <1>4
  <2> QED
    BY <1>6, <2>1, <2>2, <2>3
<1>8. /\ Behind(src, 0, head) /\ Behind(src, Len(head), flat)
      /\ Len(both) = Len(head) + Len(flat)
  <2>1. Behind(src, z, head \o flat)
    BY <1>4, <1>6, <1>7
  <2>2. /\ Behind(src, z, head) /\ Behind(src, z + Len(head), flat)
        /\ Len(both) = Len(head) + Len(flat)
    BY <1>4, <2>1, BehindConcat
  <2>3. z + Len(head) = Len(head)
    BY <1>6, LenProperties
  <2> QED
    BY <1>6, <2>2, <2>3
<1>9. PICK h \in {0, 3} : /\ h = Len(head) /\ h = IF text.form = "block" THEN 3 ELSE 0
  BY <1>2, OpeningIs
<1>10. text.form = "block" =>
         Len(src) >= 3 /\ src[1] = "schema" /\ src[2] = "Bang" /\ src[3] = "LBrace"
  <2> SUFFICES ASSUME text.form = "block"
               PROVE  /\ Len(src) >= 3
                      /\ src[1] = "schema" /\ src[2] = "Bang" /\ src[3] = "LBrace"
    OBVIOUS
  <2>1. head[1] = "schema" /\ head[2] = "Bang" /\ head[3] = "LBrace" /\ Len(head) = 3
    BY <1>2, OpeningIs
  <2>2. 3 <= Len(src) /\ \A i \in 1..3 : src[0 + i] = head[i]
    BY <1>8, <2>1 DEF Behind
  <2> QED
    BY <2>1, <2>2
<1>11. PICK c : Chained(src, w, c, m) /\ c[0] = h /\ c[m] = h + Len(flat)
  <2>1. PICK y \in Nat : y = h
    BY <1>9
  <2>2. Behind(src, y, Compiler!FlattenSeq(w))
    BY <1>2, <1>8, <1>9, <2>1
  <2>3. \E c : /\ Chained(src, w, c, m)
               /\ c[0] = y /\ c[m] = y + Len(Compiler!FlattenSeq(w))
    <3>1. m \in Nat /\ Texts(w, m)
      BY <1>1
    <3> QED
      BY <2>2, <3>1, FlatChained
  <2> QED
    BY <1>2, <2>1, <2>3
<1>12. Len(both) = c[m] /\ Len(both) \in Nat /\ Len(last) \in Nat
  BY <1>8, <1>9, <1>11, LenProperties
<1>13. text.form = "bare" => c[m] = Len(src)
  <2>1. text.form = "bare" => Len(last) = 0
    BY <1>2, ClosingIs
  <2> QED
    BY <1>7, <1>12, <2>1
<1>14. text.form # "bare" => src[c[m] + 1] = "RBrace" /\ c[m] + 1 <= Len(src)
  <2> SUFFICES ASSUME text.form # "bare"
               PROVE  src[c[m] + 1] = "RBrace" /\ c[m] + 1 <= Len(src)
    OBVIOUS
  <2>1. Len(last) >= 1 /\ last[1] = "RBrace"
    BY <1>2, ClosingIs
  <2>2. \A i \in 1..Len(last) : src[Len(both) + i] = last[i]
    BY <1>7 DEF Behind
  <2>3. src[Len(both) + 1] = "RBrace"
    BY <1>12, <2>1, <2>2
  <2> QED
    BY <1>7, <1>12, <2>1, <2>3
<1>15. Chained(src, TableTexts(text.tables), c, Len(text.tables))
  BY <1>0, <1>1, <1>11
<1> QED
  BY <1>0, <1>1, <1>9, <1>10, <1>11, <1>13, <1>14, <1>15 DEF SchemaAt

-----------------------------------------------------------------------------
(* The fields and the lookups among the first items. *)

LEMMA FieldsAmongIs ==
  ASSUME NEW items \in Seq(Compiler!Item)
  PROVE  LET F == Compiler!FieldsAmong(items)
         IN  /\ F[0] = <<>>
             /\ \A k \in 1..Len(items) :
                  F[k] = IF items[k].kind # "field" THEN F[k - 1]
                         ELSE Append(F[k - 1], [name |-> items[k].name, type |-> items[k].type])
<1> DEFINE n       == Len(items)
           more(k) == [name |-> items[k].name, type |-> items[k].type]
           d       == [k \in 1..n |-> [s \in Seq(FieldIr) |->
                         IF items[k].kind # "field" THEN s ELSE Append(s, more(k))]]
           step(g) == [k \in 0..n |->
                         IF k = 0 THEN <<>>
                         ELSE IF items[k].kind # "field" THEN g[k - 1]
                         ELSE Append(g[k - 1], more(k))]
<1>1. n \in Nat /\ \A k \in 1..n : items[k] \in Compiler!Item
  BY LenProperties, ElementOfSeq
<1>2. \A k \in 1..n : items[k].kind = "field" => more(k) \in FieldIr
  BY <1>1 DEF Compiler!Item, FieldIr
<1> HIDE DEF n, more
<1>3. \A k \in 1..n : d[k] \in [Seq(FieldIr) -> Seq(FieldIr)]
  <2> TAKE k \in 1..n
  <2>1. \A s \in Seq(FieldIr) :
          (IF items[k].kind # "field" THEN s ELSE Append(s, more(k))) \in Seq(FieldIr)
    BY <1>2, AppendProperties
  <2> QED
    BY <2>1
<1>4. \A k \in 1..n : \A s \in Seq(FieldIr) :
        d[k][s] = IF items[k].kind # "field" THEN s ELSE Append(s, more(k))
  OBVIOUS
<1> HIDE DEF d
<1>5. PICK f \in [0..n -> Seq(FieldIr)] : Runs(f, <<>>, d, n)
  <2>1. <<>> \in Seq(FieldIr)
    BY EmptySeq
  <2> QED
    BY <1>1, <1>3, <2>1, RunsExist
<1>6. f = step(f)
  <2>1. ASSUME NEW k \in 0..n
        PROVE  f[k] = IF k = 0 THEN <<>>
                      ELSE IF items[k].kind # "field" THEN f[k - 1]
                      ELSE Append(f[k - 1], more(k))
    <3>1. CASE k = 0
      BY <1>5, <3>1 DEF Runs
    <3>2. CASE k # 0
      <4>1. k \in 1..n /\ k - 1 \in 0..n
        BY <1>1, <3>2
      <4>2. f[k - 1] \in Seq(FieldIr) /\ f[k] = d[k][f[k - 1]]
        BY <1>5, <4>1 DEF Runs
      <4> QED
        BY <1>4, <3>2, <4>1, <4>2
    <3> QED
      BY <3>1, <3>2
  <2>2. f = [k \in 0..n |-> f[k]]
    BY <1>5
  <2> QED
    BY <2>1, <2>2
<1> DEFINE c == CHOOSE g : g = step(g)
<1>7. c = step(c)
  BY <1>6, Zenon
<1>8. Compiler!FieldsAmong(items) = c
  BY DEF Compiler!FieldsAmong, n, more
<1> HIDE DEF c
<1>9. c[0] = <<>> /\ \A k \in 1..n : c[k] = IF items[k].kind # "field" THEN c[k - 1]
                                           ELSE Append(c[k - 1], more(k))
  <2>1. \A k \in 0..n : c[k] = IF k = 0 THEN <<>>
                               ELSE IF items[k].kind # "field" THEN c[k - 1]
                               ELSE Append(c[k - 1], more(k))
    BY <1>7
  <2>2. 0 \in 0..n /\ \A k \in 1..n : k \in 0..n /\ k # 0
    BY <1>1
  <2> QED
    BY <2>1, <2>2
<1> QED
  BY <1>8, <1>9 DEF n, more

LEMMA LookupsAmongIs ==
  ASSUME NEW items \in Seq(Compiler!Item)
  PROVE  LET F == Compiler!LookupsAmong(items)
         IN  /\ F[0] = <<>>
             /\ \A k \in 1..Len(items) :
                  F[k] = IF items[k].kind # "lookup" THEN F[k - 1]
                         ELSE Append(F[k - 1], [field |-> items[k].name, unique |-> items[k].unique])
<1> DEFINE n       == Len(items)
           more(k) == [field |-> items[k].name, unique |-> items[k].unique]
           d       == [k \in 1..n |-> [s \in Seq(LookupIr) |->
                         IF items[k].kind # "lookup" THEN s ELSE Append(s, more(k))]]
           step(g) == [k \in 0..n |->
                         IF k = 0 THEN <<>>
                         ELSE IF items[k].kind # "lookup" THEN g[k - 1]
                         ELSE Append(g[k - 1], more(k))]
<1>1. n \in Nat /\ \A k \in 1..n : items[k] \in Compiler!Item
  BY LenProperties, ElementOfSeq
<1>2. \A k \in 1..n : items[k].kind = "lookup" => more(k) \in LookupIr
  BY <1>1 DEF Compiler!Item, LookupIr
<1> HIDE DEF n, more
<1>3. \A k \in 1..n : d[k] \in [Seq(LookupIr) -> Seq(LookupIr)]
  <2> TAKE k \in 1..n
  <2>1. \A s \in Seq(LookupIr) :
          (IF items[k].kind # "lookup" THEN s ELSE Append(s, more(k))) \in Seq(LookupIr)
    BY <1>2, AppendProperties
  <2> QED
    BY <2>1
<1>4. \A k \in 1..n : \A s \in Seq(LookupIr) :
        d[k][s] = IF items[k].kind # "lookup" THEN s ELSE Append(s, more(k))
  OBVIOUS
<1> HIDE DEF d
<1>5. PICK f \in [0..n -> Seq(LookupIr)] : Runs(f, <<>>, d, n)
  <2>1. <<>> \in Seq(LookupIr)
    BY EmptySeq
  <2> QED
    BY <1>1, <1>3, <2>1, RunsExist
<1>6. f = step(f)
  <2>1. ASSUME NEW k \in 0..n
        PROVE  f[k] = IF k = 0 THEN <<>>
                      ELSE IF items[k].kind # "lookup" THEN f[k - 1]
                      ELSE Append(f[k - 1], more(k))
    <3>1. CASE k = 0
      BY <1>5, <3>1 DEF Runs
    <3>2. CASE k # 0
      <4>1. k \in 1..n /\ k - 1 \in 0..n
        BY <1>1, <3>2
      <4>2. f[k - 1] \in Seq(LookupIr) /\ f[k] = d[k][f[k - 1]]
        BY <1>5, <4>1 DEF Runs
      <4> QED
        BY <1>4, <3>2, <4>1, <4>2
    <3> QED
      BY <3>1, <3>2
  <2>2. f = [k \in 0..n |-> f[k]]
    BY <1>5
  <2> QED
    BY <2>1, <2>2
<1> DEFINE c == CHOOSE g : g = step(g)
<1>7. c = step(c)
  BY <1>6, Zenon
<1>8. Compiler!LookupsAmong(items) = c
  BY DEF Compiler!LookupsAmong, n, more
<1> HIDE DEF c
<1>9. c[0] = <<>> /\ \A k \in 1..n : c[k] = IF items[k].kind # "lookup" THEN c[k - 1]
                                           ELSE Append(c[k - 1], more(k))
  <2>1. \A k \in 0..n : c[k] = IF k = 0 THEN <<>>
                               ELSE IF items[k].kind # "lookup" THEN c[k - 1]
                               ELSE Append(c[k - 1], more(k))
    BY <1>7
  <2>2. 0 \in 0..n /\ \A k \in 1..n : k \in 0..n /\ k # 0
    BY <1>1
  <2> QED
    BY <2>1, <2>2
<1> QED
  BY <1>8, <1>9 DEF n, more

-----------------------------------------------------------------------------
(* Reading the text of a schema.                                           *)

LEMMA MarksDiffer ==
  "Semicolon" \notin Compiler!Identifiers /\ "RBrace" \notin Compiler!Identifiers
    /\ "end" \notin Compiler!Identifiers
BY WordsAssumption DEF Compiler!Punctuation

LEMMA ItemAt ==
  ASSUME NEW src \in Seq(Token), NEW x \in Nat, NEW t \in Compiler!Written, NEW d,
         TableAt(src, x, t, d), NEW k \in 1..Len(t.items)
  PROVE  /\ t.items[k] \in Compiler!Item
         /\ d[k - 1] \in Nat /\ d[k] \in Nat
         /\ d[k] = d[k - 1] + Len(Compiler!Tokens(t.items[k]))
         /\ Behind(src, d[k - 1], Compiler!Tokens(t.items[k]))
<1>1. /\ t.items[k] \in Compiler!Item
      /\ ItemTexts(t)[k] = Compiler!Tokens(t.items[k]) /\ Len(t.items) \in Nat
  BY WrittenType
<1>2. k - 1 \in 0..Len(t.items) /\ k \in 0..Len(t.items)
  BY <1>1
<1> QED
  BY <1>1, <1>2 DEF TableAt, Chained

(* Behind a declaration is neither a semicolon nor the end; a word unique   *)
(* there is the name of a field, the next declaration.                     *)
LEMMA NextToken ==
  ASSUME NEW src \in Seq(Token), NEW x \in Nat, NEW t \in Compiler!Written, NEW d,
         TableAt(src, x, t, d), NEW k \in 0..Len(t.items)
  PROVE  /\ d[k] \in Nat /\ d[k] + 1 <= Len(src)
         /\ src[d[k] + 1] # "Semicolon"
         /\ src[d[k] + 1] = "unique" =>
              /\ k + 1 \in 1..Len(t.items)
              /\ t.items[k + 1].kind = "field" /\ t.items[k + 1].name = "unique"
<1>1. Len(t.items) \in Nat /\ Len(src) \in Nat
  BY WrittenType, LenProperties
<1>2. d[k] \in Nat
  BY DEF TableAt, Chained
<1>3. CASE k = Len(t.items)
  BY <1>2, <1>3 DEF TableAt
<1>4. CASE k # Len(t.items)
  <2>1. PICK j \in 1..Len(t.items) : j = k + 1
    BY <1>1, <1>4
  <2>2. PICK item \in Compiler!Item : item = t.items[j]
    BY ItemAt
  <2>3. j - 1 = k
    BY <2>1
  <2>4. Behind(src, d[k], Compiler!Tokens(item))
    BY <2>2, <2>3, ItemAt
  <2>5. PICK text \in Seq(Mark) : text = Compiler!Tokens(item)
    BY TokensOf
  <2>6. Len(text) \in Nat /\ Len(text) >= 2
    BY <2>5, TokensOf, LenProperties
  <2>7. d[k] + 2 <= Len(src) /\ src[d[k] + 1] = text[1] /\ src[d[k] + 2] = text[2]
    <3>1. /\ d[k] + Len(text) <= Len(src)
          /\ \A i \in 1..Len(text) : src[d[k] + i] = text[i]
      BY <2>4, <2>5 DEF Behind
    <3>2. 1 \in 1..Len(text) /\ 2 \in 1..Len(text)
      BY <2>6
    <3>3. d[k] + 2 <= Len(src)
      BY <1>1, <1>2, <2>6, <3>1
    <3> QED
      BY <3>1, <3>2, <3>3
  <2>8. CASE item.kind = "field"
    <3>1. text[1] = item.name /\ text[2] = item.type
      BY <2>5, <2>8, TokensOf
    <3>2. item.name \in Compiler!Identifiers
      BY <2>8 DEF Compiler!Item
    <3>3. k + 1 \in 1..Len(t.items) /\ item = t.items[k + 1]
      BY <2>1, <2>2
    <3>4. src[d[k] + 1] = item.name /\ d[k] + 1 <= Len(src)
      BY <1>1, <1>2, <2>7, <3>1
    <3> QED
      BY <1>2, <2>8, <3>2, <3>3, <3>4, MarksDiffer
  <2>9. CASE item.kind = "lookup"
    <3>1. text[1] = "lookup"
      BY <2>5, <2>9, TokensOf
    <3> QED
      BY <1>1, <1>2, <2>7, <3>1
  <2>10. item.kind \in {"field", "lookup"}
    BY TokensOf
  <2> QED
    BY <2>8, <2>9, <2>10
<1> QED
  BY <1>3, <1>4

(* What the parser sees of a declaration, and where it is behind it. *)
LEMMA ItemSeen ==
  ASSUME CompilerTypes, NEW x \in Nat, NEW t \in Compiler!Written, NEW d,
         TableAt(source, x, t, d), NEW k \in 1..Len(t.items), pos = d[k - 1],
         ~Compiler!RunsTogether(t.items), NEW item, item = t.items[k]
  PROVE  /\ item.kind = "field" =>
              /\ Compiler!Peek(1) = item.name /\ Compiler!Peek(2) = item.type
              /\ Compiler!Consumed(2) = d[k]
         /\ item.kind = "lookup" =>
              /\ Compiler!Peek(1) = "lookup" /\ Compiler!Peek(2) = item.name
              /\ (Compiler!Peek(3) = "unique") <=> item.unique
              /\ Compiler!Consumed(IF item.unique THEN 3 ELSE 2) = d[k]
<1>1. source \in Seq(Token) /\ Len(source) \in Nat /\ pos \in Nat
  BY LenProperties DEF CompilerTypes
<1>2. /\ item \in Compiler!Item /\ d[k] \in Nat
      /\ d[k] = pos + Len(Compiler!Tokens(item)) /\ Behind(source, pos, Compiler!Tokens(item))
  BY <1>1, ItemAt
<1>3. PICK text \in Seq(Mark) : text = Compiler!Tokens(item)
  BY <1>2, TokensOf
<1>4. PICK n \in Nat : n = Len(text)
  BY LenProperties
<1>5. /\ n >= 2 /\ d[k] = pos + n
      /\ \A i \in 1..n : pos + i <= Len(source) /\ Compiler!Peek(i) = text[i]
  <2>1. n >= 2 /\ d[k] = pos + n
    BY <1>2, <1>3, <1>4, TokensOf
  <2>2. pos + n <= Len(source) /\ \A i \in 1..n : source[pos + i] = text[i]
    BY <1>2, <1>3, <1>4 DEF Behind
  <2>3. \A i \in 1..n : pos + i <= Len(source)
    BY <1>1, <2>2
  <2> QED
    BY <2>1, <2>2, <2>3 DEF Compiler!Peek
<1>6. /\ Compiler!Peek(n + 1) = source[d[k] + 1] /\ d[k] + 1 <= Len(source)
      /\ Compiler!Peek(n + 1) # "Semicolon"
      /\ Compiler!Peek(n + 1) = "unique" =>
           /\ k + 1 \in 1..Len(t.items)
           /\ t.items[k + 1].kind = "field" /\ t.items[k + 1].name = "unique"
  <2>1. k \in 0..Len(t.items)
    BY WrittenType
  <2>2. /\ d[k] + 1 <= Len(source) /\ source[d[k] + 1] # "Semicolon"
        /\ source[d[k] + 1] = "unique" =>
             /\ k + 1 \in 1..Len(t.items)
             /\ t.items[k + 1].kind = "field" /\ t.items[k + 1].name = "unique"
    BY <1>1, <2>1, NextToken
  <2>3. pos + (n + 1) = d[k] + 1
    <3>1. \A p \in Nat : p + (n + 1) = (p + n) + 1
      OBVIOUS
    <3>2. pos \in Nat /\ d[k] = pos + n
      BY <1>1, <1>5
    <3>3. pos + (n + 1) = (pos + n) + 1
      BY <3>1, <3>2
    <3> QED
      BY <3>2, <3>3, Zenon
  <2>4. Compiler!Peek(n + 1) = source[d[k] + 1]
    BY <2>2, <2>3 DEF Compiler!Peek
  <2> QED
    BY <2>2, <2>4
<1>7. ASSUME NEW m \in Nat, n = m + 1, text[m + 1] = "Semicolon"
      PROVE  Compiler!Consumed(m) = d[k]
  <2>1. Compiler!Peek(m + 1) = "Semicolon"
    BY <1>5, <1>7
  <2>2. Compiler!Consumed(m) = pos + m + 1
    BY <2>1 DEF Compiler!Consumed
  <2>3. pos \in Nat /\ d[k] = pos + (m + 1)
    BY <1>1, <1>5, <1>7
  <2>4. \A p \in Nat : p + (m + 1) = (p + m) + 1
    OBVIOUS
  <2>5. pos + (m + 1) = (pos + m) + 1
    BY <2>3, <2>4
  <2> QED
    BY <2>2, <2>3, <2>5, Zenon
<1>8. Compiler!Consumed(n) = d[k]
  <2>1. Compiler!Consumed(n) = pos + n + 0
    BY <1>6 DEF Compiler!Consumed
  <2> QED
    BY <1>1, <1>5, <2>1
<1>9. item.semicolon \in BOOLEAN /\ (item.semicolon => text[n] = "Semicolon")
  <2>1. item.semicolon \in BOOLEAN
    BY <1>2 DEF Compiler!Item
  <2> QED
    BY <1>2, <1>3, <1>4, <2>1, TokensOf
<1>10. CASE item.kind = "field"
  <2>1. n = (IF item.semicolon THEN 3 ELSE 2) /\ text[1] = item.name /\ text[2] = item.type
    BY <1>2, <1>3, <1>4, <1>10, TokensOf
  <2>2. Compiler!Peek(1) = item.name /\ Compiler!Peek(2) = item.type
    BY <1>5, <2>1
  <2>3. Compiler!Consumed(2) = d[k]
    <3>1. CASE item.semicolon
      <4>1. n = 2 + 1 /\ text[2 + 1] = "Semicolon"
        BY <1>9, <2>1, <3>1
      <4> QED
        BY <1>7, <4>1
    <3>2. CASE ~item.semicolon
      BY <1>8, <2>1, <3>2
    <3> QED
      BY <3>1, <3>2
  <2> QED
    BY <1>10, <2>2, <2>3
<1>11. CASE item.kind = "lookup"
  <2>0. item.unique \in BOOLEAN
    BY <1>2, <1>11 DEF Compiler!Item
  <2>1. /\ n = (IF item.unique THEN 3 ELSE 2) + (IF item.semicolon THEN 1 ELSE 0)
        /\ text[1] = "lookup" /\ text[2] = item.name /\ (item.unique => text[3] = "unique")
    BY <1>2, <1>3, <1>4, <1>11, TokensOf
  <2>2. Compiler!Peek(1) = "lookup" /\ Compiler!Peek(2) = item.name
    BY <1>5, <2>1
  <2>3. CASE item.unique
    <3>1. Compiler!Peek(3) = "unique"
      <4>1. 3 \in 1..n
        BY <2>1, <2>3
      <4> QED
        BY <1>5, <2>1, <2>3, <4>1
    <3>2. Compiler!Consumed(3) = d[k]
      <4>1. CASE item.semicolon
        <5>1. n = 3 + 1 /\ text[3 + 1] = "Semicolon"
          BY <1>9, <2>1, <2>3, <4>1
        <5> QED
          BY <1>7, <5>1
      <4>2. CASE ~item.semicolon
        <5>1. n = 3
          BY <2>1, <2>3, <4>2
        <5> QED
          BY <1>8, <5>1
      <4> QED
        BY <4>1, <4>2
    <3> QED
      BY <1>11, <2>2, <2>3, <3>1, <3>2
  <2>4. CASE ~item.unique
    <3>1. CASE item.semicolon
      <4>1. n = 2 + 1 /\ text[2 + 1] = "Semicolon" /\ 3 \in 1..n
        BY <1>9, <2>1, <2>4, <3>1
      <4>2. Compiler!Consumed(2) = d[k]
        BY <1>7, <4>1
      <4>3. Compiler!Peek(3) # "unique"
        BY <1>5, <4>1
      <4> QED
        BY <1>11, <2>2, <2>4, <4>2, <4>3
    <3>2. CASE ~item.semicolon
      <4>1. n = 2
        BY <2>1, <2>4, <3>2
      <4>2. Compiler!Consumed(2) = d[k]
        BY <1>8, <4>1
      <4>3. Compiler!Peek(3) # "unique"
        <5> SUFFICES ASSUME Compiler!Peek(3) = "unique" PROVE FALSE
          OBVIOUS
        <5>1. /\ k + 1 \in 1..Len(t.items)
              /\ t.items[k + 1].kind = "field" /\ t.items[k + 1].name = "unique"
          BY <1>6, <4>1
        <5>2. PICK i \in 2..Len(t.items) : i = k + 1 /\ i - 1 = k
          BY <5>1
        <5>3. /\ t.items[i - 1].kind = "lookup" /\ t.items[i - 1].unique = FALSE
              /\ t.items[i - 1].semicolon = FALSE
          BY <1>9, <1>11, <2>0, <2>4, <3>2, <5>2
        <5>4. t.items[i].kind = "field" /\ t.items[i].name = "unique"
          BY <5>1, <5>2
        <5> QED
          BY <5>3, <5>4 DEF Compiler!RunsTogether
      <4> QED
        BY <1>11, <2>2, <2>4, <4>2, <4>3
    <3> QED
      BY <3>1, <3>2
  <2> QED
    BY <2>0, <2>3, <2>4
<1>12. item.kind \in {"field", "lookup"}
  BY <1>2, TokensOf
<1> QED
  BY <1>10, <1>11, <1>12

(* What has been read: the first tables, and the first items of a table. *)
TablesTo(schema, k) == [i \in 1..k |-> Compiler!TableOf(schema[i])]

TableTo(t, j) ==
  [name    |-> t.name,
   fields  |-> Compiler!FieldsAmong(t.items)[j],
   lookups |-> Compiler!LookupsAmong(t.items)[j]]

(* The parser is behind the first tables of its text. *)
AtTables(src, text, p, ts) ==
  \E c : /\ SchemaAt(src, text, c)
         /\ \E k \in 0..Len(text.tables) : p = c[k] /\ ts = TablesTo(text.tables, k)

(* It is behind the first items of a table. *)
AtItems(src, text, p, ts, t) ==
  \E c, d : /\ SchemaAt(src, text, c)
            /\ \E k \in 1..Len(text.tables) :
                 /\ TableAt(src, c[k - 1], text.tables[k], d) /\ ts = TablesTo(text.tables, k - 1)
                 /\ \E j \in 0..Len(text.tables[k].items) :
                      p = d[j] /\ t = TableTo(text.tables[k], j)

Readable == written.form # "none" /\ ~Compiler!Ambiguous(written)

(* A list that no brace closes comes to an error at its end. *)
Progress ==
  /\ written.form # "bare" => outcome # "error"
  /\ pc = "schema" => pos = 0 /\ tables = <<>>
  /\ pc = "tables" => AtTables(source, written, pos, tables)
  /\ pc = "items" => AtItems(source, written, pos, tables, table)
  /\ Compiler!Parsed => written.form # "bare" /\ tables = Compiler!SchemaOf(written.tables)

ReadInv ==
  /\ written \in Compiler!Text \cup {Compiler!NoText}
  /\ written # Compiler!NoText => source = Compiler!TextTokens(written)
  /\ Readable => Progress

LEMMA ReadInit ==
  ASSUME Compiler!Init
  PROVE  ReadInv
<1>1. PICK s \in Sources : source = s.tokens /\ written = s.written
  BY DEF Compiler!Init
<1>2. /\ written \in Compiler!Text \cup {Compiler!NoText}
      /\ written # Compiler!NoText => source = Compiler!TextTokens(written)
  BY <1>1, SourcesAssumption
<1>3. Progress
  BY DEF Compiler!Init, Progress, Compiler!Parsed
<1> QED
  BY <1>2, <1>3 DEF ReadInv

LEMMA TextRead ==
  ASSUME ReadInv, Readable
  PROVE  /\ written \in Compiler!Text /\ source = Compiler!TextTokens(written)
         /\ written.tables \in Seq(Compiler!Written) /\ Progress
         /\ \A k \in 1..Len(written.tables) :
              ~Compiler!RunsTogether(written.tables[k].items)
<1>1. written # Compiler!NoText
  BY DEF Readable, Compiler!NoText
<1>2. written \in Compiler!Text /\ source = Compiler!TextTokens(written) /\ Progress
  BY <1>1 DEF ReadInv
<1>3. written.tables \in Seq(Compiler!Written)
  BY <1>2, TextType
<1>4. DOMAIN written.tables = 1..Len(written.tables)
  BY <1>3, LenProperties
<1> QED
  BY <1>2, <1>3, <1>4 DEF Readable, Compiler!Ambiguous

LEMMA NoneRead ==
  ASSUME NEW schema \in Seq(Compiler!Written)
  PROVE  TablesTo(schema, 0) = <<>>
BY DEF TablesTo

LEMMA OneMoreRead ==
  ASSUME NEW schema \in Seq(Compiler!Written), NEW k \in 1..Len(schema)
  PROVE  /\ TablesTo(schema, k)
              = Append(TablesTo(schema, k - 1), TableTo(schema[k], Len(schema[k].items)))
         /\ schema[k] \in Compiler!Written
<1>1. Len(schema) \in Nat /\ DOMAIN schema = 1..Len(schema) /\ k - 1 \in Nat
  BY LenProperties
<1>2. schema[k] \in Compiler!Written
  BY <1>1, ElementOfSeq
<1>3. PICK m \in Nat : m = k - 1
  BY <1>1
<1>4. PICK last : last = Compiler!TableOf(schema[k]) /\ last = TableTo(schema[k], Len(schema[k].items))
  BY DEF Compiler!TableOf, TableTo
<1>5. PICK ts : ts = TablesTo(schema, m)
  OBVIOUS
<1>6. ts = [i \in 1..m |-> Compiler!TableOf(schema[i])]
  BY <1>5 DEF TablesTo
<1>7. Append(ts, last) = [i \in 1..(m + 1) |-> IF i = m + 1 THEN last ELSE ts[i]]
  <2>1. Len(ts) = m
    BY <1>6
  <2> QED
    BY <1>6, <2>1
<1>8. \A i \in 1..k : (IF i = m + 1 THEN last ELSE ts[i]) = Compiler!TableOf(schema[i])
  <2> TAKE i \in 1..k
  <2>1. CASE i = m + 1
    <3>1. i = k
      BY <1>3, <2>1
    <3>2. Compiler!TableOf(schema[i]) = last
      BY <1>4, <3>1
    <3> QED
      BY <2>1, <3>2
  <2>2. CASE i # m + 1
    <3>1. i \in 1..m
      BY <1>3, <2>2
    <3> QED
      BY <1>6, <2>2, <3>1
  <2> QED
    BY <2>1, <2>2
<1>9. m + 1 = k
  BY <1>3
<1>10. TablesTo(schema, k) = [i \in 1..(m + 1) |-> IF i = m + 1 THEN last ELSE ts[i]]
  BY <1>8, <1>9 DEF TablesTo
<1> QED
  BY <1>2, <1>3, <1>4, <1>5, <1>7, <1>10

(* A list does not begin like a block. *)
LEMMA ListStart ==
  ASSUME NEW src \in Seq(Token), NEW text \in Compiler!Text, text.form # "block",
         ~Compiler!LooksLikeBlock(text), NEW c, SchemaAt(src, text, c), 1 <= Len(src)
  PROVE  src[1] # "schema"
<1>1. PICK n \in Nat : n = Len(text.tables) /\ DOMAIN text.tables = 1..n
  BY TextType, LenProperties
<1>2. c[0] = 0
  BY DEF SchemaAt
<1>3. CASE n = 0
  <2>1. text.form = "bare" => Len(src) = 0
    BY <1>1, <1>2, <1>3 DEF SchemaAt
  <2>2. text.form # "bare" => src[1] = "RBrace"
    BY <1>1, <1>2, <1>3 DEF SchemaAt
  <2> QED
    BY <2>1, <2>2
<1>4. CASE n # 0
  <2>1. 1 \in 1..n /\ text.tables # <<>>
    BY <1>1, <1>4
  <2>2. PICK t \in Compiler!Written : t = text.tables[1]
    BY <1>1, <2>1, TextType, ElementOfSeq
  <2>3. Behind(src, 0, Compiler!TableText(t))
    <3>1. TableTexts(text.tables)[1] = Compiler!TableText(t)
      BY <1>1, <2>1, <2>2 DEF TableTexts
    <3>2. Behind(src, c[1 - 1], TableTexts(text.tables)[1])
      BY <1>1, <2>1 DEF SchemaAt, Chained
    <3>3. c[1 - 1] = 0
      BY <1>2
    <3> QED
      BY <3>1, <3>2, <3>3
  <2>4. PICK z \in Nat : z = 0
    OBVIOUS
  <2>5. PICK d : TableAt(src, z, t, d)
    BY <2>3, <2>4, TableLaid
  <2>6. src[1] = t.name
    <3>1. src[z + 1] = t.name /\ z + 1 = 1
      BY <2>4, <2>5 DEF TableAt
    <3> QED
      BY <3>1
  <2> QED
    BY <2>1, <2>2, <2>6 DEF Compiler!LooksLikeBlock
<1> QED
  BY <1>3, <1>4

LEMMA ReadSchema ==
  ASSUME CompilerInv, ReadInv, Readable, Compiler!ParseSchema
  PROVE  Progress'
<1>1. PICK text \in Compiler!Text :
        text = written /\ source = Compiler!TextTokens(text) /\ Progress
  BY TextRead
<1>2. /\ pc = "schema" /\ pos = 0 /\ tables = <<>> /\ outcome = "none"
      /\ CompilerTypes /\ source \in Seq(Token) /\ Len(source) \in Nat
  BY <1>1, LenProperties
     DEF Progress, CompilerInv, CompilerTypes, CompilerResult, Compiler!ParseSchema
<1>3. PICK c : SchemaAt(source, text, c)
  BY <1>1, <1>2, SchemaLaid
<1>4. PICK h \in {0, 3} : h = c[0] /\ h = IF text.form = "block" THEN 3 ELSE 0
  BY <1>3 DEF SchemaAt
<1>5. Compiler!Read(h, "tables") /\ UNCHANGED <<tables, table>>
  <2>1. CASE text.form = "block"
    <3>1. /\ Len(source) >= 3 /\ source[1] = "schema" /\ source[2] = "Bang"
          /\ source[3] = "LBrace"
      BY <1>3, <2>1 DEF SchemaAt
    <3>2. pos + 1 = 1 /\ pos + 2 = 2 /\ pos + 3 = 3
      BY <1>2
    <3>3. /\ Compiler!Peek(1) = "schema" /\ Compiler!Peek(2) = "Bang"
          /\ Compiler!Peek(3) = "LBrace"
      BY <1>2, <3>1, <3>2 DEF Compiler!Peek
    <3> QED
      BY <1>4, <2>1, <3>3 DEF Compiler!ParseSchema
  <2>2. CASE text.form # "block"
    <3>1. ~Compiler!LooksLikeBlock(text)
      BY <1>1 DEF Readable, Compiler!Ambiguous
    <3>2. 1 <= Len(source) => source[1] # "schema"
      BY <1>2, <1>3, <2>2, <3>1, ListStart
    <3>3. Compiler!Peek(1) # "schema"
      <4>1. pos + 1 = 1
        BY <1>2
      <4> QED
        BY <1>2, <3>2, <4>1 DEF Compiler!Peek
    <3> QED
      BY <1>4, <2>2, <3>3 DEF Compiler!ParseSchema
  <2> QED
    BY <2>1, <2>2
<1>6. /\ source' = source /\ written' = written /\ outcome' = outcome
      /\ pc' = "tables" /\ pos' = h /\ tables' = tables
  BY <1>2, <1>4, <1>5 DEF Compiler!Read
<1>7. AtTables(source, text, h, tables)
  <2>1. 0 \in 0..Len(text.tables)
    BY TextType, LenProperties
  <2>2. tables = TablesTo(text.tables, 0)
    BY <1>2, TextType, NoneRead
  <2> QED
    BY <1>3, <1>4, <2>1, <2>2 DEF AtTables
<1>8. AtTables(source', written', pos', tables')
  BY <1>1, <1>6, <1>7
<1>9. ~Compiler!Parsed'
  BY <1>2, <1>6 DEF Compiler!Parsed
<1> QED
  BY <1>2, <1>6, <1>8, <1>9 DEF Progress

LEMMA ReadTableList ==
  ASSUME CompilerInv, ReadInv, Readable, Compiler!ParseTableList
  PROVE  Progress'
<1>1. PICK schema \in Seq(Compiler!Written) : schema = written.tables /\ Progress
  BY TextRead
<1>2. /\ pc = "tables" /\ AtTables(source, written, pos, tables) /\ outcome = "none"
      /\ CompilerTypes /\ source \in Seq(Token) /\ Len(source) \in Nat /\ pos \in Nat
  BY <1>1, LenProperties
     DEF Progress, CompilerInv, CompilerTypes, CompilerResult, Compiler!ParseTableList
<1>3. PICK c : /\ SchemaAt(source, written, c)
               /\ \E k \in 0..Len(schema) : pos = c[k] /\ tables = TablesTo(schema, k)
  BY <1>1, <1>2 DEF AtTables
<1>4. PICK k \in 0..Len(schema) : pos = c[k] /\ tables = TablesTo(schema, k)
  BY <1>3
<1>5. PICK n \in Nat : n = Len(schema) /\ DOMAIN schema = 1..n
  BY LenProperties
<1>6. CASE k = n /\ written.form # "bare"
  <2>1. source[pos + 1] = "RBrace" /\ pos + 1 <= Len(source)
    BY <1>1, <1>3, <1>4, <1>5, <1>6 DEF SchemaAt
  <2>2. Compiler!Peek(1) = "RBrace" /\ ~Compiler!IsIdent(Compiler!Peek(1))
    BY <2>1, MarksDiffer DEF Compiler!Peek, Compiler!IsIdent
  <2>3. /\ Compiler!Read(IF wrapped THEN 1 ELSE 0, "validate")
        /\ UNCHANGED <<wrapped, tables, table>>
    BY <2>2 DEF Compiler!ParseTableList
  <2>4. written' = written /\ outcome' = outcome /\ pc' = "validate" /\ tables' = tables
    BY <2>3 DEF Compiler!Read
  <2>5. tables' = Compiler!SchemaOf(written'.tables)
    BY <1>1, <1>4, <1>5, <1>6, <2>4 DEF Compiler!SchemaOf, TablesTo
  <2> QED
    BY <1>2, <1>6, <2>4, <2>5 DEF Progress
<1>7. CASE k = n /\ written.form = "bare"
  <2>1. pos = Len(source)
    BY <1>1, <1>3, <1>4, <1>5, <1>7 DEF SchemaAt
  <2>2. Compiler!Peek(1) = "end" /\ ~Compiler!IsIdent(Compiler!Peek(1))
    BY <1>2, <2>1, MarksDiffer DEF Compiler!Peek, Compiler!IsIdent
  <2>3. Compiler!Fail
    BY <2>2 DEF Compiler!ParseTableList
  <2>4. written' = written /\ outcome' = "error" /\ pc' = "done"
    BY <2>3 DEF Compiler!Fail
  <2>5. ~Compiler!Parsed'
    BY <2>4 DEF Compiler!Parsed
  <2> QED
    BY <1>7, <2>4, <2>5 DEF Progress
<1>8. CASE k # n
  <2>1. PICK l \in 1..Len(schema) : l = k + 1
    BY <1>5, <1>8
  <2>2. l - 1 = k
    BY <2>1
  <2>3. PICK t \in Compiler!Written : t = schema[l]
    BY OneMoreRead
  <2>4. Behind(source, pos, Compiler!TableText(t))
    <3>1. TableTexts(schema)[l] = Compiler!TableText(t)
      BY <1>5, <2>3 DEF TableTexts
    <3> QED
      BY <1>1, <1>3, <1>4, <2>2, <3>1 DEF SchemaAt, Chained
  <2>5. PICK d : TableAt(source, pos, t, d)
    BY <1>2, <2>4, TableLaid
  <2>6. PICK m \in Nat : m = Len(t.items)
    BY WrittenType
  <2>7. d[0] \in Nat /\ d[0] + 1 <= Len(source) /\ d[0] = pos + 2
    <3>1. 0 \in 0..Len(t.items)
      BY <2>6
    <3>2. d[0] \in Nat /\ d[0] + 1 <= Len(source)
      BY <1>2, <2>5, <3>1, NextToken
    <3> QED
      BY <2>5, <3>2 DEF TableAt
  <2>8. /\ Compiler!Peek(1) = t.name /\ Compiler!Peek(2) = "LBrace"
        /\ Compiler!IsIdent(Compiler!Peek(1)) /\ Compiler!Peek(1) # "RBrace"
    <3>1. source[pos + 1] = t.name /\ source[pos + 2] = "LBrace"
      BY <2>5 DEF TableAt
    <3>2. pos + 1 <= Len(source) /\ pos + 2 <= Len(source)
      BY <1>2, <2>7
    <3>3. t.name \in Compiler!Identifiers
      BY WrittenType
    <3> QED
      BY <3>1, <3>2, <3>3, MarksDiffer DEF Compiler!Peek, Compiler!IsIdent
  <2>9. /\ table' = [Compiler!NoTable EXCEPT !.name = t.name]
        /\ Compiler!Read(2, "items") /\ UNCHANGED <<wrapped, tables>>
    BY <2>8 DEF Compiler!ParseTableList
  <2>10. /\ source' = source /\ written' = written /\ outcome' = outcome
         /\ pc' = "items" /\ pos' = d[0] /\ tables' = tables
    BY <2>7, <2>9 DEF Compiler!Read
  <2>11. table' = TableTo(t, 0)
    <3>1. Compiler!FieldsAmong(t.items)[0] = <<>> /\ Compiler!LookupsAmong(t.items)[0] = <<>>
      BY WrittenType, FieldsAmongIs, LookupsAmongIs
    <3> QED
      BY <2>9, <3>1 DEF TableTo, Compiler!NoTable
  <2>12. AtItems(source, written, d[0], tables, TableTo(t, 0))
    <3>1. TableAt(source, c[l - 1], schema[l], d) /\ tables = TablesTo(schema, l - 1)
      BY <1>4, <2>2, <2>3, <2>5
    <3>2. 0 \in 0..Len(schema[l].items) /\ TableTo(t, 0) = TableTo(schema[l], 0)
      BY <2>3, <2>6
    <3> QED
      BY <1>1, <1>3, <3>1, <3>2 DEF AtItems
  <2>13. AtItems(source', written', pos', tables', table')
    BY <2>10, <2>11, <2>12
  <2>14. ~Compiler!Parsed'
    BY <1>2, <2>10 DEF Compiler!Parsed
  <2> QED
    BY <1>2, <2>10, <2>13, <2>14 DEF Progress
<1> QED
  BY <1>6, <1>7, <1>8

(* One item more is read of a table. *)
LEMMA TableToNext ==
  ASSUME NEW t \in Compiler!Written, NEW k \in 1..Len(t.items)
  PROVE  TableTo(t, k) =
           IF t.items[k].kind = "field"
             THEN [TableTo(t, k - 1) EXCEPT !.fields =
                     Append(@, [name |-> t.items[k].name, type |-> t.items[k].type])]
             ELSE [TableTo(t, k - 1) EXCEPT !.lookups =
                     Append(@, [field |-> t.items[k].name, unique |-> t.items[k].unique])]
<1>1. PICK F : /\ F = Compiler!FieldsAmong(t.items)
               /\ F[k] = IF t.items[k].kind # "field" THEN F[k - 1]
                         ELSE Append(F[k - 1],
                                     [name |-> t.items[k].name, type |-> t.items[k].type])
  BY WrittenType, FieldsAmongIs
<1>2. PICK L : /\ L = Compiler!LookupsAmong(t.items)
               /\ L[k] = IF t.items[k].kind # "lookup" THEN L[k - 1]
                         ELSE Append(L[k - 1],
                                     [field |-> t.items[k].name, unique |-> t.items[k].unique])
  BY WrittenType, LookupsAmongIs
<1>3. t.items[k].kind \in {"field", "lookup"}
  BY WrittenType, TokensOf
<1>4. \A j : TableTo(t, j) = [name |-> t.name, fields |-> F[j], lookups |-> L[j]]
  BY <1>1, <1>2 DEF TableTo
<1>5. PICK read : read = TableTo(t, k - 1)
  OBVIOUS
<1>6. /\ TableTo(t, k) = [name |-> t.name, fields |-> F[k], lookups |-> L[k]]
      /\ read = [name |-> t.name, fields |-> F[k - 1], lookups |-> L[k - 1]]
  BY <1>4, <1>5
<1>7. CASE t.items[k].kind = "field"
  <2>1. PICK item : item = [name |-> t.items[k].name, type |-> t.items[k].type]
    OBVIOUS
  <2>2. PICK more : more = Append(F[k - 1], item)
    OBVIOUS
  <2>3. L[k] = L[k - 1] /\ F[k] = more
    BY <1>1, <1>2, <1>7, <2>1, <2>2
  <2>4. more = Append(read.fields, item)
    BY <1>6, <2>2
  <2>5. TableTo(t, k) = [read EXCEPT !.fields = more]
    BY <1>6, <2>3
  <2> QED
    BY <1>5, <1>7, <2>1, <2>4, <2>5
<1>8. CASE t.items[k].kind = "lookup"
  <2>1. PICK item : item = [field |-> t.items[k].name, unique |-> t.items[k].unique]
    OBVIOUS
  <2>2. PICK more : more = Append(L[k - 1], item)
    OBVIOUS
  <2>3. F[k] = F[k - 1] /\ L[k] = more
    BY <1>1, <1>2, <1>8, <2>1, <2>2
  <2>4. more = Append(read.lookups, item)
    BY <1>6, <2>2
  <2>5. TableTo(t, k) = [read EXCEPT !.lookups = more]
    BY <1>6, <2>3
  <2> QED
    BY <1>5, <1>8, <2>1, <2>4, <2>5
<1> QED
  BY <1>3, <1>7, <1>8

LEMMA ReadItems ==
  ASSUME CompilerInv, ReadInv, Readable,
         \/ Compiler!ParseLookup \/ Compiler!ParseField \/ Compiler!EndTable \/ Compiler!BadItem
  PROVE  Progress'
<1>1. PICK schema \in Seq(Compiler!Written) : schema = written.tables /\ Progress
  BY TextRead
<1>2. /\ pc = "items" /\ AtItems(source, written, pos, tables, table) /\ outcome = "none"
      /\ CompilerTypes /\ source \in Seq(Token) /\ Len(source) \in Nat /\ pos \in Nat
  BY <1>1, LenProperties
     DEF Progress, CompilerInv, CompilerTypes, CompilerResult, Compiler!ParseLookup,
         Compiler!ParseField, Compiler!EndTable, Compiler!BadItem
<1>3. PICK c, d :
        /\ SchemaAt(source, written, c)
        /\ \E k \in 1..Len(schema) :
             /\ TableAt(source, c[k - 1], schema[k], d) /\ tables = TablesTo(schema, k - 1)
             /\ \E j \in 0..Len(schema[k].items) : pos = d[j] /\ table = TableTo(schema[k], j)
  BY <1>1, <1>2 DEF AtItems
<1>4. PICK k \in 1..Len(schema) :
        /\ TableAt(source, c[k - 1], schema[k], d) /\ tables = TablesTo(schema, k - 1)
        /\ \E j \in 0..Len(schema[k].items) : pos = d[j] /\ table = TableTo(schema[k], j)
  BY <1>3
<1>5. PICK t \in Compiler!Written, n \in Nat : t = schema[k] /\ n = Len(t.items)
  BY OneMoreRead, WrittenType
<1>6. PICK j \in 0..n : pos = d[j] /\ table = TableTo(t, j)
  BY <1>4, <1>5
<1>7. PICK x \in Nat : x = c[k - 1] /\ TableAt(source, x, t, d)
  <2>1. k - 1 \in 0..Len(schema)
    BY LenProperties
  <2> QED
    BY <1>1, <1>3, <1>4, <1>5, <2>1 DEF SchemaAt, Chained
<1>8. \A l \in 0..n : AtItems(source, written, d[l], tables, TableTo(t, l))
  <2> TAKE l \in 0..n
  <2>1. l \in 0..Len(schema[k].items) /\ TableTo(t, l) = TableTo(schema[k], l)
    BY <1>5
  <2> QED
    BY <1>1, <1>3, <1>4, <2>1 DEF AtItems
<1>9. CASE j = n
  <2>1. source[pos + 1] = "RBrace" /\ pos + 1 <= Len(source)
    BY <1>5, <1>6, <1>7, <1>9 DEF TableAt
  <2>2. Compiler!Peek(1) = "RBrace" /\ ~Compiler!IsIdent(Compiler!Peek(1))
    BY <2>1, MarksDiffer DEF Compiler!Peek, Compiler!IsIdent
  <2>3. Compiler!EndTable
    BY <2>2 DEF Compiler!ParseLookup, Compiler!ParseField, Compiler!BadItem
  <2>4. /\ source' = source /\ written' = written /\ outcome' = outcome
        /\ pc' = "tables" /\ pos' = pos + 1 /\ tables' = Append(tables, table)
    BY <2>3 DEF Compiler!EndTable, Compiler!Read
  <2>5. c[k] = pos + 1
    <3>1. TableTexts(schema)[k] = Compiler!TableText(t)
      BY <1>5, LenProperties DEF TableTexts
    <3>2. c[k] = x + Len(Compiler!TableText(t))
      BY <1>1, <1>3, <1>7, <3>1 DEF SchemaAt, Chained
    <3> QED
      BY <1>5, <1>6, <1>7, <1>9, <3>2 DEF TableAt
  <2>6. tables' = TablesTo(schema, k)
    BY <1>4, <1>5, <1>6, <1>9, <2>4, OneMoreRead
  <2>7. AtTables(source, written, pos', tables')
    <3>1. k \in 0..Len(schema)
      BY LenProperties
    <3> QED
      BY <1>1, <1>3, <2>4, <2>5, <2>6, <3>1 DEF AtTables
  <2>8. AtTables(source', written', pos', tables')
    BY <2>4, <2>7
  <2>9. ~Compiler!Parsed'
    BY <1>2, <2>4 DEF Compiler!Parsed
  <2> QED
    BY <1>2, <2>4, <2>8, <2>9 DEF Progress
<1>10. CASE j # n
  <2>1. PICK l \in 1..n : l = j + 1 /\ l - 1 = j
    BY <1>10
  <2>2. PICK item \in Compiler!Item : item = t.items[l]
    BY <1>5, WrittenType
  <2>3. /\ item.kind = "field" =>
             /\ Compiler!Peek(1) = item.name /\ Compiler!Peek(2) = item.type
             /\ Compiler!Consumed(2) = d[l]
        /\ item.kind = "lookup" =>
             /\ Compiler!Peek(1) = "lookup" /\ Compiler!Peek(2) = item.name
             /\ (Compiler!Peek(3) = "unique") <=> item.unique
             /\ Compiler!Consumed(IF item.unique THEN 3 ELSE 2) = d[l]
    <3>1. /\ l \in 1..Len(t.items) /\ pos = d[l - 1]
          /\ ~Compiler!RunsTogether(t.items)
      BY <1>1, <1>5, <1>6, <2>1, TextRead
    <3>2. CompilerTypes /\ TableAt(source, x, t, d)
      BY <1>2, <1>7
    <3> QED
      BY <2>2, <3>1, <3>2, ItemSeen
  <2>4. d[l] \in Nat
    <3>1. l \in 1..Len(t.items)
      BY <1>5
    <3> QED
      BY <1>2, <1>7, <3>1, ItemAt
  <2>5. ASSUME Compiler!Read(d[l] - pos, "items"), tables' = tables, table' = TableTo(t, l)
        PROVE  Progress'
    <3>1. /\ source' = source /\ written' = written /\ outcome' = outcome
          /\ pc' = "items" /\ pos' = d[l]
      BY <1>2, <2>4, <2>5 DEF Compiler!Read
    <3>2. AtItems(source', written', pos', tables', table')
      <4>1. l \in 0..n
        OBVIOUS
      <4>2. AtItems(source, written, d[l], tables, TableTo(t, l))
        BY <1>8, <4>1
      <4> QED
        BY <2>5, <3>1, <4>2
    <3>3. ~Compiler!Parsed'
      BY <1>2, <3>1 DEF Compiler!Parsed
    <3> QED
      BY <1>2, <3>1, <3>2, <3>3 DEF Progress
  <2>6. TableTo(t, l) =
          IF item.kind = "field"
            THEN [table EXCEPT !.fields =
                    Append(@, [name |-> item.name, type |-> item.type])]
            ELSE [table EXCEPT !.lookups =
                    Append(@, [field |-> item.name, unique |-> item.unique])]
    <3>1. l \in 1..Len(t.items) /\ TableTo(t, l - 1) = table
      BY <1>5, <1>6, <2>1
    <3> QED
      BY <2>2, <3>1, TableToNext
  <2>7. CASE item.kind = "field"
    <3>1. /\ item.name \in Compiler!Identifiers /\ item.name # "lookup"
          /\ item.type \in Compiler!Types /\ item.name # "RBrace"
      BY <2>7, MarksDiffer DEF Compiler!Item
    <3>2. Compiler!ParseField
      BY <2>3, <2>7, <3>1
         DEF Compiler!ParseLookup, Compiler!EndTable, Compiler!BadItem, Compiler!IsIdent
    <3>3. /\ table' = TableTo(t, l)
          /\ Compiler!Read(d[l] - pos, "items") /\ tables' = tables
      BY <2>3, <2>6, <2>7, <3>2 DEF Compiler!ParseField
    <3> QED
      BY <2>5, <3>3
  <2>8. CASE item.kind = "lookup"
    <3>1. item.name \in Compiler!Identifiers /\ item.unique \in BOOLEAN
      BY <2>8 DEF Compiler!Item
    <3>2. Compiler!ParseLookup
      BY <2>3, <2>8, <3>1
         DEF Compiler!ParseField, Compiler!EndTable, Compiler!BadItem, Compiler!IsIdent
    <3>3. PICK unique \in BOOLEAN : unique = (Compiler!Peek(3) = "unique")
      OBVIOUS
    <3>4. /\ table' = [table EXCEPT !.lookups =
                         Append(@, [field |-> Compiler!Peek(2), unique |-> unique])]
          /\ Compiler!Read(Compiler!Consumed(IF unique THEN 3 ELSE 2) - pos, "items")
          /\ tables' = tables
      BY <3>2, <3>3 DEF Compiler!ParseLookup
    <3>5. unique = item.unique
      BY <2>3, <2>8, <3>1, <3>3
    <3>6. Compiler!Read(d[l] - pos, "items")
      BY <2>3, <2>8, <3>4, <3>5
    <3>7. table' = TableTo(t, l)
      BY <2>3, <2>6, <2>8, <3>4, <3>5
    <3> QED
      BY <2>5, <3>4, <3>6, <3>7
  <2>9. item.kind \in {"field", "lookup"}
    BY TokensOf
  <2> QED
    BY <2>7, <2>8, <2>9
<1> QED
  BY <1>9, <1>10

LEMMA ReadResultMade ==
  ASSUME CompilerInv, ReadInv, Readable, Compiler!Validate \/ Compiler!Load
  PROVE  Progress'
<1>1. written.form # "bare" /\ tables = Compiler!SchemaOf(written.tables)
  <2>1. Compiler!Parsed
    BY DEF Compiler!Validate, Compiler!Load, Compiler!Parsed
  <2> QED
    BY <2>1, TextRead DEF Progress
<1>2. UNCHANGED <<written, tables>> /\ pc' \in {"load", "done"} /\ outcome' # "error"
  BY <1>1, TextRead DEF Compiler!Validate, Compiler!Load, Progress
<1>3. written'.form # "bare" /\ tables' = Compiler!SchemaOf(written'.tables)
  BY <1>1, <1>2
<1> QED
  BY <1>2, <1>3 DEF Progress

LEMMA ReadStep ==
  ASSUME CompilerInv, ReadInv, Compiler!Compile
  PROVE  ReadInv'
<1>1. source' = source /\ written' = written
  BY DEF Compiler!Compile, Compiler!ParseSchema, Compiler!ParseTableList, Compiler!ParseLookup,
         Compiler!ParseField, Compiler!EndTable, Compiler!BadItem, Compiler!Validate,
         Compiler!Load, Compiler!Read, Compiler!Fail
<1>2. Readable' => Readable
  BY <1>1 DEF Readable, Compiler!Ambiguous, Compiler!LooksLikeBlock
<1>3. Readable => Progress'
  BY ReadSchema, ReadTableList, ReadItems, ReadResultMade DEF Compiler!Compile
<1> QED
  BY <1>1, <1>2, <1>3 DEF ReadInv

LEMMA ReadSame ==
  ASSUME ReadInv, UNCHANGED <<source, written, pos, tables, table, pc, outcome>>
  PROVE  ReadInv'
<1>1. Progress => Progress'
  BY DEF Progress, Compiler!Parsed
<1> QED
  BY <1>1 DEF ReadInv, Readable, Compiler!Ambiguous, Compiler!LooksLikeBlock

LEMMA ReadsBackText ==
  ASSUME CompilerInv, ReadInv
  PROVE  Compiler!TypeOK /\ Compiler!ReadsBack
<1>1. Compiler!ReadsBack
  BY DEF ReadInv, Readable, Progress, Compiler!ReadsBack
<1>2. ASSUME NEW t \in TableIr
      PROVE  /\ \A i \in DOMAIN t.fields :
                  t.fields[i].name \in Compiler!Identifiers /\ t.fields[i].type \in Compiler!Types
             /\ \A i \in DOMAIN t.lookups : t.lookups[i].field \in Compiler!Identifiers
  <2>1. t.fields \in Seq(FieldIr) /\ t.lookups \in Seq(LookupIr)
    BY DEF TableIr
  <2>2. /\ \A i \in DOMAIN t.fields : t.fields[i] \in FieldIr
        /\ \A i \in DOMAIN t.lookups : t.lookups[i] \in LookupIr
    BY <2>1, LenProperties, ElementOfSeq
  <2> QED
    BY <2>2 DEF FieldIr, LookupIr
<1>3. \A t \in Compiler!ToSet(tables) \cup {table} : t \in TableIr
  <2>1. tables \in Seq(TableIr) /\ table \in TableIr
    BY DEF CompilerInv, CompilerTypes
  <2>2. \A i \in DOMAIN tables : tables[i] \in TableIr
    BY <2>1, LenProperties, ElementOfSeq
  <2> QED
    BY <2>1, <2>2 DEF Compiler!ToSet
<1>4. Compiler!TypeOK
  BY <1>2, <1>3 DEF CompilerInv, CompilerTypes, Compiler!TypeOK
<1> QED
  BY <1>1, <1>4

-----------------------------------------------------------------------------
(* The formats together.                                                   *)

SchemaInv == part = "compiler" => CompilerInv /\ CountInv /\ NamesInv /\ ReadInv

LEMMA SchemaInvHolds == FormatsSpec => []SchemaInv
<1>1. FormatsInit => SchemaInv
  <2> SUFFICES ASSUME FormatsInit, part = "compiler"
               PROVE  CompilerInv /\ CountInv /\ NamesInv /\ ReadInv
    BY DEF SchemaInv
  <2>1. Compiler!Init
    BY DEF FormatsInit
  <2>2. NamesInv
    BY <2>1, NoNames
  <2> QED
    BY <2>1, <2>2, CompilerInit, CountInit, ReadInit
<1>2. SchemaInv /\ [FormatsNext]_formatsVars => SchemaInv'
  <2> SUFFICES ASSUME SchemaInv, [FormatsNext]_formatsVars, part' = "compiler"
               PROVE  CompilerInv' /\ CountInv' /\ NamesInv' /\ ReadInv'
    BY DEF SchemaInv
  <2>1. part = "compiler"
    BY DEF FormatsNext, Compile, Stopped, formatsVars
  <2>2. CompilerInv /\ CountInv /\ NamesInv /\ ReadInv
    BY <2>1 DEF SchemaInv
  <2>3. CASE Compiler!Compile
    BY <2>2, <2>3, CompilerStep, CountStep, NamesRead, ReadStep
  <2>4. CASE UNCHANGED formatsVars
    <3>1. UNCHANGED <<source, written, pos, wrapped, tables, table, pc, outcome, db>>
      BY <2>4 DEF formatsVars, schemaVars
    <3>2. CompilerInv'
      BY <2>2, <3>1, CompilerVars
    <3>3. CountInv'
      BY <2>2, <3>1 DEF CountInv, TokensTo, Compiler!Parsed
    <3>4. NamesInv'
      BY <2>2, <3>1 DEF NamesInv
    <3>5. ReadInv'
      BY <2>2, <3>1, ReadSame
    <3> QED
      BY <3>2, <3>3, <3>4, <3>5
  <2> QED
    BY <2>1, <2>3, <2>4 DEF FormatsNext, Compile, Stopped
<1> QED
  BY <1>1, <1>2, PTL DEF FormatsSpec

(* The hash in the generated module is the one the store keeps exactly if   *)
(* tables and lookups are declared in alphabetical order, whatever the      *)
(* schema (SchemaIr::schema_hash, DatabaseSchema::schema_hash).            *)
THEOREM HashesCorrect == FormatsSpec => []HashesAgree
<1>1. SchemaInv => HashesAgree
  BY HashesAgreeAt DEF SchemaInv, HashesAgree
<1> QED
  BY <1>1, SchemaInvHolds, PTL

(* The checks of validate_schema and those of add_field, add_lookup and     *)
(* add_table together let no schema through that breaks a rule, but for the *)
(* case of names, and every one that keeps the rules of names as well.     *)
THEOREM LoadsCorrect == FormatsSpec => []LoadsExactly
<1>1. SchemaInv => LoadsExactly
  BY LoadsExactlyAt DEF SchemaInv, LoadsExactly
<1> QED
  BY <1>1, SchemaInvHolds, PTL

(* parse_schema: a text of any tables, in a block or in a list a brace      *)
(* closes, is read as what is written in it, but for the two readings of    *)
(* Ambiguous; a list no brace closes is refused.                           *)
THEOREM ParsesCorrect == FormatsSpec => []ParsesExactly
<1>1. SchemaInv => ParsesExactly
  BY ReadsBackText DEF SchemaInv, ParsesExactly
<1> QED
  BY <1>1, SchemaInvHolds, PTL

(* parse_schema: of any text that parses, every token the parser got to but *)
(* the semicolons is in a declaration of the result.                       *)
THEOREM NothingSkippedCorrect == FormatsSpec => []NothingSkipped
<1>1. SchemaInv => NothingSkipped
  BY NothingSkippedAt DEF SchemaInv, NothingSkipped
<1> QED
  BY <1>1, SchemaInvHolds, PTL

(* lex: the tokens of a text of any length are its words and marks outside  *)
(* comments, in their order, at their lines and columns; an error is at     *)
(* the first character that is none of the grammar's.                      *)
THEOREM LexedCorrect == FormatsSpec => []LexedExactly
<1> DEFINE Inv == part = "lexer" => LexerInv
<1>1. FormatsInit => Inv
  BY LexInit DEF FormatsInit
<1>2. Inv /\ [FormatsNext]_formatsVars => Inv'
  <2> SUFFICES ASSUME Inv, [FormatsNext]_formatsVars, part' = "lexer"
               PROVE  LexerInv'
    OBVIOUS
  <2>1. part = "lexer"
    BY DEF FormatsNext, Compile, Stopped, formatsVars
  <2>2. LexerInv
    BY <2>1
  <2>3. CASE Lexer!Next
    BY <2>2, <2>3, LexStep
  <2>4. CASE UNCHANGED formatsVars
    <3>1. UNCHANGED <<input, at, line, col, out, outcome, pc>>
      BY <2>4 DEF formatsVars, lexerVars
    <3>2. LexState(at, line, col, out)'
      <4>1. LexState(at, line, col, out)
        BY <2>2 DEF LexerInv
      <4> QED
        BY <3>1, <4>1, LexPrimed
    <3> QED
      BY <2>2, <3>1, <3>2, BadPrimed DEF LexerInv
  <2> QED
    BY <2>1, <2>3, <2>4 DEF FormatsNext, Compile, Stopped
<1>3. Inv => LexedExactly
  BY LexedAt DEF LexedExactly
<1> QED
  BY <1>1, <1>2, <1>3, PTL DEF FormatsSpec

RowsPart == part = "rows" => RowsInv

LEMMA RowsPartHolds == FormatsSpec => []RowsPart
<1>1. FormatsInit => RowsPart
  BY RowsInit DEF FormatsInit, RowsPart
<1>2. RowsPart /\ [FormatsNext]_formatsVars => RowsPart'
  <2> SUFFICES ASSUME RowsPart, [FormatsNext]_formatsVars, part' = "rows"
               PROVE  RowsInv'
    BY DEF RowsPart
  <2>1. part = "rows"
    BY DEF FormatsNext, Compile, Stopped, formatsVars
  <2>2. RowsInv
    BY <2>1 DEF RowsPart
  <2>3. CASE Rows!Next
    BY <2>2, <2>3, RowsStep
  <2>4. CASE UNCHANGED formatsVars
    <3>1. UNCHANGED <<kind, ops, file, cut, offset, entries, pc>>
      BY <2>4 DEF formatsVars, rowVars
    <3> QED
      BY <2>2, <3>1, RowsSame
  <2> QED
    BY <2>1, <2>3, <2>4 DEF FormatsNext, Compile, Stopped
<1> QED
  BY <1>1, <1>2, PTL DEF FormatsSpec

(* A file of up to nine operations, whose values are texts of any length    *)
(* over any characters, reads as the operations that went into it, and one  *)
(* whose end was lost has all its whole lines (encode_six_operation,        *)
(* escape_six_value, scan_six_file, max_tx_in_six_file).                    *)
THEOREM RowsCorrect == FormatsSpec => []RowsSurvive
<1>1. RowsPart => RowsSurvive
  BY RoundTripAt DEF RowsPart, RowsSurvive
<1> QED
  BY <1>1, RowsPartHolds, PTL

(* Every pointer a scan makes addresses the operation it was made for, also *)
(* the one of a line that was cut (scan_six_file, read_row_pointer).        *)
THEOREM PointersCorrect == FormatsSpec => []PointersExact
<1>1. RowsPart => PointersExact
  BY PointersAt DEF RowsPart, PointersExact
<1> QED
  BY <1>1, RowsPartHolds, PTL

SixbPart == part = "sixb" => SixbInv

LEMMA SixbPartHolds == FormatsSpec => []SixbPart
<1>1. FormatsInit => SixbPart
  BY SixbInit DEF FormatsInit, SixbPart
<1>2. SixbPart /\ [FormatsNext]_formatsVars => SixbPart'
  <2> SUFFICES ASSUME SixbPart, [FormatsNext]_formatsVars, part' = "sixb"
               PROVE  SixbInv'
    BY DEF SixbPart
  <2>1. part = "sixb"
    BY DEF FormatsNext, Compile, Stopped, formatsVars
  <2>2. SixbInv
    BY <2>1 DEF SixbPart
  <2>3. CASE Sixb!Next
    BY <2>2, <2>3, SixbStep
  <2>4. CASE UNCHANGED formatsVars
    <3>1. UNCHANGED <<original, change, bytes, at, fields, todo, outcome>>
      BY <2>4 DEF formatsVars, sixbVars
    <3> QED
      BY <2>2, <3>1, SixbSame
  <2> QED
    BY <2>1, <2>3, <2>4 DEF FormatsNext, Compile, Stopped
<1> QED
  BY <1>1, <1>2, PTL DEF FormatsSpec

(* decode_sixb_cache reads what encode_sixb_cache wrote, with any number of *)
(* rows and lookups; no file that was cut, or is longer than it was, is a   *)
(* cache, and none with another byte in it is the same cache.              *)
THEOREM SixbCorrect == FormatsSpec => []SixbExact
<1>1. SixbPart => SixbExact
  BY ReadsBackAt, NoPartialCacheAt, ChangesShowAt DEF SixbPart, SixbExact
<1> QED
  BY <1>1, SixbPartHolds, PTL
=============================================================================
