----------------------------- MODULE ChunkNames -----------------------------
(***************************************************************************)
(* The names of chunk files: the counter of a chunk, counted down from the  *)
(* last one, in a fixed number of digits.  Readers sort the names and go    *)
(* through them backwards, so that rows are read in the order they were    *)
(* written in.  A table takes counters one after another until there is no  *)
(* name left.                                                              *)
(***************************************************************************)
EXTENDS Integers, FiniteSets

CONSTANT Base  \* CHUNK_BASE, 36 in the code; the width is CHUNK_WIDTH, 3

ASSUME BaseAssumption == Base \in Nat /\ Base > 1

VARIABLES
  next,   \* the next chunk counter
  names   \* of the files in the table's directory

vars == <<next, names>>

(* MAX_CHUNKS *)
MaxChunks == Base * Base * Base

Digit == 0..(Base - 1)

Name == Digit \X Digit \X Digit

(* Mutant: digits are put down from the left. *)
EncodeFixed_Backwards(n) == <<n % Base, (n \div Base) % Base, ((n \div Base) \div Base) % Base>>

(* encode_fixed_base36: from the right, the remainder and then the quotient. *)
EncodeFixed(n) == <<((n \div Base) \div Base) % Base, (n \div Base) % Base, n % Base>>

(* encode_reverse_base36 *)
EncodeReverse(n) == EncodeFixed(MaxChunks - 1 - n)

(* chunk_path, for counters it accepts *)
ChunkPath(counter) == EncodeReverse(counter)

(* Vec::sort on paths that differ in the name only: the digits are in the   *)
(* order of their characters, 0 to 9 and then a to z.                      *)
Less(a, b) ==
  \/ a[1] < b[1]
  \/ a[1] = b[1] /\ a[2] < b[2]
  \/ a[1] = b[1] /\ a[2] = b[2] /\ a[3] < b[3]

-----------------------------------------------------------------------------

Init == next = 0 /\ names = {}

(* append_target: the next chunk; chunk_path has no name for counters from  *)
(* MaxChunks on.                                                           *)
NewChunk ==
  /\ next < MaxChunks
  /\ names' = names \cup {ChunkPath(next)}
  /\ next' = next + 1

(* The write is refused. *)
Full == next = MaxChunks /\ UNCHANGED vars

(* compact_table: one chunk, the first. *)
Compact ==
  /\ names # {}
  /\ names' = {ChunkPath(0)} /\ next' = 1

Next == NewChunk \/ Full \/ Compact

Spec == Init /\ [][Next]_vars

-----------------------------------------------------------------------------

TypeOK == next \in 0..MaxChunks /\ names \subseteq Name

(* six_files_in_read_order: a file that is made later is read later, for    *)
(* its name sorts before those of all files there are; so it is a new name. *)
SortsFirst == next' = next + 1 => \A old \in names : Less(ChunkPath(next), old)

ReadOrder == [][SortsFirst]_vars
=============================================================================
