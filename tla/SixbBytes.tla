------------------------------ MODULE SixbBytes ------------------------------
(***************************************************************************)
(* The bytes of a `.6b` cache: encode_sixb_cache, and decode_sixb_cache     *)
(* reading them back, a field at a step.  A string is a sequence of bytes   *)
(* below 128, each of them a character.                                    *)
(***************************************************************************)
EXTENDS Naturals, SequencesExt

CONSTANT Caches  \* [table, schema, source, rows, lookups], of strings and numbers

VARIABLES
  original,  \* history: the cache that was written
  change,    \* history: what happened to its file
  bytes,     \* of the file
  at,       \* BinaryReader.offset
  fields,   \* what has been read
  todo,     \* what is to be read: "string", "u32", "u64", "rows", "lookups"
  outcome

vars == <<original, change, bytes, at, fields, todo, outcome>>

-----------------------------------------------------------------------------
(* Encoding.                                                               *)

Magic == <<83, 73, 88, 66, 0>>

Version == 2

(* Little endian, n below 256 ^ 2 (bounds the model). *)
U32(n) == <<n % 256, n \div 256, 0, 0>>

U64(n) == U32(n) \o <<0, 0, 0, 0>>

Str(s) == U32(Len(s)) \o s

Row(r) == Str(r.id) \o Str(r.chunk) \o U64(r.offset) \o U32(r.len) \o U64(r.tx)

Lookup(l) == Str(l.field) \o Str(l.key) \o Str(l.id)

(* encode_sixb_cache *)
Encode(cache) ==
  Magic \o U32(Version) \o Str(cache.table) \o Str(cache.schema) \o Str(cache.source)
    \o U32(Len(cache.rows)) \o FlattenSeq([i \in DOMAIN cache.rows |-> Row(cache.rows[i])])
    \o U32(Len(cache.lookups))
    \o FlattenSeq([i \in DOMAIN cache.lookups |-> Lookup(cache.lookups[i])])

-----------------------------------------------------------------------------
(* Decoding.                                                               *)

Header == <<"u32", "string", "string", "string", "rows">>

RowFields == <<"string", "string", "u64", "u32", "u64">>

LookupFields == <<"string", "string", "string">>

Times(n, seq) == FlattenSeq([i \in 1..n |-> seq])

(* decode_sixb_cache; bytes that do not start so are taken for the older,  *)
(* textual form, which is not modelled.                                    *)
StartsWithMagic == Len(bytes) >= 5 /\ SubSeq(bytes, 1, 5) = Magic

(* The file as it was written, cut, with a byte more, or with another byte. *)
Changes(b) ==
  {<<"none", b>>}
    \cup {<<"cut", SubSeq(b, 1, n)>> : n \in 0..(Len(b) - 1)}
    \cup {<<"longer", Append(b, x)>> : x \in {0, 1}}
    \cup {<<"byte", [b EXCEPT ![i] = x]>> : i \in DOMAIN b, x \in {0, 1, 2, 97, 200}}

Init ==
  /\ original \in Caches
  /\ \E c \in Changes(Encode(original)) : change = c[1] /\ bytes = c[2]
  /\ at = 5 /\ fields = <<>> /\ todo = Header
  /\ outcome = IF StartsWithMagic THEN "none" ELSE "text"

(* take: whether there are n bytes behind those read. *)
Fits(n) == at + n <= Len(bytes)

Large == 65536

(* The number in the n bytes behind those read; those of 2 ^ 16 and above   *)
(* are not told apart (bounds the model).                                  *)
Number(n) ==
  IF \E i \in 3..n : bytes[at + i] # 0 THEN Large ELSE bytes[at + 1] + 256 * bytes[at + 2]

(* Whether the next field is there, and is text if it is a string. *)
Readable ==
  CASE Head(todo) = "u64" -> Fits(8)
    [] Head(todo) = "string" ->
         /\ Fits(4) /\ Fits(4 + Number(4))
         /\ \A i \in (at + 5)..(at + 4 + Number(4)) : bytes[i] < 128
    [] OTHER -> Fits(4)

Done(result) ==
  /\ outcome' = result
  /\ UNCHANGED <<original, change, bytes, at, fields, todo>>

Got(n, value) ==
  /\ at' = at + n /\ fields' = Append(fields, value)
  /\ UNCHANGED <<original, change, bytes, outcome>>

ReadNumber ==
  /\ Head(todo) \in {"u32", "u64"} /\ Readable
  /\ LET n == IF Head(todo) = "u32" THEN 4 ELSE 8 IN Got(n, Number(n))
  /\ todo' = Tail(todo)

(* A length, and the characters. *)
ReadString ==
  /\ Head(todo) = "string" /\ Readable
  /\ Got(4 + Number(4), SubSeq(bytes, at + 5, at + 4 + Number(4)))
  /\ todo' = Tail(todo)

(* A count, and what is counted.  A count above the file's size runs into   *)
(* its end, if the vector the code reserves for it first can be had.       *)
ReadCount ==
  /\ Head(todo) \in {"rows", "lookups"} /\ Readable
  /\ IF Number(4) > Len(bytes)
       THEN Done("error")
       ELSE /\ Got(4, Number(4))
            /\ todo' = IF Head(todo) = "rows"
                         THEN Times(Number(4), RowFields) \o <<"lookups">>
                         ELSE Times(Number(4), LookupFields)

(* Mutant: bytes behind the last field are left alone. *)
End_AnyRest == Done("cache")

(* expect_eof *)
End == Done(IF at = Len(bytes) THEN "cache" ELSE "error")

Decode ==
  /\ outcome = "none"
  /\ \/ todo # <<>> /\ (ReadNumber \/ ReadString \/ ReadCount)
     \/ todo # <<>> /\ ~Readable /\ Done("error")
     \/ todo = <<>> /\ End

Finished == outcome # "none" /\ UNCHANGED vars

Next == Decode \/ Finished

Spec == Init /\ [][Next]_vars

-----------------------------------------------------------------------------

(* The cache of the fields read; the version is fields[1]. *)
Decoded ==
  LET n    == fields[5]
      m    == fields[6 + 5 * n]
      r(i) == 5 + 5 * (i - 1)
      l(i) == 6 + 5 * n + 3 * (i - 1)
  IN  [table |-> fields[2], schema |-> fields[3], source |-> fields[4],
       rows |-> [i \in 1..n |-> [id |-> fields[r(i) + 1], chunk |-> fields[r(i) + 2],
                                 offset |-> fields[r(i) + 3], len |-> fields[r(i) + 4],
                                 tx |-> fields[r(i) + 5]]],
       lookups |-> [i \in 1..m |-> [field |-> fields[l(i) + 1], key |-> fields[l(i) + 2],
                                    id |-> fields[l(i) + 3]]]]

(* A cache is read back as it was written. *)
ReadsBack ==
  change = "none" =>
    outcome \in {"none", "cache"} /\ (outcome = "cache" => Decoded = original /\ fields[1] = Version)

(* A file that was cut anywhere, or written over a longer one, is no cache: *)
(* the table is rebuilt from its rows and never served from half of them.  *)
NoPartialCache == change \in {"cut", "longer"} => outcome # "cache"

(* Another file is another cache or none: no two files read as one.  So a   *)
(* changed byte is noticed or it changes what is compared behind it, the    *)
(* version, the hashes, or an entry.                                       *)
ChangesShow ==
  change = "byte" /\ outcome = "cache" /\ bytes # Encode(original) =>
    Decoded # original \/ fields[1] # Version
=============================================================================
