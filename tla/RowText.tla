------------------------------- MODULE RowText -------------------------------
(***************************************************************************)
(* The text of `.6` rows: typed values become escaped columns, columns      *)
(* lines, lines a file, and a scan takes the file apart again.  Texts are   *)
(* sequences of characters; one operation is written, and one line read,   *)
(* at a step.                                                              *)
(***************************************************************************)
EXTENDS Naturals, FiniteSets, SequencesExt

CONSTANTS
  Bodies,    \* by the type of the field body, "text" or "bool", or "none" for a
             \* table of ids: the values to write, [type, text]
  RowIds,    \* texts of ids
  MaxOps,    \* operations written, up to 9 (bounds the model)
  MaxCut     \* by type: characters a stop may keep from the end of the file

(* `bs` is the backslash. *)
Special == {"bs", "tab", "nl", "cr"}

VARIABLES
  kind,     \* the type of the field body
  ops,      \* the operations written, in order
  file,     \* the data lines of the chunk file
  cut,      \* whether a stop kept the end of the last line from the file
  offset,   \* characters scanned
  entries,  \* what the scan returns: [op, tx, id, body, offset, len]
  pc

vars == <<kind, ops, file, cut, offset, entries, pc>>

-----------------------------------------------------------------------------
(* Escaping.                                                               *)

Letter == [c \in Special |-> CASE c = "bs" -> "bs" [] c = "tab" -> "t"
                               [] c = "nl" -> "n" [] c = "cr" -> "r"]

(* Mutant: carriage returns stand for themselves. *)
EscapeChar_KeepsReturn(c) == IF c \in Special \ {"cr"} THEN <<"bs", Letter[c]>> ELSE <<c>>

EscapeChar(c) == IF c \in Special THEN <<"bs", Letter[c]>> ELSE <<c>>

(* escape_six_value *)
Escape(text) ==
  LET out[n \in 0..Len(text)] == IF n = 0 THEN <<>> ELSE out[n - 1] \o EscapeChar(text[n])
  IN  out[Len(text)]

Bad == [ok |-> FALSE]

(* A backslash says what the character behind it is. *)
UnescapeChar(state, c) ==
  IF ~state.escaped THEN IF c = "bs" THEN [state EXCEPT !.escaped = TRUE]
                                     ELSE [state EXCEPT !.out = Append(@, c)]
  ELSE IF \E s \in Special : Letter[s] = c
    THEN [state EXCEPT !.escaped = FALSE,
                       !.out = Append(@, CHOOSE s \in Special : Letter[s] = c)]
  ELSE [state EXCEPT !.ok = FALSE, !.escaped = FALSE]

(* unescape_six_value *)
Unescape(text) ==
  LET read[n \in 0..Len(text)] ==
        IF n = 0 THEN [ok |-> TRUE, escaped |-> FALSE, out |-> <<>>]
                 ELSE UnescapeChar(read[n - 1], text[n])
      end == read[Len(text)]
  IN  [ok |-> end.ok /\ ~end.escaped, out |-> end.out]

(* The first part of a split at tabs, and what is left to split. *)
Tabs(text) == {i \in DOMAIN text : text[i] = "tab"}

FirstTab(text) == Min(Tabs(text) \cup {Len(text) + 1})

Column(text) == SubSeq(text, 1, FirstTab(text) - 1)

Rest(text) == SubSeq(text, FirstTab(text) + 1, Len(text))

Digits == <<"1", "2", "3", "4", "5", "6", "7", "8", "9">>

-----------------------------------------------------------------------------
(* Values.                                                                 *)

IsBool(text) == text \in {<<"true">>, <<"false">>}

(* validate_record: every field is there, with a value of its type.        *)
(* matches_value compares the types; a boolean is "true" or "false".       *)
ValidRecord(rec) == rec.body.type = kind

(* parse_ten_value *)
ParseValue(text) ==
  IF kind = "bool" /\ ~IsBool(text) THEN Bad
                                    ELSE [ok |-> TRUE, value |-> [type |-> kind, text |-> text]]

NoBody == [type |-> "none", text |-> <<>>]

(* encode_six_row *)
EncodeRow(o) ==
  IF kind = "none" THEN Escape(o.id) ELSE Escape(o.id) \o <<"tab">> \o Escape(o.body.text)

(* encode_six_operation *)
EncodeOperation(o) ==
  IF o.op = "put" THEN <<"R", "tab", Digits[o.tx], "tab">> \o EncodeRow(o)
                  ELSE <<"D", "tab", Digits[o.tx], "tab">> \o Escape(o.id)

(* decode_six_row *)
DecodeRow(text, tx) ==
  LET id  == Unescape(Column(text))
      raw == Unescape(Rest(text))
  IN  IF Cardinality(Tabs(text)) # (IF kind = "none" THEN 0 ELSE 1) \/ ~id.ok THEN Bad
      ELSE IF kind = "none"
        THEN [ok |-> TRUE, op |-> "put", tx |-> tx, id |-> id.out, body |-> NoBody]
      ELSE IF ~raw.ok \/ ~ParseValue(raw.out).ok THEN Bad
      ELSE [ok |-> TRUE, op |-> "put", tx |-> tx, id |-> id.out,
            body |-> ParseValue(raw.out).value]

(* decode_six_operation: tag, tx id, and what is behind the second tab. *)
DecodeOperation(text) ==
  LET number == Column(Rest(text))
      tail   == Rest(Rest(text))
      tx     == CHOOSE n \in 1..9 : number = <<Digits[n]>>
  IN  IF Cardinality(Tabs(text)) < 2 \/ ~\E n \in 1..9 : number = <<Digits[n]>> THEN Bad
      ELSE IF Column(text) = <<"R">> THEN DecodeRow(tail, tx)
      ELSE IF Unescape(tail).ok
        THEN [ok |-> TRUE, op |-> "delete", tx |-> tx, id |-> Unescape(tail).out,
              body |-> NoBody]
      ELSE Bad

-----------------------------------------------------------------------------
(* Files.                                                                  *)

Init ==
  /\ kind \in DOMAIN Bodies
  /\ ops = <<>> /\ file = <<>> /\ cut = FALSE
  /\ offset = 0 /\ entries = <<>> /\ pc = "write"

Operations(tx) ==
  [op : {"put"}, tx : {tx}, id : RowIds, body : Bodies[kind]]
    \cup [op : {"delete"}, tx : {tx}, id : RowIds, body : {NoBody}]

(* The lines of append_batch_inner, for records that are valid. *)
Write ==
  /\ pc = "write" /\ Len(ops) < MaxOps
  /\ \E o \in Operations(Len(ops) + 1) :
       /\ o.op = "put" => ValidRecord(o)
       /\ ops' = Append(ops, o)
       /\ file' = file \o EncodeOperation(o) \o <<"nl">>
  /\ UNCHANGED <<kind, cut, offset, entries, pc>>

(* write_all is cut short inside the last line. *)
Stop ==
  /\ pc = "write" /\ ops # <<>>
  /\ \E n \in 1..Min({MaxCut[kind], Len(EncodeOperation(Last(ops)))}) :
       file' = SubSeq(file, 1, Len(file) - n)
  /\ cut' = TRUE /\ pc' = "scan"
  /\ UNCHANGED <<kind, ops, offset, entries>>

StartScan ==
  /\ pc = "write" /\ ops # <<>>
  /\ pc' = "scan"
  /\ UNCHANGED <<kind, ops, file, cut, offset, entries>>

(* read_line: up to and with the next newline, or to the end. *)
LineAt(from) ==
  LET ends == {i \in (from + 1)..Len(file) : file[i] = "nl"}
  IN  SubSeq(file, from + 1, IF ends = {} THEN Len(file) ELSE Min(ends))

(* trim_end_matches *)
Trimmed(line) ==
  LET kept == {i \in DOMAIN line : line[i] \notin {"nl", "cr"}}
  IN  SubSeq(line, 1, IF kept = {} THEN 0 ELSE Max(kept))

IsOperation(text) == Len(text) >= 2 /\ text[1] \in {"R", "D"} /\ text[2] = "tab"

(* Mutant: the newline is not part of an entry. *)
ScanLine_TrimmedOffset ==
  LET line    == LineAt(offset)
      text    == Trimmed(line)
      decoded == IF IsOperation(text) THEN DecodeOperation(text) ELSE DecodeRow(text, 0)
  IN
  /\ pc = "scan" /\ offset < Len(file)
  /\ offset' = offset + Len(line)
  /\ IF text = <<>> THEN UNCHANGED <<entries, pc>>
     ELSE IF ~decoded.ok THEN entries' = <<>> /\ pc' = "error"
     ELSE /\ entries' = Append(entries,
               [entry |-> decoded, offset |-> offset + Len(line) - Len(text), len |-> Len(text)])
          /\ pc' = pc
  /\ UNCHANGED <<kind, ops, file, cut>>

(* An iteration of scan_six_file.  A line that is no operation is taken for *)
(* a row of the older format, without a tx id.  The file starts behind its  *)
(* header: the lines the code skips (magic, header, `@`) are left out.     *)
ScanLine ==
  LET line    == LineAt(offset)
      text    == Trimmed(line)
      decoded == IF IsOperation(text) THEN DecodeOperation(text) ELSE DecodeRow(text, 0)
  IN
  /\ pc = "scan" /\ offset < Len(file)
  /\ offset' = offset + Len(line)
  /\ IF text = <<>> THEN UNCHANGED <<entries, pc>>
     ELSE IF ~decoded.ok THEN entries' = <<>> /\ pc' = "error"
     ELSE /\ entries' = Append(entries,
               [entry |-> decoded, offset |-> offset, len |-> Len(line)])
          /\ pc' = pc
  /\ UNCHANGED <<kind, ops, file, cut>>

EndScan ==
  /\ pc = "scan" /\ offset = Len(file)
  /\ pc' = "done"
  /\ UNCHANGED <<kind, ops, file, cut, offset, entries>>

Finished == pc \in {"done", "error"} /\ UNCHANGED vars

Next == Write \/ Stop \/ StartScan \/ ScanLine \/ EndScan \/ Finished

Spec == Init /\ [][Next]_vars

-----------------------------------------------------------------------------

(* read_row_pointer: the bytes of a pointer, without their newline. *)
ReadPointer(p) ==
  LET bytes == SubSeq(file, p.offset + 1, p.offset + p.len)
      text  == IF bytes # <<>> /\ Last(bytes) = "nl" THEN Front(bytes) ELSE bytes
  IN  IF IsOperation(text) THEN DecodeOperation(text) ELSE Bad

(* max_tx_in_six_file: from the first two columns of each line. *)
MaxTx ==
  LET starts == {0} \cup {i \in DOMAIN file : file[i] = "nl"}
      txs    == {n \in 1..9 : \E i \in starts :
                   LET text == Trimmed(LineAt(i))
                   IN  IsOperation(text) /\ Column(Rest(text)) = <<Digits[n]>>}
  IN  Max({0} \cup txs)

Written(o) == [ok |-> TRUE, op |-> o.op, tx |-> o.tx, id |-> o.id, body |-> o.body]

(* A file that was written whole reads as the operations that went into it: *)
(* no value, whatever is in it, ends a line or a column, becomes another    *)
(* or cannot be read back.                                                 *)
RoundTrip ==
  ~cut =>
    /\ pc # "error"
    /\ pc = "done" => [i \in DOMAIN entries |-> entries[i].entry]
                        = [i \in DOMAIN ops |-> Written(ops[i])]
    /\ MaxTx = Len(ops)

(* The pointer a scan makes of a line addresses the operation it read.     *)
PointersExact ==
  \A i \in DOMAIN entries :
    LET e == entries[i]
    IN  /\ e.entry.tx # 0 => ReadPointer(e) = e.entry
        /\ i > 1 => e.offset = entries[i - 1].offset + entries[i - 1].len

(* A file that was cut, if it can be read at all, has the whole lines it    *)
(* had, and at most one more entry: what was left of the last line.        *)
WholeLinesSurvive ==
  pc = "done" =>
    /\ Len(entries) \in {Len(ops) - 1, Len(ops)}
    /\ \A i \in 1..(Len(ops) - 1) : entries[i].entry = Written(ops[i])
=============================================================================
