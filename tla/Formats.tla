------------------------------ MODULE Formats ------------------------------
(***************************************************************************)
(* What the database writes down and reads back, one part a behaviour: the  *)
(* text of rows, the bytes of a cache, the names of chunk files, the        *)
(* characters and the tokens of a schema.  The parts share nothing; a       *)
(* variable that two of them have belongs to the one that is at work.      *)
(***************************************************************************)
EXTENDS ChunkNames, Sequences

CONSTANTS
  Characters,                          \* of the texts of RowText
  Bodies, RowIds, MaxOps, MaxCut,      \* RowText
  Caches,                              \* SixbBytes
  MaxLength,                           \* SchemaLexer
  Words, Letters, Sources              \* SchemaCompiler

VARIABLES
  part,                                            \* at work
  kind, ops, file, cut, offset, entries,           \* RowText
  original, change, bytes, fields, todo,           \* SixbBytes
  input, line, col, out,                           \* SchemaLexer
  source, written, pos, wrapped, tables, table, db, \* SchemaCompiler
  pc, at, outcome                                  \* of several

rowVars    == <<kind, ops, file, cut, offset, entries>>
sixbVars   == <<original, change, bytes, fields, todo>>
lexerVars  == <<input, line, col, out>>
schemaVars == <<source, written, pos, wrapped, tables, table, db>>

formatsVars == <<part, vars, rowVars, sixbVars, lexerVars, schemaVars, pc, at, outcome>>

-----------------------------------------------------------------------------

Rows == INSTANCE RowText

Sixb == INSTANCE SixbBytes

Lexer == INSTANCE SchemaLexer

Compiler == INSTANCE SchemaCompiler

Token == Compiler!Identifiers \cup Compiler!Punctuation

(* Marks are not words, nor is what stands for the end of a text.          *)
ASSUME WordsAssumption == Compiler!Identifiers \cap (Compiler!Punctuation \cup {"end"}) = {}

(* An identifier does not start with a digit (is_ident_start). *)
ASSUME LettersAssumption ==
  \A word \in Compiler!Identifiers :
    /\ Letters[word] \in Seq({"lower", "upper", "digit", "underscore"})
    /\ Letters[word] # <<>> /\ Letters[word][1] # "digit"

ASSUME SourcesAssumption ==
  \A s \in Sources :
    /\ s.tokens \in Seq(Token)
    /\ s.written \in Compiler!Text \cup {Compiler!NoText}
    /\ s.written # Compiler!NoText => s.tokens = Compiler!TextTokens(s.written)

(* Texts may have any characters.  A value's text is what its type is       *)
(* written as (a boolean is true or false), and a table of ids has rows     *)
(* without a body.                                                         *)
RowBody(k) ==
  {b \in [type : DOMAIN Bodies, text : Seq(Characters)] :
     (b.type = "bool" => Rows!IsBool(b.text)) /\ (k = "none" => b = Rows!NoBody)}

ASSUME RowsAssumption ==
  /\ MaxOps \in 0..9 /\ RowIds \subseteq Seq(Characters)
  /\ \A k \in DOMAIN Bodies : MaxCut[k] \in Nat /\ Bodies[k] \subseteq RowBody(k)

(* Strings have characters of one byte, and no number, length or count      *)
(* comes to 2 ^ 16.                                                        *)
Small == 0..(Sixb!Large - 1)

CachedText == {s \in Seq(0..127) : Len(s) \in Small}

CachedRow ==
  [id : CachedText, chunk : CachedText, offset : Small, len : Small, tx : Small]

CachedLookup == [field : CachedText, key : CachedText, id : CachedText]

CachedRows == {s \in Seq(CachedRow) : Len(s) \in Small}

CachedLookups == {s \in Seq(CachedLookup) : Len(s) \in Small}

Cached ==
  [table : CachedText, schema : CachedText, source : CachedText,
   rows : CachedRows, lookups : CachedLookups]

ASSUME CachesAssumption == Caches \subseteq Cached

-----------------------------------------------------------------------------
(* A variable no part at work has. *)
Idle(v) == v = "idle"

NoRows   == kind = "idle" /\ ops = <<>> /\ file = <<>> /\ cut = FALSE /\ offset = 0 /\ entries = <<>>
NoSixb   == Idle(original) /\ Idle(change) /\ bytes = <<>> /\ fields = <<>> /\ todo = <<>>
NoLexer  == input = <<>> /\ line = 0 /\ col = 0 /\ out = <<>>
NoSchema == /\ source = <<>> /\ Idle(written) /\ pos = 0 /\ wrapped = FALSE
            /\ tables = <<>> /\ Idle(table) /\ Idle(db)

FormatsInit ==
  /\ Init
  /\ \/ part = "rows" /\ Rows!Init /\ at = 0 /\ Idle(outcome)
        /\ NoSixb /\ NoLexer /\ NoSchema
     \/ part = "sixb" /\ Sixb!Init /\ Idle(pc)
        /\ NoRows /\ NoLexer /\ NoSchema
     \/ part = "lexer" /\ Lexer!Init
        /\ NoRows /\ NoSixb /\ NoSchema
     \/ part = "compiler" /\ Compiler!Init /\ at = 0
        /\ NoRows /\ NoSixb /\ NoLexer
     \/ part = "names" /\ Idle(pc) /\ at = 0 /\ Idle(outcome)
        /\ NoRows /\ NoSixb /\ NoLexer /\ NoSchema

Compile ==
  /\ part = "compiler" /\ Compiler!Compile
  /\ UNCHANGED <<part, vars, rowVars, sixbVars, lexerVars, at>>

Stopped == (part = "compiler" /\ pc = "done") /\ UNCHANGED formatsVars

FormatsNext ==
  \/ /\ part = "rows" /\ Rows!Next
     /\ UNCHANGED <<part, vars, sixbVars, lexerVars, schemaVars, at, outcome>>
  \/ /\ part = "sixb" /\ Sixb!Next
     /\ UNCHANGED <<part, vars, rowVars, lexerVars, schemaVars, pc>>
  \/ /\ part = "lexer" /\ Lexer!Next
     /\ UNCHANGED <<part, vars, rowVars, sixbVars, schemaVars>>
  \/ Compile \/ Stopped
  \/ /\ part = "names" /\ Next
     /\ UNCHANGED <<part, rowVars, sixbVars, lexerVars, schemaVars, pc, at, outcome>>

(* compile_schema is one call of straight code: it is taken as running on. *)
FormatsSpec == FormatsInit /\ [][FormatsNext]_formatsVars /\ WF_formatsVars(Compile)

-----------------------------------------------------------------------------
(* A file of rows that was written whole reads as the operations that went  *)
(* into it, whatever characters their values have; one whose end a stop     *)
(* cut off still has all its whole lines (escape_six_value, scan_six_file). *)
RowsSurvive == part = "rows" => Rows!RoundTrip /\ Rows!WholeLinesSurvive

(* Each pointer a scan makes addresses the operation it was made for.      *)
PointersExact == part = "rows" => Rows!PointersExact

(* decode_sixb_cache reads what encode_sixb_cache wrote; a file that was    *)
(* cut or is longer than it was is no cache, and one with another byte in   *)
(* it is never the same cache.                                             *)
SixbExact == part = "sixb" => Sixb!ReadsBack /\ Sixb!NoPartialCache /\ Sixb!ChangesShow

(* lex: the tokens of a text are its words and marks outside comments, at   *)
(* their lines and columns, and an error is at the first bad character.    *)
LexedExactly == part = "lexer" => Lexer!TokensExact /\ Lexer!ErrorExact

(* parse_schema: a text is read as the schema written in it, with or        *)
(* without semicolons and whatever is behind its closing brace, unless a    *)
(* lookup and a field called unique run together or a list starts with a    *)
(* table called schema; a list that no brace closes is refused.            *)
ParsesExactly == part = "compiler" => Compiler!TypeOK /\ Compiler!ReadsBack

(* parse_table_list, parse_table_items: whatever the text, if it parses,    *)
(* every token that was read is in a declaration of the result, and each    *)
(* declaration has tokens of its own.                                      *)
NothingSkipped == part = "compiler" => Compiler!NothingSkipped

(* validate_schema and add_table together let no schema through that breaks *)
(* a rule of the book, the case of names aside, and every one that keeps    *)
(* them all.                                                               *)
LoadsExactly == part = "compiler" => Compiler!LoadsExactly

(* The hash in the generated module is the one the store writes exactly if  *)
(* tables and lookups are declared in alphabetical order.                  *)
HashesAgree == part = "compiler" => Compiler!HashesAgree

(* compile_schema comes to an end on every text.                           *)
CompilerEnds == part = "compiler" => Compiler!Ends
=============================================================================
