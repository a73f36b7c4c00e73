--------------------------- MODULE SchemaCompiler ---------------------------
(***************************************************************************)
(* compile_schema behind its lexer, and the database schema made of its    *)
(* result.  A step reads one declaration off the token stream; then the     *)
(* whole is validated and loaded.                                          *)
(***************************************************************************)
EXTENDS Naturals, FiniteSets, SequencesExt

CONSTANTS
  Words,    \* the identifiers there are, in alphabetical order
  Letters,  \* of each, the classes of its characters
  Sources   \* [tokens, written]: what to compile, and what was written so, a
            \* Text or NoText

Types == {"id", "text", "int"}

Punctuation == {"Bang", "LBrace", "RBrace", "Semicolon"}

Identifiers == ToSet(Words)

VARIABLES
  source,   \* the token stream
  written,  \* history: what is written in the text
  pos,      \* TokenStream.pos: tokens read
  wrapped,  \* inside schema! { }
  tables,   \* the tables parsed
  table,    \* the table being parsed
  pc,
  outcome,  \* of compile_schema: "error" if the parser's, "invalid" if validate_schema's
  db        \* of database_schema_from_ir, a function from table names

vars == <<source, written, pos, wrapped, tables, table, pc, outcome, db>>

NoTable == [name |-> "none", fields |-> <<>>, lookups |-> <<>>]

NoSchema == <<>>

-----------------------------------------------------------------------------

Init ==
  /\ \E s \in Sources : source = s.tokens /\ written = s.written
  /\ pos = 0 /\ wrapped = FALSE /\ tables = <<>> /\ table = NoTable
  /\ pc = "schema" /\ outcome = "none" /\ db = NoSchema

(* The token i places ahead, or "end". *)
Peek(i) == IF pos + i <= Len(source) THEN source[pos + i] ELSE "end"

IsIdent(token) == token \in Identifiers

(* A semicolon may follow a declaration of n tokens. *)
Consumed(n) == pos + n + (IF Peek(n + 1) = "Semicolon" THEN 1 ELSE 0)

Fail ==
  /\ pc' = "done" /\ outcome' = "error"
  /\ UNCHANGED <<source, written, pos, wrapped, tables, table, db>>

Read(n, label) ==
  /\ pos' = pos + n /\ pc' = label
  /\ UNCHANGED <<source, written, outcome, db>>

-----------------------------------------------------------------------------

(* schema! { opens a block; anything else is taken as a bare table list. *)
ParseSchema ==
  /\ pc = "schema"
  /\ \/ /\ Peek(1) = "schema" /\ Peek(2) = "Bang" /\ Peek(3) = "LBrace"
        /\ wrapped' = TRUE
        /\ Read(3, "tables") /\ UNCHANGED <<tables, table>>
     \/ Peek(1) = "schema" /\ ~(Peek(2) = "Bang" /\ Peek(3) = "LBrace") /\ Fail
     \/ Peek(1) # "schema" /\ Read(0, "tables") /\ UNCHANGED <<wrapped, tables, table>>

(* A table list goes on to a closing brace, which it leaves to its caller:  *)
(* schema! reads it, a bare list does not.  Nothing looks behind it.       *)
ParseTableList ==
  /\ pc = "tables"
  /\ \/ /\ IsIdent(Peek(1)) /\ Peek(2) = "LBrace"
        /\ table' = [NoTable EXCEPT !.name = Peek(1)]
        /\ Read(2, "items") /\ UNCHANGED <<wrapped, tables>>
     \/ IsIdent(Peek(1)) /\ Peek(2) # "LBrace" /\ Fail
     \/ /\ Peek(1) = "RBrace"
        /\ Read(IF wrapped THEN 1 ELSE 0, "validate") /\ UNCHANGED <<wrapped, tables, table>>
     \/ ~IsIdent(Peek(1)) /\ Peek(1) # "RBrace" /\ Fail

(* Mutant: `unique` is left in the stream. *)
ParseLookup_LeavesUnique ==
  /\ pc = "items" /\ Peek(1) = "lookup" /\ IsIdent(Peek(2))
  /\ table' = [table EXCEPT !.lookups =
                 Append(@, [field |-> Peek(2), unique |-> Peek(3) = "unique"])]
  /\ Read(2, "items") /\ UNCHANGED <<wrapped, tables>>

(* Mutant: a word behind the field's name is read even if it is no flag. *)
ParseLookup_SkipsWord ==
  LET unique == Peek(3) = "unique"
  IN  /\ pc = "items" /\ Peek(1) = "lookup" /\ IsIdent(Peek(2))
      /\ table' = [table EXCEPT !.lookups = Append(@, [field |-> Peek(2), unique |-> unique])]
      /\ Read(Consumed(IF IsIdent(Peek(3)) THEN 3 ELSE 2) - pos, "items")
      /\ UNCHANGED <<wrapped, tables>>

(* lookup <field> [unique] [;]: the word behind the field's name is taken   *)
(* as the flag if it is `unique`, whatever follows.                        *)
ParseLookup ==
  LET unique == Peek(3) = "unique"
  IN  /\ pc = "items" /\ Peek(1) = "lookup" /\ IsIdent(Peek(2))
      /\ table' = [table EXCEPT !.lookups = Append(@, [field |-> Peek(2), unique |-> unique])]
      /\ Read(Consumed(IF unique THEN 3 ELSE 2) - pos, "items") /\ UNCHANGED <<wrapped, tables>>

(* <field> <type> [;] *)
ParseField ==
  /\ pc = "items" /\ IsIdent(Peek(1)) /\ Peek(1) # "lookup" /\ Peek(2) \in Types
  /\ table' = [table EXCEPT !.fields = Append(@, [name |-> Peek(1), type |-> Peek(2)])]
  /\ Read(Consumed(2) - pos, "items") /\ UNCHANGED <<wrapped, tables>>

EndTable ==
  /\ pc = "items" /\ Peek(1) = "RBrace"
  /\ tables' = Append(tables, table) /\ table' = NoTable
  /\ Read(1, "tables") /\ UNCHANGED wrapped

(* Mutant: the end of the input is waited at. *)
BadItem_WaitsAtEnd ==
  /\ pc = "items"
  /\ Peek(1) # "RBrace"
  /\ ~(Peek(1) = "lookup" /\ IsIdent(Peek(2)))
  /\ ~(IsIdent(Peek(1)) /\ Peek(1) # "lookup" /\ Peek(2) \in Types)
  /\ IF Peek(1) = "end" THEN UNCHANGED vars ELSE Fail

(* The end of the input, punctuation where a declaration starts, a missing  *)
(* name, an unknown type.                                                  *)
BadItem ==
  /\ pc = "items"
  /\ Peek(1) # "RBrace"
  /\ ~(Peek(1) = "lookup" /\ IsIdent(Peek(2)))
  /\ ~(IsIdent(Peek(1)) /\ Peek(1) # "lookup" /\ Peek(2) \in Types)
  /\ Fail

-----------------------------------------------------------------------------

Distinct(seq) == \A i, j \in DOMAIN seq : seq[i] = seq[j] => i = j

TableNames(ir) == [i \in DOMAIN ir |-> ir[i].name]
FieldNames(t) == [i \in DOMAIN t.fields |-> t.fields[i].name]
LookupNames(t) == [i \in DOMAIN t.lookups |-> t.lookups[i].field]

IsReserved(word) == Letters[word][1] = "underscore"

(* is_snake_case: the first character and the underscores are looked at; a  *)
(* capital further on is let through.  No identifier is empty or has other *)
(* characters than those of Letters (is_ident_continue).                   *)
IsSnakeCase(word) ==
  /\ Letters[word][1] \in {"lower", "underscore"}
  /\ \A i \in 2..Len(Letters[word]) :
       ~(Letters[word][i - 1] = "underscore" /\ Letters[word][i] = "underscore")

(* What validate_schema asks of one table. *)
ValidTable(t) ==
  /\ IsSnakeCase(t.name)
  /\ \A i \in DOMAIN t.fields : ~IsReserved(t.fields[i].name) /\ IsSnakeCase(t.fields[i].name)
  /\ Distinct(FieldNames(t)) /\ "id" \in ToSet(FieldNames(t))
  /\ ToSet(LookupNames(t)) \subseteq ToSet(FieldNames(t)) /\ Distinct(LookupNames(t))

Valid(ir) == Distinct(TableNames(ir)) /\ \A i \in DOMAIN ir : ValidTable(ir[i])

(* validate_schema *)
Validate ==
  /\ pc = "validate"
  /\ outcome' = IF Valid(tables) THEN "compiled" ELSE "invalid"
  /\ pc' = IF Valid(tables) THEN "load" ELSE "done"
  /\ UNCHANGED <<source, written, pos, wrapped, tables, table, db>>

-----------------------------------------------------------------------------
(* The core schema: fields and lookups of a table are maps.                *)

Place(n) == CHOOSE i \in DOMAIN Words : Words[i] = n

(* In alphabetical order, as a BTreeMap lists its keys. *)
Sorted(S) ==
  [k \in 1..Cardinality(S) |->
     CHOOSE n \in S : Cardinality({m \in S : Place(m) <= Place(n)}) = k]

(* Mutant: fields are listed by name. *)
TableSchema_SortsFields(t) ==
  [fieldOrder |-> Sorted(ToSet(FieldNames(t))),
   kinds      |-> [f \in ToSet(FieldNames(t)) |->
                     t.fields[CHOOSE i \in DOMAIN t.fields : t.fields[i].name = f].type],
   lookups    |-> [f \in ToSet(LookupNames(t)) |->
                     t.lookups[CHOOSE i \in DOMAIN t.lookups : t.lookups[i].field = f].unique]]

TableSchema(t) ==
  [fieldOrder |-> FieldNames(t),
   kinds      |-> [f \in ToSet(FieldNames(t)) |->
                     t.fields[CHOOSE i \in DOMAIN t.fields : t.fields[i].name = f].type],
   lookups    |-> [f \in ToSet(LookupNames(t)) |->
                     t.lookups[CHOOSE i \in DOMAIN t.lookups : t.lookups[i].field = f].unique]]

(* add_field, add_lookup *)
Buildable(t) ==
  /\ \A n \in ToSet(FieldNames(t)) \cup ToSet(LookupNames(t)) : ~IsReserved(n)
  /\ Distinct(FieldNames(t)) /\ Distinct(LookupNames(t))

(* Mutant: the type of the id field is not checked. *)
Addable_AnyIdType(schema) ==
  /\ "id" \in DOMAIN schema.kinds
  /\ DOMAIN schema.lookups \subseteq DOMAIN schema.kinds

(* add_table *)
Addable(schema) ==
  /\ "id" \in DOMAIN schema.kinds /\ schema.kinds["id"] = "id"
  /\ DOMAIN schema.lookups \subseteq DOMAIN schema.kinds

Loadable(ir) ==
  /\ Distinct(TableNames(ir))
  /\ \A i \in DOMAIN ir : Buildable(ir[i]) /\ Addable(TableSchema(ir[i]))

Loaded(ir) ==
  [n \in ToSet(TableNames(ir)) |-> TableSchema(ir[CHOOSE i \in DOMAIN ir : ir[i].name = n])]

(* database_schema_from_ir *)
Load ==
  /\ pc = "load"
  /\ db' = IF Loadable(tables) THEN Loaded(tables) ELSE NoSchema
  /\ pc' = "done"
  /\ UNCHANGED <<source, written, pos, wrapped, tables, table, outcome>>

-----------------------------------------------------------------------------

Compile ==
  ParseSchema \/ ParseTableList \/ ParseLookup \/ ParseField \/ EndTable \/ BadItem
    \/ Validate \/ Load

Finished == pc = "done" /\ UNCHANGED vars

Next == Compile \/ Finished

(* One call of straight code. *)
Spec == Init /\ [][Next]_vars /\ WF_vars(Compile)

-----------------------------------------------------------------------------
(* What the hashes are of.                                                 *)

(* SchemaIr::schema_hash, the SCHEMA_HASH of the generated module: tables   *)
(* and lookups as declared.  Collisions of the hash are not modelled.      *)
IrHash(ir) ==
  [i \in DOMAIN ir |-> <<ir[i].name, ir[i].fields, ir[i].lookups>>]

(* DatabaseSchema::schema_hash, kept in sixpack.toml and every cache:       *)
(* tables and lookups by name.                                             *)
FieldsHash(schema) ==
  [i \in DOMAIN schema.fieldOrder |->
     [name |-> schema.fieldOrder[i], type |-> schema.kinds[schema.fieldOrder[i]]]]

LookupsHash(schema) ==
  LET order == Sorted(DOMAIN schema.lookups)
  IN  [i \in DOMAIN order |-> [field |-> order[i], unique |-> schema.lookups[order[i]]]]

DatabaseHash(schemas) ==
  LET names == Sorted(DOMAIN schemas)
  IN  [i \in DOMAIN names |->
         <<names[i], FieldsHash(schemas[names[i]]), LookupsHash(schemas[names[i]])>>]

-----------------------------------------------------------------------------

TypeOK ==
  /\ pos \in 0..Len(source) /\ wrapped \in BOOLEAN
  /\ pc \in {"schema", "tables", "items", "validate", "load", "done"}
  /\ outcome \in {"none", "error", "invalid", "compiled"}
  /\ \A t \in ToSet(tables) \cup {table} :
       /\ \A i \in DOMAIN t.fields : t.fields[i].name \in Identifiers /\ t.fields[i].type \in Types
       /\ \A i \in DOMAIN t.lookups : t.lookups[i].field \in Identifiers

(* A table as it is written: declarations of fields and lookups in any      *)
(* order, each with a semicolon behind it or not.  No field is called       *)
(* lookup: the word starts a lookup.                                       *)
Item ==
  [kind : {"field"}, name : Identifiers \ {"lookup"}, type : Types, semicolon : BOOLEAN]
    \cup [kind : {"lookup"}, name : Identifiers, unique : BOOLEAN, semicolon : BOOLEAN]

Written == [name : Identifiers, items : Seq(Item)]

(* Tables in a schema! block or in a list that a brace closes, with any     *)
(* tokens behind it, or in a bare list, with nothing behind it.            *)
Text ==
  [form : {"block", "closed"}, tables : Seq(Written), behind : Seq(Identifiers \cup Punctuation)]
    \cup [form : {"bare"}, tables : Seq(Written), behind : {<<>>}]

NoText == [form |-> "none", tables |-> <<>>, behind |-> <<>>]

Tokens(item) ==
  (IF item.kind = "field" THEN <<item.name, item.type>>
   ELSE <<"lookup", item.name>> \o (IF item.unique THEN <<"unique">> ELSE <<>>))
    \o (IF item.semicolon THEN <<"Semicolon">> ELSE <<>>)

TableText(t) ==
  <<t.name, "LBrace">> \o FlattenSeq([i \in DOMAIN t.items |-> Tokens(t.items[i])]) \o <<"RBrace">>

Opening(text) == IF text.form = "block" THEN <<"schema", "Bang", "LBrace">> ELSE <<>>

Closing(text) == IF text.form = "bare" THEN <<>> ELSE <<"RBrace">> \o text.behind

TextTokens(text) ==
  Opening(text) \o FlattenSeq([i \in DOMAIN text.tables |-> TableText(text.tables[i])])
    \o Closing(text)

(* The fields, and the lookups, among the first items, for any number of    *)
(* them.                                                                   *)
FieldsAmong(items) ==
  LET fields[n \in 0..Len(items)] ==
        IF n = 0 THEN <<>>
        ELSE IF items[n].kind # "field" THEN fields[n - 1]
        ELSE Append(fields[n - 1], [name |-> items[n].name, type |-> items[n].type])
  IN  fields

LookupsAmong(items) ==
  LET lookups[n \in 0..Len(items)] ==
        IF n = 0 THEN <<>>
        ELSE IF items[n].kind # "lookup" THEN lookups[n - 1]
        ELSE Append(lookups[n - 1], [field |-> items[n].name, unique |-> items[n].unique])
  IN  lookups

TableOf(t) ==
  [name    |-> t.name,
   fields  |-> FieldsAmong(t.items)[Len(t.items)],
   lookups |-> LookupsAmong(t.items)[Len(t.items)]]

SchemaOf(schema) == [i \in DOMAIN schema |-> TableOf(schema[i])]

Parsed == pc \in {"validate", "load"} \/ outcome \in {"compiled", "invalid"}

(* A lookup without `unique` and semicolon, and behind it a field of that   *)
(* name, which is taken for the flag.                                      *)
RunsTogether(items) ==
  \E i \in 2..Len(items) :
    /\ items[i - 1].kind = "lookup" /\ ~items[i - 1].unique /\ ~items[i - 1].semicolon
    /\ items[i].kind = "field" /\ items[i].name = "unique"

(* Its first table is called schema, which is taken for the block. *)
LooksLikeBlock(text) ==
  text.form # "block" /\ text.tables # <<>> /\ text.tables[1].name = "schema"

Ambiguous(text) ==
  \/ \E i \in DOMAIN text.tables : RunsTogether(text.tables[i].items)
  \/ LooksLikeBlock(text)

(* A text is read as what is written in it: no declaration is lost, taken   *)
(* for another or split in two, and what is behind the closing brace makes  *)
(* no difference.  A bare list, which nothing ends, is refused.            *)
ReadsBack ==
  written.form # "none" /\ ~Ambiguous(written) =>
    IF written.form = "bare" THEN ~Parsed
    ELSE outcome # "error" /\ (Parsed => tables = SchemaOf(written.tables))

Flags(t) == {i \in DOMAIN t.lookups : t.lookups[i].unique}

(* Tokens a table is written with, semicolons aside. *)
TableSize(t) == 3 + 2 * Len(t.fields) + 2 * Len(t.lookups) + Cardinality(Flags(t))

Size(ir) ==
  LET size[n \in 0..Len(ir)] ==
        IF n = 0 THEN 0 ELSE size[n - 1] + TableSize(ir[n])
  IN  size[Len(ir)]

(* Whatever the text, every token read of one that parses belongs to a      *)
(* declaration of the result: errors in a text are never skipped over.     *)
NothingSkipped ==
  Parsed =>
    Cardinality({i \in 1..pos : source[i] # "Semicolon"})
      = (IF wrapped THEN 4 ELSE 0) + Size(tables)

(* Small letters and digits, with one underscore at a time. *)
InSnakeCase(word) ==
  /\ \A i \in DOMAIN Letters[word] : Letters[word][i] # "upper"
  /\ ~\E i \in DOMAIN Letters[word] :
        i > 1 /\ Letters[word][i] = "underscore" /\ Letters[word][i - 1] = "underscore"

NamesInSnakeCase(ir) ==
  \A i \in DOMAIN ir :
    InSnakeCase(ir[i].name) /\ \A k \in DOMAIN ir[i].fields : InSnakeCase(ir[i].fields[k].name)

(* The rules of a schema but for the case of names: book/02-schema.md. *)
TableRules(t) ==
  /\ \E k \in DOMAIN t.fields : t.fields[k] = [name |-> "id", type |-> "id"]
  /\ \A k, l \in DOMAIN t.fields : t.fields[k].name = t.fields[l].name => k = l
  /\ \A k \in DOMAIN t.fields : ~IsReserved(t.fields[k].name)
  /\ \A k, l \in DOMAIN t.lookups : t.lookups[k].field = t.lookups[l].field => k = l
  /\ \A k \in DOMAIN t.lookups : \E l \in DOMAIN t.fields :
       t.fields[l].name = t.lookups[k].field

RulesKept(ir) ==
  /\ \A i, j \in DOMAIN ir : ir[i].name = ir[j].name => i = j
  /\ \A i \in DOMAIN ir : TableRules(ir[i])

IsLoaded == outcome = "compiled" /\ DOMAIN db = ToSet(TableNames(tables))

(* The compiler and the core schema together let no schema through that     *)
(* breaks a rule, and each that keeps them all and has its names in snake   *)
(* case, although each checks only some of the rules.                      *)
LoadsExactly ==
  pc = "done" /\ outcome # "error" =>
    /\ IsLoaded => RulesKept(tables)
    /\ RulesKept(tables) /\ NamesInSnakeCase(tables) => IsLoaded

(* The parser gets to an end of every text. *)
Ends == <>(pc = "done")

(* The hash in the generated module is the one the store writes for the     *)
(* schema of the same text exactly if tables, and the lookups of each, are *)
(* declared in alphabetical order: nothing else is hashed differently.     *)
HashesAgree ==
  pc = "done" /\ DOMAIN db # {} =>
    (IrHash(tables) = DatabaseHash(db)) <=>
      (/\ TableNames(tables) = Sorted(DOMAIN db)
       /\ \A i \in DOMAIN tables :
            LookupNames(tables[i]) = Sorted(ToSet(LookupNames(tables[i]))))
=============================================================================
