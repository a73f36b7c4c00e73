------------------------------ MODULE MCFormats ------------------------------
(* The rows, caches, schemas and texts the formats are checked on.         *)
EXTENDS Formats

LOCAL INSTANCE SequencesExt

-----------------------------------------------------------------------------
(* Rows: every short text over the characters that matter, and booleans.   *)

SomeCharacters == {"bs", "tab", "nl", "cr", "n", "t", "r", "true", "false"}

Short == UNION {[1..n -> {"bs", "tab", "nl", "cr", "t", "r"}] : n \in 0..2}

SomeBodies ==
  [text |-> [type : {"text"}, text : Short],
   bool |-> [type : {"text", "bool"}, text : {<<"true">>, <<"false">>}],
   none |-> {[type |-> "none", text |-> <<>>]}]

SomeIds == {<<>>, <<"nl">>, <<"bs", "n">>}

SomeCut == [text |-> 0, bool |-> 9, none |-> 9]

-----------------------------------------------------------------------------
(* Caches of up to two rows and lookups.                                   *)

cachedRow(n) ==
  [id |-> <<97, n>>, chunk |-> <<122>>, offset |-> 300, len |-> n, tx |-> n]

cachedLookup(n) == [field |-> <<101>>, key |-> <<>>, id |-> <<97, n>>]

cache(rows, lookups) ==
  [table |-> <<116>>, schema |-> <<1>>, source |-> <<2, 1>>, rows |-> rows, lookups |-> lookups]

SomeCaches ==
  {cache(<<>>, <<>>), cache(<<cachedRow(1)>>, <<cachedLookup(1)>>),
   cache(<<cachedRow(1), cachedRow(2)>>, <<>>),
   cache(<<cachedRow(2)>>, <<cachedLookup(2), cachedLookup(1)>>)}

-----------------------------------------------------------------------------
(* Schemas, as tokens: every schema of a few declarations, written with or  *)
(* without semicolons, and token streams that are a token off.             *)

SomeWords ==
  <<"Name", "_tx", "email", "id", "int", "lookup", "roles", "schema", "text", "unique", "userName",
    "users", "x__y">>

SomeLetters ==
  [word \in {SomeWords[i] : i \in DOMAIN SomeWords} |->
     CASE word = "Name"     -> <<"upper", "lower">>
       [] word = "_tx"      -> <<"underscore", "lower">>
       [] word = "userName" -> <<"lower", "upper", "lower">>
       [] word = "x__y"     -> <<"lower", "underscore", "underscore", "lower">>
       [] OTHER             -> <<"lower", "lower">>]

(* How texts are written.  SomeSources is made of it and is no part of it.  *)
Grammar == INSTANCE SchemaCompiler WITH Words <- SomeWords, Letters <- SomeLetters, Sources <- {}

field(n, t) == [kind |-> "field", name |-> n, type |-> t, semicolon |-> FALSE]
lookup(n, u) == [kind |-> "lookup", name |-> n, unique |-> u, semicolon |-> FALSE]

Table(name, items, semicolon) ==
  [name |-> name, items |-> [i \in DOMAIN items |-> [items[i] EXCEPT !.semicolon = semicolon]]]

Source(text) == [tokens |-> Grammar!TextTokens(text), written |-> text]

Block(tabs) == Source([form |-> "block", tables |-> tabs, behind |-> <<>>])

Bare(tabs) == Source([form |-> "bare", tables |-> tabs, behind |-> <<>>])

OneTable(items, n) ==
  {<<Table("users", seq, semicolon)>> :
     seq \in UNION {[1..k -> items] : k \in 0..n}, semicolon \in BOOLEAN}

TwoTables(items, names2) ==
  {<<Table("users", <<i>>, FALSE), Table(other, <<j>>, TRUE)>> :
     i \in items, j \in items, other \in names2}

Common ==
  {field("id", "id"), field("email", "text"), lookup("email", FALSE), lookup("email", TRUE)}

Fields ==
  {field("id", "id"), field("id", "int"), field("unique", "text"), field("_tx", "int")}

Names == {field("id", "id"), field("Name", "text"), field("userName", "text"), field("x__y", "text")}

(* Five declarations, for two lookups beside the fields they are of. *)
TwoLookups ==
  {s \in OneTable({field("id", "id"), field("email", "text"), field("roles", "text"),
                   lookup("roles", FALSE), lookup("email", TRUE)}, 5) :
     Cardinality({i \in DOMAIN s[1].items : s[1].items[i].kind = "field"}) = 3
       /\ Len(s[1].items) = 5}

Schemas ==
  OneTable(Common \cup Fields \cup {lookup("id", FALSE)}, 3) \cup OneTable(Names, 2)
    \cup TwoTables(Common \cup Fields, {"users", "roles", "_tx", "Name"}) \cup TwoLookups

(* Lists of tables, and what may be behind a closing brace. *)
Lists ==
  {<<>>, <<Table("schema", <<field("id", "id")>>, FALSE)>>}
    \cup OneTable({field("id", "id"), lookup("id", FALSE), field("unique", "text")}, 2)
    \cup TwoTables({field("id", "id"), lookup("id", TRUE)}, {"roles", "schema"})

Endings == {<<>>, <<"RBrace">>, <<"roles", "LBrace">>, <<"schema", "Bang", "LBrace", "RBrace">>}

Texts ==
  {Block(s) : s \in Schemas} \cup {Bare(s) : s \in Lists}
    \cup {Source([form |-> f, tables |-> s, behind |-> e]) :
            f \in {"block", "closed"}, s \in Lists, e \in Endings}

(* A text cut short, a token dropped, another in its place, or one more. *)
Off(s) ==
  LET n == Len(s)
      more == {"LBrace", "RBrace", "Semicolon", "users", "lookup", "unique", "id"}
  IN  {SubSeq(s, 1, i) : i \in 0..(n - 1)}
        \cup {SubSeq(s, 1, i - 1) \o SubSeq(s, i + 1, n) : i \in 1..n}
        \cup {[s EXCEPT ![i] = t] : i \in 1..n, t \in more}
        \cup {SubSeq(s, 1, i) \o <<t>> \o SubSeq(s, i + 1, n) : i \in 0..n, t \in more}

Sound ==
  {Block(s).tokens :
     s \in {<<Table("users", <<field("id", "id"), lookup("id", FALSE)>>, FALSE)>>,
            <<Table("users", <<field("id", "id"), lookup("email", TRUE),
                               field("email", "text")>>, TRUE)>>,
            <<Table("users", <<field("id", "id")>>, FALSE), Table("roles", <<>>, FALSE)>>}}
    \cup {Bare(<<Table("users", <<field("id", "id")>>, FALSE)>>).tokens}

NearTexts ==
  {[written |-> Grammar!NoText, tokens |-> t] : t \in Sound \cup UNION {Off(s) : s \in Sound}}

SomeSources == Texts \cup NearTexts
=============================================================================
