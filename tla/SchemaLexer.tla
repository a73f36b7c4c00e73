----------------------------- MODULE SchemaLexer -----------------------------
(***************************************************************************)
(* The lexer of the schema compiler, on texts of classes of characters.    *)
(* One iteration of its loop is one action.                                *)
(***************************************************************************)
EXTENDS Naturals, Sequences, FiniteSets, FiniteSetsExt

CONSTANT MaxLength  \* of a text (bounds the model)

(* A letter or underscore, a digit, white space, a line's end, a slash, a   *)
(* punctuation mark, and any other character.                              *)
Chars == {"letter", "digit", "space", "newline", "slash", "mark", "other"}

VARIABLES
  input,
  at,         \* characters taken
  line, col,
  out,        \* the tokens: kind, characters, line and column
  outcome,    \* "none", "tokens", or "error", which is at line and col
  pc

vars == <<input, at, line, col, out, outcome, pc>>

Init ==
  /\ \E n \in 0..MaxLength : input \in [1..n -> Chars]
  /\ at = 0 /\ line = 1 /\ col = 1 /\ out = <<>> /\ outcome = "none" /\ pc = "lex"

Ahead(i) == IF at + i <= Len(input) THEN input[at + i] ELSE "end"

Take(n) == at' = at + n /\ UNCHANGED <<input, outcome, pc>>

Push(kind, n) == out' = Append(out, [kind |-> kind, size |-> n, line |-> line, col |-> col])

Error ==
  /\ outcome' = "error" /\ pc' = "done"
  /\ UNCHANGED <<input, at, line, col, out>>

IsIdentContinue(c) == c \in {"letter", "digit"}

-----------------------------------------------------------------------------

Newline ==
  /\ Ahead(1) = "newline"
  /\ line' = line + 1 /\ col' = 1
  /\ Take(1) /\ UNCHANGED out

Space ==
  /\ Ahead(1) = "space"
  /\ col' = col + 1
  /\ Take(1) /\ UNCHANGED <<line, out>>

Mark ==
  /\ Ahead(1) = "mark"
  /\ Push("mark", 1) /\ col' = col + 1
  /\ Take(1) /\ UNCHANGED line

(* The end of the line a comment is in, or the end of the text. *)
CommentEnd ==
  LET ends == {k \in (at + 2)..Len(input) : input[k] = "newline"}
  IN  IF ends = {} THEN Len(input) + 1 ELSE Min(ends)

(* Mutant: the line a comment ends is not counted. *)
Comment_KeepsLine ==
  /\ Ahead(1) = "slash" /\ Ahead(2) = "slash"
  /\ IF CommentEnd <= Len(input)
       THEN /\ line' = line /\ col' = 1
            /\ Take(CommentEnd - at)
       ELSE /\ line' = line /\ col' = col + (Len(input) - at - 1)
            /\ Take(Len(input) - at)
  /\ UNCHANGED out

(* Up to and with the end of the line.  The first slash is not counted, but *)
(* no token follows on the line.                                           *)
Comment ==
  /\ Ahead(1) = "slash" /\ Ahead(2) = "slash"
  /\ IF CommentEnd <= Len(input)
       THEN /\ line' = line + 1 /\ col' = 1
            /\ Take(CommentEnd - at)
       ELSE /\ line' = line /\ col' = col + (Len(input) - at - 1)
            /\ Take(Len(input) - at)
  /\ UNCHANGED out

Slash == Ahead(1) = "slash" /\ Ahead(2) # "slash" /\ Error

(* The letters and digits from here on. *)
IdentSize ==
  Max({n \in 1..(Len(input) - at) : \A i \in 1..n : IsIdentContinue(Ahead(i))})

Ident ==
  /\ Ahead(1) = "letter"
  /\ Push("ident", IdentSize) /\ col' = col + IdentSize
  /\ Take(IdentSize) /\ UNCHANGED line

Other == Ahead(1) \in {"digit", "other"} /\ Error

EndOfText ==
  /\ Ahead(1) = "end"
  /\ outcome' = "tokens" /\ pc' = "done"
  /\ UNCHANGED <<input, at, line, col, out>>

Lex ==
  /\ pc = "lex"
  /\ Newline \/ Space \/ Mark \/ Comment \/ Slash \/ Ident \/ Other \/ EndOfText

Finished == pc = "done" /\ UNCHANGED vars

Next == Lex \/ Finished

Spec == Init /\ [][Next]_vars

-----------------------------------------------------------------------------
(* What lexing means, character by character.                              *)

(* A comment goes from the first slash of a line to its end. *)
InComment(k) ==
  input[k] # "newline" /\ \E i \in 1..k : input[i] = "slash" /\ \A j \in i..k : input[j] # "newline"

IsBad(k) ==
  \/ input[k] = "other" /\ ~InComment(k)
  \/ input[k] = "digit" /\ ~InComment(k) /\ (k = 1 \/ ~IsIdentContinue(input[k - 1]))
  \/ /\ input[k] = "slash" /\ (k = 1 \/ ~InComment(k - 1))
     /\ (k = Len(input) \/ input[k + 1] # "slash")

Bad == {k \in DOMAIN input : IsBad(k)}

IsStart(k) ==
  /\ ~InComment(k)
  /\ \/ input[k] = "mark"
     \/ input[k] = "letter" /\ (k = 1 \/ ~IsIdentContinue(input[k - 1]))

Line(k) == 1 + Cardinality({i \in 1..(k - 1) : input[i] = "newline"})

Column(k) == k - Max({0} \cup {i \in 1..(k - 1) : input[i] = "newline"})

Starts(n) == {k \in 1..n : IsStart(k)}

(* The token t is the mark, or the whole word, that starts at k. *)
TokenAt(t, k) ==
  /\ t.line = Line(k) /\ t.col = Column(k)
  /\ \/ t.kind = "mark" /\ t.size = 1 /\ input[k] = "mark"
     \/ /\ t.kind = "ident"
        /\ \A j \in k..(k + t.size - 1) : j \in DOMAIN input /\ IsIdentContinue(input[j])
        /\ k + t.size \in DOMAIN input => ~IsIdentContinue(input[k + t.size])

(* A text without a bad character gives a token for each mark and each word *)
(* outside comments, in their order and with the line and column of their  *)
(* first character.                                                        *)
TokensExact ==
  outcome = "tokens" =>
    /\ Bad = {} /\ Len(out) = Cardinality(Starts(Len(input)))
    /\ \A k \in Starts(Len(input)) : TokenAt(out[Cardinality(Starts(k))], k)

(* An error is reported at the line and column of the first bad character. *)
ErrorExact ==
  outcome = "error" => Bad # {} /\ line = Line(Min(Bad)) /\ col = Column(Min(Bad))
=============================================================================
