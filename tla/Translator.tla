----------------------------- MODULE Translator -----------------------------
(***************************************************************************)
(* translator/translator.go: what becomes of a string literal on its way   *)
(* through TranslateAST or Translate.  Column types, booleans, options and *)
(* functions are rewritten by word, wherever the word stands; introducers, *)
(* quotes and escapes come last.  Column types are replaced in the order   *)
(* of a Go map, which is any.                                              *)
(*                                                                         *)
(* A text is a sequence of tokens: quotes, backslashes, blanks and words.  *)
(* It is one literal and the rest of its statement, a comma and a second   *)
(* literal, with nothing around them that the translator looks for.  A     *)
(* token stands for all that are treated like it: "word" for what no       *)
(* rewriting looks for, NOW() for the functions replaced, IGNORE for the   *)
(* options removed, TRUE for both of its cases, "_name" for words that end *)
(* in an underscore and a name, " " for a single blank, "newline" for      *)
(* blanks that start with a line break, "  " for any others.  Between two  *)
(* words there is some character that no rewriting looks for.              *)
(***************************************************************************)
EXTENDS Naturals, Sequences, SequencesExt

CONSTANTS Value,      \* the strings that clients write
          Type        \* the column types that the map yields

VARIABLES
    kind,       \* the statement the literal is in
    source,     \* how the translator gets it
    value,      \* the string that is meant
    text,       \* the statement, as rewritten so far
    stage,      \* the rewriting that is next
    todo        \* column types that are still to be replaced

vars == <<kind, source, value, text, stage, todo>>

TypeMapToName ==                    \* fault: a type is mapped to another MySQL type
    [t \in {"INT", "BOOL", "DATE", "INTEGER", "TEXT"} |->
        CASE t = "BOOL" -> "INT"
          [] t \in {"INT", "INTEGER"} -> "INTEGER"
          [] OTHER -> "TEXT"]

\* defaultTypeMap
TypeMap ==
    LET integer == {"TINYINT", "SMALLINT", "MEDIUMINT", "INT", "INTEGER", "BIGINT",
                    "YEAR", "BOOLEAN", "BOOL"}
        real == {"FLOAT", "DOUBLE", "DECIMAL", "NUMERIC"}
        string == {"VARCHAR", "CHAR", "TINYTEXT", "TEXT", "MEDIUMTEXT", "LONGTEXT",
                   "ENUM", "SET", "DATE", "TIME", "DATETIME", "TIMESTAMP", "JSON"}
        binary == {"VARBINARY", "BINARY", "TINYBLOB", "BLOB", "MEDIUMBLOB", "LONGBLOB"}
    IN [t \in integer \cup real \cup string \cup binary |->
          CASE t \in integer -> "INTEGER"
            [] t \in real -> "REAL"
            [] t \in string -> "TEXT"
            [] t \in binary -> "BLOB"]

\* What is matched in either case, but written in upper case.
Folded == [text |-> "TEXT", integer |-> "INTEGER", blob |-> "BLOB"]

Upper(w) == IF w \in DOMAIN Folded THEN Folded[w] ELSE w

ASSUME TypeAssumption == Type \subseteq DOMAIN TypeMap

Quote == "'"
Backslash == "\\"
BooleanWords ==                     \* fault: written as words again
    [TRUE |-> "true", FALSE |-> "false"]

Boolean == [TRUE |-> "1", FALSE |-> "0"]

Option == "IGNORE"
Upsert == "ON DUPLICATE KEY UPDATE"
Blank == {" ", "  ", "newline"}
Introducer == {"_charset", "_name"}
Sql == DOMAIN TypeMap \cup DOMAIN Folded \cup DOMAIN Boolean
         \cup {"NOW()", Option, Upsert}
Token == {Quote, Backslash, ",", "word", "1", "0", "datetime(", ")", "REAL"}
           \cup Blank \cup Introducer \cup Sql

ASSUME ValueAssumption ==
    /\ Value \subseteq Seq(Token)
    /\ \A v \in Value : \A i \in 1 .. Len(v) - 1 : v[i] \in Blank => v[i + 1] \notin Blank

Statement == {"create", "select", "insert", "update"}
Source == {"ast", "doubled", "escaped"}
-----------------------------------------------------------------------------
(***************************************************************************)
(* How the literal arrives                                                 *)
(***************************************************************************)
\* Restore with RestoreStringSingleQuotes doubles quotes and leaves the rest;
\* it puts the character set before the literal.
\* A client whose statement is translated as text writes quotes doubled or
\* escaped, and every backslash escaped.
Spell(token, src) ==
    CASE token = Quote -> IF src = "escaped" THEN <<Backslash, Quote>>
                                             ELSE <<Quote, Quote>>
      [] token = Backslash /\ src # "ast" -> <<Backslash, Backslash>>
      [] OTHER -> <<token>>

Literal(v, src) ==
    (IF src = "ast" THEN <<"_charset">> ELSE <<>>)
      \o <<Quote>> \o FlattenSeq([i \in DOMAIN v |-> Spell(v[i], src)]) \o <<Quote>>

Written(v, src) == Literal(v, src) \o <<",">> \o Literal(<<"word">>, src)

\* SQLite: a doubled quote is a quote, a single one ends the literal.
Reads(t) ==
    IF t = <<>> \/ t[1] # Quote THEN [ended |-> FALSE, value |-> <<>>, rest |-> t] ELSE
    LET from[i \in 2 .. Len(t) + 2] ==
          IF i > Len(t) THEN [ended |-> FALSE, value |-> <<>>, rest |-> <<>>]
          ELSE IF t[i] # Quote
            THEN LET more == from[i + 1] IN [more EXCEPT !.value = <<t[i]>> \o @]
          ELSE IF i < Len(t) /\ t[i + 1] = Quote
            THEN LET more == from[i + 2] IN [more EXCEPT !.value = <<Quote>> \o @]
          ELSE [ended |-> TRUE, value |-> <<>>, rest |-> SubSeq(t, i + 1, Len(t))]
    IN from[2]
-----------------------------------------------------------------------------
(***************************************************************************)
(* The rewritings                                                          *)
(***************************************************************************)
NormalizeWhitespace(t) == [i \in DOMAIN t |-> IF t[i] \in Blank THEN " " ELSE t[i]]

\* The words of a type, in either case, become the word of SQLite.
ReplaceType(t, type) ==
    [i \in DOMAIN t |-> IF Upper(t[i]) = type THEN TypeMap[type] ELSE t[i]]

TranslateBoolean(t) ==
    [i \in DOMAIN t |-> IF t[i] \in DOMAIN Boolean THEN Boolean[t[i]] ELSE t[i]]

\* An option goes with the blanks before it, if there are any.
RemoveOption(t) ==
    LET removed(i) ==
          \/ t[i] = Option /\ i > 1 /\ t[i - 1] \in Blank
          \/ t[i] \in Blank /\ i < Len(t) /\ t[i + 1] = Option
    IN FlattenSeq([i \in DOMAIN t |-> IF removed(i) THEN <<>> ELSE <<t[i]>>])

\* A clause between blanks, with all that follows up to the end of the text,
\* in which there must be no line break.
RemoveOnDuplicateKeyUpdate(t) ==
    LET clauses == {i \in 2 .. Len(t) - 1 :
                      /\ t[i] = Upsert
                      /\ t[i - 1] \in Blank /\ t[i + 1] \in Blank
                      /\ \A j \in i + 2 .. Len(t) : t[j] # "newline"}
    IN IF clauses = {} THEN t ELSE SubSeq(t, 1, Min(clauses) - 2)

TranslateFunctions(t) == FlattenSeq([i \in DOMAIN t |->
    IF t[i] = "NOW()" THEN <<"datetime(", Quote, "word", Quote, ")">> ELSE <<t[i]>>])

\* An introducer is removed that a literal follows.  Where that literal ends is
\* what the regular expression takes for its end: it skips what a backslash
\* escapes, which is no line break, and prefers a doubled quote to an end as long
\* as another one follows.
TranslateCharacterSetIntroducers(t) ==
    LET end[i \in 1 .. Len(t) + 2] ==
          IF i > Len(t) THEN 0
          ELSE IF t[i] = Backslash
            THEN IF i < Len(t) /\ t[i + 1] = "newline" THEN 0 ELSE end[i + 2]
          ELSE IF t[i] # Quote THEN end[i + 1]
          ELSE IF i < Len(t) /\ t[i + 1] = Quote /\ end[i + 2] # 0 THEN end[i + 2]
          ELSE i
        found(i) == /\ t[i] \in Introducer
                    /\ i < Len(t) /\ t[i + 1] = Quote
                    /\ end[i + 2] # 0
        from[i \in 1 .. Len(t) + 1] ==
          IF i > Len(t) THEN <<>>
          ELSE IF found(i) THEN SubSeq(t, i + 1, end[i + 2]) \o from[end[i + 2] + 1]
          ELSE <<t[i]>> \o from[i + 1]
    IN from[1]

EscapesAnywhere(t) ==               \* fault: the scan does not track literals
    LET from[i \in 1 .. Len(t) + 1] ==
          IF i > Len(t) THEN <<>>
          ELSE IF t[i] = Backslash THEN <<Quote>> \o from[i + 1]
          ELSE <<t[i]>> \o from[i + 1]
    IN from[1]

\* One scan that knows whether it is inside a literal.
TranslateStringEscapes(t) ==
    LET quoteNext(i) == i < Len(t) /\ t[i + 1] = Quote
        from[i \in 1 .. Len(t) + 2] == [inString \in BOOLEAN |->
          IF i > Len(t) THEN <<>>
          ELSE IF t[i] = Quote /\ ~inString THEN <<Quote>> \o from[i + 1][TRUE]
          ELSE IF t[i] \in {Quote, Backslash} /\ inString /\ quoteNext(i)
            THEN <<Quote, Quote>> \o from[i + 2][TRUE]
          ELSE IF t[i] = Quote THEN <<Quote>> \o from[i + 1][FALSE]
          ELSE <<t[i]>> \o from[i + 1][inString]]
    IN from[1][FALSE]
-----------------------------------------------------------------------------
Init ==
    /\ kind \in Statement
    /\ source \in Source
    /\ value \in Value
    /\ text = Written(value, source)
    /\ stage = IF source = "ast" THEN "ddl" ELSE "blanks"
    /\ todo = Type

Rewrite(stages, t, then) ==
    /\ stage \in stages
    /\ text' = t
    /\ stage' = then
    /\ UNCHANGED <<kind, source, value>>

Blanks ==
    /\ Rewrite({"blanks"}, NormalizeWhitespace(text), "ddl")
    /\ UNCHANGED todo

\* for mysqlType, sqliteType := range t.typeMap
ColumnTypes ==
    /\ kind = "create"
    /\ \E type \in todo :
         /\ Rewrite({"ddl"}, ReplaceType(text, type), "ddl")
         /\ todo' = todo \ {type}

TypesDone ==
    /\ kind = "create" => todo = {}
    /\ Rewrite({"ddl"}, text, "dml")
    /\ UNCHANGED todo

TranslateDML ==
    /\ \/ kind = "create" /\ Rewrite({"dml"}, text, "functions")
       \/ kind = "select" /\ Rewrite({"dml"}, TranslateBoolean(text), "functions")
       \/ kind = "insert" /\ Rewrite({"dml"}, RemoveOnDuplicateKeyUpdate(text), "functions")
       \/ kind = "update" /\ Rewrite({"dml"}, RemoveOption(text), "functions")
    /\ UNCHANGED todo

Functions ==
    /\ Rewrite({"functions"}, TranslateFunctions(text), "introducers")
    /\ UNCHANGED todo

Introducers ==
    /\ Rewrite({"introducers"}, TranslateCharacterSetIntroducers(text), "escapes")
    /\ UNCHANGED todo

StringEscapes ==
    /\ Rewrite({"escapes"}, TranslateStringEscapes(text), "done")
    /\ UNCHANGED todo

Next ==
    \/ Blanks \/ ColumnTypes \/ TypesDone \/ TranslateDML
    \/ Functions \/ Introducers \/ StringEscapes

Spec == Init /\ [][Next]_vars
-----------------------------------------------------------------------------
TypeOK ==
    /\ kind \in Statement
    /\ source \in Source
    /\ value \in Value
    /\ text \in Seq(Token)
    /\ stage \in {"blanks", "ddl", "dml", "functions", "introducers", "escapes", "done"}
    /\ todo \in SUBSET Type

\* The order in which a Go map yields the column types does not matter: what
\* all of them together make of a word is what its own entry makes of it.
OrderIrrelevant ==
    stage = "dml" /\ kind = "create" =>
        text = LET w == Written(value, source)
                   before == IF source = "ast" THEN w ELSE NormalizeWhitespace(w)
               IN [i \in DOMAIN before |->
                     IF Upper(before[i]) \in Type THEN TypeMap[Upper(before[i])]
                                                 ELSE before[i]]

\* A string without words that the translator looks for.  If it is restored from
\* the AST its backslashes are data, and none stands where it could escape
\* something; if it is not, it has none, its blanks are single, and none of its
\* words could introduce what follows.
Ordinary(v) ==
    \A i \in DOMAIN v :
      LET next == IF i < Len(v) THEN v[i + 1] ELSE Quote IN
      /\ v[i] \notin Sql
      /\ v[i] = Backslash => source = "ast" /\ next \notin {Quote, "newline"}
      /\ v[i] \in Introducer => source = "ast" \/ next # Quote
      /\ v[i] \in Blank \ {" "} => source = "ast"

\* SQLite gets the string that the client meant, with the rest of the
\* statement after it.
Arrived ==
    Reads(text) = [ended |-> TRUE, value |-> value, rest |-> <<",", Quote, "word", Quote>>]

\* Whatever quotes a string has and however they are written, the scans that
\* strip introducers and undo escapes leave an ordinary string as it is, and
\* find the end of its literal.
LiteralKept == stage = "done" /\ Ordinary(value) => Arrived

\* translator.go, "so only the string literal remains", "single-quoted strings
\* without backslash escaping", "converts MySQL boolean literals": introducers
\* are stripped, quotes are escaped and SQL is converted, and strings stay.
StringsStay == stage = "done" => Arrived
=============================================================================
