---------------------------- MODULE MCTranslator ----------------------------
(* Translator on all short strings over the tokens that matter.            *)
EXTENDS Translator

Strings(tokens, max) ==
    {v \in UNION {[1 .. n -> tokens] : n \in 0 .. max} :
       \A i \in 1 .. Len(v) - 1 : v[i] \in Blank => v[i + 1] \notin Blank}

const_Value ==
    Strings({Quote, Backslash, " ", "newline", "word", "_name"}, 4)
      \cup Strings({" ", "newline", "TRUE", "BOOL", "text", "NOW()", Option, Upsert}, 3)
const_Type == {"INT", "BOOL", "INTEGER", "TEXT"}

\* A path that ends in a backslash, a name with an underscore, a word.
const_Path == {<<"word", Backslash>>}
const_Name == {<<"word", "_name">>}
const_Word == {<<"TRUE">>}

=============================================================================
