-------------------------- MODULE TranslatorProofs --------------------------
(***************************************************************************)
(* Proofs about Translator, for any strings and any column types of the    *)
(* map: every rewriting is defined on every text and yields tokens, and    *)
(* the order in which the types are replaced makes no difference.          *)
(***************************************************************************)
EXTENDS Translator, Induction, SequenceTheorems

\* The text whose column types are replaced.
Before ==
    LET w == Written(value, source)
    IN IF source = "ast" THEN w ELSE NormalizeWhitespace(w)

\* The text after the types that have been visited are replaced: each word is
\* what its own entry makes of it, although an entry may yield a word that a
\* type visited later replaces in its turn.
Replaced(done) ==
    [i \in DOMAIN Before |-> IF Upper(Before[i]) \in done THEN TypeMap[Upper(Before[i])]
                                                           ELSE Before[i]]

\* The inductive invariant.
IInv ==
    /\ TypeOK
    /\ stage = "blanks" => todo = Type /\ source # "ast" /\ text = Written(value, source)
    /\ stage = "ddl" => text = Replaced(Type \ todo)
    /\ stage = "dml" /\ kind = "create" => text = Replaced(Type)
-----------------------------------------------------------------------------
\* What an entry of defaultTypeMap yields is a type of SQLite, which its own
\* entry, if there is one, leaves as it is.
LEMMA TypeMapSettles ==
  ASSUME NEW type \in DOMAIN TypeMap, TypeMap[type] \in DOMAIN TypeMap
  PROVE  TypeMap[TypeMap[type]] = TypeMap[type]
  BY DEF TypeMap

\* What it yields is written in upper case.
LEMMA TypeMapUpper ==
  ASSUME NEW type \in DOMAIN TypeMap
  PROVE  Upper(TypeMap[type]) = TypeMap[type]
<1>1. TypeMap[type] \in {"INTEGER", "REAL", "TEXT", "BLOB"}
  BY DEF TypeMap
<1> QED
  BY <1>1 DEF Upper, Folded
-----------------------------------------------------------------------------
(***************************************************************************)
(* A text is a sequence of tokens.                                         *)
(***************************************************************************)
\* The function FlattenSeq computes with exists, by induction on its domain;
\* all its values are sequences, by induction again.
LEMMA FlattenScan ==
  ASSUME NEW S, NEW a \in Seq(Seq(S)), a # <<>>
  PROVE  \E f \in [1 .. Len(a) -> Seq(S)] :
           /\ FlattenSeq(a) = f[Len(a)]
           /\ \A i \in 1 .. Len(a) : f[i] = IF i = 1 THEN a[i] ELSE f[i - 1] \o a[i]
<1> DEFINE n == Len(a)
           Flattens(f, m) == \A i \in 1 .. m : f[i] = IF i = 1 THEN a[i] ELSE f[i - 1] \o a[i]
<1>1. n \in Nat /\ n >= 1 /\ \A i \in 1 .. n : a[i] \in Seq(S)
  BY EmptySeq, LenProperties, ElementOfSeq
<1> HIDE DEF n
<1>2. \E f \in [1 .. n -> Seq(S)] : Flattens(f, n)
  <2> DEFINE P(m) == \E f \in [1 .. m -> Seq(S)] : Flattens(f, m)
             E == {k \in Nat : k + 1 <= n => P(k + 1)}
  <2>1. P(1)
    <3> DEFINE f == [i \in 1 .. 1 |-> a[1]]
    <3>1. f \in [1 .. 1 -> Seq(S)] /\ Flattens(f, 1)
      BY <1>1
    <3> QED
      BY <3>1
  <2>2. ASSUME NEW m \in Nat, m > 1, m <= n, P(m - 1)
        PROVE  P(m)
    <3>1. PICK f \in [1 .. m - 1 -> Seq(S)] : Flattens(f, m - 1)
      BY <2>2
    <3> DEFINE g == [i \in 1 .. m |-> IF i = m THEN f[m - 1] \o a[m] ELSE f[i]]
    <3>2. f[m - 1] \in Seq(S) /\ a[m] \in Seq(S)
      BY <1>1, <2>2
    <3>3. f[m - 1] \o a[m] \in Seq(S)
      BY <3>2, ConcatProperties
    <3>4. g \in [1 .. m -> Seq(S)]
      BY <2>2, <3>3
    <3>5. /\ g[m] = f[m - 1] \o a[m]
          /\ \A i \in 1 .. m - 1 : g[i] = f[i]
      <4>1. m \in 1 .. m /\ \A i \in 1 .. m - 1 : i \in 1 .. m /\ i # m
        BY <2>2
      <4>2. \A i \in 1 .. m : g[i] = IF i = m THEN f[m - 1] \o a[m] ELSE f[i]
        OBVIOUS
      <4> HIDE DEF g
      <4> QED
        BY <4>1, <4>2
    <3> HIDE DEF g
    <3>6. ASSUME NEW i \in 1 .. m
          PROVE  g[i] = IF i = 1 THEN a[i] ELSE g[i - 1] \o a[i]
      <4>1. CASE i = m
        <5>1. m - 1 \in 1 .. m - 1
          BY <2>2
        <5>2. g[m - 1] = f[m - 1]
          BY <3>5, <5>1
        <5>3. g[m] = g[m - 1] \o a[m] /\ m # 1
          BY <2>2, <3>5, <5>2
        <5> QED
          BY <4>1, <5>3
      <4>2. CASE i # m
        <5>1. i \in 1 .. m - 1 /\ (i # 1 => i - 1 \in 1 .. m - 1)
          BY <2>2, <4>2
        <5>2. f[i] = IF i = 1 THEN a[i] ELSE f[i - 1] \o a[i]
          BY <3>1, <5>1
        <5>3. g[i] = f[i] /\ (i # 1 => g[i - 1] = f[i - 1])
          BY <3>5, <5>1
        <5> QED
          BY <5>2, <5>3
      <4> QED
        BY <4>1, <4>2
    <3> QED
      BY <3>4, <3>6
  <2> HIDE DEF P
  <2>3. 0 \in E
    BY <2>1
  <2>4. ASSUME NEW k \in E PROVE k + 1 \in E
    <3>1. k \in Nat /\ (k + 1 <= n => P(k + 1))
      OBVIOUS
    <3>2. (k + 1) + 1 \in Nat /\ (k + 1) + 1 > 1 /\ ((k + 1) + 1) - 1 = k + 1
      BY <3>1
    <3>3. (k + 1) + 1 <= n => k + 1 <= n
      BY <1>1, <3>1
    <3>4. (k + 1) + 1 <= n => P((k + 1) + 1)
      BY <2>2, <3>1, <3>2, <3>3
    <3> QED
      BY <3>1, <3>4
  <2>5. E \in SUBSET Nat
    OBVIOUS
  <2> HIDE DEF E
  <2>6. n - 1 \in E
    <3>1. E = Nat
      BY <2>3, <2>4, <2>5, Induct
    <3> QED
      BY <1>1, <3>1
  <2>7. (n - 1) + 1 = n /\ n <= n
    BY <1>1
  <2>8. P(n)
    BY <2>6, <2>7 DEF E
  <2> QED
    BY <2>8 DEF P
<1> DEFINE flatten == CHOOSE f : f = [i \in 1 .. n |-> IF i = 1 THEN a[i] ELSE f[i - 1] \o a[i]]
<1>3. flatten = [i \in 1 .. n |-> IF i = 1 THEN a[i] ELSE flatten[i - 1] \o a[i]]
  <2>1. PICK f \in [1 .. n -> Seq(S)] : Flattens(f, n)
    BY <1>2
  <2>2. f = [i \in 1 .. n |-> IF i = 1 THEN a[i] ELSE f[i - 1] \o a[i]]
    BY <2>1
  <2> QED
    BY <2>2
<1>4. FlattenSeq(a) = flatten[n]
  BY <1>1 DEF FlattenSeq, n
<1> HIDE DEF flatten
<1>5. Flattens(flatten, n)
  BY <1>3
<1>6. \A k \in Nat : k + 1 <= n => flatten[k + 1] \in Seq(S)
  <2> DEFINE E == {k \in Nat : k + 1 <= n => flatten[k + 1] \in Seq(S)}
  <2>1. 0 \in E
    BY <1>1, <1>5
  <2>2. ASSUME NEW k \in E PROVE k + 1 \in E
    <3>1. k \in Nat /\ (k + 1 <= n => flatten[k + 1] \in Seq(S))
      OBVIOUS
    <3>2. ASSUME (k + 1) + 1 <= n
          PROVE  flatten[(k + 1) + 1] \in Seq(S)
      <4> DEFINE m == (k + 1) + 1
      <4>1. m \in 1 .. n /\ m # 1 /\ m - 1 = k + 1 /\ k + 1 <= n
        BY <1>1, <3>1, <3>2
      <4>2. flatten[k + 1] \in Seq(S) /\ a[m] \in Seq(S)
        BY <1>1, <3>1, <4>1
      <4> HIDE DEF m
      <4>3. flatten[m] = flatten[k + 1] \o a[m]
        BY <1>5, <4>1
      <4> QED
        BY <4>2, <4>3, ConcatProperties DEF m
    <3> QED
      BY <3>1, <3>2
  <2> HIDE DEF E
  <2>3. E \in SUBSET Nat
    BY DEF E
  <2>4. E = Nat
    BY <2>1, <2>2, <2>3, Induct
  <2> QED
    BY <2>4 DEF E
<1>7. flatten \in [1 .. n -> Seq(S)]
  <2>1. \A i \in 1 .. n : i - 1 \in Nat /\ (i - 1) + 1 <= n /\ (i - 1) + 1 = i
    BY <1>1
  <2>2. \A i \in 1 .. n : flatten[i] \in Seq(S)
    BY <1>6, <2>1
  <2> DEFINE g == [i \in 1 .. n |-> flatten[i]]
  <2>3. g \in [1 .. n -> Seq(S)]
    BY <2>2
  <2>4. flatten = g
    BY <1>3
  <2> QED
    BY <2>3, <2>4
<1> QED
  BY <1>4, <1>5, <1>7 DEF n

LEMMA FlattenType ==
  ASSUME NEW S, NEW a \in Seq(Seq(S)), a # <<>>
  PROVE  FlattenSeq(a) \in Seq(S)
<1>1. Len(a) \in 1 .. Len(a)
  BY EmptySeq, LenProperties
<1> QED
  BY <1>1, FlattenScan

\* What the translator starts from, for any string.
LEMMA LiteralType ==
  ASSUME NEW v \in Seq(Token), NEW src \in Source
  PROVE  Literal(v, src) \in Seq(Token)
<1>1. Quote \in Token /\ Backslash \in Token /\ "_charset" \in Token
  BY DEF Token, Introducer
<1> HIDE DEF Token
<1>2. \A t \in Token : Spell(t, src) \in Seq(Token)
  BY <1>1 DEF Spell
<1> DEFINE spelled == [i \in DOMAIN v |-> Spell(v[i], src)]
<1>3. Len(v) \in Nat /\ DOMAIN v = 1 .. Len(v) /\ \A i \in 1 .. Len(v) : v[i] \in Token
  BY LenProperties, ElementOfSeq
<1>4. spelled \in [1 .. Len(v) -> Seq(Token)]
  BY <1>2, <1>3
<1>5. spelled \in Seq(Seq(Token)) /\ Len(spelled) = Len(v)
  BY <1>3, <1>4, IsASeq, LenProperties
<1> HIDE DEF spelled
<1>6. FlattenSeq(spelled) \in Seq(Token)
  <2>1. CASE spelled = <<>>
    BY <2>1, EmptySeq DEF FlattenSeq
  <2>2. CASE spelled # <<>>
    BY <1>5, <2>2, FlattenType
  <2> QED
    BY <2>1, <2>2
<1>7. /\ (IF src = "ast" THEN <<"_charset">> ELSE <<>>) \in Seq(Token)
      /\ <<Quote>> \in Seq(Token)
  BY <1>1
<1>8. Literal(v, src) = ((IF src = "ast" THEN <<"_charset">> ELSE <<>>) \o <<Quote>>
                           \o FlattenSeq(spelled)) \o <<Quote>>
  BY DEF Literal, spelled
<1> QED
  BY <1>6, <1>7, <1>8, ConcatProperties

\* The whole statement, of two literals.
LEMMA WrittenType ==
  ASSUME NEW v \in Value, NEW src \in Source
  PROVE  Written(v, src) \in Seq(Token)
<1>1. v \in Seq(Token) /\ <<"word">> \in Seq(Token) /\ <<",">> \in Seq(Token)
  <2>1. "word" \in Token /\ "," \in Token
    BY DEF Token
  <2> HIDE DEF Token
  <2>2. v \in Seq(Token)
    BY ValueAssumption
  <2>3. \A t \in Token : <<t>> \in Seq(Token)
    OBVIOUS
  <2> QED
    BY <2>1, <2>2, <2>3
<1>2. Literal(v, src) \in Seq(Token) /\ Literal(<<"word">>, src) \in Seq(Token)
  BY <1>1, LiteralType
<1> QED
  BY <1>1, <1>2, ConcatProperties DEF Written
-----------------------------------------------------------------------------
(***************************************************************************)
(* The column types                                                        *)
(***************************************************************************)
\* Nothing is replaced at first, and a further type replaces its own words,
\* where another type's entry left such words as well.
LEMMA NoneReplaced ==
  ASSUME Before \in Seq(Token)
  PROVE  Replaced({}) = Before
<1>1. Before = [i \in DOMAIN Before |-> Before[i]]
  BY LenProperties
<1> QED
  BY <1>1 DEF Replaced

\* One entry more: where another type's entry left such a word, too.
LEMMA OneMoreReplaced ==
  ASSUME NEW done \in SUBSET Type, NEW type \in Type
  PROVE  ReplaceType(Replaced(done), type) = Replaced(done \cup {type})
<1> DEFINE r == Replaced(done)
<1>1. /\ DOMAIN r = DOMAIN Before
      /\ \A i \in DOMAIN Before :
           r[i] = IF Upper(Before[i]) \in done THEN TypeMap[Upper(Before[i])] ELSE Before[i]
  BY DEF Replaced
<1> HIDE DEF r
<1>2. ASSUME NEW i \in DOMAIN Before
      PROVE  (IF Upper(r[i]) = type THEN TypeMap[type] ELSE r[i])
               = IF Upper(Before[i]) \in done \cup {type} THEN TypeMap[Upper(Before[i])]
                                                          ELSE Before[i]
  <2> DEFINE w == Upper(Before[i])
  <2>1. r[i] = IF w \in done THEN TypeMap[w] ELSE Before[i]
    BY <1>1
  <2>2. w \in done => /\ w \in DOMAIN TypeMap /\ type \in DOMAIN TypeMap
                      /\ Upper(TypeMap[w]) = TypeMap[w]
    BY TypeAssumption, TypeMapUpper
  <2>3. Upper(Before[i]) = w
    OBVIOUS
  <2> HIDE DEF w
  <2>4. CASE w \in done /\ TypeMap[w] = type
    <3>1. TypeMap[type] = TypeMap[w]
      BY <2>2, <2>4, TypeMapSettles
    <3> QED
      BY <2>1, <2>2, <2>3, <2>4, <3>1
  <2>5. CASE w \in done /\ TypeMap[w] # type
    BY <2>1, <2>2, <2>3, <2>5
  <2>6. CASE w \notin done
    BY <2>1, <2>3, <2>6
  <2> QED
    BY <2>4, <2>5, <2>6
<1>3. ReplaceType(r, type)
        = [i \in DOMAIN Before |-> IF Upper(r[i]) = type THEN TypeMap[type] ELSE r[i]]
  BY <1>1 DEF ReplaceType
<1> QED
  BY <1>2, <1>3 DEF Replaced, r
-----------------------------------------------------------------------------
(***************************************************************************)
(* Every rewriting yields a sequence of tokens again.                      *)
(***************************************************************************)
\* What there is to know of a text.
LEMMA TextFacts ==
  ASSUME NEW W, NEW t \in Seq(W)
  PROVE  /\ Len(t) \in Nat /\ DOMAIN t = 1 .. Len(t)
         /\ \A i \in 1 .. Len(t) : t[i] \in W
  BY LenProperties, ElementOfSeq

\* Rewritings that replace one word by another.
LEMMA WordwiseType ==
  ASSUME NEW t \in Seq(Token)
  PROVE  /\ NormalizeWhitespace(t) \in Seq(Token)
         /\ TranslateBoolean(t) \in Seq(Token)
         /\ \A type \in Type : ReplaceType(t, type) \in Seq(Token)
<1>1. " " \in Token /\ \A w \in DOMAIN Boolean : Boolean[w] \in Token
  <2>1. " " \in Token /\ "1" \in Token /\ "0" \in Token
    BY DEF Token, Blank
  <2> HIDE DEF Token
  <2>2. \A w \in DOMAIN Boolean : Boolean[w] \in {"0", "1"}
    BY DEF Boolean
  <2> QED
    BY <2>1, <2>2
<1>2. \A type \in Type : TypeMap[type] \in Token
  BY TypeAssumption DEF Token, Sql, TypeMap
<1> HIDE DEF Token, Boolean, TypeMap
<1>3. NormalizeWhitespace(t) \in [1 .. Len(t) -> Token]
  BY <1>1, TextFacts DEF NormalizeWhitespace
<1>4. TranslateBoolean(t) \in [1 .. Len(t) -> Token]
  BY <1>1, TextFacts DEF TranslateBoolean
<1>5. \A type \in Type : ReplaceType(t, type) \in [1 .. Len(t) -> Token]
  BY <1>2, TextFacts DEF ReplaceType
<1>6. Len(t) \in Nat
  BY TextFacts
<1> QED
  BY <1>3, <1>4, <1>5, <1>6, IsASeq

\* Rewritings that replace each word by any number of words.
LEMMA FlattenWords ==
  ASSUME NEW n \in Nat, NEW a \in [1 .. n -> Seq(Token)]
  PROVE  FlattenSeq(a) \in Seq(Token)
<1>1. a \in Seq(Seq(Token))
  BY IsASeq
<1>2. CASE a = <<>>
  BY <1>2, EmptySeq DEF FlattenSeq
<1>3. CASE a # <<>>
  BY <1>1, <1>3, FlattenType
<1> QED
  BY <1>2, <1>3

\* removeOption drops words.
LEMMA OptionType ==
  ASSUME NEW t \in Seq(Token)
  PROVE  RemoveOption(t) \in Seq(Token)
<1> DEFINE removed(i) == \/ t[i] = Option /\ i > 1 /\ t[i - 1] \in Blank
                         \/ t[i] \in Blank /\ i < Len(t) /\ t[i + 1] = Option
           a == [i \in DOMAIN t |-> IF removed(i) THEN <<>> ELSE <<t[i]>>]
<1> HIDE DEF Token, removed
<1>1. \A w \in Token : <<w>> \in Seq(Token)
  OBVIOUS
<1>2. <<>> \in Seq(Token)
  OBVIOUS
<1>3. a \in [1 .. Len(t) -> Seq(Token)]
  BY <1>1, <1>2, TextFacts
<1> HIDE DEF a
<1>4. FlattenSeq(a) \in Seq(Token)
  BY <1>3, TextFacts, FlattenWords
<1> QED
  BY <1>4 DEF RemoveOption, a, removed

\* translateFunctions writes several words for one.
LEMMA FunctionsType ==
  ASSUME NEW t \in Seq(Token)
  PROVE  TranslateFunctions(t) \in Seq(Token)
<1> DEFINE call == <<"datetime(", Quote, "word", Quote, ")">>
           a == [i \in DOMAIN t |-> IF t[i] = "NOW()" THEN call ELSE <<t[i]>>]
<1>1. call \in Seq(Token)
  <2>1. /\ "datetime(" \in Token /\ Quote \in Token
        /\ "word" \in Token /\ ")" \in Token
    BY DEF Token
  <2> HIDE DEF Token
  <2>2. \A v, w, x, y, z \in Token : <<v, w, x, y, z>> \in Seq(Token)
    OBVIOUS
  <2> QED
    BY <2>1, <2>2
<1> HIDE DEF Token, call
<1>2. \A w \in Token : <<w>> \in Seq(Token)
  OBVIOUS
<1>3. a \in [1 .. Len(t) -> Seq(Token)]
  BY <1>1, <1>2, TextFacts
<1> HIDE DEF a
<1>4. FlattenSeq(a) \in Seq(Token)
  BY <1>3, TextFacts, FlattenWords
<1> QED
  BY <1>4 DEF TranslateFunctions, a, call

\* removeOnDuplicateKeyUpdate cuts the text off before the clause.
LEMMA UpsertType ==
  ASSUME NEW t \in Seq(Token)
  PROVE  RemoveOnDuplicateKeyUpdate(t) \in Seq(Token)
<1> DEFINE I == {i \in 2 .. Len(t) - 1 :
                  /\ t[i] = Upsert
                  /\ t[i - 1] \in Blank /\ t[i + 1] \in Blank
                  /\ \A j \in i + 2 .. Len(t) : t[j] # "newline"}
           first == CHOOSE x \in I : \A y \in I : x <= y
<1>0. Len(t) \in Nat
  BY TextFacts
<1>1. RemoveOnDuplicateKeyUpdate(t) = IF I = {} THEN t ELSE SubSeq(t, 1, first - 2)
  BY DEF RemoveOnDuplicateKeyUpdate, Min
<1>2. I \in SUBSET 2 .. Len(t) - 1
  OBVIOUS
<1> HIDE DEF I
<1>3. CASE I = {}
  BY <1>1, <1>3
<1>4. CASE I # {}
  <2>1. I \in SUBSET Nat
    BY <1>0, <1>2
  <2>2. \E x \in I : \A y \in I : x <= y
    BY <1>4, <2>1, Smallest
  <2>3. first \in 2 .. Len(t) - 1
    BY <1>2, <2>2
  <2> HIDE DEF first
  <2>4. 1 \in 1 .. Len(t) + 1 /\ first - 2 \in 0 .. Len(t)
    BY <1>0, <2>3
  <2>5. SubSeq(t, 1, first - 2) \in Seq(Token)
    BY <2>4, SubSeqProperties
  <2> QED
    BY <1>1, <1>4, <2>5
<1> QED
  BY <1>3, <1>4
-----------------------------------------------------------------------------
(***************************************************************************)
(* The two scans, from the end of the text to its start                    *)
(***************************************************************************)
\* The functions that the scans compute with are what their definitions say,
\* at every index of the text.
EndAt(t, end, i) ==
    IF i > Len(t) THEN 0
    ELSE IF t[i] = Backslash
      THEN IF i < Len(t) /\ t[i + 1] = "newline" THEN 0 ELSE end[i + 2]
    ELSE IF t[i] # Quote THEN end[i + 1]
    ELSE IF i < Len(t) /\ t[i + 1] = Quote /\ end[i + 2] # 0 THEN end[i + 2]
    ELSE i

Ends(t, end) ==
    \A i \in 1 .. Len(t) + 2 :
      (end[i] = 0 \/ end[i] \in i .. Len(t)) /\ end[i] = EndAt(t, end, i)

Found(t, end, i) ==
    /\ t[i] \in Introducer
    /\ i < Len(t) /\ t[i + 1] = Quote
    /\ end[i + 2] # 0

Strips(t, end, from) ==
    \A i \in 1 .. Len(t) + 1 :
      from[i] = IF i > Len(t) THEN <<>>
                ELSE IF Found(t, end, i) THEN SubSeq(t, i + 1, end[i + 2]) \o from[end[i + 2] + 1]
                ELSE <<t[i]>> \o from[i + 1]

EscapedAt(t, from, i, inString) ==
    LET quoteNext == i < Len(t) /\ t[i + 1] = Quote
    IN  IF i > Len(t) THEN <<>>
        ELSE IF t[i] = Quote /\ ~inString THEN <<Quote>> \o from[i + 1][TRUE]
        ELSE IF t[i] \in {Quote, Backslash} /\ inString /\ quoteNext
          THEN <<Quote, Quote>> \o from[i + 2][TRUE]
        ELSE IF t[i] = Quote THEN <<Quote>> \o from[i + 1][FALSE]
        ELSE <<t[i]>> \o from[i + 1][inString]

Escapes(t, from) ==
    \A i \in 1 .. Len(t) + 2 : \A in \in BOOLEAN : from[i][in] = EscapedAt(t, from, i, in)

\* Where literals end: the scan stays within the text, and goes forwards.
LEMMA EndsExist ==
  ASSUME NEW W, NEW t \in Seq(W), NEW end,
         end = CHOOSE e : e = [i \in 1 .. Len(t) + 2 |->
                 IF i > Len(t) THEN 0
                 ELSE IF t[i] = Backslash
                   THEN IF i < Len(t) /\ t[i + 1] = "newline" THEN 0 ELSE e[i + 2]
                 ELSE IF t[i] # Quote THEN e[i + 1]
                 ELSE IF i < Len(t) /\ t[i + 1] = Quote /\ e[i + 2] # 0 THEN e[i + 2]
                 ELSE i]
  PROVE  Ends(t, end)
<1> DEFINE n == Len(t)
           m == n + 2
           Body(e, i) == IF i > n THEN 0
                         ELSE IF t[i] = Backslash
                           THEN IF i < n /\ t[i + 1] = "newline" THEN 0 ELSE e[i + 2]
                         ELSE IF t[i] # Quote THEN e[i + 1]
                         ELSE IF i < n /\ t[i + 1] = Quote /\ e[i + 2] # 0 THEN e[i + 2]
                         ELSE i
           G == [i \in 1 .. m |-> [e \in [1 .. m -> Nat] |-> Body(e, i)]]
<1>1. n \in Nat /\ m \in Nat
  BY TextFacts
<1>2. \A i \in 1 .. m : i <= n => i + 1 \in 1 .. m /\ i + 2 \in 1 .. m
  BY <1>1
<1>3. end = CHOOSE e : e = [i \in 1 .. m |-> Body(e, i)]
  OBVIOUS
<1> HIDE DEF n, m
<1>4. ASSUME NEW i \in 1 .. m, NEW e \in [1 .. m -> Nat]
      PROVE  Body(e, i) \in Nat
  <2>1. i \in Nat
    BY <1>1
  <2>2. CASE i > n
    BY <2>2
  <2>3. CASE i <= n
    <3>1. e[i + 1] \in Nat /\ e[i + 2] \in Nat
      BY <1>2, <2>3
    <3> QED
      BY <2>1, <3>1
  <2> QED
    BY <1>1, <2>1, <2>2, <2>3
<1>5. G \in [1 .. m -> [[1 .. m -> Nat] -> Nat]]
  BY <1>4
<1>6. \A i \in 1 .. m : \A e, f \in [1 .. m -> Nat] :
        (\A j \in 1 .. m : j > i => e[j] = f[j]) => Body(e, i) = Body(f, i)
  <2> SUFFICES ASSUME NEW i \in 1 .. m, NEW e \in [1 .. m -> Nat], NEW f \in [1 .. m -> Nat],
                      \A j \in 1 .. m : j > i => e[j] = f[j]
               PROVE  Body(e, i) = Body(f, i)
    OBVIOUS
  <2>1. i \in Nat /\ i + 1 > i /\ i + 2 > i
    BY <1>1
  <2>2. i <= n => e[i + 1] = f[i + 1] /\ e[i + 2] = f[i + 2]
    BY <1>2, <2>1
  <2> QED
    BY <1>1, <2>1, <2>2
<1>7. \A i \in 1 .. m : \A e \in [1 .. m -> Nat] : G[i][e] = Body(e, i)
  OBVIOUS
<1> HIDE DEF Body, G
<1>8. Defines(G, m, Nat)
  <2>1. Nat # {}
    OBVIOUS
  <2>2. ASSUME NEW i \in 1 .. m, NEW e \in [1 .. m -> Nat], NEW f \in [1 .. m -> Nat],
               \A j \in 1 .. m : j > i => e[j] = f[j]
        PROVE  G[i][e] = G[i][f]
    <3>1. Body(e, i) = Body(f, i)
      BY <1>6, <2>2
    <3> QED
      BY <1>7, <3>1
  <2>3. LooksDown(G, m, Nat)
    BY <1>5, <2>2 DEF LooksDown
  <2> QED
    BY <1>1, <2>1, <2>3, RecursionDown
<1>9. end = [i \in 1 .. m |-> Body(end, i)]
  <2>1. PICK e \in [1 .. m -> Nat] : \A i \in 1 .. m : e[i] = Body(e, i)
    BY <1>7, <1>8 DEF Defines
  <2>2. e = [i \in 1 .. m |-> Body(e, i)]
    BY <2>1
  <2> QED
    BY <1>3, <2>2
<1>10. \A i \in 1 .. m : end[i] = Body(end, i)
  BY <1>9
<1> DEFINE S == {i \in 1 .. m : end[i] = 0 \/ end[i] \in i .. n}
<1>11. ASSUME NEW i \in 1 .. m, \A j \in 1 .. m : j > i => j \in S
       PROVE  i \in S
  <2>1. i \in Nat /\ i + 1 > i /\ i + 2 > i
    BY <1>1
  <2>2. i <= n => /\ end[i + 1] = 0 \/ end[i + 1] \in i + 1 .. n
                  /\ end[i + 2] = 0 \/ end[i + 2] \in i + 2 .. n
    BY <1>2, <1>11, <2>1
  <2>3. Body(end, i) = 0 \/ Body(end, i) \in i .. n
    BY <1>1, <2>1, <2>2 DEF Body
  <2> QED
    BY <1>10, <2>3
<1> HIDE DEF S
<1>12. \A i \in 1 .. m : i \in S
  BY <1>1, <1>11, InductDown
<1>13. \A i \in 1 .. m : Body(end, i) = EndAt(t, end, i)
  BY DEF Body, EndAt, n
<1> QED
  BY <1>10, <1>12, <1>13 DEF S, m, n, Ends

\* translateCharacterSetIntroducers takes whole literals, or single words.
LEMMA IntroducersScan ==
  ASSUME NEW W, NEW t \in Seq(W)
  PROVE  \E end, from : /\ Ends(t, end) /\ Strips(t, end, from)
                        /\ from \in [1 .. Len(t) + 1 -> Seq(W)]
                        /\ TranslateCharacterSetIntroducers(t) = from[1]
<1> DEFINE n == Len(t)
           m == n + 1
           R == Seq(W)
           end == CHOOSE e : e = [i \in 1 .. Len(t) + 2 |->
                    IF i > Len(t) THEN 0
                    ELSE IF t[i] = Backslash
                      THEN IF i < Len(t) /\ t[i + 1] = "newline" THEN 0 ELSE e[i + 2]
                    ELSE IF t[i] # Quote THEN e[i + 1]
                    ELSE IF i < Len(t) /\ t[i + 1] = Quote /\ e[i + 2] # 0 THEN e[i + 2]
                    ELSE i]
           found(i) == /\ t[i] \in Introducer
                       /\ i < Len(t) /\ t[i + 1] = Quote
                       /\ end[i + 2] # 0
           Body(f, i) == IF i > Len(t) THEN <<>>
                         ELSE IF found(i) THEN SubSeq(t, i + 1, end[i + 2]) \o f[end[i + 2] + 1]
                         ELSE <<t[i]>> \o f[i + 1]
           from == CHOOSE f : f = [i \in 1 .. Len(t) + 1 |-> Body(f, i)]
           G == [i \in 1 .. m |-> [f \in [1 .. m -> R] |-> Body(f, i)]]
<1>1. TranslateCharacterSetIntroducers(t) = from[1]
  BY DEF TranslateCharacterSetIntroducers
<1>2. n \in Nat /\ m \in Nat /\ m = n + 1 /\ \A i \in 1 .. n : t[i] \in W
  BY TextFacts
<1>3. \A i \in 1 .. n + 2 : end[i] = 0 \/ end[i] \in i .. n
  BY EndsExist DEF Ends
<1> HIDE DEF end
\* What the scan takes at an index, and where it goes on.
<1> DEFINE piece(i) == IF found(i) THEN SubSeq(t, i + 1, end[i + 2]) ELSE <<t[i]>>
           onward(i) == IF found(i) THEN end[i + 2] + 1 ELSE i + 1
<1>4. ASSUME NEW i \in 1 .. m, i <= n
      PROVE  piece(i) \in Seq(W) /\ onward(i) \in 1 .. m /\ onward(i) > i
  <2>1. CASE found(i)
    <3>1. end[i + 2] \in i + 2 .. n
      <4>1. i + 2 \in 1 .. n + 2
        BY <1>2, <1>4
      <4> QED
        BY <1>3, <2>1, <4>1
    <3>2. \A j \in i + 1 .. end[i + 2] : t[j] \in W
      BY <1>2, <3>1
    <3>3. i + 1 \in Int /\ end[i + 2] \in Int
      BY <1>2, <3>1
    <3>4. SubSeq(t, i + 1, end[i + 2]) \in Seq(W)
      BY <3>2, <3>3, SubSeqProperties
    <3>5. end[i + 2] + 1 \in 1 .. m /\ end[i + 2] + 1 > i
      BY <1>2, <3>1
    <3> QED
      BY <2>1, <3>4, <3>5
  <2>2. CASE ~found(i)
    <3>1. <<t[i]>> \in Seq(W)
      BY <1>2, <1>4
    <3>2. i + 1 \in 1 .. m /\ i + 1 > i
      BY <1>2, <1>4
    <3> QED
      BY <2>2, <3>1, <3>2
  <2> QED
    BY <2>1, <2>2
<1>5. \A f : \A i \in 1 .. m : Body(f, i) = IF i > n THEN <<>> ELSE piece(i) \o f[onward(i)]
  OBVIOUS
<1>6. from = CHOOSE f : f = [i \in 1 .. m |-> Body(f, i)]
  OBVIOUS
<1> HIDE DEF from, found, n, m, Body, piece, onward
<1>7. \A i \in 1 .. m : \A f \in [1 .. m -> R] : Body(f, i) \in R
  <2> SUFFICES ASSUME NEW i \in 1 .. m, NEW f \in [1 .. m -> R]
               PROVE  Body(f, i) \in R
    OBVIOUS
  <2>1. CASE i > n
    BY <1>5, <2>1, EmptySeq
  <2>2. CASE ~(i > n)
    <3>1. piece(i) \in Seq(W) /\ f[onward(i)] \in Seq(W)
      BY <1>2, <1>4, <2>2
    <3>2. piece(i) \o f[onward(i)] \in Seq(W)
      BY <3>1, ConcatProperties
    <3> QED
      BY <1>5, <2>2, <3>2
  <2> QED
    BY <2>1, <2>2
<1> HIDE DEF R
<1>8. G \in [1 .. m -> [[1 .. m -> R] -> R]]
  BY <1>7
<1>9. \A i \in 1 .. m : \A f \in [1 .. m -> R] : G[i][f] = Body(f, i)
  OBVIOUS
<1> HIDE DEF G
<1>10. Defines(G, m, R)
  <2>1. R # {}
    BY EmptySeq DEF R
  <2>2. ASSUME NEW i \in 1 .. m, NEW f \in [1 .. m -> R], NEW g \in [1 .. m -> R],
               \A j \in 1 .. m : j > i => f[j] = g[j]
        PROVE  G[i][f] = G[i][g]
    <3>1. ~(i > n) => f[onward(i)] = g[onward(i)]
      BY <1>2, <1>4, <2>2
    <3>2. Body(f, i) = Body(g, i)
      BY <1>5, <3>1
    <3> QED
      BY <1>9, <3>2
  <2>3. LooksDown(G, m, R)
    BY <1>8, <2>2 DEF LooksDown
  <2> QED
    BY <1>2, <2>1, <2>3, RecursionDown
<1>11. from = [i \in 1 .. m |-> Body(from, i)]
  <2>1. PICK f \in [1 .. m -> R] : \A i \in 1 .. m : f[i] = Body(f, i)
    BY <1>9, <1>10 DEF Defines
  <2>2. f = [i \in 1 .. m |-> Body(f, i)]
    BY <2>1
  <2> QED
    BY <1>6, <2>2
<1> DEFINE S == {i \in 1 .. m : from[i] \in R}
<1>12. ASSUME NEW i \in 1 .. m, \A j \in 1 .. m : j > i => j \in S
       PROVE  i \in S
  <2>1. from[i] = IF i > n THEN <<>> ELSE piece(i) \o from[onward(i)]
    BY <1>5, <1>11
  <2>2. CASE i > n
    BY <2>1, <2>2, EmptySeq DEF R
  <2>3. CASE ~(i > n)
    <3>1. piece(i) \in Seq(W) /\ from[onward(i)] \in Seq(W)
      BY <1>2, <1>4, <1>12, <2>3 DEF R
    <3>2. from[i] \in R
      BY <2>1, <2>3, <3>1, ConcatProperties DEF R
    <3> QED
      BY <3>2
  <2> QED
    BY <2>2, <2>3
<1> HIDE DEF S
<1>13. \A i \in 1 .. m : i \in S
  BY <1>2, <1>12, InductDown
<1>14. Ends(t, end)
  BY EndsExist DEF end
<1>15. Strips(t, end, from)
  <2>1. ASSUME NEW i \in 1 .. m
        PROVE  from[i] = IF i > Len(t) THEN <<>>
                         ELSE IF Found(t, end, i)
                           THEN SubSeq(t, i + 1, end[i + 2]) \o from[end[i + 2] + 1]
                         ELSE <<t[i]>> \o from[i + 1]
    BY <1>11 DEF Body, found, Found
  <2> QED
    BY <2>1 DEF Strips, m, n
<1>16. DOMAIN from = 1 .. m /\ from \in [1 .. Len(t) + 1 -> Seq(W)]
  <2>1. from = [i \in 1 .. m |-> from[i]]
    BY <1>11
  <2>2. \A i \in 1 .. m : from[i] \in Seq(W)
    BY <1>13 DEF S, R
  <2>3. [i \in 1 .. m |-> from[i]] \in [1 .. m -> Seq(W)]
    BY <2>2
  <2> QED
    BY <2>1, <2>3 DEF m, n
<1> QED
  BY <1>1, <1>14, <1>15, <1>16

\* The scan for escapes, with or without a literal around the index.
LEMMA EscapesScan ==
  ASSUME NEW W, Quote \in W, NEW t \in Seq(W)
  PROVE  \E from : /\ Escapes(t, from)
                   /\ from \in [1 .. Len(t) + 2 -> [BOOLEAN -> Seq(W)]]
                   /\ TranslateStringEscapes(t) = from[1][FALSE]
<1> DEFINE n == Len(t)
           m == n + 2
           R == [BOOLEAN -> Seq(W)]
           quoteNext(i) == i < Len(t) /\ t[i + 1] = Quote
           Scan(f, i, in) ==
             IF i > Len(t) THEN <<>>
             ELSE IF t[i] = Quote /\ ~in THEN <<Quote>> \o f[i + 1][TRUE]
             ELSE IF t[i] \in {Quote, Backslash} /\ in /\ quoteNext(i)
               THEN <<Quote, Quote>> \o f[i + 2][TRUE]
             ELSE IF t[i] = Quote THEN <<Quote>> \o f[i + 1][FALSE]
             ELSE <<t[i]>> \o f[i + 1][in]
           Body(f, i) == [in \in BOOLEAN |-> Scan(f, i, in)]
           from == CHOOSE f : f = [i \in 1 .. Len(t) + 2 |-> Body(f, i)]
           G == [i \in 1 .. m |-> [f \in [1 .. m -> R] |-> Body(f, i)]]
\* What the scan writes at an index, and how it goes on.
           two(i, in) == t[i] \in {Quote, Backslash} /\ in /\ quoteNext(i)
           piece(i, in) == IF t[i] = Quote /\ ~in THEN <<Quote>>
                           ELSE IF two(i, in) THEN <<Quote, Quote>>
                           ELSE IF t[i] = Quote THEN <<Quote>> ELSE <<t[i]>>
           onward(i, in) == IF two(i, in) THEN i + 2 ELSE i + 1
           after(i, in) == IF t[i] = Quote /\ ~in THEN TRUE
                           ELSE IF two(i, in) THEN TRUE
                           ELSE IF t[i] = Quote THEN FALSE ELSE in
<1>1. TranslateStringEscapes(t) = from[1][FALSE]
  BY DEF TranslateStringEscapes
<1>2. n \in Nat /\ m \in Nat /\ m = n + 2 /\ \A i \in 1 .. n : t[i] \in W
  BY TextFacts
<1>3. Quote \in W
  OBVIOUS
<1>4. ASSUME NEW i \in 1 .. m, i <= n, NEW in \in BOOLEAN
      PROVE  /\ piece(i, in) \in Seq(W) /\ after(i, in) \in BOOLEAN
             /\ onward(i, in) \in 1 .. m /\ onward(i, in) > i
  <2>1. t[i] \in W /\ i \in Nat
    BY <1>2, <1>4
  <2>2. \A v, w \in W : <<v>> \in Seq(W) /\ <<v, w>> \in Seq(W)
    OBVIOUS
  <2>3. piece(i, in) \in Seq(W)
    BY <1>3, <2>1, <2>2
  <2>4. after(i, in) \in BOOLEAN
    OBVIOUS
  <2>5. onward(i, in) \in 1 .. m /\ onward(i, in) > i
    BY <1>2, <1>4, <2>1
  <2> QED
    BY <2>3, <2>4, <2>5
<1>5. ASSUME NEW f, NEW i \in 1 .. m, NEW in \in BOOLEAN
      PROVE  Scan(f, i, in) = IF i > n THEN <<>>
                              ELSE piece(i, in) \o f[onward(i, in)][after(i, in)]
  OBVIOUS
<1>6. from = CHOOSE f : f = [i \in 1 .. m |-> Body(f, i)]
  OBVIOUS
<1> HIDE DEF from, n, m, Scan, piece, onward, after
<1>7. ASSUME NEW i \in 1 .. m, NEW f \in [1 .. m -> R]
      PROVE  Body(f, i) \in R
  <2>1. ASSUME NEW in \in BOOLEAN
        PROVE  Scan(f, i, in) \in Seq(W)
    <3>1. CASE i > n
      BY <1>5, <3>1, EmptySeq
    <3>2. CASE ~(i > n)
      <4>1. piece(i, in) \in Seq(W) /\ f[onward(i, in)][after(i, in)] \in Seq(W)
        BY <1>2, <1>4, <3>2
      <4>2. piece(i, in) \o f[onward(i, in)][after(i, in)] \in Seq(W)
        BY <4>1, ConcatProperties
      <4> QED
        BY <1>5, <3>2, <4>2
    <3> QED
      BY <3>1, <3>2
  <2> QED
    BY <2>1
<1>8. ASSUME NEW i \in 1 .. m, NEW f \in [1 .. m -> R], NEW g \in [1 .. m -> R],
             \A j \in 1 .. m : j > i => f[j] = g[j]
      PROVE  Body(f, i) = Body(g, i)
  <2>1. ASSUME NEW in \in BOOLEAN
        PROVE  Scan(f, i, in) = Scan(g, i, in)
    <3>1. ~(i > n) => f[onward(i, in)] = g[onward(i, in)]
      BY <1>2, <1>4, <1>8
    <3> QED
      BY <1>5, <3>1, ZenonT(60)
  <2> QED
    BY <2>1
<1>9. \A f : \A i \in 1 .. m : \A in \in BOOLEAN : Body(f, i)[in] = Scan(f, i, in)
  OBVIOUS
<1> HIDE DEF Body
<1>10. Defines(G, m, R)
  <2>1. R # {}
    <3>1. [in \in BOOLEAN |-> <<>>] \in [BOOLEAN -> Seq(W)]
      BY EmptySeq
    <3> QED
      BY <3>1
  <2> HIDE DEF R
  <2>2. \A i \in 1 .. m : \A f \in [1 .. m -> R] : G[i][f] = Body(f, i)
    OBVIOUS
  <2>3. G \in [1 .. m -> [[1 .. m -> R] -> R]]
    BY <1>7
  <2> HIDE DEF G
  <2>4. LooksDown(G, m, R)
    <3>1. ASSUME NEW i \in 1 .. m, NEW f \in [1 .. m -> R], NEW g \in [1 .. m -> R],
                 \A j \in 1 .. m : j > i => f[j] = g[j]
          PROVE  G[i][f] = G[i][g]
      <4>1. Body(f, i) = Body(g, i)
        BY <1>8, <3>1
      <4> QED
        BY <2>2, <4>1
    <3> QED
      BY <2>3, <3>1 DEF LooksDown
  <2> QED
    BY <1>2, <2>1, <2>4, RecursionDown
<1>11. from = [i \in 1 .. m |-> Body(from, i)]
  <2> HIDE DEF R
  <2>1. PICK f \in [1 .. m -> R] : \A i \in 1 .. m : f[i] = Body(f, i)
    BY <1>10 DEF Defines
  <2>2. f = [i \in 1 .. m |-> Body(f, i)]
    BY <2>1
  <2> QED
    BY <1>6, <2>2
<1> DEFINE S == {i \in 1 .. m : \A in \in BOOLEAN : from[i][in] \in Seq(W)}
<1>12. ASSUME NEW i \in 1 .. m, \A j \in 1 .. m : j > i => j \in S
       PROVE  i \in S
  <2>1. ASSUME NEW in \in BOOLEAN
        PROVE  from[i][in] \in Seq(W)
    <3>1. from[i][in] = IF i > n THEN <<>>
                        ELSE piece(i, in) \o from[onward(i, in)][after(i, in)]
      <4>1. from[i] = Body(from, i)
        BY <1>11
      <4>2. Body(from, i)[in] = Scan(from, i, in)
        BY <1>9
      <4> QED
        BY <1>5, <4>1, <4>2
    <3>2. CASE i > n
      BY <3>1, <3>2, EmptySeq
    <3>3. CASE ~(i > n)
      <4>1. piece(i, in) \in Seq(W) /\ from[onward(i, in)][after(i, in)] \in Seq(W)
        BY <1>2, <1>4, <1>12, <3>3
      <4> QED
        BY <3>1, <3>3, <4>1, ConcatProperties
    <3> QED
      BY <3>2, <3>3
  <2> QED
    BY <2>1
<1> HIDE DEF S
<1>13. \A i \in 1 .. m : i \in S
  BY <1>2, <1>12, InductDown
<1>14. Escapes(t, from)
  <2>1. ASSUME NEW i \in 1 .. m, NEW in \in BOOLEAN
        PROVE  from[i][in] = EscapedAt(t, from, i, in)
    <3>1. from[i][in] = Scan(from, i, in)
      BY <1>9, <1>11
    <3> QED
      BY <3>1 DEF Scan, EscapedAt
  <2> QED
    BY <2>1 DEF Escapes, m, n
<1>15. from \in [1 .. Len(t) + 2 -> [BOOLEAN -> Seq(W)]]
  <2>1. ASSUME NEW i \in 1 .. m
        PROVE  from[i] \in [BOOLEAN -> Seq(W)]
    <3>1. from[i] = [in \in BOOLEAN |-> Scan(from, i, in)]
      BY <1>11 DEF Body
    <3>2. from[i] = [in \in BOOLEAN |-> from[i][in]]
      BY <3>1
    <3>3. [in \in BOOLEAN |-> from[i][in]] \in [BOOLEAN -> Seq(W)]
      BY <1>13 DEF S
    <3> QED
      BY <3>2, <3>3
  <2>2. from = [i \in 1 .. m |-> from[i]]
    BY <1>11
  <2>3. [i \in 1 .. m |-> from[i]] \in [1 .. m -> [BOOLEAN -> Seq(W)]]
    BY <2>1
  <2> QED
    BY <2>2, <2>3 DEF m, n
<1> QED
  BY <1>1, <1>14, <1>15
\* So both yield texts of the same words, but for quotes.
LEMMA ScansType ==
  ASSUME NEW W, Quote \in W, NEW t \in Seq(W)
  PROVE  /\ TranslateCharacterSetIntroducers(t) \in Seq(W)
         /\ TranslateStringEscapes(t) \in Seq(W)
<1>1. Len(t) \in Nat
  BY TextFacts
<1>2. 1 \in 1 .. Len(t) + 1 /\ 1 \in 1 .. Len(t) + 2
  BY <1>1
<1>3. TranslateCharacterSetIntroducers(t) \in Seq(W)
  <2>1. PICK end, from : /\ from \in [1 .. Len(t) + 1 -> Seq(W)]
                         /\ TranslateCharacterSetIntroducers(t) = from[1]
    BY IntroducersScan
  <2> QED
    BY <1>2, <2>1
<1>4. TranslateStringEscapes(t) \in Seq(W)
  <2>1. PICK from : /\ from \in [1 .. Len(t) + 2 -> [BOOLEAN -> Seq(W)]]
                    /\ TranslateStringEscapes(t) = from[1][FALSE]
    BY EscapesScan
  <2>2. from[1] \in [BOOLEAN -> Seq(W)]
    BY <1>2, <2>1
  <2>3. from[1][FALSE] \in Seq(W)
    BY <2>2
  <2> QED
    BY <2>1, <2>3
<1> QED
  BY <1>3, <1>4
-----------------------------------------------------------------------------
(***************************************************************************)
(* The theorems                                                            *)
(***************************************************************************)
\* Blanks within the statement are the only other thing that changes before.
LEMMA BeforeType ==
  ASSUME value \in Value, source \in Source
  PROVE  Before \in Seq(Token)
<1>1. Written(value, source) \in Seq(Token)
  BY WrittenType
<1>2. ASSUME NEW t \in Seq(Token) PROVE NormalizeWhitespace(t) \in Seq(Token)
  <2>1. " " \in Token
    BY DEF Token, Blank
  <2> HIDE DEF Token
  <2>2. Len(t) \in Nat /\ DOMAIN t = 1 .. Len(t) /\ \A i \in 1 .. Len(t) : t[i] \in Token
    BY <1>2, LenProperties, ElementOfSeq
  <2>3. NormalizeWhitespace(t) \in [1 .. Len(t) -> Token]
    BY <2>1, <2>2 DEF NormalizeWhitespace
  <2> QED
    BY <2>2, <2>3, IsASeq
<1> QED
  BY <1>1, <1>2 DEF Before

\* No type is replaced yet.
LEMMA InitIInv == Init => IInv
<1> SUFFICES ASSUME Init PROVE IInv
  OBVIOUS
<1>1. TypeOK
  BY WrittenType DEF Init, TypeOK
<1>2. Before \in Seq(Token)
  BY BeforeType DEF Init
<1>3. source = "ast" => text = Replaced(Type \ todo)
  <2>1. Type \ todo = {}
    BY DEF Init
  <2>2. source = "ast" => text = Before
    BY DEF Init, Before
  <2> QED
    BY <1>2, <2>1, <2>2, NoneReplaced
<1> QED
  BY <1>1, <1>3 DEF Init, IInv

\* Every rewriting keeps the inductive invariant.
LEMMA NextKeeps == IInv /\ [Next]_vars => IInv'
<1> SUFFICES ASSUME IInv, [Next]_vars PROVE IInv'
  OBVIOUS
<1> USE DEF Rewrite
<1>1. UNCHANGED <<kind, value, source>> /\ Before' = Before
  BY DEF vars, Next, Blanks, ColumnTypes, TypesDone, TranslateDML, Functions, Introducers,
         StringEscapes, Before
<1>2. \A done : Replaced(done)' = Replaced(done)
  BY <1>1 DEF Replaced
<1>3. /\ text \in Seq(Token) /\ todo \in SUBSET Type /\ value \in Value /\ source \in Source
      /\ kind \in Statement
  BY DEF IInv, TypeOK
<1> DEFINE Stages == {"blanks", "ddl", "dml", "functions", "introducers", "escapes", "done"}
<1>4. ASSUME text' \in Seq(Token), stage' \in Stages, todo' \in SUBSET Type
      PROVE  TypeOK'
  <2> HIDE DEF Token
  <2>1. (Seq(Token))' = Seq(Token)
    BY DEF Token, Sql, Blank, TypeMap, Boolean, Folded, Introducer
  <2> QED
    BY <1>1, <1>3, <1>4 DEF TypeOK
<1>5. CASE Blanks
  <2>1. Before \in Seq(Token)
    BY <1>3, BeforeType
  <2>2. text' = Before
    BY <1>5 DEF IInv, Blanks, Before
  <2>3. Type \ todo' = {} /\ todo' = todo /\ stage' = "ddl"
    BY <1>5 DEF IInv, Blanks
  <2>4. text' = Replaced(Type \ todo')
    BY <2>1, <2>2, <2>3, NoneReplaced
  <2>5. TypeOK'
    BY <1>3, <1>4, <2>1, <2>2, <2>3
  <2> QED
    BY <1>2, <2>3, <2>4, <2>5 DEF IInv
<1>6. CASE ColumnTypes
  <2>1. PICK type \in todo : /\ Rewrite({"ddl"}, ReplaceType(text, type), "ddl")
                             /\ todo' = todo \ {type}
    BY <1>6 DEF ColumnTypes
  <2>2. type \in Type /\ Type \ todo' = (Type \ todo) \cup {type}
    BY <1>3, <2>1
  <2>3. text' = Replaced(Type \ todo')
    BY <2>1, <2>2, OneMoreReplaced DEF IInv
  <2>4. TypeOK'
    BY <1>3, <1>4, <2>1, <2>2, WordwiseType
  <2> QED
    BY <1>2, <2>1, <2>3, <2>4 DEF IInv
<1>7. CASE TypesDone
  <2>1. kind = "create" => Type \ todo = Type
    BY <1>7 DEF TypesDone
  <2>2. text' = text /\ todo' = todo /\ stage = "ddl" /\ stage' = "dml"
    BY <1>7 DEF TypesDone
  <2>3. TypeOK'
    BY <1>3, <1>4, <2>2
  <2> QED
    BY <1>1, <1>2, <2>1, <2>2, <2>3 DEF IInv
<1>8. CASE TranslateDML
  <2>1. /\ todo' = todo /\ stage' = "functions"
        /\ text' \in {text, TranslateBoolean(text), RemoveOnDuplicateKeyUpdate(text),
                     RemoveOption(text)}
    BY <1>8 DEF TranslateDML
  <2>2. text' \in Seq(Token)
    BY <1>3, <2>1, WordwiseType, UpsertType, OptionType
  <2>3. TypeOK'
    BY <1>3, <1>4, <2>1, <2>2
  <2> QED
    BY <2>1, <2>3 DEF IInv
<1>9. CASE Functions \/ Introducers \/ StringEscapes
  <2>1. /\ todo' = todo /\ stage' \in {"introducers", "escapes", "done"}
        /\ text' \in {TranslateFunctions(text), TranslateCharacterSetIntroducers(text),
                     TranslateStringEscapes(text)}
    BY <1>9 DEF Functions, Introducers, StringEscapes
  <2>2. text' \in Seq(Token)
    <3>1. Quote \in Token
      BY DEF Token
    <3> QED
      BY <1>3, <2>1, <3>1, FunctionsType, ScansType
  <2>3. TypeOK'
    BY <1>3, <1>4, <2>1, <2>2
  <2> QED
    BY <2>1, <2>3 DEF IInv
<1>10. CASE UNCHANGED vars
  <2>1. text' = text /\ todo' = todo /\ stage' = stage
    BY <1>10 DEF vars
  <2>2. stage \in Stages
    BY DEF IInv, TypeOK
  <2>3. TypeOK'
    BY <1>3, <1>4, <2>1, <2>2
  <2> QED
    BY <1>1, <1>2, <2>1, <2>3 DEF IInv
<1> QED
  BY <1>5, <1>6, <1>7, <1>8, <1>9, <1>10 DEF Next

\* The inductive invariant holds throughout.
LEMMA Invariance == Spec => []IInv
<1>1. Init => IInv
  BY InitIInv
<1>2. IInv /\ [Next]_vars => IInv'
  BY NextKeeps
<1> QED
  BY <1>1, <1>2, PTL DEF Spec

\* Whatever a client writes, each rewriting is defined and yields a text again:
\* the scans for introducers and escapes go forwards, stay within the text, and
\* write nothing but tokens.
THEOREM TypeCorrect == Spec => []TypeOK
<1>1. IInv => TypeOK
  BY DEF IInv
<1> QED
  BY <1>1, Invariance, PTL

\* for mysqlType, sqliteType := range t.typeMap visits a map in no fixed order:
\* for every set of column types, any order makes of a statement what replacing
\* each word once, by its own entry, makes of it.
THEOREM OrderMakesNoDifference == Spec => []OrderIrrelevant
<1>1. IInv => OrderIrrelevant
  BY DEF IInv, OrderIrrelevant, Replaced, Before
<1> QED
  BY <1>1, Invariance, PTL
=============================================================================
