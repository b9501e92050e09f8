--------------------------- MODULE LiteralProofs ---------------------------
(***************************************************************************)
(* The proof of LiteralKept: ordinary strings arrive, whatever their       *)
(* length, their quotes and their spelling.                                *)
(***************************************************************************)
EXTENDS TranslatorProofs, FiniteSets

(***************************************************************************)
(* Sequences, by their first element and the rest                          *)
(***************************************************************************)
\* A sequence is empty, or one element before another sequence.
LEMMA SeqCases ==
  ASSUME NEW W, NEW s \in Seq(W), s # <<>>
  PROVE  /\ Len(s) \in Nat /\ 1 \in 1 .. Len(s) /\ s[1] \in W
         /\ SubSeq(s, 2, Len(s)) \in Seq(W)
         /\ Len(SubSeq(s, 2, Len(s))) = Len(s) - 1
         /\ s = Cons(s[1], SubSeq(s, 2, Len(s)))
<1>1. Len(s) \in Nat /\ Len(s) >= 1
  BY EmptySeq, LenProperties
<1>2. s[1] \in W /\ \A i \in 2 .. Len(s) : s[i] \in W
  BY <1>1, ElementOfSeq
<1>3. SubSeq(s, 2, Len(s)) \in Seq(W) /\ Len(SubSeq(s, 2, Len(s))) = Len(s) - 1
  <2>1. 2 \in Int /\ Len(s) \in Int
    BY <1>1
  <2>2. SubSeq(s, 2, Len(s)) \in Seq(W)
        /\ Len(SubSeq(s, 2, Len(s))) = IF 2 <= Len(s) THEN Len(s) - 2 + 1 ELSE 0
    BY <1>2, <2>1, SubSeqProperties
  <2> DEFINE u == SubSeq(s, 2, Len(s))
             n == Len(s)
  <2>3. n \in Nat /\ n >= 1 /\ Len(u) = IF 2 <= n THEN n - 2 + 1 ELSE 0
    BY <1>1, <2>2
  <2> HIDE DEF u, n
  <2>4. Len(u) = n - 1
    BY <2>3
  <2> QED
    BY <2>2, <2>4 DEF u, n
<1>4. SubSeq(s, 1, Len(s)) = Cons(s[1], SubSeq(s, 1 + 1, Len(s)))
  BY <1>1, SubSeqRecursiveFirst DEF Cons
<1>5. SubSeq(s, 1, Len(s)) = s
  BY SubSeqFull
<1> QED
  BY <1>1, <1>2, <1>3, <1>4, <1>5

\* One element before a sequence.
LEMMA ConsFacts ==
  ASSUME NEW W, NEW x \in W, NEW u \in Seq(W)
  PROVE  /\ <<x>> \in Seq(W) /\ Cons(x, u) \in Seq(W)
         /\ Len(Cons(x, u)) = Len(u) + 1 /\ Len(u) \in Nat
         /\ Cons(x, u) # <<>>
         /\ Cons(x, u)[1] = x
         /\ \A i \in 1 .. Len(u) : Cons(x, u)[i + 1] = u[i]
<1>1. <<x>> \in Seq(W) /\ Len(<<x>>) = 1 /\ <<x>>[1] = x
  OBVIOUS
<1>2. Len(u) \in Nat
  BY LenProperties
<1>3. /\ Cons(x, u) \in Seq(W) /\ Len(Cons(x, u)) = Len(<<x>>) + Len(u)
      /\ \A i \in 1 .. Len(<<x>>) + Len(u) :
           Cons(x, u)[i] = IF i <= Len(<<x>>) THEN <<x>>[i] ELSE u[i - Len(<<x>>)]
  BY <1>1, ConcatProperties DEF Cons
<1>4. Cons(x, u)[1] = x
  BY <1>1, <1>2, <1>3
<1>5. ASSUME NEW i \in 1 .. Len(u)
      PROVE  Cons(x, u)[i + 1] = u[i]
  <2>1. i + 1 \in 1 .. 1 + Len(u) /\ ~(i + 1 <= 1) /\ (i + 1) - 1 = i
    BY <1>2
  <2> QED
    BY <1>1, <1>3, <2>1
<1>6. Cons(x, u) # <<>>
  BY <1>1, <1>2, <1>3, EmptySeq
<1> QED
  BY <1>1, <1>2, <1>3, <1>4, <1>5, <1>6

\* Two such sequences are the same only if both parts are.
LEMMA ConsEqual ==
  ASSUME NEW W, NEW x \in W, NEW u \in Seq(W), NEW y \in W, NEW w \in Seq(W),
         Cons(x, u) = Cons(y, w)
  PROVE  x = y /\ u = w
<1>1. x = y
  <2>1. Cons(x, u)[1] = x /\ Cons(y, w)[1] = y
    BY ConsFacts, ZenonT(60)
  <2> QED
    BY <2>1
<1>2. <<x>> \in Seq(W) /\ Cons(x, u) = Cons(x, w)
  BY <1>1
<1> QED
  BY <1>1, <1>2, ConcatSimplifications DEF Cons

\* Parts of a text can be put together in any order.
Cat(s, t) == s \o t

\* Putting two parts together makes a text; in which order does not matter.
LEMMA CatFacts ==
  ASSUME NEW W
  PROVE  /\ \A s, t \in Seq(W) : Cat(s, t) \in Seq(W)
         /\ \A r, s, t \in Seq(W) : Cat(Cat(r, s), t) = Cat(r, Cat(s, t))
<1>1. \A s, t \in Seq(W) : Cat(s, t) \in Seq(W)
  BY ConcatProperties DEF Cat
<1>2. \A r, s, t \in Seq(W) : Cat(Cat(r, s), t) = Cat(r, Cat(s, t))
  BY ConcatAssociative DEF Cat
<1> QED
  BY <1>1, <1>2

\* Five parts, put together from the front or from the back.
LEMMA ConcatFive ==
  ASSUME NEW W, NEW p \in Seq(W), NEW q \in Seq(W), NEW s \in Seq(W), NEW u \in Seq(W)
  PROVE  Cat(Cat(Cat(Cat(p, q), s), q), u) = Cat(p, Cat(q, Cat(s, Cat(q, u))))
<1> DEFINE a == Cat(p, q)
           b == Cat(a, s)
           y == Cat(q, u)
           z == Cat(s, y)
<1>1. a \in Seq(W) /\ b \in Seq(W) /\ y \in Seq(W) /\ z \in Seq(W)
  BY CatFacts
<1>2. Cat(Cat(b, q), u) = Cat(b, y)
  BY <1>1, CatFacts
<1>3. Cat(b, y) = Cat(a, z)
  BY <1>1, CatFacts
<1>4. Cat(a, z) = Cat(p, Cat(q, z))
  BY <1>1, CatFacts
<1> QED
  BY <1>2, <1>3, <1>4

\* Putting them together starts with the first word.
LEMMA ConsCat ==
  ASSUME NEW W, NEW t \in Seq(W)
  PROVE  \A x \in W : \A u \in Seq(W) : Cat(Cons(x, u), t) = Cons(x, Cat(u, t))
<1> SUFFICES ASSUME NEW x \in W, NEW u \in Seq(W)
             PROVE  Cat(Cons(x, u), t) = Cons(x, Cat(u, t))
  OBVIOUS
<1>1. PICK y \in Seq(W) : y = <<x>>
  <2>1. <<x>> \in Seq(W)
    OBVIOUS
  <2> QED
    BY <2>1
<1>2. Cat(Cat(y, u), t) = Cat(y, Cat(u, t))
  BY CatFacts
<1> QED
  BY <1>1, <1>2 DEF Cons, Cat

\* Two words before a text.
LEMMA PairConcat ==
  ASSUME NEW W, NEW y \in W, NEW z \in W, NEW s \in Seq(W)
  PROVE  <<y, z>> \o s = Cons(y, Cons(z, s))
<1>1. <<y>> \in Seq(W) /\ <<z>> \in Seq(W) /\ <<y, z>> = <<y>> \o <<z>>
  <2> DEFINE c == <<y>> \o <<z>>
             d == <<y, z>>
  <2>1. <<y>> \in Seq(W) /\ <<z>> \in Seq(W) /\ Len(<<y>>) = 1 /\ Len(<<z>>) = 1
    OBVIOUS
  <2>2. c \in Seq(W) /\ Len(c) = 1 + 1
        /\ \A i \in 1 .. 1 + 1 : c[i] = IF i <= 1 THEN <<y>>[i] ELSE <<z>>[i - 1]
    BY <2>1, ConcatProperties
  <2>3. d \in Seq(W) /\ Len(d) = 2 /\ d[1] = y /\ d[2] = z
    OBVIOUS
  <2> HIDE DEF c, d
  <2>4. c[1] = y /\ c[2] = z /\ Len(c) = 2
    BY <2>2
  <2>5. c = d
    BY <2>2, <2>3, <2>4, SeqEqual
  <2> QED
    BY <2>1, <2>5 DEF c, d
<1>2. \A a, b \in Seq(W) : (a \o b) \o s = a \o (b \o s)
  BY ConcatAssociative
<1> QED
  BY <1>1, <1>2 DEF Cons

\* Four words.
LEMMA FourWords ==
  ASSUME NEW W, NEW a \in W, NEW b \in W, NEW c \in W, NEW d \in W
  PROVE  <<a, b, c, d>> = Cons(a, Cons(b, Cons(c, Cons(d, <<>>))))
<1>1. <<>> \in Seq(W) /\ <<a, b>> \in Seq(W) /\ <<c, d>> \in Seq(W) /\ <<a, b, c, d>> \in Seq(W)
  OBVIOUS
<1>2. <<c, d>> \o <<>> = Cons(c, Cons(d, <<>>)) /\ <<c, d>> \o <<>> = <<c, d>>
  <2>1. \A s \in Seq(W) : <<c, d>> \o s = Cons(c, Cons(d, s))
    BY PairConcat
  <2>2. \A s \in Seq(W) : s \o <<>> = s
    BY ConcatEmptySeq
  <2> QED
    BY <1>1, <2>1, <2>2
<1>3. <<a, b>> \o <<c, d>> = Cons(a, Cons(b, <<c, d>>))
  <2>1. \A s \in Seq(W) : <<a, b>> \o s = Cons(a, Cons(b, s))
    BY PairConcat
  <2> QED
    BY <1>1, <2>1
<1>4. <<a, b>> \o <<c, d>> = <<a, b, c, d>>
  <2>1. PICK s \in Seq(W) : s = <<a, b>> /\ Len(s) = 2 /\ s[1] = a /\ s[2] = b
    BY <1>1
  <2>2. PICK t \in Seq(W) : t = <<c, d>> /\ Len(t) = 2 /\ t[1] = c /\ t[2] = d
    BY <1>1
  <2>3. PICK u \in Seq(W) : /\ u = <<a, b, c, d>> /\ Len(u) = 4
                            /\ u[1] = a /\ u[2] = b /\ u[3] = c /\ u[4] = d
    BY <1>1
  <2>4. PICK x \in Seq(W) : /\ x = s \o t /\ Len(x) = Len(s) + Len(t)
                            /\ \A i \in 1 .. Len(s) : x[i] = s[i]
                            /\ \A i \in 1 .. Len(t) : x[Len(s) + i] = t[i]
    <3>1. /\ s \o t \in Seq(W) /\ Len(s \o t) = Len(s) + Len(t)
          /\ \A i \in 1 .. Len(s) : (s \o t)[i] = s[i]
          /\ \A i \in 1 .. Len(t) : (s \o t)[Len(s) + i] = t[i]
      BY ConcatProperties
    <3> QED
      BY <3>1
  <2>5. Len(x) = 4 /\ x[1] = a /\ x[2] = b
    BY <2>1, <2>2, <2>4
  <2>6. x[3] = c /\ x[4] = d
    <3>1. x[2 + 1] = t[1] /\ x[2 + 2] = t[2]
      BY <2>1, <2>2, <2>4
    <3> QED
      BY <2>2, <3>1
  <2>7. \A i \in 1 .. Len(x) : x[i] = u[i]
    BY <2>3, <2>5, <2>6
  <2>8. x = u
    BY <2>3, <2>5, <2>7, SeqEqual
  <2> QED
    BY <2>1, <2>2, <2>3, <2>4, <2>8
<1> QED
  BY <1>2, <1>3, <1>4

\* Induction on the length of a sequence.
LEMMA SeqInduct ==
  ASSUME NEW W, NEW P, <<>> \in P,
         \A x \in W : \A u \in Seq(W) : u \in P => Cons(x, u) \in P
  PROVE  \A s \in Seq(W) : s \in P
<1> DEFINE E == {n \in Nat : \A s \in Seq(W) : Len(s) = n => s \in P}
<1>1. 0 \in E
  BY EmptySeq
<1>2. ASSUME NEW n \in E PROVE n + 1 \in E
  <2>1. n \in Nat /\ \A s \in Seq(W) : Len(s) = n => s \in P
    OBVIOUS
  <2>2. ASSUME NEW s \in Seq(W), Len(s) = n + 1
        PROVE  s \in P
    <3>1. s # <<>>
      BY <2>1, <2>2, EmptySeq
    <3> DEFINE u == SubSeq(s, 2, Len(s))
    <3>2. u \in Seq(W) /\ Len(u) = n /\ s[1] \in W /\ s = Cons(s[1], u)
      BY <2>1, <2>2, <3>1, SeqCases
    <3> HIDE DEF u
    <3>3. u \in P
      BY <2>1, <3>2
    <3>4. Cons(s[1], u) \in P
      BY <3>2, <3>3
    <3> QED
      BY <3>2, <3>4
  <2> QED
    BY <2>1, <2>2
<1>3. E = Nat
  <2>1. E \in SUBSET Nat
    OBVIOUS
  <2> HIDE DEF E
  <2> QED
    BY <1>1, <1>2, <2>1, Induct
<1> QED
  BY <1>3, LenProperties

\* What is left of a text from an index on.
Rest(t, p) == SubSeq(t, p, Len(t))

\* It is a text, shorter by what is before it, and begins with the word there.
LEMMA RestFacts ==
  ASSUME NEW W, NEW t \in Seq(W), NEW p \in 1 .. Len(t) + 1
  PROVE  /\ Rest(t, p) \in Seq(W) /\ Len(Rest(t, p)) = Len(t) + 1 - p
         /\ p = Len(t) + 1 => Rest(t, p) = <<>>
         /\ p <= Len(t) => /\ t[p] \in W /\ p + 1 \in 1 .. Len(t) + 1
                           /\ Rest(t, p) = Cons(t[p], Rest(t, p + 1))
         /\ Rest(t, 1) = t
<1>1. Len(t) \in Nat
  BY LenProperties
<1>2. \A i \in p .. Len(t) : t[i] \in W
  BY <1>1, ElementOfSeq
<1>3. p \in Int /\ Len(t) \in Int
  BY <1>1
<1>4. Rest(t, p) \in Seq(W) /\ Len(Rest(t, p)) = IF p <= Len(t) THEN Len(t) - p + 1 ELSE 0
  BY <1>2, <1>3, SubSeqProperties DEF Rest
<1>5. p = Len(t) + 1 => Rest(t, p) = <<>>
  BY <1>1, <1>3, SubSeqEmpty DEF Rest
<1>6. p <= Len(t) => t[p] \in W /\ p + 1 \in 1 .. Len(t) + 1 /\ p \in 1 .. Len(t)
                     /\ Len(t) \in p .. Len(t)
  BY <1>1, ElementOfSeq
<1>7. p <= Len(t) => Rest(t, p) = Cons(t[p], Rest(t, p + 1))
  BY <1>6, SubSeqRecursiveFirst DEF Rest, Cons
<1>8. Rest(t, 1) = t
  BY SubSeqFull DEF Rest
<1>9. Len(Rest(t, p)) = Len(t) + 1 - p
  BY <1>1, <1>3, <1>4
<1> QED
  BY <1>4, <1>5, <1>6, <1>7, <1>8, <1>9

\* What is left begins with the word at the index.
LEMMA RestCons ==
  ASSUME NEW W, NEW t \in Seq(W), NEW p \in 1 .. Len(t) + 1,
         NEW x \in W, NEW u \in Seq(W), Rest(t, p) = Cons(x, u)
  PROVE  p \in 1 .. Len(t) /\ t[p] = x /\ p + 1 \in 1 .. Len(t) + 1 /\ Rest(t, p + 1) = u
<1>1. Len(t) \in Nat /\ Len(u) \in Nat
  BY LenProperties
<1>2. Len(t) + 1 - p = Len(u) + 1
  <2>1. Len(Rest(t, p)) = Len(t) + 1 - p
    BY RestFacts
  <2>2. Len(Cons(x, u)) = Len(u) + 1
    BY ConsFacts
  <2> QED
    BY <2>1, <2>2
<1>3. p <= Len(t)
  BY <1>1, <1>2
<1>4. t[p] \in W /\ p + 1 \in 1 .. Len(t) + 1 /\ Cons(t[p], Rest(t, p + 1)) = Cons(x, u)
  BY <1>3, RestFacts
<1>5. Rest(t, p + 1) \in Seq(W)
  BY <1>4, RestFacts
<1>6. t[p] = x /\ Rest(t, p + 1) = u
  <2> DEFINE y == t[p]
             w == Rest(t, p + 1)
  <2>1. y \in W /\ w \in Seq(W) /\ Cons(y, w) = Cons(x, u)
    BY <1>4, <1>5
  <2> HIDE DEF y, w
  <2>2. y = x /\ w = u
    BY <2>1, ConsEqual
  <2> QED
    BY <2>2 DEF y, w
<1> QED
  BY <1>1, <1>3, <1>4, <1>6
-----------------------------------------------------------------------------
(***************************************************************************)
(* Texts that are made word by word                                        *)
(***************************************************************************)
\* A function on the numbers up to n is a sequence of length n.
LEMMA FunctionIsSeq ==
  ASSUME NEW n \in Nat, NEW S, NEW f \in [1 .. n -> S]
  PROVE  f \in Seq(S) /\ Len(f) = n
  OBVIOUS

\* FlattenSeq can be computed from the front as well.
LEMMA FlattenCons ==
  ASSUME NEW S, NEW x \in Seq(S), NEW a \in Seq(Seq(S))
  PROVE  FlattenSeq(Cons(x, a)) = x \o FlattenSeq(a)
<1> DEFINE b == Cons(x, a)
           n == Len(a)
<1>1. /\ b \in Seq(Seq(S)) /\ Len(b) = n + 1 /\ n \in Nat /\ b # <<>> /\ b[1] = x
      /\ \A i \in 1 .. n : b[i + 1] = a[i] /\ a[i] \in Seq(S)
  BY ConsFacts, ElementOfSeq
<1>0. Len(a) = n
  OBVIOUS
<1> HIDE DEF b, n
<1>2. PICK g \in [1 .. n + 1 -> Seq(S)] :
        /\ FlattenSeq(b) = g[n + 1]
        /\ \A i \in 1 .. n + 1 : g[i] = IF i = 1 THEN b[i] ELSE g[i - 1] \o b[i]
  <2>1. b \in Seq(Seq(S)) /\ b # <<>> /\ Len(b) = n + 1
    BY <1>1
  <2>2. \E g \in [1 .. Len(b) -> Seq(S)] :
          /\ FlattenSeq(b) = g[Len(b)]
          /\ \A i \in 1 .. Len(b) : g[i] = IF i = 1 THEN b[i] ELSE g[i - 1] \o b[i]
    BY <2>1, FlattenScan
  <2> QED
    BY <2>1, <2>2
<1>3. g[1] = x
  <2>1. 1 \in 1 .. n + 1
    BY <1>1
  <2> QED
    BY <1>1, <1>2, <2>1
<1>4. CASE a = <<>>
  <2>1. n = 0
    BY <1>0, <1>4, EmptySeq
  <2>2. FlattenSeq(a) = <<>>
    BY <1>4, EmptySeq DEF FlattenSeq
  <2> QED
    BY <1>2, <1>3, <2>1, <2>2, ConcatEmptySeq DEF b
<1>5. CASE a # <<>>
  <2>1. PICK f \in [1 .. n -> Seq(S)] :
          /\ FlattenSeq(a) = f[n]
          /\ \A i \in 1 .. n : f[i] = IF i = 1 THEN a[i] ELSE f[i - 1] \o a[i]
    BY <1>0, <1>5, FlattenScan, ZenonT(60)
  <2>2. n >= 1
    BY <1>0, <1>1, <1>5, EmptySeq
  <2> DEFINE E == {k \in Nat : k + 1 <= n => g[(k + 1) + 1] = x \o f[k + 1]}
  <2>3. 0 \in E
    <3>1. 1 \in 1 .. n /\ 2 \in 1 .. n + 1 /\ 2 # 1 /\ 2 - 1 = 1 /\ 1 + 1 = 2 /\ 0 + 1 = 1
      BY <1>1, <2>2
    <3>2. g[2] = g[1] \o b[2] /\ b[2] = a[1] /\ f[1] = a[1]
      BY <1>1, <1>2, <2>1, <3>1
    <3>3. g[2] = x \o f[1]
      BY <1>3, <3>2
    <3> QED
      BY <3>1, <3>3
  <2>4. ASSUME NEW k \in E PROVE k + 1 \in E
    <3>1. k \in Nat /\ (k + 1 <= n => g[(k + 1) + 1] = x \o f[k + 1])
      OBVIOUS
    <3>2. ASSUME (k + 1) + 1 <= n
          PROVE  g[((k + 1) + 1) + 1] = x \o f[(k + 1) + 1]
      <4> DEFINE j == k + 1
      <4>0. j \in Nat /\ j >= 1 /\ j + 1 <= n
        BY <3>1, <3>2
      <4>2. g[j + 1] = x \o f[j]
        <5>1. k + 1 <= n
          BY <1>1, <3>1, <3>2
        <5> QED
          BY <3>1, <5>1
      <4> HIDE DEF j
      <4>1. /\ j \in 1 .. n /\ j + 1 \in 1 .. n /\ (j + 1) - 1 = j /\ j + 1 # 1
            /\ (j + 1) + 1 \in 1 .. n + 1 /\ ((j + 1) + 1) - 1 = j + 1 /\ (j + 1) + 1 # 1
        BY <1>1, <4>0, SMTT(30)
      <4>3. g[(j + 1) + 1] = g[j + 1] \o a[j + 1] /\ f[j + 1] = f[j] \o a[j + 1]
        BY <1>1, <1>2, <2>1, <4>1, ZenonT(60)
      <4>4. f[j] \in Seq(S) /\ a[j + 1] \in Seq(S)
        BY <1>1, <2>1, <4>1
      <4>5. (x \o f[j]) \o a[j + 1] = x \o (f[j] \o a[j + 1])
        <5>1. \A y, z \in Seq(S) : (x \o y) \o z = x \o (y \o z)
          BY ConcatAssociative, SMTT(30)
        <5> QED
          BY <4>4, <5>1
      <4>6. g[(j + 1) + 1] = x \o f[j + 1]
        BY <4>2, <4>3, <4>5
      <4> QED
        BY <4>6 DEF j
    <3> QED
      BY <3>1, <3>2
  <2>5. E = Nat
    <3>1. E \in SUBSET Nat
      OBVIOUS
    <3> HIDE DEF E
    <3> QED
      BY <2>3, <2>4, <3>1, Induct
  <2>6. n - 1 \in Nat /\ (n - 1) + 1 = n /\ n <= n
    BY <1>1, <2>2
  <2>7. g[n + 1] = x \o f[n]
    <3>1. n - 1 \in E
      BY <2>5, <2>6
    <3>2. (n - 1) + 1 <= n => g[((n - 1) + 1) + 1] = x \o f[(n - 1) + 1]
      BY <3>1
    <3> QED
      BY <2>6, <3>2
  <2> QED
    BY <1>2, <2>1, <2>7 DEF b
<1> QED
  BY <1>4, <1>5

\* The text that has g[w] for each word w of t.
Spreads(g, W, S) == g \in [W -> Seq(S)]

Spread(g, t) == FlattenSeq([i \in DOMAIN t |-> g[t[i]]])

\* Of no words, no text.
LEMMA SpreadEmpty == \A g : Spread(g, <<>>) = <<>>
<1>1. ASSUME NEW g PROVE Spread(g, <<>>) = <<>>
  <2>1. DOMAIN <<>> = {} /\ Len(<<>>) = 0
    OBVIOUS
  <2>2. [i \in DOMAIN <<>> |-> g[<<>>[i]]] = <<>>
    BY <2>1
  <2> QED
    BY <2>1, <2>2 DEF Spread, FlattenSeq
<1> QED
  BY <1>1

\* A word more puts what it makes before the rest.
LEMMA SpreadCons ==
  ASSUME NEW W, NEW S, NEW g, Spreads(g, W, S)
  PROVE  \A x \in W : \A u \in Seq(W) : Spread(g, Cons(x, u)) = g[x] \o Spread(g, u)
<1> SUFFICES ASSUME NEW x \in W, NEW u \in Seq(W)
             PROVE  Spread(g, Cons(x, u)) = g[x] \o Spread(g, u)
  OBVIOUS
<1> DEFINE a == [i \in DOMAIN u |-> g[u[i]]]
           s == Cons(x, u)
           b == [i \in DOMAIN s |-> g[s[i]]]
<1>1. /\ DOMAIN u = 1 .. Len(u) /\ Len(u) \in Nat /\ \A i \in 1 .. Len(u) : u[i] \in W
  BY TextFacts
<1>2. /\ s \in Seq(W) /\ Len(s) = Len(u) + 1 /\ s[1] = x
      /\ \A i \in 1 .. Len(u) : s[i + 1] = u[i]
  BY ConsFacts
<1> HIDE DEF s
<1>3. DOMAIN s = 1 .. Len(u) + 1 /\ \A i \in 1 .. Len(u) + 1 : s[i] \in W
  BY <1>2, TextFacts
<1>4. a \in [1 .. Len(u) -> Seq(S)] /\ b \in [1 .. Len(u) + 1 -> Seq(S)]
  BY <1>1, <1>3 DEF Spreads
<1>5. /\ b[1] = g[x]
      /\ \A i \in 1 .. Len(u) : b[i + 1] = a[i]
  <2>1. 1 \in 1 .. Len(u) + 1 /\ \A i \in 1 .. Len(u) : i + 1 \in 1 .. Len(u) + 1
    BY <1>1
  <2> QED
    BY <1>1, <1>2, <1>3, <2>1
<1> HIDE DEF a, b
<1>6. /\ a \in Seq(Seq(S)) /\ Len(a) = Len(u)
      /\ b \in Seq(Seq(S)) /\ Len(b) = Len(u) + 1
  <2>1. Len(u) + 1 \in Nat
    BY <1>1
  <2> QED
    BY <1>1, <1>4, <2>1, FunctionIsSeq
<1>7. g[x] \in Seq(S)
  BY DEF Spreads
<1>8. b = Cons(g[x], a)
  <2> DEFINE c == Cons(g[x], a)
             y == g[x]
  <2>0. y \in Seq(S) /\ c = Cons(y, a)
    BY <1>7
  <2> HIDE DEF y, c
  <2>1. /\ c \in Seq(Seq(S)) /\ Len(c) = Len(u) + 1 /\ c[1] = y
        /\ \A i \in 1 .. Len(u) : c[i + 1] = a[i]
    <3>1. a \in Seq(Seq(S)) /\ Len(a) = Len(u)
      BY <1>6
    <3>2. /\ Cons(y, a) \in Seq(Seq(S)) /\ Len(Cons(y, a)) = Len(a) + 1 /\ Cons(y, a)[1] = y
          /\ \A i \in 1 .. Len(a) : Cons(y, a)[i + 1] = a[i]
      <4> DEFINE Texts == Seq(S)
      <4>1. y \in Texts /\ a \in Seq(Texts)
        BY <2>0, <3>1
      <4> HIDE DEF Texts
      <4>2. /\ Cons(y, a) \in Seq(Texts) /\ Len(Cons(y, a)) = Len(a) + 1 /\ Cons(y, a)[1] = y
            /\ \A i \in 1 .. Len(a) : Cons(y, a)[i + 1] = a[i]
        BY <4>1, ConsFacts
      <4> QED
        BY <4>2 DEF Texts
    <3> QED
      BY <2>0, <3>1, <3>2
  <2>2. ASSUME NEW i \in 1 .. Len(b)
        PROVE  b[i] = c[i]
    <3>1. CASE i = 1
      BY <1>5, <2>1, <3>1 DEF y
    <3>2. CASE i # 1
      <4>1. i - 1 \in 1 .. Len(u) /\ (i - 1) + 1 = i
        BY <1>1, <1>6, <3>2
      <4>2. b[(i - 1) + 1] = a[i - 1] /\ c[(i - 1) + 1] = a[i - 1]
        BY <1>5, <2>1, <4>1
      <4> QED
        BY <4>1, <4>2
    <3> QED
      BY <3>1, <3>2
  <2>3. b = c
    BY <1>6, <2>1, <2>2, SeqEqual
  <2> QED
    BY <2>3 DEF c
<1>9. FlattenSeq(b) = g[x] \o FlattenSeq(a)
  BY <1>6, <1>7, <1>8, FlattenCons
<1> QED
  BY <1>9 DEF Spread, a, b, s

\* Where every word makes a text, a text makes a text.
LEMMA SpreadType ==
  ASSUME NEW W, NEW S, NEW g, Spreads(g, W, S)
  PROVE  \A t \in Seq(W) : Spread(g, t) \in Seq(S)
<1> DEFINE P == {t \in Seq(W) : Spread(g, t) \in Seq(S)}
<1>1. <<>> \in P
  BY SpreadEmpty, EmptySeq
<1>2. ASSUME NEW x \in W, NEW u \in Seq(W), u \in P
      PROVE  Cons(x, u) \in P
  <2>1. Spread(g, Cons(x, u)) = g[x] \o Spread(g, u)
    BY SpreadCons
  <2>2. g[x] \in Seq(S) /\ Spread(g, u) \in Seq(S)
    BY <1>2 DEF Spreads
  <2>3. Spread(g, Cons(x, u)) \in Seq(S)
    BY <2>1, <2>2, ConcatProperties
  <2> QED
    BY <2>3, ConsFacts
<1> HIDE DEF P
<1>3. \A t \in Seq(W) : t \in P
  BY <1>1, <1>2, SeqInduct
<1> QED
  BY <1>3 DEF P

\* Words that stay as they are make a text that stays as it is.
LEMMA SpreadSingles ==
  ASSUME NEW W, NEW g, Spreads(g, W, W), \A x \in W : g[x] = <<x>>
  PROVE  \A t \in Seq(W) : Spread(g, t) = t
<1> DEFINE P == {t \in Seq(W) : Spread(g, t) = t}
<1>1. <<>> \in P
  BY SpreadEmpty, EmptySeq
<1>2. ASSUME NEW x \in W, NEW u \in Seq(W), u \in P
      PROVE  Cons(x, u) \in P
  <2>1. Spread(g, Cons(x, u)) = Cons(x, u)
    <3>1. Spread(g, Cons(x, u)) = g[x] \o Spread(g, u)
      BY SpreadCons
    <3> QED
      BY <1>2, <3>1 DEF Cons
  <2> QED
    BY <2>1, ConsFacts
<1> HIDE DEF P
<1>3. \A t \in Seq(W) : t \in P
  BY <1>1, <1>2, SeqInduct
<1> QED
  BY <1>3 DEF P
-----------------------------------------------------------------------------
(***************************************************************************)
(* The literal, and what SQLite should get                                 *)
(***************************************************************************)
Spelled(v, src) == FlattenSeq([i \in DOMAIN v |-> Spell(v[i], src)])

\* The literal's closing quote and the rest of the statement, as translated
\* and as the AST restores it.
Second == Cons(Quote, Cons("word", Cons(Quote, <<>>)))
Ending == Cons(Quote, Cons(",", Second))
Restored == Cons(Quote, Cons(",", Cons("_charset", Second)))

\* The words of a value, and what follows them.
Spelt(v, src, u) == Cat(Spelled(v, src), u)

Target(v) == Cons(Quote, Spelt(v, "ast", Ending))

\* The words that the statement has besides those of the value.
LEMMA Words ==
  /\ Quote \in Token /\ Backslash \in Token /\ "," \in Token /\ "word" \in Token
  /\ "_charset" \in Token
  /\ Quote # Backslash /\ Quote # "," /\ Quote # "word" /\ Quote # "_charset"
  /\ Backslash # "," /\ Backslash # "word" /\ Backslash # "_charset"
  /\ Quote \notin Introducer /\ Backslash \notin Introducer /\ "," \notin Introducer
  /\ "word" \notin Introducer /\ "_charset" \in Introducer
  /\ Quote # "newline" /\ Backslash # "newline"
  BY DEF Quote, Backslash, Token, Introducer

\* They are texts.
LEMMA EndingType == Second \in Seq(Token) /\ Ending \in Seq(Token) /\ Restored \in Seq(Token)
<1>1. Cons(Quote, <<>>) \in Seq(Token)
  BY Words, ConsFacts, EmptySeq
<1>2. Cons("word", Cons(Quote, <<>>)) \in Seq(Token)
  BY <1>1, Words, ConsFacts
<1>3. Second \in Seq(Token)
  BY <1>2, Words, ConsFacts DEF Second
<1>4. Cons(",", Second) \in Seq(Token) /\ Cons("_charset", Second) \in Seq(Token)
  BY <1>3, Words, ConsFacts
<1>5. Cons(",", Cons("_charset", Second)) \in Seq(Token)
  BY <1>4, Words, ConsFacts
<1> QED
  BY <1>3, <1>4, <1>5, Words, ConsFacts DEF Ending, Restored

\* A word of the value after another.
LEMMA SpelledFacts ==
  ASSUME NEW src \in Source
  PROVE  /\ Spelled(<<>>, src) = <<>>
         /\ \A u \in Seq(Token) : Spelled(u, src) \in Seq(Token)
         /\ \A x \in Token : \A u \in Seq(Token) :
              Spelled(Cons(x, u), src) =
                IF x = Quote
                  THEN Cons(IF src = "escaped" THEN Backslash ELSE Quote,
                            Cons(Quote, Spelled(u, src)))
                ELSE IF x = Backslash /\ src # "ast"
                  THEN Cons(Backslash, Cons(Backslash, Spelled(u, src)))
                ELSE Cons(x, Spelled(u, src))
<1> DEFINE g == [w \in Token |-> Spell(w, src)]
<1>1. Spreads(g, Token, Token) /\ \A x \in Token : g[x] = Spell(x, src)
  <2>1. \A w, y \in Token : <<w>> \in Seq(Token) /\ <<w, y>> \in Seq(Token)
    OBVIOUS
  <2>2. \A w \in Token : Spell(w, src) \in Seq(Token)
    BY <2>1, Words DEF Spell
  <2> QED
    BY <2>2 DEF Spreads
<1>2. \A u \in Seq(Token) : Spread(g, u) = Spelled(u, src)
  <2> SUFFICES ASSUME NEW u \in Seq(Token) PROVE Spread(g, u) = Spelled(u, src)
    OBVIOUS
  <2>1. \A i \in DOMAIN u : u[i] \in Token
    BY TextFacts
  <2>2. [i \in DOMAIN u |-> g[u[i]]] = [i \in DOMAIN u |-> Spell(u[i], src)]
    BY <2>1
  <2> QED
    BY <2>2 DEF Spread, Spelled
<1> HIDE DEF g
<1>3. Spelled(<<>>, src) = <<>>
  BY <1>2, SpreadEmpty, EmptySeq
<1>4. \A u \in Seq(Token) : Spelled(u, src) \in Seq(Token)
  BY <1>1, <1>2, SpreadType
<1>5. ASSUME NEW x \in Token, NEW u \in Seq(Token)
      PROVE  Spelled(Cons(x, u), src) =
                IF x = Quote
                  THEN Cons(IF src = "escaped" THEN Backslash ELSE Quote,
                            Cons(Quote, Spelled(u, src)))
                ELSE IF x = Backslash /\ src # "ast"
                  THEN Cons(Backslash, Cons(Backslash, Spelled(u, src)))
                ELSE Cons(x, Spelled(u, src))
  <2> DEFINE s == Spelled(u, src)
  <2>1. Spelled(Cons(x, u), src) = Spell(x, src) \o s
    <3>1. Cons(x, u) \in Seq(Token)
      BY ConsFacts
    <3>2. Spread(g, Cons(x, u)) = g[x] \o Spread(g, u)
      BY <1>1, SpreadCons
    <3> QED
      BY <1>1, <1>2, <3>1, <3>2
  <2>2. s \in Seq(Token)
    BY <1>4
  <2> HIDE DEF s
  <2>3. \A y, z \in Token : <<y, z>> \o s = Cons(y, Cons(z, s))
    BY <2>2, PairConcat
  <2>4. \A y \in Token : <<y>> \o s = Cons(y, s)
    BY DEF Cons
  <2>5. Spell(x, src) = IF x = Quote THEN (IF src = "escaped" THEN <<Backslash, Quote>>
                                                              ELSE <<Quote, Quote>>)
                        ELSE IF x = Backslash /\ src # "ast" THEN <<Backslash, Backslash>>
                        ELSE <<x>>
    BY Words DEF Spell
  <2>6. CASE x = Quote /\ src = "escaped"
    BY <2>1, <2>3, <2>5, <2>6, Words, ZenonT(60) DEF s
  <2>7. CASE x = Quote /\ src # "escaped"
    BY <2>1, <2>3, <2>5, <2>7, Words DEF s
  <2>8. CASE x = Backslash /\ src # "ast"
    BY <2>1, <2>3, <2>5, <2>8, Words DEF s
  <2>9. CASE x # Quote /\ ~(x = Backslash /\ src # "ast")
    BY <2>1, <2>4, <2>5, <2>9 DEF s
  <2> QED
    BY <2>6, <2>7, <2>8, <2>9
<1> QED
  BY <1>3, <1>4, <1>5

\* The same word by word, with what follows the value.
LEMMA SpeltFacts ==
  ASSUME NEW src \in Source, NEW u \in Seq(Token)
  PROVE  /\ Spelt(<<>>, src, u) = u
         /\ \A w \in Seq(Token) : Spelt(w, src, u) \in Seq(Token)
         /\ \A x \in Token : \A w \in Seq(Token) :
              Spelt(Cons(x, w), src, u) =
                IF x = Quote
                  THEN Cons(IF src = "escaped" THEN Backslash ELSE Quote,
                            Cons(Quote, Spelt(w, src, u)))
                ELSE IF x = Backslash /\ src # "ast"
                  THEN Cons(Backslash, Cons(Backslash, Spelt(w, src, u)))
                ELSE Cons(x, Spelt(w, src, u))
<1>1. Spelt(<<>>, src, u) = u
  BY SpelledFacts, ConcatEmptySeq DEF Spelt, Cat
<1>2. \A w \in Seq(Token) : Spelled(w, src) \in Seq(Token)
  BY SpelledFacts
<1>3. ASSUME NEW w \in Seq(Token)
      PROVE  Spelt(w, src, u) \in Seq(Token)
  <2> DEFINE s == Spelled(w, src)
  <2>1. s \in Seq(Token)
    BY <1>2
  <2> HIDE DEF s
  <2>2. Cat(s, u) \in Seq(Token)
    BY <2>1, CatFacts
  <2> QED
    BY <2>2 DEF Spelt, s
<1>4. ASSUME NEW x \in Token, NEW w \in Seq(Token)
      PROVE  Spelt(Cons(x, w), src, u) =
                IF x = Quote
                  THEN Cons(IF src = "escaped" THEN Backslash ELSE Quote,
                            Cons(Quote, Spelt(w, src, u)))
                ELSE IF x = Backslash /\ src # "ast"
                  THEN Cons(Backslash, Cons(Backslash, Spelt(w, src, u)))
                ELSE Cons(x, Spelt(w, src, u))
  <2> DEFINE s == Spelled(w, src)
             y == IF src = "escaped" THEN Backslash ELSE Quote
  <2>1. s \in Seq(Token) /\ y \in Token /\ Quote \in Token /\ Backslash \in Token
    BY <1>2, Words
  <2>2. Spelled(Cons(x, w), src) = IF x = Quote THEN Cons(y, Cons(Quote, s))
                                   ELSE IF x = Backslash /\ src # "ast"
                                     THEN Cons(Backslash, Cons(Backslash, s))
                                   ELSE Cons(x, s)
    BY SpelledFacts
  <2>3. Spelt(w, src, u) = Cat(s, u)
    BY DEF Spelt
  <2>4. Spelt(Cons(x, w), src, u) = Cat(Spelled(Cons(x, w), src), u)
    BY DEF Spelt
  <2> HIDE DEF s, y
  <2>5. \A a \in Token : \A z \in Seq(Token) : Cat(Cons(a, z), u) = Cons(a, Cat(z, u))
    BY ConsCat
  <2>6. Cons(Quote, s) \in Seq(Token) /\ Cons(Backslash, s) \in Seq(Token)
    BY <2>1, ConsFacts
  <2> QED
    BY <2>1, <2>2, <2>3, <2>4, <2>5, <2>6 DEF y
<1> QED
  BY <1>1, <1>3, <1>4

\* One literal before the rest of a text.
LEMMA LiteralIs ==
  ASSUME NEW v \in Seq(Token), NEW src \in Source, NEW u \in Seq(Token)
  PROVE  LET quoted == Cons(Quote, Spelled(v, src) \o Cons(Quote, u))
         IN  Literal(v, src) \o u = IF src = "ast" THEN Cons("_charset", quoted) ELSE quoted
<1> DEFINE s == Spelled(v, src)
           q == <<Quote>>
           p == IF src = "ast" THEN <<"_charset">> ELSE <<>>
<1>1. Literal(v, src) \o u = Cat(Cat(Cat(Cat(p, q), s), q), u)
  BY DEF Literal, Spelled, Cat
<1>2. s \in Seq(Token) /\ q \in Seq(Token) /\ p \in Seq(Token)
  <2>1. \A w \in Token : <<w>> \in Seq(Token) /\ <<>> \in Seq(Token)
    OBVIOUS
  <2> QED
    BY <2>1, SpelledFacts, Words
<1>3. \A w \in Seq(Token) : Cat(q, w) = Cons(Quote, w)
  BY DEF Cons, Cat
<1>4. \A w \in Seq(Token) : Cat(p, w) = IF src = "ast" THEN Cons("_charset", w) ELSE w
  BY ConcatEmptySeq DEF Cons, Cat
<1>5. \A w : Cat(s, w) = Spelled(v, src) \o w
  BY DEF Cat
<1> HIDE DEF s, q, p
<1>6. Cat(Cat(Cat(Cat(p, q), s), q), u) = Cat(p, Cat(q, Cat(s, Cat(q, u))))
  BY <1>2, ConcatFive
<1>7. Cat(q, u) \in Seq(Token)
  BY <1>2, CatFacts
<1>8. Cat(s, Cat(q, u)) \in Seq(Token)
  BY <1>2, <1>7, CatFacts
<1>9. Cat(q, Cat(s, Cat(q, u))) \in Seq(Token)
  BY <1>2, <1>8, CatFacts
<1>10. Cat(p, Cat(q, Cat(s, Cat(q, u)))) =
         LET quoted == Cons(Quote, Cat(s, Cons(Quote, u)))
         IN  IF src = "ast" THEN Cons("_charset", quoted) ELSE quoted
  BY <1>3, <1>4, <1>8, <1>9
<1> QED
  BY <1>1, <1>5, <1>6, <1>10

\* The statement that the translator starts from.
LEMMA WrittenIs ==
  ASSUME NEW v \in Seq(Token), NEW src \in Source
  PROVE  Written(v, src) = IF src = "ast" THEN Cons("_charset", Cons(Quote, Spelt(v, src, Restored)))
                                          ELSE Cons(Quote, Spelt(v, src, Ending))
<1> DEFINE w == <<"word">>
           two == Literal(w, src)
<1>1. w \in Seq(Token) /\ w = Cons("word", <<>>)
  <2>0. \A x \in Token : <<x>> \in Seq(Token)
    OBVIOUS
  <2>1. <<"word">> \in Seq(Token)
    BY <2>0, Words
  <2>2. <<"word">> \o <<>> = <<"word">>
    BY <2>1, ConcatEmptySeq
  <2> QED
    BY <2>1, <2>2 DEF Cons
<1>2. Spelled(w, src) = w
  <2>1. Spelled(Cons("word", <<>>), src) = Cons("word", Spelled(<<>>, src))
    BY SpelledFacts, Words, EmptySeq
  <2> QED
    BY <1>1, <2>1, SpelledFacts
<1>3. /\ Cons(Quote, <<>>) \in Seq(Token) /\ <<>> \in Seq(Token) /\ two \in Seq(Token)
      /\ Literal(v, src) \in Seq(Token) /\ <<",">> \in Seq(Token)
  <2>0. \A x \in Token : <<x>> \in Seq(Token)
    OBVIOUS
  <2>1. <<",">> \in Seq(Token)
    BY <2>0, Words
  <2> HIDE DEF w
  <2> QED
    BY <1>1, <2>1, EmptySeq, ConsFacts, Words, LiteralType
<1>4. two = IF src = "ast" THEN Cons("_charset", Second) ELSE Second
  <2>1. w \o Cons(Quote, <<>>) = Cons("word", Cons(Quote, <<>>))
    BY DEF Cons
  <2>2. two \o <<>> = two
    BY <1>3, ConcatEmptySeq
  <2> HIDE DEF w
  <2>3. Literal(w, src) \o <<>> =
          IF src = "ast" THEN Cons("_charset", Cons(Quote, Spelled(w, src) \o Cons(Quote, <<>>)))
                         ELSE Cons(Quote, Spelled(w, src) \o Cons(Quote, <<>>))
    BY <1>1, <1>3, LiteralIs, ZenonT(60)
  <2> QED
    BY <1>2, <2>1, <2>2, <2>3 DEF Second
<1> HIDE DEF two
<1>5. Written(v, src) = Literal(v, src) \o Cons(",", two)
  <2>1. Written(v, src) = (Literal(v, src) \o <<",">>) \o two
    BY DEF Written, two
  <2>2. \A a, b, c \in Seq(Token) : (a \o b) \o c = a \o (b \o c)
    BY ConcatAssociative
  <2>3. (Literal(v, src) \o <<",">>) \o two = Literal(v, src) \o (<<",">> \o two)
    BY <1>3, <2>2, ZenonT(60)
  <2> QED
    BY <2>1, <2>3 DEF Cons
<1>6. Cons(",", two) \in Seq(Token)
  BY <1>3, Words, ConsFacts
<1> DEFINE u == Cons(",", two)
<1>7. Literal(v, src) \o u =
        IF src = "ast" THEN Cons("_charset", Cons(Quote, Spelled(v, src) \o Cons(Quote, u)))
                       ELSE Cons(Quote, Spelled(v, src) \o Cons(Quote, u))
  <2> HIDE DEF u
  <2> QED
    BY <1>6, LiteralIs DEF u
<1> QED
  BY <1>4, <1>5, <1>7 DEF Ending, Restored, Spelt, Cat
-----------------------------------------------------------------------------
(***************************************************************************)
(* What the two scans leave as it is                                       *)
(***************************************************************************)
\* What translateStringEscapes writes at an index, inside a literal and outside.
EscapeSteps(t, from) ==
    /\ \A in \in BOOLEAN : from[Len(t) + 1][in] = <<>>
    /\ \A i \in 1 .. Len(t) :
         /\ t[i] = Quote => from[i][FALSE] = Cons(t[i], from[i + 1][TRUE])
         /\ t[i] # Quote => from[i][FALSE] = Cons(t[i], from[i + 1][FALSE])
         /\ IF t[i] \in {Quote, Backslash} /\ i < Len(t) /\ t[i + 1] = Quote
              THEN from[i][TRUE] = Cons(Quote, Cons(Quote, from[i + 2][TRUE]))
            ELSE IF t[i] = Quote THEN from[i][TRUE] = Cons(t[i], from[i + 1][FALSE])
            ELSE from[i][TRUE] = Cons(t[i], from[i + 1][TRUE])

\* The scan for escapes, by what is left of the text.
LEMMA EscapesStepwise ==
  ASSUME NEW t \in Seq(Token), NEW from \in [1 .. Len(t) + 2 -> [BOOLEAN -> Seq(Token)]],
         Escapes(t, from)
  PROVE  EscapeSteps(t, from)
<1>1. Len(t) \in Nat
  BY TextFacts
<1>2. ASSUME NEW in \in BOOLEAN PROVE from[Len(t) + 1][in] = <<>>
  <2>1. Len(t) + 1 \in 1 .. Len(t) + 2 /\ Len(t) + 1 > Len(t)
    BY <1>1
  <2>2. from[Len(t) + 1][in] = EscapedAt(t, from, Len(t) + 1, in)
    BY <2>1 DEF Escapes
  <2> QED
    BY <2>1, <2>2 DEF EscapedAt
<1>3. ASSUME NEW i \in 1 .. Len(t)
      PROVE  /\ t[i] = Quote => from[i][FALSE] = Cons(t[i], from[i + 1][TRUE])
             /\ t[i] # Quote => from[i][FALSE] = Cons(t[i], from[i + 1][FALSE])
             /\ IF t[i] \in {Quote, Backslash} /\ i < Len(t) /\ t[i + 1] = Quote
                  THEN from[i][TRUE] = Cons(Quote, Cons(Quote, from[i + 2][TRUE]))
                ELSE IF t[i] = Quote THEN from[i][TRUE] = Cons(t[i], from[i + 1][FALSE])
                ELSE from[i][TRUE] = Cons(t[i], from[i + 1][TRUE])
  <2>1. i \in 1 .. Len(t) + 2 /\ ~(i > Len(t)) /\ i + 2 \in 1 .. Len(t) + 2
    BY <1>1
  <2>2. \A in \in BOOLEAN : from[i][in] = EscapedAt(t, from, i, in)
    BY <2>1 DEF Escapes
  <2>3. from[i][FALSE] = EscapedAt(t, from, i, FALSE) /\ from[i][TRUE] = EscapedAt(t, from, i, TRUE)
    BY <2>2
  <2>4. /\ t[i] = Quote => from[i][FALSE] = <<t[i]>> \o from[i + 1][TRUE]
        /\ t[i] # Quote => from[i][FALSE] = <<t[i]>> \o from[i + 1][FALSE]
    BY <2>1, <2>3 DEF EscapedAt
  <2>5. IF t[i] \in {Quote, Backslash} /\ i < Len(t) /\ t[i + 1] = Quote
          THEN from[i][TRUE] = <<Quote, Quote>> \o from[i + 2][TRUE]
        ELSE IF t[i] = Quote THEN from[i][TRUE] = <<t[i]>> \o from[i + 1][FALSE]
        ELSE from[i][TRUE] = <<t[i]>> \o from[i + 1][TRUE]
    BY <2>1, <2>3 DEF EscapedAt
  <2>6. <<Quote, Quote>> \o from[i + 2][TRUE] = Cons(Quote, Cons(Quote, from[i + 2][TRUE]))
    <3>1. from[i + 2] \in [BOOLEAN -> Seq(Token)]
      BY <2>1
    <3>2. PICK s \in Seq(Token) : s = from[i + 2][TRUE]
      BY <3>1
    <3>3. \A y \in Token : <<y, y>> \o s = Cons(y, Cons(y, s))
      BY PairConcat
    <3>4. PICK q \in Token : q = Quote
      BY Words
    <3> QED
      BY <3>2, <3>3, <3>4
  <2> QED
    BY <2>4, <2>5, <2>6 DEF Cons
<1> QED
  BY <1>2, <1>3 DEF EscapeSteps

-----------------------------------------------------------------------------
\* A text that goes on with the words of a value, one word further.
LEMMA SpeltStep ==
  ASSUME NEW src \in Source, NEW E \in Seq(Token), NEW t \in Seq(Token),
         NEW p \in 1 .. Len(t) + 1, NEW x \in Token, NEW u \in Seq(Token),
         Rest(t, p) = Spelt(Cons(x, u), src, E)
  PROVE  /\ p \in 1 .. Len(t) /\ p + 1 \in 1 .. Len(t) + 1
         /\ IF x = Quote \/ (x = Backslash /\ src # "ast")
              THEN /\ p + 1 \in 1 .. Len(t) /\ p + 2 \in 1 .. Len(t) + 1
                   /\ t[p] = (IF x = Quote /\ src # "escaped" THEN Quote ELSE Backslash)
                   /\ t[p + 1] = x
                   /\ Rest(t, p + 2) = Spelt(u, src, E)
            ELSE t[p] = x /\ Rest(t, p + 1) = Spelt(u, src, E)
<1>0. Quote \in Token /\ Backslash \in Token /\ Quote # Backslash
  BY Words
<1>1. PICK w \in Seq(Token) : w = Spelt(u, src, E)
  BY SpeltFacts
<1>2. Len(t) \in Nat
  BY TextFacts
<1>3. CASE x = Quote \/ (x = Backslash /\ src # "ast")
  <2>1. PICK y \in Token : y = IF x = Quote /\ src # "escaped" THEN Quote ELSE Backslash
    BY <1>0
  <2>2. Spelt(Cons(x, u), src, E) =
          IF x = Quote
            THEN Cons(IF src = "escaped" THEN Backslash ELSE Quote, Cons(Quote, w))
          ELSE IF x = Backslash /\ src # "ast" THEN Cons(Backslash, Cons(Backslash, w))
          ELSE Cons(x, w)
    BY <1>1, SpeltFacts
  <2>3. Rest(t, p) = Cons(y, Cons(x, w))
    BY <1>0, <1>3, <2>1, <2>2
  <2>4. PICK z \in Seq(Token) : z = Cons(x, w)
    BY ConsFacts
  <2>5. p \in 1 .. Len(t) /\ t[p] = y /\ p + 1 \in 1 .. Len(t) + 1 /\ Rest(t, p + 1) = z
    BY <2>3, <2>4, RestCons
  <2>6. PICK q \in 1 .. Len(t) + 1 : q = p + 1
    BY <2>5
  <2>7. q \in 1 .. Len(t) /\ t[q] = x /\ q + 1 \in 1 .. Len(t) + 1 /\ Rest(t, q + 1) = w
    BY <2>4, <2>5, <2>6, RestCons, SMTT(30)
  <2>8. q + 1 = p + 2
    BY <2>6
  <2> QED
    BY <1>1, <1>3, <2>1, <2>5, <2>6, <2>7, <2>8
<1>4. CASE ~(x = Quote \/ (x = Backslash /\ src # "ast"))
  <2>1. Rest(t, p) = Cons(x, w)
    BY <1>1, <1>4, SpeltFacts
  <2>2. p \in 1 .. Len(t) /\ t[p] = x /\ p + 1 \in 1 .. Len(t) + 1 /\ Rest(t, p + 1) = w
    BY <2>1, RestCons
  <2> QED
    BY <1>1, <1>4, <2>2
<1> QED
  BY <1>3, <1>4

\* Where the words of a value stand, followed by a quote, that the next word
\* is a quote means that they are at their end or go on with a quote.
LEMMA SpeltHead ==
  ASSUME NEW src \in Source, NEW E \in Seq(Token), NEW t \in Seq(Token),
         NEW p \in 1 .. Len(t) + 1, NEW u \in Seq(Token),
         Rest(t, p) = Spelt(u, src, Cons(Quote, E))
  PROVE  /\ p \in 1 .. Len(t)
         /\ t[p] = Quote <=> u = <<>> \/ (src # "escaped" /\ u[1] = Quote)
<1>0. Quote \in Token /\ Backslash \in Token /\ Quote # Backslash
  BY Words
<1>1. PICK C \in Seq(Token) : C = Cons(Quote, E)
  BY <1>0, ConsFacts
<1>2. CASE u = <<>>
  <2>1. Rest(t, p) = Cons(Quote, E)
    BY <1>1, <1>2, SpeltFacts
  <2> QED
    BY <1>0, <1>2, <2>1, RestCons
<1>3. CASE u # <<>>
  <2>0. /\ u[1] \in Token /\ SubSeq(u, 2, Len(u)) \in Seq(Token)
        /\ u = Cons(u[1], SubSeq(u, 2, Len(u)))
    BY <1>3, SeqCases
  <2>1. PICK y \in Token, w \in Seq(Token) : y = u[1] /\ u = Cons(y, w)
    BY <2>0
  <2>2. Rest(t, p) = Spelt(Cons(y, w), src, C)
    BY <1>1, <2>1
  <2>3. /\ p \in 1 .. Len(t)
        /\ IF y = Quote \/ (y = Backslash /\ src # "ast")
             THEN t[p] = (IF y = Quote /\ src # "escaped" THEN Quote ELSE Backslash)
           ELSE t[p] = y
    BY <2>2, SpeltStep
  <2> QED
    BY <1>0, <1>3, <2>1, <2>3
<1> QED
  BY <1>2, <1>3

\* No word of X stands in a value: not at all, or not at its end or where one of
\* the words "after" follows.
Spared(v, X, everywhere, after) ==
    \A i \in DOMAIN v :
      ~(v[i] \in X /\ (everywhere \/ i = Len(v) \/ v[i + 1] \in after))

\* No backslash of a value could escape something, and no word of it introduce
\* what follows.
Clear(v, src) == Spared(v, {Backslash}, src # "ast", {Quote, "newline"})
Plain(v) == Spared(v, Introducer, FALSE, {Quote})

\* A word more has only its own place to be checked.
LEMMA SparedCons ==
  ASSUME NEW X, NEW everywhere \in BOOLEAN, NEW after,
         NEW x \in Token, NEW u \in Seq(Token)
  PROVE  Spared(Cons(x, u), X, everywhere, after) <=>
           /\ Spared(u, X, everywhere, after)
           /\ x \in X => ~everywhere /\ u # <<>> /\ u[1] \notin after
<1> DEFINE Bad(s, i) == s[i] \in X /\ (everywhere \/ i = Len(s) \/ s[i + 1] \in after)
<1>1. PICK c \in Seq(Token) : c = Cons(x, u)
  BY ConsFacts
<1>2. /\ Len(Cons(x, u)) = Len(u) + 1 /\ Len(u) \in Nat /\ Cons(x, u)[1] = x
      /\ \A i \in 1 .. Len(u) : Cons(x, u)[i + 1] = u[i]
  BY ConsFacts
<1>3. /\ Len(c) = Len(u) + 1 /\ Len(u) \in Nat /\ c[1] = x
      /\ \A i \in 1 .. Len(u) : c[i + 1] = u[i]
  BY <1>1, <1>2
<1>4. DOMAIN c = 1 .. Len(c) /\ DOMAIN u = 1 .. Len(u)
  BY TextFacts
<1>5. u = <<>> <=> Len(u) = 0
  BY EmptySeq
<1>6. c[1] = x /\ (1 = Len(c) <=> u = <<>>) /\ (u # <<>> => c[1 + 1] = u[1])
  BY <1>3, <1>5
<1>7. \A i \in 1 .. Len(u) :
        /\ i + 1 \in 1 .. Len(c) /\ c[i + 1] = u[i]
        /\ i + 1 = Len(c) <=> i = Len(u)
        /\ i # Len(u) => c[(i + 1) + 1] = u[i + 1]
  BY <1>3
<1>8. \A k \in 1 .. Len(c) : k = 1 \/ \E i \in 1 .. Len(u) : k = i + 1
  <2>1. \A k \in 1 .. Len(c) : k = 1 \/ (k - 1 \in 1 .. Len(u) /\ k = (k - 1) + 1)
    BY <1>3
  <2> QED
    BY <2>1
<1>9. Bad(c, 1) <=> x \in X /\ (everywhere \/ u = <<>> \/ u[1] \in after)
  BY <1>6
<1>10. \A i \in 1 .. Len(u) : Bad(c, i + 1) <=> Bad(u, i)
  BY <1>7
<1>11. (\A k \in 1 .. Len(c) : ~Bad(c, k)) <=> ~Bad(c, 1) /\ \A i \in 1 .. Len(u) : ~Bad(u, i)
  <2>1. 1 \in 1 .. Len(c)
    BY <1>3
  <2> HIDE DEF Bad
  <2> QED
    BY <1>7, <1>8, <1>10, <2>1
<1>12. Spared(c, X, everywhere, after) <=> \A k \in 1 .. Len(c) : ~Bad(c, k)
  BY <1>4 DEF Spared
<1>13. Spared(u, X, everywhere, after) <=> \A k \in 1 .. Len(u) : ~Bad(u, k)
  BY <1>4 DEF Spared
<1> HIDE DEF Bad
<1> QED
  BY <1>1, <1>9, <1>11, <1>12, <1>13

\* What this says of backslashes and of introducers.
LEMMA ClearFacts ==
  ASSUME NEW src \in Source
  PROVE  /\ Clear(<<>>, src)
         /\ \A x \in Token : \A u \in Seq(Token) :
              Clear(Cons(x, u), src) <=>
                /\ Clear(u, src)
                /\ x = Backslash => src = "ast" /\ u # <<>> /\ u[1] \notin {Quote, "newline"}
<1>1. Clear(<<>>, src)
  BY DEF Clear, Spared
<1>2. PICK everywhere \in BOOLEAN : everywhere <=> src # "ast"
  OBVIOUS
<1>3. PICK after : after = {Quote, "newline"}
  OBVIOUS
<1>4. \A v : Clear(v, src) <=> Spared(v, {Backslash}, everywhere, after)
  BY <1>2, <1>3 DEF Clear, Spared
<1>5. \A x \in Token : \A u \in Seq(Token) :
        Spared(Cons(x, u), {Backslash}, everywhere, after) <=>
          /\ Spared(u, {Backslash}, everywhere, after)
          /\ x \in {Backslash} => ~everywhere /\ u # <<>> /\ u[1] \notin after
  BY SparedCons
<1> QED
  BY <1>1, <1>2, <1>3, <1>4, <1>5

\* The same of introducers.
LEMMA PlainFacts ==
  /\ Plain(<<>>)
  /\ \A x \in Token : \A u \in Seq(Token) :
       Plain(Cons(x, u)) <=> /\ Plain(u)
                             /\ x \in Introducer => u # <<>> /\ u[1] # Quote
<1>1. Plain(<<>>)
  BY DEF Plain, Spared
<1>2. PICK after : after = {Quote}
  OBVIOUS
<1>3. \A v : Plain(v) <=> Spared(v, Introducer, FALSE, after)
  BY <1>2 DEF Plain
<1>4. \A x \in Token : \A u \in Seq(Token) :
        Spared(Cons(x, u), Introducer, FALSE, after) <=>
          /\ Spared(u, Introducer, FALSE, after)
          /\ x \in Introducer => ~FALSE /\ u # <<>> /\ u[1] \notin after
  BY SparedCons
<1> QED
  BY <1>1, <1>2, <1>3, <1>4

\* The text of which Ending is left.
LEMMA EndingStands ==
  ASSUME NEW t \in Seq(Token), NEW p \in 1 .. Len(t) + 1, Rest(t, p) = Ending
  PROVE  /\ p \in 1 .. Len(t) /\ p + 4 = Len(t)
         /\ t[p] = Quote /\ t[p + 1] = "," /\ t[p + 2] = Quote
         /\ t[p + 3] = "word" /\ t[p + 4] = Quote
<1>0. Len(t) \in Nat /\ <<>> \in Seq(Token) /\ Quote \in Token /\ "," \in Token /\ "word" \in Token
  <2>1. <<>> \in Seq(Token)
    OBVIOUS
  <2> QED
    BY <2>1, TextFacts, Words
<1>1. PICK e \in Seq(Token) : e = <<>>
  BY <1>0
<1>2. PICK d \in Seq(Token) : d = Cons(Quote, e)
  BY <1>0, ConsFacts
<1>3. PICK c \in Seq(Token) : c = Cons("word", d)
  BY <1>0, ConsFacts
<1>4. PICK b \in Seq(Token) : b = Cons(Quote, c)
  BY <1>0, ConsFacts
<1>5. PICK a \in Seq(Token) : a = Cons(",", b)
  BY <1>0, ConsFacts
<1>6. Rest(t, p) = Cons(Quote, a)
  BY <1>1, <1>2, <1>3, <1>4, <1>5 DEF Ending, Second
<1>7. ASSUME NEW q \in 1 .. Len(t) + 1, NEW x \in Token, NEW u \in Seq(Token), Rest(t, q) = Cons(x, u)
      PROVE  \E r \in 1 .. Len(t) + 1 : r = q + 1 /\ t[q] = x /\ Rest(t, r) = u
  BY <1>7, RestCons
<1>8. PICK p1 \in 1 .. Len(t) + 1 : p1 = p + 1 /\ t[p] = Quote /\ Rest(t, p1) = a
  BY <1>0, <1>6, <1>7
<1>9. PICK p2 \in 1 .. Len(t) + 1 : p2 = p1 + 1 /\ t[p1] = "," /\ Rest(t, p2) = b
  BY <1>0, <1>5, <1>7, <1>8, ZenonT(60)
<1>10. PICK p3 \in 1 .. Len(t) + 1 : p3 = p2 + 1 /\ t[p2] = Quote /\ Rest(t, p3) = c
  BY <1>0, <1>4, <1>7, <1>9
<1>11. PICK p4 \in 1 .. Len(t) + 1 : p4 = p3 + 1 /\ t[p3] = "word" /\ Rest(t, p4) = d
  BY <1>0, <1>3, <1>7, <1>10, ZenonT(60)
<1>12. PICK p5 \in 1 .. Len(t) + 1 : p5 = p4 + 1 /\ t[p4] = Quote /\ Rest(t, p5) = e
  BY <1>0, <1>2, <1>7, <1>11
<1>13. Len(Rest(t, p5)) = Len(t) + 1 - p5
  BY RestFacts
<1>14. Len(t) + 1 - p5 = 0
  BY <1>1, <1>12, <1>13
<1>15. p1 = p + 1 /\ p2 = p + 2 /\ p3 = p + 3 /\ p4 = p + 4 /\ p + 4 = Len(t) /\ p \in 1 .. Len(t)
  <2>1. PICK n \in Nat : n = Len(t)
    BY <1>0
  <2>2. p \in 1 .. n + 1 /\ p1 = p + 1 /\ p2 = p1 + 1 /\ p3 = p2 + 1 /\ p4 = p3 + 1 /\ p5 = p4 + 1
    BY <1>8, <1>9, <1>10, <1>11, <1>12, <2>1
  <2>3. n + 1 - p5 = 0
    BY <1>14, <2>1
  <2>4. p1 = p + 1 /\ p2 = p + 2 /\ p3 = p + 3 /\ p4 = p + 4 /\ p + 4 = n /\ p \in 1 .. n
    BY <2>2, <2>3
  <2> QED
    BY <2>1, <2>4
<1> QED
  BY <1>8, <1>9, <1>10, <1>11, <1>12, <1>15

\* The rest of the statement is left as it is.
LEMMA EndingEscapes ==
  ASSUME NEW t \in Seq(Token), NEW from, EscapeSteps(t, from),
         NEW p \in 1 .. Len(t) + 1, Rest(t, p) = Ending
  PROVE  from[p][TRUE] = Ending
<1>1. /\ p \in 1 .. Len(t) /\ p + 4 = Len(t)
      /\ t[p] = Quote /\ t[p + 1] = "," /\ t[p + 2] = Quote
      /\ t[p + 3] = "word" /\ t[p + 4] = Quote
  BY EndingStands
<1>2. PICK n \in Nat : n = Len(t)
  BY TextFacts
<1>3. /\ p + 1 \in 1 .. n /\ p + 2 \in 1 .. n /\ p + 3 \in 1 .. n /\ p + 4 \in 1 .. n
      /\ (p + 1) + 1 = p + 2 /\ (p + 2) + 1 = p + 3 /\ (p + 3) + 1 = p + 4
      /\ (p + 4) + 1 = n + 1 /\ ~(p + 4 < n)
  <2>1. p \in 1 .. n /\ p + 4 = n
    BY <1>1, <1>2
  <2> QED
    BY <2>1
<1>4. Quote # "," /\ Quote # "word" /\ Backslash # "," /\ Backslash # "word"
  BY Words
<1> DEFINE Is(i) ==
      /\ t[i] = Quote => from[i][FALSE] = Cons(t[i], from[i + 1][TRUE])
      /\ t[i] # Quote => from[i][FALSE] = Cons(t[i], from[i + 1][FALSE])
      /\ IF t[i] \in {Quote, Backslash} /\ i < n /\ t[i + 1] = Quote
           THEN from[i][TRUE] = Cons(Quote, Cons(Quote, from[i + 2][TRUE]))
         ELSE IF t[i] = Quote THEN from[i][TRUE] = Cons(t[i], from[i + 1][FALSE])
         ELSE from[i][TRUE] = Cons(t[i], from[i + 1][TRUE])
<1>5. (\A i \in 1 .. n : Is(i)) /\ \A in \in BOOLEAN : from[n + 1][in] = <<>>
  BY <1>2 DEF EscapeSteps
<1>6. Is(p) /\ Is(p + 1) /\ Is(p + 2) /\ Is(p + 3) /\ Is(p + 4)
  <2> HIDE DEF Is
  <2> QED
    BY <1>1, <1>2, <1>3, <1>5
<1>7. from[p + 4][TRUE] = Cons(Quote, <<>>)
  BY <1>1, <1>3, <1>5, <1>6
<1>8. from[p + 3][TRUE] = Cons("word", from[p + 4][TRUE])
  BY <1>1, <1>3, <1>4, <1>6
<1>9. from[p + 2][FALSE] = Cons(Quote, from[p + 3][TRUE])
  BY <1>1, <1>3, <1>4, <1>6
<1>10. from[p + 1][FALSE] = Cons(",", from[p + 2][FALSE])
  BY <1>1, <1>3, <1>4, <1>6
<1>11. from[p][TRUE] = Cons(Quote, from[p + 1][FALSE])
  BY <1>1, <1>4, <1>6
<1> QED
  BY <1>7, <1>8, <1>9, <1>10, <1>11 DEF Ending, Second

\* Inside a literal of which no backslash goes before a quote, every quote that
\* is spelled in two words becomes a doubled one.
LEMMA ValueEscapes ==
  ASSUME NEW src \in Source, NEW t \in Seq(Token),
         NEW from \in [1 .. Len(t) + 2 -> [BOOLEAN -> Seq(Token)]], EscapeSteps(t, from)
  PROVE  \A u \in Seq(Token) : \A p \in 1 .. Len(t) + 1 :
           Rest(t, p) = Spelt(u, src, Ending) /\ Clear(u, src) =>
             from[p][TRUE] = Spelt(u, "ast", Ending)
<1> DEFINE Meets(u, p) == Clear(u, src) => from[p][TRUE] = Spelt(u, "ast", Ending)
           P == {u \in Seq(Token) : \A p \in 1 .. Len(t) + 1 :
                   Rest(t, p) = Spelt(u, src, Ending) => Meets(u, p)}
<1>0. /\ Quote \in Token /\ Backslash \in Token /\ Quote # Backslash
      /\ Ending \in Seq(Token) /\ "ast" \in Source /\ Len(t) \in Nat
  BY Words, EndingType, TextFacts DEF Source
<1>1. <<>> \in P
  <2>1. Spelt(<<>>, src, Ending) = Ending /\ Spelt(<<>>, "ast", Ending) = Ending
    BY <1>0, SpeltFacts
  <2>2. Clear(<<>>, src) /\ <<>> \in Seq(Token)
    BY ClearFacts
  <2>3. \A p \in 1 .. Len(t) + 1 : Rest(t, p) = Ending => from[p][TRUE] = Ending
    BY EndingEscapes
  <2> QED
    BY <2>1, <2>2, <2>3
<1>2. ASSUME NEW x \in Token, NEW u \in Seq(Token), u \in P
      PROVE  Cons(x, u) \in P
  <2>1. Cons(x, u) \in Seq(Token)
    BY ConsFacts
  <2>2. ASSUME NEW p \in 1 .. Len(t) + 1, Rest(t, p) = Spelt(Cons(x, u), src, Ending)
        PROVE  Meets(Cons(x, u), p)
    <3>1. /\ p \in 1 .. Len(t) /\ p + 1 \in 1 .. Len(t) + 1
          /\ IF x = Quote \/ (x = Backslash /\ src # "ast")
               THEN /\ p + 1 \in 1 .. Len(t) /\ p + 2 \in 1 .. Len(t) + 1
                    /\ t[p] = (IF x = Quote /\ src # "escaped" THEN Quote ELSE Backslash)
                    /\ t[p + 1] = x
                    /\ Rest(t, p + 2) = Spelt(u, src, Ending)
             ELSE t[p] = x /\ Rest(t, p + 1) = Spelt(u, src, Ending)
      BY <1>0, <2>2, SpeltStep
    <3>2. PICK w \in Seq(Token) : w = Spelt(u, "ast", Ending)
      BY <1>0, SpeltFacts
    <3>3. Spelt(Cons(x, u), "ast", Ending) = IF x = Quote THEN Cons(Quote, Cons(Quote, w)) ELSE Cons(x, w)
      <4>0. PICK ast \in Source : ast = "ast"
        BY <1>0
      <4>1. Spelt(Cons(x, u), ast, Ending) =
              IF x = Quote
                THEN Cons(IF ast = "escaped" THEN Backslash ELSE Quote,
                          Cons(Quote, Spelt(u, ast, Ending)))
              ELSE IF x = Backslash /\ ast # "ast"
                THEN Cons(Backslash, Cons(Backslash, Spelt(u, ast, Ending)))
              ELSE Cons(x, Spelt(u, ast, Ending))
        BY <1>0, SpeltFacts
      <4> QED
        BY <3>2, <4>0, <4>1
    <3>4. Clear(Cons(x, u), src) =>
            /\ Clear(u, src)
            /\ x = Backslash => src = "ast" /\ u # <<>> /\ u[1] # Quote
      BY ClearFacts
    <3>5. /\ IF t[p] \in {Quote, Backslash} /\ p < Len(t) /\ t[p + 1] = Quote
               THEN from[p][TRUE] = Cons(Quote, Cons(Quote, from[p + 2][TRUE]))
             ELSE IF t[p] = Quote THEN from[p][TRUE] = Cons(t[p], from[p + 1][FALSE])
             ELSE from[p][TRUE] = Cons(t[p], from[p + 1][TRUE])
      BY <3>1 DEF EscapeSteps
    <3>6. \A q \in 1 .. Len(t) + 1 : from[q][TRUE] \in Seq(Token)
      <4>1. \A q \in 1 .. Len(t) + 1 : q \in 1 .. Len(t) + 2
        BY <1>0
      <4>2. \A q \in 1 .. Len(t) + 1 : from[q] \in [BOOLEAN -> Seq(Token)]
        BY <4>1
      <4> QED
        BY <4>2
    <3>7. CASE x = Quote
      <4>1. PICK a \in Seq(Token) : a = from[p + 2][TRUE]
        BY <3>1, <3>6, <3>7
      <4>2. p < Len(t) /\ t[p] \in {Quote, Backslash} /\ t[p + 1] = Quote
        BY <1>0, <3>1, <3>7
      <4>3. from[p][TRUE] = Cons(Quote, Cons(Quote, a))
        BY <3>5, <4>1, <4>2
      <4>4. Meets(u, p + 2)
        BY <1>2, <3>1, <3>7
      <4> QED
        BY <3>2, <3>3, <3>4, <3>7, <4>1, <4>3, <4>4
    <3>8. CASE x = Backslash
      <4>1. CASE src # "ast"
        BY <3>4, <3>8, <4>1
      <4>2. CASE src = "ast"
        <5>1. PICK q \in 1 .. Len(t) + 1 : q = p + 1 /\ t[p] = Backslash /\ Rest(t, q) = Spelt(u, src, Ending)
          BY <1>0, <3>1, <3>8, <4>2
        <5>2. q \in 1 .. Len(t) /\ (t[q] = Quote <=> u = <<>> \/ u[1] = Quote)
          <6>1. PICK R \in Seq(Token) : Ending = Cons(Quote, R)
            BY Words, EndingType, ConsFacts DEF Ending
          <6> QED
            BY <4>2, <5>1, <6>1, SpeltHead, SMTT(30)
        <5>3. PICK a \in Seq(Token) : a = from[q][TRUE]
          BY <3>6
        <5>4. Meets(u, q)
          BY <1>2, <5>1
        <5>5. CASE t[q] = Quote
          BY <3>4, <3>8, <5>2, <5>5
        <5>6. CASE t[q] # Quote
          <6>1. from[p][TRUE] = Cons(x, a)
            BY <1>0, <3>5, <3>8, <5>1, <5>3, <5>6
          <6> QED
            BY <1>0, <3>2, <3>3, <3>4, <3>8, <5>3, <5>4, <6>1
        <5> QED
          BY <5>5, <5>6
      <4> QED
        BY <4>1, <4>2
    <3>9. CASE x \notin {Quote, Backslash}
      <4>1. PICK a \in Seq(Token) : a = from[p + 1][TRUE]
        BY <3>1, <3>6
      <4>2. from[p][TRUE] = Cons(x, a)
        BY <3>1, <3>5, <3>9, <4>1
      <4>3. Meets(u, p + 1)
        BY <1>2, <3>1, <3>9
      <4> QED
        BY <3>2, <3>3, <3>4, <3>9, <4>1, <4>2, <4>3
    <3> QED
      BY <3>7, <3>8, <3>9
  <2> QED
    BY <2>1, <2>2
<1> HIDE DEF P
<1>3. \A u \in Seq(Token) : u \in P
  BY <1>1, <1>2, SeqInduct
<1> QED
  BY <1>3 DEF P

\* What translateStringEscapes does to a literal and the rest of its statement.
LEMMA EscapesLiteral ==
  ASSUME NEW src \in Source, NEW v \in Seq(Token), Clear(v, src)
  PROVE  TranslateStringEscapes(Cons(Quote, Spelt(v, src, Ending))) = Target(v)
<1>0. /\ Quote \in Token /\ "ast" \in Source /\ Ending \in Seq(Token)
      /\ Spelt(v, src, Ending) \in Seq(Token) /\ Spelt(v, "ast", Ending) \in Seq(Token)
  <2>1. "ast" \in Source
    BY DEF Source
  <2> QED
    BY <2>1, Words, EndingType, SpeltFacts
<1>1. PICK u \in Seq(Token), w \in Seq(Token) :
        u = Spelt(v, src, Ending) /\ w = Spelt(v, "ast", Ending)
  BY <1>0
<1>2. PICK t \in Seq(Token) : t = Cons(Quote, u)
  BY <1>0, ConsFacts
<1>3. PICK from : /\ Escapes(t, from)
                  /\ from \in [1 .. Len(t) + 2 -> [BOOLEAN -> Seq(Token)]]
                  /\ TranslateStringEscapes(t) = from[1][FALSE]
  BY <1>0, EscapesScan
<1>4. EscapeSteps(t, from)
  BY <1>3, EscapesStepwise
<1>5. Len(t) \in Nat /\ 1 \in 1 .. Len(t) + 1 /\ Rest(t, 1) = t
  <2>1. Len(t) \in Nat
    BY TextFacts
  <2>2. 1 \in 1 .. Len(t) + 1
    BY <2>1
  <2> QED
    BY <2>1, <2>2, RestFacts
<1>6. 1 \in 1 .. Len(t) /\ t[1] = Quote /\ 1 + 1 \in 1 .. Len(t) + 1 /\ Rest(t, 1 + 1) = u
  BY <1>0, <1>2, <1>5, RestCons
<1>7. PICK two \in 1 .. Len(t) + 1 : two = 1 + 1
  BY <1>6
<1>8. from[1][FALSE] = Cons(Quote, from[two][TRUE])
  BY <1>4, <1>6, <1>7 DEF EscapeSteps
<1>9. from[two][TRUE] = w
  <2>1. \A p \in 1 .. Len(t) + 1 :
          Rest(t, p) = Spelt(v, src, Ending) /\ Clear(v, src) =>
            from[p][TRUE] = Spelt(v, "ast", Ending)
    BY <1>3, <1>4, ValueEscapes
  <2> QED
    BY <1>1, <1>6, <1>7, <2>1
<1>10. Target(v) = Cons(Quote, w)
  BY <1>1 DEF Target
<1> QED
  BY <1>1, <1>2, <1>3, <1>8, <1>9, <1>10

\* Where literals end in a text: stepwise as well.
EndSteps(t, end) ==
    \A i \in 1 .. Len(t) :
      /\ end[i] = 0 \/ end[i] \in i .. Len(t)
      /\ t[i] = Backslash /\ ~(i < Len(t) /\ t[i + 1] = "newline") => end[i] = end[i + 2]
      /\ t[i] \notin {Quote, Backslash} => end[i] = end[i + 1]
      /\ t[i] = Quote => IF i < Len(t) /\ t[i + 1] = Quote /\ end[i + 2] # 0
                           THEN end[i] = end[i + 2] ELSE end[i] = i

\* The search for the end of a literal, by what is left of the text.
LEMMA EndsStepwise ==
  ASSUME NEW t \in Seq(Token), NEW end, Ends(t, end)
  PROVE  EndSteps(t, end)
<1>1. Len(t) \in Nat
  BY TextFacts
<1> SUFFICES ASSUME NEW i \in 1 .. Len(t)
             PROVE  /\ end[i] = 0 \/ end[i] \in i .. Len(t)
                    /\ t[i] = Backslash /\ ~(i < Len(t) /\ t[i + 1] = "newline") => end[i] = end[i + 2]
                    /\ t[i] \notin {Quote, Backslash} => end[i] = end[i + 1]
                    /\ t[i] = Quote => IF i < Len(t) /\ t[i + 1] = Quote /\ end[i + 2] # 0
                                         THEN end[i] = end[i + 2] ELSE end[i] = i
  BY DEF EndSteps
<1>2. i \in 1 .. Len(t) + 2 /\ ~(i > Len(t)) /\ i # 0
  BY <1>1
<1>3. (end[i] = 0 \/ end[i] \in i .. Len(t)) /\ end[i] = EndAt(t, end, i)
  BY <1>2 DEF Ends
<1> QED
  BY <1>2, <1>3, Words DEF EndAt

\* A word that is no introducer is kept, and so is one that no literal follows.
LEMMA StripsWord ==
  ASSUME NEW t \in Seq(Token), NEW end, NEW from \in [1 .. Len(t) + 1 -> Seq(Token)],
         Strips(t, end, from), NEW i \in 1 .. Len(t), ~Found(t, end, i)
  PROVE  /\ i + 1 \in 1 .. Len(t) + 1
         /\ from[i] = Cons(t[i], from[i + 1])
         /\ from[i] = Rest(t, i) <=> from[i + 1] = Rest(t, i + 1)
<1>1. Len(t) \in Nat
  BY TextFacts
<1>2. i \in 1 .. Len(t) + 1 /\ ~(i > Len(t)) /\ i <= Len(t)
  BY <1>1
<1>3. t[i] \in Token /\ i + 1 \in 1 .. Len(t) + 1 /\ Rest(t, i) = Cons(t[i], Rest(t, i + 1))
  BY <1>2, RestFacts
<1>4. from[i] = Cons(t[i], from[i + 1])
  BY <1>2 DEF Strips, Cons
<1>5. PICK x \in Token, a \in Seq(Token), b \in Seq(Token) :
        x = t[i] /\ a = from[i + 1] /\ b = Rest(t, i + 1)
  BY <1>3, RestFacts
<1>6. Cons(x, a) = Cons(x, b) <=> a = b
  BY ConsEqual
<1> QED
  BY <1>3, <1>4, <1>5, <1>6

\* The rest of the statement has no introducer.
LEMMA EndingStrips ==
  ASSUME NEW t \in Seq(Token), NEW end, NEW from \in [1 .. Len(t) + 1 -> Seq(Token)],
         Strips(t, end, from), NEW p \in 1 .. Len(t) + 1, Rest(t, p) = Ending
  PROVE  from[p] = Rest(t, p)
<1>1. PICK n \in Nat : n = Len(t)
  BY TextFacts
<1>2. /\ p \in 1 .. Len(t) /\ p + 4 = Len(t)
      /\ t[p] = Quote /\ t[p + 1] = "," /\ t[p + 2] = Quote
      /\ t[p + 3] = "word" /\ t[p + 4] = Quote
  BY EndingStands
<1>3. /\ p \in 1 .. n /\ p + 1 \in 1 .. n /\ p + 2 \in 1 .. n /\ p + 3 \in 1 .. n /\ p + 4 \in 1 .. n
      /\ (p + 1) + 1 = p + 2 /\ (p + 2) + 1 = p + 3 /\ (p + 3) + 1 = p + 4
      /\ (p + 4) + 1 = n + 1
  <2>1. p \in 1 .. n /\ p + 4 = n
    BY <1>1, <1>2
  <2> QED
    BY <2>1
<1>4. Quote \notin Introducer /\ "," \notin Introducer /\ "word" \notin Introducer
  BY Words
<1> DEFINE Same(i) == from[i] = Rest(t, i)
<1>5. ASSUME NEW i \in 1 .. n, t[i] \notin Introducer
      PROVE  Same(i) <=> Same(i + 1)
  <2>1. ~Found(t, end, i)
    BY <1>5 DEF Found
  <2> QED
    BY <1>1, <2>1, StripsWord
<1>6. Same(n + 1)
  <2>1. n + 1 \in 1 .. Len(t) + 1 /\ n + 1 > Len(t)
    BY <1>1
  <2>2. PICK q \in 1 .. Len(t) + 1 : q = n + 1 /\ q = Len(t) + 1 /\ q > Len(t)
    BY <1>1, <2>1
  <2>3. from[q] = <<>>
    BY <2>2 DEF Strips
  <2>4. Rest(t, q) = <<>>
    BY <2>2, RestFacts
  <2> QED
    BY <2>2, <2>3, <2>4
<1>7. /\ t[p] \notin Introducer /\ t[p + 1] \notin Introducer /\ t[p + 2] \notin Introducer
      /\ t[p + 3] \notin Introducer /\ t[p + 4] \notin Introducer
  BY <1>2, <1>4
<1> HIDE DEF Same
<1>8. /\ Same(p) <=> Same(p + 1)
      /\ Same(p + 1) <=> Same((p + 1) + 1)
      /\ Same(p + 2) <=> Same((p + 2) + 1)
      /\ Same(p + 3) <=> Same((p + 3) + 1)
      /\ Same(p + 4) <=> Same((p + 4) + 1)
  BY <1>3, <1>5, <1>7
<1>9. Same(p)
  BY <1>3, <1>6, <1>8
<1> QED
  BY <1>9 DEF Same

\* Of a literal that comes without one, no introducer is removed that no quote
\* follows.
LEMMA ValueStrips ==
  ASSUME NEW src \in Source, src # "ast", NEW t \in Seq(Token), NEW end,
         NEW from \in [1 .. Len(t) + 1 -> Seq(Token)], Ends(t, end), Strips(t, end, from)
  PROVE  \A u \in Seq(Token) : \A p \in 1 .. Len(t) + 1 :
           Rest(t, p) = Spelt(u, src, Ending) /\ Plain(u) => from[p] = Rest(t, p)
<1> DEFINE Same(p) == from[p] = Rest(t, p)
           P == {u \in Seq(Token) : \A p \in 1 .. Len(t) + 1 :
                   Rest(t, p) = Spelt(u, src, Ending) /\ Plain(u) => Same(p)}
<1>0. /\ Quote \in Token /\ Backslash \in Token /\ Quote # Backslash
      /\ Quote \notin Introducer /\ Backslash \notin Introducer
      /\ Ending \in Seq(Token)
  BY Words, EndingType
<1>n. PICK n \in Nat : n = Len(t)
  BY TextFacts
<1>s. \A i \in 1 .. n : ~Found(t, end, i) => (Same(i) <=> Same(i + 1))
  BY <1>n, StripsWord
<1>1. <<>> \in P
  <2>1. Spelt(<<>>, src, Ending) = Ending
    BY <1>0, SpeltFacts
  <2>2. <<>> \in Seq(Token)
    OBVIOUS
  <2>3. \A p \in 1 .. Len(t) + 1 : Rest(t, p) = Ending => Same(p)
    BY EndingStrips
  <2> QED
    BY <2>1, <2>2, <2>3
<1>2. ASSUME NEW x \in Token, NEW u \in Seq(Token), u \in P
      PROVE  Cons(x, u) \in P
  <2>1. Cons(x, u) \in Seq(Token)
    BY ConsFacts
  <2>2. ASSUME NEW p \in 1 .. Len(t) + 1, Rest(t, p) = Spelt(Cons(x, u), src, Ending),
               Plain(Cons(x, u))
        PROVE  Same(p)
    <3>1. /\ p \in 1 .. Len(t) /\ p + 1 \in 1 .. Len(t) + 1
          /\ IF x = Quote \/ (x = Backslash /\ src # "ast")
               THEN /\ p + 1 \in 1 .. Len(t) /\ p + 2 \in 1 .. Len(t) + 1
                    /\ t[p] = (IF x = Quote /\ src # "escaped" THEN Quote ELSE Backslash)
                    /\ t[p + 1] = x
                    /\ Rest(t, p + 2) = Spelt(u, src, Ending)
             ELSE t[p] = x /\ Rest(t, p + 1) = Spelt(u, src, Ending)
      BY <1>0, <2>2, SpeltStep
    <3>2. Plain(u) /\ (x \in Introducer => u # <<>> /\ u[1] # Quote)
      BY <2>2, PlainFacts
    <3>3. CASE x \in {Quote, Backslash}
      <4>1. /\ p \in 1 .. n /\ p + 1 \in 1 .. n /\ (p + 1) + 1 = p + 2
            /\ t[p] \notin Introducer /\ t[p + 1] \notin Introducer /\ x \notin Introducer
        BY <1>0, <1>n, <3>1, <3>3
      <4>2. ~Found(t, end, p) /\ ~Found(t, end, p + 1)
        BY <4>1 DEF Found
      <4>3. Same(p) <=> Same(p + 2)
        <5> HIDE DEF Same
        <5> QED
          BY <1>s, <4>1, <4>2
      <4>4. Same(p + 2)
        BY <1>2, <3>1, <3>2, <3>3
      <4> QED
        BY <4>3, <4>4
    <3>4. CASE x \notin {Quote, Backslash}
      <4>1. PICK q \in 1 .. Len(t) + 1 :
              q = p + 1 /\ t[p] = x /\ Rest(t, q) = Spelt(u, src, Ending)
        BY <3>1, <3>4
      <4>2. q \in 1 .. Len(t) /\ (t[q] = Quote <=> u = <<>> \/ (src # "escaped" /\ u[1] = Quote))
        <5>1. PICK R \in Seq(Token) : Ending = Cons(Quote, R)
          BY Words, EndingType, ConsFacts DEF Ending
        <5> QED
          BY <4>1, <5>1, SpeltHead
      <4>3. Same(q)
        BY <1>2, <3>2, <4>1
      <4>4. ~Found(t, end, p)
        BY <3>2, <4>1, <4>2 DEF Found
      <4>5. p \in 1 .. n
        BY <1>n, <3>1
      <4> QED
        BY <1>s, <4>1, <4>3, <4>4, <4>5
    <3> QED
      BY <3>3, <3>4
  <2> QED
    BY <2>1, <2>2
<1> HIDE DEF P
<1>3. \A u \in Seq(Token) : u \in P
  BY <1>1, <1>2, SeqInduct
<1> QED
  BY <1>3 DEF P

\* What translateCharacterSetIntroducers does to a literal without introducer.
LEMMA IntroducersLiteral ==
  ASSUME NEW src \in Source, src # "ast", NEW v \in Seq(Token), Plain(v)
  PROVE  LET t == Cons(Quote, Spelt(v, src, Ending))
         IN  TranslateCharacterSetIntroducers(t) = t
<1>0. Quote \in Token /\ Quote \notin Introducer /\ Ending \in Seq(Token)
  BY Words, EndingType
<1>1. PICK u \in Seq(Token) : u = Spelt(v, src, Ending)
  BY <1>0, SpeltFacts
<1>2. PICK t \in Seq(Token) : t = Cons(Quote, u)
  BY <1>0, ConsFacts
<1>3. PICK end, from : /\ Ends(t, end) /\ Strips(t, end, from)
                       /\ from \in [1 .. Len(t) + 1 -> Seq(Token)]
                       /\ TranslateCharacterSetIntroducers(t) = from[1]
  BY IntroducersScan
<1>4. 1 \in 1 .. Len(t) + 1 /\ Rest(t, 1) = t
  <2>1. Len(t) \in Nat
    BY TextFacts
  <2>2. 1 \in 1 .. Len(t) + 1
    BY <2>1
  <2> QED
    BY <2>2, RestFacts
<1>5. PICK two \in 1 .. Len(t) + 1 : two = 1 + 1 /\ 1 \in 1 .. Len(t) /\ t[1] = Quote /\ Rest(t, two) = u
  <2>1. 1 \in 1 .. Len(t) /\ t[1] = Quote /\ 1 + 1 \in 1 .. Len(t) + 1 /\ Rest(t, 1 + 1) = u
    BY <1>0, <1>2, <1>4, RestCons
  <2> QED
    BY <2>1
<1>6. ~Found(t, end, 1)
  BY <1>0, <1>5 DEF Found
<1>7. from[1] = Rest(t, 1) <=> from[1 + 1] = Rest(t, 1 + 1)
  BY <1>3, <1>5, <1>6, StripsWord, ZenonT(60)
<1>8. from[two] = Rest(t, two)
  BY <1>1, <1>3, <1>5, ValueStrips
<1>9. TranslateCharacterSetIntroducers(t) = t
  BY <1>3, <1>4, <1>5, <1>7, <1>8
<1> QED
  BY <1>1, <1>2, <1>9

\* The text of which Restored is left.
LEMMA RestoredStands ==
  ASSUME NEW t \in Seq(Token), NEW p \in 1 .. Len(t) + 1, Rest(t, p) = Restored
  PROVE  /\ p \in 1 .. Len(t) /\ p + 5 = Len(t)
         /\ t[p] = Quote /\ t[p + 1] = "," /\ t[p + 2] = "_charset" /\ t[p + 3] = Quote
         /\ t[p + 4] = "word" /\ t[p + 5] = Quote
         /\ Rest(t, p + 1) = Cons(",", Cons("_charset", Second)) /\ Rest(t, p + 3) = Second
<1>0. /\ Len(t) \in Nat /\ <<>> \in Seq(Token) /\ Quote \in Token /\ "," \in Token
      /\ "word" \in Token /\ "_charset" \in Token
  <2>1. <<>> \in Seq(Token)
    OBVIOUS
  <2> QED
    BY <2>1, TextFacts, Words
<1>1. PICK e \in Seq(Token) : e = <<>>
  BY <1>0
<1>2. PICK d \in Seq(Token) : d = Cons(Quote, e)
  BY <1>0, ConsFacts
<1>3. PICK c \in Seq(Token) : c = Cons("word", d)
  BY <1>0, ConsFacts
<1>4. PICK b \in Seq(Token) : b = Cons(Quote, c)
  BY <1>0, ConsFacts
<1>b. b = Second
  BY <1>1, <1>2, <1>3, <1>4 DEF Second
<1>i. PICK i \in Seq(Token) : i = Cons("_charset", b)
  BY <1>0, ConsFacts
<1>5. PICK a \in Seq(Token) : a = Cons(",", i)
  BY <1>0, ConsFacts
<1>6. Rest(t, p) = Cons(Quote, a)
  BY <1>b, <1>i, <1>5 DEF Restored
<1>7. ASSUME NEW q \in 1 .. Len(t) + 1, NEW x \in Token, NEW u \in Seq(Token), Rest(t, q) = Cons(x, u)
      PROVE  \E r \in 1 .. Len(t) + 1 : r = q + 1 /\ t[q] = x /\ Rest(t, r) = u
  BY <1>7, RestCons
<1>8. PICK p1 \in 1 .. Len(t) + 1 : p1 = p + 1 /\ t[p] = Quote /\ Rest(t, p1) = a
  BY <1>0, <1>6, <1>7
<1>9. PICK p2 \in 1 .. Len(t) + 1 : p2 = p1 + 1 /\ t[p1] = "," /\ Rest(t, p2) = i
  BY <1>0, <1>5, <1>7, <1>8, ZenonT(60)
<1>10. PICK p3 \in 1 .. Len(t) + 1 : p3 = p2 + 1 /\ t[p2] = "_charset" /\ Rest(t, p3) = b
  BY <1>0, <1>i, <1>7, <1>9, ZenonT(60)
<1>11. PICK p4 \in 1 .. Len(t) + 1 : p4 = p3 + 1 /\ t[p3] = Quote /\ Rest(t, p4) = c
  BY <1>0, <1>4, <1>7, <1>10
<1>12. PICK p5 \in 1 .. Len(t) + 1 : p5 = p4 + 1 /\ t[p4] = "word" /\ Rest(t, p5) = d
  BY <1>0, <1>3, <1>7, <1>11, ZenonT(60)
<1>13. PICK p6 \in 1 .. Len(t) + 1 : p6 = p5 + 1 /\ t[p5] = Quote /\ Rest(t, p6) = e
  BY <1>0, <1>2, <1>7, <1>12
<1>14. Len(Rest(t, p6)) = Len(t) + 1 - p6
  BY RestFacts
<1>15. Len(t) + 1 - p6 = 0
  BY <1>1, <1>13, <1>14
<1>16. /\ p1 = p + 1 /\ p2 = p + 2 /\ p3 = p + 3 /\ p4 = p + 4 /\ p5 = p + 5
       /\ p + 5 = Len(t) /\ p \in 1 .. Len(t)
  <2>1. PICK n \in Nat : n = Len(t)
    BY <1>0
  <2>2. /\ p \in 1 .. n + 1 /\ p1 = p + 1 /\ p2 = p1 + 1 /\ p3 = p2 + 1 /\ p4 = p3 + 1
        /\ p5 = p4 + 1 /\ p6 = p5 + 1
    BY <1>8, <1>9, <1>10, <1>11, <1>12, <1>13, <2>1
  <2>3. n + 1 - p6 = 0
    BY <1>15, <2>1
  <2>4. /\ p1 = p + 1 /\ p2 = p + 2 /\ p3 = p + 3 /\ p4 = p + 4 /\ p5 = p + 5
        /\ p + 5 = n /\ p \in 1 .. n
    BY <2>2, <2>3
  <2> QED
    BY <2>1, <2>4
<1>17. /\ t[p + 1] = "," /\ t[p + 2] = "_charset" /\ t[p + 3] = Quote
       /\ t[p + 4] = "word" /\ t[p + 5] = Quote
  BY <1>9, <1>10, <1>11, <1>12, <1>13, <1>16
<1>18. Rest(t, p + 1) = Cons(",", Cons("_charset", Second)) /\ Rest(t, p + 3) = Second
  BY <1>b, <1>i, <1>5, <1>8, <1>10, <1>16
<1> QED
  BY <1>8, <1>16, <1>17, <1>18

\* The scan finds the end of a literal as the AST restores it, if no backslash
\* goes before a quote or a line break: it skips doubled quotes, and what backslashes escape.
LEMMA ValueEnds ==
  ASSUME NEW t \in Seq(Token), NEW end, EndSteps(t, end)
  PROVE  \A u \in Seq(Token) : \A p \in 1 .. Len(t) + 1 :
           Rest(t, p) = Spelt(u, "ast", Restored) /\ Clear(u, "ast") =>
             end[p] \in 1 .. Len(t) /\ Rest(t, end[p]) = Restored
<1> DEFINE Meets(u) ==
      \A p \in 1 .. Len(t) + 1 :
        Rest(t, p) = Spelt(u, "ast", Restored) /\ Clear(u, "ast") =>
          end[p] \in 1 .. Len(t) /\ Rest(t, end[p]) = Restored
           P == {u \in Seq(Token) :
                   Meets(u) /\ \A y \in Token : \A w \in Seq(Token) : u = Cons(y, w) => Meets(w)}
<1>0. /\ Quote \in Token /\ Backslash \in Token /\ Quote # Backslash /\ Quote # ","
      /\ Restored \in Seq(Token)
  BY Words, EndingType
<1>a. PICK ast \in Source : ast = "ast"
  BY DEF Source
<1>n. PICK n \in Nat : n = Len(t)
  BY TextFacts
<1>1. <<>> \in P
  <2>1. Spelt(<<>>, ast, Restored) = Restored
    BY <1>0, SpeltFacts
  <2>2. ASSUME NEW p \in 1 .. Len(t) + 1, Rest(t, p) = Restored
        PROVE  end[p] \in 1 .. Len(t) /\ Rest(t, end[p]) = Restored
    <3>1. p \in 1 .. Len(t) /\ t[p] = Quote /\ t[p + 1] = ","
      BY <2>2, RestoredStands
    <3>2. end[p] = p
      BY <1>0, <3>1 DEF EndSteps
    <3> QED
      BY <2>2, <3>1, <3>2
  <2>3. Meets(<<>>)
    BY <1>a, <2>1, <2>2
  <2>4. \A y \in Token : \A w \in Seq(Token) : <<>> # Cons(y, w)
    BY ConsFacts
  <2>5. <<>> \in Seq(Token)
    OBVIOUS
  <2> HIDE DEF Meets
  <2> QED
    BY <2>3, <2>4, <2>5
<1>2. ASSUME NEW x \in Token, NEW u \in Seq(Token), u \in P
      PROVE  Cons(x, u) \in P
  <2>1. Cons(x, u) \in Seq(Token)
    BY ConsFacts
  <2>2. ASSUME NEW y \in Token, NEW w \in Seq(Token), Cons(x, u) = Cons(y, w)
        PROVE  Meets(w)
    <3>1. u = w
      BY <2>2, ConsEqual
    <3> QED
      BY <1>2, <3>1
  <2>3. ASSUME NEW p \in 1 .. Len(t) + 1,
               Rest(t, p) = Spelt(Cons(x, u), ast, Restored), Clear(Cons(x, u), ast)
        PROVE  end[p] \in 1 .. Len(t) /\ Rest(t, end[p]) = Restored
    <3>1. /\ p \in 1 .. Len(t) /\ p + 1 \in 1 .. Len(t) + 1
          /\ IF x = Quote \/ (x = Backslash /\ ast # "ast")
               THEN /\ p + 1 \in 1 .. Len(t) /\ p + 2 \in 1 .. Len(t) + 1
                    /\ t[p] = (IF x = Quote /\ ast # "escaped" THEN Quote ELSE Backslash)
                    /\ t[p + 1] = x
                    /\ Rest(t, p + 2) = Spelt(u, ast, Restored)
             ELSE t[p] = x /\ Rest(t, p + 1) = Spelt(u, ast, Restored)
      <4>1. PICK R \in Seq(Token) : R = Restored
        BY <1>0
      <4>2. Rest(t, p) = Spelt(Cons(x, u), ast, R)
        BY <2>3, <4>1
      <4> QED
        BY <4>1, <4>2, SpeltStep
    <3>2. /\ Clear(u, ast)
          /\ x = Backslash => u # <<>> /\ u[1] # Quote /\ u[1] # "newline"
      BY <2>3, ClearFacts
    <3>3. CASE x = Quote
      <4>1. /\ t[p] = Quote /\ t[p + 1] = Quote /\ p < Len(t)
            /\ p + 2 \in 1 .. Len(t) + 1 /\ Rest(t, p + 2) = Spelt(u, ast, Restored)
        BY <1>a, <1>n, <3>1, <3>3
      <4>2. end[p + 2] \in 1 .. Len(t) /\ Rest(t, end[p + 2]) = Restored
        BY <1>2, <1>a, <3>2, <4>1
      <4>3. end[p] = end[p + 2]
        BY <1>n, <3>1, <4>1, <4>2 DEF EndSteps
      <4> QED
        BY <4>2, <4>3
    <3>4. CASE x = Backslash
      <4>1. /\ u[1] \in Token /\ SubSeq(u, 2, Len(u)) \in Seq(Token)
            /\ u = Cons(u[1], SubSeq(u, 2, Len(u))) /\ u[1] # Quote /\ u[1] # "newline"
        BY <3>2, <3>4, SeqCases
      <4>2. PICK y \in Token, w \in Seq(Token) : u = Cons(y, w) /\ y # Quote /\ y # "newline"
        BY <4>1
      <4>3. PICK q \in 1 .. Len(t) + 1 : /\ q = p + 1 /\ t[p] = Backslash
                                         /\ Rest(t, q) = Spelt(Cons(y, w), ast, Restored)
        BY <1>0, <1>a, <3>1, <3>4, <4>2
      <4>4. q + 1 \in 1 .. Len(t) + 1 /\ Rest(t, q + 1) = Spelt(w, ast, Restored) /\ t[q] = y
        <5>1. PICK R \in Seq(Token) : R = Restored
          BY <1>0
        <5>2. Rest(t, q) = Spelt(Cons(y, w), ast, R)
          BY <4>3, <5>1
        <5>3. ~(y = Quote \/ (y = Backslash /\ ast # "ast"))
          BY <1>a, <4>2
        <5> QED
          BY <5>1, <5>2, <5>3, SpeltStep
      <4>5. Clear(w, ast)
        BY <3>2, <4>2, ClearFacts
      <4>6. Meets(w)
        BY <1>2, <4>2
      <4>7. end[q + 1] \in 1 .. Len(t) /\ Rest(t, end[q + 1]) = Restored
        BY <1>a, <4>4, <4>5, <4>6
      <4>8. q + 1 = p + 2 /\ end[p] = end[p + 2]
        BY <1>n, <3>1, <4>2, <4>3, <4>4 DEF EndSteps
      <4> QED
        BY <4>7, <4>8
    <3>5. CASE x \notin {Quote, Backslash}
      <4>1. t[p] \notin {Quote, Backslash} /\ Rest(t, p + 1) = Spelt(u, ast, Restored)
        BY <3>1, <3>5
      <4>2. end[p + 1] \in 1 .. Len(t) /\ Rest(t, end[p + 1]) = Restored
        BY <1>2, <1>a, <3>1, <3>2, <4>1
      <4>3. end[p] = end[p + 1]
        BY <3>1, <4>1 DEF EndSteps
      <4> QED
        BY <4>2, <4>3
    <3> QED
      BY <3>3, <3>4, <3>5
  <2>4. Meets(Cons(x, u))
    BY <1>a, <2>3
  <2> HIDE DEF Meets
  <2> QED
    BY <2>1, <2>2, <2>4
<1> HIDE DEF P
<1>3. \A u \in Seq(Token) : u \in P
  BY <1>1, <1>2, SeqInduct
<1> QED
  BY <1>3 DEF P

\* Texts with the same rest are the same before it.
LEMMA CatCancel ==
  ASSUME NEW W, NEW a \in Seq(W), NEW b \in Seq(W), NEW r \in Seq(W), Cat(a, r) = Cat(b, r)
  PROVE  a = b
<1>1. Len(a) \in Nat /\ Len(b) \in Nat /\ Len(r) \in Nat
  BY TextFacts
<1>2. Len(a \o r) = Len(a) + Len(r) /\ Len(b \o r) = Len(b) + Len(r)
  BY ConcatProperties
<1>3. Len(a) = Len(b)
  BY <1>1, <1>2 DEF Cat
<1>4. \A i \in 1 .. Len(a) : (a \o r)[i] = a[i]
  BY ConcatProperties
<1>5. \A i \in 1 .. Len(b) : (b \o r)[i] = b[i]
  BY ConcatProperties
<1>6. \A i \in 1 .. Len(a) : a[i] = b[i]
  BY <1>3, <1>4, <1>5 DEF Cat
<1> QED
  BY <1>3, <1>6, SeqEqual

\* The literal after an introducer is copied.
LEMMA StripsLiteral ==
  ASSUME NEW t \in Seq(Token), NEW end, NEW from \in [1 .. Len(t) + 1 -> Seq(Token)],
         Ends(t, end), Strips(t, end, from), NEW i \in 1 .. Len(t), Found(t, end, i)
  PROVE  /\ end[i + 2] \in i + 2 .. Len(t)
         /\ from[i] = SubSeq(t, i + 1, end[i + 2]) \o from[end[i + 2] + 1]
<1>1. Len(t) \in Nat
  BY TextFacts
<1>2. i + 2 \in 1 .. Len(t) + 2 /\ i \in 1 .. Len(t) + 1 /\ ~(i > Len(t))
  BY <1>1 DEF Found
<1>3. end[i + 2] = 0 \/ end[i + 2] \in i + 2 .. Len(t)
  BY <1>2 DEF Ends
<1>4. from[i] = IF i > Len(t) THEN <<>>
                ELSE IF Found(t, end, i)
                  THEN SubSeq(t, i + 1, end[i + 2]) \o from[end[i + 2] + 1]
                ELSE <<t[i]>> \o from[i + 1]
  BY <1>2 DEF Strips
<1> QED
  BY <1>2, <1>3, <1>4 DEF Found

\* The second literal of the statement loses its introducer.
LEMMA RestoredStrips ==
  ASSUME NEW t \in Seq(Token), NEW end, NEW from \in [1 .. Len(t) + 1 -> Seq(Token)],
         Ends(t, end), Strips(t, end, from),
         NEW p \in 1 .. Len(t) + 1, Rest(t, p) = Restored
  PROVE  from[p + 1] = Cons(",", Second)
<1>1. PICK n \in Nat : n = Len(t)
  BY TextFacts
<1>2. /\ p \in 1 .. Len(t) /\ p + 5 = Len(t)
      /\ t[p] = Quote /\ t[p + 1] = "," /\ t[p + 2] = "_charset" /\ t[p + 3] = Quote
      /\ t[p + 4] = "word" /\ t[p + 5] = Quote
      /\ Rest(t, p + 1) = Cons(",", Cons("_charset", Second)) /\ Rest(t, p + 3) = Second
  BY RestoredStands
<1>3. /\ p + 1 \in 1 .. n /\ p + 2 \in 1 .. n /\ p + 4 \in 1 .. n /\ p + 5 \in 1 .. n
      /\ (p + 1) + 1 = p + 2 /\ (p + 2) + 1 = p + 3 /\ (p + 2) + 2 = p + 4 /\ (p + 4) + 1 = p + 5
      /\ p + 5 = n /\ p + 2 < n /\ (p + 5) + 1 = n + 1 /\ p + 5 # 0
  <2>1. p \in 1 .. n /\ p + 5 = n
    BY <1>1, <1>2
  <2> QED
    BY <2>1
<1>4. \A i \in 1 .. n :
        /\ t[i] \notin {Quote, Backslash} => end[i] = end[i + 1]
        /\ t[i] = Quote /\ ~(i < n) => end[i] = i
  BY <1>1, EndsStepwise DEF EndSteps
<1>5. end[p + 4] = p + 5
  <2>1. "word" \notin {Quote, Backslash}
    BY Words
  <2>2. PICK c \in 1 .. n, d \in 1 .. n :
          c = p + 4 /\ d = p + 5 /\ d = c + 1 /\ ~(d < n) /\ t[c] = "word" /\ t[d] = Quote
    <3>1. ~(p + 5 < n)
      BY <1>3
    <3> QED
      BY <1>2, <1>3, <3>1
  <2>3. end[c] = end[c + 1]
    BY <1>4, <2>1, <2>2
  <2>4. end[d] = d
    BY <1>4, <2>2
  <2> QED
    BY <2>2, <2>3, <2>4
<1>6. ~Found(t, end, p + 1) /\ Found(t, end, p + 2)
  BY <1>1, <1>2, <1>3, <1>5, Words DEF Found
<1>7. from[p + 1] = Cons(",", from[p + 2])
  <2>1. from[p + 1] = Cons(t[p + 1], from[(p + 1) + 1])
    BY <1>1, <1>3, <1>6, StripsWord
  <2> QED
    BY <1>2, <1>3, <2>1
<1>8. from[p + 2] = SubSeq(t, p + 3, n) \o from[n + 1]
  <2>1. from[p + 2] = SubSeq(t, (p + 2) + 1, end[(p + 2) + 2]) \o from[end[(p + 2) + 2] + 1]
    BY <1>1, <1>3, <1>6, StripsLiteral, ZenonT(60)
  <2> QED
    BY <1>3, <1>5, <2>1
<1>9. from[n + 1] = <<>>
  <2>1. n + 1 \in 1 .. Len(t) + 1 /\ n + 1 > Len(t)
    BY <1>1
  <2> QED
    BY <2>1 DEF Strips
<1>10. SubSeq(t, p + 3, n) = Second
  BY <1>1, <1>2 DEF Rest
<1>11. Second \o <<>> = Second
  BY EndingType, ConcatEmptySeq
<1> QED
  BY <1>7, <1>8, <1>9, <1>10, <1>11

\* What translateCharacterSetIntroducers does to a statement that the AST restores.
LEMMA IntroducersRestored ==
  ASSUME NEW v \in Seq(Token), Clear(v, "ast")
  PROVE  TranslateCharacterSetIntroducers(Written(v, "ast")) = Target(v)
<1>0. /\ Quote \in Token /\ "_charset" \in Token /\ "_charset" \in Introducer /\ "," \in Token
      /\ Restored \in Seq(Token) /\ Second \in Seq(Token)
  BY Words, EndingType
<1>a. PICK ast \in Source : ast = "ast"
  BY DEF Source
<1>s. PICK s \in Seq(Token) : s = Spelled(v, ast)
  BY SpelledFacts
<1>1. PICK u \in Seq(Token) : u = Cat(s, Restored) /\ u = Spelt(v, ast, Restored)
  BY <1>0, <1>s, SpeltFacts DEF Spelt
<1>2. PICK q \in Seq(Token) : q = Cons(Quote, u)
  BY <1>0, ConsFacts
<1>3. PICK t \in Seq(Token) : t = Cons("_charset", q)
  BY <1>0, ConsFacts
<1>4. Written(v, "ast") = t
  BY <1>a, <1>1, <1>2, <1>3, WrittenIs
<1>n. PICK n \in Nat : n = Len(t)
  BY TextFacts
<1>5. PICK end, from : /\ Ends(t, end) /\ Strips(t, end, from)
                       /\ from \in [1 .. Len(t) + 1 -> Seq(Token)]
                       /\ TranslateCharacterSetIntroducers(t) = from[1]
  BY IntroducersScan
<1>6. 1 \in 1 .. n + 1 /\ Rest(t, 1) = t
  <2>1. 1 \in 1 .. n + 1
    OBVIOUS
  <2> QED
    BY <1>n, <2>1, RestFacts
<1>7. 1 \in 1 .. n /\ t[1] = "_charset" /\ 1 + 1 \in 1 .. n + 1 /\ Rest(t, 1 + 1) = q
  <2>1. PICK c \in Token : c = "_charset"
    BY <1>0
  <2>2. 1 \in 1 .. Len(t) + 1 /\ Rest(t, 1) = Cons(c, q)
    BY <1>n, <1>3, <1>6, <2>1
  <2>3. 1 \in 1 .. Len(t) /\ t[1] = c /\ 1 + 1 \in 1 .. Len(t) + 1 /\ Rest(t, 1 + 1) = q
    BY <2>2, RestCons
  <2> QED
    BY <1>n, <2>1, <2>3
<1>8. PICK two \in 1 .. n + 1 : two = 1 + 1 /\ Rest(t, two) = Cons(Quote, u) /\ Rest(t, two) = q
  BY <1>2, <1>7
<1>9. two \in 1 .. n /\ t[two] = Quote /\ two + 1 \in 1 .. n + 1 /\ Rest(t, two + 1) = u
  <2>1. PICK c \in Token : c = Quote
    BY <1>0
  <2>2. two \in 1 .. Len(t) + 1 /\ Rest(t, two) = Cons(c, u)
    BY <1>n, <1>8, <2>1
  <2>3. two \in 1 .. Len(t) /\ t[two] = c /\ two + 1 \in 1 .. Len(t) + 1 /\ Rest(t, two + 1) = u
    BY <2>2, RestCons
  <2> QED
    BY <1>n, <2>1, <2>3
<1>10. PICK e \in 1 .. n : e = end[1 + 2] /\ Rest(t, e) = Restored
  <2>1. end[two + 1] \in 1 .. n /\ Rest(t, end[two + 1]) = Restored
    BY <1>a, <1>n, <1>1, <1>5, <1>9, EndsStepwise, ValueEnds
  <2>2. two + 1 = 1 + 2
    BY <1>8
  <2> QED
    BY <2>1, <2>2
<1>11. Found(t, end, 1)
  <2>1. t[1] \in Introducer /\ t[1 + 1] = Quote
    BY <1>0, <1>7, <1>8, <1>9
  <2>2. 1 < Len(t) /\ end[1 + 2] # 0
    BY <1>n, <1>8, <1>9, <1>10
  <2> QED
    BY <2>1, <2>2 DEF Found
<1>12. e \in 1 + 2 .. n /\ from[1] = SubSeq(t, 1 + 1, e) \o from[e + 1]
  BY <1>n, <1>5, <1>7, <1>10, <1>11, StripsLiteral
<1>13. from[e + 1] = Cons(",", Second)
  <2>1. e \in 1 .. Len(t) + 1
    BY <1>n
  <2> QED
    BY <1>5, <1>10, <2>1, RestoredStrips
<1>14. PICK z \in Seq(Token) : z = SubSeq(t, two, e) /\ q = Cat(z, Rest(t, e + 1))
  <2>1. \A j \in two .. e : t[j] \in Token
    BY <1>n, TextFacts
  <2>2. two \in Int /\ e \in Int
    OBVIOUS
  <2>3. SubSeq(t, two, e) \in Seq(Token)
    BY <2>1, <2>2, SubSeqProperties
  <2>4. two \in 1 .. Len(t) + 1 /\ e \in two - 1 .. Len(t) /\ Len(t) \in e .. Len(t)
    BY <1>n, <1>8, <1>12
  <2>5. SubSeq(t, two, e) \o SubSeq(t, e + 1, Len(t)) = SubSeq(t, two, Len(t))
    BY <2>4, ConcatAdjacentSubSeq
  <2> QED
    BY <1>8, <2>3, <2>5 DEF Rest, Cat
<1>15. PICK r \in Seq(Token) : r = Rest(t, e + 1) /\ Restored = Cons(Quote, r)
  <2>1. e \in 1 .. Len(t) + 1 /\ e <= Len(t)
    BY <1>n
  <2>2. Rest(t, e) = Cons(t[e], Rest(t, e + 1)) /\ e + 1 \in 1 .. Len(t) + 1
    BY <2>1, RestFacts
  <2>3. t[e] = Quote
    BY <1>10, <2>1, RestoredStands
  <2>4. Rest(t, e + 1) \in Seq(Token)
    BY <2>2, RestFacts
  <2> QED
    BY <1>10, <2>2, <2>3, <2>4
<1>16. PICK o \in Seq(Token) : o = Cons(Quote, <<>>)
  <2>1. <<>> \in Seq(Token)
    OBVIOUS
  <2> QED
    BY <1>0, <2>1, ConsFacts
<1>17. \A y \in Seq(Token) : Cat(o, y) = Cons(Quote, y)
  <2>1. \A y \in Seq(Token) : <<>> \o y = y
    BY ConcatEmptySeq
  <2>2. <<>> \in Seq(Token)
    OBVIOUS
  <2>3. \A y \in Seq(Token) : Cat(Cons(Quote, <<>>), y) = Cons(Quote, Cat(<<>>, y))
    BY <1>0, <2>2, ConsCat, ZenonT(60)
  <2> QED
    BY <1>16, <2>1, <2>3 DEF Cat
<1>18. PICK so \in Seq(Token) : so = Cat(s, o)
  BY CatFacts
<1>19. \A y \in Seq(Token) : Cat(so, y) = Cat(s, Cons(Quote, y))
  BY <1>17, <1>18, CatFacts
<1>20. PICK qso \in Seq(Token) : qso = Cons(Quote, so)
  BY <1>0, ConsFacts
<1>21. \A y \in Seq(Token) : Cat(qso, y) = Cons(Quote, Cat(s, Cons(Quote, y)))
  <2>1. \A y \in Seq(Token) : Cat(Cons(Quote, so), y) = Cons(Quote, Cat(so, y))
    BY <1>0, ConsCat, ZenonT(60)
  <2> QED
    BY <1>19, <1>20, <2>1
<1>22. z = qso
  <2>1. Cat(z, r) = Cat(qso, r)
    BY <1>1, <1>2, <1>14, <1>15, <1>21
  <2> QED
    BY <2>1, CatCancel
<1>23. PICK f \in Seq(Token) : f = Cons(",", Second)
  BY <1>0, ConsFacts
<1>24. from[1] = Cat(qso, f)
  BY <1>8, <1>12, <1>13, <1>14, <1>22, <1>23 DEF Cat
<1>25. from[1] = Cons(Quote, Cat(s, Cons(Quote, f)))
  BY <1>21, <1>24
<1> QED
  BY <1>a, <1>s, <1>4, <1>5, <1>23, <1>25 DEF Target, Spelt, Ending
-----------------------------------------------------------------------------
(***************************************************************************)
(* What SQLite reads                                                       *)
(***************************************************************************)
\* What reading from an index on may give, and that with one word more.
Reading(W) == [ended : BOOLEAN, value : Seq(W), rest : Seq(W)]

Longer(x, more) == [ended |-> more.ended, value |-> Cons(x, more.value), rest |-> more.rest]

ReadSteps(t, from) ==
    /\ ~from[Len(t) + 1].ended
    /\ \A i \in 2 .. Len(t) :
         IF t[i] # Quote THEN from[i] = Longer(t[i], from[i + 1])
         ELSE IF i < Len(t) /\ t[i + 1] = Quote THEN from[i] = Longer(Quote, from[i + 2])
         ELSE from[i] = [ended |-> TRUE, value |-> <<>>, rest |-> Rest(t, i + 1)]

\* A word more is put before what was read of the rest.
LEMMA LongerFacts ==
  ASSUME NEW W
  PROVE  \A x \in W : \A more \in Reading(W) :
           /\ Longer(x, more) \in Reading(W)
           /\ [more EXCEPT !.value = <<x>> \o @] = Longer(x, more)
<1> SUFFICES ASSUME NEW x \in W, NEW more \in Reading(W)
             PROVE  /\ Longer(x, more) \in Reading(W)
                    /\ [more EXCEPT !.value = <<x>> \o @] = Longer(x, more)
  OBVIOUS
<1>1. PICK e \in BOOLEAN, v \in Seq(W), r \in Seq(W) : more = [ended |-> e, value |-> v, rest |-> r]
  BY DEF Reading
<1>2. PICK w \in Seq(W) : w = Cons(x, v)
  BY ConsFacts
<1>3. Longer(x, more) = [ended |-> e, value |-> w, rest |-> r]
  BY <1>1, <1>2 DEF Longer
<1>4. [more EXCEPT !.value = w] = [ended |-> e, value |-> w, rest |-> r]
  BY <1>1
<1>5. [more EXCEPT !.value = <<x>> \o @] = [more EXCEPT !.value = w]
  <2>1. more.value = v
    BY <1>1
  <2>2. <<x>> \o more.value = w
    BY <1>2, <2>1 DEF Cons
  <2> QED
    BY <2>2, Zenon
<1> QED
  BY <1>3, <1>4, <1>5 DEF Reading

\* The scan of a text that begins with a quote.
LEMMA ReadsScan ==
  ASSUME NEW W, Quote \in W, NEW t \in Seq(W), t # <<>>, t[1] = Quote
  PROVE  \E from : /\ from \in [2 .. Len(t) + 2 -> Reading(W)]
                   /\ ReadSteps(t, from)
                   /\ Reads(t) = from[2]
<1> DEFINE n == Len(t)
           m == n + 2
           R == Reading(W)
           Body(f, i) ==
             IF i > Len(t) THEN [ended |-> FALSE, value |-> <<>>, rest |-> <<>>]
             ELSE IF t[i] # Quote
               THEN LET more == f[i + 1] IN [more EXCEPT !.value = <<t[i]>> \o @]
             ELSE IF i < Len(t) /\ t[i + 1] = Quote
               THEN LET more == f[i + 2] IN [more EXCEPT !.value = <<Quote>> \o @]
             ELSE [ended |-> TRUE, value |-> <<>>, rest |-> SubSeq(t, i + 1, Len(t))]
           from == CHOOSE f : f = [i \in 2 .. Len(t) + 2 |-> Body(f, i)]
           G == [i \in 1 .. m |-> [f \in [1 .. m -> R] |-> Body(f, i)]]
           Step(f, i) ==
             IF i > n THEN [ended |-> FALSE, value |-> <<>>, rest |-> <<>>]
             ELSE IF t[i] # Quote THEN Longer(t[i], f[i + 1])
             ELSE IF i < n /\ t[i + 1] = Quote THEN Longer(Quote, f[i + 2])
             ELSE [ended |-> TRUE, value |-> <<>>, rest |-> Rest(t, i + 1)]
<1>1. Reads(t) = from[2]
  BY DEF Reads
<1>2. n \in Nat /\ n >= 1 /\ m \in Nat /\ m = n + 2 /\ \A i \in 1 .. n : t[i] \in W
  <2>1. Len(t) \in Nat /\ \A i \in 1 .. Len(t) : t[i] \in W
    BY TextFacts
  <2>2. Len(t) # 0
    BY EmptySeq
  <2> QED
    BY <2>1, <2>2
<1>3. \A x \in W : \A more \in R :
        Longer(x, more) \in R /\ [more EXCEPT !.value = <<x>> \o @] = Longer(x, more)
  BY LongerFacts
<1>4. from = CHOOSE f : f = [i \in 2 .. m |-> Body(f, i)]
  OBVIOUS
<1> HIDE DEF from
<1>5. ASSUME NEW i \in 1 .. m, NEW f,
             i <= n => f[i + 1] \in R /\ f[i + 2] \in R
      PROVE  Body(f, i) = Step(f, i) /\ Step(f, i) \in R
  <2>1. CASE i > n
    <3>1. <<>> \in Seq(W)
      OBVIOUS
    <3> QED
      BY <2>1, <3>1 DEF Reading
  <2>2. CASE ~(i > n)
    <3>1. i \in 1 .. n /\ f[i + 1] \in R /\ f[i + 2] \in R
      BY <1>2, <1>5, <2>2
    <3>2. CASE t[i] # Quote
      BY <1>2, <1>3, <2>2, <3>1, <3>2
    <3>3. CASE t[i] = Quote /\ i < n /\ t[i + 1] = Quote
      BY <1>2, <1>3, <2>2, <3>1, <3>3
    <3>4. CASE t[i] = Quote /\ ~(i < n /\ t[i + 1] = Quote)
      <4>1. i + 1 \in 1 .. Len(t) + 1
        BY <1>2, <3>1
      <4>2. <<>> \in Seq(W) /\ Rest(t, i + 1) \in Seq(W)
        BY <4>1, RestFacts
      <4>3. Step(f, i) = [ended |-> TRUE, value |-> <<>>, rest |-> Rest(t, i + 1)]
        BY <2>2, <3>4
      <4>4. Body(f, i) = [ended |-> TRUE, value |-> <<>>, rest |-> SubSeq(t, i + 1, Len(t))]
        BY <2>2, <3>4
      <4> QED
        BY <4>2, <4>3, <4>4 DEF Rest, Reading
    <3> QED
      BY <3>2, <3>3, <3>4
  <2> QED
    BY <2>1, <2>2
<1>6. ASSUME NEW i \in 1 .. m, NEW f, NEW g, i <= n => f[i + 1] = g[i + 1] /\ f[i + 2] = g[i + 2]
      PROVE  Body(f, i) = Body(g, i)
  <2>1. CASE i > n
    BY <2>1
  <2>2. CASE i <= n
    BY <1>6, <2>2
  <2> QED
    BY <1>2, <2>1, <2>2
<1>7. \A i \in 1 .. m : i <= n => i + 1 \in 2 .. m /\ i + 2 \in 2 .. m /\ i + 1 > i /\ i + 2 > i
  BY <1>2
<1>8. \A i \in 2 .. m : i \in 1 .. m
  OBVIOUS
<1> HIDE DEF n, m, Body
<1>9. PICK h : h \in [1 .. m -> R] /\ \A i \in 1 .. m : h[i] = Body(h, i)
  <2>1. R # {}
    <3>1. [ended |-> FALSE, value |-> <<>>, rest |-> <<>>] \in Reading(W)
      BY EmptySeq DEF Reading
    <3> QED
      BY <3>1
  <2> HIDE DEF R
  <2>2. \A i \in 1 .. m : \A f \in [1 .. m -> R] : G[i][f] = Body(f, i)
    OBVIOUS
  <2>3. \A i \in 1 .. m : \A f \in [1 .. m -> R] : Body(f, i) \in R
    <3> SUFFICES ASSUME NEW i \in 1 .. m, NEW f \in [1 .. m -> R]
                 PROVE  Body(f, i) \in R
      OBVIOUS
    <3>1. i <= n => f[i + 1] \in R /\ f[i + 2] \in R
      BY <1>7, <1>8
    <3> QED
      BY <1>5, <3>1
  <2>4. G \in [1 .. m -> [[1 .. m -> R] -> R]]
    BY <2>3
  <2> HIDE DEF G
  <2>5. ASSUME NEW i \in 1 .. m, NEW f \in [1 .. m -> R], NEW g \in [1 .. m -> R],
               \A j \in 1 .. m : j > i => f[j] = g[j]
        PROVE  G[i][f] = G[i][g]
    <3>1. i <= n => f[i + 1] = g[i + 1] /\ f[i + 2] = g[i + 2]
      BY <1>7, <1>8, <2>5
    <3>2. Body(f, i) = Body(g, i)
      BY <1>6, <3>1
    <3> QED
      BY <2>2, <3>2
  <2>6. LooksDown(G, m, R)
    BY <2>4, <2>5 DEF LooksDown
  <2>7. Defines(G, m, R)
    BY <1>2, <2>1, <2>6, RecursionDown
  <2> QED
    BY <2>2, <2>7 DEF Defines
<1>10. from = [i \in 2 .. m |-> Body(from, i)]
  <2> DEFINE g == [i \in 2 .. m |-> h[i]]
  <2>1. \A i \in 2 .. m : g[i] = Body(g, i)
    <3> SUFFICES ASSUME NEW i \in 2 .. m
                 PROVE  g[i] = Body(g, i)
      OBVIOUS
    <3>1. i <= n => h[i + 1] = g[i + 1] /\ h[i + 2] = g[i + 2]
      BY <1>7, <1>8
    <3>2. g[i] = h[i] /\ i \in 1 .. m
      BY <1>8
    <3> HIDE DEF g
    <3>3. Body(h, i) = Body(g, i)
      BY <1>6, <3>1, <3>2
    <3> QED
      BY <1>9, <3>2, <3>3
  <2>2. g = [i \in 2 .. m |-> Body(g, i)]
    BY <2>1
  <2> HIDE DEF g
  <2> QED
    BY <1>4, <2>2
<1> DEFINE S == {i \in 1 .. m : i \in 2 .. m => from[i] \in R}
<1>11. ASSUME NEW i \in 1 .. m, \A j \in 1 .. m : j > i => j \in S
       PROVE  i \in S
  <2>1. i <= n => from[i + 1] \in R /\ from[i + 2] \in R
    BY <1>7, <1>8, <1>11
  <2>2. Body(from, i) \in R
    BY <1>5, <2>1
  <2>3. i \in 2 .. m => from[i] = Body(from, i)
    BY <1>10
  <2> QED
    BY <2>2, <2>3
<1>12. \A i \in 1 .. m : i \in S
  <2> HIDE DEF S
  <2> QED
    BY <1>2, <1>11, InductDown
<1>13. \A i \in 2 .. m : from[i] \in R
  BY <1>8, <1>12
<1>14. from \in [2 .. m -> R]
  <2>1. from \in [2 .. m -> {from[i] : i \in 2 .. m}]
    BY <1>10
  <2> QED
    BY <1>10, <1>13
<1>15. \A i \in 2 .. m : from[i] = Step(from, i)
  <2> SUFFICES ASSUME NEW i \in 2 .. m
               PROVE  from[i] = Step(from, i)
    OBVIOUS
  <2>1. i <= n => from[i + 1] \in R /\ from[i + 2] \in R
    BY <1>7, <1>8, <1>13
  <2>2. Body(from, i) = Step(from, i)
    BY <1>5, <1>8, <2>1
  <2> QED
    BY <1>10, <2>2
<1>16. ReadSteps(t, from)
  <2>1. n + 1 \in 2 .. m /\ n + 1 > n /\ \A i \in 2 .. n : i \in 2 .. m /\ ~(i > n)
    BY <1>2
  <2>2. ~from[n + 1].ended
    <3>1. from[n + 1] = Step(from, n + 1)
      BY <1>15, <2>1
    <3>2. Step(from, n + 1) = [ended |-> FALSE, value |-> <<>>, rest |-> <<>>]
      BY <2>1
    <3> HIDE DEF Step
    <3>3. from[n + 1] = [ended |-> FALSE, value |-> <<>>, rest |-> <<>>]
      BY <3>1, <3>2
    <3> QED
      BY <3>3
  <2>3. \A i \in 2 .. n :
          IF t[i] # Quote THEN from[i] = Longer(t[i], from[i + 1])
          ELSE IF i < n /\ t[i + 1] = Quote THEN from[i] = Longer(Quote, from[i + 2])
          ELSE from[i] = [ended |-> TRUE, value |-> <<>>, rest |-> Rest(t, i + 1)]
    BY <1>15, <2>1
  <2> QED
    BY <2>2, <2>3 DEF ReadSteps, n
<1> QED
  BY <1>1, <1>14, <1>16 DEF m, n

\* What is read when a value arrives.
Read(v) == [ended |-> TRUE, value |-> v, rest |-> Cons(",", Second)]

\* Where a value stands with its quotes doubled, it is read.
LEMMA ValueRead ==
  ASSUME NEW t \in Seq(Token), NEW from, ReadSteps(t, from)
  PROVE  \A u \in Seq(Token) : \A p \in 2 .. Len(t) + 1 :
           Rest(t, p) = Spelt(u, "ast", Ending) => from[p] = Read(u)
<1> DEFINE P == {u \in Seq(Token) : \A p \in 2 .. Len(t) + 1 :
                   Rest(t, p) = Spelt(u, "ast", Ending) => from[p] = Read(u)}
<1>0. Quote \in Token /\ Quote # Backslash /\ Quote # "," /\ Ending \in Seq(Token)
  BY Words, EndingType
<1>a. PICK ast \in Source : ast = "ast"
  BY DEF Source
<1>n. PICK n \in Nat : n = Len(t)
  BY TextFacts
<1>s. \A i \in 2 .. n :
        IF t[i] # Quote THEN from[i] = Longer(t[i], from[i + 1])
        ELSE IF i < n /\ t[i + 1] = Quote THEN from[i] = Longer(Quote, from[i + 2])
        ELSE from[i] = [ended |-> TRUE, value |-> <<>>, rest |-> Rest(t, i + 1)]
  BY <1>n DEF ReadSteps
<1>l. \A x, u : Longer(x, Read(u)) = Read(Cons(x, u))
  BY DEF Longer, Read
<1>1. <<>> \in P
  <2>1. Spelt(<<>>, ast, Ending) = Ending
    BY <1>0, SpeltFacts
  <2>2. ASSUME NEW p \in 2 .. Len(t) + 1, Rest(t, p) = Ending
        PROVE  from[p] = Read(<<>>)
    <3>1. p \in 1 .. Len(t) + 1
      BY <1>n
    <3>2. p \in 1 .. Len(t) /\ t[p] = Quote /\ t[p + 1] = ","
      BY <2>2, <3>1, EndingStands
    <3>3. PICK r \in Seq(Token) : r = Cons(",", Second)
      BY Words, EndingType, ConsFacts
    <3>4. Rest(t, p) = Cons(Quote, r)
      BY <2>2, <3>3 DEF Ending
    <3>5. Rest(t, p + 1) = r
      <4>1. PICK q \in Token : q = Quote
        BY <1>0
      <4>2. Rest(t, p) = Cons(q, r)
        BY <3>4, <4>1
      <4> QED
        BY <3>1, <4>2, RestCons
    <3>6. p \in 2 .. n
      <4>1. p \in 1 .. n /\ p \in 2 .. n + 1
        BY <1>n, <3>2
      <4> QED
        BY <4>1
    <3>7. from[p] = [ended |-> TRUE, value |-> <<>>, rest |-> Rest(t, p + 1)]
      BY <1>0, <1>s, <3>2, <3>6
    <3> QED
      BY <3>3, <3>5, <3>7 DEF Read
  <2>3. <<>> \in Seq(Token)
    OBVIOUS
  <2> QED
    BY <1>a, <2>1, <2>2, <2>3
<1>2. ASSUME NEW x \in Token, NEW u \in Seq(Token), u \in P
      PROVE  Cons(x, u) \in P
  <2>1. Cons(x, u) \in Seq(Token)
    BY ConsFacts
  <2>2. ASSUME NEW p \in 2 .. Len(t) + 1, Rest(t, p) = Spelt(Cons(x, u), ast, Ending)
        PROVE  from[p] = Read(Cons(x, u))
    <3>1. /\ p \in 1 .. Len(t) /\ p + 1 \in 1 .. Len(t) + 1
          /\ IF x = Quote \/ (x = Backslash /\ ast # "ast")
               THEN /\ p + 1 \in 1 .. Len(t) /\ p + 2 \in 1 .. Len(t) + 1
                    /\ t[p] = (IF x = Quote /\ ast # "escaped" THEN Quote ELSE Backslash)
                    /\ t[p + 1] = x
                    /\ Rest(t, p + 2) = Spelt(u, ast, Ending)
             ELSE t[p] = x /\ Rest(t, p + 1) = Spelt(u, ast, Ending)
      <4>1. p \in 1 .. Len(t) + 1
        BY <1>n
      <4>2. PICK E \in Seq(Token) : E = Ending
        BY <1>0
      <4>3. Rest(t, p) = Spelt(Cons(x, u), ast, E)
        BY <2>2, <4>2
      <4> QED
        BY <4>1, <4>2, <4>3, SpeltStep
    <3>2. p \in 2 .. n
      BY <1>n, <3>1
    <3>3. CASE x = Quote
      <4>1. /\ t[p] = Quote /\ t[p + 1] = Quote /\ p < n
            /\ p + 2 \in 2 .. Len(t) + 1 /\ Rest(t, p + 2) = Spelt(u, ast, Ending)
        BY <1>a, <1>n, <3>1, <3>3
      <4>2. from[p + 2] = Read(u)
        BY <1>2, <1>a, <4>1
      <4>3. from[p] = Longer(Quote, from[p + 2])
        BY <1>s, <3>2, <4>1
      <4> QED
        BY <1>l, <3>3, <4>2, <4>3
    <3>4. CASE x # Quote
      <4>1. t[p] = x /\ p + 1 \in 2 .. Len(t) + 1 /\ Rest(t, p + 1) = Spelt(u, ast, Ending)
        BY <1>a, <1>n, <3>1, <3>2, <3>4
      <4>2. from[p + 1] = Read(u)
        BY <1>2, <1>a, <4>1
      <4>3. from[p] = Longer(x, from[p + 1])
        BY <1>s, <3>2, <3>4, <4>1
      <4> QED
        BY <1>l, <4>2, <4>3
    <3> QED
      BY <3>3, <3>4
  <2> QED
    BY <1>a, <2>1, <2>2
<1> HIDE DEF P
<1>3. \A u \in Seq(Token) : u \in P
  BY <1>1, <1>2, SeqInduct
<1> QED
  BY <1>3 DEF P

\* Of a value with its quotes doubled and the rest of the statement, SQLite reads
\* that value and that rest.
LEMMA ReadsTarget ==
  ASSUME NEW v \in Seq(Token)
  PROVE  Reads(Target(v)) = [ended |-> TRUE, value |-> v, rest |-> <<",", Quote, "word", Quote>>]
<1>0. /\ Quote \in Token /\ "," \in Token /\ "word" \in Token /\ Second \in Seq(Token)
      /\ Ending \in Seq(Token)
  BY Words, EndingType
<1>a. PICK ast \in Source : ast = "ast"
  BY DEF Source
<1>1. Cons(",", Second) = <<",", Quote, "word", Quote>>
  <2>1. \A a, b, c, d \in Token : <<a, b, c, d>> = Cons(a, Cons(b, Cons(c, Cons(d, <<>>))))
    BY FourWords
  <2>2. <<",", Quote, "word", Quote>> = Cons(",", Cons(Quote, Cons("word", Cons(Quote, <<>>))))
    BY <1>0, <2>1, ZenonT(60)
  <2> QED
    BY <2>2 DEF Second
<1>2. PICK u \in Seq(Token) : u = Spelt(v, ast, Ending) /\ Target(v) = Cons(Quote, u)
  BY <1>0, <1>a, SpeltFacts DEF Target
<1>3. PICK q \in Token : q = Quote
  BY <1>0
<1>4. PICK t \in Seq(Token) : t = Cons(q, u) /\ t # <<>> /\ t[1] = q
  BY ConsFacts
<1>5. PICK from : /\ from \in [2 .. Len(t) + 2 -> Reading(Token)]
                  /\ ReadSteps(t, from)
                  /\ Reads(t) = from[2]
  BY <1>0, <1>3, <1>4, ReadsScan
<1>6. 2 \in 2 .. Len(t) + 1 /\ Rest(t, 2) = u
  <2>1. PICK n \in Nat : n = Len(t) /\ n >= 1
    <3>1. Len(t) \in Nat
      BY TextFacts
    <3>2. Len(t) # 0
      BY <1>4, EmptySeq
    <3> QED
      BY <3>1, <3>2
  <2>2. 1 \in 1 .. Len(t) + 1
    BY <2>1
  <2>3. Rest(t, 1) = Cons(q, u)
    BY <1>4, <2>2, RestFacts
  <2>4. Rest(t, 1 + 1) = u
    BY <2>2, <2>3, RestCons
  <2> QED
    BY <2>1, <2>4
<1>7. from[2] = Read(v)
  <2>1. \A p \in 2 .. Len(t) + 1 : Rest(t, p) = Spelt(v, "ast", Ending) => from[p] = Read(v)
    BY <1>5, ValueRead
  <2> QED
    BY <1>a, <1>2, <1>6, <2>1
<1> QED
  BY <1>1, <1>2, <1>3, <1>4, <1>5, <1>7 DEF Read
-----------------------------------------------------------------------------
(***************************************************************************)
(* What the two scans make of a statement                                  *)
(***************************************************************************)
\* Of a value no backslash of which could escape something, and no word of which
\* introduce something, they make the value with its quotes doubled.
LEMMA Arrives ==
  ASSUME NEW src \in Source, NEW v \in Seq(Token), Clear(v, src), src # "ast" => Plain(v)
  PROVE  TranslateStringEscapes(TranslateCharacterSetIntroducers(Written(v, src))) = Target(v)
<1>a. PICK ast \in Source : ast = "ast"
  BY DEF Source
<1>1. Target(v) = Cons(Quote, Spelt(v, ast, Ending))
  BY <1>a DEF Target
<1>2. CASE src = "ast"
  <2>1. TranslateCharacterSetIntroducers(Written(v, src)) = Target(v)
    BY <1>2, IntroducersRestored
  <2>2. TranslateStringEscapes(Cons(Quote, Spelt(v, ast, Ending))) = Target(v)
    BY <1>a, <1>2, EscapesLiteral
  <2> QED
    BY <1>1, <2>1, <2>2
<1>3. CASE src # "ast"
  <2>1. Written(v, src) = Cons(Quote, Spelt(v, src, Ending))
    BY <1>3, WrittenIs
  <2>2. TranslateCharacterSetIntroducers(Written(v, src)) = Written(v, src)
    BY <1>3, <2>1, IntroducersLiteral
  <2>3. TranslateStringEscapes(Cons(Quote, Spelt(v, src, Ending))) = Target(v)
    BY EscapesLiteral
  <2> QED
    BY <2>1, <2>2, <2>3
<1> QED
  BY <1>2, <1>3
-----------------------------------------------------------------------------
(***************************************************************************)
(* Words that are taken for SQL wherever they stand                        *)
(***************************************************************************)
\* What looks for words leaves a text that has none of them.
LEMMA RewritesNothing ==
  ASSUME NEW A, A \cap Sql = {}, NEW t \in Seq(A)
  PROVE  /\ A \cap Blank \subseteq {" "} => NormalizeWhitespace(t) = t
         /\ \A type \in Type : ReplaceType(t, type) = t
         /\ TranslateBoolean(t) = t
         /\ RemoveOption(t) = t
         /\ RemoveOnDuplicateKeyUpdate(t) = t
         /\ TranslateFunctions(t) = t
<1>1. /\ Len(t) \in Nat /\ DOMAIN t = 1 .. Len(t) /\ \A i \in DOMAIN t : t[i] \in A
      /\ t = [i \in DOMAIN t |-> t[i]]
  BY TextFacts
<1>0. \A i \in DOMAIN t : /\ t[i] \notin DOMAIN TypeMap /\ t[i] \notin DOMAIN Folded
                          /\ t[i] \notin DOMAIN Boolean
                          /\ t[i] # "NOW()" /\ t[i] # Option /\ t[i] # Upsert
  BY <1>1 DEF Sql
<1>2. ASSUME A \cap Blank \subseteq {" "} PROVE NormalizeWhitespace(t) = t
  <2>1. \A i \in DOMAIN t : (IF t[i] \in Blank THEN " " ELSE t[i]) = t[i]
    BY <1>1, <1>2
  <2>2. NormalizeWhitespace(t) = [i \in DOMAIN t |-> t[i]]
    BY <2>1 DEF NormalizeWhitespace
  <2> QED
    BY <1>1, <2>2
<1>3. ASSUME NEW type \in Type PROVE ReplaceType(t, type) = t
  <2>1. \A i \in DOMAIN t : (IF Upper(t[i]) = type THEN TypeMap[type] ELSE t[i]) = t[i]
    BY <1>0, TypeAssumption DEF Upper
  <2>2. ReplaceType(t, type) = [i \in DOMAIN t |-> t[i]]
    BY <2>1 DEF ReplaceType
  <2> QED
    BY <1>1, <2>2
<1>4. TranslateBoolean(t) = t
  <2>1. TranslateBoolean(t) = [i \in DOMAIN t |-> t[i]]
    BY <1>0 DEF TranslateBoolean
  <2> QED
    BY <1>1, <2>1
<1> DEFINE g == [x \in A |-> <<x>>]
<1>5. Spread(g, t) = t
  <2>1. Spreads(g, A, A)
    <3>1. \A x \in A : <<x>> \in Seq(A)
      OBVIOUS
    <3> QED
      BY <3>1 DEF Spreads
  <2>2. \A x \in A : g[x] = <<x>>
    OBVIOUS
  <2> HIDE DEF g
  <2> QED
    BY <2>1, <2>2, SpreadSingles
<1>6. RemoveOption(t) = t
  <2> DEFINE removed(i) == \/ t[i] = Option /\ i > 1 /\ t[i - 1] \in Blank
                           \/ t[i] \in Blank /\ i < Len(t) /\ t[i + 1] = Option
  <2>1. ASSUME NEW i \in DOMAIN t PROVE ~removed(i)
    <3>1. t[i] # Option
      BY <1>0
    <3>2. i < Len(t) => t[i + 1] # Option
      <4>1. i < Len(t) => i + 1 \in DOMAIN t
        BY <1>1
      <4> QED
        BY <1>0, <4>1
    <3> QED
      BY <3>1, <3>2
  <2>2. RemoveOption(t) = FlattenSeq([i \in DOMAIN t |-> IF removed(i) THEN <<>> ELSE <<t[i]>>])
    BY DEF RemoveOption
  <2> HIDE DEF removed
  <2>3. [i \in DOMAIN t |-> IF removed(i) THEN <<>> ELSE <<t[i]>>] = [i \in DOMAIN t |-> g[t[i]]]
    BY <1>1, <2>1
  <2> QED
    BY <1>5, <2>2, <2>3 DEF Spread
<1>7. RemoveOnDuplicateKeyUpdate(t) = t
  <2> DEFINE clauses == {i \in 2 .. Len(t) - 1 :
                           /\ t[i] = Upsert
                           /\ t[i - 1] \in Blank /\ t[i + 1] \in Blank
                           /\ \A j \in i + 2 .. Len(t) : t[j] # "newline"}
  <2>1. clauses = {}
    <3>1. \A i \in 2 .. Len(t) - 1 : i \in DOMAIN t
      BY <1>1
    <3> QED
      BY <1>0, <3>1
  <2>2. RemoveOnDuplicateKeyUpdate(t) = IF clauses = {} THEN t ELSE SubSeq(t, 1, Min(clauses) - 2)
    BY DEF RemoveOnDuplicateKeyUpdate
  <2> HIDE DEF clauses
  <2> QED
    BY <2>1, <2>2
<1>8. TranslateFunctions(t) = t
  <2> DEFINE call == <<"datetime(", Quote, "word", Quote, ")">>
  <2>1. [i \in DOMAIN t |-> IF t[i] = "NOW()" THEN call ELSE <<t[i]>>] = [i \in DOMAIN t |-> g[t[i]]]
    <3> HIDE DEF call
    <3> QED
      BY <1>0, <1>1
  <2> QED
    BY <1>5, <2>1 DEF TranslateFunctions, Spread
<1> QED
  BY <1>2, <1>3, <1>4, <1>6, <1>7, <1>8

\* The text while no word of the value has been rewritten.
Untouched ==
    LET written == Written(value, source)
        stripped == TranslateCharacterSetIntroducers(written)
    IN  CASE stage = "escapes" -> stripped
          [] stage = "done" -> TranslateStringEscapes(stripped)
          [] OTHER -> written

\* The inductive invariant.
LInv == IInv /\ (Ordinary(value) => text = Untouched)

\* The words that an ordinary string may have.
Clean == {x \in Token \ Sql : x \in Blank \ {" "} => source = "ast"}

\* A text of some words is a text of more words.
LEMMA SeqSubset ==
  ASSUME NEW T, NEW S \in SUBSET T, NEW t \in Seq(S)
  PROVE  t \in Seq(T)
<1>1. PICK n \in Nat : n = Len(t)
  BY TextFacts
<1>2. DOMAIN t = 1 .. n /\ \A i \in 1 .. n : t[i] \in S
  BY <1>1, TextFacts
<1>3. t = [i \in DOMAIN t |-> t[i]]
  BY TextFacts
<1>4. t \in [1 .. n -> T]
  BY <1>2, <1>3
<1> QED
  BY <1>4, FunctionIsSeq

\* Texts of one word and of two.
LEMMA OneOrTwo == \A S : \A x, y \in S : <<x>> \in Seq(S) /\ <<x, y>> \in Seq(S)
  OBVIOUS

\* A statement has the words of its value and a few more.
LEMMA WrittenWords ==
  ASSUME NEW S \in SUBSET Token, NEW v \in Seq(S), NEW src \in Source,
         Quote \in S, Backslash \in S, "," \in S, "word" \in S, "_charset" \in S
  PROVE  Written(v, src) \in Seq(S)
<1>0. Quote \in S /\ Backslash \in S /\ "," \in S /\ "word" \in S /\ "_charset" \in S
  OBVIOUS
<1>1. v \in Seq(Token)
  BY SeqSubset
<1>2. \A x \in S : \A u \in Seq(S) : Cons(x, u) \in Seq(S)
  BY ConsFacts
<1>3. Ending \in Seq(S) /\ Restored \in Seq(S)
  <2>1. Cons(Quote, <<>>) \in Seq(S)
    BY <1>0, <1>2, EmptySeq
  <2>2. Second \in Seq(S)
    BY <1>0, <1>2, <2>1 DEF Second
  <2>3. Cons(",", Second) \in Seq(S) /\ Cons("_charset", Second) \in Seq(S)
    BY <1>0, <1>2, <2>2
  <2>4. Cons(",", Cons("_charset", Second)) \in Seq(S)
    BY <1>0, <1>2, <2>3
  <2> QED
    BY <1>0, <1>2, <2>3, <2>4 DEF Ending, Restored
<1>4. Spelled(v, src) \in Seq(S)
  <2> DEFINE g == [w \in S |-> Spell(w, src)]
  <2>1. Spreads(g, S, S)
    <3>1. \A x, y \in S : <<x>> \in Seq(S) /\ <<x, y>> \in Seq(S)
      BY OneOrTwo
    <3>2. \A w \in S : Spell(w, src) \in Seq(S)
      BY <1>0, <3>1 DEF Spell
    <3> QED
      BY <3>2 DEF Spreads
  <2>2. \A i \in DOMAIN v : v[i] \in S
    BY TextFacts
  <2>3. [i \in DOMAIN v |-> g[v[i]]] = [i \in DOMAIN v |-> Spell(v[i], src)]
    BY <2>2
  <2>4. Spelled(v, src) = Spread(g, v)
    BY <2>3 DEF Spelled, Spread
  <2> HIDE DEF g
  <2> QED
    BY <2>1, <2>4, SpreadType
<1>5. Spelt(v, src, Ending) \in Seq(S) /\ Spelt(v, src, Restored) \in Seq(S)
  BY <1>3, <1>4, CatFacts DEF Spelt
<1>6. /\ Cons(Quote, Spelt(v, src, Ending)) \in Seq(S)
      /\ Cons("_charset", Cons(Quote, Spelt(v, src, Restored))) \in Seq(S)
  BY <1>0, <1>2, <1>5
<1> QED
  BY <1>1, <1>6, WrittenIs

\* An ordinary string makes a statement of such words.
LEMMA CleanText ==
  ASSUME value \in Seq(Token), source \in Source, Ordinary(value)
  PROVE  Written(value, source) \in Seq(Clean)
<1>1. Clean \in SUBSET Token
  BY DEF Clean
<1>2. Quote \in Clean /\ Backslash \in Clean /\ "," \in Clean /\ "word" \in Clean /\ "_charset" \in Clean
  <2> SUFFICES ASSUME NEW x \in {Quote, Backslash, ",", "word", "_charset"}
               PROVE  x \in Clean
    OBVIOUS
  <2>1. x \in Token
    BY Words
  <2>2. x \notin DOMAIN TypeMap /\ x \notin DOMAIN Boolean /\ x \notin DOMAIN Folded
    BY DEF TypeMap, Boolean, Folded, Quote, Backslash
  <2>3. x # "NOW()" /\ x # Option /\ x # Upsert
    BY DEF Option, Upsert, Quote, Backslash
  <2>4. x \notin Blank
    BY DEF Blank, Quote, Backslash
  <2> QED
    BY <2>1, <2>2, <2>3, <2>4 DEF Clean, Sql
<1>3. value \in Seq(Clean)
  <2>1. PICK n \in Nat : n = Len(value)
    BY TextFacts
  <2>2. DOMAIN value = 1 .. n /\ \A i \in 1 .. n : value[i] \in Token
    BY <2>1, TextFacts
  <2>3. value = [i \in DOMAIN value |-> value[i]]
    BY TextFacts
  <2>4. \A i \in 1 .. n : value[i] \in Clean
    BY <2>2 DEF Ordinary, Clean
  <2>5. value \in [1 .. n -> Clean]
    BY <2>2, <2>3, <2>4
  <2> QED
    BY <2>5, FunctionIsSeq
<1> QED
  BY <1>1, <1>2, <1>3, WrittenWords

\* At first nothing has been rewritten.
LEMMA InitLInv == Init => LInv
  BY InitIInv DEF Init, LInv, Untouched

\* No rewriting by word changes an ordinary string.
LEMMA NextKeepsLInv == LInv /\ [Next]_vars => LInv'
<1> SUFFICES ASSUME LInv, [Next]_vars PROVE LInv'
  OBVIOUS
<1> USE DEF Rewrite
<1> DEFINE w == Written(value, source)
           Kept(st) == LET stripped == TranslateCharacterSetIntroducers(w)
                       IN  CASE st = "escapes" -> stripped
                             [] st = "done" -> TranslateStringEscapes(stripped)
                             [] OTHER -> w
<1>1. UNCHANGED <<kind, value, source>>
  BY DEF vars, Next, Blanks, ColumnTypes, TypesDone, TranslateDML, Functions, Introducers,
         StringEscapes
<1>2. IInv /\ IInv'
  BY NextKeeps DEF LInv
<1>3. Ordinary(value) => text = Kept(stage)
  BY DEF LInv, Untouched
<1>4. (Ordinary(value) => text' = Kept(stage')) => LInv'
  <2>1. Untouched' = Kept(stage')
    BY <1>1 DEF Untouched
  <2>2. Ordinary(value)' <=> Ordinary(value)
    BY <1>1 DEF Ordinary
  <2> HIDE DEF Kept
  <2> QED
    BY <1>2, <2>1, <2>2 DEF LInv
<1> SUFFICES ASSUME Ordinary(value)
             PROVE  text' = Kept(stage')
  BY <1>4
<1>5. w \in Seq(Clean) /\ kind \in Statement
  <2>1. value \in Seq(Token) /\ source \in Source /\ kind \in Statement
    BY <1>2, ValueAssumption DEF IInv, TypeOK
  <2> QED
    BY <2>1, CleanText
<1>6. /\ source # "ast" => NormalizeWhitespace(w) = w
      /\ \A type \in Type : ReplaceType(w, type) = w
      /\ TranslateBoolean(w) = w
      /\ RemoveOption(w) = w
      /\ RemoveOnDuplicateKeyUpdate(w) = w
      /\ TranslateFunctions(w) = w
  <2>1. Clean \cap Sql = {} /\ (source # "ast" => Clean \cap Blank \subseteq {" "})
    BY DEF Clean
  <2> HIDE DEF w
  <2> QED
    BY <1>5, <2>1, RewritesNothing
<1>7. \A st : st \notin {"escapes", "done"} => Kept(st) = w
  OBVIOUS
<1>8. stage \notin {"escapes", "done"} => text = w
  BY <1>3, <1>7
<1> HIDE DEF w
<1>9. CASE Blanks
  <2>1. /\ stage = "blanks" /\ stage' = "ddl" /\ text' = NormalizeWhitespace(text)
        /\ source # "ast"
    BY <1>2, <1>9 DEF Blanks, IInv
  <2> QED
    BY <1>6, <1>7, <1>8, <2>1
<1>10. CASE ColumnTypes
  <2>1. PICK type \in Type : stage = "ddl" /\ stage' = "ddl" /\ text' = ReplaceType(text, type)
    BY <1>2, <1>10 DEF ColumnTypes, IInv, TypeOK
  <2> QED
    BY <1>6, <1>7, <1>8, <2>1
<1>11. CASE TypesDone
  BY <1>7, <1>8, <1>11 DEF TypesDone
<1>12. CASE TranslateDML
  <2>1. stage = "dml" /\ stage' = "functions"
    BY <1>12 DEF TranslateDML
  <2>2. text' \in {text, TranslateBoolean(text), RemoveOnDuplicateKeyUpdate(text), RemoveOption(text)}
    BY <1>12 DEF TranslateDML
  <2> QED
    BY <1>6, <1>7, <1>8, <2>1, <2>2
<1>13. CASE Functions
  <2>1. stage = "functions" /\ stage' = "introducers" /\ text' = TranslateFunctions(text)
    BY <1>13 DEF Functions
  <2> QED
    BY <1>6, <1>7, <1>8, <2>1
<1>14. CASE Introducers
  <2>1. /\ stage = "introducers" /\ stage' = "escapes"
        /\ text' = TranslateCharacterSetIntroducers(text)
    BY <1>14 DEF Introducers
  <2> QED
    BY <1>8, <2>1
<1>15. CASE StringEscapes
  <2>1. /\ stage = "escapes" /\ stage' = "done"
        /\ text' = TranslateStringEscapes(text)
    BY <1>15 DEF StringEscapes
  <2> QED
    BY <1>3, <2>1
<1>16. CASE UNCHANGED vars
  <2>1. text' = text /\ stage' = stage
    BY <1>16 DEF vars
  <2> HIDE DEF Kept
  <2> QED
    BY <1>3, <2>1
<1> QED
  BY <1>9, <1>10, <1>11, <1>12, <1>13, <1>14, <1>15, <1>16 DEF Next
-----------------------------------------------------------------------------
(***************************************************************************)
(* The theorem                                                             *)
(***************************************************************************)
\* What the two scans make of an ordinary string is read as that string.
LEMMA LInvKept == LInv => LiteralKept
<1> SUFFICES ASSUME LInv, stage = "done", Ordinary(value)
             PROVE  Arrived
  BY DEF LiteralKept
<1>1. value \in Seq(Token) /\ source \in Source
  BY ValueAssumption DEF LInv, IInv, TypeOK
<1>2. text = TranslateStringEscapes(TranslateCharacterSetIntroducers(Written(value, source)))
  BY DEF LInv, Untouched
<1>3. /\ DOMAIN value = 1 .. Len(value) /\ Len(value) \in Nat
      /\ \A i \in DOMAIN value : i # Len(value) => i < Len(value)
  <2>1. DOMAIN value = 1 .. Len(value) /\ Len(value) \in Nat
    BY <1>1, TextFacts
  <2> QED
    BY <2>1
<1>o. ASSUME NEW i \in DOMAIN value
      PROVE  LET next == IF i < Len(value) THEN value[i + 1] ELSE Quote IN
             /\ value[i] = Backslash => source = "ast" /\ next \notin {Quote, "newline"}
             /\ value[i] \in Introducer => source = "ast" \/ next # Quote
  BY DEF Ordinary
<1>4. Clear(value, source)
  <2> SUFFICES ASSUME NEW i \in DOMAIN value, value[i] = Backslash
               PROVE  source = "ast" /\ i # Len(value) /\ value[i + 1] \notin {Quote, "newline"}
    BY DEF Clear, Spared
  <2>1. CASE i < Len(value)
    BY <1>3, <1>o, <2>1
  <2>2. CASE ~(i < Len(value))
    BY <1>o, <2>2
  <2> QED
    BY <2>1, <2>2
<1>5. source # "ast" => Plain(value)
  <2> SUFFICES ASSUME source # "ast", NEW i \in DOMAIN value, value[i] \in Introducer
               PROVE  i # Len(value) /\ value[i + 1] # Quote
    BY DEF Plain, Spared
  <2>1. CASE i < Len(value)
    BY <1>3, <1>o, <2>1
  <2>2. CASE ~(i < Len(value))
    BY <1>o, <2>2
  <2> QED
    BY <2>1, <2>2
<1>6. text = Target(value)
  BY <1>1, <1>2, <1>4, <1>5, Arrives
<1> QED
  BY <1>1, <1>6, ReadsTarget DEF Arrived

\* The inductive invariant holds throughout.
LEMMA LInvariance == Spec => []LInv
<1>1. Init => LInv
  BY InitLInv
<1>2. LInv /\ [Next]_vars => LInv'
  BY NextKeepsLInv
<1> QED
  BY <1>1, <1>2, PTL DEF Spec

\* TranslateAST and Translate, for strings of any length and any words, in any of
\* the three spellings and in any statement: SQLite reads an ordinary string as
\* the client meant it, with the rest of the statement after it, whatever quotes
\* it has.  No backslash, introducer or word of SQL may be where the translator
\* takes it for one; StringsStay, without that condition, fails.
THEOREM LiteralsAreKept == Spec => []LiteralKept
<1>1. LInv => LiteralKept
  BY LInvKept
<1> QED
  BY <1>1, LInvariance, PTL
=============================================================================
