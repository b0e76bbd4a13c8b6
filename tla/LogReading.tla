------------------------------ MODULE LogReading ----------------------------
(* Lemmas on how LogText's file is read: on Without, on texts as they are  *)
(* read, and on the lines of a file.  They are about operators, not states.*)
EXTENDS LogText, TLAPS, WellFoundedInduction, SequenceTheorems

(* Where headers are in a file.                                            *)
Headers(o) == {i \in DOMAIN o : o[i] = "header"}

(* A line starts with a header or goes on with blanks.                     *)
Lined(o) ==
  \A i \in DOMAIN o : o[i] \in {"header", "indent"} <=> i = 1 \/ o[i - 1] = "eol"

(* A text without its carriage returns as it is read, and what is shown of *)
(* s when n of its characters are written.                                 *)
Signs == {Glyph(c) : c \in Chars}

Plain(t) == LET p == Without(t, "cr") IN [n \in DOMAIN p |-> Glyph(p[n])]

Shown(s, n) == Plain(SubSeq(s, 1, IF n <= Len(Body(s)) THEN n ELSE Len(Body(s))))

-----------------------------------------------------------------------------
(* Induction, over a set of naturals in place of a property: as < is well  *)
(* founded, what is not in the set would have a least element.             *)
LEMMA LeastNatural ==
  ASSUME NEW S, S \subseteq Nat, S # {}
  PROVE  \E m \in S : \A k \in S : m <= k
<1>1. PICK m \in S : \A k \in S : ~(<<k, m>> \in OpToRel(<, Nat))
  BY WFMin, NatLessThanWellFounded
<1>2. \A k \in S : ~(k < m)
  BY <1>1 DEF OpToRel
<1> QED BY <1>2

LEMMA Induction ==
  ASSUME NEW S, 0 \in S, \A n \in Nat : n \in S => n + 1 \in S
  PROVE  \A n \in Nat : n \in S
<1> SUFFICES ASSUME NEW k \in Nat, k \notin S PROVE FALSE
  OBVIOUS
<1>1. PICK m \in Nat \ S : \A j \in Nat \ S : m <= j
  <2>1. Nat \ S \subseteq Nat /\ Nat \ S # {}
    OBVIOUS
  <2> QED BY <2>1, LeastNatural
<1>2. m # 0 /\ m - 1 \in Nat
  OBVIOUS
<1>3. m - 1 \in S
  BY <1>1, <1>2
<1> QED BY <1>2, <1>3

-----------------------------------------------------------------------------
(* Sequences.                                                              *)

LEMMA AppendFacts ==
  ASSUME NEW S, NEW q \in Seq(S), NEW x \in S, NEW n \in Nat, n = Len(q)
  PROVE  /\ Append(q, x) \in Seq(S) /\ Len(Append(q, x)) = n + 1
         /\ DOMAIN q = 1 .. n /\ DOMAIN Append(q, x) = 1 .. n + 1
         /\ Append(q, x)[n + 1] = x
         /\ \A i \in 1 .. n : Append(q, x)[i] = q[i]
OBVIOUS

LEMMA ConcatFacts ==
  ASSUME NEW S, NEW d \in Seq(S), NEW b \in Seq(S), NEW o, o = d \o b
  PROVE  /\ o \in Seq(S) /\ Len(o) = Len(d) + Len(b) /\ DOMAIN o = 1 .. Len(d) + Len(b)
         /\ \A i \in 1 .. Len(d) : o[i] = d[i]
         /\ \A i \in 1 .. Len(b) : o[Len(d) + i] = b[i]
OBVIOUS

LEMMA SamePart ==
  ASSUME NEW u \in Seq(Tokens), NEW v \in Seq(Tokens), NEW a \in Nat, NEW z \in Nat,
         1 <= a, z <= Len(u), z <= Len(v), \A j \in a .. z : u[j] = v[j]
  PROVE  SubSeq(u, a, z) = SubSeq(v, a, z)
OBVIOUS

LEMMA PartAppend ==
  ASSUME NEW o \in Seq(Tokens), NEW n \in Nat, n = Len(o), NEW l \in 1 .. n, NEW x \in Tokens
  PROVE  SubSeq(Append(o, x), l + 1, n + 1) = Append(SubSeq(o, l + 1, n), x)
<1>1. PICK w \in Seq(Tokens) : w = Append(o, x)
  BY AppendFacts, Zenon
<1>2. Len(w) = n + 1 /\ w[n + 1] = x /\ \A i \in 1 .. n : w[i] = o[i]
  BY <1>1, AppendFacts
<1>3. SubSeq(w, l + 1, n + 1) = Append(SubSeq(w, l + 1, n), w[n + 1])
  <2>1. l + 1 \in 1 .. Len(w) /\ n + 1 \in l + 1 .. Len(w) /\ (n + 1) - 1 = n
    BY <1>2
  <2>2. SubSeq(w, l + 1, n + 1) = SubSeq(w, l + 1, n) \o <<w[n + 1]>>
    BY <2>1, SubSeqRecursiveSecond
  <2>3. PICK u \in Seq(Tokens) : u = SubSeq(w, l + 1, n)
    <3>1. \A i \in l + 1 .. n : w[i] \in Tokens
      BY <1>2
    <3>2. SubSeq(w, l + 1, n) \in Seq(Tokens)
      BY <3>1, SubSeqProperties
    <3> QED BY <3>2, Zenon
  <2>4. u \o <<w[n + 1]>> = Append(u, w[n + 1])
    OBVIOUS
  <2> QED BY <2>2, <2>3, <2>4
<1>4. SubSeq(w, l + 1, n) = SubSeq(o, l + 1, n)
  <2>1. l + 1 \in Nat /\ 1 <= l + 1 /\ n <= Len(w) /\ n <= Len(o)
        /\ \A i \in l + 1 .. n : w[i] = o[i]
    BY <1>2
  <2> QED BY <2>1, SamePart
<1> QED BY <1>1, <1>2, <1>3, <1>4

-----------------------------------------------------------------------------
(* Without.                                                                *)

(* The recursion of Without, on a function of which it defines the values. *)
Filters(f, s, x) ==
  f = [n \in 0 .. Len(s) |->
         IF n = 0 THEN << >>
         ELSE IF s[n] = x THEN f[n - 1] ELSE Append(f[n - 1], s[n])]

(* It has a solution.                                                      *)
LEMMA FilterExists ==
  ASSUME NEW S, NEW s \in Seq(S), NEW x
  PROVE  \E f : Filters(f, s, x)
<1> DEFINE Upto(f, m) ==
             f = [n \in 0 .. m |->
                    IF n = 0 THEN << >>
                    ELSE IF s[n] = x THEN f[n - 1] ELSE Append(f[n - 1], s[n])]
           Good == {m \in Nat : \E f : Upto(f, m)}
<1>1. 0 \in Good
  <2>1. PICK f : f = [n \in 0 .. 0 |-> << >>]
    OBVIOUS
  <2>2. Upto(f, 0)
    BY <2>1
  <2> QED BY <2>2
<1>2. ASSUME NEW m \in Nat, m \in Good PROVE m + 1 \in Good
  <2>1. PICK f : Upto(f, m)
    BY <1>2
  <2>2. PICK v : v = IF s[m + 1] = x THEN f[m] ELSE Append(f[m], s[m + 1])
    OBVIOUS
  <2>3. PICK g : g = [n \in 0 .. m + 1 |-> IF n = m + 1 THEN v ELSE f[n]]
    OBVIOUS
  <2>4. \A n \in 0 .. m + 1 :
          g[n] = IF n = 0 THEN << >>
                 ELSE IF s[n] = x THEN g[n - 1] ELSE Append(g[n - 1], s[n])
    <3> SUFFICES ASSUME NEW n \in 0 .. m + 1
                 PROVE  g[n] = IF n = 0 THEN << >>
                               ELSE IF s[n] = x THEN g[n - 1] ELSE Append(g[n - 1], s[n])
      OBVIOUS
    <3>1. CASE n = 0
      BY <2>1, <2>3, <3>1
    <3>2. CASE n \in 1 .. m
      <4>1. n \in 0 .. m /\ n - 1 \in 0 .. m /\ n # m + 1 /\ n - 1 # m + 1 /\ n # 0
        BY <3>2
      <4>2. g[n] = f[n] /\ g[n - 1] = f[n - 1]
        BY <2>3, <4>1
      <4>3. f[n] = IF s[n] = x THEN f[n - 1] ELSE Append(f[n - 1], s[n])
        BY <2>1, <4>1
      <4> QED BY <4>1, <4>2, <4>3
    <3>3. CASE n = m + 1
      <4>1. g[n] = v /\ g[n - 1] = f[m] /\ n # 0
        BY <2>3, <3>3
      <4>2. v = IF s[n] = x THEN g[n - 1] ELSE Append(g[n - 1], s[n])
        BY <2>2, <3>3, <4>1
      <4> QED BY <4>1, <4>2
    <3> QED BY <3>1, <3>2, <3>3
  <2>5. Upto(g, m + 1)
    BY <2>3, <2>4
  <2>6. m + 1 \in Nat
    OBVIOUS
  <2> HIDE DEF Upto
  <2> QED BY <2>5, <2>6
<1>3. Len(s) \in Good
  <2> HIDE DEF Good
  <2> QED BY <1>1, <1>2, Induction
<1> QED BY <1>3 DEF Filters

(* And its values are determined by the elements so far.                   *)
LEMMA FilterUnique ==
  ASSUME NEW S, NEW s \in Seq(S), NEW t \in Seq(S), NEW x, NEW f, NEW g,
         Filters(f, s, x), Filters(g, t, x), NEW k \in Nat, k <= Len(s), k <= Len(t),
         \A i \in 1 .. k : s[i] = t[i]
  PROVE  f[k] = g[k]
<1> DEFINE Good == {m \in Nat : m <= k => f[m] = g[m]}
<1>1. 0 \in Good
  BY DEF Filters
<1>2. ASSUME NEW m \in Nat, m \in Good PROVE m + 1 \in Good
  <2> SUFFICES ASSUME m + 1 <= k PROVE f[m + 1] = g[m + 1]
    OBVIOUS
  <2>1. m + 1 \in 0 .. Len(s) /\ m + 1 \in 0 .. Len(t) /\ m + 1 # 0 /\ (m + 1) - 1 = m
    OBVIOUS
  <2>2. f[m] = g[m] /\ s[m + 1] = t[m + 1]
    BY <1>2
  <2>3. f[m + 1] = IF s[m + 1] = x THEN f[m] ELSE Append(f[m], s[m + 1])
    BY <2>1 DEF Filters
  <2>4. g[m + 1] = IF t[m + 1] = x THEN g[m] ELSE Append(g[m], t[m + 1])
    BY <2>1 DEF Filters
  <2> QED BY <2>2, <2>3, <2>4
<1>3. k \in Good
  <2> HIDE DEF Good
  <2> QED BY <1>1, <1>2, Induction
<1> QED BY <1>3

LEMMA WithoutFilters ==
  ASSUME NEW S, NEW s \in Seq(S), NEW x
  PROVE  \E f : Filters(f, s, x) /\ Without(s, x) = f[Len(s)]
<1>1. PICK f : f = CHOOSE g : Filters(g, s, x)
  OBVIOUS
<1>2. Filters(f, s, x)
  BY <1>1, FilterExists
<1>3. Without(s, x) = f[Len(s)]
  BY <1>1 DEF Without, Filters
<1> QED BY <1>2, <1>3

LEMMA WithoutEmpty ==
  ASSUME NEW x
  PROVE  Without(<< >>, x) = << >>
<1>1. << >> \in Seq({}) /\ Len(<< >>) = 0
  OBVIOUS
<1>2. PICK f : Filters(f, << >>, x) /\ Without(<< >>, x) = f[0]
  BY <1>1, WithoutFilters
<1> QED BY <1>2 DEF Filters

LEMMA WithoutAppend ==
  ASSUME NEW S, NEW s \in Seq(S), NEW a \in S, NEW x
  PROVE  Without(Append(s, a), x) =
           IF a = x THEN Without(s, x) ELSE Append(Without(s, x), a)
<1>1. PICK n \in Nat : n = Len(s)
  OBVIOUS
<1>2. PICK t \in Seq(S) : t = Append(s, a)
  <2>1. Append(s, a) \in Seq(S)
    OBVIOUS
  <2> QED BY <2>1
<1>3. Len(t) = n + 1 /\ t[n + 1] = a /\ \A i \in 1 .. n : s[i] = t[i]
  BY <1>1, <1>2
<1>4. PICK f : Filters(f, s, x) /\ Without(s, x) = f[n]
  BY <1>1, WithoutFilters
<1>5. PICK g : Filters(g, t, x) /\ Without(t, x) = g[n + 1]
  BY <1>3, WithoutFilters
<1>6. f[n] = g[n]
  BY <1>1, <1>3, <1>4, <1>5, FilterUnique
<1>7. g[n + 1] = IF a = x THEN g[n] ELSE Append(g[n], a)
  <2>1. n + 1 \in 0 .. Len(t) /\ n + 1 # 0 /\ (n + 1) - 1 = n
    BY <1>3
  <2> QED BY <1>3, <1>5, <2>1 DEF Filters
<1> QED BY <1>2, <1>4, <1>5, <1>6, <1>7

LEMMA WithoutType ==
  ASSUME NEW S, NEW s \in Seq(S), NEW x
  PROVE  Without(s, x) \in Seq(S)
<1>1. PICK f : Filters(f, s, x) /\ Without(s, x) = f[Len(s)]
  BY WithoutFilters
<1> DEFINE Good == {m \in Nat : m <= Len(s) => f[m] \in Seq(S)}
<1>2. 0 \in Good
  BY <1>1 DEF Filters
<1>3. ASSUME NEW m \in Nat, m \in Good PROVE m + 1 \in Good
  <2> SUFFICES ASSUME m + 1 <= Len(s) PROVE f[m + 1] \in Seq(S)
    OBVIOUS
  <2>1. m + 1 \in 0 .. Len(s) /\ m + 1 # 0 /\ (m + 1) - 1 = m /\ s[m + 1] \in S
    OBVIOUS
  <2>2. f[m] \in Seq(S)
    BY <1>3
  <2>3. f[m + 1] = IF s[m + 1] = x THEN f[m] ELSE Append(f[m], s[m + 1])
    BY <1>1, <2>1 DEF Filters
  <2> QED BY <2>1, <2>2, <2>3
<1>4. Len(s) \in Good
  <2> HIDE DEF Good
  <2> QED BY <1>2, <1>3, Induction
<1> QED BY <1>1, <1>4

-----------------------------------------------------------------------------
(* Texts as they are read.                                                 *)

LEMMA PlainEmpty == Plain(<< >>) = << >>
BY WithoutEmpty DEF Plain

LEMMA PlainAppend ==
  ASSUME NEW t \in Seq(Chars), NEW c \in Chars
  PROVE  Plain(Append(t, c)) = IF c = "cr" THEN Plain(t) ELSE Append(Plain(t), Glyph(c))
<1>1. CASE c = "cr"
  BY <1>1, WithoutAppend DEF Plain
<1>2. CASE c # "cr"
  <2>1. PICK p \in Seq(Chars) : p = Without(t, "cr")
    BY WithoutType
  <2>2. Without(Append(t, c), "cr") = Append(p, c)
    BY <1>2, <2>1, WithoutAppend
  <2>3. [n \in DOMAIN Append(p, c) |-> Glyph(Append(p, c)[n])]
          = Append([n \in DOMAIN p |-> Glyph(p[n])], Glyph(c))
    <3>1. PICK n \in Nat : n = Len(p) /\ DOMAIN p = 1 .. n
      OBVIOUS
    <3>2. PICK u \in Seq(Chars) : u = Append(p, c)
      BY <3>1, AppendFacts, Zenon
    <3>3. DOMAIN u = 1 .. n + 1 /\ u[n + 1] = c /\ \A i \in 1 .. n : u[i] = p[i]
      BY <3>1, <3>2, AppendFacts
    <3>4. PICK g \in Seq(Signs) : g = [i \in DOMAIN p |-> Glyph(p[i])]
      <4>1. [i \in DOMAIN p |-> Glyph(p[i])] \in Seq(Signs)
        BY <3>1 DEF Signs
      <4> QED BY <4>1, Zenon
    <3>5. Len(g) = n /\ Glyph(c) \in Signs
      BY <3>1, <3>4 DEF Signs
    <3>6. PICK h \in Seq(Signs) : h = Append(g, Glyph(c))
      BY <3>5, AppendFacts, Zenon
    <3>7. Len(h) = n + 1 /\ h[n + 1] = Glyph(c) /\ \A i \in 1 .. n : h[i] = g[i]
      BY <3>5, <3>6, AppendFacts
    <3>8. \A i \in 1 .. n + 1 : h[i] = Glyph(u[i])
      <4> SUFFICES ASSUME NEW i \in 1 .. n + 1 PROVE h[i] = Glyph(u[i])
        OBVIOUS
      <4>1. CASE i = n + 1
        BY <3>3, <3>7, <4>1
      <4>2. CASE i # n + 1
        <5>1. i \in 1 .. n
          BY <4>2
        <5>2. h[i] = g[i] /\ u[i] = p[i] /\ g[i] = Glyph(p[i])
          BY <3>1, <3>3, <3>4, <3>7, <5>1
        <5> QED BY <5>2
      <4> QED BY <4>1, <4>2
    <3>9. h = [i \in 1 .. n + 1 |-> h[i]]
      BY <3>7
    <3>10. h = [i \in 1 .. n + 1 |-> Glyph(u[i])]
      BY <3>8, <3>9, Zenon
    <3> QED BY <3>2, <3>3, <3>4, <3>10, <3>6
  <2> QED BY <1>2, <2>1, <2>2, <2>3 DEF Plain
<1> QED BY <1>1, <1>2

LEMMA PlainType ==
  ASSUME NEW t \in Seq(Chars)
  PROVE  Plain(t) \in Seq(Signs)
<1>1. PICK p \in Seq(Chars) : p = Without(t, "cr")
  BY WithoutType
<1>2. p \in [1 .. Len(p) -> Chars] /\ Len(p) \in Nat
  OBVIOUS
<1>3. [n \in DOMAIN p |-> Glyph(p[n])] \in [1 .. Len(p) -> Signs]
  BY <1>2 DEF Signs
<1> QED BY <1>1, <1>2, <1>3 DEF Plain

(* A part of a text is read as a beginning of it.                          *)
LEMMA PlainPrefix ==
  ASSUME NEW t \in Seq(Chars), NEW n \in Nat, n <= Len(t)
  PROVE  IsPrefix(Plain(SubSeq(t, 1, n)), Plain(t))
<1> DEFINE Part(m)  == Plain(SubSeq(t, 1, m))
           Good == {m \in Nat : n + m <= Len(t) => IsPrefix(Part(n), Part(n + m))}
<1>1. \A m \in 0 .. Len(t) : SubSeq(t, 1, m) \in Seq(Chars) /\ Part(m) \in Seq(Signs)
  <2> TAKE m \in 0 .. Len(t)
  <2>1. SubSeq(t, 1, m) \in Seq(Chars)
    OBVIOUS
  <2> QED BY <2>1, PlainType
<1>2. 0 \in Good
  <2>1. Part(n) \in Seq(Signs)
    BY <1>1
  <2>2. IsPrefix(Part(n), Part(n))
    BY <2>1 DEF IsPrefix
  <2> QED BY <2>2
<1>3. ASSUME NEW m \in Nat, m \in Good PROVE m + 1 \in Good
  <2> SUFFICES ASSUME n + (m + 1) <= Len(t) PROVE IsPrefix(Part(n), Part(n + (m + 1)))
    OBVIOUS
  <2>1. PICK k \in Nat : k = n + m /\ k + 1 = n + (m + 1) /\ k + 1 <= Len(t)
    OBVIOUS
  <2>2. PICK p \in Seq(Signs), q \in Seq(Signs) : p = Part(n) /\ q = Part(k)
    BY <1>1, <2>1
  <2>3. IsPrefix(p, q)
    BY <1>3, <2>1, <2>2
  <2>4. SubSeq(t, 1, k + 1) = Append(SubSeq(t, 1, k), t[k + 1]) /\ t[k + 1] \in Chars
    BY <2>1
  <2>5. Part(k + 1) = q \/ Part(k + 1) = Append(q, Glyph(t[k + 1]))
    <3>1. PICK u \in Seq(Chars) : u = SubSeq(t, 1, k)
      <4>1. k \in 0 .. Len(t)
        BY <2>1
      <4> QED BY <1>1, <4>1, Zenon
    <3>2. PICK c \in Chars : c = t[k + 1]
      BY <2>4
    <3>3. Plain(Append(u, c)) = Plain(u) \/ Plain(Append(u, c)) = Append(Plain(u), Glyph(c))
      BY PlainAppend
    <3>4. Plain(u) = q /\ Part(k + 1) = Plain(Append(u, c))
      BY <2>2, <2>4, <3>1, <3>2
    <3> QED BY <3>2, <3>3, <3>4
  <2>6. IsPrefix(p, Append(q, Glyph(t[k + 1])))
    <3>1. PICK g \in Signs : g = Glyph(t[k + 1])
      BY <2>4 DEF Signs
    <3> QED BY <2>2, <2>3, <3>1 DEF IsPrefix
  <2> HIDE DEF Part
  <2> QED BY <2>1, <2>2, <2>3, <2>5, <2>6
<1>4. PICK m \in Nat : n + m = Len(t)
  <2>1. Len(t) - n \in Nat /\ n + (Len(t) - n) = Len(t)
    OBVIOUS
  <2> QED BY <2>1
<1>5. m \in Good
  <2> HIDE DEF Good
  <2> QED BY <1>2, <1>3, Induction
<1>6. SubSeq(t, 1, n + m) = t
  BY <1>4
<1>7. IsPrefix(Plain(SubSeq(t, 1, n)), Plain(SubSeq(t, 1, n + m)))
  BY <1>4, <1>5
<1> QED BY <1>6, <1>7

LEMMA BodyPart ==
  ASSUME NEW s \in Seq(Chars), NEW n \in Nat, n = Len(s)
  PROVE  \E m \in 0 .. n :
           /\ Len(Body(s)) = m /\ Body(s) = SubSeq(s, 1, m)
           /\ m = IF n # 0 /\ s[n] = "lf" THEN n - 1 ELSE n
<1>1. CASE n # 0 /\ s[n] = "lf"
  <2>1. Body(s) = SubSeq(s, 1, n - 1)
    <3>1. s # << >>
      BY <1>1
    <3> QED BY <1>1, <3>1 DEF Body, Last, Front
  <2>2. n - 1 \in 0 .. n /\ Len(SubSeq(s, 1, n - 1)) = n - 1
    BY <1>1
  <2> QED BY <1>1, <2>1, <2>2
<1>2. CASE ~(n # 0 /\ s[n] = "lf")
  <2>1. Body(s) = s
    BY <1>2 DEF Body, Last
  <2>2. s = SubSeq(s, 1, n)
    OBVIOUS
  <2> QED BY <1>2, <2>1, <2>2
<1> QED BY <1>1, <1>2

LEMMA ShownNone ==
  ASSUME NEW s \in Seq(Chars)
  PROVE  Shown(s, 0) = << >>
<1>1. PICK m \in Nat : m = Len(Body(s))
  <2>1. PICK n \in Nat : n = Len(s)
    OBVIOUS
  <2> QED BY <2>1, BodyPart
<1>2. SubSeq(s, 1, 0) = << >>
  OBVIOUS
<1>3. (IF 0 <= Len(Body(s)) THEN 0 ELSE Len(Body(s))) = 0
  BY <1>1
<1> QED BY <1>2, <1>3, PlainEmpty DEF Shown

LEMMA ShownAll ==
  ASSUME NEW s \in Seq(Chars)
  PROVE  Shown(s, Len(s)) = Legible(s)
<1>1. PICK n \in Nat : n = Len(s)
  OBVIOUS
<1>2. PICK m \in 0 .. n : Len(Body(s)) = m /\ Body(s) = SubSeq(s, 1, m)
  BY <1>1, BodyPart
<1>3. (IF n <= m THEN n ELSE m) = m
  BY <1>2
<1>4. Shown(s, n) = Plain(Body(s))
  BY <1>2, <1>3 DEF Shown
<1>5. Legible(s) = Plain(Body(s))
  BY DEF Legible, Plain
<1> QED BY <1>1, <1>4, <1>5

LEMMA ShownPrefix ==
  ASSUME NEW s \in Seq(Chars), NEW k \in Nat
  PROVE  IsPrefix(Shown(s, k), Legible(s))
<1>1. PICK n \in Nat : n = Len(s)
  OBVIOUS
<1>2. PICK m \in 0 .. n : Len(Body(s)) = m /\ Body(s) = SubSeq(s, 1, m)
  BY <1>1, BodyPart
<1>3. PICK t \in Seq(Chars) : t = Body(s)
  <2>1. SubSeq(s, 1, m) \in Seq(Chars)
    BY <1>1, <1>2
  <2> QED BY <1>2, <2>1
<1>4. PICK j \in 0 .. m : j = IF k <= m THEN k ELSE m
  <2>1. (IF k <= m THEN k ELSE m) \in 0 .. m
    OBVIOUS
  <2> QED BY <2>1
<1>5. SubSeq(s, 1, j) = SubSeq(t, 1, j)
  <2>1. t = SubSeq(s, 1, m)
    BY <1>2, <1>3
  <2> QED BY <1>1, <2>1
<1>6. IsPrefix(Plain(SubSeq(t, 1, j)), Plain(t))
  <2>1. j \in Nat /\ j <= Len(t)
    BY <1>2, <1>3, <1>4
  <2> QED BY <2>1, PlainPrefix
<1>7. Shown(s, k) = Plain(SubSeq(t, 1, j))
  BY <1>2, <1>4, <1>5 DEF Shown
<1>8. Legible(s) = Plain(t)
  BY <1>3 DEF Legible, Plain
<1> QED BY <1>6, <1>7, <1>8

(* One character more is shown, unless it is the line end the text ends in.*)
LEMMA ShownNext ==
  ASSUME NEW s \in Seq(Chars), NEW n \in Nat, n = Len(s), NEW k \in 1 .. n
  PROVE  Shown(s, k) = IF s[k] = "cr" \/ (k = n /\ s[k] = "lf") THEN Shown(s, k - 1)
                       ELSE Append(Shown(s, k - 1), Glyph(s[k]))
<1>1. PICK m \in 0 .. n :
        Len(Body(s)) = m /\ m = IF n # 0 /\ s[n] = "lf" THEN n - 1 ELSE n
  BY BodyPart
<1>2. CASE k = n /\ s[k] = "lf"
  <2>1. m = n - 1 /\ ~(n <= m) /\ k - 1 = m
    BY <1>1, <1>2
  <2>2. Shown(s, k) = Plain(SubSeq(s, 1, m)) /\ Shown(s, k - 1) = Plain(SubSeq(s, 1, m))
    BY <1>1, <1>2, <2>1 DEF Shown
  <2> QED BY <1>2, <2>2
<1>3. CASE ~(k = n /\ s[k] = "lf")
  <2>1. k <= m /\ k - 1 <= m
    BY <1>1, <1>3
  <2>2. Shown(s, k) = Plain(SubSeq(s, 1, k)) /\ Shown(s, k - 1) = Plain(SubSeq(s, 1, k - 1))
    BY <1>1, <2>1 DEF Shown
  <2>3. PICK u \in Seq(Chars), c \in Chars : u = SubSeq(s, 1, k - 1) /\ c = s[k]
    <3>1. SubSeq(s, 1, k - 1) \in Seq(Chars) /\ s[k] \in Chars
      OBVIOUS
    <3> QED BY <3>1
  <2>4. SubSeq(s, 1, k) = Append(u, c)
    <3>1. SubSeq(s, 1, k) = Append(SubSeq(s, 1, k - 1), s[k])
      OBVIOUS
    <3> QED BY <2>3, <3>1
  <2>5. Plain(Append(u, c)) = IF c = "cr" THEN Plain(u) ELSE Append(Plain(u), Glyph(c))
    BY PlainAppend
  <2> QED BY <1>3, <2>2, <2>3, <2>4, <2>5
<1> QED BY <1>2, <1>3

-----------------------------------------------------------------------------
(* Files as they are read.                                                 *)

LEMMA StartsAreHeaders ==
  ASSUME NEW o \in Seq(Tokens), Lined(o)
  PROVE  Starts(o) = Headers(o)
<1>1. \A i \in DOMAIN o : (i = 1 \/ o[i - 1] = "eol") /\ o[i] # "indent" <=> o[i] = "header"
  BY DEF Lined
<1> QED BY <1>1 DEF Starts, Headers

LEMMA HeadersAppend ==
  ASSUME NEW o \in Seq(Tokens), NEW x \in Tokens, NEW n \in Nat, n = Len(o)
  PROVE  Headers(Append(o, x)) = Headers(o) \cup (IF x = "header" THEN {n + 1} ELSE {})
<1>1. PICK w \in Seq(Tokens) : w = Append(o, x)
  BY AppendFacts, Zenon
<1>2. /\ DOMAIN o = 1 .. n /\ DOMAIN w = 1 .. n + 1 /\ w[n + 1] = x
      /\ \A i \in 1 .. n : w[i] = o[i]
  BY <1>1, AppendFacts
<1>3. Headers(w) = Headers(o) \cup (IF x = "header" THEN {n + 1} ELSE {})
  BY <1>2 DEF Headers
<1> QED BY <1>1, <1>3

LEMMA LinedAppend ==
  ASSUME NEW o \in Seq(Tokens), NEW x \in Tokens, NEW n \in Nat, n = Len(o), Lined(o),
         x \in {"header", "indent"} <=> n = 0 \/ o[n] = "eol"
  PROVE  Lined(Append(o, x))
<1>1. PICK w \in Seq(Tokens) : w = Append(o, x)
  BY AppendFacts, Zenon
<1>2. /\ DOMAIN o = 1 .. n /\ DOMAIN w = 1 .. n + 1 /\ w[n + 1] = x
      /\ \A i \in 1 .. n : w[i] = o[i]
  BY <1>1, AppendFacts
<1>3. Lined(w)
  <2> SUFFICES ASSUME NEW i \in 1 .. n + 1
               PROVE  w[i] \in {"header", "indent"} <=> i = 1 \/ w[i - 1] = "eol"
    BY <1>2 DEF Lined
  <2>1. CASE i = n + 1
    <3>1. CASE n = 0
      BY <1>2, <2>1, <3>1
    <3>2. CASE n # 0
      <4>1. w[n] = o[n]
        BY <1>2, <3>2
      <4> QED BY <1>2, <2>1, <3>2, <4>1
    <3> QED BY <3>1, <3>2
  <2>2. CASE i \in 1 .. n
    <3>1. o[i] \in {"header", "indent"} <=> i = 1 \/ o[i - 1] = "eol"
      BY <1>2, <2>2 DEF Lined
    <3>2. w[i] = o[i] /\ (i # 1 => w[i - 1] = o[i - 1])
      BY <1>2, <2>2
    <3> QED BY <3>1, <3>2
  <2> QED BY <2>1, <2>2
<1> QED BY <1>1, <1>3

(* A file whose lines are complete, and what is to be written to it.       *)
LEMMA LinedPart ==
  ASSUME NEW d \in Seq(Tokens), NEW b \in Seq(Tokens), NEW o \in Seq(Tokens), o = d \o b,
         Lined(o)
  PROVE  Lined(d)
<1>1. PICK n \in Nat : n = Len(d) /\ DOMAIN d = 1 .. n
  OBVIOUS
<1>2. \A i \in 1 .. n : i \in DOMAIN o /\ o[i] = d[i]
  BY <1>1, ConcatFacts
<1> SUFFICES ASSUME NEW i \in 1 .. n
             PROVE  d[i] \in {"header", "indent"} <=> i = 1 \/ d[i - 1] = "eol"
  BY <1>1 DEF Lined
<1>3. o[i] \in {"header", "indent"} <=> i = 1 \/ o[i - 1] = "eol"
  BY <1>2 DEF Lined
<1>4. o[i] = d[i] /\ (i # 1 => o[i - 1] = d[i - 1])
  BY <1>2
<1> QED BY <1>3, <1>4

(* At most one event is in the buffer: the first thing there.              *)
LEMMA HeadersOf ==
  ASSUME NEW d \in Seq(Tokens), NEW o \in Seq(Tokens), Lined(o),
         NEW n \in Nat, n = Len(d), NEW p \in Nat, p = Len(o), n <= p,
         \A i \in 1 .. n : o[i] = d[i], \A i \in n + 1 .. p : o[i] # "eol"
  PROVE  Headers(o) \subseteq Headers(d) \cup {n + 1} /\ Headers(d) \subseteq Headers(o)
<1>1. DOMAIN o = 1 .. p /\ DOMAIN d = 1 .. n
  OBVIOUS
<1>2. ASSUME NEW i \in Headers(o), i \notin Headers(d), i # n + 1 PROVE FALSE
  <2>1. i \in 1 .. p /\ o[i] = "header"
    BY <1>1 DEF Headers
  <2>2. i \notin 1 .. n
    BY <1>1, <1>2, <2>1 DEF Headers
  <2>3. i - 1 \in n + 1 .. p /\ i # 1
    BY <1>2, <2>1, <2>2
  <2>4. o[i - 1] = "eol"
    BY <1>1, <2>1, <2>3 DEF Lined
  <2> QED BY <2>3, <2>4
<1>3. Headers(d) \subseteq Headers(o)
  BY <1>1 DEF Headers
<1> QED BY <1>2, <1>3

(* Reading goes to the least of the ends.                                  *)
LEMMA ReadTo ==
  ASSUME NEW o, NEW i, NEW e \in Ends(o, i), \A k \in Ends(o, i) : e <= k,
         Ends(o, i) \subseteq Nat
  PROVE  Read(o, i) = Without(SubSeq(o, i + 1, e - 2), "indent")
<1>1. PICK c : c = CHOOSE j \in Ends(o, i) : \A k \in Ends(o, i) : j <= k
  OBVIOUS
<1>2. c \in Ends(o, i) /\ \A k \in Ends(o, i) : c <= k
  BY <1>1
<1>3. c = e
  <2>1. c <= e /\ e <= c /\ c \in Nat /\ e \in Nat
    BY <1>2
  <2> QED BY <2>1
<1> QED BY <1>1, <1>3 DEF Read

LEMMA EndsOfLined ==
  ASSUME NEW o \in Seq(Tokens), Lined(o), NEW i \in Nat, NEW n \in Nat, n = Len(o)
  PROVE  /\ \A j : j \in Ends(o, i) <=> j \in i + 1 .. n + 1 /\ (j \in Headers(o) \/ j = n + 1)
         /\ Ends(o, i) \subseteq Nat
BY StartsAreHeaders DEF Ends

(* What comes after the end of an event does not change how it is read.    *)
LEMMA ReadKept ==
  ASSUME NEW d \in Seq(Tokens), NEW w \in Seq(Tokens), Lined(d), Lined(w),
         NEW n \in Nat, NEW p \in Nat, n = Len(d), p = Len(w), n < p,
         \A j \in 1 .. n : w[j] = d[j],
         NEW i \in 1 .. n, NEW k \in Headers(w), i < k, k \in Headers(d) \/ k = n + 1
  PROVE  Read(w, i) = Read(d, i)
<1>1. DOMAIN d = 1 .. n /\ DOMAIN w = 1 .. p
  OBVIOUS
<1>2. \A j \in 1 .. n : j \in Headers(d) <=> j \in Headers(w)
  BY <1>1 DEF Headers
<1>3. Headers(d) \subseteq 1 .. n
  BY <1>1 DEF Headers
<1>4. /\ \A j : j \in Ends(d, i) <=> j \in i + 1 .. n + 1 /\ (j \in Headers(d) \/ j = n + 1)
      /\ Ends(d, i) \subseteq Nat
  <2>1. i \in Nat
    OBVIOUS
  <2> QED BY <2>1, EndsOfLined, Zenon
<1>5. /\ \A j : j \in Ends(w, i) <=> j \in i + 1 .. p + 1 /\ (j \in Headers(w) \/ j = p + 1)
      /\ Ends(w, i) \subseteq Nat
  <2>1. i \in Nat
    OBVIOUS
  <2> QED BY <2>1, EndsOfLined, Zenon
<1>6. PICK e \in Ends(d, i) : \A j \in Ends(d, i) : e <= j
  <2>1. n + 1 \in Ends(d, i)
    BY <1>4
  <2> QED BY <1>4, <2>1, LeastNatural
<1>7. e \in i + 1 .. n + 1 /\ (e \in Headers(d) \/ e = n + 1)
  BY <1>4
<1>8. e \in Headers(w)
  <2>1. CASE e \in Headers(d)
    BY <1>2, <1>3, <2>1
  <2>2. CASE e = n + 1
    <3>1. k \notin Headers(d)
      <4> SUFFICES ASSUME k \in Headers(d) PROVE FALSE
        OBVIOUS
      <4>1. k \in i + 1 .. n + 1 /\ k \in 1 .. n
        BY <1>3
      <4>2. e <= k
        BY <1>4, <1>6, <4>1
      <4> QED BY <2>2, <4>1, <4>2
    <3> QED BY <2>2, <3>1
  <2> QED BY <1>7, <2>1, <2>2
<1>9. e \in Ends(w, i)
  BY <1>5, <1>7, <1>8
<1>10. \A j \in Ends(w, i) : e <= j
  <2> SUFFICES ASSUME NEW j \in Ends(w, i), j <= n PROVE e <= j
    BY <1>5, <1>7
  <2>1. j \in i + 1 .. n /\ j \in Headers(w)
    BY <1>5
  <2>2. j \in Headers(d)
    BY <1>2, <2>1
  <2> QED BY <1>4, <1>6, <2>1, <2>2
<1>11. SubSeq(w, i + 1, e - 2) = SubSeq(d, i + 1, e - 2)
  <2>1. PICK z \in Nat : z = e - 2 /\ z <= n
    <3>1. e - 2 \in Nat /\ e - 2 <= n
      BY <1>7
    <3> QED BY <3>1
  <2>2. i + 1 \in Nat /\ 1 <= i + 1 /\ z <= Len(w) /\ z <= Len(d)
    BY <2>1
  <2>3. \A j \in i + 1 .. z : w[j] = d[j]
    BY <2>1
  <2>4. SubSeq(w, i + 1, z) = SubSeq(d, i + 1, z)
    BY <2>2, <2>3, SamePart
  <2> QED BY <2>1, <2>4
<1>12. Read(d, i) = Without(SubSeq(d, i + 1, e - 2), "indent")
  BY <1>4, <1>6, ReadTo
<1>13. Read(w, i) = Without(SubSeq(w, i + 1, e - 2), "indent")
  BY <1>5, <1>9, <1>10, ReadTo
<1> QED BY <1>11, <1>12, <1>13

(* The last event is read up to the line end.                              *)
LEMMA ReadLast ==
  ASSUME NEW o \in Seq(Tokens), NEW n \in Nat, n = Len(o),
         NEW w \in Seq(Tokens), w = Append(o, "eol"), Lined(w),
         NEW l \in Headers(o), \A i \in Headers(o) : i <= l
  PROVE  Read(w, l) = Without(SubSeq(o, l + 1, n), "indent")
<1>1. "eol" \in Tokens /\ "eol" # "header"
  BY DEF Tokens
<1>2. Len(w) = n + 1 /\ DOMAIN o = 1 .. n /\ \A j \in 1 .. n : w[j] = o[j]
  BY <1>1, AppendFacts
<1>3. Headers(w) = Headers(o) /\ Headers(o) \subseteq 1 .. n
  <2>1. Headers(w) = Headers(o)
    BY <1>1, HeadersAppend
  <2> QED BY <1>2, <2>1 DEF Headers
<1> PICK p \in Nat : p = n + 1
  OBVIOUS
<1>4. /\ \A j : j \in Ends(w, l) <=> j \in l + 1 .. p + 1 /\ (j \in Headers(o) \/ j = p + 1)
      /\ Ends(w, l) \subseteq Nat
  <2>1. l \in Nat /\ Len(w) = p
    BY <1>2, <1>3
  <2> QED BY <1>3, <2>1, EndsOfLined
<1>5. p + 1 \in Ends(w, l) /\ \A j \in Ends(w, l) : p + 1 <= j
  BY <1>3, <1>4
<1>6. Read(w, l) = Without(SubSeq(w, l + 1, (p + 1) - 2), "indent")
  BY <1>4, <1>5, ReadTo
<1>7. SubSeq(w, l + 1, n) = SubSeq(o, l + 1, n)
  <2>1. l + 1 \in Nat /\ 1 <= l + 1 /\ n <= Len(w) /\ \A j \in l + 1 .. n : w[j] = o[j]
    BY <1>2, <1>3
  <2> QED BY <2>1, SamePart
<1>8. (p + 1) - 2 = n
  OBVIOUS
<1> QED BY <1>6, <1>7, <1>8

(* What is shown and what can be read of a text are sequences of signs.    *)
LEMMA ShownType ==
  ASSUME NEW s \in Seq(Chars), NEW k \in Nat
  PROVE  Shown(s, k) \in Seq(Signs) /\ Legible(s) \in Seq(Signs)
<1>1. PICK n \in Nat : n = Len(s)
  OBVIOUS
<1>2. PICK m \in 0 .. n : Len(Body(s)) = m /\ Body(s) = SubSeq(s, 1, m)
  BY <1>1, BodyPart
<1>3. PICK j \in 0 .. n : j = IF k <= m THEN k ELSE m
  <2>1. (IF k <= m THEN k ELSE m) \in 0 .. n
    OBVIOUS
  <2> QED BY <2>1
<1>4. SubSeq(s, 1, j) \in Seq(Chars) /\ SubSeq(s, 1, m) \in Seq(Chars)
  BY <1>1
<1>5. Shown(s, k) = Plain(SubSeq(s, 1, j)) /\ Legible(s) = Plain(SubSeq(s, 1, m))
  BY <1>2, <1>3 DEF Shown, Legible, Plain
<1> QED BY <1>4, <1>5, PlainType

LEMMA PrefixOfPrefix ==
  ASSUME NEW S, NEW u \in Seq(S), NEW v \in Seq(S), NEW w \in Seq(S),
         IsPrefix(u, v), IsPrefix(v, w)
  PROVE  IsPrefix(u, w)
BY DEF IsPrefix

(* While its line is not ended, the last event is read in part.            *)
LEMMA ReadUnended ==
  ASSUME NEW o \in Seq(Tokens), NEW n \in Nat, n = Len(o), Lined(o),
         NEW l \in Headers(o), \A i \in Headers(o) : i <= l
  PROVE  /\ Read(o, l) \in Seq(Tokens)
         /\ IsPrefix(Read(o, l), Without(SubSeq(o, l + 1, n), "indent"))
<1>1. l \in 1 .. n
  BY DEF Headers
<1>2. /\ \A j : j \in Ends(o, l) <=> j \in l + 1 .. n + 1 /\ (j \in Headers(o) \/ j = n + 1)
      /\ Ends(o, l) \subseteq Nat
  <2>1. l \in Nat
    BY <1>1
  <2> QED BY <2>1, EndsOfLined
<1>3. n + 1 \in Ends(o, l) /\ \A j \in Ends(o, l) : n + 1 <= j
  BY <1>1, <1>2
<1>4. Read(o, l) = Without(SubSeq(o, l + 1, n - 1), "indent")
  <2>1. Read(o, l) = Without(SubSeq(o, l + 1, (n + 1) - 2), "indent")
    BY <1>2, <1>3, ReadTo
  <2>2. (n + 1) - 2 = n - 1
    OBVIOUS
  <2> QED BY <2>1, <2>2
<1>5. PICK u \in Seq(Tokens) : u = SubSeq(o, l + 1, n - 1)
  <2>1. SubSeq(o, l + 1, n - 1) \in Seq(Tokens)
    BY <1>1
  <2> QED BY <2>1
<1>6. PICK r \in Seq(Tokens) : r = Without(u, "indent")
  BY WithoutType
<1>7. CASE l = n
  <2>1. SubSeq(o, l + 1, n) = << >> /\ u = << >>
    BY <1>5, <1>7
  <2>2. Without(SubSeq(o, l + 1, n), "indent") = r
    BY <1>6, <2>1
  <2> QED BY <1>4, <1>5, <1>6, <2>2 DEF IsPrefix
<1>8. CASE l # n
  <2>1. PICK a \in Tokens : a = o[n]
    BY <1>1
  <2>2. SubSeq(o, l + 1, n) = Append(u, a)
    <3>1. PICK k \in Nat : k + 1 = n /\ l <= k
      <4>1. n - 1 \in Nat /\ (n - 1) + 1 = n /\ l <= n - 1
        BY <1>1, <1>8
      <4> QED BY <4>1
    <3>2. SubSeq(o, l + 1, k + 1) = Append(SubSeq(o, l + 1, k), o[k + 1])
      BY <1>1, <3>1
    <3>3. n - 1 = k
      BY <3>1
    <3> QED BY <1>5, <2>1, <3>1, <3>2, <3>3
  <2>3. Without(Append(u, a), "indent") = r \/ Without(Append(u, a), "indent") = Append(r, a)
    BY <1>6, WithoutAppend
  <2>4. IsPrefix(r, r) /\ IsPrefix(r, Append(r, a))
    BY DEF IsPrefix
  <2> QED BY <1>4, <1>5, <1>6, <2>2, <2>3, <2>4
<1> QED BY <1>7, <1>8

=============================================================================
