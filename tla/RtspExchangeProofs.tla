------------------------ MODULE RtspExchangeProofs ------------------------
(***************************************************************************)
(* Theorems about the codec of RtspCodec and about RtspExchange.  Every    *)
(* message that the library's users may write is read as it was meant,     *)
(* however its bytes were cut into pieces, and so the two ends of an       *)
(* exchange hand over what was sent, answers go with their requests, and a *)
(* session's id is carried.                                                *)
(*                                                                         *)
(* The decoder is a function defined by recursion on the position in the   *)
(* text.  What it computes is proved by induction, stated for a set of     *)
(* numbers in place of a predicate; every recursive definition is used     *)
(* only through a lemma that its function exists.                          *)
(***************************************************************************)
EXTENDS RtspExchange, SequenceTheorems, WellFoundedInduction, TLAPS

-----------------------------------------------------------------------------
(***************************************************************************)
(* Induction.                                                              *)
(***************************************************************************)
LEMMA NatSetInduction ==
    ASSUME NEW S, 0 \in S, \A n \in Nat : n \in S => n + 1 \in S
    PROVE  Nat \subseteq S
<1> DEFINE T == Nat \ S
           R == OpToRel(<, Nat)
<1>1. SUFFICES ASSUME T # {} PROVE FALSE
  OBVIOUS
<1>2. T \subseteq Nat
  OBVIOUS
<1>3. IsWellFoundedOn(R, Nat)
  BY NatLessThanWellFounded
<1>4. PICK n \in T : \A m \in T : <<m, n>> \notin R
  <2> HIDE DEF T, R
  <2>. QED
    BY <1>1, <1>2, <1>3, WFMin
<1>5. \A m \in Nat : m < n => <<m, n>> \in R
  <2>1. n \in Nat
    BY <1>4
  <2>. QED
    BY <2>1 DEF OpToRel
<1> HIDE DEF R
<1>6. n \in Nat /\ n \notin S /\ n # 0
  BY <1>4
<1>7. n - 1 \in Nat /\ n - 1 < n /\ n - 1 + 1 = n
  BY <1>6
<1>8. n - 1 \in S
  BY <1>4, <1>5, <1>7
<1>. QED
  BY <1>6, <1>7, <1>8

-----------------------------------------------------------------------------
(***************************************************************************)
(* The decoder after each token of a text, read from its beginning.        *)
(***************************************************************************)
Reading(kind, text) ==
    LET r[p \in 0 .. Len(text)] == IF p = 0 THEN NewDecoder
                                   ELSE Turn(kind, r[p - 1], text, p)
    IN r

IsReading(r, kind, text, n) ==
    r = [p \in 0 .. n |-> IF p = 0 THEN NewDecoder ELSE Turn(kind, r[p - 1], text, p)]

\* The decoder, token by token, is a function on the numbers.
LEMMA ReadingExists ==
    ASSUME NEW kind, NEW text, NEW n \in Nat
    PROVE  \E r : IsReading(r, kind, text, n)
<1> DEFINE Is(r, k) == IsReading(r, kind, text, k)
           S == {k \in Nat : \E r : Is(r, k)}
<1>1. 0 \in S
  <2> DEFINE r == [p \in 0 .. 0 |-> NewDecoder]
  <2>1. Is(r, 0)
    BY DEF IsReading
  <2> HIDE DEF Is, r
  <2>. QED
    BY <2>1
<1>2. ASSUME NEW k \in Nat, k \in S PROVE k + 1 \in S
  <2>1. PICK r : Is(r, k)
    BY <1>2
  <2> DEFINE f == [p \in 0 .. k + 1 |-> IF p <= k THEN r[p]
                                        ELSE Turn(kind, r[k], text, k + 1)]
  <2>2. \A p \in 0 .. k + 1 :
            f[p] = IF p = 0 THEN NewDecoder ELSE Turn(kind, f[p - 1], text, p)
    <3> TAKE p \in 0 .. k + 1
    <3>1. CASE p = 0
      BY <2>1, <3>1 DEF IsReading
    <3>2. CASE p # 0 /\ p <= k
      <4>1. p - 1 \in 0 .. k + 1 /\ p - 1 <= k /\ p \in 0 .. k
        BY <3>2
      <4>2. f[p - 1] = r[p - 1] /\ f[p] = r[p]
        BY <3>2, <4>1
      <4>. QED
        BY <2>1, <3>2, <4>1, <4>2 DEF IsReading
    <3>3. CASE p = k + 1
      <4>1. p - 1 = k /\ k \in 0 .. k + 1 /\ p # 0 /\ ~(k + 1 <= k)
        BY <3>3
      <4>2. f[k] = r[k] /\ f[k + 1] = Turn(kind, r[k], text, k + 1)
        BY <4>1
      <4>. QED
        BY <3>3, <4>1, <4>2
    <3>. QED
      BY <3>1, <3>2, <3>3
  <2>3. Is(f, k + 1)
    BY <2>2 DEF IsReading
  <2> HIDE DEF Is, f
  <2>. QED
    BY <2>3
<1>3. n \in S
  <2> HIDE DEF S
  <2>. QED
    BY <1>1, <1>2, NatSetInduction
<1>. QED
  BY <1>3

\* A step of it is one turn on what the last step left.
LEMMA ReadingStep ==
    ASSUME NEW kind, NEW text \in Seq(Token)
    PROVE  /\ Reading(kind, text)[0] = NewDecoder
           /\ \A p \in 1 .. Len(text) :
                  Reading(kind, text)[p] = Turn(kind, Reading(kind, text)[p - 1], text, p)
<1> DEFINE n == Len(text)
           R == Reading(kind, text)
<1>1. n \in Nat
  OBVIOUS
<1>2. \E r : IsReading(r, kind, text, n)
  <2> HIDE DEF n
  <2>. QED
    BY <1>1, ReadingExists
<1>3. R = [p \in 0 .. n |-> IF p = 0 THEN NewDecoder ELSE Turn(kind, R[p - 1], text, p)]
  BY <1>2 DEF Reading, IsReading
<1>4. ASSUME NEW p \in 0 .. n
      PROVE  R[p] = IF p = 0 THEN NewDecoder ELSE Turn(kind, R[p - 1], text, p)
  <2> HIDE DEF R, n
  <2>. QED
    BY <1>3
<1>5. 0 \in 0 .. n /\ \A p \in 1 .. n : p \in 0 .. n /\ p # 0
  BY <1>1
<1>. QED
  BY <1>4, <1>5
-----------------------------------------------------------------------------
(***************************************************************************)
(* Texts.                                                                  *)
(***************************************************************************)
Text == Seq(Token)
Header == [key : Token, value : Text]

\* From position p + 1 on, t spells s.
Spells(t, p, s) == /\ p + Len(s) <= Len(t)
                   /\ \A i \in 1 .. Len(s) : t[p + i] = s[i]

\* What a concatenation holds, and where.
LEMMA Concat ==
    ASSUME NEW a \in Text, NEW b \in Text
    PROVE  /\ a \o b \in Text /\ Len(a \o b) = Len(a) + Len(b)
           /\ \A i \in 1 .. Len(a) : (a \o b)[i] = a[i]
           /\ \A i \in 1 .. Len(b) : (a \o b)[Len(a) + i] = b[i]
BY ConcatProperties DEF Text

LEMMA SpellsParts ==
    ASSUME NEW t \in Text, NEW p \in Nat, NEW a \in Text, NEW b \in Text,
           Spells(t, p, a \o b)
    PROVE  Spells(t, p, a) /\ Spells(t, p + Len(a), b)
<1>1. /\ Len(a \o b) = Len(a) + Len(b)
      /\ \A i \in 1 .. Len(a) : (a \o b)[i] = a[i]
      /\ \A i \in 1 .. Len(b) : (a \o b)[Len(a) + i] = b[i]
  BY Concat
<1>2. Len(a) \in Nat /\ Len(b) \in Nat /\ Len(t) \in Nat
  BY DEF Text
<1>3. p + Len(a) + Len(b) <= Len(t)
  BY <1>1, <1>2 DEF Spells
<1>4. \A i \in 1 .. Len(a) : t[p + i] = a[i]
  BY <1>1, <1>2 DEF Spells
<1>5. ASSUME NEW i \in 1 .. Len(b) PROVE t[p + Len(a) + i] = b[i]
  <2>1. Len(a) + i \in 1 .. Len(a \o b) /\ p + (Len(a) + i) = p + Len(a) + i
    BY <1>1, <1>2
  <2>. QED
    BY <1>1, <2>1 DEF Spells
<1>. QED
  BY <1>2, <1>3, <1>4, <1>5 DEF Spells

LEMMA SpellsItself == ASSUME NEW t \in Text PROVE Spells(t, 0, t)
BY DEF Spells, Text

\* What a text spells is a part of it.
LEMMA SpellsSubSeq ==
    ASSUME NEW t \in Text, NEW p \in Nat, NEW s \in Text, Spells(t, p, s)
    PROVE  SubSeq(t, p + 1, p + Len(s)) = s
<1> DEFINE u == SubSeq(t, p + 1, p + Len(s))
<1>1. Len(s) \in Nat /\ Len(t) \in Nat /\ p + Len(s) <= Len(t)
  BY DEF Spells, Text
<1>2. u \in Text /\ Len(u) = Len(s)
  BY <1>1 DEF Text
<1>3. \A i \in 1 .. Len(s) : u[i] = s[i]
  BY <1>1 DEF Spells, Text
<1>. QED
  BY <1>2, <1>3, SeqEqual DEF Text

\* Two texts that agree up to b have the same parts up to there.
LEMMA SameSubSeq ==
    ASSUME NEW s \in Text, NEW t \in Text, NEW n \in Nat, n <= Len(s), n <= Len(t),
           \A i \in 1 .. n : s[i] = t[i],
           NEW a \in Nat, a >= 1, NEW b \in Int, b <= n
    PROVE  SubSeq(s, a, b) = SubSeq(t, a, b)
<1> DEFINE u == SubSeq(s, a, b)
           v == SubSeq(t, a, b)
<1>1. u \in Text /\ v \in Text /\ Len(u) = Len(v)
  BY DEF Text
<1>2. \A i \in 1 .. Len(u) : u[i] = v[i]
  BY DEF Text
<1>. QED
  BY <1>1, <1>2, SeqEqual DEF Text

\* FlattenSeq appends one text after the other.
IsFlat(f, texts, n) ==
    f = [i \in 1 .. n |-> IF i = 1 THEN texts[i] ELSE f[i - 1] \o texts[i]]

\* FlattenSeq, as a function of how many texts are joined.
LEMMA FlatExists == ASSUME NEW texts, NEW n \in Nat PROVE \E f : IsFlat(f, texts, n)
<1> DEFINE S == {k \in Nat : \E f : IsFlat(f, texts, k)}
<1>1. 0 \in S
  <2> DEFINE f == [i \in 1 .. 0 |-> <<>>]
  <2>1. IsFlat(f, texts, 0)
    BY DEF IsFlat
  <2> HIDE DEF f
  <2>. QED
    BY <2>1
<1>2. ASSUME NEW k \in Nat, k \in S PROVE k + 1 \in S
  <2>1. PICK g : IsFlat(g, texts, k)
    BY <1>2
  <2> DEFINE last == IF k = 0 THEN texts[k + 1] ELSE g[k] \o texts[k + 1]
             f == [i \in 1 .. k + 1 |-> IF i <= k THEN g[i] ELSE last]
  <2>2. \A i \in 1 .. k + 1 : f[i] = IF i = 1 THEN texts[i] ELSE f[i - 1] \o texts[i]
    <3> TAKE i \in 1 .. k + 1
    <3>1. CASE i <= k
      <4>1. i \in 1 .. k /\ (i # 1 => i - 1 \in 1 .. k + 1 /\ i - 1 <= k)
        BY <3>1
      <4>2. f[i] = g[i] /\ (i # 1 => f[i - 1] = g[i - 1])
        BY <3>1, <4>1
      <4>. QED
        BY <2>1, <4>1, <4>2 DEF IsFlat
    <3>2. CASE i = k + 1
      <4>1. f[k + 1] = last
        OBVIOUS
      <4>2. CASE k = 0
        BY <3>2, <4>1, <4>2
      <4>3. CASE k # 0
        <5>1. i # 1 /\ i - 1 = k /\ k \in 1 .. k + 1
          BY <3>2, <4>3
        <5>2. f[k] = g[k]
          BY <5>1
        <5>. QED
          BY <3>2, <4>1, <4>3, <5>1, <5>2
      <4>. QED
        BY <4>2, <4>3
    <3>. QED
      BY <3>1, <3>2
  <2>3. IsFlat(f, texts, k + 1)
    BY <2>2 DEF IsFlat
  <2> HIDE DEF f
  <2>. QED
    BY <2>3
<1>3. n \in S
  <2> HIDE DEF S
  <2>. QED
    BY <1>1, <1>2, NatSetInduction
<1>. QED
  BY <1>3

LEMMA FlattenSteps ==
    ASSUME NEW texts \in Seq(Text)
    PROVE  \E f \in [0 .. Len(texts) -> Text] :
               /\ f[0] = <<>> /\ f[Len(texts)] = FlattenSeq(texts)
               /\ \A i \in 1 .. Len(texts) : f[i] = f[i - 1] \o texts[i]
<1> DEFINE n == Len(texts)
<1>1. n \in Nat /\ \A i \in 1 .. n : texts[i] \in Text
  OBVIOUS
<1>2. <<>> \in Text /\ \A s \in Text : <<>> \o s = s
  BY ConcatEmptySeq DEF Text
<1>3. \E f : IsFlat(f, texts, n)
  <2> HIDE DEF n
  <2>. QED
    BY <1>1, FlatExists
<1>4. PICK g : IsFlat(g, texts, n) /\ (n # 0 => FlattenSeq(texts) = g[n])
  <2> DEFINE g == CHOOSE f : IsFlat(f, texts, n)
  <2>1. IsFlat(g, texts, n)
    BY <1>3
  <2>2. n # 0 => FlattenSeq(texts) = g[n]
    BY DEF FlattenSeq, IsFlat
  <2> HIDE DEF g
  <2>. QED
    BY <2>1, <2>2
<1>5. \A i \in 1 .. n : g[i] = IF i = 1 THEN texts[i] ELSE g[i - 1] \o texts[i]
  <2> HIDE DEF n
  <2>. QED
    BY <1>4 DEF IsFlat
<1> HIDE DEF n
<1> DEFINE f == [i \in 0 .. n |-> IF i = 0 THEN <<>> ELSE g[i]]
           S == {k \in Nat : k \in 1 .. n => g[k] \in Text}
<1>6. \A i \in 1 .. n : g[i] \in Text
  <2>1. 0 \in S
    OBVIOUS
  <2>2. ASSUME NEW k \in Nat, k \in S PROVE k + 1 \in S
    <3>1. SUFFICES ASSUME k + 1 \in 1 .. n PROVE g[k + 1] \in Text
      OBVIOUS
    <3>2. CASE k = 0
      BY <1>1, <1>5, <3>1, <3>2
    <3>3. CASE k # 0
      <4>1. k \in 1 .. n
        BY <1>1, <3>1, <3>3
      <4> DEFINE j == k + 1
      <4>2. j \in 1 .. n /\ j # 1 /\ j - 1 = k
        BY <1>1, <3>1, <3>3
      <4> HIDE DEF j
      <4>3. g[j] = g[k] \o texts[j]
        BY <1>5, <4>2
      <4>4. g[k] \in Text /\ texts[j] \in Text
        BY <1>1, <2>2, <4>1, <4>2
      <4>5. g[j] \in Text
        BY <4>3, <4>4, Concat
      <4>. QED
        BY <4>5 DEF j
    <3>. QED
      BY <3>2, <3>3
  <2>3. Nat \subseteq S
    <3> HIDE DEF S
    <3>. QED
      BY <2>1, <2>2, NatSetInduction
  <2>. QED
    BY <1>1, <2>3
<1>7. f \in [0 .. n -> Text]
  BY <1>2, <1>6
<1>8. f[0] = <<>> /\ f[n] = FlattenSeq(texts)
  <2>1. CASE n = 0
    <3>1. texts = <<>> /\ FlattenSeq(texts) = texts
      BY <2>1 DEF FlattenSeq, n
    <3>. QED
      BY <2>1, <3>1
  <2>2. CASE n # 0
    BY <1>1, <1>4, <2>2
  <2>. QED
    BY <2>1, <2>2
<1>9. \A i \in 1 .. n : f[i] = f[i - 1] \o texts[i]
  <2> TAKE i \in 1 .. n
  <2>1. CASE i = 1
    <3>1. g[1] = texts[1] /\ texts[1] \in Text
      BY <1>1, <1>5, <2>1
    <3>2. f[1] = texts[1] /\ f[0] = <<>>
      BY <1>1, <2>1, <3>1
    <3>3. i - 1 = 0 /\ <<>> \o texts[1] = texts[1]
      BY <1>2, <2>1, <3>1
    <3> HIDE DEF f
    <3>. QED
      BY <2>1, <3>2, <3>3
  <2>2. CASE i # 1
    <3>1. i - 1 \in 0 .. n /\ i - 1 # 0 /\ i \in 0 .. n /\ i # 0
      BY <1>1, <2>2
    <3>. QED
      BY <1>5, <2>2, <3>1
  <2>. QED
    BY <2>1, <2>2
<1> HIDE DEF f
<1>. QED
  BY <1>7, <1>8, <1>9 DEF n

\* The headers that are kept, newest first, grow with the headers read.
IsKept(f, heads, n) ==
    f = [i \in 0 .. n |-> IF i = 0 THEN <<>>
                          ELSE IF heads[i].key \in KeptKeys THEN <<heads[i]>> \o f[i - 1]
                          ELSE f[i - 1]]

\* KeptHeads, as a function of how many headers have been seen.
LEMMA KeptExists == ASSUME NEW heads, NEW n \in Nat PROVE \E f : IsKept(f, heads, n)
<1> DEFINE S == {k \in Nat : \E f : IsKept(f, heads, k)}
<1>1. 0 \in S
  <2> DEFINE f == [i \in 0 .. 0 |-> <<>>]
  <2>1. IsKept(f, heads, 0)
    BY DEF IsKept
  <2> HIDE DEF f
  <2>. QED
    BY <2>1
<1>2. ASSUME NEW k \in Nat, k \in S PROVE k + 1 \in S
  <2>1. PICK g : IsKept(g, heads, k)
    BY <1>2
  <2> DEFINE last == IF heads[k + 1].key \in KeptKeys THEN <<heads[k + 1]>> \o g[k] ELSE g[k]
             f == [i \in 0 .. k + 1 |-> IF i <= k THEN g[i] ELSE last]
  <2>2. \A i \in 0 .. k + 1 :
            f[i] = IF i = 0 THEN <<>>
                   ELSE IF heads[i].key \in KeptKeys THEN <<heads[i]>> \o f[i - 1]
                   ELSE f[i - 1]
    <3> TAKE i \in 0 .. k + 1
    <3>1. CASE i <= k
      <4>1. i \in 0 .. k /\ (i # 0 => i - 1 \in 0 .. k + 1 /\ i - 1 <= k)
        BY <3>1
      <4>2. f[i] = g[i] /\ (i # 0 => f[i - 1] = g[i - 1])
        BY <3>1, <4>1
      <4>. QED
        BY <2>1, <4>1, <4>2 DEF IsKept
    <3>2. CASE i = k + 1
      <4>1. i # 0 /\ i - 1 = k /\ k \in 0 .. k + 1 /\ k <= k /\ ~(k + 1 <= k)
        BY <3>2
      <4>2. f[k] = g[k] /\ f[k + 1] = last
        BY <4>1
      <4> HIDE DEF f
      <4>. QED
        BY <3>2, <4>1, <4>2
    <3>. QED
      BY <3>1, <3>2
  <2>3. IsKept(f, heads, k + 1)
    BY <2>2 DEF IsKept
  <2> HIDE DEF f
  <2>. QED
    BY <2>3
<1>3. n \in S
  <2> HIDE DEF S
  <2>. QED
    BY <1>1, <1>2, NatSetInduction
<1>. QED
  BY <1>3

LEMMA KeptSteps ==
    ASSUME NEW heads \in Seq(Header)
    PROVE  \E f \in [0 .. Len(heads) -> Seq(Header)] :
               /\ f[0] = <<>> /\ f[Len(heads)] = KeptHeads(heads)
               /\ \A i \in 1 .. Len(heads) :
                      f[i] = IF heads[i].key \in KeptKeys THEN <<heads[i]>> \o f[i - 1]
                                                          ELSE f[i - 1]
<1> DEFINE n == Len(heads)
<1>1. n \in Nat /\ \A i \in 1 .. n : heads[i] \in Header
  OBVIOUS
<1>2. \E f : IsKept(f, heads, n)
  <2> HIDE DEF n
  <2>. QED
    BY <1>1, KeptExists
<1>3. PICK f : IsKept(f, heads, n) /\ KeptHeads(heads) = f[n]
  <2> DEFINE f == CHOOSE f : IsKept(f, heads, n)
  <2>1. IsKept(f, heads, n)
    BY <1>2
  <2>2. KeptHeads(heads) = f[n]
    BY DEF KeptHeads, IsKept
  <2> HIDE DEF f
  <2>. QED
    BY <2>1, <2>2
<1> HIDE DEF n
<1>4. f[0] = <<>> /\ DOMAIN f = 0 .. n /\ f = [i \in DOMAIN f |-> f[i]]
  BY <1>1, <1>3 DEF IsKept
<1>5. \A i \in 1 .. n : f[i] = IF heads[i].key \in KeptKeys THEN <<heads[i]>> \o f[i - 1]
                                                            ELSE f[i - 1]
  <2> TAKE i \in 1 .. n
  <2>1. i \in 0 .. n /\ i # 0
    OBVIOUS
  <2>. QED
    BY <1>3, <2>1 DEF IsKept
<1> DEFINE S == {k \in Nat : k \in 0 .. n => f[k] \in Seq(Header)}
<1>6. \A i \in 0 .. n : f[i] \in Seq(Header)
  <2>1. 0 \in S
    <3>1. f[0] = <<>>
      BY <1>4
    <3>2. f[0] \in Seq(Header)
      BY <3>1
    <3>. QED
      BY <3>2
  <2>2. ASSUME NEW k \in Nat, k \in S PROVE k + 1 \in S
    <3>1. SUFFICES ASSUME k + 1 \in 0 .. n PROVE f[k + 1] \in Seq(Header)
      OBVIOUS
    <3> DEFINE j == k + 1
    <3>2. j \in 1 .. n /\ j - 1 = k /\ k \in 0 .. n
      BY <1>1, <3>1
    <3> HIDE DEF j
    <3>3. f[k] \in Seq(Header) /\ heads[j] \in Header
      BY <1>1, <2>2, <3>2
    <3>4. f[j] = IF heads[j].key \in KeptKeys THEN <<heads[j]>> \o f[k] ELSE f[k]
      BY <1>5, <3>2
    <3>5. <<heads[j]>> \o f[k] \in Seq(Header)
      BY <3>3, ConcatProperties
    <3>6. f[j] \in Seq(Header)
      BY <3>3, <3>4, <3>5
    <3>. QED
      BY <3>6 DEF j
  <2>3. Nat \subseteq S
    <3> HIDE DEF S
    <3>. QED
      BY <2>1, <2>2, NatSetInduction
  <2>4. \A i \in 0 .. n : i \in S
    BY <1>1, <2>3
  <2>. QED
    BY <2>4
<1>7. f \in [0 .. n -> Seq(Header)]
  BY <1>4, <1>6
<1>. QED
  BY <1>3, <1>4, <1>5, <1>7 DEF n

-----------------------------------------------------------------------------
(***************************************************************************)
(* One turn of the decoder.                                                *)
(***************************************************************************)
Kinds == {"request", "response"}

States == {"start", "method", "spaces_before_uri", "uri", "spaces_after_uri", "version",
           "space_after_version", "status_code", "space_after_status_code", "status_text",
           "rl_crlf", "head_key", "head_colon", "head_value", "head_crlf", "head_end", "body"}

Decoder == [state : States, offset : Nat, start : Nat, key : Nat, keyEnd : Nat,
            value : Nat, bodyStart : Nat, ret : {"more", "done", "bad"},
            method : Methods \cup {"NONE"}, code : Nat, cseq : Nat, heads : Seq(Header),
            bodyLen : Nat, body : Text]

\* The types of the decoder, and what a turn looks at.
LEMMA NewDecoderType == NewDecoder \in Decoder
<1> DEFINE h == <<>>
           b == <<>>
           d == [state |-> "start", offset |-> 1, start |-> 0, key |-> 0, keyEnd |-> 0,
                 value |-> 0, bodyStart |-> 0, ret |-> "more", method |-> "NONE", code |-> 0,
                 cseq |-> 0, heads |-> h, bodyLen |-> 0, body |-> b]
<1>1. h \in Seq(Header) /\ b \in Text
  BY DEF Text
<1>2. NewDecoder = d
  BY DEF NewDecoder
<1> HIDE DEF h, b
<1>3. d \in Decoder
  BY <1>1 DEF Decoder, States
<1>. QED
  BY <1>2, <1>3

\* The places a state refers to lie among the first n tokens.
Placed(d, n) ==
    /\ d.state \in {"method", "uri", "version", "status_code"} => d.start >= 1
    /\ d.state = "head_value" => d.key >= 1 /\ d.keyEnd <= n /\ d.value >= 1
    /\ d.state = "body" => d.bodyStart >= 1

\* What the decoder does with a token depends on the tokens up to it only.
LEMMA HeadsSame ==
    ASSUME NEW d \in Decoder, NEW c, NEW s \in Text, NEW t \in Text, NEW p \in Nat, p >= 1,
           p <= Len(s), p <= Len(t), \A i \in 1 .. p : s[i] = t[i], Placed(d, p)
    PROVE  Heads(d, c, s, p) = Heads(d, c, t, p)
<1>1. CASE d.state = "head_value"
  <2>1. /\ d.key \in Nat /\ d.key >= 1 /\ d.keyEnd \in Int /\ d.keyEnd <= p
        /\ d.value \in Nat /\ d.value >= 1 /\ p - 1 \in Int /\ p - 1 <= p
    BY <1>1 DEF Decoder, Placed
  <2>2. SubSeq(s, d.key, d.keyEnd) = SubSeq(t, d.key, d.keyEnd)
    BY <2>1, SameSubSeq
  <2>3. SubSeq(s, d.value, p - 1) = SubSeq(t, d.value, p - 1)
    <3> DEFINE a == d.value
               b == p - 1
    <3>1. a \in Nat /\ a >= 1 /\ b \in Int /\ b <= p
      BY <2>1
    <3> HIDE DEF a, b
    <3>2. SubSeq(s, a, b) = SubSeq(t, a, b)
      BY <3>1, SameSubSeq
    <3>. QED
      BY <3>2 DEF a, b
  <2>4. StoreHead(d, s, p) = StoreHead(d, t, p)
    BY <2>2, <2>3 DEF StoreHead
  <2>. QED
    BY <1>1, <2>4 DEF Heads
<1>2. CASE d.state # "head_value"
  BY <1>2 DEF Heads
<1>. QED
  BY <1>1, <1>2

LEMMA BodySame ==
    ASSUME NEW d \in Decoder, NEW c, NEW s \in Text, NEW t \in Text, NEW p \in Nat, p >= 1,
           p <= Len(s), p <= Len(t), \A i \in 1 .. p : s[i] = t[i], Placed(d, p),
           d.state \in {"head_end", "body"}
    PROVE  Body(d, c, s, p) = Body(d, c, t, p)
<1>1. CASE d.state = "body"
  <2>1. SubSeq(s, d.bodyStart, p) = SubSeq(t, d.bodyStart, p)
    <3>1. d.bodyStart \in Nat /\ d.bodyStart >= 1 /\ p \in Int /\ p <= p
      BY <1>1 DEF Decoder, Placed
    <3>. QED
      BY <3>1, SameSubSeq
  <2>. QED
    BY <1>1, <2>1 DEF Body
<1>2. CASE d.state = "head_end"
  BY <1>2 DEF Body
<1>. QED
  BY <1>1, <1>2

LEMMA LineSame ==
    ASSUME NEW kind, NEW d \in Decoder, NEW c, NEW s \in Text, NEW t \in Text,
           NEW p \in Nat, p >= 1,
           p <= Len(s), p <= Len(t), \A i \in 1 .. p : s[i] = t[i], Placed(d, p)
    PROVE  FirstLine(kind, d, c, s, p) = FirstLine(kind, d, c, t, p)
<1>1. CASE d.state \in {"method", "uri", "version", "status_code"}
  <2>1. SubSeq(s, d.start, p - 1) = SubSeq(t, d.start, p - 1)
    <3>1. d.start \in Nat /\ d.start >= 1 /\ p - 1 \in Int /\ p - 1 <= p
      BY <1>1 DEF Decoder, Placed
    <3>. QED
      BY <3>1, SameSubSeq
  <2>2. /\ AtMethod(d, c, s, p) = AtMethod(d, c, t, p)
        /\ AtUri(d, c, s, p) = AtUri(d, c, t, p)
        /\ AtRequestVersion(d, c, s, p) = AtRequestVersion(d, c, t, p)
        /\ StatusLine(d, c, s, p) = StatusLine(d, c, t, p)
    BY <2>1 DEF AtMethod, AtUri, AtRequestVersion, StatusLine
  <2>. QED
    BY <2>2 DEF FirstLine, RequestLine
<1>2. CASE d.state \notin {"method", "uri", "version", "status_code"}
  <2>1. AtUri(d, c, s, p) = AtUri(d, c, t, p)
    BY <1>2 DEF AtUri
  <2>2. AtRequestVersion(d, c, s, p) = AtRequestVersion(d, c, t, p)
    BY <1>2 DEF AtRequestVersion
  <2>3. StatusLine(d, c, s, p) = StatusLine(d, c, t, p)
    BY <1>2 DEF StatusLine
  <2>. QED
    BY <1>2, <2>1, <2>2, <2>3 DEF FirstLine, RequestLine
<1>. QED
  BY <1>1, <1>2

LEMMA TurnSame ==
    ASSUME NEW kind, NEW d \in Decoder, NEW s \in Text, NEW t \in Text, NEW p \in Nat, p >= 1,
           p <= Len(s), p <= Len(t), \A i \in 1 .. p : s[i] = t[i], Placed(d, p)
    PROVE  Turn(kind, d, s, p) = Turn(kind, d, t, p)
<1> DEFINE e == [d EXCEPT !.offset = p]
<1>1. e \in Decoder /\ Placed(e, p) /\ e.state = d.state
  BY DEF Decoder, Placed
<1>2. s[p] = t[p]
  OBVIOUS
<1> HIDE DEF e
<1>3. Heads(e, s[p], s, p) = Heads(e, t[p], t, p)
  BY <1>1, <1>2, HeadsSame
<1>4. d.state \in {"head_end", "body"} => Body(e, s[p], s, p) = Body(e, t[p], t, p)
  BY <1>1, <1>2, BodySame
<1>5. FirstLine(kind, e, s[p], s, p) = FirstLine(kind, e, t[p], t, p)
  BY <1>1, <1>2, LineSame
<1>. QED
  BY <1>3, <1>4, <1>5 DEF Turn, e

-----------------------------------------------------------------------------
(***************************************************************************)
(* What a turn does to a decoder, field by field.                          *)
(***************************************************************************)
\* What the decoder has gathered.
Content(d) == [method |-> d.method, code |-> d.code, cseq |-> d.cseq, heads |-> d.heads,
               bodyLen |-> d.bodyLen, body |-> d.body]

\* A turn at p has led from d to e, which has gathered c and goes on.
Moved(d, e, p, c) == e \in Decoder /\ e.offset = p /\ e.ret = d.ret /\ Content(e) = c

LookedAt(d, p) == [d EXCEPT !.offset = p]

LEMMA Looked ==
    ASSUME NEW d \in Decoder, NEW p \in Nat
    PROVE  /\ Moved(d, LookedAt(d, p), p, Content(d))
           /\ LookedAt(d, p).state = d.state /\ LookedAt(d, p).start = d.start
           /\ LookedAt(d, p).key = d.key /\ LookedAt(d, p).keyEnd = d.keyEnd
           /\ LookedAt(d, p).value = d.value /\ LookedAt(d, p).bodyStart = d.bodyStart
           /\ d.offset = p => LookedAt(d, p) = d
BY DEF Decoder, Moved, Content, LookedAt

LEMMA Entered ==
    ASSUME NEW d \in Decoder, NEW s \in States
    PROVE  LET e == Enter(d, s)
           IN /\ Moved(d, e, d.offset, Content(d)) /\ e.state = s /\ e.start = d.start
              /\ e.key = d.key /\ e.keyEnd = d.keyEnd /\ e.value = d.value
              /\ e.bodyStart = d.bodyStart
BY DEF Decoder, Moved, Content, Enter

LEMMA Marked ==
    ASSUME NEW d \in Decoder, NEW p \in Nat
    PROVE  /\ LET e == [d EXCEPT !.start = p]
              IN Moved(d, e, d.offset, Content(d)) /\ e.state = d.state /\ e.start = p
           /\ LET e == [d EXCEPT !.key = p]
              IN Moved(d, e, d.offset, Content(d)) /\ e.state = d.state /\ e.key = p
           /\ LET e == [d EXCEPT !.keyEnd = p]
              IN Moved(d, e, d.offset, Content(d)) /\ e.state = d.state /\ e.key = d.key
                                                   /\ e.keyEnd = p
           /\ LET e == [d EXCEPT !.value = p]
              IN Moved(d, e, d.offset, Content(d)) /\ e.state = d.state /\ e.key = d.key
                                                   /\ e.keyEnd = d.keyEnd /\ e.value = p
           /\ LET e == [d EXCEPT !.bodyStart = p]
              IN Moved(d, e, d.offset, Content(d)) /\ e.state = d.state /\ e.bodyStart = p
BY DEF Decoder, Moved, Content

\* Within the headers: the token is passed over, or a part of a header begins.
LEMMA TurnIsHeads ==
    ASSUME NEW kind, NEW d, NEW text, NEW p, d.state \in HeadStates
    PROVE  Turn(kind, d, text, p) = Heads(LookedAt(d, p), text[p], text, p)
BY DEF Turn, HeadStates, LookedAt

PassesOver(d, c) == \/ d.state \in {"rl_crlf", "head_crlf"} /\ c = LF
                    \/ d.state = "head_key" /\ c # Colon
                    \/ d.state = "head_colon" /\ c = SP
                    \/ d.state = "head_value" /\ c # CR

\* One lemma for each way a turn within the headers may go.
LEMMA TurnStays ==
    ASSUME NEW kind, NEW d \in Decoder, NEW text, NEW p \in Nat, p >= 1, NEW f,
           f = Turn(kind, d, text, p),
           PassesOver(d, text[p])
    PROVE  f = LookedAt(d, p)
<1> DEFINE e == LookedAt(d, p)
<1>1. e.state = d.state
  BY Looked
<1>2. f = Heads(e, text[p], text, p)
  BY TurnIsHeads DEF HeadStates, PassesOver
<1> HIDE DEF e
<1>3. CASE d.state = "rl_crlf" /\ text[p] = LF
  BY <1>1, <1>2, <1>3 DEF Heads, e
<1>4. CASE d.state = "head_crlf" /\ text[p] = LF
  BY <1>1, <1>2, <1>4 DEF Heads, LF, CR, e
<1>5. CASE d.state = "head_key" /\ text[p] # Colon
  BY <1>1, <1>2, <1>5 DEF Heads, e
<1>6. CASE d.state = "head_colon" /\ text[p] = SP
  BY <1>1, <1>2, <1>6 DEF Heads, e
<1>7. CASE d.state = "head_value" /\ text[p] # CR
  BY <1>1, <1>2, <1>7 DEF Heads, e
<1>. QED
  BY <1>3, <1>4, <1>5, <1>6, <1>7 DEF PassesOver

LEMMA TurnKey ==
    ASSUME NEW kind, NEW d \in Decoder, NEW text, NEW p \in Nat, p >= 1, NEW f,
           f = Turn(kind, d, text, p), d.state \in {"rl_crlf", "head_crlf"}, text[p] \notin {CR, LF}
    PROVE  Moved(d, f, p, Content(d)) /\ f.state = "head_key" /\ f.key = p
<1> DEFINE e == LookedAt(d, p)
           k == p
           g == Enter(e, "head_key")
           h == [g EXCEPT !.key = k]
<1>1. /\ e \in Decoder /\ e.state = d.state /\ e.offset = p /\ e.ret = d.ret
      /\ Content(e) = Content(d) /\ e.key = d.key /\ e.keyEnd = d.keyEnd
  BY Looked DEF Moved
<1>2. f = Heads(e, text[p], text, p)
  BY TurnIsHeads DEF HeadStates
<1> HIDE DEF e
<1>3. Heads(e, text[p], text, p) = h
  BY <1>1 DEF Heads, CR, LF
<1>4. /\ g \in Decoder /\ g.offset = p /\ g.ret = d.ret /\ Content(g) = Content(d)
      /\ g.state = "head_key" /\ g.key = d.key /\ g.keyEnd = d.keyEnd
  <2>1. "head_key" \in States
    BY DEF States
  <2>. QED
    BY <1>1, <2>1, Entered DEF Moved
<1>5. k \in Nat
  OBVIOUS
<1> HIDE DEF g, k
<1>6. Moved(d, h, p, Content(d)) /\ h.state = "head_key" /\ h.key = p
  BY <1>4, <1>5, Marked DEF Moved, k
<1> HIDE DEF h
<1>. QED
  BY <1>2, <1>3, <1>6

LEMMA TurnColon ==
    ASSUME NEW kind, NEW d \in Decoder, NEW text, NEW p \in Nat, p >= 1, NEW f,
           f = Turn(kind, d, text, p), d.state = "head_key", text[p] = Colon
    PROVE  /\ Moved(d, f, p, Content(d)) /\ f.state = "head_colon" /\ f.key = d.key
           /\ f.keyEnd = p - 1
<1> DEFINE e == LookedAt(d, p)
           k == p - 1
           g == Enter(e, "head_colon")
           h == [g EXCEPT !.keyEnd = k]
<1>1. /\ e \in Decoder /\ e.state = d.state /\ e.offset = p /\ e.ret = d.ret
      /\ Content(e) = Content(d) /\ e.key = d.key /\ e.keyEnd = d.keyEnd
  BY Looked DEF Moved
<1>2. f = Heads(e, text[p], text, p)
  BY TurnIsHeads DEF HeadStates
<1> HIDE DEF e
<1>3. Heads(e, text[p], text, p) = h
  BY <1>1 DEF Heads
<1>4. /\ g \in Decoder /\ g.offset = p /\ g.ret = d.ret /\ Content(g) = Content(d)
      /\ g.state = "head_colon" /\ g.key = d.key /\ g.keyEnd = d.keyEnd
  <2>1. "head_colon" \in States
    BY DEF States
  <2>. QED
    BY <1>1, <2>1, Entered DEF Moved
<1>5. k \in Nat
  OBVIOUS
<1> HIDE DEF g, k
<1>6. /\ Moved(d, h, p, Content(d)) /\ h.state = "head_colon" /\ h.key = d.key
           /\ h.keyEnd = p - 1
  BY <1>4, <1>5, Marked DEF Moved, k
<1> HIDE DEF h
<1>. QED
  BY <1>2, <1>3, <1>6

LEMMA TurnValue ==
    ASSUME NEW kind, NEW d \in Decoder, NEW text, NEW p \in Nat, p >= 1, NEW f,
           f = Turn(kind, d, text, p), d.state = "head_colon", text[p] # SP
    PROVE  /\ Moved(d, f, p, Content(d)) /\ f.state = "head_value" /\ f.key = d.key
           /\ f.keyEnd = d.keyEnd /\ f.value = p
<1> DEFINE e == LookedAt(d, p)
           k == p
           g == Enter(e, "head_value")
           h == [g EXCEPT !.value = k]
<1>1. /\ e \in Decoder /\ e.state = d.state /\ e.offset = p /\ e.ret = d.ret
      /\ Content(e) = Content(d) /\ e.key = d.key /\ e.keyEnd = d.keyEnd
  BY Looked DEF Moved
<1>2. f = Heads(e, text[p], text, p)
  BY TurnIsHeads DEF HeadStates
<1> HIDE DEF e
<1>3. Heads(e, text[p], text, p) = h
  BY <1>1 DEF Heads
<1>4. /\ g \in Decoder /\ g.offset = p /\ g.ret = d.ret /\ Content(g) = Content(d)
      /\ g.state = "head_value" /\ g.key = d.key /\ g.keyEnd = d.keyEnd
  <2>1. "head_value" \in States
    BY DEF States
  <2>. QED
    BY <1>1, <2>1, Entered DEF Moved
<1>5. k \in Nat
  OBVIOUS
<1> HIDE DEF g, k
<1>6. /\ Moved(d, h, p, Content(d)) /\ h.state = "head_value" /\ h.key = d.key
           /\ h.keyEnd = d.keyEnd /\ h.value = p
  BY <1>4, <1>5, Marked DEF Moved, k
<1> HIDE DEF h
<1>. QED
  BY <1>2, <1>3, <1>6

LEMMA TurnStore ==
    ASSUME NEW kind, NEW d \in Decoder, NEW text, NEW p \in Nat, p >= 1, NEW f,
           f = Turn(kind, d, text, p), d.state = "head_value", text[p] = CR
    PROVE  f = Enter(StoreHead(LookedAt(d, p), text, p), "head_crlf")
<1> DEFINE e == LookedAt(d, p)
<1>1. e.state = d.state
  BY Looked
<1>2. f = Heads(e, text[p], text, p)
  BY TurnIsHeads DEF HeadStates
<1> HIDE DEF e
<1>3. f = Enter(StoreHead(e, text, p), "head_crlf")
  BY <1>1, <1>2 DEF Heads
<1>. QED
  BY <1>3 DEF e

LEMMA TurnEmpty ==
    ASSUME NEW kind, NEW d \in Decoder, NEW text, NEW p \in Nat, p >= 1, NEW f,
           f = Turn(kind, d, text, p), d.state = "head_crlf", text[p] = CR
    PROVE  Moved(d, f, p, Content(d)) /\ f.state = "head_end"
<1> DEFINE e == LookedAt(d, p)
<1>1. e.state = d.state /\ Moved(d, e, p, Content(d))
  BY Looked
<1>2. f = Heads(e, text[p], text, p)
  BY TurnIsHeads DEF HeadStates
<1> HIDE DEF e
<1>3. f = Enter(e, "head_end")
  BY <1>1, <1>2 DEF Heads, CR, LF
<1>4. "head_end" \in States
  BY DEF States
<1>. QED
  BY <1>1, <1>3, <1>4, Entered DEF Moved

-----------------------------------------------------------------------------
(***************************************************************************)
(* A header, read.                                                         *)
(***************************************************************************)
\* After token i the decoder wants more, and another look at that token
\* changes nothing, unless it is one after which a piece may not end.
Resumes(kind, text, i) ==
    LET d == Reading(kind, text)[i]
    IN /\ d \in Decoder /\ d.ret = "more" /\ d.offset = i /\ Placed(d, i)
       /\ text[i] \notin {CR, Colon} => Turn(kind, d, text, i) = d

\* The decoder has read a whole line, and a header or the empty line comes next.
AtLine(kind, text, p) ==
    LET d == Reading(kind, text)[p]
    IN d \in Decoder /\ d.state \in {"rl_crlf", "head_crlf"} /\ d.ret = "more"

\* What a header that is read adds.
Added(c, key, value) ==
    CASE key = "CSeq"           -> [c EXCEPT !.cseq = Atoi(value)]
      [] key = "Content-Length" -> [c EXCEPT !.bodyLen = Atoi(value)]
      [] key \in KeptKeys       -> [c EXCEPT !.heads = <<[key |-> key, value |-> value]>> \o c.heads]
      [] OTHER                  -> c

\* A header that reads as it is written.
FineKey(key) == key \in Token \ {CR, LF, Colon}
FineValue(value) == /\ value \in Text /\ value # <<>> /\ value[1] # SP
                    /\ \A i \in 1 .. Len(value) : value[i] # CR

\* Numbers: a numeral is read back as the number it stands for.
LEMMA AtoiType == ASSUME NEW span PROVE Atoi(span) \in Nat
<1>1. Numbers \subseteq Nat
  BY NumeralAssumption
<1> DEFINE n == {k \in Numbers : span = <<Numeral[k]>>}
<1>2. n # {} => (CHOOSE k \in n : TRUE) \in n
  OBVIOUS
<1>. QED
  BY <1>1, <1>2 DEF Atoi

LEMMA AtoiNumeral == ASSUME NEW k \in Numbers PROVE Atoi(<<Numeral[k]>>) = k
<1> DEFINE n == {m \in Numbers : <<Numeral[k]>> = <<Numeral[m]>>}
<1>1. \A m \in Numbers : <<Numeral[k]>> = <<Numeral[m]>> => m = k
  <2> TAKE m \in Numbers
  <2>1. HAVE <<Numeral[k]>> = <<Numeral[m]>>
  <2>2. <<Numeral[k]>>[1] = <<Numeral[m]>>[1]
    BY <2>1
  <2>3. Numeral[k] = Numeral[m]
    BY <2>2
  <2>. QED
    BY <2>3, NumeralAssumption
<1>2. n = {k}
  BY <1>1
<1>3. Atoi(<<Numeral[k]>>) = IF n = {} THEN 0 ELSE CHOOSE m \in n : TRUE
  BY DEF Atoi
<1> HIDE DEF n
<1>4. (CHOOSE m \in n : TRUE) \in n
  BY <1>2
<1>. QED
  BY <1>2, <1>3, <1>4

\* A header line, token by token.
LEMMA HeadTokens ==
    ASSUME NEW t \in Text, NEW p \in Nat, NEW key \in Token, NEW value \in Text,
           Spells(t, p, HeadText(key, value))
    PROVE  LET v == p + 3
               k == Len(value)
           IN /\ t[p + 1] = key /\ t[p + 2] = Colon /\ t[v] = SP
              /\ Spells(t, v, value)
              /\ t[v + k + 1] = CR /\ t[v + k + 2] = LF
              /\ v + k + 2 <= Len(t)
<1> DEFINE a == <<key, Colon, SP>>
           z == <<CR, LF>>
<1>1. a \in Text /\ z \in Text /\ Len(a) = 3 /\ Len(z) = 2
  BY TokenAssumption DEF Text, Separators
<1>2. a[1] = key /\ a[2] = Colon /\ a[3] = SP /\ z[1] = CR /\ z[2] = LF
  OBVIOUS
<1> HIDE DEF a, z
<1>3. a \o value \in Text /\ Len(a \o value) = 3 + Len(value)
  <2>1. a \o value \in Text /\ Len(a \o value) = Len(a) + Len(value)
    BY <1>1, Concat
  <2>. QED
    BY <1>1, <2>1
<1>4. HeadText(key, value) = (a \o value) \o z
  BY DEF HeadText, a, z
<1>5. Spells(t, p, a \o value) /\ Spells(t, p + 3 + Len(value), z)
  <2>1. Spells(t, p, a \o value) /\ Spells(t, p + Len(a \o value), z)
    BY <1>1, <1>3, <1>4, SpellsParts
  <2>2. p + Len(a \o value) = p + 3 + Len(value)
    BY <1>3 DEF Text
  <2>. QED
    BY <2>1, <2>2
<1>6. Spells(t, p, a) /\ Spells(t, p + 3, value)
  BY <1>1, <1>5, SpellsParts
<1>7. t[p + 1] = key /\ t[p + 2] = Colon /\ t[p + 3] = SP
  BY <1>1, <1>2, <1>6 DEF Spells
<1>8. /\ t[p + 3 + Len(value) + 1] = CR /\ t[p + 3 + Len(value) + 2] = LF
      /\ p + 3 + Len(value) + 2 <= Len(t)
  BY <1>1, <1>2, <1>5 DEF Spells
<1>. QED
  BY <1>6, <1>7, <1>8
LEMMA Gathered ==
    ASSUME NEW d \in Decoder, NEW n \in Nat, NEW h \in Seq(Header)
    PROVE  /\ Moved(d, [d EXCEPT !.cseq = n], d.offset, [Content(d) EXCEPT !.cseq = n])
           /\ Moved(d, [d EXCEPT !.bodyLen = n], d.offset, [Content(d) EXCEPT !.bodyLen = n])
           /\ Moved(d, [d EXCEPT !.heads = h], d.offset, [Content(d) EXCEPT !.heads = h])
           /\ [d EXCEPT !.cseq = n].state = d.state
           /\ [d EXCEPT !.bodyLen = n].state = d.state
           /\ [d EXCEPT !.heads = h].state = d.state
<1>1. /\ Moved(d, [d EXCEPT !.cseq = n], d.offset, [Content(d) EXCEPT !.cseq = n])
      /\ [d EXCEPT !.cseq = n].state = d.state
  <2> DEFINE e == [d EXCEPT !.cseq = n]
  <2>1. e \in Decoder /\ e.offset = d.offset /\ e.ret = d.ret /\ e.state = d.state
    BY DEF Decoder
  <2>2. /\ e.method = d.method /\ e.code = d.code /\ e.cseq = n /\ e.heads = d.heads
        /\ e.bodyLen = d.bodyLen /\ e.body = d.body
    BY DEF Decoder
  <2> HIDE DEF e
  <2>3. Content(e) = [Content(d) EXCEPT !.cseq = n]
    BY <2>2 DEF Content
  <2>4. Moved(d, e, d.offset, [Content(d) EXCEPT !.cseq = n])
    BY <2>1, <2>3 DEF Moved
  <2>. QED
    BY <2>1, <2>4 DEF e
<1>2. /\ Moved(d, [d EXCEPT !.bodyLen = n], d.offset, [Content(d) EXCEPT !.bodyLen = n])
      /\ [d EXCEPT !.bodyLen = n].state = d.state
  <2> DEFINE e == [d EXCEPT !.bodyLen = n]
  <2>1. e \in Decoder /\ e.offset = d.offset /\ e.ret = d.ret /\ e.state = d.state
    BY DEF Decoder
  <2>2. /\ e.method = d.method /\ e.code = d.code /\ e.cseq = d.cseq /\ e.heads = d.heads
        /\ e.bodyLen = n /\ e.body = d.body
    BY DEF Decoder
  <2> HIDE DEF e
  <2>3. Content(e) = [Content(d) EXCEPT !.bodyLen = n]
    BY <2>2 DEF Content
  <2>4. Moved(d, e, d.offset, [Content(d) EXCEPT !.bodyLen = n])
    BY <2>1, <2>3 DEF Moved
  <2>. QED
    BY <2>1, <2>4 DEF e
<1>3. /\ Moved(d, [d EXCEPT !.heads = h], d.offset, [Content(d) EXCEPT !.heads = h])
      /\ [d EXCEPT !.heads = h].state = d.state
  <2> DEFINE e == [d EXCEPT !.heads = h]
  <2>1. e \in Decoder /\ e.offset = d.offset /\ e.ret = d.ret /\ e.state = d.state
    BY DEF Decoder
  <2>2. /\ e.method = d.method /\ e.code = d.code /\ e.cseq = d.cseq /\ e.heads = h
        /\ e.bodyLen = d.bodyLen /\ e.body = d.body
    BY DEF Decoder
  <2> HIDE DEF e
  <2>3. Content(e) = [Content(d) EXCEPT !.heads = h]
    BY <2>2 DEF Content
  <2>4. Moved(d, e, d.offset, [Content(d) EXCEPT !.heads = h])
    BY <2>1, <2>3 DEF Moved
  <2>. QED
    BY <2>1, <2>4 DEF e
<1>. QED
  BY <1>1, <1>2, <1>3

LEMMA StoredType ==
    ASSUME NEW d \in Decoder, NEW key \in Token, NEW value \in Text
    PROVE  LET e == Stored(d, <<key>>, value)
           IN Moved(d, e, d.offset, Added(Content(d), key, value)) /\ e.state = d.state
<1> DEFINE e == Stored(d, <<key>>, value)
           h == <<[key |-> key, value |-> value]>>
           hs == h \o d.heads
           n == Atoi(value)
<1>1. \A k : (<<key>> = <<k>>) <=> (key = k)
  <2> TAKE k
  <2>1. <<key>>[1] = key /\ <<k>>[1] = k
    OBVIOUS
  <2>. QED
    BY <2>1
<1>2. n \in Nat
  BY AtoiType
<1>3. <<key>>[1] = key /\ hs \in Seq(Header)
  <2>1. h \in Seq(Header) /\ d.heads \in Seq(Header)
    BY DEF Header, Decoder
  <2>. QED
    BY <2>1, ConcatProperties
<1>4. e = IF key = "CSeq" THEN [d EXCEPT !.cseq = n]
          ELSE IF key = "Content-Length" THEN [d EXCEPT !.bodyLen = n]
          ELSE IF key \in KeptKeys THEN [d EXCEPT !.heads = hs]
          ELSE d
  <2>1. (\E k \in KeptKeys : <<key>> = <<k>>) <=> key \in KeptKeys
    BY <1>1
  <2>2. <<key>> = <<"CSeq">> <=> key = "CSeq"
    BY <1>1
  <2>3. <<key>> = <<"Content-Length">> <=> key = "Content-Length"
    BY <1>1
  <2>. QED
    BY <1>3, <2>1, <2>2, <2>3 DEF Stored, KeptKeys, Counted
<1>5. Added(Content(d), key, value) =
          IF key = "CSeq" THEN [Content(d) EXCEPT !.cseq = n]
          ELSE IF key = "Content-Length" THEN [Content(d) EXCEPT !.bodyLen = n]
          ELSE IF key \in KeptKeys THEN [Content(d) EXCEPT !.heads = hs]
          ELSE Content(d)
  BY DEF Added, Content, KeptKeys, Counted
<1> HIDE DEF hs, e, n
<1>6. Moved(d, d, d.offset, Content(d))
  BY DEF Moved
<1>7. CASE key = "CSeq"
  BY <1>2, <1>3, <1>4, <1>5, <1>7, Gathered DEF e
<1>8. CASE key = "Content-Length"
  BY <1>2, <1>3, <1>4, <1>5, <1>8, Gathered DEF e
<1>9. CASE key \notin Counted /\ key \in KeptKeys
  <2>1. key # "CSeq" /\ key # "Content-Length"
    BY <1>9 DEF Counted
  <2>2. /\ Moved(d, [d EXCEPT !.heads = hs], d.offset, [Content(d) EXCEPT !.heads = hs])
        /\ [d EXCEPT !.heads = hs].state = d.state
    BY <1>2, <1>3, Gathered
  <2>3. e = [d EXCEPT !.heads = hs]
    BY <1>4, <1>9, <2>1
  <2>4. Added(Content(d), key, value) = [Content(d) EXCEPT !.heads = hs]
    BY <1>5, <1>9, <2>1
  <2>. QED
    BY <2>2, <2>3, <2>4 DEF e
<1>10. CASE key \notin Counted /\ key \notin KeptKeys
  BY <1>4, <1>5, <1>6, <1>10 DEF e, Counted
<1>. QED
  BY <1>7, <1>8, <1>9, <1>10 DEF Counted

\* A look at the same token again changes nothing.
LEMMA Again ==
    ASSUME NEW kind, NEW d \in Decoder, NEW text, NEW i \in Nat, i >= 1, d.offset = i,
           PassesOver(d, text[i])
    PROVE  Turn(kind, d, text, i) = d
<1>1. LookedAt(d, i) = d
  BY Looked
<1>2. Turn(kind, d, text, i) = LookedAt(d, i)
  BY TurnStays
<1>. QED
  BY <1>1, <1>2

\* A header is read as it is written, and the decoder resumes anywhere in it.
LEMMA HeadRead ==
    ASSUME NEW kind, NEW text \in Text, NEW p \in Nat, p >= 1, NEW key, FineKey(key), NEW value,
           FineValue(value), Spells(text, p, HeadText(key, value)), AtLine(kind, text, p)
    PROVE  LET q == p + Len(value) + 5
               R == Reading(kind, text)
           IN /\ q <= Len(text) /\ AtLine(kind, text, q) /\ R[q].state = "head_crlf"
              /\ Content(R[q]) = Added(Content(R[p]), key, value)
              /\ \A i \in p + 1 .. q : Resumes(kind, text, i)
<1> DEFINE R == Reading(kind, text)
           C == Content(R[p])
           v == p + 3
           k == Len(value)
           q == p + k + 5
           w == v + k + 1
           Goes(e, i) == e \in Decoder /\ e.offset = i /\ e.ret = "more"
           InValue(e, i) == /\ Goes(e, i) /\ Content(e) = C /\ e.state = "head_value"
                            /\ e.key = p + 1 /\ e.keyEnd = p + 1 /\ e.value = v + 1
<1>1. /\ text[p + 1] = key /\ text[p + 2] = Colon /\ text[v] = SP
      /\ Spells(text, v, value)
      /\ text[w] = CR /\ text[v + k + 2] = LF
      /\ v + k + 2 <= Len(text)
  BY HeadTokens DEF FineKey, FineValue
<1>2. k \in Nat /\ k >= 1 /\ value \in Text /\ key \in Token /\ q = v + k + 2 /\ key \notin {CR, LF, Colon}
  BY DEF FineKey, FineValue, Text
<1>3. Len(text) \in Nat /\ text \in Seq(Token)
  BY DEF Text
<1>4. R[p] \in Decoder /\ R[p].state \in {"rl_crlf", "head_crlf"} /\ R[p].ret = "more"
  BY DEF AtLine
<1>5. \A i \in p + 1 .. q : R[i] = Turn(kind, R[i - 1], text, i)
  BY <1>1, <1>2, <1>3, ReadingStep
<1>6. \A j \in 1 .. k : text[v + j] = value[j] /\ text[v + j] # CR
  BY <1>1, <1>2 DEF Spells, FineValue
<1>7. text[v + 1] # SP
  BY <1>1, <1>2 DEF Spells, FineValue
<1> HIDE DEF R, C, k, q, w
<1>8. Goes(R[p + 1], p + 1) /\ Content(R[p + 1]) = C /\ R[p + 1].state = "head_key"
      /\ R[p + 1].key = p + 1
  <2> DEFINE i == p + 1
  <2>1. i \in Nat /\ i >= 1 /\ i \in p + 1 .. q /\ i - 1 = p /\ text[i] \notin {CR, LF}
    BY <1>1, <1>2 DEF q
  <2> HIDE DEF i
  <2>2. R[i] = Turn(kind, R[p], text, i)
    BY <1>5, <2>1
  <2>3. Moved(R[p], R[i], i, Content(R[p])) /\ R[i].state = "head_key" /\ R[i].key = i
    BY <1>4, <2>1, <2>2, TurnKey
  <2>4. Goes(R[i], i) /\ Content(R[i]) = C
    BY <1>4, <2>3 DEF Moved, C
  <2>. QED
    BY <2>3, <2>4 DEF i
<1>9. Goes(R[p + 2], p + 2) /\ Content(R[p + 2]) = C /\ R[p + 2].state = "head_colon"
      /\ R[p + 2].key = p + 1 /\ R[p + 2].keyEnd = p + 1
  <2> DEFINE i == p + 2
             h == p + 1
  <2>1. i \in Nat /\ i >= 1 /\ i \in p + 1 .. q /\ i - 1 = h /\ text[i] = Colon
    BY <1>1, <1>2 DEF q
  <2>2. Goes(R[h], h) /\ Content(R[h]) = C /\ R[h].state = "head_key" /\ R[h].key = h
    BY <1>8
  <2> HIDE DEF i, h
  <2>3. R[i] = Turn(kind, R[h], text, i)
    BY <1>5, <2>1
  <2>4. Moved(R[h], R[i], i, Content(R[h])) /\ R[i].state = "head_colon" /\ R[i].key = R[h].key
        /\ R[i].keyEnd = i - 1
    BY <2>1, <2>2, <2>3, TurnColon
  <2>5. Goes(R[i], i) /\ Content(R[i]) = C /\ R[i].key = h /\ R[i].keyEnd = h
    BY <2>1, <2>2, <2>4 DEF Moved
  <2>. QED
    BY <2>4, <2>5 DEF i, h
<1>10. Goes(R[v], v) /\ Content(R[v]) = C /\ R[v].state = "head_colon"
       /\ R[v].key = p + 1 /\ R[v].keyEnd = p + 1
  <2> DEFINE h == p + 2
  <2>1. v \in Nat /\ v >= 1 /\ v \in p + 1 .. q /\ v - 1 = h
    BY <1>1, <1>2 DEF q
  <2>2. Goes(R[h], h) /\ Content(R[h]) = C /\ R[h].state = "head_colon" /\ R[h].key = p + 1
        /\ R[h].keyEnd = p + 1
    BY <1>9
  <2> HIDE DEF v, h
  <2>3. R[v] = Turn(kind, R[h], text, v)
    BY <1>5, <2>1
  <2>4. R[v] = LookedAt(R[h], v)
    <3>1. PassesOver(R[h], text[v])
      BY <1>1, <2>2 DEF PassesOver
    <3>2. R[h] \in Decoder /\ v \in Nat /\ v >= 1
      BY <2>1, <2>2
    <3>. QED
      BY <2>3, <3>1, <3>2, TurnStays
  <2>5. Moved(R[h], R[v], v, Content(R[h])) /\ R[v].state = R[h].state /\ R[v].key = R[h].key
        /\ R[v].keyEnd = R[h].keyEnd
    BY <2>1, <2>2, <2>4, Looked
  <2>. QED
    BY <2>2, <2>5 DEF Moved
<1>11. InValue(R[v + 1], v + 1)
  <2> DEFINE i == v + 1
  <2>1. i \in Nat /\ i >= 1 /\ i \in p + 1 .. q /\ i - 1 = v /\ text[i] # SP
    BY <1>2, <1>7 DEF q
  <2> HIDE DEF i
  <2>2. R[i] = Turn(kind, R[v], text, i)
    BY <1>5, <2>1
  <2>3. Moved(R[v], R[i], i, Content(R[v])) /\ R[i].state = "head_value" /\ R[i].key = R[v].key
        /\ R[i].keyEnd = R[v].keyEnd /\ R[i].value = i
    BY <1>10, <2>1, <2>2, TurnValue
  <2>4. Goes(R[i], i) /\ Content(R[i]) = C
    BY <1>10, <2>3 DEF Moved
  <2>. QED
    BY <1>10, <2>3, <2>4 DEF i
<1> DEFINE S == {n \in Nat : n + 1 \in 1 .. k => InValue(R[v + (n + 1)], v + (n + 1))}
<1>12. \A j \in 1 .. k : InValue(R[v + j], v + j)
  <2>1. 0 \in S
    <3>1. v + (0 + 1) = v + 1
      OBVIOUS
    <3>. QED
      BY <1>11, <3>1
  <2>2. ASSUME NEW n \in Nat, n \in S PROVE n + 1 \in S
    <3> SUFFICES ASSUME n + 1 + 1 \in 1 .. k
                 PROVE  InValue(R[v + (n + 1 + 1)], v + (n + 1 + 1))
      OBVIOUS
    <3> DEFINE i == v + (n + 1 + 1)
               h == v + (n + 1)
    <3>1. n + 1 \in 1 .. k /\ i \in p + 1 .. q /\ i - 1 = h /\ i \in Nat /\ i >= 1
      BY <1>2 DEF q
    <3>2. InValue(R[h], h)
      BY <2>2, <3>1
    <3>3. text[i] # CR
      BY <1>6
    <3> HIDE DEF i, h
    <3>4. R[i] = Turn(kind, R[h], text, i)
      BY <1>5, <3>1
    <3>5. R[i] = LookedAt(R[h], i)
      <4>1. PassesOver(R[h], text[i])
        BY <3>2, <3>3 DEF PassesOver
      <4>2. R[h] \in Decoder /\ i \in Nat /\ i >= 1
        BY <3>1, <3>2
      <4>. QED
        BY <3>4, <4>1, <4>2, TurnStays
    <3>6. Moved(R[h], R[i], i, Content(R[h])) /\ R[i].state = R[h].state /\ R[i].key = R[h].key
          /\ R[i].keyEnd = R[h].keyEnd /\ R[i].value = R[h].value
      BY <3>1, <3>2, <3>5, Looked
    <3>7. InValue(R[i], i)
      BY <3>2, <3>6 DEF Moved
    <3>. QED
      BY <3>7 DEF i
  <2>3. Nat \subseteq S
    <3> HIDE DEF S
    <3>. QED
      BY <2>1, <2>2, NatSetInduction
  <2>4. TAKE j \in 1 .. k
  <2>5. j - 1 \in Nat /\ j - 1 + 1 = j
    BY <1>2
  <2>6. j - 1 \in S
    BY <2>3, <2>5
  <2>. QED
    BY <2>5, <2>6
<1>13. Goes(R[w], w) /\ Content(R[w]) = Added(C, key, value) /\ R[w].state = "head_crlf"
  <2> DEFINE h == v + k
             x == LookedAt(R[h], w)
  <2>1. w \in Nat /\ w >= 1 /\ w \in p + 1 .. q /\ w - 1 = h /\ k \in 1 .. k
    BY <1>2 DEF q, w
  <2>2. InValue(R[h], h)
    BY <1>12, <2>1
  <2>3. SubSeq(text, p + 1, p + 1) = <<key>>
    <3> DEFINE s == <<key>>
    <3>1. s \in Text /\ Len(s) = 1 /\ s[1] = key
      BY <1>2 DEF Text
    <3> HIDE DEF s
    <3>2. p + Len(s) <= Len(text)
      BY <1>1, <1>2, <1>3, <3>1 DEF v
    <3>3. \A i \in 1 .. Len(s) : text[p + i] = s[i]
      BY <1>1, <3>1
    <3>4. Spells(text, p, s)
      BY <3>2, <3>3 DEF Spells
    <3>. QED
      BY <3>1, <3>4, SpellsSubSeq DEF s
  <2>4. SubSeq(text, v + 1, h) = value
    BY <1>1, <1>2, SpellsSubSeq DEF k
  <2> HIDE DEF h
  <2>5. R[w] = Turn(kind, R[h], text, w)
    BY <1>5, <2>1
  <2>6. R[w] = Enter(StoreHead(x, text, w), "head_crlf")
    BY <1>1, <2>1, <2>2, <2>5, TurnStore
  <2>7. Goes(x, w) /\ Content(x) = C /\ x.key = p + 1 /\ x.keyEnd = p + 1 /\ x.value = v + 1
    BY <2>1, <2>2, Looked DEF Moved
  <2> HIDE DEF x
  <2>8. StoreHead(x, text, w) = Stored(x, <<key>>, value)
    BY <2>1, <2>3, <2>4, <2>7 DEF StoreHead
  <2> DEFINE y == Stored(x, <<key>>, value)
  <2>9. Moved(x, y, w, Added(C, key, value))
    BY <1>2, <2>7, StoredType
  <2> HIDE DEF y
  <2>10. "head_crlf" \in States
    BY DEF States
  <2>11. R[w] = Enter(y, "head_crlf")
    BY <2>6, <2>8 DEF y
  <2>12. y \in Decoder /\ y.offset = w /\ y.ret = "more" /\ Content(y) = Added(C, key, value)
    BY <2>7, <2>9 DEF Moved
  <2>13. Moved(y, R[w], w, Content(y)) /\ R[w].state = "head_crlf"
    BY <2>10, <2>11, <2>12, Entered
  <2>. QED
    BY <2>12, <2>13 DEF Moved
<1>14. Goes(R[q], q) /\ Content(R[q]) = Added(C, key, value) /\ R[q].state = "head_crlf"
  <2>1. q \in Nat /\ q >= 1 /\ q \in p + 1 .. q /\ q - 1 = w /\ text[q] = LF
    BY <1>1, <1>2 DEF q, w
  <2>2. R[q] = Turn(kind, R[w], text, q)
    BY <1>5, <2>1
  <2>3. R[q] = LookedAt(R[w], q)
    <3>1. PassesOver(R[w], text[q])
      BY <1>13, <2>1 DEF PassesOver
    <3>. QED
      BY <1>13, <2>1, <2>2, <3>1, TurnStays
  <2>4. Moved(R[w], R[q], q, Content(R[w])) /\ R[q].state = R[w].state
    BY <1>13, <2>1, <2>3, Looked
  <2>. QED
    BY <1>13, <2>4 DEF Moved
<1>15. ASSUME NEW i \in p + 1 .. q PROVE Resumes(kind, text, i)
  <2>1. i \in Nat /\ i >= 1
    BY <1>2
  <2>2. SUFFICES /\ Goes(R[i], i) /\ Placed(R[i], i)
                 /\ text[i] \notin {CR, Colon} => Turn(kind, R[i], text, i) = R[i]
    BY DEF Resumes, R
  <2>3. CASE i = p + 1
    BY <1>1, <1>2, <1>8, <2>1, <2>3, Again DEF Placed, PassesOver
  <2>4. CASE i = p + 2
    BY <1>1, <1>9, <2>4 DEF Placed
  <2>5. CASE i = v
    BY <1>1, <1>10, <2>1, <2>5, Again DEF Placed, PassesOver
  <2>6. CASE i \in v + 1 .. v + k
    <3>1. i - v \in 1 .. k /\ v + (i - v) = i
      BY <1>2, <2>6
    <3>2. InValue(R[i], i) /\ text[i] # CR
      BY <1>6, <1>12, <3>1
    <3>3. Placed(R[i], i)
      BY <2>1, <2>6, <3>2 DEF Placed
    <3>. QED
      BY <2>1, <3>2, <3>3, Again DEF PassesOver
  <2>7. CASE i = w
    BY <1>1, <1>13, <2>7 DEF Placed
  <2>8. CASE i = q
    BY <1>1, <1>2, <1>14, <2>1, <2>8, Again DEF Placed, PassesOver
  <2>. QED
    BY <1>2, <2>3, <2>4, <2>5, <2>6, <2>7, <2>8 DEF q, w
<1>16. AtLine(kind, text, q)
  BY <1>14 DEF AtLine, R
<1>. QED
  BY <1>1, <1>2, <1>14, <1>15, <1>16 DEF R, C, q, k

-----------------------------------------------------------------------------
(***************************************************************************)
(* The first line, read.                                                   *)
(***************************************************************************)
\* A token that a state skips or gathers moves the decoder on by one.
LEMMA OneToken ==
    ASSUME NEW t \in Text, NEW p \in 1 .. Len(t)
    PROVE  SubSeq(t, p, p) = <<t[p]>>
<1> DEFINE u == SubSeq(t, p, p)
           v == <<t[p]>>
<1>1. t[p] \in Token
  BY DEF Text
<1>2. u \in Text /\ v \in Text /\ Len(u) = 1 /\ Len(v) = 1 /\ u[1] = t[p] /\ v[1] = t[p]
  BY <1>1 DEF Text
<1>3. \A i \in 1 .. Len(u) : u[i] = v[i]
  BY <1>2
<1> HIDE DEF u, v
<1>4. u = v
  BY <1>2, <1>3, SeqEqual DEF Text
<1>. QED
  BY <1>4 DEF u, v

LEMMA Singles == \A a, b : (<<a>> = <<b>>) <=> (a = b)
<1> TAKE a, b
<1>1. <<a>>[1] = a /\ <<b>>[1] = b
  OBVIOUS
<1>. QED
  BY <1>1

Begun(d, s, p) == [Enter(d, s) EXCEPT !.start = p]
WithMethod(c, m) == [c EXCEPT !.method = m]
WithCode(c, n) == [c EXCEPT !.code = n]

LineStates == {"start", "method", "spaces_before_uri", "uri", "spaces_after_uri", "version",
               "space_after_version", "status_code", "space_after_status_code", "status_text"}

LEMMA TurnIsLine ==
    ASSUME NEW kind, NEW d, NEW text, NEW p, d.state \in LineStates
    PROVE  Turn(kind, d, text, p) = FirstLine(kind, LookedAt(d, p), text[p], text, p)
BY DEF Turn, HeadStates, LineStates, LookedAt

\* In the first line a state is entered, a word begins, or the method or the code is read.
LEMMA Went ==
    ASSUME NEW d \in Decoder, NEW p \in Nat, NEW s \in States
    PROVE  /\ Moved(d, Enter(LookedAt(d, p), s), p, Content(d))
           /\ Enter(LookedAt(d, p), s).state = s
<1> DEFINE e == LookedAt(d, p)
<1>1. e \in Decoder /\ e.offset = p /\ e.ret = d.ret /\ Content(e) = Content(d) /\ e.start = d.start
  BY Looked DEF Moved
<1> HIDE DEF e
<1>2. Moved(d, Enter(e, s), p, Content(d)) /\ Enter(e, s).state = s
  BY <1>1, Entered DEF Moved
<1>. QED
  BY <1>2 DEF e

\* The first line of a request and of a response.
LEMMA Began ==
    ASSUME NEW d \in Decoder, NEW p \in Nat, NEW s \in States
    PROVE  /\ Moved(d, Begun(LookedAt(d, p), s, p), p, Content(d))
           /\ Begun(LookedAt(d, p), s, p).state = s
           /\ Begun(LookedAt(d, p), s, p).start = p
<1> DEFINE g == Enter(LookedAt(d, p), s)
           h == [g EXCEPT !.start = p]
<1>1. g \in Decoder /\ g.offset = p /\ g.ret = d.ret /\ Content(g) = Content(d) /\ g.state = s
  BY Went DEF Moved
<1> HIDE DEF g
<1>2. Moved(g, h, g.offset, Content(g)) /\ h.state = g.state /\ h.start = p
  BY <1>1, Marked
<1>3. Begun(LookedAt(d, p), s, p) = h
  BY DEF g, Begun
<1> HIDE DEF h
<1>4. Moved(d, h, p, Content(d)) /\ h.state = s /\ h.start = p
  BY <1>1, <1>2 DEF Moved
<1>. QED
  BY <1>3, <1>4

LEMMA MethodRead ==
    ASSUME NEW d \in Decoder, NEW p \in Nat, NEW s \in States, NEW m \in Methods
    PROVE  /\ Moved(d, WithMethod(Enter(LookedAt(d, p), s), m), p, WithMethod(Content(d), m))
           /\ WithMethod(Enter(LookedAt(d, p), s), m).state = s
<1> DEFINE g == Enter(LookedAt(d, p), s)
           h == WithMethod(g, m)
<1>1. g \in Decoder /\ g.offset = p /\ g.ret = d.ret /\ Content(g) = Content(d) /\ g.state = s
  BY Went DEF Moved
<1> HIDE DEF g
<1>2. h \in Decoder /\ h.offset = g.offset /\ h.ret = g.ret /\ h.state = g.state
  BY <1>1 DEF Decoder, WithMethod
<1>3. /\ h.method = m /\ h.code = g.code /\ h.cseq = g.cseq /\ h.heads = g.heads
      /\ h.bodyLen = g.bodyLen /\ h.body = g.body
  BY <1>1 DEF Decoder, WithMethod
<1> HIDE DEF h
<1>4. Content(h) = WithMethod(Content(g), m)
  BY <1>3 DEF Content, WithMethod
<1>5. Moved(d, h, p, WithMethod(Content(d), m)) /\ h.state = s
  BY <1>1, <1>2, <1>4 DEF Moved
<1>. QED
  BY <1>5 DEF g, h

LEMMA CodeRead ==
    ASSUME NEW d \in Decoder, NEW p \in Nat, NEW s \in States, NEW n \in Nat
    PROVE  /\ Moved(d, WithCode(Enter(LookedAt(d, p), s), n), p, WithCode(Content(d), n))
           /\ WithCode(Enter(LookedAt(d, p), s), n).state = s
<1> DEFINE g == Enter(LookedAt(d, p), s)
           h == WithCode(g, n)
<1>1. g \in Decoder /\ g.offset = p /\ g.ret = d.ret /\ Content(g) = Content(d) /\ g.state = s
  BY Went DEF Moved
<1> HIDE DEF g
<1>2. h \in Decoder /\ h.offset = g.offset /\ h.ret = g.ret /\ h.state = g.state
  BY <1>1 DEF Decoder, WithCode
<1>3. /\ h.method = g.method /\ h.code = n /\ h.cseq = g.cseq /\ h.heads = g.heads
      /\ h.bodyLen = g.bodyLen /\ h.body = g.body
  BY <1>1 DEF Decoder, WithCode
<1> HIDE DEF h
<1>4. Content(h) = WithCode(Content(g), n)
  BY <1>3 DEF Content, WithCode
<1>5. Moved(d, h, p, WithCode(Content(d), n)) /\ h.state = s
  BY <1>1, <1>2, <1>4 DEF Moved
<1>. QED
  BY <1>5 DEF g, h

LEMMA CodeEnds ==
    ASSUME NEW d, NEW c, NEW data, NEW p, d.state = "status_code", c = SP
    PROVE  StatusLine(d, c, data, p)
               = WithCode(Enter(d, "space_after_status_code"), Atoi(SubSeq(data, d.start, p - 1)))
BY DEF StatusLine, WithCode

LEMMA StatusWords ==
    ASSUME NEW d, NEW c, NEW data, NEW p, d.state = "space_after_status_code", c # SP
    PROVE  StatusLine(d, c, data, p) = Enter(d, "status_text")
BY DEF StatusLine

LEMMA StatusEnds ==
    ASSUME NEW d, NEW c, NEW data, NEW p, d.state = "status_text", c = CR
    PROVE  StatusLine(d, c, data, p) = Enter(d, "rl_crlf")
BY DEF StatusLine

\* The words of the library are neither numbers nor separators.
LEMMA Words ==
    /\ \A m \in Methods : m \notin {SP, CR, LF, Colon, Dollar}
    /\ IsWord(Url) /\ IsWord(Version)
    /\ Url \notin {SP, CR, LF, Colon} /\ Version \notin {SP, CR, LF, Colon}
    /\ \A k \in Numbers : Numeral[k] \notin {SP, CR, LF, Colon, Dollar} /\ ~IsWord(Numeral[k])
<1>1. \A k \in Numbers : Numeral[k] \notin Separators /\ Numeral[k] # Version /\ Numeral[k] # Url
  BY NumeralAssumption
<1>2. \A k \in Numbers : ~IsWord(Numeral[k])
  BY DEF IsWord
<1>3. IsWord(Url) /\ IsWord(Version)
  <2>1. Url \notin Separators /\ Version \notin Separators
    BY DEF Url, Version, Separators, SP, CR, LF, Colon, Dollar
  <2>. QED
    BY <1>1, <2>1 DEF IsWord
<1>. QED
  BY <1>1, <1>2, <1>3 DEF Methods, Url, Version, Separators, SP, CR, LF, Colon, Dollar

\* The request line is read as it is written, and the decoder resumes anywhere in it.
LEMMA RequestLineRead ==
    ASSUME NEW text \in Text, NEW m \in Methods,
           Spells(text, 0, <<m, SP, Url, SP, Version, CR, LF>>)
    PROVE  LET R == Reading("request", text)
           IN /\ 7 <= Len(text) /\ AtLine("request", text, 7)
              /\ Content(R[7]) = WithMethod(Content(NewDecoder), m)
              /\ \A i \in 1 .. 7 : Resumes("request", text, i)
<1> DEFINE kind == "request"
           R == Reading(kind, text)
           A == Content(NewDecoder)
           B == WithMethod(A, m)
           line == <<m, SP, Url, SP, Version, CR, LF>>
           p1 == 1
           p2 == 2
           p3 == 3
           p4 == 4
           p5 == 5
           p6 == 6
           p7 == 7
           Goes(e, i) == e \in Decoder /\ e.offset = i /\ e.ret = "more"
<1>1. /\ text[p1] = m /\ text[p2] = SP /\ text[p3] = Url /\ text[p4] = SP /\ text[p5] = Version
      /\ text[p6] = CR /\ text[p7] = LF /\ Len(text) \in Nat /\ p7 <= Len(text)
      /\ p1 \in Nat /\ p2 \in Nat /\ p3 \in Nat /\ p4 \in Nat /\ p5 \in Nat /\ p6 \in Nat /\ p7 \in Nat
      /\ p1 >= 1 /\ p2 >= 1 /\ p3 >= 1 /\ p4 >= 1 /\ p5 >= 1 /\ p6 >= 1 /\ p7 >= 1
      /\ p2 - 1 = p1 /\ p4 - 1 = p3 /\ p6 - 1 = p5
  <2>1. Len(line) = 7 /\ line[1] = m /\ line[2] = SP /\ line[3] = Url /\ line[4] = SP
        /\ line[5] = Version /\ line[6] = CR /\ line[7] = LF
    OBVIOUS
  <2>2. 0 + Len(line) <= Len(text) /\ \A i \in 1 .. Len(line) : text[0 + i] = line[i]
    BY DEF Spells
  <2> HIDE DEF line
  <2>3. 7 <= Len(text) /\ \A i \in 1 .. 7 : text[i] = line[i]
    BY <2>1, <2>2 DEF Text
  <2>. QED
    BY <2>1, <2>3 DEF Text
<1>2. R[0] = NewDecoder /\ \A i \in 1 .. 7 : R[i] = Turn(kind, R[i - 1], text, i)
  BY <1>1, ReadingStep DEF Text
<1>3. /\ R[p1] = Turn(kind, R[0], text, p1) /\ R[p2] = Turn(kind, R[p1], text, p2)
      /\ R[p3] = Turn(kind, R[p2], text, p3) /\ R[p4] = Turn(kind, R[p3], text, p4)
      /\ R[p5] = Turn(kind, R[p4], text, p5) /\ R[p6] = Turn(kind, R[p5], text, p6)
      /\ R[p7] = Turn(kind, R[p6], text, p7)
  BY <1>2
<1>4. /\ SubSeq(text, p1, p1) = <<m>> /\ SubSeq(text, p3, p3) = <<Url>>
      /\ SubSeq(text, p5, p5) = <<Version>>
  <2>1. 1 \in 1 .. Len(text) /\ 3 \in 1 .. Len(text) /\ 5 \in 1 .. Len(text)
    BY <1>1
  <2>. QED
    BY <1>1, <2>1, OneToken
<1>5. /\ NewDecoder \in Decoder /\ NewDecoder.state = "start" /\ NewDecoder.ret = "more"
  BY NewDecoderType DEF NewDecoder
<1> HIDE DEF R, A, B, p1, p2, p3, p4, p5, p6, p7
<1>6. Goes(R[p1], p1) /\ Content(R[p1]) = A /\ R[p1].state = "method" /\ R[p1].start = p1
  <2> DEFINE d == R[0]
             e == LookedAt(d, p1)
  <2>1. /\ d \in Decoder /\ d.ret = "more" /\ d.state = "start" /\ Content(d) = A
        /\ e.state = "start"
    <3>1. d \in Decoder /\ d.ret = "more" /\ d.state = "start" /\ Content(d) = A
      BY <1>5, <1>2 DEF A
    <3>. QED
      BY <1>1, <3>1, Looked
  <2>2. R[p1] = FirstLine(kind, e, text[p1], text, p1)
    BY <1>3, <2>1, TurnIsLine DEF LineStates
  <2>3. "method" \in States
    BY DEF States
  <2> HIDE DEF e
  <2>4. m \in Methods /\ m \notin {CR, LF}
    BY Words
  <2>5. R[p1] = Begun(e, "method", p1)
    BY <1>1, <1>4, <2>1, <2>2, <2>4 DEF FirstLine, RequestLine, Begun, WithMethod, WithCode
  <2>6. Moved(d, R[p1], p1, Content(d)) /\ R[p1].state = "method" /\ R[p1].start = p1
    <3>1. d \in Decoder /\ p1 \in Nat
      BY <1>1, <2>1
    <3> HIDE DEF d
    <3>2. /\ Moved(d, Begun(LookedAt(d, p1), "method", p1), p1, Content(d))
          /\ Begun(LookedAt(d, p1), "method", p1).state = "method"
          /\ Begun(LookedAt(d, p1), "method", p1).start = p1
      BY <2>3, <3>1, Began
    <3>. QED
      BY <2>5, <3>2 DEF e
  <2>. QED
    BY <2>1, <2>6 DEF Moved
<1>7. Goes(R[p2], p2) /\ Content(R[p2]) = B /\ R[p2].state = "spaces_before_uri"
  <2> DEFINE d == R[p1]
             e == LookedAt(d, p2)
  <2>1. /\ d \in Decoder /\ d.ret = "more" /\ d.state = "method" /\ Content(d) = A
        /\ e.state = "method" /\ d.start = p1 /\ e.start = p1
    <3>1. d \in Decoder /\ d.ret = "more" /\ d.state = "method" /\ Content(d) = A /\ d.start = p1
      BY <1>6
    <3>. QED
      BY <1>1, <3>1, Looked
  <2>2. R[p2] = FirstLine(kind, e, text[p2], text, p2)
    BY <1>3, <2>1, TurnIsLine DEF LineStates
  <2>3. "spaces_before_uri" \in States
    BY DEF States
  <2> HIDE DEF e
  <2>4. p2 - 1 = p1 /\ SubSeq(text, e.start, p2 - 1) = SubSeq(text, p1, p1)
    BY <1>1, <2>1
  <2>5. (\E a \in Methods : <<m>> = <<a>>) /\ <<m>>[1] = m
    OBVIOUS
  <2>6. R[p2] = WithMethod(Enter(e, "spaces_before_uri"), m)
    BY <1>1, <1>4, <2>1, <2>2, <2>4, <2>5 DEF FirstLine, RequestLine, AtMethod, Begun, WithMethod, WithCode
  <2>7. Moved(d, R[p2], p2, B) /\ R[p2].state = "spaces_before_uri"
    <3> DEFINE f == WithMethod(Enter(LookedAt(d, p2), "spaces_before_uri"), m)
    <3>1. Moved(d, f, p2, WithMethod(Content(d), m)) /\ f.state = "spaces_before_uri"
      <4>1. d \in Decoder /\ p2 \in Nat /\ m \in Methods
        BY <1>1, <2>1
      <4>. QED
        BY <2>3, <4>1, MethodRead
    <3>2. WithMethod(Content(d), m) = B
      BY <2>1 DEF B
    <3>3. R[p2] = f
      BY <2>6 DEF e
    <3> HIDE DEF f
    <3>. QED
      BY <3>1, <3>2, <3>3
  <2>. QED
    BY <2>1, <2>7 DEF Moved
<1>8. Goes(R[p3], p3) /\ Content(R[p3]) = B /\ R[p3].state = "uri" /\ R[p3].start = p3
  <2> DEFINE d == R[p2]
             e == LookedAt(d, p3)
  <2>1. /\ d \in Decoder /\ d.ret = "more" /\ d.state = "spaces_before_uri" /\ Content(d) = B
        /\ e.state = "spaces_before_uri"
    <3>1. d \in Decoder /\ d.ret = "more" /\ d.state = "spaces_before_uri" /\ Content(d) = B
      BY <1>7
    <3>. QED
      BY <1>1, <3>1, Looked
  <2>2. R[p3] = FirstLine(kind, e, text[p3], text, p3)
    BY <1>3, <2>1, TurnIsLine DEF LineStates
  <2>3. "uri" \in States
    BY DEF States
  <2> HIDE DEF e
  <2>4. IsWord(Url) /\ Url # SP
    BY Words
  <2>5. R[p3] = Begun(e, "uri", p3)
    BY <1>1, <1>4, <2>1, <2>2, <2>4 DEF FirstLine, RequestLine, AtUri, Begun, WithMethod, WithCode
  <2>6. Moved(d, R[p3], p3, Content(d)) /\ R[p3].state = "uri" /\ R[p3].start = p3
    <3>1. d \in Decoder /\ p3 \in Nat
      BY <1>1, <2>1
    <3> HIDE DEF d
    <3>2. /\ Moved(d, Begun(LookedAt(d, p3), "uri", p3), p3, Content(d))
          /\ Begun(LookedAt(d, p3), "uri", p3).state = "uri"
          /\ Begun(LookedAt(d, p3), "uri", p3).start = p3
      BY <2>3, <3>1, Began
    <3>. QED
      BY <2>5, <3>2 DEF e
  <2>. QED
    BY <2>1, <2>6 DEF Moved
<1>9. Goes(R[p4], p4) /\ Content(R[p4]) = B /\ R[p4].state = "spaces_after_uri"
  <2> DEFINE d == R[p3]
             e == LookedAt(d, p4)
  <2>1. /\ d \in Decoder /\ d.ret = "more" /\ d.state = "uri" /\ Content(d) = B
        /\ e.state = "uri" /\ d.start = p3 /\ e.start = p3
    <3>1. d \in Decoder /\ d.ret = "more" /\ d.state = "uri" /\ Content(d) = B /\ d.start = p3
      BY <1>8
    <3>. QED
      BY <1>1, <3>1, Looked
  <2>2. R[p4] = FirstLine(kind, e, text[p4], text, p4)
    BY <1>3, <2>1, TurnIsLine DEF LineStates
  <2>3. "spaces_after_uri" \in States
    BY DEF States
  <2> HIDE DEF e
  <2>4. p4 - 1 = p3 /\ SubSeq(text, e.start, p4 - 1) = SubSeq(text, p3, p3)
    BY <1>1, <2>1
  <2>5. R[p4] = Enter(e, "spaces_after_uri")
    BY <1>1, <1>4, <2>1, <2>2, <2>4 DEF FirstLine, RequestLine, AtUri, Begun, WithMethod, WithCode
  <2>6. Moved(d, R[p4], p4, Content(d)) /\ R[p4].state = "spaces_after_uri"
    <3>1. d \in Decoder /\ p4 \in Nat
      BY <1>1, <2>1
    <3>. QED
      BY <2>3, <2>5, <3>1, Went DEF e
  <2>. QED
    BY <2>1, <2>6 DEF Moved
<1>10. Goes(R[p5], p5) /\ Content(R[p5]) = B /\ R[p5].state = "version" /\ R[p5].start = p5
  <2> DEFINE d == R[p4]
             e == LookedAt(d, p5)
  <2>1. /\ d \in Decoder /\ d.ret = "more" /\ d.state = "spaces_after_uri" /\ Content(d) = B
        /\ e.state = "spaces_after_uri"
    <3>1. d \in Decoder /\ d.ret = "more" /\ d.state = "spaces_after_uri" /\ Content(d) = B
      BY <1>9
    <3>. QED
      BY <1>1, <3>1, Looked
  <2>2. R[p5] = FirstLine(kind, e, text[p5], text, p5)
    BY <1>3, <2>1, TurnIsLine DEF LineStates
  <2>3. "version" \in States
    BY DEF States
  <2> HIDE DEF e
  <2>4. Version # SP
    BY Words
  <2>5. R[p5] = Begun(e, "version", p5)
    BY <1>1, <1>4, <2>1, <2>2, <2>4 DEF FirstLine, RequestLine, AtRequestVersion, Begun, WithMethod, WithCode
  <2>6. Moved(d, R[p5], p5, Content(d)) /\ R[p5].state = "version" /\ R[p5].start = p5
    <3>1. d \in Decoder /\ p5 \in Nat
      BY <1>1, <2>1
    <3> HIDE DEF d
    <3>2. /\ Moved(d, Begun(LookedAt(d, p5), "version", p5), p5, Content(d))
          /\ Begun(LookedAt(d, p5), "version", p5).state = "version"
          /\ Begun(LookedAt(d, p5), "version", p5).start = p5
      BY <2>3, <3>1, Began
    <3>. QED
      BY <2>5, <3>2 DEF e
  <2>. QED
    BY <2>1, <2>6 DEF Moved
<1>11. Goes(R[p6], p6) /\ Content(R[p6]) = B /\ R[p6].state = "rl_crlf"
  <2> DEFINE d == R[p5]
             e == LookedAt(d, p6)
  <2>1. /\ d \in Decoder /\ d.ret = "more" /\ d.state = "version" /\ Content(d) = B
        /\ e.state = "version" /\ d.start = p5 /\ e.start = p5
    <3>1. d \in Decoder /\ d.ret = "more" /\ d.state = "version" /\ Content(d) = B /\ d.start = p5
      BY <1>10
    <3>. QED
      BY <1>1, <3>1, Looked
  <2>2. R[p6] = FirstLine(kind, e, text[p6], text, p6)
    BY <1>3, <2>1, TurnIsLine DEF LineStates
  <2>3. "rl_crlf" \in States
    BY DEF States
  <2> HIDE DEF e
  <2>4. p6 - 1 = p5 /\ SubSeq(text, e.start, p6 - 1) = SubSeq(text, p5, p5)
    BY <1>1, <2>1
  <2>5. R[p6] = Enter(e, "rl_crlf")
    BY <1>1, <1>4, <2>1, <2>2, <2>4 DEF FirstLine, RequestLine, AtRequestVersion, Begun, WithMethod, WithCode
  <2>6. Moved(d, R[p6], p6, Content(d)) /\ R[p6].state = "rl_crlf"
    <3>1. d \in Decoder /\ p6 \in Nat
      BY <1>1, <2>1
    <3>. QED
      BY <2>3, <2>5, <3>1, Went DEF e
  <2>. QED
    BY <2>1, <2>6 DEF Moved
<1>12. Goes(R[p7], p7) /\ Content(R[p7]) = B /\ R[p7].state = "rl_crlf"
  <2>1. R[p6] \in Decoder /\ PassesOver(R[p6], text[p7])
    BY <1>1, <1>11 DEF PassesOver
  <2>2. R[p7] = LookedAt(R[p6], p7)
    <3>1. R[p7] = Turn(kind, R[p6], text, p7) /\ p7 \in Nat /\ p7 >= 1
      BY <1>1, <1>3
    <3>. QED
      BY <2>1, <3>1, TurnStays
  <2>3. Moved(R[p6], R[p7], p7, Content(R[p6])) /\ R[p7].state = R[p6].state
    <3>1. p7 \in Nat
      BY <1>1
    <3>. QED
      BY <2>1, <2>2, <3>1, Looked
  <2>. QED
    BY <1>11, <2>3 DEF Moved
<1>13. ASSUME NEW i \in 1 .. 7 PROVE Resumes(kind, text, i)
  <2>1. SUFFICES /\ Goes(R[i], i) /\ Placed(R[i], i)
                 /\ text[i] \notin {CR, Colon} => Turn(kind, R[i], text, i) = R[i]
    BY DEF Resumes, R
  <2>2. ASSUME R[i] \in Decoder, R[i].offset = i, R[i].state \in LineStates,
               FirstLine(kind, R[i], text[i], text, i) = R[i]
        PROVE  Turn(kind, R[i], text, i) = R[i]
    <3>1. i \in Nat /\ LookedAt(R[i], i) = R[i]
      BY <2>2, Looked
    <3>. QED
      BY <2>2, <3>1, TurnIsLine
  <2>3. CASE i = p1
    <3>1. FirstLine(kind, R[i], text[i], text, i) = R[i]
      BY <1>1, <1>6, <2>3, Words DEF FirstLine, RequestLine, AtMethod, AtUri, AtRequestVersion, CR, SP, LF
    <3>2. R[i].state \in LineStates
      BY <1>6, <2>3 DEF LineStates
    <3>. QED
      BY <1>1, <1>6, <2>2, <2>3, <3>1, <3>2 DEF Placed
  <2>4. CASE i = p2
    <3>1. FirstLine(kind, R[i], text[i], text, i) = R[i]
      BY <1>1, <1>7, <2>4, Words DEF FirstLine, RequestLine, AtMethod, AtUri, AtRequestVersion, CR, SP, LF
    <3>2. R[i].state \in LineStates
      BY <1>7, <2>4 DEF LineStates
    <3>. QED
      BY <1>1, <1>7, <2>2, <2>4, <3>1, <3>2 DEF Placed
  <2>5. CASE i = p3
    <3>1. FirstLine(kind, R[i], text[i], text, i) = R[i]
      BY <1>1, <1>8, <2>5, Words DEF FirstLine, RequestLine, AtMethod, AtUri, AtRequestVersion, CR, SP, LF
    <3>2. R[i].state \in LineStates
      BY <1>8, <2>5 DEF LineStates
    <3>. QED
      BY <1>1, <1>8, <2>2, <2>5, <3>1, <3>2 DEF Placed
  <2>6. CASE i = p4
    <3>1. FirstLine(kind, R[i], text[i], text, i) = R[i]
      BY <1>1, <1>9, <2>6, Words DEF FirstLine, RequestLine, AtMethod, AtUri, AtRequestVersion, CR, SP, LF
    <3>2. R[i].state \in LineStates
      BY <1>9, <2>6 DEF LineStates
    <3>. QED
      BY <1>1, <1>9, <2>2, <2>6, <3>1, <3>2 DEF Placed
  <2>7. CASE i = p5
    <3>1. FirstLine(kind, R[i], text[i], text, i) = R[i]
      BY <1>1, <1>10, <2>7, Words DEF FirstLine, RequestLine, AtMethod, AtUri, AtRequestVersion, CR, SP, LF
    <3>2. R[i].state \in LineStates
      BY <1>10, <2>7 DEF LineStates
    <3>. QED
      BY <1>1, <1>10, <2>2, <2>7, <3>1, <3>2 DEF Placed
  <2>8. CASE i = p6
    BY <1>1, <1>11, <2>8 DEF Placed
  <2>9. CASE i = p7
    <3>1. PassesOver(R[p7], text[p7])
      BY <1>1, <1>12 DEF PassesOver
    <3>2. R[p7] \in Decoder /\ R[p7].offset = p7 /\ p7 \in Nat /\ p7 >= 1
      BY <1>1, <1>12
    <3>3. Turn(kind, R[p7], text, p7) = R[p7]
      BY <3>1, <3>2, Again
    <3>. QED
      BY <1>12, <2>9, <3>3 DEF Placed
  <2>. QED
    BY <2>3, <2>4, <2>5, <2>6, <2>7, <2>8, <2>9 DEF p1, p2, p3, p4, p5, p6, p7
<1>. QED
  BY <1>1, <1>12, <1>13 DEF AtLine, R, A, B, p7

\* And so is the status line.
LEMMA StatusLineRead ==
    ASSUME NEW text \in Text, NEW n \in Numbers,
           Spells(text, 0, <<Version, SP, Numeral[n], SP, "OK", CR, LF>>)
    PROVE  LET R == Reading("response", text)
           IN /\ 7 <= Len(text) /\ AtLine("response", text, 7)
              /\ Content(R[7]) = WithCode(Content(NewDecoder), n)
              /\ \A i \in 1 .. 7 : Resumes("response", text, i)
<1> DEFINE kind == "response"
           R == Reading(kind, text)
           A == Content(NewDecoder)
           B == WithCode(A, n)
           line == <<Version, SP, Numeral[n], SP, "OK", CR, LF>>
           p1 == 1
           p2 == 2
           p3 == 3
           p4 == 4
           p5 == 5
           p6 == 6
           p7 == 7
           Goes(e, i) == e \in Decoder /\ e.offset = i /\ e.ret = "more"
<1>1. /\ text[p1] = Version /\ text[p2] = SP /\ text[p3] = Numeral[n] /\ text[p4] = SP /\ text[p5] = "OK"
      /\ text[p6] = CR /\ text[p7] = LF /\ Len(text) \in Nat /\ p7 <= Len(text)
      /\ p1 \in Nat /\ p2 \in Nat /\ p3 \in Nat /\ p4 \in Nat /\ p5 \in Nat /\ p6 \in Nat /\ p7 \in Nat
      /\ p1 >= 1 /\ p2 >= 1 /\ p3 >= 1 /\ p4 >= 1 /\ p5 >= 1 /\ p6 >= 1 /\ p7 >= 1
      /\ p2 - 1 = p1 /\ p4 - 1 = p3 /\ p6 - 1 = p5
  <2>1. Len(line) = 7 /\ line[1] = Version /\ line[2] = SP /\ line[3] = Numeral[n] /\ line[4] = SP
        /\ line[5] = "OK" /\ line[6] = CR /\ line[7] = LF
    OBVIOUS
  <2>2. 0 + Len(line) <= Len(text) /\ \A i \in 1 .. Len(line) : text[0 + i] = line[i]
    BY DEF Spells
  <2> HIDE DEF line
  <2>3. 7 <= Len(text) /\ \A i \in 1 .. 7 : text[i] = line[i]
    BY <2>1, <2>2 DEF Text
  <2>. QED
    BY <2>1, <2>3 DEF Text
<1>2. R[0] = NewDecoder /\ \A i \in 1 .. 7 : R[i] = Turn(kind, R[i - 1], text, i)
  BY <1>1, ReadingStep DEF Text
<1>3. /\ R[p1] = Turn(kind, R[0], text, p1) /\ R[p2] = Turn(kind, R[p1], text, p2)
      /\ R[p3] = Turn(kind, R[p2], text, p3) /\ R[p4] = Turn(kind, R[p3], text, p4)
      /\ R[p5] = Turn(kind, R[p4], text, p5) /\ R[p6] = Turn(kind, R[p5], text, p6)
      /\ R[p7] = Turn(kind, R[p6], text, p7)
  BY <1>2
<1>4. /\ SubSeq(text, p1, p1) = <<Version>> /\ SubSeq(text, p3, p3) = <<Numeral[n]>>
  <2>1. 1 \in 1 .. Len(text) /\ 3 \in 1 .. Len(text)
    BY <1>1
  <2>. QED
    BY <1>1, <2>1, OneToken
<1>5. /\ NewDecoder \in Decoder /\ NewDecoder.state = "start" /\ NewDecoder.ret = "more"
  BY NewDecoderType DEF NewDecoder
<1> HIDE DEF R, A, B, p1, p2, p3, p4, p5, p6, p7
<1>6. Goes(R[p1], p1) /\ Content(R[p1]) = A /\ R[p1].state = "version" /\ R[p1].start = p1
  <2> DEFINE d == R[0]
             e == LookedAt(d, p1)
  <2>1. /\ d \in Decoder /\ d.ret = "more" /\ d.state = "start" /\ Content(d) = A
        /\ e.state = "start"
    <3>1. d \in Decoder /\ d.ret = "more" /\ d.state = "start" /\ Content(d) = A
      BY <1>5, <1>2 DEF A
    <3>. QED
      BY <1>1, <3>1, Looked
  <2>2. R[p1] = FirstLine(kind, e, text[p1], text, p1)
    BY <1>3, <2>1, TurnIsLine DEF LineStates
  <2>3. "version" \in States
    BY DEF States
  <2> HIDE DEF e
  <2>4. IsWord(Version) /\ Version \notin {CR, LF}
    BY Words
  <2>5. R[p1] = Begun(e, "version", p1)
    BY <1>1, <1>4, <2>1, <2>2, <2>4 DEF FirstLine, StatusLine, Begun, WithMethod, WithCode
  <2>6. Moved(d, R[p1], p1, Content(d)) /\ R[p1].state = "version" /\ R[p1].start = p1
    <3>1. d \in Decoder /\ p1 \in Nat
      BY <1>1, <2>1
    <3> HIDE DEF d
    <3>2. /\ Moved(d, Begun(LookedAt(d, p1), "version", p1), p1, Content(d))
          /\ Begun(LookedAt(d, p1), "version", p1).state = "version"
          /\ Begun(LookedAt(d, p1), "version", p1).start = p1
      BY <2>3, <3>1, Began
    <3>. QED
      BY <2>5, <3>2 DEF e
  <2>. QED
    BY <2>1, <2>6 DEF Moved
<1>7. Goes(R[p2], p2) /\ Content(R[p2]) = A /\ R[p2].state = "space_after_version"
  <2> DEFINE d == R[p1]
             e == LookedAt(d, p2)
  <2>1. /\ d \in Decoder /\ d.ret = "more" /\ d.state = "version" /\ Content(d) = A
        /\ e.state = "version" /\ d.start = p1 /\ e.start = p1
    <3>1. d \in Decoder /\ d.ret = "more" /\ d.state = "version" /\ Content(d) = A /\ d.start = p1
      BY <1>6
    <3>. QED
      BY <1>1, <3>1, Looked
  <2>2. R[p2] = FirstLine(kind, e, text[p2], text, p2)
    BY <1>3, <2>1, TurnIsLine DEF LineStates
  <2>3. "space_after_version" \in States
    BY DEF States
  <2> HIDE DEF e
  <2>4. p2 - 1 = p1 /\ SubSeq(text, e.start, p2 - 1) = SubSeq(text, p1, p1)
    BY <1>1, <2>1
  <2>5. R[p2] = Enter(e, "space_after_version")
    BY <1>1, <1>4, <2>1, <2>2, <2>4 DEF FirstLine, StatusLine, Begun, WithMethod, WithCode
  <2>6. Moved(d, R[p2], p2, Content(d)) /\ R[p2].state = "space_after_version"
    <3>1. d \in Decoder /\ p2 \in Nat
      BY <1>1, <2>1
    <3>. QED
      BY <2>3, <2>5, <3>1, Went DEF e
  <2>. QED
    BY <2>1, <2>6 DEF Moved
<1>8. Goes(R[p3], p3) /\ Content(R[p3]) = A /\ R[p3].state = "status_code" /\ R[p3].start = p3
  <2> DEFINE d == R[p2]
             e == LookedAt(d, p3)
  <2>1. /\ d \in Decoder /\ d.ret = "more" /\ d.state = "space_after_version" /\ Content(d) = A
        /\ e.state = "space_after_version"
    <3>1. d \in Decoder /\ d.ret = "more" /\ d.state = "space_after_version" /\ Content(d) = A
      BY <1>7
    <3>. QED
      BY <1>1, <3>1, Looked
  <2>2. R[p3] = FirstLine(kind, e, text[p3], text, p3)
    BY <1>3, <2>1, TurnIsLine DEF LineStates
  <2>3. "status_code" \in States
    BY DEF States
  <2> HIDE DEF e
  <2>4. Numeral[n] # SP /\ ~IsWord(Numeral[n])
    BY Words
  <2>5. R[p3] = Begun(e, "status_code", p3)
    BY <1>1, <1>4, <2>1, <2>2, <2>4 DEF FirstLine, StatusLine, Begun, WithMethod, WithCode
  <2>6. Moved(d, R[p3], p3, Content(d)) /\ R[p3].state = "status_code" /\ R[p3].start = p3
    <3>1. d \in Decoder /\ p3 \in Nat
      BY <1>1, <2>1
    <3> HIDE DEF d
    <3>2. /\ Moved(d, Begun(LookedAt(d, p3), "status_code", p3), p3, Content(d))
          /\ Begun(LookedAt(d, p3), "status_code", p3).state = "status_code"
          /\ Begun(LookedAt(d, p3), "status_code", p3).start = p3
      BY <2>3, <3>1, Began
    <3>. QED
      BY <2>5, <3>2 DEF e
  <2>. QED
    BY <2>1, <2>6 DEF Moved
<1>9. Goes(R[p4], p4) /\ Content(R[p4]) = B /\ R[p4].state = "space_after_status_code"
  <2> DEFINE d == R[p3]
             e == LookedAt(d, p4)
  <2>1. /\ d \in Decoder /\ d.ret = "more" /\ d.state = "status_code" /\ Content(d) = A
        /\ e.state = "status_code" /\ d.start = p3 /\ e.start = p3
    <3>1. d \in Decoder /\ d.ret = "more" /\ d.state = "status_code" /\ Content(d) = A /\ d.start = p3
      BY <1>8
    <3>. QED
      BY <1>1, <3>1, Looked
  <2>2. R[p4] = FirstLine(kind, e, text[p4], text, p4)
    BY <1>3, <2>1, TurnIsLine DEF LineStates
  <2>3. "space_after_status_code" \in States
    BY DEF States
  <2> HIDE DEF e
  <2>4. p4 - 1 = p3 /\ SubSeq(text, e.start, p4 - 1) = SubSeq(text, p3, p3)
    BY <1>1, <2>1
  <2>5. Atoi(<<Numeral[n]>>) = n
    BY AtoiNumeral
  <2>6. R[p4] = WithCode(Enter(e, "space_after_status_code"), n)
    <3>1. R[p4] = StatusLine(e, text[p4], text, p4)
      BY <2>2 DEF FirstLine
    <3>2. text[p4] = SP
      BY <1>1, <2>4
    <3>3. StatusLine(e, text[p4], text, p4) = WithCode(Enter(e, "space_after_status_code"), Atoi(SubSeq(text, e.start, p4 - 1)))
      BY <2>1, <3>2, CodeEnds
    <3>. QED
      BY <1>4, <2>1, <2>4, <2>5, <3>1, <3>3
  <2>7. Moved(d, R[p4], p4, B) /\ R[p4].state = "space_after_status_code"
    <3> DEFINE f == WithCode(Enter(LookedAt(d, p4), "space_after_status_code"), n)
    <3>1. Moved(d, f, p4, WithCode(Content(d), n)) /\ f.state = "space_after_status_code"
      <4>1. d \in Decoder /\ p4 \in Nat /\ n \in Nat
        BY <1>1, <2>1, NumeralAssumption
      <4>. QED
        BY <2>3, <4>1, CodeRead
    <3>2. WithCode(Content(d), n) = B
      BY <2>1 DEF B
    <3>3. R[p4] = f
      BY <2>6 DEF e
    <3> HIDE DEF f
    <3>. QED
      BY <3>1, <3>2, <3>3
  <2>. QED
    BY <2>1, <2>7 DEF Moved
<1>10. Goes(R[p5], p5) /\ Content(R[p5]) = B /\ R[p5].state = "status_text"
  <2> DEFINE d == R[p4]
             e == LookedAt(d, p5)
  <2>1. /\ d \in Decoder /\ d.ret = "more" /\ d.state = "space_after_status_code" /\ Content(d) = B
        /\ e.state = "space_after_status_code"
    <3>1. d \in Decoder /\ d.ret = "more" /\ d.state = "space_after_status_code" /\ Content(d) = B
      BY <1>9
    <3>. QED
      BY <1>1, <3>1, Looked
  <2>2. R[p5] = FirstLine(kind, e, text[p5], text, p5)
    BY <1>3, <2>1, TurnIsLine DEF LineStates
  <2>3. "status_text" \in States
    BY DEF States
  <2> HIDE DEF e
  <2>4. "OK" # SP
    BY DEF SP
  <2>5. R[p5] = Enter(e, "status_text")
    <3>1. R[p5] = StatusLine(e, text[p5], text, p5)
      BY <2>2 DEF FirstLine
    <3>2. text[p5] # SP
      BY <1>1, <2>4
    <3>3. StatusLine(e, text[p5], text, p5) = Enter(e, "status_text")
      BY <2>1, <3>2, StatusWords
    <3>. QED
      BY <1>4, <2>1, <2>4, <3>1, <3>3
  <2>6. Moved(d, R[p5], p5, Content(d)) /\ R[p5].state = "status_text"
    <3>1. d \in Decoder /\ p5 \in Nat
      BY <1>1, <2>1
    <3>. QED
      BY <2>3, <2>5, <3>1, Went DEF e
  <2>. QED
    BY <2>1, <2>6 DEF Moved
<1>11. Goes(R[p6], p6) /\ Content(R[p6]) = B /\ R[p6].state = "rl_crlf"
  <2> DEFINE d == R[p5]
             e == LookedAt(d, p6)
  <2>1. /\ d \in Decoder /\ d.ret = "more" /\ d.state = "status_text" /\ Content(d) = B
        /\ e.state = "status_text"
    <3>1. d \in Decoder /\ d.ret = "more" /\ d.state = "status_text" /\ Content(d) = B
      BY <1>10
    <3>. QED
      BY <1>1, <3>1, Looked
  <2>2. R[p6] = FirstLine(kind, e, text[p6], text, p6)
    BY <1>3, <2>1, TurnIsLine DEF LineStates
  <2>3. "rl_crlf" \in States
    BY DEF States
  <2> HIDE DEF e
  <2>4. TRUE
    OBVIOUS
  <2>5. R[p6] = Enter(e, "rl_crlf")
    <3>1. R[p6] = StatusLine(e, text[p6], text, p6)
      BY <2>2 DEF FirstLine
    <3>2. text[p6] = CR
      BY <1>1, <2>4
    <3>3. StatusLine(e, text[p6], text, p6) = Enter(e, "rl_crlf")
      BY <2>1, <3>2, StatusEnds
    <3>. QED
      BY <1>4, <2>1, <2>4, <3>1, <3>3
  <2>6. Moved(d, R[p6], p6, Content(d)) /\ R[p6].state = "rl_crlf"
    <3>1. d \in Decoder /\ p6 \in Nat
      BY <1>1, <2>1
    <3>. QED
      BY <2>3, <2>5, <3>1, Went DEF e
  <2>. QED
    BY <2>1, <2>6 DEF Moved
<1>12. Goes(R[p7], p7) /\ Content(R[p7]) = B /\ R[p7].state = "rl_crlf"
  <2>1. R[p6] \in Decoder /\ PassesOver(R[p6], text[p7])
    BY <1>1, <1>11 DEF PassesOver
  <2>2. R[p7] = LookedAt(R[p6], p7)
    <3>1. R[p7] = Turn(kind, R[p6], text, p7) /\ p7 \in Nat /\ p7 >= 1
      BY <1>1, <1>3
    <3>. QED
      BY <2>1, <3>1, TurnStays
  <2>3. Moved(R[p6], R[p7], p7, Content(R[p6])) /\ R[p7].state = R[p6].state
    <3>1. p7 \in Nat
      BY <1>1
    <3>. QED
      BY <2>1, <2>2, <3>1, Looked
  <2>. QED
    BY <1>11, <2>3 DEF Moved
<1>13. ASSUME NEW i \in 1 .. 7 PROVE Resumes(kind, text, i)
  <2>1. SUFFICES /\ Goes(R[i], i) /\ Placed(R[i], i)
                 /\ text[i] \notin {CR, Colon} => Turn(kind, R[i], text, i) = R[i]
    BY DEF Resumes, R
  <2>2. ASSUME R[i] \in Decoder, R[i].offset = i, R[i].state \in LineStates,
               FirstLine(kind, R[i], text[i], text, i) = R[i]
        PROVE  Turn(kind, R[i], text, i) = R[i]
    <3>1. i \in Nat /\ LookedAt(R[i], i) = R[i]
      BY <2>2, Looked
    <3>. QED
      BY <2>2, <3>1, TurnIsLine
  <2>3. CASE i = p1
    <3>1. FirstLine(kind, R[i], text[i], text, i) = R[i]
      BY <1>1, <1>6, <2>3, Words DEF FirstLine, StatusLine, CR, SP, LF
    <3>2. R[i].state \in LineStates
      BY <1>6, <2>3 DEF LineStates
    <3>. QED
      BY <1>1, <1>6, <2>2, <2>3, <3>1, <3>2 DEF Placed
  <2>4. CASE i = p2
    <3>1. FirstLine(kind, R[i], text[i], text, i) = R[i]
      BY <1>1, <1>7, <2>4, Words DEF FirstLine, StatusLine, CR, SP, LF
    <3>2. R[i].state \in LineStates
      BY <1>7, <2>4 DEF LineStates
    <3>. QED
      BY <1>1, <1>7, <2>2, <2>4, <3>1, <3>2 DEF Placed
  <2>5. CASE i = p3
    <3>1. FirstLine(kind, R[i], text[i], text, i) = R[i]
      BY <1>1, <1>8, <2>5, Words DEF FirstLine, StatusLine, CR, SP, LF
    <3>2. R[i].state \in LineStates
      BY <1>8, <2>5 DEF LineStates
    <3>. QED
      BY <1>1, <1>8, <2>2, <2>5, <3>1, <3>2 DEF Placed
  <2>6. CASE i = p4
    <3>1. FirstLine(kind, R[i], text[i], text, i) = R[i]
      BY <1>1, <1>9, <2>6, Words DEF FirstLine, StatusLine, CR, SP, LF
    <3>2. R[i].state \in LineStates
      BY <1>9, <2>6 DEF LineStates
    <3>. QED
      BY <1>1, <1>9, <2>2, <2>6, <3>1, <3>2 DEF Placed
  <2>7. CASE i = p5
    <3>1. FirstLine(kind, R[i], text[i], text, i) = R[i]
      BY <1>1, <1>10, <2>7, Words DEF FirstLine, StatusLine, CR, SP, LF
    <3>2. R[i].state \in LineStates
      BY <1>10, <2>7 DEF LineStates
    <3>. QED
      BY <1>1, <1>10, <2>2, <2>7, <3>1, <3>2 DEF Placed
  <2>8. CASE i = p6
    BY <1>1, <1>11, <2>8 DEF Placed
  <2>9. CASE i = p7
    <3>1. PassesOver(R[p7], text[p7])
      BY <1>1, <1>12 DEF PassesOver
    <3>2. R[p7] \in Decoder /\ R[p7].offset = p7 /\ p7 \in Nat /\ p7 >= 1
      BY <1>1, <1>12
    <3>3. Turn(kind, R[p7], text, p7) = R[p7]
      BY <3>1, <3>2, Again
    <3>. QED
      BY <1>12, <2>9, <3>3 DEF Placed
  <2>. QED
    BY <2>3, <2>4, <2>5, <2>6, <2>7, <2>8, <2>9 DEF p1, p2, p3, p4, p5, p6, p7
<1>. QED
  BY <1>1, <1>12, <1>13 DEF AtLine, R, A, B, p7

-----------------------------------------------------------------------------
(***************************************************************************)
(* The headers of a message, read.                                         *)
(***************************************************************************)
Fine(head) == FineKey(head.key) /\ FineValue(head.value)

\* Header lines one after the other.
LEMMA HeadTextType ==
    ASSUME NEW key \in Token, NEW value \in Text
    PROVE  HeadText(key, value) \in Text /\ Len(HeadText(key, value)) = Len(value) + 5
<1> DEFINE a == <<key, Colon, SP>>
           z == <<CR, LF>>
<1>1. a \in Text /\ z \in Text /\ Len(a) = 3 /\ Len(z) = 2
  BY TokenAssumption DEF Text, Separators
<1> HIDE DEF a, z
<1>2. a \o value \in Text /\ Len(a \o value) = Len(a) + Len(value)
  BY <1>1, Concat
<1> DEFINE b == a \o value
<1>3. b \in Text /\ Len(b) = 3 + Len(value)
  BY <1>1, <1>2
<1> HIDE DEF b
<1>4. b \o z \in Text /\ Len(b \o z) = Len(b) + Len(z)
  BY <1>1, <1>3, Concat
<1>5. HeadText(key, value) = b \o z
  BY DEF HeadText, a, z, b
<1>6. Len(value) \in Nat
  BY DEF Text
<1>. QED
  BY <1>1, <1>3, <1>4, <1>5, <1>6

\* The headers after one another.
HeadTexts(heads) == [i \in DOMAIN heads |-> HeadText(heads[i].key, heads[i].value)]
WithHeads(c, hs) == [c EXCEPT !.heads = hs]

LEMMA HeadsRead ==
    ASSUME NEW kind, NEW text \in Text, NEW p \in Nat, p >= 1, NEW heads \in Seq(Header),
           \A i \in 1 .. Len(heads) : Fine(heads[i]) /\ heads[i].key \notin Counted,
           Spells(text, p, FlattenSeq(HeadTexts(heads))), AtLine(kind, text, p),
           Reading(kind, text)[p].state = "head_crlf",
           Content(Reading(kind, text)[p]).heads = <<>>
    PROVE  LET q == p + Len(FlattenSeq(HeadTexts(heads)))
               R == Reading(kind, text)
           IN /\ FlattenSeq(HeadTexts(heads)) \in Text
              /\ q <= Len(text) /\ AtLine(kind, text, q) /\ R[q].state = "head_crlf"
              /\ Content(R[q]) = WithHeads(Content(R[p]), KeptHeads(heads))
              /\ \A i \in p + 1 .. q : Resumes(kind, text, i)
<1> DEFINE R == Reading(kind, text)
           C == Content(R[p])
           n == Len(heads)
           ts == HeadTexts(heads)
<1>1. /\ n \in Nat
      /\ \A i \in 1 .. n : /\ heads[i].key \in Token /\ heads[i].value \in Text
                            /\ heads[i] = [key |-> heads[i].key, value |-> heads[i].value]
                            /\ Fine(heads[i]) /\ heads[i].key \notin Counted
  <2>1. n \in Nat
    OBVIOUS
  <2> SUFFICES ASSUME NEW i \in 1 .. n
               PROVE  /\ heads[i].key \in Token /\ heads[i].value \in Text
                      /\ heads[i] = [key |-> heads[i].key, value |-> heads[i].value]
                      /\ Fine(heads[i]) /\ heads[i].key \notin Counted
    BY <2>1
  <2>2. heads[i] \in Header
    OBVIOUS
  <2>3. Fine(heads[i]) /\ heads[i].key \notin Counted
    OBVIOUS
  <2>. QED
    BY <2>2, <2>3 DEF Header
<1>2. ts \in Seq(Text) /\ Len(ts) = n
      /\ \A i \in 1 .. n : /\ ts[i] = HeadText(heads[i].key, heads[i].value)
                            /\ ts[i] \in Text
  <2>1. \A i \in 1 .. n : HeadText(heads[i].key, heads[i].value) \in Text
    BY <1>1, HeadTextType
  <2>2. DOMAIN heads = 1 .. n
    OBVIOUS
  <2>. QED
    BY <1>1, <2>1, <2>2 DEF HeadTexts
<1> HIDE DEF ts
<1>3. PICK f \in [0 .. n -> Text] :
          /\ f[0] = <<>> /\ f[n] = FlattenSeq(ts)
          /\ \A i \in 1 .. n : f[i] = f[i - 1] \o ts[i]
  BY <1>2, FlattenSteps
<1>4. PICK g \in [0 .. n -> Seq(Header)] :
          /\ g[0] = <<>> /\ g[n] = KeptHeads(heads)
          /\ \A i \in 1 .. n :
                 g[i] = IF heads[i].key \in KeptKeys THEN <<heads[i]>> \o g[i - 1] ELSE g[i - 1]
  BY KeptSteps
<1> HIDE DEF n
\* Every part of the headers is spelt.
<1> DEFINE D == {j \in Nat : j <= n => Spells(text, p, f[n - j])}
<1>5. \A i \in 0 .. n : Spells(text, p, f[i])
  <2>1. 0 \in D
    <3>1. n - 0 = n /\ Spells(text, p, f[n])
      BY <1>1, <1>3 DEF ts
    <3>. QED
      BY <3>1
  <2>2. ASSUME NEW j \in Nat, j \in D PROVE j + 1 \in D
    <3>1. SUFFICES ASSUME j + 1 <= n PROVE Spells(text, p, f[n - (j + 1)])
      OBVIOUS
    <3> DEFINE i == n - j
               h == n - (j + 1)
    <3>2. i \in 1 .. n /\ h \in 0 .. n /\ i - 1 = h /\ i \in 0 .. n
      BY <1>1, <3>1
    <3>3. Spells(text, p, f[i])
      BY <1>1, <2>2, <3>1
    <3> HIDE DEF i, h
    <3>4. f[i] = f[h] \o ts[i] /\ f[h] \in Text /\ ts[i] \in Text
      BY <1>2, <1>3, <3>2
    <3>5. Spells(text, p, f[h])
      BY <3>3, <3>4, SpellsParts
    <3>. QED
      BY <3>5 DEF h
  <2>3. Nat \subseteq D
    <3> HIDE DEF D
    <3>. QED
      BY <2>1, <2>2, NatSetInduction
  <2> TAKE i \in 0 .. n
  <2>4. n - i \in Nat /\ n - i <= n /\ n - (n - i) = i
    BY <1>1
  <2>5. n - i \in D
    BY <2>3, <2>4
  <2>. QED
    BY <2>4, <2>5
\* They are read one after the other.
<1> DEFINE Upto(i) == LET q == p + Len(f[i])
                      IN /\ q <= Len(text) /\ AtLine(kind, text, q) /\ R[q].state = "head_crlf"
                         /\ Content(R[q]) = WithHeads(C, g[i])
                         /\ \A j \in p + 1 .. q : Resumes(kind, text, j)
           S == {i \in Nat : i <= n => Upto(i)}
<1>6. 0 \in S
  <2>1. Len(f[0]) = 0
    BY <1>3
  <2>2. Content(R[p]) = WithHeads(C, <<>>)
    BY DEF Content, WithHeads
  <2>3. p + Len(f[0]) = p
    BY <2>1
  <2>4. p <= Len(text)
    BY <1>1, <1>5, <2>3 DEF Spells
  <2>5. p + 1 .. p = {}
    OBVIOUS
  <2> HIDE DEF R, C
  <2>6. Upto(0)
    BY <1>4, <2>2, <2>3, <2>4, <2>5 DEF R
  <2>. QED
    BY <2>6
<1>7. ASSUME NEW k \in Nat, k \in S PROVE k + 1 \in S
  <2>1. SUFFICES ASSUME k + 1 <= n PROVE Upto(k + 1)
    OBVIOUS
  <2> DEFINE i == k + 1
             q == p + Len(f[k])
             key == heads[i].key
             value == heads[i].value
             x == q + Len(value) + 5
  <2>2. i \in 1 .. n /\ i \in 0 .. n /\ k \in 0 .. n /\ i - 1 = k
    BY <1>1, <2>1
  <2>3. Upto(k)
    BY <1>1, <1>7, <2>1
  <2> HIDE DEF i
  <2>4. /\ f[i] = f[k] \o ts[i] /\ f[k] \in Text /\ ts[i] = HeadText(key, value)
        /\ key \in Token /\ value \in Text /\ FineKey(key) /\ FineValue(value)
        /\ key \notin Counted
    <3>1. f[i] = f[k] \o ts[i] /\ f[k] \in Text
      BY <1>3, <2>2
    <3>2. ts[i] = HeadText(key, value)
      BY <1>2, <2>2
    <3>3. key \in Token /\ value \in Text /\ FineKey(key) /\ FineValue(value) /\ key \notin Counted
      BY <1>1, <2>2 DEF Fine
    <3>. QED
      BY <3>1, <3>2, <3>3
  <2>5. ts[i] \in Text /\ Len(ts[i]) = Len(value) + 5 /\ Len(value) \in Nat /\ Len(f[k]) \in Nat
    <3> HIDE DEF key, value
    <3>1. HeadText(key, value) \in Text /\ Len(HeadText(key, value)) = Len(value) + 5
      BY <2>4, HeadTextType
    <3>2. \A s \in Text : Len(s) \in Nat
      BY DEF Text
    <3>. QED
      BY <2>4, <3>1, <3>2
  <2>6. p + Len(f[i]) = x /\ q \in Nat /\ q >= 1 /\ x \in Nat
    <3>1. Len(f[k] \o ts[i]) = Len(f[k]) + Len(ts[i])
      BY <2>4, <2>5, Concat
    <3>2. Len(f[i]) = Len(f[k]) + Len(value) + 5
      <4> HIDE DEF key, value
      <4>1. f[i] = f[k] \o ts[i]
        BY <2>4
      <4>2. Len(f[i]) = Len(f[k]) + Len(ts[i])
        BY <3>1, <4>1
      <4> DEFINE a == Len(f[k])
                 b == Len(value)
                 c == Len(ts[i])
      <4>3. a \in Nat /\ b \in Nat /\ c = b + 5
        BY <2>5
      <4>4. Len(f[i]) = a + c
        BY <4>2
      <4> HIDE DEF a, b, c
      <4>5. a + c = a + b + 5
        BY <4>3
      <4>. QED
        BY <4>4, <4>5 DEF a, b
    <3>3. Len(f[k]) \in Nat /\ Len(value) \in Nat
      BY <2>5
    <3> DEFINE a == Len(f[k])
               b == Len(value)
    <3> HIDE DEF a, b, key, value
    <3>4. p + Len(f[i]) = p + a + b + 5
      BY <3>2, <3>3 DEF a, b
    <3>. QED
      BY <3>3, <3>4 DEF a, b
  <2>7. Spells(text, q, HeadText(key, value))
    <3>1. Spells(text, p, f[k] \o ts[i])
      BY <1>5, <2>2, <2>4
    <3>. QED
      BY <2>4, <2>5, <3>1, SpellsParts
  <2>8. AtLine(kind, text, q) /\ Content(R[q]) = WithHeads(C, g[k])
        /\ \A j \in p + 1 .. q : Resumes(kind, text, j)
    BY <2>3
  <2> HIDE DEF q, key, value, R, C
  <2>9. /\ x <= Len(text) /\ AtLine(kind, text, x) /\ R[x].state = "head_crlf"
        /\ Content(R[x]) = Added(Content(R[q]), key, value)
        /\ \A j \in q + 1 .. x : Resumes(kind, text, j)
    BY <2>4, <2>6, <2>7, <2>8, HeadRead DEF R
  <2>10. Content(R[x]) = WithHeads(C, g[i])
    <3>1. g[i] = IF key \in KeptKeys THEN <<heads[i]>> \o g[k] ELSE g[k]
      BY <1>4, <2>2 DEF key
    <3>2. heads[i] = [key |-> key, value |-> value]
      BY <1>1, <2>2 DEF key, value
    <3>3. WithHeads(C, g[k]).heads = g[k]
      BY DEF WithHeads, C, Content
    <3> DEFINE e == WithHeads(C, g[k])
    <3>4. Added(e, key, value) = IF key \in KeptKeys
                                 THEN [e EXCEPT !.heads = <<[key |-> key, value |-> value]>> \o e.heads]
                                 ELSE e
      BY <2>4 DEF Added, Counted
    <3>5. CASE key \in KeptKeys
      <4> DEFINE hs == <<heads[i]>> \o g[k]
      <4>1. g[i] = hs /\ Added(e, key, value) = [e EXCEPT !.heads = hs]
        BY <3>1, <3>2, <3>3, <3>4, <3>5
      <4> HIDE DEF hs
      <4>2. [e EXCEPT !.heads = hs] = WithHeads(C, hs)
        BY DEF WithHeads, C, Content
      <4>. QED
        BY <2>8, <2>9, <4>1, <4>2
    <3>6. CASE key \notin KeptKeys
      BY <2>8, <2>9, <3>1, <3>4, <3>6
    <3>. QED
      BY <3>5, <3>6
  <2>11. \A j \in p + 1 .. x : Resumes(kind, text, j)
    BY <2>5, <2>6, <2>8, <2>9
  <2>12. Upto(i)
    BY <2>6, <2>9, <2>10, <2>11
  <2>. QED
    BY <2>12 DEF i
<1>8. Upto(n)
  <2>1. Nat \subseteq S
    <3> HIDE DEF S
    <3>. QED
      BY <1>6, <1>7, NatSetInduction
  <2>2. n \in S
    BY <1>1, <2>1
  <2>. QED
    BY <1>1, <2>2
<1>9. f[n] \in Text
  BY <1>1, <1>3
<1>. QED
  BY <1>3, <1>4, <1>8, <1>9 DEF ts

-----------------------------------------------------------------------------
(***************************************************************************)
(* The empty line and the body, read.                                      *)
(***************************************************************************)
WithBody(c, b) == [c EXCEPT !.body = b]

\* The empty line and the body.
LEMMA TurnIsBody ==
    ASSUME NEW kind, NEW d, NEW text, NEW p, d.state \in {"head_end", "body"}
    PROVE  Turn(kind, d, text, p) = Body(LookedAt(d, p), text[p], text, p)
BY DEF Turn, HeadStates, LookedAt

LEMMA TurnWaits ==
    ASSUME NEW kind, NEW d \in Decoder, NEW text, NEW p \in Nat, NEW f,
           f = Turn(kind, d, text, p),
           \/ d.state = "head_end" /\ text[p] = LF /\ d.bodyLen # 0
           \/ d.state = "body" /\ p - d.bodyStart + 1 # d.bodyLen
    PROVE  f = LookedAt(d, p)
<1> DEFINE e == LookedAt(d, p)
<1>1. e.state = d.state /\ e.bodyStart = d.bodyStart /\ e.bodyLen = d.bodyLen
  BY Looked DEF Moved, Content
<1>2. f = Body(e, text[p], text, p)
  BY TurnIsBody
<1> HIDE DEF e
<1>3. CASE d.state = "head_end" /\ text[p] = LF /\ d.bodyLen # 0
  BY <1>1, <1>2, <1>3 DEF Body, e
<1>4. CASE d.state = "body" /\ p - d.bodyStart + 1 # d.bodyLen
  BY <1>1, <1>2, <1>4 DEF Body, e
<1>. QED
  BY <1>3, <1>4

LEMMA TurnBody ==
    ASSUME NEW kind, NEW d \in Decoder, NEW text, NEW p \in Nat, NEW f,
           f = Turn(kind, d, text, p), d.state = "head_end", text[p] # LF
    PROVE  Moved(d, f, p, Content(d)) /\ f.state = "body" /\ f.bodyStart = p
<1> DEFINE e == LookedAt(d, p)
           g == Enter(e, "body")
           h == [g EXCEPT !.bodyStart = p]
<1>1. e.state = d.state /\ Moved(d, e, p, Content(d))
  BY Looked
<1>2. f = Body(e, text[p], text, p)
  BY TurnIsBody
<1> HIDE DEF e
<1>3. f = h
  BY <1>1, <1>2 DEF Body
<1>4. g \in Decoder /\ g.offset = p /\ g.ret = d.ret /\ Content(g) = Content(d) /\ g.state = "body"
  <2>1. "body" \in States
    BY DEF States
  <2>. QED
    BY <1>1, <2>1, Entered DEF Moved
<1> HIDE DEF g
<1>5. Moved(g, h, g.offset, Content(g)) /\ h.state = g.state /\ h.bodyStart = p
  BY <1>4, Marked
<1> HIDE DEF h
<1>. QED
  BY <1>3, <1>4, <1>5 DEF Moved

\* A decoder that has ended with the content c.
Ended(f, p, c) == f \in Decoder /\ f.ret = "done" /\ f.offset = p /\ Content(f) = c

LEMMA TurnNoBody ==
    ASSUME NEW kind, NEW d \in Decoder, NEW text, NEW p \in Nat, NEW f,
           f = Turn(kind, d, text, p), d.state = "head_end", text[p] = LF, d.bodyLen = 0
    PROVE  Ended(f, p, Content(d))
<1> DEFINE e == LookedAt(d, p)
           h == [e EXCEPT !.ret = "done"]
<1>1. /\ e.state = d.state /\ e \in Decoder /\ e.offset = p /\ Content(e) = Content(d)
      /\ e.bodyLen = d.bodyLen
  BY Looked DEF Moved, Content
<1>2. f = Body(e, text[p], text, p)
  BY TurnIsBody
<1> HIDE DEF e
<1>3. f = h
  BY <1>1, <1>2 DEF Body
<1>4. h \in Decoder /\ h.ret = "done" /\ h.offset = e.offset /\ Content(h) = Content(e)
  BY <1>1 DEF Decoder, Content
<1> HIDE DEF h
<1>. QED
  BY <1>1, <1>3, <1>4 DEF Ended

LEMMA TurnLast ==
    ASSUME NEW kind, NEW d \in Decoder, NEW text, NEW p \in Nat, NEW f, NEW body \in Text,
           f = Turn(kind, d, text, p), d.state = "body", p - d.bodyStart + 1 = d.bodyLen,
           SubSeq(text, d.bodyStart, p) = body
    PROVE  Ended(f, p, WithBody(Content(d), body))
<1> DEFINE e == LookedAt(d, p)
           h == [e EXCEPT !.ret = "done", !.body = body]
<1>1. /\ e.state = d.state /\ e \in Decoder /\ e.offset = p /\ Content(e) = Content(d)
      /\ e.bodyLen = d.bodyLen /\ e.bodyStart = d.bodyStart
  BY Looked DEF Moved, Content
<1>2. f = Body(e, text[p], text, p)
  BY TurnIsBody
<1> HIDE DEF e
<1>3. f = h
  BY <1>1, <1>2 DEF Body
<1>4. h \in Decoder /\ h.ret = "done" /\ h.offset = e.offset
  BY <1>1 DEF Decoder
<1>5. /\ h.method = e.method /\ h.code = e.code /\ h.cseq = e.cseq /\ h.heads = e.heads
      /\ h.bodyLen = e.bodyLen /\ h.body = body
  BY <1>1 DEF Decoder
<1> HIDE DEF h
<1>6. Content(h) = WithBody(Content(e), body)
  BY <1>5 DEF Content, WithBody
<1>. QED
  BY <1>1, <1>3, <1>4, <1>6 DEF Ended

LEMMA EndRead ==
    ASSUME NEW kind, NEW text \in Text, NEW p \in Nat, p >= 1, NEW body \in Text,
           Len(body) # 1, body # <<>> => body[1] # LF,
           Spells(text, p, <<CR, LF>> \o body), AtLine(kind, text, p),
           Reading(kind, text)[p].state = "head_crlf",
           Content(Reading(kind, text)[p]).bodyLen = Len(body),
           Content(Reading(kind, text)[p]).body = <<>>
    PROVE  LET q == p + 2 + Len(body)
               R == Reading(kind, text)
           IN /\ q <= Len(text) /\ Ended(R[q], q, WithBody(Content(R[p]), body))
              /\ \A i \in p + 1 .. q - 1 : Resumes(kind, text, i)
<1> DEFINE R == Reading(kind, text)
           C == Content(R[p])
           n == Len(body)
           q == p + 2 + n
           b == p + 3
           Goes(e, i) == e \in Decoder /\ e.offset = i /\ e.ret = "more" /\ Content(e) = C
<1>1. /\ n \in Nat /\ text[p + 1] = CR /\ text[p + 2] = LF /\ q <= Len(text)
      /\ Spells(text, p + 2, body)
  <2> DEFINE z == <<CR, LF>>
  <2>1. z \in Text /\ Len(z) = 2 /\ z[1] = CR /\ z[2] = LF
    BY TokenAssumption DEF Text, Separators
  <2> HIDE DEF z
  <2>2. Spells(text, p, z \o body)
    BY DEF z
  <2>3. Spells(text, p, z) /\ Spells(text, p + Len(z), body)
    BY <2>1, <2>2, SpellsParts
  <2>4. text[p + 1] = CR /\ text[p + 2] = LF
    BY <2>1, <2>3 DEF Spells
  <2>5. n \in Nat
    BY DEF Text
  <2>6. Spells(text, p + 2, body)
    BY <2>1, <2>3
  <2>7. p + 2 + n <= Len(text)
    BY <2>6 DEF Spells
  <2>. QED
    BY <2>4, <2>5, <2>6, <2>7
<1>2. Len(text) \in Nat /\ text \in Seq(Token)
  BY DEF Text
<1>3. /\ R[p] \in Decoder /\ R[p].state = "head_crlf" /\ R[p].ret = "more"
      /\ C.bodyLen = n /\ C.body = <<>>
  BY DEF AtLine
<1>4. \A i \in p + 1 .. q : R[i] = Turn(kind, R[i - 1], text, i)
  BY <1>1, <1>2, ReadingStep
<1> HIDE DEF R, C, n, q
<1>5. Goes(R[p + 1], p + 1) /\ R[p + 1].state = "head_end"
  <2> DEFINE i == p + 1
  <2>1. i \in Nat /\ i >= 1 /\ i \in p + 1 .. q /\ i - 1 = p /\ text[i] = CR
    BY <1>1 DEF q
  <2> HIDE DEF i
  <2>2. R[i] = Turn(kind, R[p], text, i)
    BY <1>4, <2>1
  <2>3. Moved(R[p], R[i], i, Content(R[p])) /\ R[i].state = "head_end"
    BY <1>3, <2>1, <2>2, TurnEmpty
  <2>4. Goes(R[i], i)
    BY <1>3, <2>3 DEF Moved, C
  <2>. QED
    BY <2>3, <2>4 DEF i
<1>6. R[p + 1].bodyLen = n
  BY <1>3, <1>5 DEF Content
<1> DEFINE k == p + 2
<1>7. k \in Nat /\ k >= 1 /\ k \in p + 1 .. q /\ text[k] = LF /\ R[k] = Turn(kind, R[p + 1], text, k)
  <2>1. k \in Nat /\ k >= 1 /\ k \in p + 1 .. q /\ text[k] = LF /\ k - 1 = p + 1
    BY <1>1 DEF q
  <2>. QED
    BY <1>4, <2>1
<1>8. Resumes(kind, text, p + 1)
  BY <1>1, <1>5 DEF Resumes, Placed, R
<1> DEFINE Goal == /\ q <= Len(text) /\ Ended(R[q], q, WithBody(C, body))
                   /\ \A i \in p + 1 .. q - 1 : Resumes(kind, text, i)
<1>9. ASSUME n = 0 PROVE Goal
  <2>1. Ended(R[k], k, C)
    <3> DEFINE h == p + 1
    <3> HIDE DEF k, h
    <3>1. R[h] \in Decoder /\ R[h].state = "head_end" /\ R[h].bodyLen = 0 /\ Content(R[h]) = C
          /\ R[k] = Turn(kind, R[h], text, k)
      BY <1>5, <1>6, <1>7, <1>9 DEF h
    <3>. QED
      BY <1>7, <3>1, TurnNoBody
  <2>2. q = k /\ q - 1 = p + 1
    BY <1>9 DEF q
  <2>3. C = WithBody(C, body)
    <3>1. body = C.body
      BY <1>3, <1>9 DEF n, Text
    <3>2. WithBody(C, C.body) = C
      BY DEF WithBody, C, Content
    <3>. QED
      BY <3>1, <3>2
  <2>4. \A i \in p + 1 .. q - 1 : i = p + 1
    BY <2>2
  <2>5. Ended(R[q], q, WithBody(C, body))
    <3> HIDE DEF k
    <3>. QED
      BY <2>1, <2>2, <2>3
  <2>6. \A i \in p + 1 .. q - 1 : Resumes(kind, text, i)
    BY <1>8, <2>4
  <2>7. q <= Len(text)
    BY <1>1
  <2>. QED
    BY <2>7, <2>5, <2>6, Zenon
<1>10. ASSUME n # 0 PROVE Goal
  <2>1. n >= 2 /\ body # <<>> /\ body[1] # LF
    <3>1. n >= 2
      <4>1. n \in Nat /\ n # 1 /\ n # 0
        BY <1>1, <1>10 DEF n
      <4>. QED
        BY <4>1
    <3>2. body # <<>>
      BY <1>10 DEF n
    <3>. QED
      BY <3>1, <3>2
  <2>2. Goes(R[k], k) /\ R[k].state = "head_end" /\ Turn(kind, R[k], text, k) = R[k]
    <3> DEFINE h == p + 1
    <3> HIDE DEF k, h
    <3>1. R[h] \in Decoder /\ R[h].state = "head_end" /\ R[h].bodyLen # 0 /\ Goes(R[h], h)
          /\ R[k] = Turn(kind, R[h], text, k)
      BY <1>5, <1>6, <1>7, <1>10 DEF h
    <3>2. R[k] = LookedAt(R[h], k)
      BY <1>7, <3>1, TurnWaits
    <3>3. Moved(R[h], R[k], k, Content(R[h])) /\ R[k].state = R[h].state
      BY <1>7, <3>1, <3>2, Looked
    <3>4. Goes(R[k], k) /\ R[k].state = "head_end"
      BY <3>1, <3>3 DEF Moved
    <3>5. R[k].bodyLen # 0
      BY <1>3, <1>10, <3>4 DEF Content
    <3>6. Turn(kind, R[k], text, k) = LookedAt(R[k], k)
      BY <1>7, <3>4, <3>5, TurnWaits
    <3>7. LookedAt(R[k], k) = R[k]
      BY <1>7, <3>4, Looked
    <3>. QED
      BY <3>4, <3>6, <3>7
  <2> DEFINE InBody(i) == Goes(R[i], i) /\ R[i].state = "body" /\ R[i].bodyStart = b
  <2>3. InBody(b)
    <3>1. b \in Nat /\ b \in p + 1 .. q /\ b - 1 = k
      BY <1>1, <2>1 DEF q
    <3>2. text[b] # LF
      <4>1. text[p + 2 + 1] = body[1]
        BY <1>1, <2>1 DEF Spells, n
      <4>. QED
        BY <2>1, <4>1
    <3> HIDE DEF b, k
    <3>3. R[b] = Turn(kind, R[k], text, b)
      BY <1>4, <3>1
    <3>4. Moved(R[k], R[b], b, Content(R[k])) /\ R[b].state = "body" /\ R[b].bodyStart = b
      BY <2>2, <3>1, <3>2, <3>3, TurnBody
    <3>. QED
      BY <2>2, <3>4 DEF Moved
  <2> DEFINE S == {j \in Nat : j + 1 < n => InBody(b + j)}
  <2>4. \A i \in b .. q - 1 : InBody(i)
    <3>1. 0 \in S
      <4>1. b + 0 = b
        OBVIOUS
      <4>. QED
        BY <2>3, <4>1
    <3>2. ASSUME NEW j \in Nat, j \in S PROVE j + 1 \in S
      <4>1. SUFFICES ASSUME j + 1 + 1 < n PROVE InBody(b + (j + 1))
        OBVIOUS
      <4> DEFINE i == b + (j + 1)
                 h == b + j
      <4>2. /\ i \in Nat /\ i >= 1 /\ i \in p + 1 .. q /\ i - 1 = h /\ i - b + 1 # n
        <5>1. q \in Nat /\ n \in Nat /\ q = p + 2 + n
          BY <1>1 DEF q
        <5>2. i = p + 4 + j /\ h = p + 3 + j /\ i - b = j + 1
          OBVIOUS
        <5>3. i <= q /\ i >= p + 1
          BY <4>1, <5>1, <5>2
        <5>. QED
          BY <4>1, <5>1, <5>2, <5>3
      <4>3. InBody(h)
        BY <1>1, <3>2, <4>1
      <4> HIDE DEF i, h, b
      <4>4. R[i] = Turn(kind, R[h], text, i)
        BY <1>4, <4>2
      <4>5. R[h] \in Decoder /\ R[h].state = "body" /\ R[h].bodyStart = b /\ R[h].bodyLen = n
            /\ R[h].ret = "more" /\ Content(R[h]) = C
        BY <1>3, <4>3 DEF Content
      <4>6. R[i] = LookedAt(R[h], i)
        BY <4>2, <4>4, <4>5, TurnWaits
      <4>7. Moved(R[h], R[i], i, Content(R[h])) /\ R[i].state = R[h].state
            /\ R[i].bodyStart = R[h].bodyStart
        BY <4>2, <4>5, <4>6, Looked
      <4>8. InBody(i)
        BY <4>5, <4>7 DEF Moved
      <4>. QED
        BY <4>8 DEF i
    <3>3. Nat \subseteq S
      <4> HIDE DEF S
      <4>. QED
        BY <3>1, <3>2, NatSetInduction
    <3> TAKE i \in b .. q - 1
    <3>4. i - b \in Nat /\ i - b + 1 < n /\ b + (i - b) = i
      BY <1>1 DEF q
    <3>5. i - b \in S
      BY <3>3, <3>4
    <3>. QED
      BY <3>4, <3>5
  <2>5. Ended(R[q], q, WithBody(C, body))
    <3> DEFINE h == q - 1
    <3>1. q \in Nat /\ q \in p + 1 .. q /\ h \in b .. q - 1 /\ q - b + 1 = n
      BY <1>1, <2>1 DEF q
    <3>2. InBody(h)
      BY <2>4, <3>1
    <3>3. SubSeq(text, b, q) = body
      <4> DEFINE s == p + 2
      <4>1. s \in Nat /\ s + 1 = b /\ s + Len(body) = q
        BY <1>1 DEF q, n
      <4>2. Spells(text, s, body)
        BY <1>1
      <4> HIDE DEF s
      <4>3. SubSeq(text, s + 1, s + Len(body)) = body
        BY <4>1, <4>2, SpellsSubSeq
      <4>. QED
        BY <4>1, <4>3
    <3>4. R[q] = Turn(kind, R[h], text, q)
      BY <1>4, <3>1
    <3> HIDE DEF h, b
    <3>5. R[h] \in Decoder /\ R[h].state = "body" /\ R[h].bodyStart = b /\ R[h].bodyLen = n
          /\ Content(R[h]) = C
      BY <1>3, <3>2 DEF Content
    <3>. QED
      BY <3>1, <3>3, <3>4, <3>5, TurnLast
  <2>6. ASSUME NEW i \in p + 1 .. q - 1 PROVE Resumes(kind, text, i)
    <3>1. CASE i = p + 1
      BY <1>8, <3>1
    <3>2. CASE i = k
      BY <2>2, <3>2 DEF Resumes, Placed, R
    <3>3. CASE i \in b .. q - 1
      <4>1. InBody(i) /\ i \in Nat /\ i >= 1 /\ i - b + 1 # n /\ b >= 1
        <5>1. n \in Nat /\ q = b - 1 + n
          BY <1>1 DEF q
        <5>2. InBody(i)
          BY <2>4, <3>3
        <5>3. i \in Nat /\ i >= 1 /\ i - b + 1 # n /\ b >= 1
          BY <3>3, <5>1
        <5>. QED
          BY <5>2, <5>3
      <4> HIDE DEF b
      <4>2. R[i] \in Decoder /\ R[i].state = "body" /\ R[i].bodyStart = b /\ R[i].bodyLen = n
            /\ R[i].offset = i /\ R[i].ret = "more"
        BY <1>3, <4>1 DEF Content
      <4>3. Turn(kind, R[i], text, i) = LookedAt(R[i], i)
        BY <4>1, <4>2, TurnWaits
      <4>4. LookedAt(R[i], i) = R[i]
        BY <4>1, <4>2, Looked
      <4>. QED
        BY <4>1, <4>2, <4>3, <4>4 DEF Resumes, Placed, R
    <3>. QED
      BY <1>1, <3>1, <3>2, <3>3 DEF q
  <2>7. q <= Len(text)
    BY <1>1
  <2>. QED
    BY <2>7, <2>5, <2>6, Zenon
<1>11. Goal
  BY <1>9, <1>10
<1>. QED
  BY <1>11 DEF R, C, q, n

-----------------------------------------------------------------------------
(***************************************************************************)
(* A whole message, read.                                                  *)
(***************************************************************************)
LEMMA HeadTextsType ==
    ASSUME NEW heads \in Seq(Header)
    PROVE  FlattenSeq(HeadTexts(heads)) \in Text
<1> DEFINE ts == HeadTexts(heads)
           n == Len(heads)
<1>1. n \in Nat /\ DOMAIN heads = 1 .. n
  OBVIOUS
<1>2. \A i \in 1 .. n : HeadText(heads[i].key, heads[i].value) \in Text
  <2> TAKE i \in 1 .. n
  <2>1. heads[i] \in Header
    OBVIOUS
  <2>2. heads[i].key \in Token /\ heads[i].value \in Text
    BY <2>1 DEF Header
  <2>. QED
    BY <2>2, HeadTextType
<1>3. ts \in Seq(Text) /\ Len(ts) = n
  BY <1>1, <1>2 DEF HeadTexts
<1> HIDE DEF ts
<1>4. PICK f \in [0 .. Len(ts) -> Text] : f[Len(ts)] = FlattenSeq(ts)
  BY <1>3, FlattenSteps
<1>5. Len(ts) \in 0 .. Len(ts)
  BY <1>1, <1>3
<1>. QED
  BY <1>4, <1>5 DEF ts

\* A message is its first line, its own headers, CSeq and what follows.
LEMMA SpellsJoined ==
    ASSUME NEW t \in Text, NEW p \in Nat, NEW a \in Text, NEW b \in Text,
           Spells(t, p, a), Spells(t, p + Len(a), b)
    PROVE  Spells(t, p, a \o b)
<1> DEFINE k == Len(a)
           n == Len(b)
           c == a \o b
<1>1. /\ c \in Text /\ Len(c) = k + n
      /\ \A i \in 1 .. k : c[i] = a[i]
      /\ \A i \in 1 .. n : c[k + i] = b[i]
  BY Concat
<1>2. k \in Nat /\ n \in Nat /\ Len(t) \in Nat
  BY DEF Text
<1>3. \A i \in 1 .. k : t[p + i] = a[i]
  BY DEF Spells
<1>4. p + k + n <= Len(t) /\ \A i \in 1 .. n : t[p + k + i] = b[i]
  BY DEF Spells
<1> HIDE DEF c, k, n
<1>5. ASSUME NEW i \in 1 .. k + n PROVE t[p + i] = c[i]
  <2>1. CASE i \in 1 .. k
    BY <1>1, <1>3, <2>1
  <2>2. CASE i \notin 1 .. k
    <3> DEFINE j == i - k
    <3>1. j \in 1 .. n /\ k + j = i /\ p + k + j = p + i
      BY <1>2, <2>2
    <3> HIDE DEF j
    <3>2. c[k + j] = b[j] /\ t[p + k + j] = b[j]
      BY <1>1, <1>4, <3>1
    <3>. QED
      BY <3>1, <3>2
  <2>. QED
    BY <2>1, <2>2
<1>6. p + Len(c) <= Len(t)
  BY <1>1, <1>2, <1>4
<1>7. Spells(t, p, c)
  BY <1>1, <1>5, <1>6 DEF Spells
<1>. QED
  BY <1>7 DEF c

LEMMA NumeralFine ==
    ASSUME NEW n \in Numbers
    PROVE  FineValue(<<Numeral[n]>>) /\ Len(<<Numeral[n]>>) = 1
<1>1. Numeral[n] \in Token /\ Numeral[n] # SP /\ Numeral[n] # CR
  BY NumeralAssumption DEF Separators
<1> DEFINE v == <<Numeral[n]>>
<1>2. v \in Seq(Token) /\ v # <<>> /\ Len(v) = 1 /\ v[1] = Numeral[n]
  BY <1>1
<1> HIDE DEF v
<1>3. \A i \in 1 .. Len(v) : v[i] # CR
  BY <1>1, <1>2
<1>4. FineValue(v)
  BY <1>1, <1>2, <1>3 DEF FineValue, Text
<1>. QED
  BY <1>2, <1>4 DEF v

LEMMA KnownKeys ==
    FineKey("CSeq") /\ FineKey("Content-Length") /\ FineKey("User-Agent")
    /\ FineKey("Server") /\ FineKey("Date")
BY TokenAssumption DEF FineKey, CR, LF, Colon

\* A message that reads as it is written.
FineHeads(heads) == /\ heads \in Seq(Header)
                    /\ \A i \in 1 .. Len(heads) : Fine(heads[i]) /\ heads[i].key \notin Counted
FineBody(body) == /\ body \in Text /\ Len(body) # 1
                  /\ body # <<>> => body[1] # LF /\ Len(body) \in Numbers

\* The decoder has ended at p, with every field but the body's as in c.
Finished(f, p, c, heads, body) ==
    /\ f \in Decoder /\ f.ret = "done" /\ f.offset = p
    /\ f.method = c.method /\ f.code = c.code /\ f.cseq = c.cseq
    /\ f.heads = heads /\ f.body = body

WithLength(c, n) == [c EXCEPT !.bodyLen = n]

LEMMA FinishedAs ==
    ASSUME NEW d \in Decoder, NEW c, c = Content(d), NEW f, NEW p, NEW hs, NEW n, NEW body,
           Ended(f, p, WithBody(WithLength(WithHeads(c, hs), n), body))
    PROVE  Finished(f, p, c, hs, body)
<1> DEFINE e == WithBody(WithLength(WithHeads(c, hs), n), body)
<1>1. /\ e.method = c.method /\ e.code = c.code /\ e.cseq = c.cseq /\ e.heads = hs
      /\ e.body = body
  BY DEF WithBody, WithLength, WithHeads, Content
<1>2. f \in Decoder /\ f.ret = "done" /\ f.offset = p /\ Content(f) = e
  BY DEF Ended
<1> HIDE DEF e
<1>3. /\ f.method = e.method /\ f.code = e.code /\ f.cseq = e.cseq /\ f.heads = e.heads
      /\ f.body = e.body
  BY <1>2 DEF Content
<1>. QED
  BY <1>1, <1>2, <1>3 DEF Finished

LengthText(body) == IF body = <<>> THEN <<>> ELSE HeadText("Content-Length", <<Numeral[Len(body)]>>)

LEMMA LengthTextType ==
    ASSUME NEW body, FineBody(body)
    PROVE  /\ LengthText(body) \in Text
           /\ body = <<>> => LengthText(body) = <<>>
           /\ body # <<>> => Len(LengthText(body)) = 6
<1>1. CASE body = <<>>
  BY <1>1 DEF Text, LengthText
<1>2. CASE body # <<>>
  <2> DEFINE v == <<Numeral[Len(body)]>>
             key == "Content-Length"
  <2>1. v \in Text /\ Len(v) = 1
    BY <1>2, NumeralFine DEF FineBody, FineValue
  <2>2. key \in Token
    BY TokenAssumption
  <2> DEFINE t == HeadText(key, v)
  <2>3. t \in Text /\ Len(t) = 6
    <3> HIDE DEF v, key
    <3>1. t \in Text
      BY <2>1, <2>2, HeadTextType
    <3>2. Len(t) = Len(v) + 5
      BY <2>1, <2>2, HeadTextType
    <3>. QED
      BY <2>1, <3>1, <3>2
  <2> HIDE DEF t
  <2>4. LengthText(body) = t
    BY <1>2 DEF t, LengthText
  <2>. QED
    BY <1>2, <2>3, <2>4
<1>. QED
  BY <1>1, <1>2

\* What is spelt in four parts, the last two together.
Four(a, b, c, d) == ((a \o b) \o c) \o d

\* The four parts of a text, each where the one before ends.
LEMMA FourParts ==
    ASSUME NEW text \in Text, NEW p \in Nat, NEW F \in Text, NEW L \in Text, NEW Z \in Text,
           NEW body \in Text, Spells(text, p, Four(F, L, Z, body))
    PROVE  /\ Spells(text, p, F) /\ Spells(text, p + Len(F), L)
           /\ Spells(text, p + Len(F) + Len(L), Z \o body)
           /\ Four(F, L, Z, body) \in Text
           /\ Len(Four(F, L, Z, body)) = Len(F) + Len(L) + Len(Z) + Len(body)
<1> DEFINE a == F \o L
           b == a \o Z
           c == b \o body
<1>1. a \in Text /\ Len(a) = Len(F) + Len(L)
  BY Concat
<1>2. b \in Text /\ Len(b) = Len(a) + Len(Z)
  <2> HIDE DEF a
  <2>. QED
    BY <1>1, Concat
<1>3. c \in Text /\ Len(c) = Len(b) + Len(body)
  <2> HIDE DEF b
  <2>. QED
    BY <1>2, Concat
<1>4. \A s \in Text : Len(s) \in Nat
  BY DEF Text
<1>5. Spells(text, p, b) /\ Spells(text, p + Len(b), body)
  <2>1. Spells(text, p, c)
    BY DEF Four
  <2> HIDE DEF b
  <2>. QED
    BY <1>2, <2>1, SpellsParts
<1>6. Spells(text, p, a) /\ Spells(text, p + Len(a), Z)
  <2>1. Spells(text, p, b)
    BY <1>5
  <2> HIDE DEF a
  <2>. QED
    BY <1>1, <2>1, SpellsParts
<1>7. Spells(text, p, F) /\ Spells(text, p + Len(F), L)
  BY <1>6, SpellsParts
<1> HIDE DEF a, b, c
<1>8. p + Len(b) = p + Len(a) + Len(Z) /\ p + Len(a) \in Nat
       /\ p + Len(F) + Len(L) = p + Len(a)
  BY <1>1, <1>2, <1>4
<1>9. Spells(text, p + Len(a), Z \o body)
  <2> DEFINE x == p + Len(a)
  <2>1. x \in Nat /\ Spells(text, x, Z) /\ Spells(text, x + Len(Z), body)
    BY <1>5, <1>6, <1>8
  <2> HIDE DEF x
  <2>2. Spells(text, x, Z \o body)
    BY <2>1, SpellsJoined
  <2>. QED
    BY <2>2 DEF x
<1>10. Len(c) = Len(F) + Len(L) + Len(Z) + Len(body)
  BY <1>1, <1>2, <1>3, <1>4
<1>11. Spells(text, p + Len(F) + Len(L), Z \o body)
  BY <1>8, <1>9
<1>. QED
  BY <1>3, <1>7, <1>10, <1>11 DEF a, b, c, Four

LEMMA TrailerParts ==
    ASSUME NEW text \in Text, NEW p \in Nat, NEW t, Spells(text, p, t), NEW body \in Text,
           NEW F \in Text, NEW L \in Text, t = Four(F, L, <<CR, LF>>, body)
    PROVE  /\ t \in Text
           /\ Spells(text, p, F) /\ Spells(text, p + Len(F), L)
           /\ Spells(text, p + Len(F) + Len(L), <<CR, LF>> \o body)
           /\ Len(t) = Len(F) + Len(L) + 2 + Len(body)
<1> DEFINE end == <<CR, LF>>
<1>1. end \in Text /\ Len(end) = 2
  BY TokenAssumption DEF Text, Separators
<1>2. Spells(text, p, Four(F, L, end, body))
  OBVIOUS
<1> HIDE DEF end
<1>3. /\ Spells(text, p, F) /\ Spells(text, p + Len(F), L)
      /\ Spells(text, p + Len(F) + Len(L), end \o body)
      /\ Four(F, L, end, body) \in Text
  BY <1>1, <1>2, FourParts
<1>4. Len(F) \in Nat /\ Len(L) \in Nat /\ Len(end) \in Nat /\ Len(body) \in Nat
  BY <1>1 DEF Text
<1>5. Len(Four(F, L, end, body)) = Len(F) + Len(L) + Len(end) + Len(body)
  <2>1. end \in Text
    BY <1>1
  <2>. QED
    BY <1>2, <1>4, <2>1, FourParts
<1>6. t = Four(F, L, end, body)
  BY DEF end
<1>7. Len(t) = Len(F) + Len(L) + 2 + Len(body)
  BY <1>1, <1>4, <1>5, <1>6
<1>8. Spells(text, p + Len(F) + Len(L), <<CR, LF>> \o body)
  BY <1>3 DEF end
<1>. QED
  BY <1>3, <1>6, <1>7, <1>8

LEMMA TrailerIs ==
    ASSUME NEW heads, FineHeads(heads), NEW body, FineBody(body)
    PROVE  /\ Trailer(heads, body)
                  = Four(FlattenSeq(HeadTexts(heads)), LengthText(body), <<CR, LF>>, body)
           /\ FlattenSeq(HeadTexts(heads)) \in Text /\ LengthText(body) \in Text
           /\ body \in Text
<1>1. FlattenSeq(HeadTexts(heads)) \in Text
  BY HeadTextsType DEF FineHeads
<1>2. LengthText(body) \in Text
  BY LengthTextType
<1>3. body \in Text
  BY DEF FineBody
<1>4. Trailer(heads, body)
          = Four(FlattenSeq(HeadTexts(heads)), LengthText(body), <<CR, LF>>, body)
  BY DEF Trailer, HeadTexts, LengthText, Four
<1>. QED
  BY <1>1, <1>2, <1>3, <1>4

\* What the headers the library adds by itself come to.
WithCSeq(c, n) == [c EXCEPT !.cseq = n]

LEMMA AddedOwn ==
    ASSUME NEW c, NEW v
    PROVE  /\ Added(c, "Content-Length", v) = WithLength(c, Atoi(v))
           /\ Added(c, "CSeq", v) = WithCSeq(c, Atoi(v))
           /\ Added(c, "User-Agent", v) = c /\ Added(c, "Server", v) = c
           /\ Added(c, "Date", v) = c
<1> DEFINE n == Atoi(v)
<1> HIDE DEF n
<1>1. Added(c, "Content-Length", v) = WithLength(c, n)
  BY DEF Added, WithLength, KeptKeys, Counted, n
<1>2. Added(c, "CSeq", v) = WithCSeq(c, n)
  BY DEF Added, WithCSeq, KeptKeys, Counted, n
<1>3. Added(c, "User-Agent", v) = c /\ Added(c, "Server", v) = c /\ Added(c, "Date", v) = c
  BY DEF Added, KeptKeys, ShortHeads, LongHeads, Counted
<1>. QED
  BY <1>1, <1>2, <1>3 DEF n

\* Content-Length, when there is a body.
LEMMA LengthRead ==
    ASSUME NEW kind, NEW text \in Text, NEW p \in Nat, p >= 1, NEW body, FineBody(body),
           AtLine(kind, text, p), Reading(kind, text)[p].state = "head_crlf",
           Content(Reading(kind, text)[p]).bodyLen = 0, NEW L \in Text,
           L = LengthText(body),
           Spells(text, p, L), NEW q, q = p + Len(L)
    PROVE  LET R == Reading(kind, text)
           IN /\ q \in Nat /\ q >= p /\ q <= Len(text)
              /\ AtLine(kind, text, q) /\ R[q].state = "head_crlf"
              /\ Content(R[q]) = WithLength(Content(R[p]), Len(body))
              /\ \A i \in p + 1 .. q : Resumes(kind, text, i)
<1> DEFINE R == Reading(kind, text)
           C == Content(R[p])
<1>1. CASE body = <<>>
  <2>1. Len(L) = 0 /\ q = p
    BY <1>1, LengthTextType
  <2>2. WithLength(C, 0) = C
    BY DEF WithLength, Content
  <2>3. p <= Len(text)
    BY <2>1 DEF Spells
  <2>4. Len(body) = 0
    BY <1>1
  <2> HIDE DEF R, C
  <2>5. \A i \in p + 1 .. q : Resumes(kind, text, i)
    BY <2>1
  <2>6. Content(R[q]) = WithLength(Content(R[p]), Len(body))
    BY <2>1, <2>2, <2>4 DEF C
  <2>. QED
    BY <2>1, <2>3, <2>5, <2>6 DEF R
<1>2. CASE body # <<>>
  <2> DEFINE v == <<Numeral[Len(body)]>>
             key == "Content-Length"
             n == Len(body)
  <2>1. n \in Numbers
    BY <1>2 DEF FineBody
  <2>2. FineValue(v) /\ Len(v) = 1 /\ FineKey(key) /\ Atoi(v) = n
    BY <2>1, NumeralFine, KnownKeys, AtoiNumeral
  <2>3. Added(C, key, v) = WithLength(C, Atoi(v))
    BY AddedOwn
  <2> HIDE DEF v, key, n
  <2>4. L = HeadText(key, v) /\ key \in Token /\ v \in Text
    BY <1>2, <2>2 DEF key, v, LengthText, FineKey, FineValue
  <2> DEFINE x == p + Len(v) + 5
  <2>5. /\ x <= Len(text) /\ AtLine(kind, text, x) /\ R[x].state = "head_crlf"
        /\ Content(R[x]) = Added(Content(R[p]), key, v)
        /\ \A i \in p + 1 .. x : Resumes(kind, text, i)
    BY <2>2, <2>4, HeadRead
  <2>6. x = q /\ x \in Nat /\ x >= p
    <3>1. Len(L) = Len(v) + 5
      <4>1. Len(HeadText(key, v)) = Len(v) + 5
        BY <2>4, HeadTextType
      <4>. QED
        BY <2>4, <4>1
    <3>2. Len(L) = 6
      BY <2>2, <3>1
    <3>3. x = p + 6
      BY <2>2
    <3> HIDE DEF x
    <3>4. q = p + 6
      BY <3>2
    <3>. QED
      BY <3>3, <3>4
  <2> HIDE DEF x, R, C
  <2>7. Content(R[q]) = WithLength(C, n)
    BY <2>2, <2>3, <2>5, <2>6 DEF C
  <2>. QED
    BY <2>5, <2>6, <2>7 DEF R, C, n
<1>. QED
  BY <1>1, <1>2

LEMMA TrailerRead ==
    ASSUME NEW kind, NEW text \in Text, NEW p \in Nat, p >= 1, NEW heads, FineHeads(heads),
           NEW body, FineBody(body), Spells(text, p, Trailer(heads, body)),
           AtLine(kind, text, p), Reading(kind, text)[p].state = "head_crlf",
           NEW c, c = Content(Reading(kind, text)[p]),
           c.heads = <<>>, c.bodyLen = 0, c.body = <<>>,
           NEW x, x = p + Len(Trailer(heads, body))
    PROVE  /\ x \in Nat /\ x > p /\ x <= Len(text)
           /\ Finished(Reading(kind, text)[x], x, c, KeptHeads(heads), body)
           /\ \A i \in p + 1 .. x - 1 : Resumes(kind, text, i)
<1> DEFINE R == Reading(kind, text)
           F == FlattenSeq(HeadTexts(heads))
           L == LengthText(body)
           q == p + Len(F)
           r == q + Len(L)
           hs == KeptHeads(heads)
           n == Len(body)
<1>1. /\ F \in Text /\ L \in Text /\ body \in Text
      /\ Spells(text, p, F) /\ Spells(text, p + Len(F), L)
      /\ Spells(text, p + Len(F) + Len(L), <<CR, LF>> \o body)
      /\ Len(Trailer(heads, body)) = Len(F) + Len(L) + 2 + Len(body)
  <2> DEFINE t == Trailer(heads, body)
  <2>1. t = Four(F, L, <<CR, LF>>, body) /\ F \in Text /\ L \in Text /\ body \in Text
    BY TrailerIs
  <2>2. Spells(text, p, t)
    OBVIOUS
  <2> HIDE DEF R, F, L, t
  <2>3. /\ Spells(text, p, F) /\ Spells(text, p + Len(F), L)
        /\ Spells(text, p + Len(F) + Len(L), <<CR, LF>> \o body)
        /\ Len(t) = Len(F) + Len(L) + 2 + Len(body)
    BY <2>1, <2>2, TrailerParts
  <2>. QED
    BY <2>1, <2>3 DEF t
<1>2. /\ F \in Text /\ L \in Text /\ body \in Text
      /\ Spells(text, p, F) /\ Spells(text, q, L) /\ Spells(text, r, <<CR, LF>> \o body)
      /\ Len(Trailer(heads, body)) = Len(F) + Len(L) + 2 + n
  BY <1>1
<1>3. \A s \in Text : Len(s) \in Nat
  BY DEF Text
<1>4. q \in Nat /\ q >= p /\ n \in Nat
  BY <1>2, <1>3
<1>5. /\ heads \in Seq(Header)
      /\ \A i \in 1 .. Len(heads) : Fine(heads[i]) /\ heads[i].key \notin Counted
  BY DEF FineHeads
<1> HIDE DEF R
<1>6. /\ AtLine(kind, text, q) /\ R[q].state = "head_crlf"
      /\ Content(R[q]) = WithHeads(Content(R[p]), KeptHeads(heads))
      /\ \A i \in p + 1 .. q : Resumes(kind, text, i)
  BY <1>2, <1>5, HeadsRead DEF R
<1> DEFINE C1 == WithHeads(c, hs)
           C2 == WithLength(C1, n)
<1>7. R[p] \in Decoder /\ c = Content(R[p])
  BY DEF AtLine, R
<1>8. Content(R[q]) = C1 /\ C1.bodyLen = 0 /\ C1.body = <<>>
  <2>1. Content(R[q]) = C1
    BY <1>6, <1>7
  <2>2. C1.bodyLen = c.bodyLen /\ C1.body = c.body
    BY <1>7 DEF WithHeads, Content
  <2>. QED
    BY <2>1, <2>2
<1> HIDE DEF F, L, hs, C1, q
<1>9. /\ r \in Nat /\ r >= q /\ r <= Len(text) /\ AtLine(kind, text, r)
      /\ R[r].state = "head_crlf" /\ Content(R[r]) = WithLength(Content(R[q]), n)
      /\ \A i \in q + 1 .. r : Resumes(kind, text, i)
  <2>1. Content(R[q]).bodyLen = 0
    BY <1>8
  <2>2. q >= 1
    BY <1>4
  <2>3. L = LengthText(body)
    BY DEF L
  <2>4. r = q + Len(L)
    OBVIOUS
  <2>5. AtLine(kind, text, q) /\ R[q].state = "head_crlf" /\ q \in Nat
    BY <1>4, <1>6
  <2>6. L \in Text /\ Spells(text, q, L)
    BY <1>2
  <2> HIDE DEF r
  <2>. QED
    BY <2>1, <2>2, <2>3, <2>4, <2>5, <2>6, LengthRead DEF R, n
<1>10. Content(R[r]) = C2 /\ C2.bodyLen = n /\ C2.body = <<>>
  <2>1. Content(R[r]) = C2
    BY <1>8, <1>9
  <2>2. Content(R[q]) = C1
    BY <1>8
  <2>3. C2.bodyLen = n /\ C2.body = C1.body
    BY <2>2 DEF WithLength, Content
  <2>. QED
    BY <1>8, <2>1, <2>3
<1> HIDE DEF r, C2
<1> DEFINE y == r + 2 + Len(body)
<1>11. /\ y <= Len(text) /\ Ended(R[y], y, WithBody(Content(R[r]), body))
       /\ \A i \in r + 1 .. y - 1 : Resumes(kind, text, i)
  <2>1. Content(R[r]).bodyLen = Len(body) /\ Content(R[r]).body = <<>> /\ r >= 1
    BY <1>4, <1>9, <1>10
  <2>2. Len(body) # 1 /\ (body # <<>> => body[1] # LF)
    BY DEF FineBody
  <2>. QED
    BY <1>2, <1>9, <2>1, <2>2, EndRead DEF R
<1>12. y = x /\ x \in Nat /\ x > p /\ x > r
  <2>1. Len(F) \in Nat /\ Len(L) \in Nat
    BY <1>2, <1>3
  <2>. QED
    BY <1>2, <1>4, <2>1 DEF q, r
<1> HIDE DEF y, n
<1>13. Finished(R[x], x, c, hs, body)
  <2>1. Ended(R[x], x, WithBody(WithLength(WithHeads(c, hs), n), body))
    BY <1>10, <1>11, <1>12 DEF C1, C2
  <2>. QED
    BY <1>7, <2>1, FinishedAs
<1>14. \A i \in p + 1 .. x - 1 : Resumes(kind, text, i)
  <2> TAKE i \in p + 1 .. x - 1
  <2>1. CASE i <= q
    BY <1>4, <1>6, <2>1
  <2>2. CASE i > q /\ i <= r
    BY <1>4, <1>9, <2>2
  <2>3. CASE i > r
    BY <1>9, <1>11, <1>12, <2>3
  <2>. QED
    BY <1>4, <1>9, <2>1, <2>2, <2>3
<1>. QED
  BY <1>11, <1>12, <1>13, <1>14 DEF R, hs

\* The text is one message, which reads as r: the decoder ends at its last
\* token and no earlier, and resumes anywhere before.
Whole(kind, text, r) ==
    LET R == Reading(kind, text)
        n == Len(text)
    IN /\ text \in Text /\ n >= 1
       /\ R[n] \in Decoder /\ R[n].ret = "done" /\ R[n].offset = n /\ Read(R[n]) = r
       /\ \A i \in 1 .. n - 1 : Resumes(kind, text, i)

FineMessage(m) == m.cseq \in Numbers /\ FineHeads(m.heads) /\ FineBody(m.body)
FineRequest(m) == FineMessage(m) /\ m.method \in Methods /\ m.code = 0
FineResponse(m) == FineMessage(m) /\ m.method = "NONE" /\ m.code \in Numbers

\* The headers and the body of a message, from wherever they begin.
LEMMA MessageRead ==
    ASSUME NEW kind, NEW text \in Text, NEW p \in Nat, p >= 1, NEW m, FineMessage(m),
           Spells(text, p, Trailer(m.heads, m.body)),
           Len(text) = p + Len(Trailer(m.heads, m.body)),
           AtLine(kind, text, p), Reading(kind, text)[p].state = "head_crlf",
           NEW c, c = Content(Reading(kind, text)[p]),
           c.method = m.method, c.code = m.code, c.cseq = m.cseq,
           c.heads = <<>>, c.bodyLen = 0, c.body = <<>>,
           \A i \in 1 .. p : Resumes(kind, text, i)
    PROVE  Whole(kind, text, AsRead(m))
<1> DEFINE R == Reading(kind, text)
           n == Len(text)
           hs == m.heads
           body == m.body
<1>1. FineHeads(hs) /\ FineBody(body)
  BY DEF FineMessage
<1>2. n = p + Len(Trailer(hs, body))
  OBVIOUS
<1>3. Spells(text, p, Trailer(hs, body))
  OBVIOUS
<1> HIDE DEF R, n, hs, body
<1>4. /\ n \in Nat /\ n > p
      /\ Finished(R[n], n, c, KeptHeads(hs), body)
      /\ \A i \in p + 1 .. n - 1 : Resumes(kind, text, i)
  BY <1>1, <1>2, <1>3, TrailerRead DEF R
<1>5. R[n] \in Decoder /\ R[n].ret = "done" /\ R[n].offset = n
  BY <1>4 DEF Finished
<1>6. Read(R[n]) = AsRead(m)
  <2> DEFINE f == R[n]
  <2>1. /\ f.method = m.method /\ f.code = m.code /\ f.cseq = m.cseq
        /\ f.heads = KeptHeads(m.heads) /\ f.body = m.body
    BY <1>4 DEF Finished, hs, body
  <2> HIDE DEF f
  <2>2. Read(f) = AsRead(m)
    BY <2>1 DEF Read, AsRead
  <2>. QED
    BY <2>2 DEF f
<1>7. \A i \in 1 .. n - 1 : Resumes(kind, text, i)
  <2> TAKE i \in 1 .. n - 1
  <2>1. CASE i <= p
    BY <2>1
  <2>2. CASE i > p
    BY <1>4, <2>2
  <2>. QED
    BY <1>4, <2>1, <2>2
<1>8. n >= 1
  BY <1>4
<1>. QED
  BY <1>5, <1>6, <1>7, <1>8 DEF Whole, R, n

\* A header with a value of one token.
LEMMA ShortHeadRead ==
    ASSUME NEW kind, NEW text \in Text, NEW p \in Nat, p >= 1, NEW key, FineKey(key), NEW v,
           v \in Token \ {SP, CR}, Spells(text, p, HeadText(key, <<v>>)), AtLine(kind, text, p)
    PROVE  LET R == Reading(kind, text)
               q == p + 6
           IN /\ AtLine(kind, text, q) /\ R[q].state = "head_crlf"
              /\ Content(R[q]) = Added(Content(R[p]), key, <<v>>)
              /\ \A i \in p + 1 .. q : Resumes(kind, text, i)
<1> DEFINE s == <<v>>
           q == p + Len(s) + 5
           R == Reading(kind, text)
<1>1. s \in Seq(Token) /\ s # <<>> /\ Len(s) = 1 /\ s[1] = v
  OBVIOUS
<1>2. q = p + 6
  BY <1>1
<1> HIDE DEF s
<1>3. \A i \in 1 .. Len(s) : s[i] # CR
  BY <1>1
<1>4. FineValue(s)
  BY <1>1, <1>3 DEF FineValue, Text
<1>5. /\ AtLine(kind, text, q) /\ R[q].state = "head_crlf"
      /\ Content(R[q]) = Added(Content(R[p]), key, s)
      /\ \A i \in p + 1 .. q : Resumes(kind, text, i)
  <2>1. Spells(text, p, HeadText(key, s))
    BY DEF s
  <2>. QED
    BY <1>4, <2>1, HeadRead
<1> HIDE DEF q
<1>. QED
  BY <1>2, <1>5 DEF s

LEMMA ShortHeadLength ==
    ASSUME NEW key \in Token, NEW v \in Token
    PROVE  HeadText(key, <<v>>) \in Text /\ Len(HeadText(key, <<v>>)) = 6
<1> DEFINE s == <<v>>
<1>1. s \in Text /\ Len(s) = 1
  BY DEF Text
<1> HIDE DEF s
<1>2. HeadText(key, s) \in Text /\ Len(HeadText(key, s)) = Len(s) + 5
  BY <1>1, HeadTextType
<1>3. Len(HeadText(key, s)) = 6
  BY <1>1, <1>2
<1>. QED
  BY <1>2, <1>3 DEF s

\* The words the library writes into its own headers.
LEMMA OwnWords ==
    /\ {"CSeq", "User-Agent", "Server", "Date"} \subseteq Token
    /\ {"tinylib/rtsp", "now"} \subseteq Token \ {SP, CR}
    /\ \A k \in Numbers : Numeral[k] \in Token \ {SP, CR}
<1>1. \A k \in Numbers : Numeral[k] \in Token \ {SP, CR}
  BY NumeralAssumption DEF Separators
<1>2. {"tinylib/rtsp", "now"} \subseteq Token \ {SP, CR}
  BY TokenAssumption DEF SP, CR
<1>. QED
  BY <1>1, <1>2, TokenAssumption

\* The texts that requests and responses are made of.
LEMMA TrailerType ==
    ASSUME NEW heads, FineHeads(heads), NEW body, FineBody(body)
    PROVE  Trailer(heads, body) \in Text
<1> DEFINE F == FlattenSeq(HeadTexts(heads))
           L == LengthText(body)
           end == <<CR, LF>>
<1>1. F \in Text /\ L \in Text /\ body \in Text
  BY TrailerIs
<1>2. end \in Text
  BY TokenAssumption DEF Text, Separators
<1>3. Trailer(heads, body) = Four(F, L, end, body)
  BY TrailerIs
<1> HIDE DEF F, L, end
<1>4. F \o L \in Text
  BY <1>1, Concat
<1>5. (F \o L) \o end \in Text
  BY <1>2, <1>4, Concat
<1>6. ((F \o L) \o end) \o body \in Text
  BY <1>1, <1>5, Concat
<1>. QED
  BY <1>3, <1>6 DEF Four

LEMMA LineType ==
    /\ \A m \in Methods : /\ <<m, SP, Url, SP, Version, CR, LF>> \in Text
                          /\ Len(<<m, SP, Url, SP, Version, CR, LF>>) = 7
    /\ \A k \in Numbers : /\ <<Version, SP, Numeral[k], SP, "OK", CR, LF>> \in Text
                          /\ Len(<<Version, SP, Numeral[k], SP, "OK", CR, LF>>) = 7
<1>1. /\ SP \in Token /\ Url \in Token /\ Version \in Token /\ CR \in Token /\ LF \in Token
      /\ "OK" \in Token /\ Methods \subseteq Token
  BY TokenAssumption DEF Separators
<1>2. \A k \in Numbers : Numeral[k] \in Token
  BY OwnWords
<1>. QED
  BY <1>1, <1>2 DEF Text

LEMMA NewContent ==
    LET c == Content(NewDecoder)
    IN /\ c.method = "NONE" /\ c.code = 0 /\ c.cseq = 0 /\ c.heads = <<>>
       /\ c.bodyLen = 0 /\ c.body = <<>>
BY DEF Content, NewDecoder

\* A request that is written is read, each of its fields as it was given.
THEOREM RequestIsRead ==
    ASSUME NEW m, FineRequest(m)
    PROVE  Whole("request", RequestText(m), AsRead(m))
<1> DEFINE kind == "request"
           text == RequestText(m)
           R == Reading(kind, text)
           line == <<m.method, SP, Url, SP, Version, CR, LF>>
           A == HeadText("CSeq", <<Numeral[m.cseq]>>)
           B == HeadText("User-Agent", <<"tinylib/rtsp">>)
           T == Trailer(m.heads, m.body)
           c0 == Content(NewDecoder)
           c1 == WithMethod(c0, m.method)
           c2 == WithCSeq(c1, m.cseq)
<1>1. m.method \in Methods /\ m.code = 0 /\ m.cseq \in Numbers /\ FineMessage(m)
      /\ FineHeads(m.heads) /\ FineBody(m.body)
  BY DEF FineRequest, FineMessage
<1>2. line \in Text /\ Len(line) = 7
  BY <1>1, LineType
<1>3. A \in Text /\ Len(A) = 6 /\ B \in Text /\ Len(B) = 6
  BY <1>1, OwnWords, ShortHeadLength
<1>4. T \in Text
  BY <1>1, TrailerType
<1>5. text = Four(line, A, B, T)
  BY DEF RequestText, Four
<1> HIDE DEF text, line, A, B, T, kind
<1>6. Len(line) \in Nat /\ Len(A) \in Nat /\ Len(B) \in Nat /\ Len(T) \in Nat
  BY <1>4, <1>2, <1>3 DEF Text
<1>7. text \in Text
  <2>1. line \o A \in Text
    BY <1>2, <1>3, Concat
  <2>2. (line \o A) \o B \in Text
    BY <1>3, <2>1, Concat
  <2>3. ((line \o A) \o B) \o T \in Text
    BY <1>4, <2>2, Concat
  <2>. QED
    BY <1>5, <2>3 DEF Four
<1>8. Spells(text, 0, Four(line, A, B, T))
  BY <1>5, <1>7, SpellsItself
<1>9. /\ Spells(text, 0, line) /\ Spells(text, 0 + Len(line), A)
      /\ Spells(text, 0 + Len(line) + Len(A), B \o T)
  BY <1>2, <1>3, <1>4, <1>7, <1>8, FourParts
<1>10. Len(Four(line, A, B, T)) = Len(line) + Len(A) + Len(B) + Len(T)
  <2>1. line \in Text /\ A \in Text /\ B \in Text
    BY <1>2, <1>3
  <2>. QED
    BY <1>4, <1>6, <1>7, <1>8, <2>1, FourParts
<1> DEFINE p == 7
           q == 13
           x == 19
<1>11. Spells(text, p, A) /\ Spells(text, q, B) /\ Spells(text, x, T) /\ Len(text) = x + Len(T)
  <2>1. 0 + Len(line) = 7 /\ 0 + Len(line) + Len(A) = 13
    BY <1>2, <1>3
  <2>2. Spells(text, 7, A) /\ Spells(text, 13, B \o T)
    BY <1>9, <2>1
  <2>3. Spells(text, 13, B) /\ Spells(text, 13 + Len(B), T)
    BY <1>3, <1>4, <1>7, <2>2, SpellsParts
  <2>4. 13 + Len(B) = 19
    BY <1>3
  <2>5. Len(text) = Len(line) + Len(A) + Len(B) + Len(T)
    BY <1>5, <1>10
  <2>6. Len(text) = 19 + Len(T)
    BY <1>2, <1>3, <1>6, <2>5
  <2>. QED
    BY <2>2, <2>3, <2>4, <2>6
<1>12. p \in Nat /\ q \in Nat /\ x \in Nat /\ p >= 1 /\ q >= 1 /\ x >= 1 /\ p + 6 = q /\ q + 6 = x
  OBVIOUS
<1>13. /\ AtLine(kind, text, 7) /\ Content(R[7]) = c1
       /\ \A i \in 1 .. 7 : Resumes(kind, text, i)
  <2> HIDE DEF c1
  <2>. QED
    BY <1>1, <1>7, <1>9, RequestLineRead DEF line, kind, c1
<1>14. AtLine(kind, text, p) /\ Content(R[p]) = c1 /\ \A i \in 1 .. p : Resumes(kind, text, i)
  BY <1>13
<1> HIDE DEF p, q, x, R
<1> DEFINE v == Numeral[m.cseq]
<1>15. v \in Token \ {SP, CR} /\ FineKey("CSeq")
  BY <1>1, OwnWords, KnownKeys
<1>16. Spells(text, p, HeadText("CSeq", <<v>>)) /\ Atoi(<<v>>) = m.cseq
  BY <1>1, <1>11, AtoiNumeral DEF A
<1> HIDE DEF v
<1>17. /\ AtLine(kind, text, q) /\ Content(R[q]) = Added(c1, "CSeq", <<v>>)
       /\ \A i \in p + 1 .. q : Resumes(kind, text, i)
  <2> HIDE DEF c1
  <2>. QED
    BY <1>7, <1>12, <1>14, <1>15, <1>16, ShortHeadRead DEF R
<1>18. Content(R[q]) = c2
  BY <1>16, <1>17, AddedOwn
<1>19. /\ AtLine(kind, text, x) /\ R[x].state = "head_crlf" /\ Content(R[x]) = c2
       /\ \A i \in q + 1 .. x : Resumes(kind, text, i)
  <2> HIDE DEF c2
  <2> DEFINE w == "tinylib/rtsp"
             key == "User-Agent"
  <2>1. w \in Token \ {SP, CR} /\ FineKey(key)
    BY OwnWords, KnownKeys
  <2>2. Spells(text, q, HeadText(key, <<w>>)) /\ Added(c2, key, <<w>>) = c2
    BY <1>11, AddedOwn DEF B
  <2> HIDE DEF w, key
  <2>3. /\ AtLine(kind, text, x) /\ R[x].state = "head_crlf"
        /\ Content(R[x]) = Added(Content(R[q]), key, <<w>>)
        /\ \A i \in q + 1 .. x : Resumes(kind, text, i)
    BY <1>7, <1>12, <1>17, <2>1, <2>2, ShortHeadRead DEF R
  <2>. QED
    BY <1>18, <2>2, <2>3
<1>20. /\ c2.method = m.method /\ c2.code = m.code /\ c2.cseq = m.cseq
       /\ c2.heads = <<>> /\ c2.bodyLen = 0 /\ c2.body = <<>>
  <2>1. /\ c1.method = m.method /\ c1.code = c0.code /\ c1.heads = c0.heads
        /\ c1.bodyLen = c0.bodyLen /\ c1.body = c0.body
    BY DEF WithMethod, Content
  <2>2. /\ c2.method = c1.method /\ c2.code = c1.code /\ c2.cseq = m.cseq
        /\ c2.heads = c1.heads /\ c2.bodyLen = c1.bodyLen /\ c2.body = c1.body
    BY DEF WithCSeq, WithMethod, Content
  <2>. QED
    BY <1>1, <2>1, <2>2, NewContent
<1> HIDE DEF c2
<1>21. \A i \in 1 .. x : Resumes(kind, text, i)
  <2> TAKE i \in 1 .. x
  <2>1. i <= p \/ (i > p /\ i <= q) \/ i > q
    BY <1>12
  <2>. QED
    BY <1>12, <1>14, <1>17, <1>19, <2>1
<1>22. Whole(kind, text, AsRead(m))
  <2>1. Spells(text, x, Trailer(m.heads, m.body)) /\ Len(text) = x + Len(Trailer(m.heads, m.body))
    BY <1>11 DEF T
  <2>. QED
    BY <1>1, <1>7, <1>12, <1>19, <1>20, <1>21, <2>1, MessageRead DEF R
<1>. QED
  BY <1>22 DEF kind, text

\* A response that is written is read, each of its fields as it was given.
THEOREM ResponseIsRead ==
    ASSUME NEW m, FineResponse(m)
    PROVE  Whole("response", ResponseText(m), AsRead(m))
<1> DEFINE kind == "response"
           text == ResponseText(m)
           R == Reading(kind, text)
           line == <<Version, SP, Numeral[m.code], SP, "OK", CR, LF>>
           A == HeadText("CSeq", <<Numeral[m.cseq]>>)
           B == HeadText("Server", <<"tinylib/rtsp">>)
           D == HeadText("Date", <<"now">>)
           LA == line \o A
           T == Trailer(m.heads, m.body)
           c0 == Content(NewDecoder)
           c1 == WithCode(c0, m.code)
           c2 == WithCSeq(c1, m.cseq)
<1>1. m.method = "NONE" /\ m.code \in Numbers /\ m.cseq \in Numbers /\ FineMessage(m)
      /\ FineHeads(m.heads) /\ FineBody(m.body)
  BY DEF FineResponse, FineMessage
<1>2. line \in Text /\ Len(line) = 7
  BY <1>1, LineType
<1>3. A \in Text /\ Len(A) = 6 /\ B \in Text /\ Len(B) = 6 /\ D \in Text /\ Len(D) = 6
  BY <1>1, OwnWords, ShortHeadLength
<1>4. T \in Text
  BY <1>1, TrailerType
<1>5. text = Four(LA, B, D, T)
  BY DEF ResponseText, Four
<1> HIDE DEF text, line, A, B, D, T, kind
<1>6. Len(line) \in Nat /\ Len(A) \in Nat /\ Len(B) \in Nat /\ Len(D) \in Nat /\ Len(T) \in Nat
  BY <1>4, <1>2, <1>3 DEF Text
<1>7. LA \in Text /\ Len(LA) = 13
  <2>1. LA \in Text /\ Len(LA) = Len(line) + Len(A)
    BY <1>2, <1>3, Concat
  <2>. QED
    BY <1>2, <1>3, <2>1
<1>8. Spells(text, 0, Four(LA, B, D, T)) /\ text \in Text
  <2> HIDE DEF LA
  <2>1. LA \o B \in Text
    BY <1>7, <1>3, Concat
  <2>2. (LA \o B) \o D \in Text
    BY <1>3, <2>1, Concat
  <2>3. ((LA \o B) \o D) \o T \in Text
    BY <1>4, <2>2, Concat
  <2>4. text \in Text
    BY <1>5, <2>3 DEF Four
  <2>. QED
    BY <1>5, <2>4, SpellsItself
<1>9. text \in Text
  BY <1>8
<1> HIDE DEF LA
<1>10. LA \in Text /\ B \in Text /\ D \in Text /\ Len(LA) \in Nat
  BY <1>7, <1>3
<1>11. /\ Spells(text, 0, LA) /\ Spells(text, 0 + Len(LA), B)
      /\ Spells(text, 0 + Len(LA) + Len(B), D \o T)
  BY <1>4, <1>8, <1>10, FourParts
<1>12. Len(Four(LA, B, D, T)) = Len(LA) + Len(B) + Len(D) + Len(T)
  BY <1>4, <1>6, <1>8, <1>10, FourParts
<1>13. Spells(text, 0, line) /\ Spells(text, 0 + Len(line), A)
  BY <1>2, <1>3, <1>9, <1>11, SpellsParts DEF LA
<1> DEFINE p == 7
           q == 13
           x == 19
           y == 25
<1>14. Spells(text, p, A) /\ Spells(text, q, B) /\ Spells(text, x, D) /\ Spells(text, y, T)
       /\ Len(text) = y + Len(T)
  <2>1. 0 + Len(line) = 7 /\ 0 + Len(LA) = 13 /\ 0 + Len(LA) + Len(B) = 19
    BY <1>2, <1>3, <1>7
  <2>2. Spells(text, 7, A) /\ Spells(text, 13, B) /\ Spells(text, 19, D \o T)
    BY <1>11, <1>13, <2>1
  <2>3. Spells(text, 19, D) /\ Spells(text, 19 + Len(D), T)
    BY <1>3, <1>4, <1>9, <2>2, SpellsParts
  <2>4. 19 + Len(D) = 25
    BY <1>3
  <2>5. Len(text) = Len(LA) + Len(B) + Len(D) + Len(T)
    BY <1>5, <1>12
  <2>6. Len(text) = 25 + Len(T)
    BY <1>3, <1>6, <1>7, <2>5
  <2>. QED
    BY <2>2, <2>3, <2>4, <2>6
<1>15. p \in Nat /\ q \in Nat /\ x \in Nat /\ y \in Nat /\ p >= 1 /\ q >= 1 /\ x >= 1 /\ y >= 1
       /\ p + 6 = q /\ q + 6 = x /\ x + 6 = y
  OBVIOUS
<1>16. /\ AtLine(kind, text, 7) /\ Content(R[7]) = c1
       /\ \A i \in 1 .. 7 : Resumes(kind, text, i)
  <2> HIDE DEF c1
  <2>. QED
    BY <1>1, <1>9, <1>13, StatusLineRead DEF line, kind, c1
<1>17. AtLine(kind, text, p) /\ Content(R[p]) = c1 /\ \A i \in 1 .. p : Resumes(kind, text, i)
  BY <1>16
<1> HIDE DEF p, q, x, y, R
<1> DEFINE v == Numeral[m.cseq]
<1>18. v \in Token \ {SP, CR} /\ FineKey("CSeq")
  BY <1>1, OwnWords, KnownKeys
<1>19. Spells(text, p, HeadText("CSeq", <<v>>)) /\ Atoi(<<v>>) = m.cseq
  BY <1>1, <1>14, AtoiNumeral DEF A
<1> HIDE DEF v
<1>20. /\ AtLine(kind, text, q) /\ Content(R[q]) = Added(c1, "CSeq", <<v>>)
       /\ \A i \in p + 1 .. q : Resumes(kind, text, i)
  <2> HIDE DEF c1
  <2>. QED
    BY <1>9, <1>15, <1>17, <1>18, <1>19, ShortHeadRead DEF R
<1>21. Content(R[q]) = c2
  BY <1>19, <1>20, AddedOwn
<1>22. /\ AtLine(kind, text, x) /\ Content(R[x]) = c2
       /\ \A i \in q + 1 .. x : Resumes(kind, text, i)
  <2> HIDE DEF c2
  <2> DEFINE w == "tinylib/rtsp"
             key == "Server"
  <2>1. w \in Token \ {SP, CR} /\ FineKey(key)
    BY OwnWords, KnownKeys
  <2>2. Spells(text, q, HeadText(key, <<w>>)) /\ Added(c2, key, <<w>>) = c2
    BY <1>14, AddedOwn DEF B
  <2> HIDE DEF w, key
  <2>3. /\ AtLine(kind, text, x) /\ R[x].state = "head_crlf"
        /\ Content(R[x]) = Added(Content(R[q]), key, <<w>>)
        /\ \A i \in q + 1 .. x : Resumes(kind, text, i)
    BY <1>9, <1>15, <1>20, <2>1, <2>2, ShortHeadRead DEF R
  <2>. QED
    BY <1>21, <2>2, <2>3
<1>23. /\ AtLine(kind, text, y) /\ R[y].state = "head_crlf" /\ Content(R[y]) = c2
       /\ \A i \in x + 1 .. y : Resumes(kind, text, i)
  <2> HIDE DEF c2
  <2> DEFINE w == "now"
             key == "Date"
  <2>1. w \in Token \ {SP, CR} /\ FineKey(key)
    BY OwnWords, KnownKeys
  <2>2. Spells(text, x, HeadText(key, <<w>>)) /\ Added(c2, key, <<w>>) = c2
    BY <1>14, AddedOwn DEF D
  <2> HIDE DEF w, key
  <2>3. /\ AtLine(kind, text, y) /\ R[y].state = "head_crlf"
        /\ Content(R[y]) = Added(Content(R[x]), key, <<w>>)
        /\ \A i \in x + 1 .. y : Resumes(kind, text, i)
    BY <1>9, <1>15, <1>22, <2>1, <2>2, ShortHeadRead DEF R
  <2>. QED
    BY <1>22, <2>2, <2>3
<1>24. /\ c2.method = m.method /\ c2.code = m.code /\ c2.cseq = m.cseq
       /\ c2.heads = <<>> /\ c2.bodyLen = 0 /\ c2.body = <<>>
  <2>1. /\ c1.method = c0.method /\ c1.code = m.code /\ c1.heads = c0.heads
        /\ c1.bodyLen = c0.bodyLen /\ c1.body = c0.body
    BY DEF WithCode, Content
  <2>2. /\ c2.method = c1.method /\ c2.code = c1.code /\ c2.cseq = m.cseq
        /\ c2.heads = c1.heads /\ c2.bodyLen = c1.bodyLen /\ c2.body = c1.body
    BY DEF WithCSeq, WithCode, Content
  <2>. QED
    BY <1>1, <2>1, <2>2, NewContent
<1> HIDE DEF c2
<1>25. \A i \in 1 .. y : Resumes(kind, text, i)
  <2> TAKE i \in 1 .. y
  <2>1. i <= p \/ (i > p /\ i <= q) \/ (i > q /\ i <= x) \/ i > x
    BY <1>15
  <2>. QED
    BY <1>15, <1>17, <1>20, <1>22, <1>23, <2>1
<1>26. Whole(kind, text, AsRead(m))
  <2>1. Spells(text, y, Trailer(m.heads, m.body)) /\ Len(text) = y + Len(Trailer(m.heads, m.body))
    BY <1>14 DEF T
  <2>. QED
    BY <1>1, <1>9, <1>15, <1>23, <1>24, <1>25, <2>1, MessageRead DEF R
<1>. QED
  BY <1>26 DEF kind, text

-----------------------------------------------------------------------------
(***************************************************************************)
(* The decoder, called again and again.                                    *)
(***************************************************************************)
Turned(kind, es, data, p) ==
    {IF e.ret = "more" THEN Turn(kind, e, data, p) ELSE e : e \in es}

IsReads(f, kind, d, data, a, n) ==
    f = [p \in a .. n |-> IF p < d.offset THEN {[d EXCEPT !.ret = "more"]}
                          ELSE Turned(kind, f[p - 1], data, p)]

\* Decode itself, as a function of how far it has looked.
LEMMA ReadsExist ==
    ASSUME NEW kind, NEW d, d.offset \in Nat, d.offset >= 1, NEW data, NEW n \in Nat,
           n >= d.offset - 1
    PROVE  \E f : IsReads(f, kind, d, data, d.offset - 1, n)
<1> DEFINE o == d.offset
           a == o - 1
           Is(f, k) == IsReads(f, kind, d, data, a, a + k)
           S == {k \in Nat : \E f : Is(f, k)}
           e == {[d EXCEPT !.ret = "more"]}
<1>1. o \in Nat /\ o >= 1 /\ a \in Nat /\ o = a + 1
  OBVIOUS
<1>2. \A f, k : Is(f, k) <=> f = [p \in a .. a + k |-> IF p < o THEN e
                                                       ELSE Turned(kind, f[p - 1], data, p)]
  BY DEF IsReads
<1> HIDE DEF o, a, Is, e
<1>3. 0 \in S
  <2> DEFINE f == [p \in a .. a |-> e]
  <2>1. \A p \in a .. a : p < o /\ a + 0 = a
    BY <1>1
  <2>2. f = [p \in a .. a |-> IF p < o THEN e ELSE Turned(kind, f[p - 1], data, p)]
    BY <2>1
  <2> HIDE DEF f
  <2>3. a + 0 = a
    BY <1>1
  <2>4. Is(f, 0)
    BY <1>2, <2>2, <2>3
  <2>. QED
    BY <2>4
<1>4. ASSUME NEW k \in Nat, k \in S PROVE k + 1 \in S
  <2>1. PICK g : Is(g, k)
    BY <1>4
  <2>2. g = [p \in a .. a + k |-> IF p < o THEN e ELSE Turned(kind, g[p - 1], data, p)]
    BY <1>2, <2>1
  <2> DEFINE b == a + k
             c == a + (k + 1)
  <2>3. a \in Nat /\ b \in Nat /\ c = b + 1 /\ b >= a /\ o = a + 1 /\ b = a + k
    BY <1>1
  <2>4. g = [p \in a .. b |-> IF p < o THEN e ELSE Turned(kind, g[p - 1], data, p)]
    BY <2>2
  <2> HIDE DEF b, c
  <2> DEFINE f == [p \in a .. c |-> IF p <= b THEN g[p] ELSE Turned(kind, g[b], data, c)]
  <2>5. \A p \in a .. c : f[p] = IF p < o THEN e ELSE Turned(kind, f[p - 1], data, p)
    <3> TAKE p \in a .. c
    <3>1. CASE p < o
      <4>1. p \in a .. b /\ p <= b
        BY <2>3, <3>1
      <4>2. f[p] = g[p] /\ g[p] = e
        BY <2>4, <3>1, <4>1
      <4>. QED
        BY <3>1, <4>2
    <3>2. CASE ~(p < o) /\ p <= b
      <4>1. p - 1 \in a .. c /\ p - 1 <= b /\ p \in a .. b
        BY <2>3, <3>2
      <4>2. f[p - 1] = g[p - 1] /\ f[p] = g[p]
        BY <3>2, <4>1
      <4>3. g[p] = Turned(kind, g[p - 1], data, p)
        BY <2>4, <3>2, <4>1
      <4>. QED
        BY <3>2, <4>2, <4>3
    <3>3. CASE p = c
      <4>1. p - 1 = b /\ b \in a .. c /\ ~(p < o) /\ ~(c <= b) /\ c \in a .. c /\ b <= b
        BY <2>3, <3>3
      <4>2. f[b] = g[b] /\ f[c] = Turned(kind, g[b], data, c)
        BY <4>1
      <4>. QED
        BY <3>3, <4>1, <4>2
    <3>. QED
      BY <2>3, <3>1, <3>2, <3>3
  <2>6. f = [p \in a .. c |-> IF p < o THEN e ELSE Turned(kind, f[p - 1], data, p)]
    BY <2>5
  <2> HIDE DEF f
  <2>7. Is(f, k + 1)
    BY <1>2, <2>6 DEF c
  <2>. QED
    BY <2>7
<1>5. n - a \in Nat /\ a + (n - a) = n
  BY <1>1 DEF o, a
<1>6. n - a \in S
  <2>1. Nat \subseteq S
    <3> HIDE DEF S
    <3>. QED
      BY <1>3, <1>4, NatSetInduction
  <2>. QED
    BY <1>5, <2>1
<1>7. \E f : IsReads(f, kind, d, data, a, a + (n - a))
  BY <1>6 DEF Is
<1>. QED
  BY <1>5, <1>7 DEF a, o

Fits(d, data) == /\ d.offset \in Nat /\ d.offset >= 1
                 /\ Len(data) \in Nat /\ Len(data) >= d.offset - 1
DecodesBy(f, kind, d, data) ==
    /\ Decode(kind, d, data) = CHOOSE e \in f[Len(data)] : TRUE
    /\ f[d.offset - 1] = {[d EXCEPT !.ret = "more"]}
    /\ \A p \in d.offset .. Len(data) : f[p] = Turned(kind, f[p - 1], data, p)

LEMMA DecodeSteps ==
    ASSUME NEW kind, NEW d, NEW data, Fits(d, data)
    PROVE  \E f : DecodesBy(f, kind, d, data)
<1> DEFINE n == Len(data)
           a == d.offset - 1
           reads == CHOOSE f : IsReads(f, kind, d, data, a, n)
<1>1. d.offset \in Nat /\ d.offset >= 1 /\ n \in Nat /\ n >= d.offset - 1
  BY DEF Fits
<1>2. \E f : IsReads(f, kind, d, data, a, n)
  <2> HIDE DEF n
  <2>1. n \in Nat /\ n >= d.offset - 1
    BY <1>1 DEF n
  <2>2. d.offset \in Nat /\ d.offset >= 1
    BY <1>1
  <2>. QED
    BY <2>1, <2>2, ReadsExist
<1>3. IsReads(reads, kind, d, data, a, n)
  BY <1>2
<1>4. Decode(kind, d, data) = CHOOSE e \in reads[Len(data)] : TRUE
  BY DEF Decode, IsReads, Turned
<1> HIDE DEF reads
<1>5. \A p \in a .. n : reads[p] = IF p < d.offset THEN {[d EXCEPT !.ret = "more"]}
                                 ELSE Turned(kind, reads[p - 1], data, p)
  <2> HIDE DEF n, a
  <2>1. reads = [p \in a .. n |-> IF p < d.offset THEN {[d EXCEPT !.ret = "more"]}
                                  ELSE Turned(kind, reads[p - 1], data, p)]
    BY <1>3 DEF IsReads
  <2>. QED
    BY <2>1
<1>6. a \in a .. n /\ a < d.offset
  BY <1>1
<1>7. \A p \in d.offset .. n : p \in a .. n /\ ~(p < d.offset)
  BY <1>1
<1>8. reads[a] = {[d EXCEPT !.ret = "more"]}
  BY <1>5, <1>6
<1>9. \A p \in d.offset .. n : reads[p] = Turned(kind, reads[p - 1], data, p)
  BY <1>5, <1>7
<1>. QED
  BY <1>4, <1>8, <1>9 DEF DecodesBy

\* One look at a decoder.
LEMMA TurnedOne ==
    ASSUME NEW kind, NEW e, NEW data, NEW p
    PROVE  /\ e.ret = "more" => Turned(kind, {e}, data, p) = {Turn(kind, e, data, p)}
           /\ e.ret # "more" => Turned(kind, {e}, data, p) = {e}
BY DEF Turned

\* The decoder as it is before token i + 1 of a whole message.
LEMMA Before ==
    ASSUME NEW kind, NEW text, NEW r, Whole(kind, text, r), NEW i \in Nat, i < Len(text)
    PROVE  LET d == Reading(kind, text)[i]
           IN /\ d \in Decoder /\ d.ret = "more" /\ Placed(d, i) /\ Placed(d, i + 1)
              /\ d.offset = (IF i = 0 THEN 1 ELSE i)
<1> DEFINE d == Reading(kind, text)[i]
<1>1. CASE i = 0
  <2>1. d = NewDecoder
    BY <1>1, ReadingStep DEF Whole, Text
  <2>2. NewDecoder.state = "start" /\ NewDecoder.ret = "more" /\ NewDecoder.offset = 1
    BY DEF NewDecoder
  <2> HIDE DEF d
  <2>3. d \in Decoder /\ d.state = "start" /\ d.ret = "more" /\ d.offset = 1
    BY <2>1, <2>2, NewDecoderType
  <2>4. Placed(d, i) /\ Placed(d, i + 1)
    BY <2>3 DEF Placed
  <2>. QED
    BY <1>1, <2>3, <2>4 DEF d
<1>2. CASE i # 0
  <2>1. Resumes(kind, text, i)
    <3>1. Len(text) \in Nat
      BY DEF Whole, Text
    <3>2. i \in 1 .. Len(text) - 1
      BY <1>2, <3>1
    <3>. QED
      BY <3>2 DEF Whole
  <2>2. d \in Decoder /\ d.ret = "more" /\ d.offset = i /\ Placed(d, i)
    BY <2>1 DEF Resumes
  <2> HIDE DEF d
  <2>3. Placed(d, i + 1)
    BY <2>2 DEF Placed, Decoder
  <2>. QED
    BY <1>2, <2>2, <2>3 DEF d
<1>. QED
  BY <1>1, <1>2

\* A decoder that has read the first q tokens of a whole message, and that is
\* given them again with more of it, reads on, up to the message's end.
THEOREM Decoded ==
    ASSUME NEW kind, NEW text, NEW r, Whole(kind, text, r), NEW q \in Nat, q < Len(text),
           q >= 1 => text[q] \notin {CR, Colon}, NEW d, d = Reading(kind, text)[q],
           NEW data \in Text, Len(data) >= 1, q <= Len(data),
           NEW m \in Nat, m <= Len(text), m <= Len(data), m = Len(text) \/ m = Len(data),
           \A i \in 1 .. m : data[i] = text[i]
    PROVE  Decode(kind, d, data) = Reading(kind, text)[m]
<1> DEFINE R == Reading(kind, text)
           N == Len(text)
           n == Len(data)
<1>1. text \in Text /\ N \in Nat /\ N >= 1 /\ n \in Nat /\ R[N].ret = "done"
  BY DEF Whole, Text
<1>2. \A i \in 1 .. N : R[i] = Turn(kind, R[i - 1], text, i)
  BY <1>1, ReadingStep DEF Text
<1>3. d \in Decoder /\ d.ret = "more" /\ Placed(d, q) /\ d.offset = (IF q = 0 THEN 1 ELSE q)
      /\ d = R[q]
  BY Before
<1>4. q <= m /\ m <= N /\ m <= n /\ q < N
  OBVIOUS
<1>5. d.offset \in Nat /\ d.offset >= 1 /\ n >= d.offset - 1
  <2>1. n \in Nat /\ q \in Nat /\ q <= n
    BY <1>1, <1>4
  <2>2. CASE q = 0
    BY <1>3, <2>1, <2>2
  <2>3. CASE q # 0
    <3>1. d.offset = q
      BY <1>3, <2>3
    <3> HIDE DEF n
    <3>. QED
      BY <2>1, <2>3, <3>1
  <2>. QED
    BY <2>2, <2>3
<1>6. [d EXCEPT !.ret = "more"] = d
  BY <1>3 DEF Decoder
<1>7. PICK f : /\ Decode(kind, d, data) = CHOOSE e \in f[n] : TRUE
               /\ f[d.offset - 1] = {d}
               /\ \A p \in d.offset .. n : f[p] = Turned(kind, f[p - 1], data, p)
  <2>1. Fits(d, data)
    BY <1>1, <1>5 DEF Fits
  <2>2. PICK f : DecodesBy(f, kind, d, data)
    BY <2>1, DecodeSteps
  <2>. QED
    BY <1>6, <2>2 DEF DecodesBy
<1>8. \A i \in 0 .. N - 1 : R[i] \in Decoder /\ R[i].ret = "more" /\ Placed(R[i], i + 1)
  <2> TAKE i \in 0 .. N - 1
  <2>1. i \in Nat /\ i < Len(text)
    BY <1>1
  <2>. QED
    BY <2>1, Before
<1> HIDE DEF R, N, n
\* It looks at the last token again.
<1>9. f[q] = {R[q]}
  <2>1. CASE q = 0
    BY <1>3, <1>7, <2>1
  <2>2. CASE q # 0
    <3>1. q \in 1 .. N - 1 /\ q \in d.offset .. n /\ q >= 1 /\ d.offset = q
      BY <1>1, <1>3, <1>4, <2>2
    <3>2. Resumes(kind, text, q)
      BY <3>1 DEF Whole, N
    <3>3. Turn(kind, d, text, q) = d
      BY <3>1, <3>2 DEF Resumes
    <3>4. Turn(kind, d, data, q) = Turn(kind, d, text, q)
      <4>1. \A i \in 1 .. q : data[i] = text[i]
        BY <1>4
      <4>2. q <= Len(data) /\ q <= Len(text)
        BY <1>4 DEF n, N
      <4>. QED
        BY <1>1, <1>3, <3>1, <4>1, <4>2, TurnSame
    <3>5. f[q] = Turned(kind, {d}, data, q)
      BY <1>7, <3>1
    <3>. QED
      BY <1>3, <3>3, <3>4, <3>5, TurnedOne
  <2>. QED
    BY <2>1, <2>2
\* Then at every token that is new.
<1> DEFINE S == {j \in Nat : q + j <= m => f[q + j] = {R[q + j]}}
<1>10. f[m] = {R[m]}
  <2>1. 0 \in S
    BY <1>9
  <2>2. ASSUME NEW j \in Nat, j \in S PROVE j + 1 \in S
    <3>1. SUFFICES ASSUME q + (j + 1) <= m PROVE f[q + (j + 1)] = {R[q + (j + 1)]}
      OBVIOUS
    <3> DEFINE h == q + j
               i == q + (j + 1)
    <3>2. /\ i \in Nat /\ h \in Nat /\ i = h + 1 /\ i >= 1 /\ i - 1 = h /\ h <= m /\ i <= m
          /\ i >= q + 1
      BY <3>1
    <3>3. f[h] = {R[h]}
      BY <2>2, <3>2
    <3> HIDE DEF h, i
    <3>4. h \in 0 .. N - 1 /\ i \in 1 .. N /\ i \in d.offset .. n /\ i <= n /\ i <= N
      <4>1. d.offset <= i
        BY <1>3, <3>2
      <4>. QED
        BY <1>1, <1>4, <3>2, <4>1
    <3>5. R[h] \in Decoder /\ R[h].ret = "more" /\ Placed(R[h], i)
      BY <1>8, <3>2, <3>4
    <3>6. Turn(kind, R[h], data, i) = Turn(kind, R[h], text, i)
      <4>1. \A x \in 1 .. i : data[x] = text[x]
        BY <3>2
      <4>2. i <= Len(data) /\ i <= Len(text)
        BY <3>4 DEF n, N
      <4>. QED
        BY <1>1, <3>2, <3>5, <4>1, <4>2, TurnSame
    <3>7. f[i] = Turned(kind, {R[h]}, data, i)
      BY <1>7, <3>2, <3>3, <3>4
    <3>8. R[i] = Turn(kind, R[h], text, i)
      BY <1>2, <3>2, <3>4
    <3>9. f[i] = {R[i]}
      BY <3>5, <3>6, <3>7, <3>8, TurnedOne
    <3>. QED
      BY <3>9 DEF i
  <2>3. Nat \subseteq S
    <3> HIDE DEF S
    <3>. QED
      BY <2>1, <2>2, NatSetInduction
  <2>4. m - q \in Nat /\ q + (m - q) = m
    BY <1>4
  <2>5. m - q \in S
    BY <2>3, <2>4
  <2>. QED
    BY <2>4, <2>5
\* And at nothing after the end.
<1>11. f[n] = {R[m]}
  <2>1. CASE m = n
    BY <1>10, <2>1
  <2>2. CASE m # n
    <3>1. m = N
      BY <2>2 DEF n, N
    <3> DEFINE W == {j \in Nat : m + j <= n => f[m + j] = {R[m]}}
    <3>2. 0 \in W
      BY <1>10
    <3>3. ASSUME NEW j \in Nat, j \in W PROVE j + 1 \in W
      <4>1. SUFFICES ASSUME m + (j + 1) <= n PROVE f[m + (j + 1)] = {R[m]}
        OBVIOUS
      <4> DEFINE h == m + j
                 i == m + (j + 1)
      <4>2. i \in Nat /\ i - 1 = h /\ h <= n /\ i <= n /\ i >= m + 1
        BY <1>1, <4>1
      <4>3. f[h] = {R[m]}
        BY <1>1, <3>3, <4>1
      <4> HIDE DEF h, i
      <4>4. d.offset <= i
        BY <1>3, <1>4, <4>2
      <4>5. i \in d.offset .. n
        BY <1>1, <1>5, <4>2, <4>4
      <4>6. f[i] = Turned(kind, {R[m]}, data, i)
        BY <1>7, <4>2, <4>3, <4>5
      <4>7. R[m].ret # "more"
        BY <1>1, <3>1
      <4>8. f[i] = {R[m]}
        <5> DEFINE e == R[m]
        <5>1. f[i] = Turned(kind, {e}, data, i) /\ e.ret # "more"
          BY <4>6, <4>7
        <5> HIDE DEF e
        <5>2. Turned(kind, {e}, data, i) = {e}
          BY <5>1 DEF Turned
        <5>. QED
          BY <5>1, <5>2 DEF e
      <4>. QED
        BY <4>8 DEF i
    <3>4. Nat \subseteq W
      <4> HIDE DEF W
      <4>. QED
        BY <3>2, <3>3, NatSetInduction
    <3>5. n - m \in Nat /\ m + (n - m) = n
      BY <1>1, <1>4
    <3>6. n - m \in W
      BY <3>4, <3>5
    <3>. QED
      BY <3>5, <3>6
  <2>. QED
    BY <2>1, <2>2
<1>. QED
  BY <1>7, <1>11 DEF R

-----------------------------------------------------------------------------
(***************************************************************************)
(* Texts sent one after another.                                           *)
(***************************************************************************)
LEMMA TextAssociative ==
    ASSUME NEW a \in Text, NEW b \in Text, NEW c \in Text
    PROVE  (a \o b) \o c = a \o (b \o c)
BY ConcatAssociative DEF Text

\* Joined texts, with one more at the end and without the first.
LEMMA FlattenAppend ==
    ASSUME NEW ts \in Seq(Text), NEW t \in Text
    PROVE  FlattenSeq(Append(ts, t)) = FlattenSeq(ts) \o t
<1> DEFINE n == Len(ts)
           us == Append(ts, t)
<1>1. n \in Nat /\ us \in Seq(Text) /\ Len(us) = n + 1 /\ us[n + 1] = t
      /\ \A i \in 1 .. n : us[i] = ts[i]
  OBVIOUS
<1> HIDE DEF us
<1>2. PICK f \in [0 .. Len(ts) -> Text] :
          /\ f[0] = <<>> /\ f[Len(ts)] = FlattenSeq(ts)
          /\ \A i \in 1 .. Len(ts) : f[i] = f[i - 1] \o ts[i]
  BY FlattenSteps
<1>3. PICK g \in [0 .. Len(us) -> Text] :
          /\ g[0] = <<>> /\ g[Len(us)] = FlattenSeq(us)
          /\ \A i \in 1 .. Len(us) : g[i] = g[i - 1] \o us[i]
  BY <1>1, FlattenSteps
<1> HIDE DEF n
<1> DEFINE S == {k \in Nat : k <= n => g[k] = f[k]}
<1>4. g[n] = f[n]
  <2>1. 0 \in S
    BY <1>2, <1>3
  <2>2. ASSUME NEW k \in Nat, k \in S PROVE k + 1 \in S
    <3>1. SUFFICES ASSUME k + 1 <= n PROVE g[k + 1] = f[k + 1]
      OBVIOUS
    <3> DEFINE i == k + 1
    <3>2. i \in 1 .. n /\ i \in 1 .. n + 1 /\ i - 1 = k /\ k <= n
      BY <1>1, <3>1
    <3> HIDE DEF i
    <3>3. g[i] = g[k] \o us[i]
      BY <1>1, <1>3, <3>2 DEF n
    <3>4. f[i] = f[k] \o ts[i]
      BY <1>2, <3>2 DEF n
    <3>5. g[k] = f[k] /\ us[i] = ts[i]
      BY <1>1, <2>2, <3>2
    <3>. QED
      BY <3>3, <3>4, <3>5 DEF i
  <2>3. Nat \subseteq S
    <3> HIDE DEF S
    <3>. QED
      BY <2>1, <2>2, NatSetInduction
  <2>4. n \in S
    BY <1>1, <2>3
  <2>. QED
    BY <2>4
<1>5. g[n + 1] = g[n] \o t
  <2>1. n + 1 \in 1 .. n + 1 /\ (n + 1) - 1 = n
    BY <1>1
  <2>. QED
    BY <1>1, <1>3, <2>1
<1>6. f[n] = FlattenSeq(ts)
  BY <1>2 DEF n
<1>7. g[n + 1] = FlattenSeq(us)
  BY <1>1, <1>3
<1>. QED
  BY <1>4, <1>5, <1>6, <1>7 DEF us

LEMMA FlattenFirst ==
    ASSUME NEW ts \in Seq(Text), ts # <<>>
    PROVE  /\ Tail(ts) \in Seq(Text) /\ FlattenSeq(Tail(ts)) \in Text /\ ts[1] \in Text
           /\ FlattenSeq(ts) = ts[1] \o FlattenSeq(Tail(ts))
<1> DEFINE n == Len(Tail(ts))
           us == Tail(ts)
           a == ts[1]
<1>1. /\ n \in Nat /\ us \in Seq(Text) /\ Len(ts) = n + 1 /\ a \in Text
      /\ \A i \in 1 .. n : us[i] = ts[i + 1]
  <2>1. us \in Seq(Text) /\ Len(us) = Len(ts) - 1 /\ \A i \in 1 .. Len(us) : us[i] = ts[i + 1]
    BY HeadTailProperties
  <2>2. Len(ts) \in Nat /\ Len(ts) >= 1
    BY EmptySeq
  <2>3. a \in Text
    BY <2>2
  <2>. QED
    BY <2>1, <2>2, <2>3
<1> HIDE DEF us, a
<1>2. PICK f \in [0 .. Len(ts) -> Text] :
          /\ f[0] = <<>> /\ f[Len(ts)] = FlattenSeq(ts)
          /\ \A i \in 1 .. Len(ts) : f[i] = f[i - 1] \o ts[i]
  BY FlattenSteps
<1>3. PICK g \in [0 .. Len(us) -> Text] :
          /\ g[0] = <<>> /\ g[Len(us)] = FlattenSeq(us)
          /\ \A i \in 1 .. Len(us) : g[i] = g[i - 1] \o us[i]
  BY <1>1, FlattenSteps
<1>4. n = Len(us)
  BY DEF us
<1> HIDE DEF n
<1> DEFINE S == {k \in Nat : k <= n => f[k + 1] = a \o g[k]}
<1>5. f[n + 1] = a \o g[n]
  <2>1. 0 \in S
    <3>1. f[1] = f[0] \o ts[1]
      <4>1. 1 \in 1 .. Len(ts) /\ 1 - 1 = 0
        BY <1>1
      <4>. QED
        BY <1>2, <4>1
    <3>2. <<>> \o a = a /\ a \o <<>> = a
      BY <1>1, ConcatEmptySeq DEF Text
    <3>3. f[0 + 1] = a \o g[0]
      BY <1>2, <1>3, <3>1, <3>2 DEF a
    <3>. QED
      BY <3>3
  <2>2. ASSUME NEW k \in Nat, k \in S PROVE k + 1 \in S
    <3>1. SUFFICES ASSUME k + 1 <= n PROVE f[(k + 1) + 1] = a \o g[k + 1]
      OBVIOUS
    <3> DEFINE i == k + 1
               j == (k + 1) + 1
    <3>2. i \in 1 .. n /\ i - 1 = k /\ k <= n /\ j \in 1 .. n + 1 /\ j - 1 = i /\ j = i + 1
          /\ k \in 0 .. n
      BY <1>1, <3>1
    <3>3. f[i] = a \o g[k]
      BY <2>2, <3>2
    <3> HIDE DEF i, j
    <3>4. g[i] = g[k] \o us[i]
      BY <1>3, <1>4, <3>2
    <3>5. f[j] = f[i] \o ts[j]
      BY <1>1, <1>2, <3>2
    <3>6. us[i] = ts[j] /\ us[i] \in Text /\ g[k] \in Text
      <4>1. us[i] = ts[j]
        BY <1>1, <3>2
      <4>2. us[i] \in Text
        BY <1>1, <1>4, <3>2
      <4>3. g[k] \in Text
        BY <1>3, <1>4, <3>2
      <4>. QED
        BY <4>1, <4>2, <4>3
    <3>7. (a \o g[k]) \o us[i] = a \o (g[k] \o us[i])
      BY <1>1, <3>6, TextAssociative
    <3>8. f[j] = a \o g[i]
      BY <3>4, <3>5, <3>6, <3>3, <3>7
    <3>. QED
      BY <3>8 DEF i, j
  <2>3. Nat \subseteq S
    <3> HIDE DEF S
    <3>. QED
      BY <2>1, <2>2, NatSetInduction
  <2>4. n \in S
    BY <1>1, <2>3
  <2>. QED
    BY <2>4
<1>6. g[n] = FlattenSeq(us) /\ g[n] \in Text
  BY <1>1, <1>3, <1>4
<1>7. f[n + 1] = FlattenSeq(ts)
  BY <1>1, <1>2
<1>. QED
  BY <1>1, <1>5, <1>6, <1>7 DEF us, a

\* The first n tokens of a text, and the others.
LEMMA AfterType ==
    ASSUME NEW t \in Text, NEW n \in Nat, n <= Len(t)
    PROVE  /\ SubSeq(t, 1, n) \in Text /\ Len(SubSeq(t, 1, n)) = n
           /\ \A i \in 1 .. n : SubSeq(t, 1, n)[i] = t[i]
           /\ After(t, n) \in Text /\ Len(After(t, n)) = Len(t) - n
           /\ \A i \in 1 .. Len(t) - n : After(t, n)[i] = t[n + i]
<1>1. Len(t) \in Nat
  BY DEF Text
<1>2. n + 1 \in 1 .. Len(t) + 1 /\ n \in 0 .. Len(t) /\ Len(t) - n \in Nat
  BY <1>1
<1> DEFINE u == SubSeq(t, 1, n)
           v == SubSeq(t, n + 1, Len(t))
<1>3. u \in Seq(Token) /\ Len(u) = n /\ \A i \in 1 .. n : u[i] = t[i]
  BY <1>1, <1>2 DEF Text
<1>4. v \in Seq(Token) /\ Len(v) = Len(t) - n /\ \A i \in 1 .. Len(t) - n : v[i] = t[n + i]
  BY <1>1, <1>2 DEF Text
<1>. QED
  BY <1>3, <1>4 DEF Text, After

\* Texts that begin alike go on alike.
LEMMA AfterFirst ==
    ASSUME NEW a \in Text, NEW b \in Text, NEW x \in Text, NEW r \in Text,
           a \o b = x \o r, Len(x) <= Len(a)
    PROVE  /\ \A i \in 1 .. Len(x) : a[i] = x[i]
           /\ After(a, Len(x)) \in Text
           /\ After(a, Len(x)) \o b = r
<1> DEFINE n == Len(x)
           v == After(a, n)
           w == v \o b
           z == a \o b
<1>1. n \in Nat /\ Len(a) \in Nat /\ Len(b) \in Nat /\ Len(r) \in Nat /\ n <= Len(a)
  BY DEF Text
<1>2. /\ z \in Text /\ Len(z) = Len(a) + Len(b)
      /\ \A i \in 1 .. Len(a) : z[i] = a[i]
      /\ \A i \in 1 .. Len(b) : z[Len(a) + i] = b[i]
  BY Concat
<1>3. /\ Len(z) = n + Len(r)
      /\ \A i \in 1 .. n : z[i] = x[i]
      /\ \A i \in 1 .. Len(r) : z[n + i] = r[i]
  BY Concat
<1> HIDE DEF z
<1>4. v \in Text /\ Len(v) = Len(a) - n /\ \A i \in 1 .. Len(a) - n : v[i] = a[n + i]
  <2> HIDE DEF n
  <2>. QED
    BY <1>1, AfterType
<1> HIDE DEF v
<1>5. /\ w \in Text /\ Len(w) = Len(v) + Len(b)
      /\ \A i \in 1 .. Len(v) : w[i] = v[i]
      /\ \A i \in 1 .. Len(b) : w[Len(v) + i] = b[i]
  BY <1>4, Concat
<1> HIDE DEF w, n
<1>6. Len(w) = Len(r)
  BY <1>1, <1>2, <1>3, <1>4, <1>5
<1>7. ASSUME NEW i \in 1 .. Len(r) PROVE w[i] = r[i]
  <2>1. i \in Nat /\ i >= 1 /\ i <= Len(r)
    BY <1>1
  <2>2. CASE i <= Len(a) - n
    <3>1. i \in 1 .. Len(v) /\ i \in 1 .. Len(a) - n /\ n + i \in 1 .. Len(a)
      BY <1>1, <1>4, <2>1, <2>2
    <3>2. w[i] = a[n + i]
      BY <1>4, <1>5, <3>1
    <3>3. z[n + i] = a[n + i]
      BY <1>2, <3>1
    <3>. QED
      BY <1>3, <3>2, <3>3
  <2>3. CASE i > Len(a) - n
    <3> DEFINE j == i - Len(v)
    <3>1. j \in 1 .. Len(b) /\ Len(v) + j = i /\ Len(a) + j = n + i
      BY <1>1, <1>4, <1>5, <1>6, <2>1, <2>3
    <3> HIDE DEF j
    <3>2. w[i] = b[j]
      BY <1>5, <3>1
    <3>3. z[n + i] = b[j]
      BY <1>2, <3>1
    <3>. QED
      BY <1>3, <3>2, <3>3
  <2>. QED
    BY <1>1, <2>1, <2>2, <2>3
<1>8. w = r
  BY <1>5, <1>6, <1>7, SeqEqual DEF Text
<1>9. \A i \in 1 .. n : a[i] = x[i]
  <2> TAKE i \in 1 .. n
  <2>1. i \in 1 .. Len(a)
    BY <1>1
  <2>. QED
    BY <1>2, <1>3, <2>1
<1>. QED
  BY <1>4, <1>8, <1>9 DEF w, v, n

LEMMA AfterAll ==
    ASSUME NEW t \in Text, NEW n \in Nat, n <= Len(t)
    PROVE  SubSeq(t, 1, n) \o After(t, n) = t
<1> DEFINE a == SubSeq(t, 1, n)
           b == After(t, n)
           z == a \o b
<1>1. /\ a \in Text /\ Len(a) = n
      /\ \A i \in 1 .. n : a[i] = t[i]
      /\ b \in Text /\ Len(b) = Len(t) - n
      /\ \A i \in 1 .. Len(t) - n : b[i] = t[n + i]
  BY AfterType
<1> HIDE DEF a, b
<1>2. /\ z \in Text /\ Len(z) = Len(a) + Len(b)
      /\ \A i \in 1 .. Len(a) : z[i] = a[i]
      /\ \A i \in 1 .. Len(b) : z[Len(a) + i] = b[i]
  BY <1>1, Concat
<1> HIDE DEF z
<1>3. Len(t) \in Nat /\ Len(z) = Len(t)
  BY <1>1, <1>2 DEF Text
<1>4. ASSUME NEW i \in 1 .. Len(t) PROVE z[i] = t[i]
  <2>1. CASE i <= n
    BY <1>1, <1>2, <2>1
  <2>2. CASE i > n
    <3> DEFINE j == i - n
    <3>1. j \in 1 .. Len(t) - n /\ n + j = i
      BY <1>3, <2>2
    <3> HIDE DEF j
    <3>. QED
      BY <1>1, <1>2, <3>1
  <2>. QED
    BY <1>3, <2>1, <2>2
<1>. QED
  BY <1>2, <1>3, <1>4, SeqEqual DEF Text, z, a, b

\* Two texts that are parts of the same one agree as far as both go.
LEMMA SameStart ==
    ASSUME NEW a \in Text, NEW b \in Text, NEW x \in Text, NEW r \in Text,
           a \o b = x \o r, NEW i \in Nat, i >= 1, i <= Len(a), i <= Len(x)
    PROVE  a[i] = x[i]
<1>1. Len(a) \in Nat /\ Len(x) \in Nat
  BY DEF Text
<1>2. i \in 1 .. Len(a) /\ i \in 1 .. Len(x)
  BY <1>1
<1>3. (a \o b)[i] = a[i]
  BY <1>2, Concat
<1>4. (x \o r)[i] = x[i]
  BY <1>2, Concat
<1>. QED
  BY <1>3, <1>4

-----------------------------------------------------------------------------
(***************************************************************************)
(* Frames and messages, told apart by their first token.                   *)
(***************************************************************************)
LEMMA SixTokens ==
    ASSUME NEW a, NEW b, NEW c, NEW x, NEW y, NEW z
    PROVE  <<a, b, c>> \o <<x, y, z>> = <<a, b, c, x, y, z>>
<1> DEFINE S == {a, b, c, x, y, z}
           s == <<a, b, c>>
           t == <<x, y, z>>
           u == s \o t
           v == <<a, b, c, x, y, z>>
<1>1. s \in Seq(S) /\ t \in Seq(S) /\ v \in Seq(S) /\ Len(s) = 3 /\ Len(t) = 3 /\ Len(v) = 6
  OBVIOUS
<1>2. s[1] = a /\ s[2] = b /\ s[3] = c /\ t[1] = x /\ t[2] = y /\ t[3] = z
  OBVIOUS
<1>3. v[1] = a /\ v[2] = b /\ v[3] = c /\ v[4] = x /\ v[5] = y /\ v[6] = z
  OBVIOUS
<1> HIDE DEF S, s, t, v
<1>4. /\ u \in Seq(S) /\ Len(u) = Len(s) + Len(t)
      /\ \A i \in 1 .. Len(s) : u[i] = s[i]
      /\ \A i \in 1 .. Len(t) : u[Len(s) + i] = t[i]
  <2>1. s \in Seq(S) /\ t \in Seq(S)
    BY <1>1
  <2>. QED
    BY <2>1, ConcatProperties
<1> HIDE DEF u
<1>5. Len(u) = 6 /\ u[1] = a /\ u[2] = b /\ u[3] = c
  BY <1>1, <1>2, <1>4
<1>6. u[3 + 1] = x /\ u[3 + 2] = y /\ u[3 + 3] = z
  BY <1>1, <1>2, <1>4
<1>7. u[4] = x /\ u[5] = y /\ u[6] = z
  BY <1>6
<1>8. \A i \in 1 .. 6 : u[i] = v[i]
  BY <1>3, <1>5, <1>7
<1>9. u = v
  BY <1>1, <1>4, <1>5, <1>8, SeqEqual
<1>. QED
  BY <1>9 DEF u, v, s, t

\* The first token of a message, and of a frame, is its own.
LEMMA FirstToken ==
    ASSUME NEW a \in Text, NEW b \in Text, Len(a) >= 1
    PROVE  a \o b \in Text /\ Len(a \o b) >= 1 /\ (a \o b)[1] = a[1]
<1>1. Len(a) \in Nat /\ Len(b) \in Nat
  BY DEF Text
<1>2. 1 \in 1 .. Len(a)
  BY <1>1
<1>3. a \o b \in Text /\ Len(a \o b) = Len(a) + Len(b)
  BY Concat
<1>4. (a \o b)[1] = a[1]
  BY <1>2, Concat
<1>. QED
  BY <1>1, <1>3, <1>4

LEMMA FrameIs ==
    /\ Frame.channel = "channel" /\ Frame.payload = <<"rtp", CR, LF>>
    /\ FrameText(Frame) = <<Dollar, "channel", Numeral[3], "rtp", CR, LF>>
    /\ FrameText(Frame) \in Text /\ Len(FrameText(Frame)) = 6
    /\ FrameText(Frame)[1] = Dollar /\ FrameText(Frame)[3] = Numeral[3]
    /\ 3 \in Numbers
<1>1. Frame.channel = "channel" /\ Frame.payload = <<"rtp", CR, LF>>
  BY DEF Frame
<1>2. 3 \in Numbers
  BY BoundsAssumption
<1>3. {Dollar, "channel", Numeral[3], "rtp", CR, LF} \subseteq Token
  BY <1>2, OwnWords, WordsAssumption, TokenAssumption DEF Separators
<1> DEFINE t == <<Dollar, "channel", Numeral[3], "rtp", CR, LF>>
<1>4. FrameText(Frame) = t
  <2>1. Len(<<"rtp", CR, LF>>) = 3
    OBVIOUS
  <2>2. <<Dollar, "channel", Numeral[3]>> \o <<"rtp", CR, LF>> = t
    BY SixTokens
  <2> HIDE DEF t
  <2>. QED
    BY <1>1, <2>1, <2>2 DEF FrameText
<1>5. t \in Text /\ Len(t) = 6 /\ t[1] = Dollar /\ t[3] = Numeral[3]
  BY <1>3 DEF Text
<1>. QED
  BY <1>1, <1>2, <1>4, <1>5

\* A text that begins as the frame does: it is complete when it is all there,
\* and then the frame is read.
LEMMA FrameSeen ==
    ASSUME NEW box \in Text,
           \A i \in Nat : i >= 1 /\ i <= Len(box) /\ i <= 6 => box[i] = FrameText(Frame)[i]
    PROVE  /\ FrameComplete(box) <=> Len(box) >= 6
           /\ FrameComplete(box) => FrameSize(box) = 6 /\ FrameRead(box) = Frame
<1> DEFINE f == FrameText(Frame)
<1>1. /\ f = <<Dollar, "channel", Numeral[3], "rtp", CR, LF>>
      /\ f \in Text /\ Len(f) = 6 /\ f[1] = Dollar /\ f[3] = Numeral[3] /\ 3 \in Numbers
  BY FrameIs
<1>2. Len(box) \in Nat
  BY DEF Text
<1>3. Len(box) >= 3 => FrameSize(box) = 6
  <2>1. SUFFICES ASSUME Len(box) >= 3 PROVE FrameSize(box) = 6
    OBVIOUS
  <2>2. box[3] = f[3]
    BY <2>1
  <2>3. SubSeq(box, 3, 3) = <<box[3]>>
    BY <2>1, OneToken
  <2>4. Atoi(<<Numeral[3]>>) = 3
    BY <1>1, AtoiNumeral
  <2> HIDE DEF f
  <2>5. Atoi(SubSeq(box, 3, 3)) = 3
    BY <1>1, <2>2, <2>3, <2>4
  <2>. QED
    BY <2>5 DEF FrameSize
<1>4. FrameComplete(box) <=> Len(box) >= 6
  BY <1>2, <1>3 DEF FrameComplete
<1>5. ASSUME Len(box) >= 6 PROVE FrameRead(box) = Frame
  <2>1. FrameSize(box) = 6
    BY <1>3, <1>5
  <2>2. box[2] = "channel" /\ box[4] = "rtp" /\ box[5] = CR /\ box[6] = LF
    <3>1. box[2] = f[2] /\ box[4] = f[4] /\ box[5] = f[5] /\ box[6] = f[6]
      BY <1>2, <1>5
    <3>2. f[2] = "channel" /\ f[4] = "rtp" /\ f[5] = CR /\ f[6] = LF
      <4> HIDE DEF f
      <4>. QED
        BY <1>1
    <3>. QED
      BY <3>1, <3>2
  <2>3. SubSeq(box, 4, 6) = <<"rtp", CR, LF>>
    <3> DEFINE u == SubSeq(box, 4, 6)
    <3>1. u \in Seq(Token) /\ Len(u) = 3 /\ u[1] = box[4] /\ u[2] = box[5] /\ u[3] = box[6]
      BY <1>2, <1>5 DEF Text
    <3> HIDE DEF u
    <3>2. u = <<u[1], u[2], u[3]>>
      BY <3>1
    <3>3. u = <<"rtp", CR, LF>>
      BY <2>2, <3>1, <3>2
    <3>. QED
      BY <3>3 DEF u
  <2>. QED
    BY <2>1, <2>2, <2>3 DEF FrameRead, Frame
<1>. QED
  BY <1>3, <1>4, <1>5, <1>2

LEMMA FrameIsNoMessage == ASSUME NEW m PROVE AsRead(m) # Frame
<1>1. DOMAIN AsRead(m) # DOMAIN Frame
  <2>1. "cseq" \in DOMAIN AsRead(m)
    BY DEF AsRead
  <2>2. "cseq" \notin DOMAIN Frame
    BY DEF Frame
  <2>. QED
    BY <2>1, <2>2
<1>. QED
  BY <1>1

\* What is sent, and how it is handed over.
Message == [method : Methods \cup {"NONE"}, code : Nat, cseq : Nat, heads : Seq(Header),
            body : Text]
Sendable == {Frame} \cup Message

Item(kind, text, item) ==
    /\ text \in Text /\ text # <<>> /\ item \in Sendable
    /\ \/ text = FrameText(Frame) /\ item = Frame
       \/ Whole(kind, text, item) /\ text[1] # Dollar /\ item # Frame

LEMMA FrameItem == ASSUME NEW kind PROVE Item(kind, FrameText(Frame), Frame)
BY FrameIs DEF Item, Sendable

LEMMA ReadType ==
    ASSUME NEW kind, NEW text, NEW r, Whole(kind, text, r)
    PROVE  r \in Message
<1> DEFINE d == Reading(kind, text)[Len(text)]
<1>1. d \in Decoder /\ Read(d) = r
  BY DEF Whole
<1> HIDE DEF d
<1>2. Read(d) \in Message
  BY <1>1 DEF Decoder, Read, Message
<1>. QED
  BY <1>1, <1>2

\* A text that begins with a line and a line's first token.
LEMMA FirstOfFour ==
    ASSUME NEW a \in Text, NEW b \in Text, NEW c \in Text, NEW e \in Text, Len(a) >= 1
    PROVE  Four(a, b, c, e)[1] = a[1]
<1> DEFINE x == a \o b
           y == x \o c
<1>1. x \in Text /\ Len(x) >= 1 /\ x[1] = a[1]
  BY FirstToken
<1> HIDE DEF x
<1>2. y \in Text /\ Len(y) >= 1 /\ y[1] = x[1]
  BY <1>1, FirstToken
<1> HIDE DEF y
<1>3. (y \o e)[1] = y[1]
  BY <1>2, FirstToken
<1>4. Four(a, b, c, e) = y \o e
  BY DEF Four, x, y
<1>. QED
  BY <1>1, <1>2, <1>3, <1>4

\* What the users send is an item of a direction.
LEMMA MessageItem ==
    ASSUME NEW kind, NEW text, NEW m, Whole(kind, text, AsRead(m)), text[1] # Dollar
    PROVE  Item(kind, text, AsRead(m))
<1> DEFINE r == AsRead(m)
<1>1. r # Frame
  BY FrameIsNoMessage
<1>2. text \in Text /\ Len(text) >= 1
  BY DEF Whole
<1>3. text # <<>>
  BY <1>2 DEF Text
<1> HIDE DEF r
<1>4. r \in Sendable
  BY ReadType DEF Sendable, r
<1>. QED
  BY <1>1, <1>2, <1>3, <1>4 DEF Item, r

LEMMA RequestItem ==
    ASSUME NEW m, FineRequest(m)
    PROVE  Item("request", RequestText(m), AsRead(m))
<1> DEFINE line == <<m.method, SP, Url, SP, Version, CR, LF>>
           A == HeadText("CSeq", <<Numeral[m.cseq]>>)
           B == HeadText("User-Agent", <<"tinylib/rtsp">>)
           T == Trailer(m.heads, m.body)
<1>1. m.method \in Methods /\ m.cseq \in Numbers /\ FineHeads(m.heads) /\ FineBody(m.body)
  BY DEF FineRequest, FineMessage
<1>2. line \in Text /\ Len(line) = 7 /\ Len(line) >= 1 /\ line[1] = m.method
  BY <1>1, LineType
<1>3. A \in Text /\ B \in Text /\ T \in Text
  BY <1>1, OwnWords, ShortHeadLength, TrailerType
<1>4. RequestText(m) = Four(line, A, B, T)
  BY DEF RequestText, Four
<1> HIDE DEF line, A, B, T
<1>5. Four(line, A, B, T)[1] = line[1]
  <2>1. line \in Text /\ Len(line) >= 1
    BY <1>2
  <2>. QED
    BY <1>3, <2>1, FirstOfFour
<1>6. m.method # Dollar
  BY <1>1, Words
<1>7. RequestText(m)[1] # Dollar
  BY <1>2, <1>4, <1>5, <1>6
<1>. QED
  BY <1>7, RequestIsRead, MessageItem

LEMMA ResponseItem ==
    ASSUME NEW m, FineResponse(m)
    PROVE  Item("response", ResponseText(m), AsRead(m))
<1> DEFINE line == <<Version, SP, Numeral[m.code], SP, "OK", CR, LF>>
           A == HeadText("CSeq", <<Numeral[m.cseq]>>)
           B == HeadText("Server", <<"tinylib/rtsp">>)
           D == HeadText("Date", <<"now">>)
           T == Trailer(m.heads, m.body)
<1>1. m.code \in Numbers /\ m.cseq \in Numbers /\ FineHeads(m.heads) /\ FineBody(m.body)
  BY DEF FineResponse, FineMessage
<1>2. line \in Text /\ Len(line) = 7 /\ Len(line) >= 1 /\ line[1] = Version
  BY <1>1, LineType
<1>3. A \in Text /\ B \in Text /\ D \in Text /\ T \in Text
  BY <1>1, OwnWords, ShortHeadLength, TrailerType
<1>4. ResponseText(m) = Four(line, A, B, D) \o T
  BY DEF ResponseText, Four
<1> HIDE DEF line, A, B, D, T
<1>5. Four(line, A, B, D)[1] = line[1]
  BY <1>2, <1>3, FirstOfFour
<1> DEFINE f == Four(line, A, B, D)
<1>6. f \in Text /\ Len(f) >= 1
  <2>1. line \o A \in Text /\ Len(line \o A) >= 1
    BY <1>2, <1>3, FirstToken
  <2>2. (line \o A) \o B \in Text /\ Len((line \o A) \o B) >= 1
    BY <1>3, <2>1, FirstToken
  <2>3. ((line \o A) \o B) \o D \in Text /\ Len(((line \o A) \o B) \o D) >= 1
    BY <1>3, <2>2, FirstToken
  <2>. QED
    BY <2>3 DEF Four
<1>7. (f \o T)[1] = f[1]
  <2> HIDE DEF f
  <2>. QED
    BY <1>3, <1>6, FirstToken
<1>8. Version # Dollar
  BY DEF Version, Dollar
<1>9. ResponseText(m)[1] # Dollar
  BY <1>2, <1>4, <1>5, <1>7, <1>8
<1>. QED
  BY <1>9, ResponseIsRead, MessageItem

-----------------------------------------------------------------------------
(***************************************************************************)
(* One direction of the stream: what the reader has in its buffer, what is *)
(* on its way to it, and what was lost behind that, are the texts of what  *)
(* was sent and not yet handed over.                                       *)
(***************************************************************************)
Laid(kind, box, way, sent, texts, lost) ==
    /\ box \in Text /\ way \in Text /\ lost \in Text
    /\ texts \in Seq(Text) /\ sent \in Seq(Sendable) /\ Len(texts) = Len(sent)
    /\ (box \o way) \o lost = FlattenSeq(texts)
    /\ \A i \in 1 .. Len(sent) : Item(kind, texts[i], sent[i])

\* The texts of a direction, split at the first of them.
Split(box, way, texts, lost) ==
    /\ box \o (way \o lost) = texts[1] \o FlattenSeq(Tail(texts))
    /\ way \o lost \in Text /\ FlattenSeq(Tail(texts)) \in Text
    /\ Tail(texts) \in Seq(Text) /\ texts[1] \in Text

\* A buffer that holds anything begins with the item sent first.
LEMMA LaidFirst ==
    ASSUME NEW kind, NEW box \in Text, NEW way \in Text, NEW sent, NEW texts, NEW lost,
           Laid(kind, box, way, sent, texts, lost), texts # <<>>
    PROVE  /\ sent # <<>> /\ Item(kind, texts[1], sent[1]) /\ texts[1] \in Text
           /\ Split(box, way, texts, lost)
           /\ \A i \in Nat : i >= 1 /\ i <= Len(box) /\ i <= Len(texts[1]) => box[i] = texts[1][i]
<1> DEFINE a == texts[1]
           r == FlattenSeq(Tail(texts))
           b == way \o lost
<1>1. /\ lost \in Text /\ texts \in Seq(Text) /\ sent \in Seq(Sendable) /\ Len(texts) = Len(sent)
      /\ (box \o way) \o lost = FlattenSeq(texts)
      /\ \A i \in 1 .. Len(sent) : Item(kind, texts[i], sent[i])
  BY DEF Laid
<1>2. Len(sent) \in Nat /\ Len(sent) >= 1 /\ sent # <<>>
  BY <1>1, EmptySeq
<1>3. Item(kind, a, sent[1])
  BY <1>1, <1>2
<1>4. /\ Tail(texts) \in Seq(Text) /\ r \in Text /\ a \in Text
      /\ FlattenSeq(texts) = a \o r
  BY <1>1, FlattenFirst
<1>5. b \in Text /\ (box \o way) \o lost = box \o b
  <2>1. b \in Text
    BY <1>1, Concat
  <2>2. (box \o way) \o lost = box \o (way \o lost)
    BY <1>1, TextAssociative
  <2>. QED
    BY <2>1, <2>2
<1>6. box \o b = a \o r
  BY <1>1, <1>4, <1>5
<1> HIDE DEF a, b, r
<1>7. \A i \in Nat : i >= 1 /\ i <= Len(box) /\ i <= Len(a) => box[i] = a[i]
  BY <1>4, <1>5, <1>6, SameStart
<1>8. Split(box, way, texts, lost)
  BY <1>4, <1>5, <1>6 DEF a, b, r, Split
<1>. QED
  BY <1>2, <1>3, <1>4, <1>7, <1>8 DEF a

\* Something in the buffer has been sent and not handed over.
LEMMA LaidSomething ==
    ASSUME NEW kind, NEW box \in Text, box # <<>>, NEW way \in Text, NEW sent, NEW texts, NEW lost,
           Laid(kind, box, way, sent, texts, lost)
    PROVE  texts # <<>>
<1>1. lost \in Text /\ (box \o way) \o lost = FlattenSeq(texts) /\ texts \in Seq(Text)
  BY DEF Laid
<1>2. SUFFICES ASSUME texts = <<>> PROVE FALSE
  OBVIOUS
<1>3. FlattenSeq(texts) = <<>>
  <2>1. PICK f \in [0 .. Len(texts) -> Text] : f[0] = <<>> /\ f[Len(texts)] = FlattenSeq(texts)
    BY <1>1, FlattenSteps
  <2>2. Len(texts) = 0
    BY <1>2
  <2>. QED
    BY <2>1, <2>2
<1>4. Len(box) \in Nat /\ Len(box) >= 1
  BY DEF Text
<1> DEFINE z == (box \o way) \o lost
<1>5. box \o way \in Text /\ Len(box \o way) >= 1
  BY <1>4, FirstToken
<1>6. z \in Text /\ Len(z) >= 1
  <2> DEFINE y == box \o way
  <2>1. y \in Text /\ Len(y) >= 1
    BY <1>5
  <2> HIDE DEF y
  <2>2. Len(y \o lost) >= 1 /\ y \o lost \in Text
    BY <1>1, <2>1, FirstToken
  <2>. QED
    BY <2>2 DEF y
<1>7. z = <<>>
  BY <1>1, <1>3
<1> HIDE DEF z
<1>. QED
  BY <1>6, <1>7

\* The item sent first is taken off the buffer.
LEMMA LaidRest ==
    ASSUME NEW kind, NEW box \in Text, NEW way \in Text, NEW sent, NEW texts, NEW lost,
           Laid(kind, box, way, sent, texts, lost), texts # <<>>, NEW n, n = Len(texts[1]),
           n <= Len(box)
    PROVE  /\ n \in Nat /\ After(box, n) \in Text
           /\ Laid(kind, After(box, n), way, Tail(sent), Tail(texts), lost)
<1> DEFINE a == texts[1]
           us == Tail(texts)
           r == FlattenSeq(us)
           b == way \o lost
           v == After(box, n)
<1>1. /\ a \in Text /\ box \o b = a \o r /\ b \in Text /\ r \in Text /\ us \in Seq(Text)
      /\ sent # <<>>
  <2>1. Laid(kind, box, way, sent, texts, lost) /\ texts # <<>>
    OBVIOUS
  <2>2. sent # <<>> /\ Split(box, way, texts, lost)
    BY <2>1, LaidFirst
  <2>. QED
    BY <2>2 DEF Split
<1>2. /\ lost \in Text /\ texts \in Seq(Text) /\ sent \in Seq(Sendable) /\ Len(texts) = Len(sent)
      /\ \A i \in 1 .. Len(sent) : Item(kind, texts[i], sent[i])
  BY DEF Laid
<1>3. n \in Nat /\ n = Len(a)
  BY <1>1 DEF Text
<1>4. v \in Text /\ v \o b = r
  <2> HIDE DEF a, b, r
  <2>1. Len(a) <= Len(box) /\ After(box, Len(a)) = v
    BY <1>3
  <2> HIDE DEF v
  <2>2. After(box, Len(a)) \in Text /\ After(box, Len(a)) \o b = r
    BY <1>1, <2>1, AfterFirst
  <2>. QED
    BY <2>1, <2>2
<1>5. (v \o way) \o lost = v \o b
  <2> HIDE DEF v
  <2>. QED
    BY <1>2, <1>4, TextAssociative
<1>6. v \o way \in Text
  BY <1>4, Concat
<1> DEFINE w == Tail(sent)
<1>7. /\ w \in Seq(Sendable) /\ Len(w) = Len(us)
      /\ \A i \in 1 .. Len(w) : Item(kind, us[i], w[i])
  <2>1. w \in Seq(Sendable) /\ Len(w) = Len(sent) - 1 /\ \A i \in 1 .. Len(w) : w[i] = sent[i + 1]
    BY <1>1, <1>2, HeadTailProperties
  <2>2. Len(us) = Len(texts) - 1 /\ \A i \in 1 .. Len(us) : us[i] = texts[i + 1]
    BY <1>2, HeadTailProperties
  <2> HIDE DEF w, us
  <2>3. ASSUME NEW i \in 1 .. Len(w) PROVE Item(kind, us[i], w[i])
    <3> DEFINE j == i + 1
    <3>1. j \in 1 .. Len(sent) /\ i \in 1 .. Len(us)
      BY <1>2, <2>1, <2>2
    <3>2. w[i] = sent[j] /\ us[i] = texts[j]
      BY <2>1, <2>2, <3>1
    <3> HIDE DEF j
    <3>. QED
      BY <1>2, <3>1, <3>2
  <2>. QED
    BY <1>2, <2>1, <2>2, <2>3
<1> HIDE DEF v, w, us
<1>8. (v \o way) \o lost = r
  BY <1>4, <1>5
<1>9. Laid(kind, v, way, w, us, lost)
  BY <1>1, <1>2, <1>4, <1>7, <1>8 DEF Laid
<1>. QED
  BY <1>3, <1>4, <1>9 DEF v, w, us

\* An item more is sent.
LEMMA LaidMore ==
    ASSUME NEW kind, NEW box \in Text, NEW way \in Text, NEW sent, NEW texts,
           Laid(kind, box, way, sent, texts, <<>>), NEW t, NEW item, Item(kind, t, item)
    PROVE  /\ t \in Text /\ t # <<>> /\ way \o t \in Text /\ Append(texts, t) \in Seq(Text)
           /\ Laid(kind, box, way \o t, Append(sent, item), Append(texts, t), <<>>)
<1> DEFINE us == Append(texts, t)
           w == Append(sent, item)
           none == <<>>
           y == box \o way
<1>1. t \in Text /\ t # <<>> /\ item \in Sendable
  BY DEF Item
<1>2. /\ none \in Text /\ texts \in Seq(Text) /\ sent \in Seq(Sendable) /\ Len(texts) = Len(sent)
      /\ y \o none = FlattenSeq(texts) /\ y \in Text
      /\ \A i \in 1 .. Len(sent) : Item(kind, texts[i], sent[i])
  BY Concat DEF Laid
<1>3. y \o none = y
  BY <1>2, ConcatEmptySeq DEF Text
<1>4. us \in Seq(Text) /\ FlattenSeq(us) = y \o t
  <2>1. us \in Seq(Text)
    BY <1>1, <1>2
  <2>2. FlattenSeq(us) = FlattenSeq(texts) \o t
    BY <1>1, <1>2, FlattenAppend
  <2>3. FlattenSeq(texts) = y
    BY <1>2, <1>3
  <2>. QED
    BY <2>1, <2>2, <2>3
<1>5. y \o t = box \o (way \o t) /\ way \o t \in Text
  <2>1. way \o t \in Text
    BY <1>1, Concat
  <2>2. (box \o way) \o t = box \o (way \o t)
    BY <1>1, TextAssociative
  <2>. QED
    BY <2>1, <2>2
<1> DEFINE z == box \o (way \o t)
<1>6. z \in Text /\ z \o none = z
  <2>1. z \in Text
    BY <1>5, Concat
  <2>. QED
    BY <2>1, ConcatEmptySeq DEF Text
<1>7. /\ w \in Seq(Sendable) /\ Len(us) = Len(w)
      /\ \A i \in 1 .. Len(w) : Item(kind, us[i], w[i])
  <2>1. /\ w \in Seq(Sendable) /\ Len(w) = Len(sent) + 1 /\ w[Len(sent) + 1] = item
        /\ \A i \in 1 .. Len(sent) : w[i] = sent[i]
    BY <1>1, <1>2
  <2>2. /\ Len(us) = Len(texts) + 1 /\ us[Len(texts) + 1] = t
        /\ \A i \in 1 .. Len(texts) : us[i] = texts[i]
    BY <1>1, <1>2
  <2>3. Len(sent) \in Nat
    BY <1>2
  <2> HIDE DEF us, w
  <2>4. ASSUME NEW i \in 1 .. Len(w) PROVE Item(kind, us[i], w[i])
    <3>1. CASE i = Len(sent) + 1
      BY <1>2, <2>1, <2>2, <3>1
    <3>2. CASE i # Len(sent) + 1
      <4>1. i \in 1 .. Len(sent)
        BY <2>1, <2>3, <3>2
      <4>2. w[i] = sent[i] /\ us[i] = texts[i]
        BY <1>2, <2>1, <2>2, <4>1
      <4>. QED
        BY <1>2, <4>1, <4>2
    <3>. QED
      BY <3>1, <3>2
  <2>. QED
    BY <1>2, <2>1, <2>2, <2>4
<1> HIDE DEF us, w, none, y, z
<1>8. z \o none = FlattenSeq(us)
  BY <1>4, <1>5, <1>6 DEF z
<1>9. Laid(kind, box, way \o t, w, us, none)
  BY <1>2, <1>4, <1>5, <1>7, <1>8 DEF Laid, z
<1>. QED
  BY <1>1, <1>4, <1>5, <1>9 DEF z, w, us, none

\* The decoder of a reader that is handing a message over, and of one that is not.
Held(kind, box, sent, texts, d) ==
    /\ texts # <<>> /\ sent[1] # Frame /\ Len(texts[1]) <= Len(box)
    /\ d = Reading(kind, texts[1])[Len(texts[1])]

Stopped(kind, box, text, d) ==
    \E q \in Nat : /\ q >= 1 /\ q < Len(text) /\ q <= Len(box)
                   /\ text[q] \notin {CR, Colon} /\ d = Reading(kind, text)[q]

Resting(kind, box, sent, texts, d) ==
    \/ d = NewDecoder
    \/ texts # <<>> /\ sent[1] # Frame /\ Stopped(kind, box, texts[1], d)

\* The ends to which a writer has been told that it writes in vain.
Gone == {"refused", "closing", "closed"}

\* A direction; end is the writer's end, and the reader hands a message over
\* when its pc is named like the messages.
Flow(kind, box, way, sent, end, pc, d) ==
    \E texts, lost : /\ Laid(kind, box, way, sent, texts, lost)
                     /\ end \notin Gone => lost = <<>>
                     /\ pc = kind => Held(kind, box, sent, texts, d)
                     /\ pc # kind => Resting(kind, box, sent, texts, d)

\* Nothing has been sent.
LEMMA FlowNothing ==
    ASSUME NEW kind, NEW end, NEW pc, pc # kind
    PROVE  Flow(kind, <<>>, <<>>, <<>>, end, pc, NewDecoder)
<1> DEFINE none == <<>>
<1>1. none \in Text /\ none \in Seq(Text) /\ none \in Seq(Sendable) /\ Len(none) = 0
      /\ none \o none = none
  BY ConcatEmptySeq DEF Text
<1>2. FlattenSeq(none) = none
  <2>1. PICK f \in [0 .. Len(none) -> Text] : f[0] = <<>> /\ f[Len(none)] = FlattenSeq(none)
    BY <1>1, FlattenSteps
  <2>. QED
    BY <1>1, <2>1
<1>3. \A i \in 1 .. Len(none) : FALSE
  BY <1>1
<1> HIDE DEF none
<1>4. Laid(kind, none, none, none, none, none)
  BY <1>1, <1>2, <1>3 DEF Laid
<1>5. Resting(kind, none, none, none, NewDecoder)
  BY DEF Resting
<1>. QED
  BY <1>4, <1>5 DEF Flow, none

LEMMA FlowType ==
    ASSUME NEW kind, NEW box, NEW way, NEW sent, NEW end, NEW pc, NEW d,
           Flow(kind, box, way, sent, end, pc, d)
    PROVE  box \in Text /\ way \in Text /\ sent \in Seq(Sendable)
BY DEF Flow, Laid

\* Only whether the writer's end is known to be gone matters, and whether the
\* reader hands a message over.
LEMMA FlowEnds ==
    ASSUME NEW kind, NEW box, NEW way, NEW sent, NEW end, NEW pc, NEW d,
           Flow(kind, box, way, sent, end, pc, d),
           NEW end2, end \in Gone => end2 \in Gone, NEW pc2, pc2 = kind <=> pc = kind
    PROVE  Flow(kind, box, way, sent, end2, pc2, d)
BY DEF Flow

\* What is on its way is lost.
LEMMA FlowLost ==
    ASSUME NEW kind, NEW box, NEW way, NEW sent, NEW end, NEW pc, NEW d,
           Flow(kind, box, way, sent, end, pc, d), NEW end2 \in Gone
    PROVE  Flow(kind, box, <<>>, sent, end2, pc, d)
<1>1. PICK texts, lost : /\ Laid(kind, box, way, sent, texts, lost)
                         /\ pc = kind => Held(kind, box, sent, texts, d)
                         /\ pc # kind => Resting(kind, box, sent, texts, d)
  BY DEF Flow
<1> DEFINE more == way \o lost
           none == <<>>
<1>2. box \in Text /\ way \in Text /\ lost \in Text
  BY <1>1 DEF Laid
<1>3. more \in Text /\ none \in Text /\ (box \o way) \o lost = box \o more
  BY <1>2, Concat, TextAssociative DEF Text
<1>4. box \o none = box
  BY <1>2, ConcatEmptySeq DEF Text
<1> HIDE DEF more, none
<1>5. Laid(kind, box, none, sent, texts, more)
  BY <1>1, <1>2, <1>3, <1>4 DEF Laid
<1>. QED
  BY <1>1, <1>5 DEF Flow, none

\* An item is sent.
LEMMA FlowSent ==
    ASSUME NEW kind, NEW box, NEW way, NEW sent, NEW end, NEW pc, NEW d,
           Flow(kind, box, way, sent, end, pc, d), end \notin Gone,
           NEW t, NEW item, Item(kind, t, item)
    PROVE  way \o t # way /\ Flow(kind, box, way \o t, Append(sent, item), end, pc, d)
<1> DEFINE none == <<>>
<1>1. PICK texts : /\ Laid(kind, box, way, sent, texts, none)
                   /\ pc = kind => Held(kind, box, sent, texts, d)
                   /\ pc # kind => Resting(kind, box, sent, texts, d)
  BY DEF Flow
<1>2. /\ box \in Text /\ way \in Text /\ texts \in Seq(Text) /\ sent \in Seq(Sendable)
      /\ Len(texts) = Len(sent)
  BY <1>1 DEF Laid
<1> DEFINE us == Append(texts, t)
           w == Append(sent, item)
<1>3. t \in Text /\ t # <<>> /\ Laid(kind, box, way \o t, w, us, none)
  BY <1>1, <1>2, LaidMore
<1>4. item \in Sendable
  BY DEF Item
<1>5. ASSUME texts # <<>> PROVE us # <<>> /\ us[1] = texts[1] /\ w[1] = sent[1]
  <2>1. Len(texts) \in Nat /\ Len(texts) >= 1 /\ 1 \in 1 .. Len(texts)
    BY <1>2, <1>5
  <2>2. us[1] = texts[1] /\ us # <<>>
    BY <1>2, <1>3, <2>1
  <2>3. w[1] = sent[1]
    BY <1>2, <1>4, <2>1
  <2>. QED
    BY <2>2, <2>3
<1>6. way \o t # way
  <2>1. Len(way \o t) = Len(way) + Len(t)
    BY <1>2, <1>3, Concat
  <2>2. Len(way) \in Nat /\ Len(t) \in Nat /\ Len(t) >= 1
    BY <1>2, <1>3 DEF Text
  <2>. QED
    BY <2>1, <2>2
<1> HIDE DEF us, w, none
<1>7. pc = kind => Held(kind, box, w, us, d)
  <2>1. SUFFICES ASSUME pc = kind PROVE Held(kind, box, w, us, d)
    OBVIOUS
  <2>2. Held(kind, box, sent, texts, d)
    BY <1>1, <2>1
  <2>. QED
    BY <1>5, <2>2 DEF Held
<1>8. pc # kind => Resting(kind, box, w, us, d)
  <2>1. SUFFICES ASSUME pc # kind PROVE Resting(kind, box, w, us, d)
    OBVIOUS
  <2>2. Resting(kind, box, sent, texts, d)
    BY <1>1, <2>1
  <2>. QED
    BY <1>5, <2>2 DEF Resting
<1>. QED
  BY <1>3, <1>6, <1>7, <1>8 DEF Flow, w, none

\* A piece of what is on its way goes into the buffer.
LEMMA FlowPiece ==
    ASSUME NEW kind, NEW box, NEW way, NEW sent, NEW end, NEW pc, NEW d,
           Flow(kind, box, way, sent, end, pc, d), pc # kind, NEW pc2, pc2 # kind,
           NEW n \in Nat, n <= Len(way)
    PROVE  Flow(kind, box \o SubSeq(way, 1, n), After(way, n), sent, end, pc2, d)
<1>1. PICK texts, lost : /\ Laid(kind, box, way, sent, texts, lost)
                         /\ end \notin Gone => lost = <<>>
                         /\ Resting(kind, box, sent, texts, d)
  BY DEF Flow
<1>2. box \in Text /\ way \in Text /\ lost \in Text
  BY <1>1 DEF Laid
<1> DEFINE a == SubSeq(way, 1, n)
           b == After(way, n)
           box2 == box \o a
<1>3. a \in Text /\ b \in Text /\ a \o b = way
  BY <1>2, AfterType, AfterAll
<1>4. box2 \in Text /\ box2 \o b = box \o way /\ Len(box2) = Len(box) + Len(a)
  <2> HIDE DEF a, b
  <2>1. (box \o a) \o b = box \o (a \o b)
    <3>1. box \in Text /\ a \in Text /\ b \in Text
      BY <1>2, <1>3
    <3>. QED
      BY <3>1, TextAssociative
  <2>. QED
    BY <1>2, <1>3, <2>1, Concat
<1>5. Len(box) \in Nat /\ Len(a) \in Nat
  BY <1>2, <1>3 DEF Text
<1> HIDE DEF a, b, box2
<1>6. Laid(kind, box2, b, sent, texts, lost)
  BY <1>1, <1>3, <1>4 DEF Laid
<1>7. Resting(kind, box2, sent, texts, d)
  <2>1. Len(box2) \in Nat /\ Len(box) <= Len(box2)
    BY <1>4, <1>5
  <2>2. ASSUME Stopped(kind, box, texts[1], d) PROVE Stopped(kind, box2, texts[1], d)
    BY <1>5, <2>1, <2>2 DEF Stopped
  <2>. QED
    BY <1>1, <2>2 DEF Resting
<1>. QED
  BY <1>1, <1>6, <1>7 DEF Flow, box2, a, b

\* The decoder may start anew.
LEMMA FlowAnew ==
    ASSUME NEW kind, NEW box, NEW way, NEW sent, NEW end, NEW pc, NEW d,
           Flow(kind, box, way, sent, end, pc, d), NEW pc2, pc2 # kind
    PROVE  Flow(kind, box, way, sent, end, pc2, NewDecoder)
BY DEF Flow, Resting

\* A message that is first in the buffer, and what its text says of it.
LEMMA FirstIsMessage ==
    ASSUME NEW kind, NEW text, NEW item, Item(kind, text, item), item # Frame
    PROVE  Whole(kind, text, item) /\ text[1] # Dollar
BY DEF Item

LEMMA FirstIsFrame ==
    ASSUME NEW kind, NEW text, NEW item, Item(kind, text, item), text[1] = Dollar
    PROVE  item = Frame /\ text = FrameText(Frame)
BY DEF Item

LEMMA FirstIsText ==
    ASSUME NEW kind, NEW text, NEW item, Item(kind, text, item), text[1] # Dollar
    PROVE  item # Frame /\ Whole(kind, text, item)
BY FrameIs DEF Item

LEMMA ItemType ==
    ASSUME NEW kind, NEW text, NEW item, Item(kind, text, item)
    PROVE  text \in Text /\ Len(text) \in Nat /\ Len(text) >= 1
BY DEF Item, Text

\* A frame that is complete is the one sent first, and is taken off the buffer.
LEMMA FlowFrame ==
    ASSUME NEW kind, NEW box, NEW way, NEW sent, NEW end, NEW pc, NEW d,
           Flow(kind, box, way, sent, end, pc, d), pc # kind, box # <<>>, box[1] = Dollar,
           FrameComplete(box)
    PROVE  /\ sent # <<>> /\ FrameRead(box) = Head(sent) /\ Head(sent) = Frame
           /\ FrameSize(box) = 6 /\ 6 <= Len(box)
           /\ Flow(kind, After(box, FrameSize(box)), way, Tail(sent), end, pc, d)
<1>1. PICK texts, lost : /\ Laid(kind, box, way, sent, texts, lost)
                         /\ end \notin Gone => lost = <<>>
                         /\ Resting(kind, box, sent, texts, d)
  BY DEF Flow
<1>2. box \in Text /\ way \in Text
  BY <1>1 DEF Laid
<1>3. texts # <<>>
  BY <1>1, <1>2, LaidSomething
<1> DEFINE t == texts[1]
           n == Len(t)
<1>4. /\ sent # <<>> /\ Item(kind, t, sent[1])
      /\ \A i \in Nat : i >= 1 /\ i <= Len(box) /\ i <= n => box[i] = t[i]
  BY <1>1, <1>2, <1>3, LaidFirst
<1>5. Len(box) \in Nat /\ Len(box) >= 1
  BY <1>2 DEF Text
<1>6. t \in Text /\ n \in Nat /\ n >= 1
  BY <1>4, ItemType
<1>7. t[1] = Dollar
  BY <1>4, <1>5, <1>6
<1>8. sent[1] = Frame /\ t = FrameText(Frame)
  BY <1>4, <1>7, FirstIsFrame
<1>9. n = 6
  BY <1>8, FrameIs
<1> HIDE DEF n
<1>10. \A i \in Nat : i >= 1 /\ i <= Len(box) /\ i <= 6 => box[i] = FrameText(Frame)[i]
  BY <1>4, <1>8, <1>9
<1>11. Len(box) >= 6 /\ FrameSize(box) = 6 /\ FrameRead(box) = Frame
  BY <1>2, <1>10, FrameSeen
<1>12. Laid(kind, After(box, n), way, Tail(sent), Tail(texts), lost)
  <2>1. n = Len(texts[1]) /\ n <= Len(box)
    BY <1>5, <1>9, <1>11 DEF n
  <2>. QED
    BY <1>1, <1>2, <1>3, <2>1, LaidRest
<1>13. Resting(kind, After(box, n), Tail(sent), Tail(texts), d)
  BY <1>1, <1>8 DEF Resting
<1>14. Flow(kind, After(box, n), way, Tail(sent), end, pc, d)
  BY <1>1, <1>12, <1>13 DEF Flow
<1>15. Head(sent) = sent[1]
  OBVIOUS
<1>. QED
  BY <1>4, <1>5, <1>8, <1>9, <1>11, <1>14, <1>15

\* A message that is handed over is the one sent first, and is taken off the buffer.
LEMMA FlowTaken ==
    ASSUME NEW kind, NEW box, NEW way, NEW sent, NEW end, NEW d,
           Flow(kind, box, way, sent, end, kind, d), NEW pc, pc # kind
    PROVE  /\ sent # <<>> /\ Read(d) = Head(sent) /\ Head(sent) # Frame
           /\ d.offset \in Nat /\ d.offset <= Len(box)
           /\ Flow(kind, After(box, d.offset), way, Tail(sent), end, pc, NewDecoder)
<1>1. PICK texts, lost : /\ Laid(kind, box, way, sent, texts, lost)
                         /\ end \notin Gone => lost = <<>>
                         /\ Held(kind, box, sent, texts, d)
  BY DEF Flow
<1>2. box \in Text /\ way \in Text
  BY <1>1 DEF Laid
<1> DEFINE t == texts[1]
           n == Len(t)
<1>3. texts # <<>> /\ sent[1] # Frame /\ n <= Len(box) /\ d = Reading(kind, t)[n]
  BY <1>1 DEF Held
<1>4. sent # <<>> /\ Item(kind, t, sent[1])
  BY <1>1, <1>2, <1>3, LaidFirst
<1>5. Whole(kind, t, sent[1])
  BY <1>3, <1>4, FirstIsMessage
<1>6. d.offset = n /\ Read(d) = sent[1]
  BY <1>3, <1>5 DEF Whole
<1>7. n \in Nat
  BY <1>4, ItemType
<1> HIDE DEF n
<1>8. Laid(kind, After(box, n), way, Tail(sent), Tail(texts), lost)
  <2>1. n = Len(texts[1])
    BY DEF n
  <2>. QED
    BY <1>1, <1>2, <1>3, <2>1, LaidRest
<1>9. Resting(kind, After(box, n), Tail(sent), Tail(texts), NewDecoder)
  BY DEF Resting
<1>10. Flow(kind, After(box, n), way, Tail(sent), end, pc, NewDecoder)
  BY <1>1, <1>8, <1>9 DEF Flow
<1>11. Head(sent) = sent[1]
  OBVIOUS
<1>. QED
  BY <1>3, <1>4, <1>6, <1>7, <1>10, <1>11

\* What the decoder makes of a buffer that begins with a message.
LEMMA FlowText ==
    ASSUME NEW kind, NEW box, NEW way, NEW sent, NEW end, NEW pc, NEW d,
           Flow(kind, box, way, sent, end, pc, d), pc # kind, box # <<>>, box[1] # Dollar,
           NEW e, e = Decode(kind, d, box)
    PROVE  /\ e.ret \in {"done", "more"}
           /\ e.ret = "done" => Flow(kind, box, way, sent, end, kind, e)
           /\ e.ret = "more" /\ box[Len(box)] \notin {CR, Colon} =>
                  Flow(kind, box, way, sent, end, pc, e)
<1>1. PICK texts, lost : /\ Laid(kind, box, way, sent, texts, lost)
                         /\ end \notin Gone => lost = <<>>
                         /\ Resting(kind, box, sent, texts, d)
  BY DEF Flow
<1>2. box \in Text /\ way \in Text
  BY <1>1 DEF Laid
<1>3. texts # <<>>
  BY <1>1, <1>2, LaidSomething
<1> DEFINE t == texts[1]
           n == Len(t)
           b == Len(box)
<1>4. /\ sent # <<>> /\ Item(kind, t, sent[1])
      /\ \A i \in Nat : i >= 1 /\ i <= b /\ i <= n => box[i] = t[i]
  BY <1>1, <1>2, <1>3, LaidFirst
<1>5. b \in Nat /\ b >= 1
  BY <1>2 DEF Text
<1>6. t \in Text /\ n \in Nat /\ n >= 1
  BY <1>4, ItemType
<1>7. t[1] # Dollar
  BY <1>4, <1>5, <1>6
<1>8. sent[1] # Frame /\ Whole(kind, t, sent[1])
  BY <1>4, <1>7, FirstIsText
<1> DEFINE m == IF n <= b THEN n ELSE b
<1>9. m \in Nat /\ m <= n /\ m <= b /\ m >= 1 /\ (m = n \/ m = b) /\ (m < n => m = b)
  BY <1>5, <1>6
<1>10. \A i \in 1 .. m : box[i] = t[i]
  <2> HIDE DEF m, n, b
  <2> TAKE i \in 1 .. m
  <2>1. i \in Nat /\ i >= 1 /\ i <= b /\ i <= n
    BY <1>5, <1>6, <1>9
  <2>. QED
    BY <1>4, <2>1
<1> HIDE DEF m
<1>11. PICK q \in Nat : /\ q < n /\ q <= b /\ (q >= 1 => t[q] \notin {CR, Colon})
                        /\ d = Reading(kind, t)[q]
  <2>1. CASE d = NewDecoder
    <3>1. Reading(kind, t)[0] = NewDecoder
      BY <1>6, ReadingStep DEF Text
    <3>2. 0 \in Nat /\ 0 < n /\ 0 <= b /\ ~(0 >= 1)
      BY <1>5, <1>6
    <3>. QED
      BY <2>1, <3>1, <3>2
  <2>2. CASE Stopped(kind, box, t, d)
    BY <2>2 DEF Stopped
  <2>. QED
    BY <1>1, <2>1, <2>2 DEF Resting
<1>12. e = Reading(kind, t)[m]
  <2> DEFINE s == sent[1]
  <2> HIDE DEF s
  <2>1. Whole(kind, t, s)
    BY <1>8 DEF s
  <2> HIDE DEF t, n, b
  <2>2. q < Len(t) /\ q <= Len(box) /\ Len(box) >= 1 /\ m <= Len(t) /\ m <= Len(box)
        /\ (m = Len(t) \/ m = Len(box))
    BY <1>5, <1>9, <1>11 DEF n, b
  <2>3. q >= 1 => t[q] \notin {CR, Colon}
    BY <1>11
  <2>4. d = Reading(kind, t)[q]
    BY <1>11
  <2>5. Decode(kind, d, box) = Reading(kind, t)[m]
    BY <1>2, <1>9, <1>10, <2>1, <2>2, <2>3, <2>4, Decoded
  <2>. QED
    BY <2>5
<1>13. CASE m = n
  <2>1. e.ret = "done"
    BY <1>8, <1>12, <1>13 DEF Whole
  <2>2. Held(kind, box, sent, texts, e)
    BY <1>3, <1>8, <1>9, <1>12, <1>13 DEF Held
  <2>3. Flow(kind, box, way, sent, end, kind, e)
    BY <1>1, <2>2 DEF Flow
  <2>. QED
    BY <2>1, <2>3
<1>14. CASE m # n
  <2>1. m = b /\ m < n /\ m \in 1 .. n - 1
    BY <1>6, <1>9, <1>14
  <2>2. e.ret = "more"
    <3>1. Resumes(kind, t, m)
      BY <1>8, <2>1 DEF Whole
    <3>. QED
      BY <1>12, <3>1 DEF Resumes
  <2>3. ASSUME box[b] \notin {CR, Colon} PROVE Flow(kind, box, way, sent, end, pc, e)
    <3>1. t[m] \notin {CR, Colon}
      <4>1. m \in 1 .. m
        BY <1>9
      <4>. QED
        BY <1>10, <2>1, <2>3, <4>1
    <3>2. Stopped(kind, box, t, e)
      BY <1>9, <1>12, <2>1, <3>1 DEF Stopped
    <3>3. Resting(kind, box, sent, texts, e)
      BY <1>3, <1>8, <3>2 DEF Resting
    <3>. QED
      BY <1>1, <3>3 DEF Flow
  <2>. QED
    BY <2>2, <2>3
<1>. QED
  BY <1>13, <1>14

-----------------------------------------------------------------------------
(***************************************************************************)
(* What the two users say.                                                 *)
(***************************************************************************)
\* The headers that are kept are those of the keys that are, all of them.
LEMMA KeptOnes ==
    ASSUME NEW heads \in Seq(Header)
    PROVE  /\ KeptHeads(heads) \in Seq(Header)
           /\ {KeptHeads(heads)[j] : j \in DOMAIN KeptHeads(heads)} =
                  {h \in {heads[j] : j \in DOMAIN heads} : h.key \in KeptKeys}
<1> DEFINE n == Len(heads)
<1>1. n \in Nat /\ DOMAIN heads = 1 .. n /\ \A i \in 1 .. n : heads[i] \in Header
  OBVIOUS
<1>2. PICK f \in [0 .. n -> Seq(Header)] :
          /\ f[0] = <<>> /\ f[n] = KeptHeads(heads)
          /\ \A i \in 1 .. n : f[i] = IF heads[i].key \in KeptKeys THEN <<heads[i]>> \o f[i - 1]
                                                                    ELSE f[i - 1]
  BY KeptSteps
<1> HIDE DEF n
<1> DEFINE All(s) == {s[j] : j \in DOMAIN s}
           Upto(k) == {h \in {heads[j] : j \in 1 .. k} : h.key \in KeptKeys}
           S == {k \in Nat : k <= n => All(f[k]) = Upto(k)}
<1>3. 0 \in S
  BY <1>2
<1>4. ASSUME NEW k \in Nat, k \in S PROVE k + 1 \in S
  <2>1. SUFFICES ASSUME k + 1 <= n PROVE All(f[k + 1]) = Upto(k + 1)
    OBVIOUS
  <2> DEFINE i == k + 1
             g == f[k]
             x == heads[i]
  <2>2. i \in 1 .. n /\ i - 1 = k /\ k \in 0 .. n /\ k <= n /\ 1 .. i = (1 .. k) \cup {i}
    BY <1>1, <2>1
  <2>3. All(g) = Upto(k) /\ g \in Seq(Header)
    BY <1>2, <1>4, <2>2
  <2>4. x \in Header
    BY <1>1, <2>2
  <2>5. f[i] = IF x.key \in KeptKeys THEN <<x>> \o g ELSE g
    <3> HIDE DEF i
    <3>. QED
      BY <1>2, <2>2
  <2> HIDE DEF i
  <2>6. Upto(i) = IF x.key \in KeptKeys THEN Upto(k) \cup {x} ELSE Upto(k)
    BY <2>2
  <2>7. All(<<x>> \o g) = All(g) \cup {x}
    <3> DEFINE u == <<x>>
               w == u \o g
    <3>1. u \in Seq(Header) /\ Len(u) = 1 /\ u[1] = x
      BY <2>4
    <3> HIDE DEF u
    <3>2. /\ w \in Seq(Header) /\ Len(w) = Len(u) + Len(g)
          /\ \A j \in 1 .. Len(u) : w[j] = u[j]
          /\ \A j \in 1 .. Len(g) : w[Len(u) + j] = g[j]
      <4>1. u \in Seq(Header) /\ g \in Seq(Header)
        BY <2>3, <3>1
      <4> HIDE DEF g
      <4>. QED
        BY <4>1, ConcatProperties
    <3> HIDE DEF w, g, x
    <3>3. Len(g) \in Nat /\ DOMAIN g = 1 .. Len(g) /\ DOMAIN w = 1 .. Len(g) + 1
      BY <2>3, <3>1, <3>2
    <3>4. w[1] = x /\ \A j \in 1 .. Len(g) : w[1 + j] = g[j]
      BY <3>1, <3>2
    <3>5. ASSUME NEW y \in All(w) PROVE y \in All(g) \cup {x}
      <4>1. PICK j \in 1 .. Len(g) + 1 : y = w[j]
        BY <3>3
      <4>2. CASE j = 1
        BY <3>4, <4>1, <4>2
      <4>3. CASE j # 1
        <5> DEFINE p == j - 1
        <5>1. p \in 1 .. Len(g) /\ 1 + p = j
          BY <3>3, <4>1, <4>3
        <5> HIDE DEF p
        <5>2. y = g[p] /\ p \in DOMAIN g
          BY <3>3, <3>4, <4>1, <5>1
        <5>. QED
          BY <5>2
      <4>. QED
        BY <4>2, <4>3
    <3>6. ASSUME NEW y \in All(g) \cup {x} PROVE y \in All(w)
      <4>1. CASE y = x
        <5>1. 1 \in DOMAIN w /\ y = w[1]
          BY <3>3, <3>4, <4>1
        <5>. QED
          BY <5>1
      <4>2. CASE y \in All(g)
        <5>1. PICK j \in 1 .. Len(g) : y = g[j]
          BY <3>3, <4>2
        <5>2. 1 + j \in DOMAIN w /\ y = w[1 + j]
          BY <3>3, <3>4, <5>1
        <5>. QED
          BY <5>2
      <4>. QED
        BY <4>1, <4>2
    <3>7. All(w) = All(g) \cup {x}
      BY <3>5, <3>6
    <3>. QED
      BY <3>7 DEF w, u
  <2>8. All(f[i]) = Upto(i)
    <3> HIDE DEF All, Upto, g, x
    <3>. QED
      BY <2>3, <2>5, <2>6, <2>7
  <2>. QED
    BY <2>8 DEF i
<1>5. Nat \subseteq S
  <2> HIDE DEF S
  <2>. QED
    BY <1>3, <1>4, NatSetInduction
<1>6. All(f[n]) = Upto(n)
  <2> HIDE DEF All, Upto
  <2>1. n \in S /\ n <= n
    BY <1>1, <1>5
  <2>. QED
    BY <2>1
<1>7. f[n] \in Seq(Header)
  BY <1>1, <1>2
<1> DEFINE k == KeptHeads(heads)
<1>8. f[n] = k
  BY <1>2
<1> HIDE DEF k
<1>9. All(k) = Upto(n) /\ k \in Seq(Header)
  <2> HIDE DEF All, Upto
  <2>. QED
    BY <1>6, <1>7, <1>8
<1>10. Upto(n) = {h \in {heads[j] : j \in DOMAIN heads} : h.key \in KeptKeys}
  BY <1>1
<1>. QED
  BY <1>9, <1>10 DEF k

\* What a header that is kept says to the reader is what the writer gave it.
LEMMA ValuesKept ==
    ASSUME NEW m, m.heads \in Seq(Header), NEW key \in KeptKeys
    PROVE  Values(AsRead(m), key) =
               {h.value : h \in {x \in {m.heads[j] : j \in DOMAIN m.heads} : x.key = key}}
<1> DEFINE s == m.heads
           k == KeptHeads(s)
           A == {s[j] : j \in DOMAIN s}
<1>1. {k[j] : j \in DOMAIN k} = {h \in A : h.key \in KeptKeys}
  BY KeptOnes
<1>2. AsRead(m).heads = k
  BY DEF AsRead
<1> HIDE DEF k, A, s
<1>3. {k[i] : i \in {j \in DOMAIN k : k[j].key = key}} = {x \in A : x.key = key}
  <2>1. {k[i] : i \in {j \in DOMAIN k : k[j].key = key}} = {x \in {k[j] : j \in DOMAIN k} : x.key = key}
    OBVIOUS
  <2>2. {x \in {h \in A : h.key \in KeptKeys} : x.key = key} = {x \in A : x.key = key}
    OBVIOUS
  <2>. QED
    BY <1>1, <2>1, <2>2
<1>4. Values(AsRead(m), key) = {h.value : h \in {x \in A : x.key = key}}
  BY <1>2, <1>3 DEF Values
<1>. QED
  BY <1>4 DEF A, s

Members(s) == {s[j] : j \in DOMAIN s}

\* Headers that may be written, one list after the other.
LEMMA JoinedHeads ==
    ASSUME NEW a, FineHeads(a), NEW b, FineHeads(b)
    PROVE  FineHeads(a \o b) /\ Members(a \o b) = Members(a) \cup Members(b)
<1> DEFINE c == a \o b
<1>1. a \in Seq(Header) /\ b \in Seq(Header)
  BY DEF FineHeads
<1>2. /\ c \in Seq(Header) /\ Len(c) = Len(a) + Len(b)
      /\ \A i \in 1 .. Len(a) : c[i] = a[i]
      /\ \A i \in 1 .. Len(b) : c[Len(a) + i] = b[i]
  BY <1>1, ConcatProperties
<1> HIDE DEF c
<1>3. /\ Len(a) \in Nat /\ DOMAIN a = 1 .. Len(a) /\ Len(b) \in Nat /\ DOMAIN b = 1 .. Len(b)
      /\ Len(c) \in Nat /\ DOMAIN c = 1 .. Len(c)
  BY <1>1, <1>2
<1>4. ASSUME NEW i \in 1 .. Len(c) PROVE c[i] \in Members(a) \cup Members(b)
  <2>1. CASE i <= Len(a)
    <3>1. i \in 1 .. Len(a)
      BY <1>3, <2>1
    <3>. QED
      BY <1>2, <1>3, <3>1 DEF Members
  <2>2. CASE i > Len(a)
    <3> DEFINE j == i - Len(a)
    <3>1. j \in 1 .. Len(b) /\ Len(a) + j = i
      BY <1>2, <1>3, <2>2
    <3> HIDE DEF j
    <3>2. c[i] = b[j]
      BY <1>2, <3>1
    <3>. QED
      BY <1>3, <3>1, <3>2 DEF Members
  <2>. QED
    BY <1>3, <2>1, <2>2
<1>5. Members(a) \subseteq Members(c)
  <2>1. ASSUME NEW i \in 1 .. Len(a) PROVE a[i] \in Members(c)
    <3>1. i \in 1 .. Len(c) /\ c[i] = a[i]
      BY <1>2, <1>3
    <3>. QED
      BY <1>3, <3>1 DEF Members
  <2>. QED
    BY <1>3, <2>1 DEF Members
<1>6. Members(b) \subseteq Members(c)
  <2>1. ASSUME NEW i \in 1 .. Len(b) PROVE b[i] \in Members(c)
    <3>1. Len(a) + i \in 1 .. Len(c) /\ c[Len(a) + i] = b[i]
      BY <1>2, <1>3
    <3>. QED
      BY <1>3, <3>1 DEF Members
  <2>. QED
    BY <1>3, <2>1 DEF Members
<1>7. Members(c) = Members(a) \cup Members(b)
  <2>1. Members(c) \subseteq Members(a) \cup Members(b)
    BY <1>3, <1>4 DEF Members
  <2>. QED
    BY <1>5, <1>6, <2>1
<1>8. \A x \in Members(a) \cup Members(b) : Fine(x) /\ x.key \notin Counted
  BY <1>3 DEF FineHeads, Members
<1>9. \A i \in 1 .. Len(c) : Fine(c[i]) /\ c[i].key \notin Counted
  BY <1>4, <1>8
<1>. QED
  BY <1>2, <1>7, <1>9 DEF FineHeads, c

LEMMA NoHeads == FineHeads(<<>>) /\ Members(<<>>) = {}
<1>1. <<>> \in Seq(Header) /\ Len(<<>>) = 0
  OBVIOUS
<1>. QED
  BY <1>1 DEF FineHeads, Members

LEMMA OneHead ==
    ASSUME NEW key, FineKey(key), key \notin Counted, NEW value, FineValue(value)
    PROVE  /\ FineHeads(Head1(key, value))
           /\ Members(Head1(key, value)) = {[key |-> key, value |-> value]}
<1> DEFINE h == [key |-> key, value |-> value]
           s == <<h>>
<1>1. key \in Token /\ value \in Text
  BY DEF FineKey, FineValue
<1>2. h \in Header /\ h.key = key /\ h.value = value
  BY <1>1 DEF Header
<1>3. Fine(h)
  BY <1>2 DEF Fine
<1>4. h.key \notin Counted
  BY <1>2
<1> HIDE DEF h
<1>5. s \in Seq(Header) /\ Len(s) = 1 /\ s[1] = h /\ DOMAIN s = {1}
  BY <1>2
<1>6. Head1(key, value) = s
  BY DEF Head1, h
<1> HIDE DEF s
<1>7. FineHeads(s) /\ Members(s) = {h}
  BY <1>3, <1>4, <1>5 DEF FineHeads, Members
<1>. QED
  BY <1>6, <1>7 DEF h

Granted == <<SessionId, ";timeout=", Numeral[9]>>

LEMMA OwnKeys ==
    \A k \in {"Session", "Transport", "Accept", "Public", "Content-Type"} :
        FineKey(k) /\ k \notin Counted
<1>1. {"Session", "Transport", "Accept", "Public", "Content-Type"} \subseteq Token
  BY WordsAssumption
<1>. QED
  BY <1>1 DEF FineKey, CR, LF, Colon, Counted

LEMMA OneWord ==
    ASSUME NEW v \in Token \ {SP, CR}
    PROVE  FineValue(<<v>>)
<1> DEFINE s == <<v>>
<1>1. s \in Seq(Token) /\ s # <<>> /\ Len(s) = 1 /\ s[1] = v
  OBVIOUS
<1> HIDE DEF s
<1>2. \A i \in 1 .. Len(s) : s[i] # CR
  BY <1>1
<1>3. FineValue(s)
  BY <1>1, <1>2 DEF FineValue, Text
<1>. QED
  BY <1>3 DEF s

LEMMA ThreeWords ==
    ASSUME NEW a \in Token \ {SP, CR}, NEW b \in Token \ {SP, CR}, NEW c \in Token \ {SP, CR}
    PROVE  FineValue(<<a, b, c>>)
<1> DEFINE s == <<a, b, c>>
<1>1. s \in Seq(Token) /\ s # <<>> /\ Len(s) = 3 /\ s[1] = a /\ s[2] = b /\ s[3] = c
  OBVIOUS
<1> HIDE DEF s
<1>2. \A i \in 1 .. Len(s) : s[i] \notin {SP, CR}
  BY <1>1
<1>3. s[1] # SP /\ \A i \in 1 .. Len(s) : s[i] # CR
  BY <1>1, <1>2
<1>4. FineValue(s)
  BY <1>1, <1>3 DEF FineValue, Text
<1>. QED
  BY <1>4 DEF s

\* The headers and the bodies of the users of RtspExchange may be written.
LEMMA OwnValues ==
    /\ \A v \in {SessionId, "RTP/AVP", "application/sdp", "OPTIONS"} : FineValue(<<v>>)
    /\ FineValue(Granted)
<1>1. {SessionId, "RTP/AVP", "application/sdp", "OPTIONS", ";timeout="} \subseteq Token
  BY WordsAssumption, TokenAssumption DEF Methods
<1>2. {SessionId, "RTP/AVP", "application/sdp", "OPTIONS", ";timeout="} \subseteq Token \ {SP, CR}
  BY <1>1 DEF SP, CR, SessionId
<1>3. 9 \in Numbers
  BY BoundsAssumption
<1>4. Numeral[9] \in Token \ {SP, CR}
  BY <1>3, OwnWords
<1>5. FineValue(<<SessionId, ";timeout=", Numeral[9]>>)
  BY <1>2, <1>4, ThreeWords
<1>. QED
  BY <1>2, <1>5, OneWord DEF Granted

LEMMA BodyFine == FineBody(BodyText) /\ FineBody(<<>>)
<1> DEFINE b == <<"v=0", LF>>
<1>1. {"v=0", LF} \subseteq Token
  BY WordsAssumption, TokenAssumption DEF Separators
<1>2. b \in Text /\ Len(b) = 2 /\ b[1] = "v=0"
  BY <1>1 DEF Text
<1>3. 2 \in Numbers
  BY BoundsAssumption
<1>4. BodyText = b
  BY DEF BodyText
<1>5. "v=0" # LF
  BY DEF LF
<1> HIDE DEF b
<1>6. FineBody(b)
  BY <1>2, <1>3, <1>5 DEF FineBody
<1>7. <<>> \in Text /\ Len(<<>>) = 0
  BY DEF Text
<1>8. FineBody(<<>>)
  BY <1>7 DEF FineBody
<1>. QED
  BY <1>4, <1>6, <1>8

\* What the client's user asks for, and what the server's user answers.
LEMMA AskedFine ==
    ASSUME NEW method \in Methods
    PROVE  /\ FineHeads(AskedHeads(method)) /\ FineBody(AskedBody(method))
           /\ \A h \in Members(AskedHeads(method)) : h.key # "Session"
<1>1. FineBody(AskedBody(method))
  BY BodyFine DEF AskedBody
<1>2. CASE method = "SETUP"
  <2>1. AskedHeads(method) = Head1("Transport", <<"RTP/AVP">>)
    BY <1>2 DEF AskedHeads
  <2> DEFINE v == <<"RTP/AVP">>
  <2>2. FineKey("Transport") /\ "Transport" \notin Counted /\ FineValue(v)
    BY OwnKeys, OwnValues
  <2> HIDE DEF v
  <2>3. FineHeads(Head1("Transport", v)) /\ Members(Head1("Transport", v)) = {[key |-> "Transport", value |-> v]}
    BY <2>2, OneHead
  <2>. QED
    BY <1>1, <2>1, <2>3 DEF v
<1>3. CASE method = "DESCRIBE"
  <2>1. AskedHeads(method) = Head1("Accept", <<"application/sdp">>)
    BY <1>3 DEF AskedHeads
  <2> DEFINE v == <<"application/sdp">>
  <2>2. FineKey("Accept") /\ "Accept" \notin Counted /\ FineValue(v)
    BY OwnKeys, OwnValues
  <2> HIDE DEF v
  <2>3. FineHeads(Head1("Accept", v)) /\ Members(Head1("Accept", v)) = {[key |-> "Accept", value |-> v]}
    BY <2>2, OneHead
  <2>. QED
    BY <1>1, <2>1, <2>3 DEF v
<1>4. CASE method \notin {"SETUP", "DESCRIBE"}
  <2>1. AskedHeads(method) = <<>>
    BY <1>4 DEF AskedHeads
  <2>. QED
    BY <1>1, <2>1, NoHeads
<1>. QED
  BY <1>2, <1>3, <1>4

LEMMA AnswerFine ==
    ASSUME NEW method \in Methods
    PROVE  /\ FineHeads(AnswerHeads(method)) /\ FineBody(AnswerBody(method))
           /\ \A h \in Members(AnswerHeads(method)) : h.key = "Session" => h.value = Granted
           /\ method = "SETUP" =>
                  \E h \in Members(AnswerHeads(method)) : h.key = "Session" /\ h.value = Granted
           /\ method # "SETUP" => \A h \in Members(AnswerHeads(method)) : h.key # "Session"
<1>1. FineBody(AnswerBody(method))
  BY BodyFine DEF AnswerBody
<1>2. CASE method = "SETUP"
  <2> DEFINE v == <<"RTP/AVP">>
             a == Head1("Session", Granted)
             b == Head1("Transport", v)
  <2>1. AnswerHeads(method) = a \o b
    BY <1>2 DEF AnswerHeads, Granted
  <2>2. FineKey("Session") /\ "Session" \notin Counted /\ FineValue(Granted)
    BY OwnKeys, OwnValues
  <2>3. FineKey("Transport") /\ "Transport" \notin Counted /\ FineValue(v)
    BY OwnKeys, OwnValues
  <2> HIDE DEF v
  <2>4. FineHeads(a) /\ Members(a) = {[key |-> "Session", value |-> Granted]}
    BY <2>2, OneHead
  <2>5. FineHeads(b) /\ Members(b) = {[key |-> "Transport", value |-> v]}
    BY <2>3, OneHead
  <2> HIDE DEF a, b
  <2>6. FineHeads(a \o b) /\ Members(a \o b) = Members(a) \cup Members(b)
    BY <2>4, <2>5, JoinedHeads
  <2> DEFINE g == [key |-> "Session", value |-> Granted]
             w == [key |-> "Transport", value |-> v]
  <2>7. Members(AnswerHeads(method)) = {g, w} /\ FineHeads(AnswerHeads(method))
    BY <2>1, <2>4, <2>5, <2>6
  <2>8. g.key = "Session" /\ g.value = Granted /\ w.key # "Session"
    OBVIOUS
  <2> HIDE DEF Granted, g, w
  <2>. QED
    BY <1>1, <1>2, <2>7, <2>8
<1>3. CASE method = "DESCRIBE"
  <2> DEFINE v == <<"application/sdp">>
  <2>1. AnswerHeads(method) = Head1("Content-Type", v)
    BY <1>3 DEF AnswerHeads
  <2>2. FineKey("Content-Type") /\ "Content-Type" \notin Counted /\ FineValue(v)
    BY OwnKeys, OwnValues
  <2> HIDE DEF v
  <2>3. /\ FineHeads(Head1("Content-Type", v))
        /\ Members(Head1("Content-Type", v)) = {[key |-> "Content-Type", value |-> v]}
    BY <2>2, OneHead
  <2>. QED
    BY <1>1, <1>3, <2>1, <2>3
<1>4. CASE method = "OPTIONS"
  <2> DEFINE v == <<"OPTIONS">>
  <2>1. AnswerHeads(method) = Head1("Public", v)
    BY <1>4 DEF AnswerHeads
  <2>2. FineKey("Public") /\ "Public" \notin Counted /\ FineValue(v)
    BY OwnKeys, OwnValues
  <2> HIDE DEF v
  <2>3. FineHeads(Head1("Public", v)) /\ Members(Head1("Public", v)) = {[key |-> "Public", value |-> v]}
    BY <2>2, OneHead
  <2>. QED
    BY <1>1, <1>4, <2>1, <2>3
<1>5. CASE method \notin {"SETUP", "DESCRIBE", "OPTIONS"}
  <2>1. AnswerHeads(method) = <<>>
    BY <1>5 DEF AnswerHeads
  <2>. QED
    BY <1>1, <1>5, <2>1, NoHeads
<1>. QED
  BY <1>2, <1>3, <1>4, <1>5

\* The Session headers of a message survive the reading.
LEMMA SessionsKept ==
    ASSUME NEW m, m.heads \in Seq(Header)
    PROVE  Values(AsRead(m), "Session") =
               {h.value : h \in {x \in Members(m.heads) : x.key = "Session"}}
<1>1. "Session" \in KeptKeys
  BY DEF KeptKeys, ShortHeads, Counted
<1>. QED
  BY <1>1, ValuesKept DEF Members

\* A request of the client's user is one that is read as it is written, and a
\* request of a session carries the session's id.
LEMMA RequestForFine ==
    ASSUME NEW method \in Methods, request.cseq + 1 \in Numbers,
           request.sessionId \in {None, SessionId},
           NEW m, m = RequestFor(method, AskedHeads(method), AskedBody(method))
    PROVE  /\ FineRequest(m)
           /\ AsRead(m).method = method /\ AsRead(m).cseq = request.cseq + 1
           /\ method \notin Plain /\ request.sessionId # None =>
                  Values(AsRead(m), "Session") = {<<SessionId>>}
<1> DEFINE own == Head1("Session", <<SessionId>>)
           given == AskedHeads(method)
           body == AskedBody(method)
           n == request.cseq + 1
           carried == method \notin Plain /\ request.sessionId # None
<1>1. FineHeads(given) /\ FineBody(body) /\ \A h \in Members(given) : h.key # "Session"
  BY AskedFine
<1>2. FineHeads(own) /\ Members(own) = {[key |-> "Session", value |-> <<SessionId>>]}
  <2> DEFINE v == <<SessionId>>
  <2>1. FineKey("Session") /\ "Session" \notin Counted /\ FineValue(v)
    BY OwnKeys, OwnValues
  <2> HIDE DEF v
  <2>2. FineHeads(Head1("Session", v)) /\ Members(Head1("Session", v)) = {[key |-> "Session", value |-> v]}
    BY <2>1, OneHead
  <2>. QED
    BY <2>2 DEF v
<1> DEFINE hs == IF carried THEN own \o given ELSE given
<1>3. m = [method |-> method, code |-> 0, cseq |-> n, body |-> body, heads |-> hs]
  BY DEF RequestFor, Head1
<1> HIDE DEF own, given, body, n
<1>4. FineHeads(own \o given) /\ Members(own \o given) = Members(own) \cup Members(given)
  BY <1>1, <1>2, JoinedHeads
<1>5. FineHeads(hs) /\ (carried => hs = own \o given)
  BY <1>1, <1>4
<1> HIDE DEF hs, carried
<1>6. m.method = method /\ m.code = 0 /\ m.cseq = n /\ m.body = body /\ m.heads = hs
  BY <1>3
<1>7. n \in Numbers
  BY DEF n
<1>8. FineRequest(m)
  BY <1>1, <1>5, <1>6, <1>7 DEF FineRequest, FineMessage
<1>9. AsRead(m).method = method /\ AsRead(m).cseq = n
  BY <1>6 DEF AsRead
<1>10. ASSUME carried PROVE Values(AsRead(m), "Session") = {<<SessionId>>}
  <2>1. m.heads \in Seq(Header) /\ m.heads = own \o given
    BY <1>5, <1>6, <1>10 DEF FineHeads
  <2>2. Values(AsRead(m), "Session") = {h.value : h \in {x \in Members(m.heads) : x.key = "Session"}}
    BY <2>1, SessionsKept
  <2> DEFINE v == <<SessionId>>
             s == [key |-> "Session", value |-> v]
  <2>3. Members(m.heads) = {s} \cup Members(given)
    BY <1>2, <1>4, <2>1
  <2>4. s.key = "Session" /\ s.value = v
    OBVIOUS
  <2> HIDE DEF s, v
  <2>5. {x \in Members(m.heads) : x.key = "Session"} = {s}
    BY <1>1, <2>3, <2>4
  <2>6. {h.value : h \in {s}} = {v}
    BY <2>4
  <2>. QED
    BY <2>2, <2>5, <2>6 DEF v
<1>. QED
  BY <1>8, <1>9, <1>10 DEF n, carried

\* The elements of a sequence of two.
LEMMA ElementsOfTwo ==
    ASSUME NEW S, NEW s \in Seq(S), Len(s) = 2
    PROVE  s[1] \in S /\ s[2] \in S
<1>1. \A i \in 1 .. 2 : s[i] \in S
  OBVIOUS
<1>2. 1 \in 1 .. 2 /\ 2 \in 1 .. 2
  OBVIOUS
<1>. QED
  BY <1>1, <1>2, Zenon

\* The headers of SETUP's answer as they are read: the newest comes first.
LEMMA SetupKept ==
    LET k == KeptHeads(AnswerHeads("SETUP"))
    IN DOMAIN k = 1 .. 2 /\ Len(k) = 2 /\ k[1].key # "Session" /\ k[2].key = "Session"
<1> DEFINE h1 == [key |-> "Session", value |-> Granted]
           h2 == [key |-> "Transport", value |-> <<"RTP/AVP">>]
           s == AnswerHeads("SETUP")
           k == KeptHeads(s)
           none == <<>>
<1>1. s = <<h1>> \o <<h2>>
  BY DEF AnswerHeads, Head1, Granted
<1>2. s \in Seq(Header)
  <2>1. FineHeads(s)
    BY AnswerFine DEF Methods
  <2>. QED
    BY <2>1 DEF FineHeads
<1>3. h1.key = "Session" /\ h2.key = "Transport"
  OBVIOUS
<1>4. h1.key \in KeptKeys /\ h2.key \in KeptKeys
  BY <1>3 DEF KeptKeys, ShortHeads, LongHeads, Counted
<1> HIDE DEF h1, h2, s
<1>5. Len(s) = 2 /\ s[1] = h1 /\ s[2] = h2
  BY <1>1
<1>6. k = <<h2>> \o <<h1>>
  <2>1. PICK f \in [0 .. Len(s) -> Seq(Header)] :
            /\ f[0] = <<>> /\ f[Len(s)] = k
            /\ \A i \in 1 .. Len(s) :
                   f[i] = IF s[i].key \in KeptKeys THEN <<s[i]>> \o f[i - 1]
                                                   ELSE f[i - 1]
    BY <1>2, KeptSteps, Zenon
  <2> HIDE DEF k
  <2>2. 1 \in 1 .. 2 /\ 2 \in 1 .. 2 /\ 1 - 1 = 0 /\ 2 - 1 = 1
    OBVIOUS
  <2>3. f[1] = <<h1>> \o f[0] /\ f[2] = <<h2>> \o f[1] /\ k = f[2]
    BY <1>4, <1>5, <2>1, <2>2
  <2>4. <<h1>> \o <<>> = <<h1>>
    OBVIOUS
  <2>5. f[1] = <<h1>>
    BY <2>1, <2>3, <2>4
  <2>. QED
    BY <2>3, <2>5
<1>7. h1 \in Header /\ h2 \in Header
  BY <1>2, <1>5, ElementsOfTwo
<1> HIDE DEF k
<1>8. DOMAIN k = 1 .. 2 /\ Len(k) = 2 /\ k[1] = h2 /\ k[2] = h1
  <2>1. k \in Seq(Header) /\ Len(k) = 2
    BY <1>6, <1>7
  <2>2. DOMAIN k = 1 .. 2
    BY <2>1
  <2> DEFINE w == <<h2>> \o <<h1>>
  <2>3. w[1] = h2 /\ w[2] = h1
    OBVIOUS
  <2>4. k = w
    BY <1>6
  <2> HIDE DEF w
  <2>. QED
    BY <2>1, <2>2, <2>3, <2>4
<1>9. DOMAIN k = 1 .. 2 /\ Len(k) = 2 /\ k[1].key # "Session" /\ k[2].key = "Session"
  BY <1>3, <1>8
<1>. QED
  BY <1>9 DEF k, s

\* So is a response of the server's user, and it names no session but the one.
LEMMA AnswerForFine ==
    ASSUME NEW method \in Methods, NEW n \in Numbers,
           NEW m, m = [method |-> "NONE", code |-> 200, cseq |-> n,
                       heads |-> AnswerHeads(method), body |-> AnswerBody(method)]
    PROVE  /\ FineResponse(m) /\ AsRead(m).cseq = n
           /\ Values(AsRead(m), "Session") \subseteq {Granted}
           /\ method = "SETUP" => Values(AsRead(m), "Session") = {Granted}
           /\ IF method = "SETUP" THEN SessionHeads(AsRead(m)) = {2}
                                  ELSE SessionHeads(AsRead(m)) = {}
<1> DEFINE hs == AnswerHeads(method)
           body == AnswerBody(method)
<1>1. /\ FineHeads(hs) /\ FineBody(body)
      /\ \A h \in Members(hs) : h.key = "Session" => h.value = Granted
      /\ method = "SETUP" => \E h \in Members(hs) : h.key = "Session" /\ h.value = Granted
      /\ method # "SETUP" => \A h \in Members(hs) : h.key # "Session"
  BY AnswerFine
<1> HIDE DEF hs, body
<1>2. m = [method |-> "NONE", code |-> 200, cseq |-> n, heads |-> hs, body |-> body]
  BY DEF hs, body
<1>3. m.method = "NONE" /\ m.code = 200 /\ m.cseq = n /\ m.body = body /\ m.heads = hs
  BY <1>2
<1>4. 200 \in Numbers
  BY BoundsAssumption
<1>5. FineResponse(m)
  BY <1>1, <1>3, <1>4 DEF FineResponse, FineMessage
<1>6. AsRead(m).cseq = n
  BY <1>3 DEF AsRead
<1>7. m.heads \in Seq(Header)
  BY <1>1, <1>3 DEF FineHeads
<1>8. Values(AsRead(m), "Session") = {h.value : h \in {x \in Members(m.heads) : x.key = "Session"}}
  BY <1>7, SessionsKept
<1> HIDE DEF Granted
<1>9. Values(AsRead(m), "Session") \subseteq {Granted}
  BY <1>1, <1>3, <1>8
<1>10. ASSUME method = "SETUP" PROVE Granted \in Values(AsRead(m), "Session")
  <2>1. PICK h \in Members(m.heads) : h.key = "Session" /\ h.value = Granted
    BY <1>1, <1>3, <1>10
  <2>. QED
    BY <1>8, <2>1
<1>11. ASSUME method = "SETUP" PROVE SessionHeads(AsRead(m)) = {2}
  <2>1. AsRead(m).heads = KeptHeads(AnswerHeads("SETUP"))
    BY <1>3, <1>11 DEF AsRead, hs
  <2>2. Len(AsRead(m).heads) = 2 /\ AsRead(m).heads[1].key # "Session"
        /\ AsRead(m).heads[2].key = "Session" /\ DOMAIN AsRead(m).heads = 1 .. 2
    BY <2>1, SetupKept
  <2>. QED
    BY <2>2 DEF SessionHeads
<1>12. ASSUME method # "SETUP" PROVE SessionHeads(AsRead(m)) = {}
  <2>1. Values(AsRead(m), "Session") = {}
    BY <1>1, <1>3, <1>8, <1>12
  <2>. QED
    BY <2>1 DEF Values, SessionHeads
<1>. QED
  BY <1>5, <1>6, <1>9, <1>10, <1>11, <1>12

-----------------------------------------------------------------------------
(***************************************************************************)
(* The invariant of the two directions.                                    *)
(***************************************************************************)
Asked == [method : Methods, cseq : 0 .. MaxRequests]

SessionTyped ==
    /\ session \in [mem : {"unused", "live", "freed"}, isAlive : BOOLEAN, isInHandler : BOOLEAN,
                    request : {session.request}]
    /\ session.isAlive => session.mem = "live"

RequestTyped ==
    /\ request \in [mem : {"live", "freed"}, isAlive : BOOLEAN, isInHandler : BOOLEAN,
                    cseq : 0 .. MaxRequests, current : Methods \cup {"NONE"},
                    serverMethods : BOOLEAN, sessionId : {None, SessionId},
                    timeout : {request.timeout}, response : {request.response}]
    /\ request.isAlive => request.mem = "live"

\* A text that is no request, or no response, is never met.
Typed ==
    /\ clientEnd \in Ends /\ serverEnd \in Ends \ {"connecting"}
    /\ listening \in BOOLEAN
    /\ serverPc \in {"idle", "ondata", "request", "onclose"}
    /\ clientPc \in {"idle", "ondata", "onconnected", "response", "onclose"}
    /\ SessionTyped /\ RequestTyped
    /\ owed \in Asked \cup {None}

Texts == /\ up \in Text /\ down \in Text /\ inbox \in Text /\ outbox \in Text
         /\ upward \in Seq(Sendable) /\ downward \in Seq(Sendable)

\* What the users put into requests and responses.
Requests(sent) == \A i \in 1 .. Len(sent) :
    sent[i] # Frame => sent[i].method \in Methods /\ sent[i].cseq \in 0 .. MaxRequests
Responses(sent) == \A i \in 1 .. Len(sent) :
    sent[i] # Frame => Values(sent[i], "Session") \subseteq {Granted}
Told == Requests(upward) /\ Responses(downward)

Control ==
    /\ session.isInHandler <=> InHandler
    /\ request.isInHandler <=> InClientHandler
    /\ serverEnd = "closed" => serverPc \in {"idle", "onclose"}
    /\ clientEnd = "closed" => clientPc \in {"idle", "onclose", "onconnected"}
    /\ inbox # <<>> => inbox[Len(inbox)] \notin {CR, Colon}

\* As long as the client has no open connection, nothing has been sent up, and
\* as long as it has not reached the server, nothing down.
NewEnds == {"none", "connecting", "established", "refused"}
Quiet ==
    /\ clientEnd \in NewEnds =>
           /\ up = <<>> /\ inbox = <<>> /\ outbox = <<>> /\ upward = <<>>
           /\ serverPc = "idle" /\ session.request = NewDecoder
           /\ serverEnd \notin {"refused", "closing"}
           /\ clientPc \in {"idle", "onconnected"}
    /\ clientEnd \in {"none", "connecting"} => down = <<>> /\ downward = <<>>
    /\ clientEnd \in {"none", "connecting", "refused"} => serverEnd \in {"none", "closed"}
    /\ serverEnd = "none" => /\ clientEnd \in {"none", "connecting", "refused", "closed"}
                             /\ upward = <<>> /\ up = <<>> /\ inbox = <<>>

UpFlow == serverEnd # "closed" =>
    Flow("request", inbox, up, upward, clientEnd, serverPc, session.request)
\* The response as it was read: the handler is given it with the Session value cut.
Taken == Decode("response", NewDecoder, outbox)
DownFlow == clientEnd # "closed" =>
    /\ Flow("response", outbox, down, downward, serverEnd, clientPc,
            IF clientPc = "response" THEN Taken ELSE NewDecoder)
    /\ clientPc = "response" => request.response.offset = Taken.offset

Invariant == Typed /\ Texts /\ Told /\ Control /\ Quiet /\ UpFlow /\ DownFlow

\* The constants of the runs: no piece ends where the decoder cannot resume.
Tame == CutAnywhere = FALSE

-----------------------------------------------------------------------------
LEMMA NothingTold == Requests(<<>>) /\ Responses(<<>>)
BY DEF Requests, Responses

\* One more is sent, and one is handed over.
LEMMA RequestsMore ==
    ASSUME NEW sent \in Seq(Sendable), Requests(sent), NEW item \in Sendable,
           item # Frame => item.method \in Methods /\ item.cseq \in 0 .. MaxRequests
    PROVE  Append(sent, item) \in Seq(Sendable) /\ Requests(Append(sent, item))
<1> DEFINE w == Append(sent, item)
<1>1. /\ w \in Seq(Sendable) /\ Len(w) = Len(sent) + 1 /\ w[Len(sent) + 1] = item
      /\ \A i \in 1 .. Len(sent) : w[i] = sent[i]
  OBVIOUS
<1>2. Len(sent) \in Nat
  OBVIOUS
<1> HIDE DEF w
<1>3. \A i \in 1 .. Len(w) : i \in 1 .. Len(sent) \/ i = Len(sent) + 1
  BY <1>1, <1>2
<1>4. Requests(w)
  BY <1>1, <1>3 DEF Requests
<1>. QED
  BY <1>1, <1>4 DEF w

LEMMA ResponsesMore ==
    ASSUME NEW sent \in Seq(Sendable), Responses(sent), NEW item \in Sendable,
           item # Frame => Values(item, "Session") \subseteq {Granted}
    PROVE  Append(sent, item) \in Seq(Sendable) /\ Responses(Append(sent, item))
<1> DEFINE w == Append(sent, item)
<1>1. /\ w \in Seq(Sendable) /\ Len(w) = Len(sent) + 1 /\ w[Len(sent) + 1] = item
      /\ \A i \in 1 .. Len(sent) : w[i] = sent[i]
  OBVIOUS
<1>2. Len(sent) \in Nat
  OBVIOUS
<1> HIDE DEF w
<1>3. \A i \in 1 .. Len(w) : i \in 1 .. Len(sent) \/ i = Len(sent) + 1
  BY <1>1, <1>2
<1>4. Responses(w)
  BY <1>1, <1>3 DEF Responses
<1>. QED
  BY <1>1, <1>4 DEF w

LEMMA ToldRest ==
    ASSUME NEW sent \in Seq(Sendable), sent # <<>>
    PROVE  /\ Rest(sent) = Tail(sent) /\ Tail(sent) \in Seq(Sendable)
           /\ Requests(sent) => Requests(Tail(sent))
           /\ Responses(sent) => Responses(Tail(sent))
<1> DEFINE w == Tail(sent)
<1>1. w \in Seq(Sendable) /\ Len(w) = Len(sent) - 1 /\ \A i \in 1 .. Len(w) : w[i] = sent[i + 1]
  BY HeadTailProperties
<1>2. Len(sent) \in Nat /\ Len(sent) >= 1
  OBVIOUS
<1>3. Rest(sent) = w
  BY DEF Rest
<1> HIDE DEF w
<1>4. \A i \in 1 .. Len(w) : i + 1 \in 1 .. Len(sent)
  BY <1>1, <1>2
<1>5. Requests(sent) => Requests(w)
  BY <1>1, <1>4 DEF Requests
<1>6. Responses(sent) => Responses(w)
  BY <1>1, <1>4 DEF Responses
<1>. QED
  BY <1>1, <1>3, <1>5, <1>6 DEF w

\* The invariant holds of the first state.
LEMMA InvariantInit == Init => Invariant
<1> SUFFICES ASSUME Init PROVE Invariant
  OBVIOUS
<1>1. /\ up = <<>> /\ down = <<>> /\ clientEnd = "none" /\ serverEnd = "none"
      /\ listening = FALSE /\ session = NoSession /\ inbox = <<>> /\ serverPc = "idle"
      /\ request = NewRequest /\ outbox = <<>> /\ clientPc = "idle"
      /\ upward = <<>> /\ downward = <<>> /\ owed = None
  BY DEF Init, StreamInit, SessionInit, RequestInit
<1>2. /\ session.request = NewDecoder /\ session.mem = "unused" /\ session.isAlive = FALSE
      /\ session.isInHandler = FALSE /\ SessionTyped
  BY <1>1 DEF NoSession, SessionTyped
<1>3. request.isInHandler = FALSE /\ RequestTyped
  <2>1. MaxRequests \in Nat
    BY BoundsAssumption
  <2>2. request.isInHandler = FALSE
    BY <1>1 DEF NewRequest
  <2>. QED
    BY <1>1, <2>1, <2>2 DEF NewRequest, RequestTyped
<1>4. Typed
  BY <1>1, <1>2, <1>3 DEF Typed, Ends
<1>5. Texts
  <2>1. <<>> \in Text /\ <<>> \in Seq(Sendable)
    BY DEF Text
  <2>. QED
    BY <1>1, <2>1 DEF Texts
<1>6. Told
  BY <1>1, NothingTold DEF Told
<1>7. Control
  BY <1>1, <1>2, <1>3 DEF Control, InHandler, InClientHandler
<1>8. Quiet
  BY <1>1, <1>2 DEF Quiet, NewEnds
<1>9. UpFlow
  BY <1>1, <1>2, FlowNothing DEF UpFlow
<1>10. DownFlow
  BY <1>1, FlowNothing DEF DownFlow
<1>. QED
  BY <1>4, <1>5, <1>6, <1>7, <1>8, <1>9, <1>10 DEF Invariant

-----------------------------------------------------------------------------
(***************************************************************************)
(* The users' steps.                                                       *)
(***************************************************************************)
LEMMA SentUp ==
    ASSUME Invariant, NEW t, NEW item, Item("request", t, item),
           item # Frame => item.method \in Methods /\ item.cseq \in 0 .. MaxRequests,
           clientEnd \in {"open", "closing", "closed"},
           SendUp(t), upward' = Noted(upward, item, up, up'),
           inbox' = inbox, serverPc' = serverPc, session' = session,
           clientEnd' = clientEnd, serverEnd' = serverEnd
    PROVE  up' \in Text /\ upward' \in Seq(Sendable) /\ Requests(upward)' /\ UpFlow'
           /\ (serverEnd # "none" \/ (up' = up /\ upward' = upward))
<1>1. up \in Text /\ upward \in Seq(Sendable) /\ Requests(upward) /\ UpFlow /\ Quiet
  BY DEF Invariant, Texts, Told
<1>2. t \in Text /\ item \in Sendable
  BY DEF Item
<1>3. CASE clientEnd = "open" /\ serverEnd # "closed"
  <2>1. up' = up \o t
    BY <1>3 DEF SendUp
  <2>2. Flow("request", inbox, up, upward, clientEnd, serverPc, session.request)
    BY <1>1, <1>3 DEF UpFlow
  <2>3. clientEnd \notin Gone
    BY <1>3 DEF Gone
  <2>4. /\ up \o t # up
        /\ Flow("request", inbox, up \o t, Append(upward, item), clientEnd, serverPc, session.request)
    BY <2>2, <2>3, FlowSent
  <2>5. upward' = Append(upward, item)
    BY <2>1, <2>4 DEF Noted
  <2>6. UpFlow'
    BY <2>1, <2>4, <2>5 DEF UpFlow
  <2>7. up' \in Text
    BY <1>1, <1>2, <2>1, Concat
  <2>8. upward' \in Seq(Sendable) /\ Requests(upward')
    BY <1>1, <1>2, <2>5, RequestsMore
  <2>9. serverEnd # "none"
    BY <1>1, <1>3 DEF Quiet
  <2>. QED
    BY <2>6, <2>7, <2>8, <2>9 DEF Requests
<1>4. CASE ~(clientEnd = "open" /\ serverEnd # "closed")
  <2>1. up' = up
    BY <1>4 DEF SendUp
  <2>2. upward' = upward
    BY <2>1 DEF Noted
  <2>. QED
    BY <1>1, <2>1, <2>2 DEF UpFlow, Requests
<1>. QED
  BY <1>3, <1>4

\* The client's user asks, or sends a frame.
LEMMA StepAsk ==
    ASSUME Invariant, NEW method \in Callable, Ask(method)
    PROVE  Invariant'
<1> DEFINE m == RequestFor(method, AskedHeads(method), AskedBody(method))
<1>1. /\ request.cseq < MaxRequests
      /\ clientEnd \in {"open", "closing", "closed"}
      /\ request' = [request EXCEPT !.cseq = @ + 1, !.current = method]
      /\ SendUp(RequestText(m))
      /\ upward' = Noted(upward, AsRead(m), up, up')
      /\ UNCHANGED <<listening, session, inbox, serverPc, downward, owed>>
      /\ UNCHANGED <<outbox, clientPc, down, clientEnd, serverEnd>>
  BY DEF Ask, Call, sessionVars
<1>2. Typed /\ Texts /\ Told /\ Control /\ Quiet /\ UpFlow /\ DownFlow
  BY DEF Invariant
<1>3. method \in Methods /\ MaxRequests \in Nat /\ 0 .. MaxRequests \subseteq Numbers
  BY BoundsAssumption
<1>4. RequestTyped /\ request.cseq \in 0 .. MaxRequests /\ request.sessionId \in {None, SessionId}
  BY <1>2 DEF Typed, RequestTyped
<1>5. request.cseq + 1 \in 0 .. MaxRequests
  BY <1>1, <1>3, <1>4
<1>6. /\ FineRequest(m) /\ AsRead(m).method = method /\ AsRead(m).cseq = request.cseq + 1
  <2>1. request.cseq + 1 \in Numbers
    BY <1>3, <1>5
  <2>. QED
    BY <1>3, <1>4, <2>1, RequestForFine
<1> DEFINE t == RequestText(m)
           item == AsRead(m)
<1>7. Item("request", t, item)
  <2> HIDE DEF m
  <2>. QED
    BY <1>6, RequestItem
<1>8. /\ item # Frame => item.method \in Methods /\ item.cseq \in 0 .. MaxRequests
  BY <1>3, <1>5, <1>6
<1> HIDE DEF t, item, m
<1>9. /\ up' \in Text /\ upward' \in Seq(Sendable) /\ Requests(upward)' /\ UpFlow'
      /\ (serverEnd # "none" \/ (up' = up /\ upward' = upward))
  <2>1. SendUp(t) /\ upward' = Noted(upward, item, up, up')
    BY <1>1 DEF t, item
  <2>. QED
    BY <1>1, <1>7, <1>8, <2>1, SentUp
<1>10. RequestTyped'
  BY <1>1, <1>3, <1>4, <1>5 DEF RequestTyped
<1>11. Typed'
  BY <1>1, <1>2, <1>10 DEF Typed, SessionTyped
<1>12. Texts'
  BY <1>1, <1>2, <1>9 DEF Texts
<1>13. Told'
  BY <1>1, <1>2, <1>9 DEF Told, Responses, Requests
<1>14. Control'
  <2>1. request'.isInHandler = request.isInHandler
    BY <1>1, <1>4 DEF RequestTyped
  <2>. QED
    BY <1>1, <1>2, <2>1 DEF Control, InHandler, InClientHandler
<1>15. Quiet'
  BY <1>1, <1>2, <1>9 DEF Quiet, NewEnds
<1>16. DownFlow'
  <2>1. request'.response = request.response
    BY <1>1, <1>4 DEF RequestTyped
  <2>. QED
    BY <1>1, <1>2, <2>1 DEF DownFlow, Taken
<1>. QED
  BY <1>9, <1>11, <1>12, <1>13, <1>14, <1>15, <1>16 DEF Invariant

LEMMA StepFrameUp == ASSUME Invariant, FrameUp PROVE Invariant'
<1>1. /\ clientEnd = "open" /\ SendUp(FrameText(Frame))
      /\ upward' = Noted(upward, Frame, up, up')
      /\ UNCHANGED <<listening, session, inbox, serverPc, downward, owed>>
      /\ UNCHANGED <<request, outbox, clientPc, down, clientEnd, serverEnd>>
  BY DEF FrameUp, SendFrameUp, sessionVars, requestVars
<1>2. Typed /\ Texts /\ Told /\ Control /\ Quiet /\ UpFlow /\ DownFlow
  BY DEF Invariant
<1>3. Item("request", FrameText(Frame), Frame)
  BY FrameItem
<1>4. /\ up' \in Text /\ upward' \in Seq(Sendable) /\ Requests(upward)' /\ UpFlow'
      /\ (serverEnd # "none" \/ (up' = up /\ upward' = upward))
  BY <1>1, <1>3, SentUp
<1>5. Typed'
  BY <1>1, <1>2 DEF Typed, SessionTyped, RequestTyped
<1>6. Texts'
  BY <1>1, <1>2, <1>4 DEF Texts
<1>7. Told'
  BY <1>1, <1>2, <1>4 DEF Told, Responses, Requests
<1>8. Control'
  BY <1>1, <1>2 DEF Control, InHandler, InClientHandler
<1>9. Quiet'
  BY <1>1, <1>2, <1>4 DEF Quiet, NewEnds
<1>10. DownFlow'
  BY <1>1, <1>2 DEF DownFlow, Taken
<1>. QED
  BY <1>4, <1>5, <1>6, <1>7, <1>8, <1>9, <1>10 DEF Invariant

\* An item is sent down.
LEMMA SentDown ==
    ASSUME Invariant, NEW t, NEW item, Item("response", t, item),
           item # Frame => Values(item, "Session") \subseteq {Granted},
           SendDown(t), downward' = Noted(downward, item, down, down'),
           outbox' = outbox, clientPc' = clientPc, request' = request,
           clientEnd' = clientEnd, serverEnd' = serverEnd
    PROVE  down' \in Text /\ downward' \in Seq(Sendable) /\ Responses(downward)' /\ DownFlow'
           /\ (clientEnd \notin {"none", "connecting"} \/ (down' = down /\ downward' = downward))
<1>1. down \in Text /\ downward \in Seq(Sendable) /\ Responses(downward) /\ DownFlow /\ Quiet
  BY DEF Invariant, Texts, Told
<1>2. t \in Text /\ item \in Sendable
  BY DEF Item
<1>3. CASE serverEnd = "open" /\ clientEnd # "closed"
  <2> DEFINE d == IF clientPc = "response" THEN Taken ELSE NewDecoder
  <2>1. down' = down \o t
    BY <1>3 DEF SendDown
  <2>2. Flow("response", outbox, down, downward, serverEnd, clientPc, d)
    BY <1>1, <1>3 DEF DownFlow
  <2>3. serverEnd \notin Gone
    BY <1>3 DEF Gone
  <2> HIDE DEF d
  <2>4. /\ down \o t # down
        /\ Flow("response", outbox, down \o t, Append(downward, item), serverEnd, clientPc, d)
    BY <2>2, <2>3, FlowSent
  <2>5. downward' = Append(downward, item)
    BY <2>1, <2>4 DEF Noted
  <2>6. DownFlow'
    BY <1>1, <1>3, <2>1, <2>4, <2>5 DEF DownFlow, Taken, d
  <2>7. down' \in Text
    BY <1>1, <1>2, <2>1, Concat
  <2>8. downward' \in Seq(Sendable) /\ Responses(downward')
    BY <1>1, <1>2, <2>5, ResponsesMore
  <2>9. clientEnd \notin {"none", "connecting"}
    BY <1>1, <1>3 DEF Quiet
  <2>. QED
    BY <2>6, <2>7, <2>8, <2>9 DEF Responses
<1>4. CASE ~(serverEnd = "open" /\ clientEnd # "closed")
  <2>1. down' = down
    BY <1>4 DEF SendDown
  <2>2. downward' = downward
    BY <2>1 DEF Noted
  <2>. QED
    BY <1>1, <2>1, <2>2 DEF DownFlow, Taken, Responses
<1>. QED
  BY <1>3, <1>4

\* A step that sends down, and leaves the rest alone.
LEMMA StepSendDown ==
    ASSUME Invariant, NEW t, NEW item, Item("response", t, item),
           item # Frame => Values(item, "Session") \subseteq {Granted},
           SendDown(t), downward' = Noted(downward, item, down, down'),
           UNCHANGED <<listening, session, inbox, serverPc, request, outbox, clientPc>>,
           UNCHANGED <<up, clientEnd, serverEnd, upward>>, owed' \in Asked \cup {None}
    PROVE  Invariant'
<1>1. Typed /\ Texts /\ Told /\ Control /\ Quiet /\ UpFlow /\ DownFlow
  BY DEF Invariant
<1>2. /\ down' \in Text /\ downward' \in Seq(Sendable) /\ Responses(downward)' /\ DownFlow'
      /\ (clientEnd \notin {"none", "connecting"} \/ (down' = down /\ downward' = downward))
  BY SentDown
<1>3. Typed'
  BY <1>1 DEF Typed, SessionTyped, RequestTyped
<1>4. Texts'
  BY <1>1, <1>2 DEF Texts
<1>5. Told'
  BY <1>1, <1>2 DEF Told, Responses, Requests
<1>6. Control'
  BY <1>1 DEF Control, InHandler, InClientHandler
<1>7. Quiet'
  BY <1>1, <1>2 DEF Quiet, NewEnds
<1>8. UpFlow'
  BY <1>1 DEF UpFlow
<1>. QED
  BY <1>2, <1>3, <1>4, <1>5, <1>6, <1>7, <1>8 DEF Invariant

\* The server's user answers, or sends a frame.
LEMMA StepAnswer == ASSUME Invariant, Answer PROVE Invariant'
<1> DEFINE m == [method |-> "NONE", code |-> 200, cseq |-> owed.cseq,
                 heads |-> AnswerHeads(owed.method), body |-> AnswerBody(owed.method)]
<1>1. /\ owed # None /\ SendDown(ResponseText(m)) /\ owed' = None
      /\ downward' = Noted(downward, AsRead(m), down, down')
      /\ UNCHANGED <<listening, session, inbox, serverPc, request, outbox, clientPc>>
      /\ UNCHANGED <<up, clientEnd, serverEnd, upward>>
  BY DEF Answer, Respond, sessionVars, requestVars
<1>2. owed \in Asked
  BY <1>1 DEF Invariant, Typed
<1>3. owed.method \in Methods /\ owed.cseq \in Numbers
  BY <1>2, BoundsAssumption DEF Asked
<1>4. FineResponse(m) /\ Values(AsRead(m), "Session") \subseteq {Granted}
  BY <1>3, AnswerForFine
<1> DEFINE t == ResponseText(m)
           item == AsRead(m)
<1> HIDE DEF m
<1>5. Item("response", t, item)
  BY <1>4, ResponseItem
<1>6. SendDown(t) /\ downward' = Noted(downward, item, down, down')
  BY <1>1
<1>7. Values(item, "Session") \subseteq {Granted}
  BY <1>4
<1> HIDE DEF t, item
<1>. QED
  BY <1>1, <1>5, <1>6, <1>7, StepSendDown

LEMMA StepFrameDown == ASSUME Invariant, FrameDown PROVE Invariant'
<1>1. /\ SendDown(FrameText(Frame))
      /\ downward' = Noted(downward, Frame, down, down')
      /\ UNCHANGED <<listening, session, inbox, serverPc, request, outbox, clientPc>>
      /\ UNCHANGED <<up, clientEnd, serverEnd, upward, owed>>
  BY DEF FrameDown, sessionVars, requestVars
<1>2. Item("response", FrameText(Frame), Frame)
  BY FrameItem
<1>3. owed' \in Asked \cup {None}
  BY <1>1 DEF Invariant, Typed
<1>. QED
  BY <1>1, <1>2, <1>3, StepSendDown

-----------------------------------------------------------------------------
(***************************************************************************)
(* The server's steps.                                                     *)
(***************************************************************************)
LEMMA HearsIs ==
    ASSUME NEW e \in Ends
    PROVE  /\ Hears(e) \in Ends \ {"established", "open"}
           /\ e \in Gone => Hears(e) \in Gone
           /\ (Hears(e) = "closed") <=> (e = "closed")
           /\ (Hears(e) = "none") <=> (e = "none")
           /\ (Hears(e) = "connecting") <=> (e = "connecting")
           /\ Hears(e) = "refused" => e \in {"refused", "established"}
           /\ e \notin {"none", "connecting"} => Hears(e) \in Gone
BY DEF Ends, Hears, Gone

\* A direction that a step leaves alone.
LEMMA UpKept ==
    ASSUME UpFlow, clientEnd \in Gone => clientEnd' \in Gone,
           serverEnd' # "closed" =>
               /\ serverEnd # "closed" /\ upward' = upward /\ inbox' = inbox /\ up' = up
               /\ session'.request = session.request
               /\ (serverPc' = "request" <=> serverPc = "request")
    PROVE  UpFlow'
<1> SUFFICES ASSUME serverEnd' # "closed"
             PROVE  Flow("request", inbox, up, upward, clientEnd, serverPc, session.request)'
  BY DEF UpFlow
<1> DEFINE d == session.request
<1>1. Flow("request", inbox, up, upward, clientEnd, serverPc, d)
  BY DEF UpFlow
<1> HIDE DEF d
<1>2. Flow("request", inbox, up, upward, clientEnd', serverPc', d)
  BY <1>1, FlowEnds
<1>3. d = session'.request /\ inbox' = inbox /\ up' = up /\ upward' = upward
  BY DEF d
<1>. QED
  BY <1>2, <1>3

LEMMA DownKept ==
    ASSUME DownFlow, serverEnd \in Gone => serverEnd' \in Gone,
           clientEnd' # "closed" =>
               /\ clientEnd # "closed" /\ downward' = downward /\ outbox' = outbox /\ down' = down
               /\ (clientPc = "response" => request'.response = request.response)
               /\ (clientPc' = "response" <=> clientPc = "response")
    PROVE  DownFlow'
<1> DEFINE d == IF clientPc = "response" THEN Taken ELSE NewDecoder
<1> SUFFICES ASSUME clientEnd' # "closed"
             PROVE  /\ Flow("response", outbox', down', downward', serverEnd', clientPc', d')
                    /\ clientPc' = "response" => request'.response.offset = Taken'.offset
  BY DEF DownFlow
<1>1. Flow("response", outbox, down, downward, serverEnd, clientPc, d)
  BY DEF DownFlow
<1>2. Taken' = Taken
  BY DEF Taken
<1>3. d' = d
  BY <1>2
<1>4. clientPc' = "response" => request'.response.offset = Taken'.offset
  BY <1>2 DEF DownFlow, Taken
<1> HIDE DEF d
<1>5. Flow("response", outbox, down, downward, serverEnd', clientPc', d)
  BY <1>1, FlowEnds
<1>. QED
  BY <1>3, <1>4, <1>5

\* The steps of the server leave the client's side of it alone.
ClientAlone == UNCHANGED <<request, outbox, clientPc, downward, down>>

LEMMA AwaitedUp ==
    ASSUME Invariant, serverEnd' = serverEnd \/ serverEnd' # "none",
           upward' = Awaited(serverEnd', upward)
    PROVE  /\ upward' \in {<<>>, upward} /\ upward' \in Seq(Sendable) /\ Requests(upward')
           /\ serverEnd' # "closed" => upward' = upward
           /\ serverEnd' = "closed" => upward' = <<>>
<1>1. upward \in Seq(Sendable) /\ Requests(upward) /\ (serverEnd = "none" => upward = <<>>)
  BY DEF Invariant, Texts, Told, Quiet
<1>2. upward' \in {<<>>, upward} /\ (serverEnd' # "closed" => upward' = upward)
      /\ (serverEnd' = "closed" => upward' = <<>>)
  BY <1>1 DEF Awaited
<1>3. <<>> \in Seq(Sendable)
  OBVIOUS
<1>. QED
  BY <1>1, <1>2, <1>3, NothingTold

\* The session is deleted.
LEMMA StepDeleted ==
    ASSUME Invariant, Deleted, serverPc' = "idle", upward' = <<>>, UNCHANGED listening,
           ClientAlone, owed' \in Asked \cup {None}
    PROVE  Invariant'
<1>1. Typed /\ Texts /\ Told /\ Control /\ Quiet /\ UpFlow /\ DownFlow
  BY DEF Invariant
<1>2. /\ session' = [session EXCEPT !.mem = "freed", !.isAlive = FALSE, !.isInHandler = FALSE]
      /\ serverEnd' = "closed" /\ clientEnd' = Hears(clientEnd) /\ inbox' = <<>> /\ up' = <<>>
  BY DEF Deleted
<1>3. SessionTyped' /\ session'.request = session.request /\ session'.isInHandler = FALSE
  BY <1>1, <1>2 DEF Typed, SessionTyped
<1>4. /\ clientEnd \in Ends /\ clientEnd' \in Ends \ {"established", "open"}
      /\ (clientEnd' = "closed") <=> (clientEnd = "closed")
      /\ (clientEnd' = "none") <=> (clientEnd = "none")
      /\ (clientEnd' = "connecting") <=> (clientEnd = "connecting")
      /\ clientEnd' = "refused" => clientEnd \in {"refused", "established"}
  BY <1>1, <1>2, HearsIs DEF Typed
<1>5. Typed'
  BY <1>1, <1>2, <1>3, <1>4 DEF Typed, RequestTyped, ClientAlone, Ends
<1>6. Texts'
  <2>1. <<>> \in Text /\ <<>> \in Seq(Sendable)
    BY DEF Text
  <2>. QED
    BY <1>1, <1>2, <2>1 DEF Texts, ClientAlone
<1>7. Told'
  BY <1>1, NothingTold DEF Told, ClientAlone, Requests, Responses
<1>8. Control'
  BY <1>1, <1>2, <1>3, <1>4 DEF Control, InHandler, InClientHandler, ClientAlone
<1>9. Quiet'
  BY <1>1, <1>2, <1>3, <1>4 DEF Quiet, NewEnds, ClientAlone
<1>10. UpFlow'
  BY <1>2 DEF UpFlow
<1>11. DownFlow'
  BY <1>1, <1>2, <1>4, DownKept DEF ClientAlone, Gone
<1>. QED
  BY <1>5, <1>6, <1>7, <1>8, <1>9, <1>10, <1>11 DEF Invariant

\* The steps of the server's own that come from outside a read.
Outside == /\ upward' = Awaited(serverEnd', upward)
           /\ UNCHANGED <<request, outbox, clientPc, downward, owed>>

\* The server's steps outside a read, each with the stream upward cut off when
\* its end is closed.
LEMMA StepServerStart == ASSUME Invariant, ServerStart, Outside PROVE Invariant'
<1>1. Typed /\ Texts /\ Told /\ Control /\ Quiet /\ UpFlow /\ DownFlow
  BY DEF Invariant
<1>2. /\ listening' = TRUE
      /\ UNCHANGED <<session, inbox, serverPc, up, down, clientEnd, serverEnd>>
  BY DEF ServerStart, streamVars
<1>3. UNCHANGED <<request, outbox, clientPc, downward, owed>>
  BY DEF Outside
<1>4. /\ upward' \in {<<>>, upward} /\ upward' \in Seq(Sendable) /\ Requests(upward')
      /\ serverEnd' # "closed" => upward' = upward
  BY <1>2, AwaitedUp DEF Outside
<1>5. Typed'
  BY <1>1, <1>2, <1>3 DEF Typed, SessionTyped, RequestTyped
<1>6. Texts'
  BY <1>1, <1>2, <1>3, <1>4 DEF Texts
<1>7. Told'
  BY <1>1, <1>3, <1>4 DEF Told, Responses, Requests
<1>8. Control'
  BY <1>1, <1>2, <1>3 DEF Control, InHandler, InClientHandler
<1>9. Quiet'
  BY <1>1, <1>2, <1>3, <1>4 DEF Quiet, NewEnds
<1>10. UpFlow'
  BY <1>1, <1>2, <1>4, UpKept
<1>11. DownFlow'
  BY <1>1, <1>2, <1>3, DownKept
<1>. QED
  BY <1>5, <1>6, <1>7, <1>8, <1>9, <1>10, <1>11 DEF Invariant

LEMMA StepServerStop == ASSUME Invariant, ServerStop, Outside PROVE Invariant'
<1>1. Typed /\ Texts /\ Told /\ Control /\ Quiet /\ UpFlow /\ DownFlow
  BY DEF Invariant
<1>2. /\ listening' = FALSE /\ serverPc = "idle"
      /\ UNCHANGED <<session, inbox, serverPc, up, down>>
      /\ \/ /\ serverEnd \in {"established", "refused"}
            /\ serverEnd' = "closed" /\ clientEnd' = Hears(clientEnd)
         \/ UNCHANGED <<serverEnd, clientEnd>>
  BY DEF ServerStop
<1>3. UNCHANGED <<request, outbox, clientPc, downward, owed>>
  BY DEF Outside
<1>4. /\ upward' \in {<<>>, upward} /\ upward' \in Seq(Sendable) /\ Requests(upward')
      /\ serverEnd' # "closed" => upward' = upward
  BY <1>2, AwaitedUp DEF Outside
<1>5. SessionTyped' /\ RequestTyped'
  BY <1>1, <1>2, <1>3 DEF Typed, SessionTyped, RequestTyped
<1>6. CASE serverEnd' = "closed" /\ clientEnd' = Hears(clientEnd)
  <2>1. /\ clientEnd \in Ends /\ clientEnd' \in Ends \ {"established", "open"}
        /\ (clientEnd' = "closed") <=> (clientEnd = "closed")
        /\ (clientEnd' = "none") <=> (clientEnd = "none")
        /\ (clientEnd' = "connecting") <=> (clientEnd = "connecting")
        /\ clientEnd' = "refused" => clientEnd \in {"refused", "established"}
    BY <1>1, <1>6, HearsIs DEF Typed
  <2>2. Typed'
    BY <1>1, <1>2, <1>3, <1>6, <1>5, <2>1 DEF Typed, Ends
  <2>3. Texts'
    BY <1>1, <1>2, <1>3, <1>4 DEF Texts
  <2>4. Told'
    BY <1>1, <1>3, <1>4 DEF Told, Responses, Requests
  <2>5. Control'
    BY <1>1, <1>2, <1>3, <1>6, <2>1 DEF Control, InHandler, InClientHandler
  <2>6. Quiet'
    BY <1>1, <1>2, <1>3, <1>4, <1>6, <2>1 DEF Quiet, NewEnds
  <2>7. UpFlow'
    BY <1>6 DEF UpFlow
  <2>8. DownFlow'
    BY <1>1, <1>2, <1>3, <1>6, <2>1, DownKept DEF Gone
  <2>. QED
    BY <2>2, <2>3, <2>4, <2>5, <2>6, <2>7, <2>8 DEF Invariant
<1>7. CASE UNCHANGED <<serverEnd, clientEnd>>
  <2>1. Typed'
    BY <1>1, <1>2, <1>3, <1>7, <1>5 DEF Typed
  <2>2. Texts'
    BY <1>1, <1>2, <1>3, <1>4 DEF Texts
  <2>3. Told'
    BY <1>1, <1>3, <1>4 DEF Told, Responses, Requests
  <2>4. Control'
    BY <1>1, <1>2, <1>3, <1>7 DEF Control, InHandler, InClientHandler
  <2>5. Quiet'
    BY <1>1, <1>2, <1>3, <1>4, <1>7 DEF Quiet, NewEnds
  <2>6. UpFlow'
    BY <1>1, <1>2, <1>4, <1>7, UpKept
  <2>7. DownFlow'
    BY <1>1, <1>2, <1>3, <1>7, DownKept
  <2>. QED
    BY <2>1, <2>2, <2>3, <2>4, <2>5, <2>6, <2>7 DEF Invariant
<1>. QED
  BY <1>2, <1>6, <1>7

LEMMA StepAccept == ASSUME Invariant, Accept, Outside PROVE Invariant'
<1>1. Typed /\ Texts /\ Told /\ Control /\ Quiet /\ UpFlow /\ DownFlow
  BY DEF Invariant
<1>2. /\ serverPc = "idle"
      /\ \/ serverEnd = "established" /\ serverEnd' = "open"
         \/ serverEnd = "refused" /\ serverEnd' = "closing"
      /\ session' = [NoSession EXCEPT !.mem = "live", !.isAlive = TRUE]
      /\ UNCHANGED <<listening, inbox, serverPc, up, down, clientEnd>>
  BY DEF Accept
<1>3. UNCHANGED <<request, outbox, clientPc, downward, owed>>
  BY DEF Outside
<1>4. upward' = upward
  BY <1>2 DEF Outside, Awaited
<1>5. /\ SessionTyped' /\ session'.request = NewDecoder /\ session'.isInHandler = FALSE
  <2> DEFINE d == NewDecoder
  <2>1. session' = [mem |-> "live", isAlive |-> TRUE, isInHandler |-> FALSE, request |-> d]
    BY <1>2 DEF NoSession
  <2> HIDE DEF d
  <2>2. SessionTyped' /\ session'.request = d /\ session'.isInHandler = FALSE
    BY <2>1 DEF SessionTyped
  <2>. QED
    BY <2>2 DEF d
<1>6. RequestTyped'
  BY <1>1, <1>3 DEF Typed, RequestTyped
<1>7. Typed'
  BY <1>1, <1>2, <1>3, <1>5, <1>6 DEF Typed, Ends
<1>8. Texts'
  BY <1>1, <1>2, <1>3, <1>4 DEF Texts
<1>9. Told'
  BY <1>1, <1>3, <1>4 DEF Told, Responses, Requests
<1>10. Control'
  BY <1>1, <1>2, <1>3, <1>5 DEF Control, InHandler, InClientHandler
<1>11. Quiet'
  BY <1>1, <1>2, <1>3, <1>4, <1>5 DEF Quiet, NewEnds
<1>12. UpFlow'
  <2> DEFINE d == session.request
  <2>1. Flow("request", inbox, up, upward, clientEnd, serverPc, d)
    BY <1>1, <1>2 DEF UpFlow
  <2> HIDE DEF d
  <2>2. Flow("request", inbox, up, upward, clientEnd, serverPc, NewDecoder)
    BY <1>2, <2>1, FlowAnew
  <2>. QED
    BY <1>2, <1>4, <1>5, <2>2 DEF UpFlow
<1>13. DownFlow'
  BY <1>1, <1>2, <1>3, DownKept DEF Gone
<1>. QED
  BY <1>7, <1>8, <1>9, <1>10, <1>11, <1>12, <1>13 DEF Invariant

LEMMA StepAllRead == ASSUME Invariant, AllRead, Outside PROVE Invariant'
<1>1. Typed /\ Texts /\ Told /\ Control /\ Quiet /\ UpFlow /\ DownFlow
  BY DEF Invariant
<1>2. /\ serverPc = "ondata" /\ serverPc' = "idle"
      /\ UNCHANGED <<listening, session, inbox, up, down, clientEnd, serverEnd>>
  BY DEF AllRead, streamVars
<1>3. UNCHANGED <<request, outbox, clientPc, downward, owed>>
  BY DEF Outside
<1>4. /\ upward' \in {<<>>, upward} /\ upward' \in Seq(Sendable) /\ Requests(upward')
      /\ serverEnd' # "closed" => upward' = upward
  BY <1>2, AwaitedUp DEF Outside
<1>5. Typed'
  BY <1>1, <1>2, <1>3 DEF Typed, SessionTyped, RequestTyped
<1>6. Texts'
  BY <1>1, <1>2, <1>3, <1>4 DEF Texts
<1>7. Told'
  BY <1>1, <1>3, <1>4 DEF Told, Responses, Requests
<1>8. Control'
  BY <1>1, <1>2, <1>3 DEF Control, InHandler, InClientHandler
<1>9. Quiet'
  BY <1>1, <1>2, <1>3, <1>4 DEF Quiet, NewEnds
<1>10. UpFlow'
  BY <1>1, <1>2, <1>4, UpKept
<1>11. DownFlow'
  BY <1>1, <1>2, <1>3, DownKept
<1>. QED
  BY <1>5, <1>6, <1>7, <1>8, <1>9, <1>10, <1>11 DEF Invariant

LEMMA StepSessionOnClose == ASSUME Invariant, SessionOnClose, Outside PROVE Invariant'
<1>1. Typed /\ Texts /\ Told /\ Control /\ Quiet /\ UpFlow /\ DownFlow
  BY DEF Invariant
<1>2. /\ serverPc = "idle" /\ serverEnd = "closing" /\ session' = [session EXCEPT !.isInHandler = TRUE]
      /\ serverEnd' = "closed" /\ serverPc' = "onclose"
      /\ UNCHANGED <<listening, inbox, up, down, clientEnd>>
  BY DEF SessionOnClose
<1>3. UNCHANGED <<request, outbox, clientPc, downward, owed>>
  BY DEF Outside
<1>4. upward' = <<>> /\ upward' \in Seq(Sendable) /\ Requests(upward')
  BY <1>2, AwaitedUp DEF Outside
<1>5. SessionTyped' /\ session'.isInHandler = TRUE
  BY <1>1, <1>2 DEF Typed, SessionTyped
<1>6. RequestTyped'
  BY <1>1, <1>3 DEF Typed, RequestTyped
<1>7. Typed'
  BY <1>1, <1>2, <1>3, <1>5, <1>6 DEF Typed, Ends
<1>8. Texts'
  BY <1>1, <1>2, <1>3, <1>4 DEF Texts
<1>9. Told'
  BY <1>1, <1>3, <1>4 DEF Told, Responses, Requests
<1>10. Control'
  BY <1>1, <1>2, <1>3, <1>5 DEF Control, InHandler, InClientHandler
<1>11. Quiet'
  BY <1>1, <1>2, <1>3, <1>4 DEF Quiet, NewEnds
<1>12. UpFlow'
  BY <1>2 DEF UpFlow
<1>13. DownFlow'
  BY <1>1, <1>2, <1>3, DownKept DEF Gone
<1>. QED
  BY <1>7, <1>8, <1>9, <1>10, <1>11, <1>12, <1>13 DEF Invariant

LEMMA StepSessionEnd == ASSUME Invariant, SessionEnd, Outside PROVE Invariant'
<1>1. Typed /\ Texts /\ Told /\ Control /\ Quiet /\ UpFlow /\ DownFlow
  BY DEF Invariant
<1>2. /\ serverPc = "idle" \/ InHandler
      /\ UNCHANGED <<listening, serverPc, down>>
      /\ IF session.isInHandler
         THEN /\ session' = [session EXCEPT !.isAlive = FALSE]
              /\ UNCHANGED <<inbox, up, clientEnd, serverEnd>>
         ELSE Deleted
  BY DEF SessionEnd
<1>3. UNCHANGED <<request, outbox, clientPc, downward, owed>>
  BY DEF Outside
<1>4. CASE ~session.isInHandler
  <2>1. serverPc = "idle" /\ Deleted
    BY <1>1, <1>2, <1>4 DEF Control
  <2>2. upward' = <<>>
    BY <2>1 DEF Deleted, Outside, Awaited
  <2>3. owed' \in Asked \cup {None}
    BY <1>1, <1>3 DEF Typed
  <2>. QED
    BY <1>2, <1>3, <2>1, <2>2, <2>3, StepDeleted DEF ClientAlone
<1>5. CASE session.isInHandler
  <2>1. /\ session' = [session EXCEPT !.isAlive = FALSE]
        /\ UNCHANGED <<listening, serverPc, down, inbox, up, clientEnd, serverEnd>>
    BY <1>2, <1>5
  <2>2. SessionTyped' /\ session'.request = session.request
        /\ session'.isInHandler = session.isInHandler
    BY <1>1, <2>1 DEF Typed, SessionTyped
  <2>3. RequestTyped'
    BY <1>1, <1>3 DEF Typed, RequestTyped
  <2>4. /\ upward' \in {<<>>, upward} /\ upward' \in Seq(Sendable) /\ Requests(upward')
        /\ serverEnd' # "closed" => upward' = upward
    BY <2>1, AwaitedUp DEF Outside
  <2>5. Typed'
    BY <1>1, <1>3, <2>1, <2>2, <2>3 DEF Typed
  <2>6. Texts'
    BY <1>1, <1>3, <2>1, <2>4 DEF Texts
  <2>7. Told'
    BY <1>1, <1>3, <2>4 DEF Told, Responses, Requests
  <2>8. Control'
    BY <1>1, <1>3, <2>1, <2>2 DEF Control, InHandler, InClientHandler
  <2>9. Quiet'
    BY <1>1, <1>3, <2>1, <2>2, <2>4 DEF Quiet, NewEnds
  <2>10. UpFlow'
    BY <1>1, <2>1, <2>2, <2>4, UpKept
  <2>11. DownFlow'
    BY <1>1, <1>3, <2>1, DownKept
  <2>. QED
    BY <2>5, <2>6, <2>7, <2>8, <2>9, <2>10, <2>11 DEF Invariant
<1>. QED
  BY <1>4, <1>5

\* The last token of what has been read.
LEMMA LastOfPiece ==
    ASSUME NEW box \in Text, NEW way \in Text, NEW n \in 1 .. Len(way)
    PROVE  LET z == box \o SubSeq(way, 1, n)
           IN z \in Text /\ z # <<>> /\ z[Len(z)] = way[n]
<1> DEFINE a == SubSeq(way, 1, n)
           z == box \o a
<1>1. Len(way) \in Nat /\ n \in Nat /\ n <= Len(way) /\ n >= 1
  BY DEF Text
<1>2. a \in Text /\ Len(a) = n /\ \A i \in 1 .. n : a[i] = way[i]
  BY <1>1, AfterType
<1> HIDE DEF a
<1>3. /\ z \in Text /\ Len(z) = Len(box) + Len(a)
      /\ \A i \in 1 .. Len(a) : z[Len(box) + i] = a[i]
  BY <1>2, Concat
<1> HIDE DEF z
<1>4. Len(box) \in Nat
  BY DEF Text
<1>5. n \in 1 .. n /\ Len(z) = Len(box) + n /\ Len(z) >= 1
  BY <1>1, <1>2, <1>3, <1>4
<1>6. z[Len(z)] = way[n]
  BY <1>2, <1>3, <1>5
<1>7. z # <<>>
  BY <1>5
<1>. QED
  BY <1>3, <1>6, <1>7 DEF z, a

LEMMA LastOfRest ==
    ASSUME NEW t \in Text, NEW n \in Nat, n <= Len(t), After(t, n) # <<>>
    PROVE  t # <<>> /\ After(t, n)[Len(After(t, n))] = t[Len(t)]
<1> DEFINE z == After(t, n)
<1>1. Len(t) \in Nat
  BY DEF Text
<1>2. z \in Text /\ Len(z) = Len(t) - n /\ \A i \in 1 .. Len(t) - n : z[i] = t[n + i]
  BY AfterType
<1>3. z # <<>>
  OBVIOUS
<1> HIDE DEF z
<1>4. Len(z) \in Nat /\ Len(z) >= 1
  BY <1>2, <1>3 DEF Text
<1> DEFINE i == Len(z)
<1>5. i \in 1 .. Len(t) - n /\ n + i = Len(t)
  BY <1>1, <1>2, <1>4
<1>6. z[i] = t[n + i]
  BY <1>2, <1>5
<1>7. t # <<>>
  BY <1>1, <1>2, <1>4
<1>. QED
  BY <1>5, <1>6, <1>7 DEF z

\* The server's reads: a piece arrives, a frame is taken, a text is decoded.
LEMMA StepServerRead == ASSUME Tame, Invariant, ServerRead PROVE Invariant'
<1>1. Typed /\ Texts /\ Told /\ Control /\ Quiet /\ UpFlow /\ DownFlow
  BY DEF Invariant
<1>2. /\ serverPc = "idle" /\ serverEnd \in {"open", "closing"} /\ serverPc' = "ondata"
      /\ UNCHANGED <<listening, session, down, clientEnd, serverEnd>>
      /\ UNCHANGED <<request, outbox, clientPc, upward, downward, owed>>
  BY DEF ServerRead, ServerReads, Cut, requestVars
<1>3. PICK n \in UpPieces : inbox' = inbox \o SubSeq(up, 1, n) /\ up' = After(up, n)
  BY DEF ServerRead, ServerReads
<1>4. inbox \in Text /\ up \in Text /\ n \in 1 .. Len(up) /\ up[n] \notin {CR, Colon}
  BY <1>1, <1>3 DEF Texts, UpPieces, Tame
<1>5. n \in Nat /\ n <= Len(up) /\ up # <<>>
  BY <1>4 DEF Text
<1>6. inbox' \in Text /\ inbox'[Len(inbox')] \notin {CR, Colon}
  <2> DEFINE z == inbox \o SubSeq(up, 1, n)
  <2>1. z \in Text /\ z[Len(z)] = up[n]
    BY <1>4, LastOfPiece
  <2>2. inbox' = z
    BY <1>3
  <2> HIDE DEF z
  <2>. QED
    BY <1>4, <2>1, <2>2
<1>7. up' \in Text
  BY <1>3, <1>4, <1>5, AfterType
<1>8. Typed'
  BY <1>1, <1>2 DEF Typed, SessionTyped, RequestTyped
<1>9. Texts'
  BY <1>1, <1>2, <1>6, <1>7 DEF Texts
<1>10. Told'
  BY <1>1, <1>2 DEF Told, Responses, Requests
<1>11. Control'
  BY <1>1, <1>2, <1>6 DEF Control, InHandler, InClientHandler
<1>12. Quiet'
  BY <1>1, <1>2, <1>5 DEF Quiet, NewEnds
<1>13. UpFlow'
  <2> DEFINE d == session.request
  <2>1. Flow("request", inbox, up, upward, clientEnd, serverPc, d)
    BY <1>1, <1>2 DEF UpFlow
  <2> HIDE DEF d
  <2>2. serverPc # "request" /\ serverPc' # "request"
    BY <1>2
  <2>3. Flow("request", inbox \o SubSeq(up, 1, n), After(up, n), upward, clientEnd, serverPc', d)
    BY <1>5, <2>1, <2>2, FlowPiece
  <2>. QED
    BY <1>2, <1>3, <2>3 DEF UpFlow, d
<1>14. DownFlow'
  BY <1>1, <1>2, DownKept
<1>. QED
  BY <1>8, <1>9, <1>10, <1>11, <1>12, <1>13, <1>14 DEF Invariant

LEMMA StepServerFrame == ASSUME Invariant, ServerFrame PROVE Invariant'
<1>1. Typed /\ Texts /\ Told /\ Control /\ Quiet /\ UpFlow /\ DownFlow
  BY DEF Invariant
<1>2. /\ serverPc = "ondata" /\ inbox # <<>> /\ inbox[1] = Dollar
      /\ IF FrameComplete(inbox)
         THEN inbox' = After(inbox, FrameSize(inbox)) /\ serverPc' = serverPc
         ELSE serverPc' = "idle" /\ inbox' = inbox
      /\ UNCHANGED <<listening, session, up, down, clientEnd, serverEnd>>
      /\ UNCHANGED <<request, outbox, clientPc, downward, owed>>
      /\ upward' = FrameTaken(inbox, upward)
  BY DEF ServerFrame, SessionFrame, requestVars, streamVars
<1>3. SessionTyped' /\ RequestTyped'
  BY <1>1, <1>2 DEF Typed, SessionTyped, RequestTyped
<1>4. serverPc' \in {"idle", "ondata"}
  BY <1>2
<1>5. Typed'
  BY <1>1, <1>2, <1>3, <1>4 DEF Typed
<1>6. DownFlow'
  BY <1>1, <1>2, DownKept
<1>7. CASE FrameComplete(inbox)
  <2> DEFINE d == session.request
             n == FrameSize(inbox)
  <2>1. Flow("request", inbox, up, upward, clientEnd, serverPc, d)
    BY <1>1, <1>2 DEF UpFlow, Control
  <2> HIDE DEF d
  <2>2. serverPc # "request"
    BY <1>2
  <2>3. /\ upward # <<>> /\ n = 6 /\ 6 <= Len(inbox)
        /\ Flow("request", After(inbox, n), up, Tail(upward), clientEnd, serverPc, d)
    BY <1>2, <1>7, <2>1, <2>2, FlowFrame
  <2>4. inbox' = After(inbox, n) /\ n \in Nat /\ n <= Len(inbox) /\ serverPc' = serverPc
    BY <1>2, <1>7, <2>3
  <2> HIDE DEF n
  <2>5. upward \in Seq(Sendable) /\ inbox \in Text
    BY <1>1 DEF Texts
  <2>6. upward' = Tail(upward) /\ upward' \in Seq(Sendable) /\ Requests(upward')
    <3>1. Rest(upward) = Tail(upward) /\ Tail(upward) \in Seq(Sendable) /\ Requests(Tail(upward))
      BY <1>1, <2>3, <2>5, ToldRest DEF Told
    <3>. QED
      BY <1>2, <1>7, <3>1 DEF FrameTaken
  <2>7. inbox' \in Text
    BY <2>4, <2>5, AfterType
  <2>8. inbox' # <<>> => inbox'[Len(inbox')] \notin {CR, Colon}
    <3>1. SUFFICES ASSUME After(inbox, n) # <<>>
                   PROVE  After(inbox, n)[Len(After(inbox, n))] \notin {CR, Colon}
      BY <2>4
    <3>2. After(inbox, n)[Len(After(inbox, n))] = inbox[Len(inbox)] /\ inbox # <<>>
      BY <2>4, <2>5, <3>1, LastOfRest
    <3>. QED
      BY <1>1, <3>2 DEF Control
  <2>9. Texts'
    BY <1>1, <1>2, <2>6, <2>7 DEF Texts
  <2>10. Told'
    BY <1>1, <1>2, <2>6 DEF Told, Responses, Requests
  <2>11. Control'
    BY <1>1, <1>2, <2>4, <2>8 DEF Control, InHandler, InClientHandler
  <2>12. Quiet'
    BY <1>1, <1>2, <2>3 DEF Quiet, NewEnds
  <2>13. UpFlow'
    BY <1>2, <2>3, <2>4, <2>6 DEF UpFlow, d
  <2>. QED
    BY <1>5, <1>6, <2>9, <2>10, <2>11, <2>12, <2>13 DEF Invariant
<1>8. CASE ~FrameComplete(inbox)
  <2>1. serverPc' = "idle" /\ inbox' = inbox /\ upward' = upward
    BY <1>2, <1>8 DEF FrameTaken
  <2>2. Texts'
    BY <1>1, <1>2, <2>1 DEF Texts
  <2>3. Told'
    BY <1>1, <1>2, <2>1 DEF Told, Responses, Requests
  <2>4. Control'
    BY <1>1, <1>2, <2>1 DEF Control, InHandler, InClientHandler
  <2>5. Quiet'
    BY <1>1, <1>2, <2>1 DEF Quiet, NewEnds
  <2>6. UpFlow'
    BY <1>1, <1>2, <2>1, UpKept
  <2>. QED
    BY <1>5, <1>6, <2>2, <2>3, <2>4, <2>5, <2>6 DEF Invariant
<1>. QED
  BY <1>7, <1>8

\* What is being handed over is what was sent first.
LEMMA HandedOver ==
    ASSUME NEW kind, NEW box, NEW way, NEW sent, NEW end, NEW d,
           Flow(kind, box, way, sent, end, kind, d)
    PROVE  /\ sent # <<>> /\ Read(d) = Head(sent) /\ Head(sent) # Frame
           /\ d.offset \in Nat /\ d.offset <= Len(box)
           /\ \A pc : pc # kind =>
                  Flow(kind, After(box, d.offset), way, Tail(sent), end, pc, NewDecoder)
<1>1. "idle" # kind \/ "ondata" # kind
  OBVIOUS
<1>2. PICK pc : pc # kind
  BY <1>1
<1>3. ASSUME NEW p, p # kind
      PROVE  Flow(kind, After(box, d.offset), way, Tail(sent), end, p, NewDecoder)
  BY <1>3, FlowTaken
<1>. QED
  BY <1>2, <1>3, FlowTaken

\* It has been read into a decoder.
LEMMA HeldType ==
    ASSUME NEW kind, NEW box, NEW way, NEW sent, NEW end, NEW d,
           Flow(kind, box, way, sent, end, kind, d)
    PROVE  d \in Decoder
<1>1. PICK texts, lost : /\ Laid(kind, box, way, sent, texts, lost)
                         /\ Held(kind, box, sent, texts, d)
  BY DEF Flow
<1>2. box \in Text /\ way \in Text
  BY <1>1 DEF Laid
<1>3. texts # <<>> /\ sent[1] # Frame /\ d = Reading(kind, texts[1])[Len(texts[1])]
  BY <1>1 DEF Held
<1>4. Item(kind, texts[1], sent[1])
  BY <1>1, <1>2, <1>3, LaidFirst
<1>5. Whole(kind, texts[1], sent[1])
  BY <1>3, <1>4, FirstIsMessage
<1>. QED
  BY <1>3, <1>5 DEF Whole

LEMMA FirstRequest ==
    ASSUME Invariant, serverPc = "request"
    PROVE  /\ upward # <<>> /\ Read(session.request) = Head(upward) /\ Head(upward) # Frame
           /\ session.request.method \in Methods /\ session.request.cseq \in 0 .. MaxRequests
<1>1. Typed /\ Texts /\ Told /\ Control /\ Quiet /\ UpFlow /\ DownFlow
  BY DEF Invariant
<1> DEFINE d == session.request
           x == Head(upward)
<1>2. Flow("request", inbox, up, upward, clientEnd, "request", d)
  BY <1>1 DEF UpFlow, Control
<1> HIDE DEF d
<1>3. upward # <<>> /\ Read(d) = x /\ x # Frame
  BY <1>2, HandedOver
<1>4. x.method \in Methods /\ x.cseq \in 0 .. MaxRequests
  <2>1. upward \in Seq(Sendable) /\ Requests(upward)
    BY <1>1 DEF Texts, Told
  <2>2. 1 \in 1 .. Len(upward) /\ x = upward[1]
    BY <1>3, <2>1
  <2> HIDE DEF x
  <2>. QED
    BY <1>3, <2>1, <2>2 DEF Requests
<1>5. d.method = x.method /\ d.cseq = x.cseq
  <2> HIDE DEF x
  <2>1. Read(d).method = d.method /\ Read(d).cseq = d.cseq
    BY DEF Read
  <2>. QED
    BY <1>3, <2>1
<1>. QED
  BY <1>3, <1>4, <1>5 DEF d

LEMMA StepServerText == ASSUME Invariant, ServerText PROVE Invariant'
<1>1. Typed /\ Texts /\ Told /\ Control /\ Quiet /\ UpFlow /\ DownFlow
  BY DEF Invariant
<1> DEFINE d == session.request
           e == Decode("request", d, inbox)
<1>2. /\ serverPc = "ondata" /\ inbox # <<>> /\ inbox[1] # Dollar
      /\ session' = [session EXCEPT !.request = e, !.isInHandler = e.ret # "more"]
      /\ serverPc' = CASE e.ret = "done" -> "request"
                       [] e.ret = "bad"  -> "badRequest"
                       [] e.ret = "more" -> "idle"
      /\ UNCHANGED <<listening, inbox, up, down, clientEnd, serverEnd>>
      /\ owed' = IF session'.request.ret = "done"
                 THEN [method |-> session'.request.method, cseq |-> session'.request.cseq]
                 ELSE owed
      /\ UNCHANGED <<request, outbox, clientPc, upward, downward>>
  BY DEF ServerText, SessionText, requestVars, streamVars, DecodeRequest
<1>3. Flow("request", inbox, up, upward, clientEnd, serverPc, d)
  BY <1>1, <1>2 DEF UpFlow, Control
<1> HIDE DEF d
<1>4. /\ e.ret \in {"done", "more"}
      /\ e.ret = "done" => Flow("request", inbox, up, upward, clientEnd, "request", e)
      /\ e.ret = "more" => Flow("request", inbox, up, upward, clientEnd, serverPc, e)
  <2>1. serverPc # "request" /\ inbox[Len(inbox)] \notin {CR, Colon}
    BY <1>1, <1>2 DEF Control
  <2>. QED
    BY <1>2, <1>3, <2>1, FlowText
<1> HIDE DEF e
<1>5. /\ session'.request = e /\ SessionTyped'
      /\ session'.isInHandler <=> e.ret # "more"
  BY <1>1, <1>2 DEF Typed, SessionTyped
<1>6. RequestTyped'
  BY <1>1, <1>2 DEF Typed, RequestTyped
<1>7. /\ e.ret = "done" => serverPc' = "request"
      /\ e.ret = "more" => serverPc' = "idle"
  BY <1>2
<1>8. UpFlow'
  <2>1. CASE e.ret = "done"
    BY <1>2, <1>4, <1>5, <1>7, <2>1 DEF UpFlow
  <2>2. CASE e.ret = "more"
    <3>1. Flow("request", inbox, up, upward, clientEnd, serverPc', e)
      <4>1. Flow("request", inbox, up, upward, clientEnd, serverPc, e)
        BY <1>4, <2>2
      <4>2. serverPc' = "request" <=> serverPc = "request"
        BY <1>2, <1>7, <2>2
      <4>. QED
        BY <4>1, <4>2, FlowEnds
    <3>. QED
      BY <1>2, <1>5, <3>1 DEF UpFlow
  <2>. QED
    BY <1>4, <2>1, <2>2
<1>9. owed' \in Asked \cup {None}
  <2>1. CASE e.ret = "done"
    <3>1. Flow("request", inbox, up, upward, clientEnd, "request", e)
      BY <1>4, <2>1
    <3> DEFINE x == Head(upward)
    <3>2. upward # <<>> /\ Read(e) = x /\ x # Frame
      BY <3>1, HandedOver
    <3>3. x.method \in Methods /\ x.cseq \in 0 .. MaxRequests
      <4>1. upward \in Seq(Sendable) /\ Requests(upward)
        BY <1>1 DEF Texts, Told
      <4>2. 1 \in 1 .. Len(upward) /\ x = upward[1]
        BY <3>2, <4>1
      <4> HIDE DEF x
      <4>. QED
        BY <3>2, <4>1, <4>2 DEF Requests
    <3> HIDE DEF x
    <3>4. e.method = x.method /\ e.cseq = x.cseq
      <4>1. Read(e).method = e.method /\ Read(e).cseq = e.cseq
        BY DEF Read
      <4>. QED
        BY <3>2, <4>1
    <3>5. owed' = [method |-> e.method, cseq |-> e.cseq]
      BY <1>2, <1>5, <2>1
    <3>. QED
      BY <3>3, <3>4, <3>5 DEF Asked
  <2>2. CASE e.ret = "more"
    BY <1>1, <1>2, <1>5, <2>2 DEF Typed
  <2>. QED
    BY <1>4, <2>1, <2>2
<1>10. Typed'
  BY <1>1, <1>2, <1>4, <1>5, <1>6, <1>7, <1>9 DEF Typed
<1>11. Texts'
  BY <1>1, <1>2 DEF Texts
<1>12. Told'
  BY <1>1, <1>2 DEF Told, Responses, Requests
<1>13. Control'
  BY <1>1, <1>2, <1>4, <1>5, <1>7 DEF Control, InHandler, InClientHandler
<1>14. Quiet'
  BY <1>1, <1>2 DEF Quiet, NewEnds
<1>15. DownFlow'
  BY <1>1, <1>2, DownKept
<1>. QED
  BY <1>8, <1>10, <1>11, <1>12, <1>13, <1>14, <1>15 DEF Invariant

\* A handler of the server returns.
LEMMA StepServerReturns == ASSUME Invariant, ServerReturns PROVE Invariant'
<1>1. Typed /\ Texts /\ Told /\ Control /\ Quiet /\ UpFlow /\ DownFlow
  BY DEF Invariant
<1>2. /\ InHandler /\ HandlerReturns /\ owed' = None
      /\ upward' = Awaited(serverEnd', IF serverPc = "request" THEN Rest(upward) ELSE upward)
      /\ UNCHANGED <<request, outbox, clientPc, downward, listening, down>>
  BY DEF ServerReturns, HandlerReturns, requestVars
<1>3. serverPc \in {"request", "onclose"}
  BY <1>1, <1>2 DEF Typed, InHandler
<1>4. CASE ~session.isAlive
  <2>1. Deleted /\ serverPc' = "idle"
    BY <1>2, <1>4 DEF HandlerReturns
  <2>2. upward' = <<>>
    BY <1>2, <2>1 DEF Deleted, Awaited
  <2>3. owed' \in Asked \cup {None}
    BY <1>2
  <2>. QED
    BY <1>2, <2>1, <2>2, <2>3, StepDeleted DEF ClientAlone
<1>5. CASE session.isAlive /\ serverPc = "request"
  <2> DEFINE d == session.request
             n == d.offset
  <2>1. /\ session' = [session EXCEPT !.isInHandler = FALSE, !.request = NewDecoder]
        /\ inbox' = After(inbox, n) /\ serverPc' = "ondata"
        /\ UNCHANGED <<up, clientEnd, serverEnd>>
    BY <1>2, <1>5 DEF HandlerReturns
  <2>2. serverEnd \notin {"none", "closed"}
    <3>1. serverEnd # "closed"
      BY <1>1, <1>5 DEF Control
    <3>2. Flow("request", inbox, up, upward, clientEnd, "request", d)
      BY <1>1, <1>5, <3>1 DEF UpFlow
    <3>3. upward # <<>>
      BY <3>2, HandedOver
    <3>. QED
      BY <1>1, <3>1, <3>3 DEF Quiet
  <2>3. upward' = Rest(upward)
    BY <1>2, <1>5, <2>1, <2>2 DEF Awaited
  <2>4. Flow("request", inbox, up, upward, clientEnd, "request", d)
    BY <1>1, <1>5, <2>2 DEF UpFlow
  <2>5. inbox \in Text /\ upward \in Seq(Sendable)
    BY <1>1 DEF Texts
  <2>6. SessionTyped' /\ session'.request = NewDecoder /\ session'.isInHandler = FALSE
    <3> DEFINE e == NewDecoder
    <3>1. session' = [session EXCEPT !.isInHandler = FALSE, !.request = e]
      BY <2>1
    <3> HIDE DEF e
    <3>2. SessionTyped' /\ session'.request = e /\ session'.isInHandler = FALSE
      BY <1>1, <3>1 DEF Typed, SessionTyped
    <3>. QED
      BY <3>2 DEF e
  <2> HIDE DEF d
  <2>7. /\ upward # <<>> /\ n \in Nat /\ n <= Len(inbox)
        /\ Flow("request", After(inbox, n), up, Tail(upward), clientEnd, "ondata", NewDecoder)
    <3>1. "ondata" # "request"
      OBVIOUS
    <3>. QED
      BY <2>4, <3>1, HandedOver
  <2> HIDE DEF n
  <2>8. upward' = Tail(upward) /\ upward' \in Seq(Sendable) /\ Requests(upward')
    <3>1. Rest(upward) = Tail(upward) /\ Tail(upward) \in Seq(Sendable) /\ Requests(Tail(upward))
      BY <1>1, <2>7, <2>5, ToldRest DEF Told
    <3>. QED
      BY <2>3, <3>1
  <2>9. inbox' \in Text
    BY <2>1, <2>5, <2>7, AfterType
  <2>10. inbox' # <<>> => inbox'[Len(inbox')] \notin {CR, Colon}
    <3>1. SUFFICES ASSUME After(inbox, n) # <<>>
                   PROVE  After(inbox, n)[Len(After(inbox, n))] \notin {CR, Colon}
      BY <2>1
    <3>2. After(inbox, n)[Len(After(inbox, n))] = inbox[Len(inbox)] /\ inbox # <<>>
      BY <2>5, <2>7, <3>1, LastOfRest
    <3>. QED
      BY <1>1, <3>2 DEF Control
  <2>11. RequestTyped'
    BY <1>1, <1>2 DEF Typed, RequestTyped
  <2>12. Typed'
    BY <1>1, <1>2, <2>1, <2>6, <2>11 DEF Typed
  <2>13. Texts'
    BY <1>1, <1>2, <2>1, <2>8, <2>9 DEF Texts
  <2>14. Told'
    BY <1>1, <1>2, <2>8 DEF Told, Responses, Requests
  <2>15. Control'
    BY <1>1, <1>2, <2>1, <2>2, <2>6, <2>10 DEF Control, InHandler, InClientHandler
  <2>16. Quiet'
    BY <1>1, <1>2, <1>5, <2>1, <2>2 DEF Quiet, NewEnds
  <2>17. UpFlow'
    BY <2>1, <2>6, <2>7, <2>8 DEF UpFlow
  <2>18. DownFlow'
    BY <1>1, <1>2, <2>1, DownKept
  <2>. QED
    BY <2>12, <2>13, <2>14, <2>15, <2>16, <2>17, <2>18 DEF Invariant
<1>6. CASE session.isAlive /\ serverPc = "onclose"
  <2>1. /\ session' = [session EXCEPT !.isInHandler = FALSE]
        /\ inbox' = inbox /\ serverPc' = "idle" /\ UNCHANGED <<up, clientEnd, serverEnd>>
    <3>1. session.isAlive /\ serverPc # "request"
      BY <1>6
    <3>. QED
      BY <1>1, <1>2, <3>1 DEF HandlerReturns, Typed, SessionTyped
  <2>2. SessionTyped' /\ session'.request = session.request /\ session'.isInHandler = FALSE
    BY <1>1, <2>1 DEF Typed, SessionTyped
  <2>3. RequestTyped'
    BY <1>1, <1>2 DEF Typed, RequestTyped
  <2>4. upward' = Awaited(serverEnd', upward)
    BY <1>2, <1>6
  <2>5. /\ upward' \in {<<>>, upward} /\ upward' \in Seq(Sendable) /\ Requests(upward')
        /\ serverEnd' # "closed" => upward' = upward
    BY <2>1, <2>4, AwaitedUp
  <2>6. Typed'
    BY <1>1, <1>2, <2>1, <2>2, <2>3 DEF Typed
  <2>7. Texts'
    BY <1>1, <1>2, <2>1, <2>5 DEF Texts
  <2>8. Told'
    BY <1>1, <1>2, <2>5 DEF Told, Responses, Requests
  <2>9. Control'
    BY <1>1, <1>2, <2>1, <2>2 DEF Control, InHandler, InClientHandler
  <2>10. Quiet'
    BY <1>1, <1>2, <1>6, <2>1, <2>2, <2>5 DEF Quiet, NewEnds
  <2>11. UpFlow'
    BY <1>1, <1>6, <2>1, <2>2, <2>5, UpKept
  <2>12. DownFlow'
    BY <1>1, <1>2, <2>1, DownKept
  <2>. QED
    BY <2>6, <2>7, <2>8, <2>9, <2>10, <2>11, <2>12 DEF Invariant
<1>. QED
  BY <1>1, <1>3, <1>4, <1>5, <1>6 DEF Typed, SessionTyped

-----------------------------------------------------------------------------
(***************************************************************************)
(* The client's steps.                                                     *)
(***************************************************************************)
\* They leave the server's side of it alone.
ServerAlone == UNCHANGED <<session, listening, inbox, serverPc, upward, up, owed>>

LEMMA AwaitedDown ==
    ASSUME Invariant, downward' = Awaited(clientEnd', downward)
    PROVE  /\ downward' \in Seq(Sendable) /\ Responses(downward')
           /\ clientEnd' \notin {"none", "closed"} => downward' = downward
           /\ clientEnd' \in {"none", "closed"} => downward' = <<>>
<1>1. downward \in Seq(Sendable) /\ Responses(downward)
  BY DEF Invariant, Texts, Told
<1>2. /\ clientEnd' \notin {"none", "closed"} => downward' = downward
      /\ clientEnd' \in {"none", "closed"} => downward' = <<>>
  BY DEF Awaited
<1>3. <<>> \in Seq(Sendable)
  OBVIOUS
<1>. QED
  BY <1>1, <1>2, <1>3, NothingTold

\* The client is deleted.
LEMMA StepReleased ==
    ASSUME Invariant, Released, clientPc' = "idle", downward' = <<>>, ServerAlone
    PROVE  Invariant'
<1>1. Typed /\ Texts /\ Told /\ Control /\ Quiet /\ UpFlow /\ DownFlow
  BY DEF Invariant
<1>2. /\ request' = [request EXCEPT !.mem = "freed", !.isAlive = FALSE, !.isInHandler = FALSE]
      /\ clientEnd' = "closed" /\ serverEnd' = Hears(serverEnd) /\ outbox' = <<>> /\ down' = <<>>
  BY DEF Released
<1>3. RequestTyped' /\ request'.isInHandler = FALSE
  BY <1>1, <1>2 DEF Typed, RequestTyped
<1>4. SessionTyped'
  BY <1>1 DEF Typed, SessionTyped, ServerAlone
<1>5. /\ serverEnd' \in Ends \ {"connecting"}
      /\ (serverEnd' = "closed") <=> (serverEnd = "closed")
      /\ (serverEnd' = "none") <=> (serverEnd = "none")
      /\ serverEnd \in Gone => serverEnd' \in Gone
  BY <1>1, <1>2, HearsIs DEF Typed
<1>6. Typed'
  BY <1>1, <1>2, <1>3, <1>4, <1>5 DEF Typed, Ends, ServerAlone
<1>7. Texts'
  <2>1. <<>> \in Text /\ <<>> \in Seq(Sendable)
    BY DEF Text
  <2>. QED
    BY <1>1, <1>2, <2>1 DEF Texts, ServerAlone
<1>8. Told'
  BY <1>1, NothingTold DEF Told, ServerAlone, Requests, Responses
<1>9. Control'
  BY <1>1, <1>2, <1>3, <1>5 DEF Control, InHandler, InClientHandler, ServerAlone
<1>10. Quiet'
  BY <1>1, <1>2, <1>5 DEF Quiet, NewEnds, ServerAlone
<1>11. UpFlow'
  BY <1>1, <1>2, <1>5, UpKept DEF ServerAlone, Gone
<1>12. DownFlow'
  BY <1>2 DEF DownFlow, Taken
<1>. QED
  BY <1>6, <1>7, <1>8, <1>9, <1>10, <1>11, <1>12 DEF Invariant

\* The steps of the client's own that come from outside a read.
ClientOutside == downward' = Awaited(clientEnd', downward) /\ ServerAlone

\* The client's steps outside a read.
LEMMA StepLaunch == ASSUME Invariant, Launch, ClientOutside PROVE Invariant'
<1>1. Typed /\ Texts /\ Told /\ Control /\ Quiet /\ UpFlow /\ DownFlow
  BY DEF Invariant
<1>2. /\ clientEnd = "none" /\ clientEnd' = "connecting"
      /\ UNCHANGED <<request, outbox, clientPc, up, down, serverEnd>>
  BY DEF Launch, requestVars
<1>3. downward' = downward
  BY <1>2, AwaitedDown DEF ClientOutside
<1>4. SessionTyped' /\ RequestTyped'
  BY <1>1, <1>2 DEF Typed, SessionTyped, RequestTyped, ClientOutside, ServerAlone
<1>5. Typed'
  BY <1>1, <1>2, <1>4 DEF Typed, Ends, ClientOutside, ServerAlone
<1>6. Texts'
  BY <1>1, <1>2, <1>3 DEF Texts, ClientOutside, ServerAlone
<1>7. Told'
  BY <1>1, <1>3 DEF Told, Responses, Requests, ClientOutside, ServerAlone
<1>8. Control'
  BY <1>1, <1>2 DEF Control, InHandler, InClientHandler, ClientOutside, ServerAlone
<1>9. Quiet'
  BY <1>1, <1>2, <1>3 DEF Quiet, NewEnds, ClientOutside, ServerAlone
<1>10. UpFlow'
  BY <1>1, <1>2, UpKept DEF Gone, ClientOutside, ServerAlone
<1>11. DownFlow'
  BY <1>1, <1>2, <1>3, DownKept
<1>. QED
  BY <1>5, <1>6, <1>7, <1>8, <1>9, <1>10, <1>11 DEF Invariant

LEMMA StepRequestDestroy == ASSUME Invariant, RequestDestroy, ClientOutside PROVE Invariant'
<1>1. Typed /\ Texts /\ Told /\ Control /\ Quiet /\ UpFlow /\ DownFlow
  BY DEF Invariant
<1>2. /\ clientPc = "idle" \/ InClientHandler
      /\ clientPc' = clientPc
      /\ IF request.isInHandler
         THEN /\ request' = [request EXCEPT !.isAlive = FALSE]
              /\ UNCHANGED <<outbox, down, clientEnd, serverEnd>>
         ELSE Released
  BY DEF RequestDestroy, MayCall
<1>3. CASE ~request.isInHandler
  <2>1. clientPc' = "idle" /\ Released
    BY <1>1, <1>2, <1>3 DEF Control
  <2>2. downward' = <<>>
    BY <2>1, AwaitedDown DEF Released, ClientOutside
  <2>. QED
    BY <2>1, <2>2, StepReleased DEF ClientOutside
<1>4. CASE request.isInHandler
  <2>1. /\ request' = [request EXCEPT !.isAlive = FALSE]
        /\ UNCHANGED <<clientPc, outbox, down, clientEnd, serverEnd>>
    BY <1>2, <1>4
  <2>2. /\ downward' \in Seq(Sendable) /\ Responses(downward')
        /\ clientEnd \notin {"none", "closed"} => downward' = downward
        /\ clientEnd \in {"none", "closed"} => downward' = <<>>
    BY <2>1, AwaitedDown DEF ClientOutside
  <2>3. RequestTyped' /\ request'.isInHandler = request.isInHandler
        /\ request'.response = request.response
    BY <1>1, <2>1 DEF Typed, RequestTyped
  <2>4. SessionTyped'
    BY <1>1 DEF Typed, SessionTyped, ClientOutside, ServerAlone
  <2>5. Typed'
    BY <1>1, <2>1, <2>3, <2>4 DEF Typed, ClientOutside, ServerAlone
  <2>6. Texts'
    BY <1>1, <2>1, <2>2 DEF Texts, ClientOutside, ServerAlone
  <2>7. Told'
    BY <1>1, <2>2 DEF Told, Responses, Requests, ClientOutside, ServerAlone
  <2>8. Control'
    BY <1>1, <2>1, <2>3 DEF Control, InHandler, InClientHandler, ClientOutside, ServerAlone
  <2>9. Quiet'
    BY <1>1, <2>1, <2>2 DEF Quiet, NewEnds, ClientOutside, ServerAlone
  <2>10. UpFlow'
    BY <1>1, <2>1, UpKept DEF ClientOutside, ServerAlone
  <2>11. clientEnd = "none" => downward' = downward
    BY <1>1, <2>2 DEF Quiet
  <2>12. DownFlow'
    BY <1>1, <2>1, <2>2, <2>3, <2>11, DownKept
  <2>. QED
    BY <2>5, <2>6, <2>7, <2>8, <2>9, <2>10, <2>12 DEF Invariant
<1>. QED
  BY <1>3, <1>4

LEMMA StepOnConnected == ASSUME Invariant, OnConnected, ClientOutside PROVE Invariant'
<1>1. Typed /\ Texts /\ Told /\ Control /\ Quiet /\ UpFlow /\ DownFlow
  BY DEF Invariant
<1>2. /\ clientPc = "idle" /\ clientPc' = "onconnected"
      /\ request' = [request EXCEPT !.isInHandler = TRUE]
      /\ \/ clientEnd = "established" /\ clientEnd' = "open" /\ down' = down
         \/ clientEnd = "refused" /\ clientEnd' = "none" /\ down' = <<>>
      /\ UNCHANGED <<outbox, up, serverEnd>>
  BY DEF OnConnected, EnterHandler
<1>3. /\ downward' \in Seq(Sendable) /\ Responses(downward')
      /\ clientEnd' \notin {"none", "closed"} => downward' = downward
      /\ clientEnd' \in {"none", "closed"} => downward' = <<>>
  BY AwaitedDown DEF ClientOutside
<1>4. RequestTyped' /\ request'.isInHandler = TRUE
  BY <1>1, <1>2 DEF Typed, RequestTyped
<1>5. SessionTyped'
  BY <1>1 DEF Typed, SessionTyped, ClientOutside, ServerAlone
<1>6. Typed'
  BY <1>1, <1>2, <1>4, <1>5 DEF Typed, Ends, ClientOutside, ServerAlone
<1>7. Texts'
  <2>1. <<>> \in Text
    BY DEF Text
  <2>. QED
    BY <1>1, <1>2, <1>3, <2>1 DEF Texts, ClientOutside, ServerAlone
<1>8. Told'
  BY <1>1, <1>3 DEF Told, Responses, Requests, ClientOutside, ServerAlone
<1>9. Control'
  BY <1>1, <1>2, <1>4 DEF Control, InHandler, InClientHandler, ClientOutside, ServerAlone
<1>10. Quiet'
  BY <1>1, <1>2, <1>3 DEF Quiet, NewEnds, ClientOutside, ServerAlone
<1>11. CASE clientEnd = "established" /\ clientEnd' = "open"
  <2>1. UpFlow'
    BY <1>1, <1>2, <1>11, UpKept DEF ClientOutside, ServerAlone, Gone
  <2>2. down' = down /\ downward' = downward
    BY <1>2, <1>3, <1>11
  <2>3. DownFlow'
    BY <1>1, <1>2, <1>11, <2>2, DownKept
  <2>. QED
    BY <1>6, <1>7, <1>8, <1>9, <1>10, <2>1, <2>3 DEF Invariant
<1>12. CASE clientEnd = "refused" /\ clientEnd' = "none"
  <2>1. /\ up' = <<>> /\ inbox' = <<>> /\ upward' = <<>> /\ serverPc' = "idle"
        /\ session'.request = NewDecoder /\ outbox' = <<>>
    BY <1>1, <1>2, <1>12 DEF Quiet, NewEnds, ClientOutside, ServerAlone
  <2>2. UpFlow'
    BY <2>1, FlowNothing DEF UpFlow
  <2>3. down' = <<>> /\ downward' = <<>>
    BY <1>2, <1>3, <1>12
  <2>4. DownFlow'
    BY <1>2, <2>1, <2>3, FlowNothing DEF DownFlow
  <2>. QED
    BY <1>6, <1>7, <1>8, <1>9, <1>10, <2>2, <2>4 DEF Invariant
<1>. QED
  BY <1>2, <1>11, <1>12

LEMMA StepNothingLeft == ASSUME Invariant, NothingLeft, ClientOutside PROVE Invariant'
<1>1. Typed /\ Texts /\ Told /\ Control /\ Quiet /\ UpFlow /\ DownFlow
  BY DEF Invariant
<1>2. /\ clientPc = "ondata" /\ clientPc' = "idle"
      /\ UNCHANGED <<request, outbox, up, down, clientEnd, serverEnd>>
  BY DEF NothingLeft, streamVars
<1>3. /\ downward' \in Seq(Sendable) /\ Responses(downward')
      /\ clientEnd \notin {"none", "closed"} => downward' = downward
      /\ clientEnd \in {"none", "closed"} => downward' = <<>>
  BY <1>2, AwaitedDown DEF ClientOutside
<1>4. SessionTyped' /\ RequestTyped'
  BY <1>1, <1>2 DEF Typed, SessionTyped, RequestTyped, ClientOutside, ServerAlone
<1>5. Typed'
  BY <1>1, <1>2, <1>4 DEF Typed, ClientOutside, ServerAlone
<1>6. Texts'
  BY <1>1, <1>2, <1>3 DEF Texts, ClientOutside, ServerAlone
<1>7. Told'
  BY <1>1, <1>3 DEF Told, Responses, Requests, ClientOutside, ServerAlone
<1>8. Control'
  BY <1>1, <1>2 DEF Control, InHandler, InClientHandler, ClientOutside, ServerAlone
<1>9. Quiet'
  BY <1>1, <1>2, <1>3 DEF Quiet, NewEnds, ClientOutside, ServerAlone
<1>10. UpFlow'
  BY <1>1, <1>2, UpKept DEF ClientOutside, ServerAlone
<1>11. clientEnd = "none" => downward' = downward
  BY <1>1, <1>3 DEF Quiet
<1>12. DownFlow'
  BY <1>1, <1>2, <1>3, <1>11, DownKept
<1>. QED
  BY <1>5, <1>6, <1>7, <1>8, <1>9, <1>10, <1>12 DEF Invariant

LEMMA StepRequestOnClose == ASSUME Invariant, RequestOnClose, ClientOutside PROVE Invariant'
<1>1. Typed /\ Texts /\ Told /\ Control /\ Quiet /\ UpFlow /\ DownFlow
  BY DEF Invariant
<1>2. /\ clientPc = "idle" /\ clientEnd = "closing" /\ clientEnd' = "closed"
      /\ clientPc' = "onclose" /\ request' = [request EXCEPT !.isInHandler = TRUE]
      /\ UNCHANGED <<outbox, up, down, serverEnd>>
  BY DEF RequestOnClose, EnterHandler
<1>3. downward' = <<>> /\ downward' \in Seq(Sendable) /\ Responses(downward')
  BY <1>2, AwaitedDown DEF ClientOutside
<1>4. RequestTyped' /\ request'.isInHandler = TRUE
  BY <1>1, <1>2 DEF Typed, RequestTyped
<1>5. SessionTyped'
  BY <1>1 DEF Typed, SessionTyped, ClientOutside, ServerAlone
<1>6. Typed'
  BY <1>1, <1>2, <1>4, <1>5 DEF Typed, Ends, ClientOutside, ServerAlone
<1>7. Texts'
  BY <1>1, <1>2, <1>3 DEF Texts, ClientOutside, ServerAlone
<1>8. Told'
  BY <1>1, <1>3 DEF Told, Responses, Requests, ClientOutside, ServerAlone
<1>9. Control'
  BY <1>1, <1>2, <1>4 DEF Control, InHandler, InClientHandler, ClientOutside, ServerAlone
<1>10. Quiet'
  BY <1>1, <1>2, <1>3 DEF Quiet, NewEnds, ClientOutside, ServerAlone
<1>11. UpFlow'
  BY <1>1, <1>2, UpKept DEF ClientOutside, ServerAlone, Gone
<1>12. DownFlow'
  BY <1>2 DEF DownFlow, Taken
<1>. QED
  BY <1>6, <1>7, <1>8, <1>9, <1>10, <1>11, <1>12 DEF Invariant

\* The client's reads.
LEMMA StepClientRead == ASSUME Invariant, ClientRead PROVE Invariant'
<1>1. Typed /\ Texts /\ Told /\ Control /\ Quiet /\ UpFlow /\ DownFlow
  BY DEF Invariant
<1>2. /\ clientPc = "idle" /\ clientEnd \in {"open", "closing"} /\ clientPc' = "ondata"
      /\ UNCHANGED <<request, up, clientEnd, serverEnd>>
      /\ UNCHANGED <<session, listening, inbox, serverPc, upward, downward, owed>>
  BY DEF ClientRead, ClientReads, Cut, sessionVars
<1>3. PICK n \in DownPieces : outbox' = outbox \o SubSeq(down, 1, n) /\ down' = After(down, n)
  BY DEF ClientRead, ClientReads
<1>4. outbox \in Text /\ down \in Text /\ n \in 1 .. Len(down)
  BY <1>1, <1>3 DEF Texts, DownPieces
<1>5. n \in Nat /\ n <= Len(down)
  BY <1>4 DEF Text
<1>6. outbox' \in Text
  <2> DEFINE z == outbox \o SubSeq(down, 1, n)
  <2>1. z \in Text
    BY <1>4, LastOfPiece
  <2>. QED
    BY <1>3, <2>1
<1>7. down' \in Text
  BY <1>3, <1>4, <1>5, AfterType
<1>8. Typed'
  BY <1>1, <1>2 DEF Typed, SessionTyped, RequestTyped
<1>9. Texts'
  BY <1>1, <1>2, <1>6, <1>7 DEF Texts
<1>10. Told'
  BY <1>1, <1>2 DEF Told, Responses, Requests
<1>11. Control'
  BY <1>1, <1>2 DEF Control, InHandler, InClientHandler
<1>12. Quiet'
  BY <1>1, <1>2 DEF Quiet, NewEnds
<1>13. UpFlow'
  BY <1>1, <1>2, UpKept
<1>14. DownFlow'
  <2> DEFINE d == NewDecoder
  <2>1. Flow("response", outbox, down, downward, serverEnd, clientPc, d)
    BY <1>1, <1>2 DEF DownFlow
  <2> HIDE DEF d
  <2>2. clientPc # "response" /\ clientPc' # "response"
    BY <1>2
  <2>3. Flow("response", outbox \o SubSeq(down, 1, n), After(down, n), downward, serverEnd,
             clientPc', d)
    BY <1>5, <2>1, <2>2, FlowPiece
  <2>. QED
    BY <1>2, <1>3, <2>3 DEF DownFlow, d
<1>. QED
  BY <1>8, <1>9, <1>10, <1>11, <1>12, <1>13, <1>14 DEF Invariant

LEMMA StepClientFrame == ASSUME Invariant, ClientFrame PROVE Invariant'
<1>1. Typed /\ Texts /\ Told /\ Control /\ Quiet /\ UpFlow /\ DownFlow
  BY DEF Invariant
<1>2. /\ clientPc = "ondata" /\ outbox # <<>> /\ outbox[1] = Dollar
      /\ IF FrameComplete(outbox)
         THEN outbox' = After(outbox, FrameSize(outbox)) /\ clientPc' = clientPc
         ELSE clientPc' = "idle" /\ outbox' = outbox
      /\ UNCHANGED <<request, up, down, clientEnd, serverEnd>>
      /\ UNCHANGED <<session, listening, inbox, serverPc, upward, owed>>
      /\ downward' = FrameTaken(outbox, downward)
  BY DEF ClientFrame, RequestFrame, sessionVars, streamVars
<1>3. SessionTyped' /\ RequestTyped'
  BY <1>1, <1>2 DEF Typed, SessionTyped, RequestTyped
<1>4. clientPc' \in {"idle", "ondata"}
  BY <1>2
<1>5. Typed'
  BY <1>1, <1>2, <1>3, <1>4 DEF Typed
<1>6. UpFlow'
  BY <1>1, <1>2, UpKept
<1>7. Control'
  BY <1>1, <1>2, <1>4 DEF Control, InHandler, InClientHandler
<1>8. clientEnd \notin NewEnds /\ clientEnd # "closed"
  BY <1>1, <1>2 DEF Quiet, Control
<1>9. Quiet'
  BY <1>1, <1>2, <1>8 DEF Quiet, NewEnds
<1>10. CASE FrameComplete(outbox)
  <2> DEFINE d == NewDecoder
             n == FrameSize(outbox)
  <2>1. Flow("response", outbox, down, downward, serverEnd, clientPc, d)
    BY <1>1, <1>2, <1>8 DEF DownFlow
  <2> HIDE DEF d
  <2>2. clientPc # "response"
    BY <1>2
  <2>3. /\ downward # <<>> /\ n = 6 /\ 6 <= Len(outbox)
        /\ Flow("response", After(outbox, n), down, Tail(downward), serverEnd, clientPc, d)
    BY <1>2, <1>10, <2>1, <2>2, FlowFrame
  <2>4. outbox' = After(outbox, n) /\ n \in Nat /\ n <= Len(outbox) /\ clientPc' = clientPc
    BY <1>2, <1>10, <2>3
  <2> HIDE DEF n
  <2>5. downward \in Seq(Sendable) /\ outbox \in Text
    BY <1>1 DEF Texts
  <2>6. downward' = Tail(downward) /\ downward' \in Seq(Sendable) /\ Responses(downward')
    <3>1. Rest(downward) = Tail(downward) /\ Tail(downward) \in Seq(Sendable)
          /\ Responses(Tail(downward))
      BY <1>1, <2>3, <2>5, ToldRest DEF Told
    <3>. QED
      BY <1>2, <1>10, <3>1 DEF FrameTaken
  <2>7. outbox' \in Text
    BY <2>4, <2>5, AfterType
  <2>8. Texts'
    BY <1>1, <1>2, <2>6, <2>7 DEF Texts
  <2>9. Told'
    BY <1>1, <1>2, <2>6 DEF Told, Responses, Requests
  <2>10. DownFlow'
    BY <1>2, <2>3, <2>4, <2>6 DEF DownFlow, d
  <2>. QED
    BY <1>5, <1>6, <1>7, <1>9, <2>8, <2>9, <2>10 DEF Invariant
<1>11. CASE ~FrameComplete(outbox)
  <2>1. clientPc' = "idle" /\ outbox' = outbox /\ downward' = downward
    BY <1>2, <1>11 DEF FrameTaken
  <2>2. Texts'
    BY <1>1, <1>2, <2>1 DEF Texts
  <2>3. Told'
    BY <1>1, <1>2, <2>1 DEF Told, Responses, Requests
  <2>4. DownFlow'
    BY <1>1, <1>2, <1>8, <2>1, DownKept
  <2>. QED
    BY <1>5, <1>6, <1>7, <1>9, <2>2, <2>3, <2>4 DEF Invariant
<1>. QED
  BY <1>10, <1>11

\* The first Session header there is.
LEMMA SessionIsFirst ==
    ASSUME NEW r, r.heads \in Seq(Header), SessionHeads(r) # {},
           Values(r, "Session") \subseteq {Granted}
    PROVE  /\ FirstSession(r) \in SessionHeads(r)
           /\ r.heads[FirstSession(r)].value = Granted
<1> DEFINE T == SessionHeads(r)
<1>1. T \subseteq Nat /\ T # {}
  BY DEF SessionHeads
<1>2. \E i \in T : \A j \in T : i <= j
  <2> DEFINE R == OpToRel(<, Nat)
  <2>1. IsWellFoundedOn(R, Nat)
    BY NatLessThanWellFounded
  <2>2. PICK i \in T : \A j \in T : <<j, i>> \notin R
    <3> HIDE DEF T, R
    <3>. QED
      BY <1>1, <2>1, WFMin
  <2> HIDE DEF T
  <2>3. \A j \in T : i <= j
    <3> SUFFICES ASSUME NEW j \in T, ~(i <= j) PROVE FALSE
      OBVIOUS
    <3>1. j \in Nat /\ i \in Nat /\ j < i
      BY <1>1
    <3>2. <<j, i>> \in R
      BY <3>1 DEF OpToRel
    <3>. QED
      BY <2>2, <3>2
  <2>. QED
    BY <2>3
<1>3. FirstSession(r) \in T
  BY <1>2 DEF FirstSession
<1>4. r.heads[FirstSession(r)].value \in Values(r, "Session")
  BY <1>3 DEF SessionHeads, Values
<1>. QED
  BY <1>3, <1>4

\* Only the headers differ in what the handler is given.
LEMMA HandledIs ==
    ASSUME NEW r \in Decoder
    PROVE  /\ Handled(r).offset = r.offset /\ Handled(r).cseq = r.cseq
           /\ Read(Handled(r)) = [Read(r) EXCEPT !.heads = Handled(r).heads]
           /\ Handled(r) \in {r, [r EXCEPT !.heads = Handled(r).heads]}
<1> DEFINE j == FirstSession(r)
           hs == [r.heads EXCEPT ![j].value = <<@[1]>>]
<1>1. Handled(r) = r \/ Handled(r) = [r EXCEPT !.heads = hs]
  BY DEF Handled
<1> HIDE DEF j, hs
<1>2. CASE Handled(r) = r
  BY <1>2 DEF Read
<1>3. CASE Handled(r) = [r EXCEPT !.heads = hs]
  <2>1. /\ Handled(r).offset = r.offset /\ Handled(r).cseq = r.cseq /\ Handled(r).heads = hs
        /\ Handled(r).method = r.method /\ Handled(r).code = r.code /\ Handled(r).body = r.body
    BY <1>3 DEF Decoder
  <2>2. Read(Handled(r)) = [Read(r) EXCEPT !.heads = hs]
    BY <2>1 DEF Read
  <2>. QED
    BY <1>3, <2>1, <2>2
<1>. QED
  BY <1>1, <1>2, <1>3

\* What the client keeps of a response of the server.
LEMMA KeptTyped ==
    ASSUME RequestTyped, NEW r, r.heads \in Seq(Header), Values(r, "Session") \subseteq {Granted}
    PROVE  LET k == Kept(r)
           IN /\ k \in [mem : {"live", "freed"}, isAlive : BOOLEAN, isInHandler : BOOLEAN,
                        cseq : 0 .. MaxRequests, current : Methods \cup {"NONE"},
                        serverMethods : BOOLEAN, sessionId : {None, SessionId},
                        timeout : {k.timeout}, response : {request.response}]
              /\ k.mem = request.mem /\ k.isAlive = request.isAlive
<1> DEFINE id == SessionHeads(r)
           v == r.heads[FirstSession(r)].value
           n == IF Len(v) = 3 THEN Atoi(<<v[3]>>) ELSE 0
           k == Kept(r)
<1>1. id # {} => v = Granted
  BY SessionIsFirst
<1>2. Granted[1] = SessionId
  BY DEF Granted
<1>3. id # {} => v[1] = SessionId
  BY <1>1, <1>2
<1>4. \/ k = [request EXCEPT !.serverMethods = TRUE]
      \/ id # {} /\ k = [request EXCEPT !.sessionId = v[1], !.timeout = n]
      \/ k = request
  BY DEF Kept
<1> HIDE DEF k, n, v, id
<1>5. CASE k = [request EXCEPT !.serverMethods = TRUE]
  BY <1>5 DEF RequestTyped, k
<1>6. CASE id # {} /\ k = [request EXCEPT !.sessionId = v[1], !.timeout = n]
  <2>1. k = [request EXCEPT !.sessionId = SessionId, !.timeout = n]
    BY <1>3, <1>6
  <2>. QED
    BY <2>1 DEF RequestTyped, k
<1>7. CASE k = request
  BY <1>7 DEF RequestTyped, k
<1>. QED
  BY <1>4, <1>5, <1>6, <1>7

LEMMA StepClientText == ASSUME Invariant, ClientText PROVE Invariant'
<1>1. Typed /\ Texts /\ Told /\ Control /\ Quiet /\ UpFlow /\ DownFlow
  BY DEF Invariant
<1> DEFINE d == NewDecoder
           e == Decode("response", d, outbox)
<1>2. /\ clientPc = "ondata" /\ outbox # <<>> /\ outbox[1] # Dollar
      /\ request' = [IF e.ret = "done" THEN Kept(e) ELSE request
                     EXCEPT !.response = IF e.ret = "done" THEN Handled(e) ELSE e,
                            !.isInHandler = e.ret # "more"]
      /\ clientPc' = CASE e.ret = "done" -> "response"
                       [] e.ret = "bad"  -> "badResponse"
                       [] e.ret = "more" -> "idle"
      /\ UNCHANGED <<outbox, up, down, clientEnd, serverEnd>>
      /\ UNCHANGED <<session, listening, inbox, serverPc, upward, downward, owed>>
  BY DEF ClientText, ResponseArrives, sessionVars, streamVars, DecodeResponse, ResponseDecoder
<1>3. clientEnd \notin NewEnds /\ clientEnd # "closed"
  BY <1>1, <1>2 DEF Quiet, Control
<1>4. Flow("response", outbox, down, downward, serverEnd, clientPc, d)
  BY <1>1, <1>2, <1>3 DEF DownFlow
<1> HIDE DEF d
<1>5. /\ e.ret \in {"done", "more"}
      /\ e.ret = "done" => Flow("response", outbox, down, downward, serverEnd, "response", e)
  <2>1. clientPc # "response"
    BY <1>2
  <2>. QED
    BY <1>2, <1>4, <2>1, FlowText
<1> HIDE DEF e
<1>6. SessionTyped'
  BY <1>1, <1>2 DEF Typed, SessionTyped
<1>7. /\ e.ret = "done" => clientPc' = "response"
      /\ e.ret = "more" => clientPc' = "idle"
  BY <1>2
<1>8. CASE e.ret = "done"
  <2> DEFINE k == Kept(e)
             x == Head(downward)
  <2>1. Flow("response", outbox, down, downward, serverEnd, "response", e)
    BY <1>5, <1>8
  <2>2. downward # <<>> /\ Read(e) = x /\ x # Frame
    BY <2>1, HandedOver
  <2>3. Values(x, "Session") \subseteq {Granted}
    <3>1. downward \in Seq(Sendable) /\ Responses(downward)
      BY <1>1 DEF Texts, Told
    <3>2. 1 \in 1 .. Len(downward) /\ x = downward[1]
      BY <2>2, <3>1
    <3> HIDE DEF x
    <3>. QED
      BY <2>2, <3>1, <3>2 DEF Responses
  <2> HIDE DEF x
  <2>4. Values(e, "Session") \subseteq {Granted}
    <3>1. e.heads = x.heads
      <4>1. Read(e).heads = e.heads
        BY DEF Read
      <4>. QED
        BY <2>2, <4>1
    <3>. QED
      BY <2>3, <3>1 DEF Values
  <2>5. /\ k \in [mem : {"live", "freed"}, isAlive : BOOLEAN, isInHandler : BOOLEAN,
                  cseq : 0 .. MaxRequests, current : Methods \cup {"NONE"},
                  serverMethods : BOOLEAN, sessionId : {None, SessionId},
                  timeout : {k.timeout}, response : {request.response}]
        /\ k.mem = request.mem /\ k.isAlive = request.isAlive
    <3>1. e.heads \in Seq(Header)
      BY <2>1, HeldType DEF Decoder
    <3>. QED
      BY <1>1, <2>4, <3>1, KeptTyped DEF Typed
  <2> HIDE DEF k
  <2>6. request' = [k EXCEPT !.response = Handled(e), !.isInHandler = TRUE]
    BY <1>2, <1>8 DEF k
  <2>7. RequestTyped' /\ request'.response = Handled(e) /\ request'.isInHandler = TRUE
    BY <1>1, <2>5, <2>6 DEF Typed, RequestTyped
  <2>8. Typed'
    BY <1>1, <1>2, <1>6, <1>7, <1>8, <2>7 DEF Typed
  <2>9. Texts'
    BY <1>1, <1>2 DEF Texts
  <2>10. Told'
    BY <1>1, <1>2 DEF Told, Responses, Requests
  <2>11. Control'
    BY <1>1, <1>2, <1>3, <1>7, <1>8, <2>7 DEF Control, InHandler, InClientHandler
  <2>12. Quiet'
    BY <1>1, <1>2, <1>3 DEF Quiet, NewEnds
  <2>13. UpFlow'
    BY <1>1, <1>2, UpKept
  <2>14. DownFlow'
    <3>1. e = Taken /\ Taken' = Taken
      BY <1>2 DEF Taken, e, d
    <3>2. Handled(e).offset = e.offset
      BY <2>1, HeldType, HandledIs
    <3>. QED
      BY <1>2, <1>7, <1>8, <2>1, <2>7, <3>1, <3>2 DEF DownFlow
  <2>. QED
    BY <2>8, <2>9, <2>10, <2>11, <2>12, <2>13, <2>14 DEF Invariant
<1>9. CASE e.ret = "more"
  <2>1. request' = [request EXCEPT !.response = e, !.isInHandler = FALSE]
    BY <1>2, <1>9
  <2>2. RequestTyped' /\ request'.isInHandler = FALSE
    BY <1>1, <2>1 DEF Typed, RequestTyped
  <2>3. Typed'
    BY <1>1, <1>2, <1>6, <1>7, <1>9, <2>2 DEF Typed
  <2>4. Texts'
    BY <1>1, <1>2 DEF Texts
  <2>5. Told'
    BY <1>1, <1>2 DEF Told, Responses, Requests
  <2>6. Control'
    BY <1>1, <1>2, <1>3, <1>7, <1>9, <2>2 DEF Control, InHandler, InClientHandler
  <2>7. Quiet'
    BY <1>1, <1>2, <1>3 DEF Quiet, NewEnds
  <2>8. UpFlow'
    BY <1>1, <1>2, UpKept
  <2>9. DownFlow'
    BY <1>1, <1>2, <1>3, <1>7, <1>9, DownKept
  <2>. QED
    BY <2>3, <2>4, <2>5, <2>6, <2>7, <2>8, <2>9 DEF Invariant
<1>. QED
  BY <1>5, <1>8, <1>9

\* A handler of the client returns.
LEMMA StepClientReturns == ASSUME Invariant, ClientReturns PROVE Invariant'
<1>1. Typed /\ Texts /\ Told /\ Control /\ Quiet /\ UpFlow /\ DownFlow
  BY DEF Invariant
<1>2. /\ InClientHandler /\ ClientHandlerReturns
      /\ downward' = Awaited(clientEnd', IF clientPc = "response" THEN Rest(downward)
                                                                   ELSE downward)
      /\ UNCHANGED <<session, listening, inbox, serverPc, upward, up, owed>>
  BY DEF ClientReturns, ClientHandlerReturns, sessionVars
<1>3. clientPc \in {"onconnected", "response", "onclose"}
  BY <1>1, <1>2 DEF Typed, InClientHandler
<1>4. SessionTyped'
  BY <1>1, <1>2 DEF Typed, SessionTyped
<1>5. CASE ~request.isAlive
  <2>1. Released /\ clientPc' = "idle"
    BY <1>2, <1>5 DEF ClientHandlerReturns
  <2>2. downward' = <<>>
    BY <1>2, <2>1 DEF Released, Awaited
  <2>. QED
    BY <1>2, <2>1, <2>2, StepReleased DEF ServerAlone
<1>6. CASE request.isAlive /\ clientPc = "response"
  <2> DEFINE d == Taken
             n == d.offset
  <2>1. clientEnd \notin NewEnds /\ clientEnd # "closed"
    BY <1>1, <1>6 DEF Quiet, Control
  <2>2. /\ request' = [request EXCEPT !.isInHandler = FALSE, !.response = NewDecoder]
        /\ outbox' = After(outbox, n) /\ clientPc' = "ondata"
        /\ UNCHANGED <<down, clientEnd, serverEnd>>
    <3>1. request.response.offset = n
      BY <1>1, <1>6, <2>1 DEF DownFlow
    <3>. QED
      BY <1>2, <1>6, <3>1 DEF ClientHandlerReturns
  <2>3. downward' = Rest(downward)
    BY <1>2, <1>6, <2>2, <2>1 DEF Awaited, NewEnds
  <2>4. Flow("response", outbox, down, downward, serverEnd, "response", d)
    BY <1>1, <1>6, <2>1 DEF DownFlow
  <2>5. outbox \in Text /\ downward \in Seq(Sendable)
    BY <1>1 DEF Texts
  <2>6. RequestTyped' /\ request'.isInHandler = FALSE
    BY <1>1, <2>2 DEF Typed, RequestTyped
  <2> HIDE DEF d
  <2>7. /\ downward # <<>> /\ n \in Nat /\ n <= Len(outbox)
        /\ Flow("response", After(outbox, n), down, Tail(downward), serverEnd, "ondata",
                NewDecoder)
    <3>1. "ondata" # "response"
      OBVIOUS
    <3>. QED
      BY <2>4, <3>1, HandedOver
  <2> HIDE DEF n
  <2>8. downward' = Tail(downward) /\ downward' \in Seq(Sendable) /\ Responses(downward')
    <3>1. Rest(downward) = Tail(downward) /\ Tail(downward) \in Seq(Sendable)
          /\ Responses(Tail(downward))
      BY <1>1, <2>7, <2>5, ToldRest DEF Told
    <3>. QED
      BY <2>3, <3>1
  <2>9. outbox' \in Text
    BY <2>2, <2>5, <2>7, AfterType
  <2>10. Typed'
    BY <1>1, <1>2, <1>4, <2>2, <2>6 DEF Typed
  <2>11. Texts'
    BY <1>1, <1>2, <2>2, <2>8, <2>9 DEF Texts
  <2>12. Told'
    BY <1>1, <1>2, <2>8 DEF Told, Responses, Requests
  <2>13. Control'
    BY <1>1, <1>2, <2>2, <2>1, <2>6 DEF Control, InHandler, InClientHandler
  <2>14. Quiet'
    BY <1>1, <1>2, <2>2, <2>1 DEF Quiet, NewEnds
  <2>15. UpFlow'
    BY <1>1, <1>2, <2>2, UpKept
  <2>16. DownFlow'
    BY <2>2, <2>7, <2>8 DEF DownFlow
  <2>. QED
    BY <2>10, <2>11, <2>12, <2>13, <2>14, <2>15, <2>16 DEF Invariant
<1>7. CASE request.isAlive /\ clientPc \in {"onconnected", "onclose"}
  <2>1. /\ request' = [request EXCEPT !.isInHandler = FALSE]
        /\ outbox' = outbox /\ clientPc' = "idle" /\ UNCHANGED <<down, clientEnd, serverEnd>>
    <3>1. request.isAlive /\ clientPc # "response"
      BY <1>7
    <3>. QED
      BY <1>1, <1>2, <3>1 DEF ClientHandlerReturns, Typed, RequestTyped
  <2>2. RequestTyped' /\ request'.isInHandler = FALSE
    BY <1>1, <2>1 DEF Typed, RequestTyped
  <2>3. downward' = Awaited(clientEnd', downward)
    BY <1>2, <1>7
  <2>4. /\ downward' \in Seq(Sendable) /\ Responses(downward')
        /\ clientEnd \notin {"none", "closed"} => downward' = downward
        /\ clientEnd \in {"none", "closed"} => downward' = <<>>
    BY <2>1, <2>3, AwaitedDown
  <2>5. Typed'
    BY <1>1, <1>2, <1>4, <2>1, <2>2 DEF Typed
  <2>6. Texts'
    BY <1>1, <1>2, <2>1, <2>4 DEF Texts
  <2>7. Told'
    BY <1>1, <1>2, <2>4 DEF Told, Responses, Requests
  <2>8. Control'
    BY <1>1, <1>2, <2>1, <2>2 DEF Control, InHandler, InClientHandler
  <2>9. Quiet'
    BY <1>1, <1>2, <2>1, <2>4 DEF Quiet, NewEnds
  <2>10. UpFlow'
    BY <1>1, <1>2, <2>1, UpKept
  <2>11. clientEnd = "none" => downward' = downward
    BY <1>1, <2>4 DEF Quiet
  <2>12. DownFlow'
    BY <1>1, <1>2, <1>7, <2>1, <2>4, <2>11, DownKept
  <2>. QED
    BY <2>5, <2>6, <2>7, <2>8, <2>9, <2>10, <2>12 DEF Invariant
<1>. QED
  BY <1>1, <1>3, <1>5, <1>6, <1>7 DEF Typed, RequestTyped

-----------------------------------------------------------------------------
(***************************************************************************)
(* The network's steps, and every step.                                    *)
(***************************************************************************)
LEMMA StepEstablish ==
    ASSUME Invariant, Establish(listening), UNCHANGED <<sessionVars, requestVars, ghostVars>>
    PROVE  Invariant'
<1>1. Typed /\ Texts /\ Told /\ Control /\ Quiet /\ UpFlow /\ DownFlow
  BY DEF Invariant
<1>2. /\ clientEnd = "connecting"
      /\ \/ clientEnd' = "established" /\ serverEnd' = "established"
         \/ clientEnd' = "refused" /\ serverEnd' = serverEnd
      /\ UNCHANGED <<up, down>>
      /\ UNCHANGED <<listening, session, inbox, serverPc>>
      /\ UNCHANGED <<request, outbox, clientPc>>
      /\ UNCHANGED <<upward, downward, owed>>
  BY DEF Establish, sessionVars, requestVars, ghostVars
<1>3. /\ up = <<>> /\ inbox = <<>> /\ outbox = <<>> /\ upward = <<>> /\ serverPc = "idle"
      /\ session.request = NewDecoder /\ clientPc \in {"idle", "onconnected"}
      /\ down = <<>> /\ downward = <<>> /\ serverEnd \in {"none", "closed"}
  BY <1>1, <1>2 DEF Quiet, NewEnds
<1>4. SessionTyped' /\ RequestTyped'
  BY <1>1, <1>2 DEF Typed, SessionTyped, RequestTyped
<1>5. Typed'
  BY <1>1, <1>2, <1>4 DEF Typed, Ends
<1>6. Texts'
  BY <1>1, <1>2 DEF Texts
<1>7. Told'
  BY <1>1, <1>2 DEF Told, Responses, Requests
<1>8. Control'
  BY <1>1, <1>2, <1>3 DEF Control, InHandler, InClientHandler
<1>9. Quiet'
  BY <1>1, <1>2, <1>3 DEF Quiet, NewEnds
<1>10. UpFlow'
  <2>1. "idle" # "request"
    OBVIOUS
  <2>2. Flow("request", <<>>, <<>>, <<>>, clientEnd', "idle", NewDecoder)
    BY <2>1, FlowNothing
  <2>. QED
    BY <1>2, <1>3, <2>2 DEF UpFlow
<1>11. DownFlow'
  <2>1. clientPc' # "response"
    BY <1>2, <1>3
  <2>2. Flow("response", <<>>, <<>>, <<>>, serverEnd', clientPc', NewDecoder)
    BY <2>1, FlowNothing
  <2>. QED
    BY <1>2, <1>3, <2>1, <2>2 DEF DownFlow
<1>. QED
  BY <1>5, <1>6, <1>7, <1>8, <1>9, <1>10, <1>11 DEF Invariant

LEMMA StepBreak ==
    ASSUME Invariant, Break, UNCHANGED <<sessionVars, requestVars, ghostVars>>
    PROVE  Invariant'
<1>1. Typed /\ Texts /\ Told /\ Control /\ Quiet /\ UpFlow /\ DownFlow
  BY DEF Invariant
<1>2. /\ clientEnd = "open" /\ clientEnd' = "closing" /\ serverEnd' = Hears(serverEnd)
      /\ up' = <<>> /\ down' = <<>>
      /\ UNCHANGED <<listening, session, inbox, serverPc>>
      /\ UNCHANGED <<request, outbox, clientPc>>
      /\ UNCHANGED <<upward, downward, owed>>
  BY DEF Break, Hears, sessionVars, requestVars, ghostVars
<1>3. /\ serverEnd \notin {"none", "connecting"}
      /\ serverEnd' \in Ends \ {"connecting", "none"} /\ serverEnd' \in Gone
      /\ (serverEnd' = "closed") <=> (serverEnd = "closed")
  <2>1. serverEnd \in Ends \ {"none", "connecting"}
    BY <1>1, <1>2 DEF Typed, Quiet
  <2>. QED
    BY <1>2, <2>1, HearsIs
<1>4. SessionTyped' /\ RequestTyped'
  BY <1>1, <1>2 DEF Typed, SessionTyped, RequestTyped
<1>5. Typed'
  BY <1>1, <1>2, <1>3, <1>4 DEF Typed, Ends
<1>6. Texts'
  <2>1. <<>> \in Text
    BY DEF Text
  <2>. QED
    BY <1>1, <1>2, <2>1 DEF Texts
<1>7. Told'
  BY <1>1, <1>2 DEF Told, Responses, Requests
<1>8. Control'
  BY <1>1, <1>2, <1>3 DEF Control, InHandler, InClientHandler
<1>9. Quiet'
  BY <1>1, <1>2, <1>3 DEF Quiet, NewEnds
<1>10. UpFlow'
  <2> DEFINE d == session.request
  <2>1. SUFFICES ASSUME serverEnd' # "closed"
                 PROVE  Flow("request", inbox, <<>>, upward, "closing", serverPc, d)
    BY <1>2 DEF UpFlow
  <2>2. Flow("request", inbox, up, upward, clientEnd, serverPc, d)
    BY <1>1, <1>3, <2>1 DEF UpFlow
  <2>3. "closing" \in Gone
    BY DEF Gone
  <2> HIDE DEF d
  <2>. QED
    BY <2>2, <2>3, FlowLost
<1>11. DownFlow'
  <2> DEFINE d == IF clientPc = "response" THEN Taken ELSE NewDecoder
  <2>1. Flow("response", outbox, down, downward, serverEnd, clientPc, d)
    BY <1>1, <1>2 DEF DownFlow
  <2> HIDE DEF d
  <2>2. Flow("response", outbox, <<>>, downward, serverEnd', clientPc, d)
    BY <1>3, <2>1, FlowLost
  <2>. QED
    BY <1>1, <1>2, <2>2 DEF DownFlow, Taken, d
<1>. QED
  BY <1>5, <1>6, <1>7, <1>8, <1>9, <1>10, <1>11 DEF Invariant

LEMMA StepStutter == ASSUME Invariant, UNCHANGED vars PROVE Invariant'
<1>1. /\ UNCHANGED <<up, down, clientEnd, serverEnd, listening, session, inbox, serverPc>>
      /\ UNCHANGED <<request, outbox, clientPc, upward, downward, owed>>
  BY DEF vars, streamVars, sessionVars, requestVars, ghostVars
<1>2. Typed'
  BY <1>1 DEF Invariant, Typed, SessionTyped, RequestTyped
<1>3. Texts'
  BY <1>1 DEF Invariant, Texts
<1>4. Told'
  BY <1>1 DEF Invariant, Told, Requests, Responses
<1>5. Control'
  BY <1>1 DEF Invariant, Control, InHandler, InClientHandler
<1>6. Quiet'
  BY <1>1 DEF Invariant, Quiet, NewEnds
<1>7. UpFlow'
  BY <1>1, UpKept DEF Invariant
<1>8. DownFlow'
  BY <1>1, DownKept DEF Invariant
<1>. QED
  BY <1>2, <1>3, <1>4, <1>5, <1>6, <1>7, <1>8 DEF Invariant

LEMMA StepServer == ASSUME Tame, Invariant, ServerStep PROVE Invariant'
<1>1. CASE /\ ServerStart \/ ServerStop \/ Accept \/ AllRead \/ SessionOnClose \/ SessionEnd
           /\ Outside
  BY <1>1, StepServerStart, StepServerStop, StepAccept, StepAllRead, StepSessionOnClose,
     StepSessionEnd
<1>2. CASE ServerRead
  BY <1>2, StepServerRead
<1>3. CASE ServerFrame
  BY <1>3, StepServerFrame
<1>4. CASE ServerText
  BY <1>4, StepServerText
<1>5. CASE ServerReturns
  BY <1>5, StepServerReturns
<1>. QED
  BY <1>1, <1>2, <1>3, <1>4, <1>5 DEF ServerStep, Outside, requestVars

LEMMA StepClient == ASSUME Invariant, ClientStep PROVE Invariant'
<1>1. CASE /\ Launch \/ RequestDestroy \/ OnConnected \/ NothingLeft \/ RequestOnClose
           /\ ClientOutside
  BY <1>1, StepLaunch, StepRequestDestroy, StepOnConnected, StepNothingLeft, StepRequestOnClose
<1>2. CASE ClientRead
  BY <1>2, StepClientRead
<1>3. CASE ClientFrame
  BY <1>3, StepClientFrame
<1>4. CASE ClientText
  BY <1>4, StepClientText
<1>5. CASE ClientReturns
  BY <1>5, StepClientReturns
<1>6. ASSUME Launch \/ RequestDestroy \/ OnConnected \/ NothingLeft \/ RequestOnClose
      PROVE  UNCHANGED up
  BY <1>6 DEF Launch, RequestDestroy, OnConnected, NothingLeft, RequestOnClose, streamVars
<1>. QED
  BY <1>1, <1>2, <1>3, <1>4, <1>5, <1>6 DEF ClientStep, ClientOutside, ServerAlone, sessionVars

\* Every step keeps the invariant.
LEMMA InvariantNext == ASSUME Tame, Invariant, [Next]_vars PROVE Invariant'
<1>1. ASSUME NEW method \in Callable, Ask(method) PROVE Invariant'
  BY <1>1, StepAsk
<1>2. CASE FrameUp
  BY <1>2, StepFrameUp
<1>3. CASE Answer
  BY <1>3, StepAnswer
<1>4. CASE FrameDown
  BY <1>4, StepFrameDown
<1>5. CASE ServerStep
  BY <1>5, StepServer
<1>6. CASE ClientStep
  BY <1>6, StepClient
<1>7. CASE Network
  BY <1>7, StepEstablish, StepBreak DEF Network
<1>8. CASE UNCHANGED vars
  BY <1>8, StepStutter
<1>. QED
  BY <1>1, <1>2, <1>3, <1>4, <1>5, <1>6, <1>7, <1>8 DEF Next

-----------------------------------------------------------------------------
(***************************************************************************)
(* A stream that holds nothing but frames, or one message among frames.    *)
(***************************************************************************)
OnlyFrames(s) == \A i \in 1 .. Len(s) : s[i] = Frame
Single(s, x) == /\ x # Frame
                /\ \E i \in 1 .. Len(s) : /\ s[i] = x
                                          /\ \A j \in 1 .. Len(s) : j # i => s[j] = Frame

\* What a step that sends or hands over no message makes of a stream.
Less(s, t) == \/ t = s
              \/ t = <<>>
              \/ t = Append(s, Frame)
              \/ s # <<>> /\ Head(s) = Frame /\ t = Tail(s)

\* What its reader has not got yet: the message in the handler has been got.
Waiting(pc, kind, s) == IF pc = kind THEN Rest(s) ELSE s

\* Sequences with one element more and one less.
LEMMA AppendIs ==
    ASSUME NEW S, NEW s \in Seq(S), NEW x \in S
    PROVE  LET w == Append(s, x)
           IN /\ w \in Seq(S) /\ Len(w) = Len(s) + 1 /\ w[Len(s) + 1] = x
              /\ \A i \in 1 .. Len(s) : w[i] = s[i]
              /\ Len(s) \in Nat
              /\ \A i \in 1 .. Len(w) : i \in 1 .. Len(s) \/ i = Len(s) + 1
OBVIOUS

LEMMA TailIs ==
    ASSUME NEW S, NEW s \in Seq(S), s # <<>>
    PROVE  LET w == Tail(s)
           IN /\ w \in Seq(S) /\ Len(w) = Len(s) - 1 /\ Head(s) = s[1]
              /\ \A i \in 1 .. Len(w) : w[i] = s[i + 1]
              /\ Len(s) \in Nat /\ Len(s) >= 1
              /\ \A i \in 1 .. Len(w) : i \in Nat /\ i + 1 \in 1 .. Len(s)
              /\ \A i \in 1 .. Len(s) : i = 1 \/ i - 1 \in 1 .. Len(w)
OBVIOUS

\* Frames come and go among frames.
LEMMA OnlyFramesLess ==
    ASSUME NEW s \in Seq(Sendable), OnlyFrames(s), NEW t, Less(s, t)
    PROVE  OnlyFrames(t)
<1>1. CASE t = Append(s, Frame)
  <2> DEFINE w == Append(s, Frame)
  <2>1. Frame \in Sendable
    BY DEF Sendable
  <2>2. /\ w[Len(s) + 1] = Frame /\ \A i \in 1 .. Len(s) : w[i] = s[i]
        /\ \A i \in 1 .. Len(w) : i \in 1 .. Len(s) \/ i = Len(s) + 1
    BY <2>1, AppendIs
  <2> HIDE DEF w
  <2>3. OnlyFrames(w)
    BY <2>2 DEF OnlyFrames
  <2>. QED
    BY <1>1, <2>3 DEF w
<1>2. CASE s # <<>> /\ t = Tail(s)
  <2> DEFINE w == Tail(s)
  <2>1. /\ \A i \in 1 .. Len(w) : w[i] = s[i + 1]
        /\ \A i \in 1 .. Len(w) : i \in Nat /\ i + 1 \in 1 .. Len(s)
    BY <1>2, TailIs
  <2> HIDE DEF w
  <2>2. OnlyFrames(w)
    BY <2>1 DEF OnlyFrames
  <2>. QED
    BY <1>2, <2>2 DEF w
<1>3. OnlyFrames(<<>>)
  BY DEF OnlyFrames
<1>. QED
  BY <1>1, <1>2, <1>3 DEF Less

\* A message joins frames, is first among them, and stays alone.
LEMMA SingleSent ==
    ASSUME NEW s \in Seq(Sendable), OnlyFrames(s), NEW x \in Sendable, x # Frame
    PROVE  Single(Append(s, x), x)
<1> DEFINE w == Append(s, x)
<1>1. /\ w[Len(s) + 1] = x /\ \A i \in 1 .. Len(s) : w[i] = s[i]
      /\ Len(w) = Len(s) + 1 /\ Len(s) \in Nat
      /\ \A i \in 1 .. Len(w) : i \in 1 .. Len(s) \/ i = Len(s) + 1
  BY AppendIs
<1> HIDE DEF w
<1> DEFINE n == Len(s) + 1
<1>2. n \in 1 .. Len(w) /\ w[n] = x
  BY <1>1
<1>3. \A j \in 1 .. Len(w) : j # n => w[j] = Frame
  BY <1>1 DEF OnlyFrames
<1> HIDE DEF n
<1>4. Single(w, x)
  BY <1>2, <1>3 DEF Single
<1>. QED
  BY <1>4 DEF w

LEMMA SingleFirst ==
    ASSUME NEW s \in Seq(Sendable), s # <<>>, Head(s) # Frame
    PROVE  /\ ~OnlyFrames(s)
           /\ \A x : Single(s, x) => x = Head(s) /\ OnlyFrames(Tail(s))
<1> DEFINE w == Tail(s)
<1>1. /\ Len(w) = Len(s) - 1 /\ Head(s) = s[1]
      /\ \A i \in 1 .. Len(w) : w[i] = s[i + 1]
      /\ Len(s) \in Nat /\ Len(s) >= 1
      /\ \A i \in 1 .. Len(w) : i \in Nat /\ i + 1 \in 1 .. Len(s)
  BY TailIs
<1> HIDE DEF w
<1>2. 1 \in 1 .. Len(s) /\ s[1] # Frame
  BY <1>1
<1>3. ~OnlyFrames(s)
  BY <1>2 DEF OnlyFrames
<1>4. ASSUME NEW x, Single(s, x) PROVE x = s[1] /\ OnlyFrames(w)
  <2>1. PICK i \in 1 .. Len(s) : s[i] = x /\ \A j \in 1 .. Len(s) : j # i => s[j] = Frame
    BY <1>4 DEF Single
  <2>2. i = 1
    BY <1>2, <2>1
  <2>3. ASSUME NEW j \in 1 .. Len(w) PROVE w[j] = Frame
    <3>1. j \in Nat /\ j >= 1 /\ j + 1 \in 1 .. Len(s) /\ w[j] = s[j + 1]
      BY <1>1, <2>3
    <3>2. j + 1 # 1
      BY <3>1
    <3>. QED
      BY <2>1, <2>2, <3>1, <3>2
  <2>4. OnlyFrames(w)
    BY <2>3 DEF OnlyFrames
  <2>. QED
    BY <2>1, <2>2, <2>4
<1>. QED
  BY <1>1, <1>3, <1>4 DEF w

LEMMA SingleLess ==
    ASSUME NEW s \in Seq(Sendable), NEW x, Single(s, x), NEW t, Less(s, t)
    PROVE  Single(t, x) \/ OnlyFrames(t)
<1>1. x # Frame
  BY DEF Single
<1>2. PICK i \in 1 .. Len(s) : s[i] = x /\ \A j \in 1 .. Len(s) : j # i => s[j] = Frame
  BY DEF Single
<1>3. CASE t = Append(s, Frame)
  <2> DEFINE w == Append(s, Frame)
  <2>1. Frame \in Sendable
    BY DEF Sendable
  <2>2. /\ w[Len(s) + 1] = Frame /\ \A k \in 1 .. Len(s) : w[k] = s[k]
        /\ Len(w) = Len(s) + 1 /\ Len(s) \in Nat
        /\ \A k \in 1 .. Len(w) : k \in 1 .. Len(s) \/ k = Len(s) + 1
    BY <2>1, AppendIs
  <2> HIDE DEF w
  <2>3. i \in 1 .. Len(w) /\ w[i] = x
    BY <1>2, <2>2
  <2>4. \A j \in 1 .. Len(w) : j # i => w[j] = Frame
    BY <1>2, <2>2
  <2>5. Single(w, x)
    BY <1>1, <2>3, <2>4 DEF Single
  <2>. QED
    BY <1>3, <2>5 DEF w
<1>4. CASE s # <<>> /\ Head(s) = Frame /\ t = Tail(s)
  <2> DEFINE w == Tail(s)
  <2>1. /\ Len(w) = Len(s) - 1 /\ Head(s) = s[1] /\ Len(s) \in Nat
        /\ \A k \in 1 .. Len(w) : w[k] = s[k + 1]
        /\ \A k \in 1 .. Len(w) : k \in Nat /\ k + 1 \in 1 .. Len(s)
        /\ \A k \in 1 .. Len(s) : k = 1 \/ k - 1 \in 1 .. Len(w)
    BY <1>4, TailIs
  <2> HIDE DEF w
  <2> DEFINE k == i - 1
  <2>2. i # 1 /\ i \in Nat
    BY <1>1, <1>2, <1>4, <2>1
  <2>3. k \in 1 .. Len(w) /\ k + 1 = i
    BY <1>2, <2>1, <2>2
  <2> HIDE DEF k
  <2>4. w[k] = x
    BY <1>2, <2>1, <2>3
  <2>5. ASSUME NEW j \in 1 .. Len(w), j # k PROVE w[j] = Frame
    <3>1. j \in Nat /\ j + 1 \in 1 .. Len(s) /\ w[j] = s[j + 1]
      BY <2>1, <2>5
    <3>2. j + 1 # i
      BY <2>1, <2>3, <2>5, <3>1
    <3>. QED
      BY <1>2, <3>1, <3>2
  <2>6. Single(w, x)
    BY <1>1, <2>3, <2>4, <2>5 DEF Single
  <2>. QED
    BY <1>4, <2>6 DEF w
<1>5. OnlyFrames(<<>>)
  BY DEF OnlyFrames
<1>. QED
  BY <1>3, <1>4, <1>5 DEF Less

\* What is sent goes to the end of what waits, and a frame that is handed over
\* is taken from its front.
LEMMA WaitingIs ==
    ASSUME NEW pc, NEW kind, NEW s \in Seq(Sendable), pc = kind => s # <<>>
    PROVE  /\ Waiting(pc, kind, s) \in Seq(Sendable)
           /\ \A x \in Sendable : Waiting(pc, kind, Append(s, x)) = Append(Waiting(pc, kind, s), x)
           /\ Waiting(pc, kind, <<>>) = <<>>
<1>1. CASE pc # kind
  BY <1>1 DEF Waiting
<1>2. CASE pc = kind
  <2>1. Rest(s) = Tail(s) /\ Tail(s) \in Seq(Sendable)
    BY <1>2, ToldRest
  <2>2. ASSUME NEW x \in Sendable PROVE Rest(Append(s, x)) = Append(Tail(s), x)
    <3>1. Append(s, x) # <<>> /\ Append(s, x) \in Seq(Sendable)
      OBVIOUS
    <3>2. Tail(Append(s, x)) = Append(Tail(s), x)
      BY <1>2
    <3>. QED
      BY <3>1, <3>2 DEF Rest
  <2>. QED
    BY <1>2, <2>1, <2>2 DEF Waiting, Rest
<1>. QED
  BY <1>1, <1>2

-----------------------------------------------------------------------------
(***************************************************************************)
(* The dialogue: u and v are what the server and the client have not got   *)
(* yet, a and o what the client's user waits for and the server's user     *)
(* owes, d the request in the handler.                                     *)
(***************************************************************************)
Carried(x, a, sid) ==
    a.method \notin Plain /\ sid # None => Values(x, "Session") = {<<SessionId>>}
AsksFor(x, a, sid) == x.method = a.method /\ x.cseq = a.cseq /\ Carried(x, a, sid)
Answers(x, a) == /\ x.cseq = a.cseq
                 /\ a.method = "SETUP" => Values(x, "Session") = {Granted}
                 /\ IF a.method = "SETUP" THEN SessionHeads(x) = {2} ELSE SessionHeads(x) = {}

\* Nothing is under way; or a request is, or is being served, or its response is.
Idle(u, v, o) == OnlyFrames(u) /\ OnlyFrames(v) /\ o = None
OnItsWay(u, v, a, o, sid) ==
    /\ a # None /\ o = None /\ OnlyFrames(v)
    /\ \E x : Single(u, x) /\ AsksFor(x, a, sid)
Served(u, v, a, o, sid, d, pc) ==
    /\ a # None /\ o = a /\ OnlyFrames(u) /\ OnlyFrames(v)
    /\ pc = "request" /\ Carried(d, a, sid)
OnItsWayBack(u, v, a, o) ==
    /\ a # None /\ o = None /\ OnlyFrames(u)
    /\ \E x : Single(v, x) /\ Answers(x, a)

\* The session id that the client does not know yet is on its way to it.
Knows(u, a, o, sid, iss) ==
    iss # None /\ sid = None => a # None /\ a.method = "SETUP" /\ o = None /\ OnlyFrames(u)

Dialogue(u, v, a, o, sid, cur, iss, d, pc) ==
    /\ a \in Asked \cup {None} /\ iss \in {None, SessionId}
    /\ a # None => cur = a.method
    /\ Knows(u, a, o, sid, iss)
    /\ \/ Idle(u, v, o)
       \/ OnItsWay(u, v, a, o, sid)
       \/ Served(u, v, a, o, sid, d, pc)
       \/ OnItsWayBack(u, v, a, o)

\* Streams that lose or gain a frame, or are cut off, keep the dialogue going.
LEMMA DialogueLess ==
    ASSUME NEW u \in Seq(Sendable), NEW v \in Seq(Sendable), NEW a, NEW o, NEW sid, NEW cur,
           NEW iss, NEW d, NEW pc, Dialogue(u, v, a, o, sid, cur, iss, d, pc),
           NEW u2, Less(u, u2), NEW v2, Less(v, v2), NEW o2, NEW d2, NEW pc2,
           o2 = None \/ (o2 = o /\ d2 = d /\ pc2 = pc)
    PROVE  Dialogue(u2, v2, a, o2, sid, cur, iss, d2, pc2)
<1>1. /\ a \in Asked \cup {None} /\ iss \in {None, SessionId}
      /\ a # None => cur = a.method
      /\ Knows(u, a, o, sid, iss)
      /\ \/ Idle(u, v, o)
         \/ OnItsWay(u, v, a, o, sid)
         \/ Served(u, v, a, o, sid, d, pc)
         \/ OnItsWayBack(u, v, a, o)
  BY DEF Dialogue
<1>2. /\ OnlyFrames(u) => OnlyFrames(u2)
      /\ OnlyFrames(v) => OnlyFrames(v2)
  BY OnlyFramesLess
<1>3. /\ \A x : Single(u, x) => Single(u2, x) \/ OnlyFrames(u2)
      /\ \A x : Single(v, x) => Single(v2, x) \/ OnlyFrames(v2)
  BY SingleLess
<1>4. Knows(u2, a, o2, sid, iss)
  BY <1>1, <1>2 DEF Knows
<1>5. \/ Idle(u2, v2, o2)
      \/ OnItsWay(u2, v2, a, o2, sid)
      \/ Served(u2, v2, a, o2, sid, d2, pc2)
      \/ OnItsWayBack(u2, v2, a, o2)
  <2>1. CASE Idle(u, v, o)
    BY <1>2, <2>1 DEF Idle
  <2>2. CASE OnItsWay(u, v, a, o, sid)
    <3>1. PICK x : Single(u, x) /\ AsksFor(x, a, sid)
      BY <2>2 DEF OnItsWay
    <3>2. o2 = None /\ a # None /\ OnlyFrames(v2)
      BY <1>2, <2>2 DEF OnItsWay
    <3>3. Single(u2, x) \/ OnlyFrames(u2)
      BY <1>3, <3>1
    <3>. QED
      BY <3>1, <3>2, <3>3 DEF OnItsWay, Idle
  <2>3. CASE Served(u, v, a, o, sid, d, pc)
    BY <1>2, <2>3 DEF Served, Idle
  <2>4. CASE OnItsWayBack(u, v, a, o)
    <3>1. PICK x : Single(v, x) /\ Answers(x, a)
      BY <2>4 DEF OnItsWayBack
    <3>2. o2 = None /\ a # None /\ OnlyFrames(u2)
      BY <1>2, <2>4 DEF OnItsWayBack
    <3>3. Single(v2, x) \/ OnlyFrames(v2)
      BY <1>3, <3>1
    <3>. QED
      BY <3>1, <3>2, <3>3 DEF OnItsWayBack, Idle
  <2>. QED
    BY <1>1, <2>1, <2>2, <2>3, <2>4
<1>. QED
  BY <1>1, <1>4, <1>5 DEF Dialogue

Unserved == Waiting(serverPc, "request", upward)
Undelivered == Waiting(clientPc, "response", downward)
Protocol == Dialogue(Unserved, Undelivered, asked, owed, request.sessionId, request.current,
                     issued, session.request, serverPc)

\* The dialogue at the start.
LEMMA ProtocolInit == Init => Protocol
<1> SUFFICES ASSUME Init PROVE Protocol
  OBVIOUS
<1> DEFINE none == <<>>
<1>1. /\ serverPc = "idle" /\ clientPc = "idle" /\ upward = none /\ downward = none
      /\ asked = None /\ owed = None /\ issued = None
  BY DEF Init, SessionInit, RequestInit
<1>2. Unserved = none /\ Undelivered = none
  BY <1>1 DEF Unserved, Undelivered, Waiting
<1>3. OnlyFrames(none)
  BY DEF OnlyFrames
<1> HIDE DEF none
<1>. QED
  BY <1>1, <1>2, <1>3 DEF Protocol, Dialogue, Idle, Knows

\* A message that is handed over is what its reader's stream begins with.
LEMMA Waits ==
    ASSUME Invariant
    PROVE  /\ upward \in Seq(Sendable) /\ downward \in Seq(Sendable)
           /\ Unserved \in Seq(Sendable) /\ Undelivered \in Seq(Sendable)
           /\ serverPc = "request" => upward # <<>>
           /\ clientPc = "response" => downward # <<>>
<1>1. upward \in Seq(Sendable) /\ downward \in Seq(Sendable)
  BY DEF Invariant, Texts
<1>2. serverPc = "request" => upward # <<>>
  BY FirstRequest
<1>3. clientPc = "response" => downward # <<>>
  <2> SUFFICES ASSUME clientPc = "response" PROVE downward # <<>>
    OBVIOUS
  <2> DEFINE d == Taken
  <2>1. Flow("response", outbox, down, downward, serverEnd, "response", d)
    BY DEF Invariant, DownFlow, Control
  <2> HIDE DEF d
  <2>. QED
    BY <2>1, HandedOver
<1>. QED
  BY <1>1, <1>2, <1>3, WaitingIs DEF Unserved, Undelivered

\* The steps that neither send nor hand over a message.
LEMMA ProtocolLess ==
    ASSUME Invariant, Protocol, asked' = asked, issued' = issued,
           request'.sessionId = request.sessionId, request'.current = request.current,
           Less(Unserved, Unserved'), Less(Undelivered, Undelivered'),
           \/ owed' = None
           \/ owed' = owed /\ session'.request = session.request /\ serverPc' = serverPc
    PROVE  Protocol'
<1> DEFINE u == Unserved
           v == Undelivered
           u2 == Unserved'
           v2 == Undelivered'
           d == session.request
           sid == request.sessionId
           cur == request.current
           d2 == session'.request
<1>1. u \in Seq(Sendable) /\ v \in Seq(Sendable)
  BY Waits
<1>2. Dialogue(u, v, asked, owed, sid, cur, issued, d, serverPc)
  BY DEF Protocol
<1>3. owed' = None \/ (owed' = owed /\ d2 = d /\ serverPc' = serverPc)
  OBVIOUS
<1>4. Less(u, u2) /\ Less(v, v2)
  OBVIOUS
<1> HIDE DEF u, v, u2, v2, d, d2
<1>5. Dialogue(u2, v2, asked, owed', sid, cur, issued, d2, serverPc')
  <2> HIDE DEF sid, cur
  <2>. QED
    BY <1>1, <1>2, <1>3, <1>4, DialogueLess
<1>. QED
  BY <1>5 DEF Protocol, u2, v2, d2

\* A reader that neither takes up a message nor is done with one.
LEMMA UnservedKept ==
    ASSUME serverPc' = serverPc \/ (serverPc # "request" /\ serverPc' # "request"),
           upward' \in {<<>>, upward}
    PROVE  Less(Unserved, Unserved')
BY DEF Unserved, Waiting, Rest, Less

LEMMA UndeliveredKept ==
    ASSUME clientPc' = clientPc \/ (clientPc # "response" /\ clientPc' # "response"),
           downward' \in {<<>>, downward}
    PROVE  Less(Undelivered, Undelivered')
BY DEF Undelivered, Waiting, Rest, Less

LEMMA UnservedFrame ==
    ASSUME Invariant, serverPc' = serverPc, upward' \in {upward, Append(upward, Frame)}
    PROVE  Less(Unserved, Unserved')
<1>1. Frame \in Sendable
  BY DEF Sendable
<1>2. CASE upward' = upward
  BY <1>2, UnservedKept
<1>3. CASE upward' = Append(upward, Frame)
  <2>1. Waiting(serverPc, "request", Append(upward, Frame)) = Append(Unserved, Frame)
    <3>1. upward \in Seq(Sendable) /\ (serverPc = "request" => upward # <<>>)
      BY Waits
    <3>. QED
      BY <1>1, <3>1, WaitingIs DEF Unserved
  <2>. QED
    BY <1>3, <2>1 DEF Unserved, Less
<1>. QED
  BY <1>2, <1>3

LEMMA UndeliveredFrame ==
    ASSUME Invariant, clientPc' = clientPc, downward' \in {downward, Append(downward, Frame)}
    PROVE  Less(Undelivered, Undelivered')
<1>1. Frame \in Sendable
  BY DEF Sendable
<1>2. CASE downward' = downward
  BY <1>2, UndeliveredKept
<1>3. CASE downward' = Append(downward, Frame)
  <2>1. Waiting(clientPc, "response", Append(downward, Frame)) = Append(Undelivered, Frame)
    <3>1. downward \in Seq(Sendable) /\ (clientPc = "response" => downward # <<>>)
      BY Waits
    <3>. QED
      BY <1>1, <3>1, WaitingIs DEF Undelivered
  <2>. QED
    BY <1>3, <2>1 DEF Undelivered, Less
<1>. QED
  BY <1>2, <1>3

\* Outside the handler nothing is owed.
LEMMA NothingOwed == ASSUME Protocol, serverPc # "request" PROVE owed = None
BY DEF Protocol, Dialogue, Idle, OnItsWay, Served, OnItsWayBack

\* A frame is sent.
LEMMA ProtocolFrameUp == ASSUME Invariant, Protocol, FrameUp PROVE Protocol'
<1>1. /\ upward' \in {upward, Append(upward, Frame)}
      /\ UNCHANGED <<session, serverPc, downward, owed, asked, issued, request, clientPc>>
  BY DEF FrameUp, SendFrameUp, Noted, sessionVars, requestVars
<1>2. Less(Unserved, Unserved') /\ Less(Undelivered, Undelivered')
  BY <1>1, UnservedFrame, UndeliveredKept
<1>. QED
  BY <1>1, <1>2, ProtocolLess

LEMMA ProtocolFrameDown == ASSUME Invariant, Protocol, FrameDown PROVE Protocol'
<1>1. /\ downward' \in {downward, Append(downward, Frame)}
      /\ UNCHANGED <<session, serverPc, upward, owed, asked, issued, request, clientPc>>
  BY DEF FrameDown, Noted, sessionVars, requestVars
<1>2. Less(Unserved, Unserved') /\ Less(Undelivered, Undelivered')
  BY <1>1, UnservedKept, UndeliveredFrame
<1>. QED
  BY <1>1, <1>2, ProtocolLess

\* The steps of the server that read nothing, and its reads.
LEMMA ProtocolOutside ==
    ASSUME Invariant, Protocol, Outside, asked' = asked, issued' = issued,
           ServerStart \/ ServerStop \/ Accept \/ AllRead \/ SessionOnClose \/ SessionEnd
    PROVE  Protocol'
<1>1. UNCHANGED <<request, clientPc, downward, owed>> /\ upward' \in {<<>>, upward}
  BY DEF Outside, Awaited
<1>2. Less(Undelivered, Undelivered')
  BY <1>1, UndeliveredKept
<1>3. CASE ServerStart \/ ServerStop \/ Accept \/ AllRead \/ SessionOnClose
  <2>1. serverPc # "request" /\ serverPc' # "request"
    BY <1>3 DEF ServerStart, ServerStop, Accept, AllRead, SessionOnClose
  <2>2. owed' = None
    BY <1>1, <2>1, NothingOwed
  <2>3. Less(Unserved, Unserved')
    BY <1>1, <2>1, UnservedKept
  <2>. QED
    BY <1>1, <1>2, <2>2, <2>3, ProtocolLess
<1>4. CASE SessionEnd
  <2>1. serverPc' = serverPc /\ session'.request = session.request
    <3>1. session' = [session EXCEPT !.isAlive = FALSE]
          \/ session' = [session EXCEPT !.mem = "freed", !.isAlive = FALSE, !.isInHandler = FALSE]
      BY <1>4 DEF SessionEnd, Deleted
    <3>2. SessionTyped
      BY DEF Invariant, Typed
    <3>. QED
      BY <1>4, <3>1, <3>2 DEF SessionEnd, SessionTyped
  <2>2. Less(Unserved, Unserved')
    BY <1>1, <2>1, UnservedKept
  <2>. QED
    BY <1>1, <1>2, <2>1, <2>2, ProtocolLess
<1>. QED
  BY <1>3, <1>4

\* A piece arrives, and a frame is taken.
LEMMA ProtocolServerRead == ASSUME Invariant, Protocol, ServerRead PROVE Protocol'
<1>1. /\ serverPc # "request" /\ serverPc' # "request"
      /\ UNCHANGED <<request, clientPc, upward, downward, owed, asked, issued>>
  BY DEF ServerRead, ServerReads, Cut, requestVars
<1>2. Less(Unserved, Unserved') /\ Less(Undelivered, Undelivered') /\ owed' = None
  BY <1>1, UnservedKept, UndeliveredKept, NothingOwed
<1>. QED
  BY <1>1, <1>2, ProtocolLess

LEMMA ProtocolServerFrame == ASSUME Invariant, Protocol, ServerFrame PROVE Protocol'
<1>1. /\ serverPc = "ondata" /\ inbox # <<>> /\ inbox[1] = Dollar
      /\ serverPc' \in {"ondata", "idle"}
      /\ upward' = FrameTaken(inbox, upward)
      /\ UNCHANGED <<request, clientPc, downward, owed, asked, issued>>
  BY DEF ServerFrame, SessionFrame, requestVars
<1>2. Less(Undelivered, Undelivered') /\ owed' = None
  BY <1>1, UndeliveredKept, NothingOwed
<1>3. Unserved = upward /\ Unserved' = upward'
  BY <1>1 DEF Unserved, Waiting
<1>4. Less(upward, upward')
  <2>1. CASE FrameComplete(inbox)
    <3> DEFINE d == session.request
    <3>1. Flow("request", inbox, up, upward, clientEnd, serverPc, d)
      BY <1>1 DEF Invariant, UpFlow, Control
    <3> HIDE DEF d
    <3>2. serverPc # "request"
      BY <1>1
    <3>3. upward # <<>> /\ Head(upward) = Frame
      BY <1>1, <2>1, <3>1, <3>2, FlowFrame
    <3>. QED
      BY <1>1, <2>1, <3>3 DEF FrameTaken, Rest, Less
  <2>2. CASE ~FrameComplete(inbox)
    BY <1>1, <2>2 DEF FrameTaken, Less
  <2>. QED
    BY <2>1, <2>2
<1>. QED
  BY <1>1, <1>2, <1>3, <1>4, ProtocolLess

\* A handler of the server returns: what it owed is not owed any more.
LEMMA ProtocolServerReturns == ASSUME Invariant, Protocol, ServerReturns PROVE Protocol'
<1>1. /\ UNCHANGED <<request, clientPc, downward, asked, issued>> /\ owed' = None
      /\ serverPc' # "request"
      /\ upward' \in {<<>>, Unserved}
  BY DEF ServerReturns, HandlerReturns, requestVars, Awaited, Unserved, Waiting
<1>2. Less(Undelivered, Undelivered')
  BY <1>1, UndeliveredKept
<1>3. Less(Unserved, Unserved')
  <2>1. Unserved' = upward'
    BY <1>1 DEF Unserved, Waiting
  <2>. QED
    BY <1>1, <2>1 DEF Less
<1>. QED
  BY <1>1, <1>2, <1>3, ProtocolLess

\* The steps of the client that read nothing, and its reads.
LEMMA ProtocolClientOutside ==
    ASSUME Invariant, Protocol, ClientOutside, asked' = asked, issued' = issued,
           Launch \/ RequestDestroy \/ OnConnected \/ NothingLeft \/ RequestOnClose
    PROVE  Protocol'
<1>1. UNCHANGED <<session, serverPc, upward, owed>> /\ downward' \in {<<>>, downward}
  BY DEF ClientOutside, ServerAlone, Awaited
<1>2. Less(Unserved, Unserved')
  BY <1>1, UnservedKept
<1>3. clientPc' = clientPc \/ (clientPc # "response" /\ clientPc' # "response")
  BY DEF Launch, RequestDestroy, OnConnected, NothingLeft, RequestOnClose, EnterHandler,
     requestVars
<1>4. Less(Undelivered, Undelivered')
  BY <1>1, <1>3, UndeliveredKept
<1>5. request'.sessionId = request.sessionId /\ request'.current = request.current
  <2>1. \/ request' = request
        \/ request' = [request EXCEPT !.isAlive = FALSE]
        \/ request' = [request EXCEPT !.isInHandler = TRUE]
        \/ request' = [request EXCEPT !.mem = "freed", !.isAlive = FALSE, !.isInHandler = FALSE]
    BY DEF Launch, RequestDestroy, OnConnected, NothingLeft, RequestOnClose, EnterHandler,
       Released, requestVars
  <2>2. RequestTyped
    BY DEF Invariant, Typed
  <2>. QED
    BY <2>1, <2>2 DEF RequestTyped
<1>. QED
  BY <1>1, <1>2, <1>4, <1>5, ProtocolLess

LEMMA ProtocolClientRead == ASSUME Invariant, Protocol, ClientRead PROVE Protocol'
<1>1. /\ clientPc # "response" /\ clientPc' # "response"
      /\ UNCHANGED <<request, session, serverPc, upward, downward, owed, asked, issued>>
  BY DEF ClientRead, ClientReads, Cut, sessionVars
<1>2. Less(Unserved, Unserved') /\ Less(Undelivered, Undelivered')
  BY <1>1, UnservedKept, UndeliveredKept
<1>. QED
  BY <1>1, <1>2, ProtocolLess

LEMMA ProtocolClientFrame == ASSUME Invariant, Protocol, ClientFrame PROVE Protocol'
<1>1. /\ clientPc = "ondata" /\ outbox # <<>> /\ outbox[1] = Dollar
      /\ clientPc' \in {"ondata", "idle"}
      /\ downward' = FrameTaken(outbox, downward)
      /\ UNCHANGED <<request, session, serverPc, upward, owed, asked, issued>>
  BY DEF ClientFrame, RequestFrame, sessionVars
<1>2. Less(Unserved, Unserved')
  BY <1>1, UnservedKept
<1>3. Undelivered = downward /\ Undelivered' = downward'
  BY <1>1 DEF Undelivered, Waiting
<1>4. Less(downward, downward')
  <2>1. CASE FrameComplete(outbox)
    <3> DEFINE d == NewDecoder
    <3>1. Flow("response", outbox, down, downward, serverEnd, clientPc, d)
      BY <1>1 DEF Invariant, DownFlow, Control
    <3> HIDE DEF d
    <3>2. clientPc # "response"
      BY <1>1
    <3>3. downward # <<>> /\ Head(downward) = Frame
      BY <1>1, <2>1, <3>1, <3>2, FlowFrame
    <3>. QED
      BY <1>1, <2>1, <3>3 DEF FrameTaken, Rest, Less
  <2>2. CASE ~FrameComplete(outbox)
    BY <1>1, <2>2 DEF FrameTaken, Less
  <2>. QED
    BY <2>1, <2>2
<1>. QED
  BY <1>1, <1>2, <1>3, <1>4, ProtocolLess

\* A handler of the client returns.
LEMMA ProtocolClientReturns == ASSUME Invariant, Protocol, ClientReturns PROVE Protocol'
<1>1. /\ UNCHANGED <<session, serverPc, upward, owed, asked, issued>>
      /\ clientPc' # "response"
      /\ downward' \in {<<>>, Undelivered}
  BY DEF ClientReturns, ClientHandlerReturns, sessionVars, Awaited, Undelivered, Waiting
<1>2. Less(Unserved, Unserved')
  BY <1>1, UnservedKept
<1>3. Less(Undelivered, Undelivered')
  <2>1. Undelivered' = downward'
    BY <1>1 DEF Undelivered, Waiting
  <2>. QED
    BY <1>1, <2>1 DEF Less
<1>4. request'.sessionId = request.sessionId /\ request'.current = request.current
  <2>1. \/ request' = [request EXCEPT !.mem = "freed", !.isAlive = FALSE, !.isInHandler = FALSE]
        \/ request' = [request EXCEPT !.isInHandler = FALSE, !.response = NewDecoder]
        \/ request' = [request EXCEPT !.isInHandler = FALSE, !.response = request.response]
    BY DEF ClientReturns, ClientHandlerReturns, Released
  <2>2. RequestTyped
    BY DEF Invariant, Typed
  <2>. QED
    BY <2>1, <2>2 DEF RequestTyped
<1>. QED
  BY <1>1, <1>2, <1>3, <1>4, ProtocolLess

-----------------------------------------------------------------------------
(***************************************************************************)
(* The four steps of a request: asked, read, answered, and the answer read.*)
(***************************************************************************)
LEMMA ProtocolAsk ==
    ASSUME Invariant, Protocol, NEW method \in Callable, Ask(method) PROVE Protocol'
<1> DEFINE m == RequestFor(method, AskedHeads(method), AskedBody(method))
           n == request.cseq + 1
           a == [method |-> method, cseq |-> n]
           item == AsRead(m)
           sid == request.sessionId
<1>1. /\ asked = None /\ request.cseq < MaxRequests /\ asked' = a
      /\ request' = [request EXCEPT !.cseq = @ + 1, !.current = method]
      /\ upward' \in {upward, Append(upward, item)}
      /\ UNCHANGED <<session, serverPc, downward, owed, issued, clientPc>>
  BY DEF Ask, Call, sessionVars, Noted, RequestFor
<1>2. method \in Methods /\ MaxRequests \in Nat /\ 0 .. MaxRequests \subseteq Numbers
  BY BoundsAssumption
<1>3. RequestTyped /\ request.cseq \in 0 .. MaxRequests /\ sid \in {None, SessionId}
  BY DEF Invariant, Typed, RequestTyped
<1>4. n \in 0 .. MaxRequests /\ n \in Numbers
  BY <1>1, <1>2, <1>3
<1>5. /\ FineRequest(m) /\ item.method = method /\ item.cseq = n
      /\ method \notin Plain /\ sid # None => Values(item, "Session") = {<<SessionId>>}
  BY <1>2, <1>3, <1>4, RequestForFine
<1>6. item \in Sendable /\ item # Frame
  <2> HIDE DEF m
  <2>1. Item("request", RequestText(m), item)
    BY <1>5, RequestItem
  <2>. QED
    BY <2>1, FrameIsNoMessage DEF Item
<1>7. request'.sessionId = sid /\ request'.current = method
  BY <1>1, <1>3 DEF RequestTyped
<1> HIDE DEF item, m, n
<1>8. a \in Asked /\ a # None /\ a.method = method /\ a.cseq = n
  BY <1>2, <1>4, NoneAssumption DEF Asked
<1> HIDE DEF a
<1>9. Idle(Unserved, Undelivered, owed) /\ Knows(Unserved, None, owed, sid, issued)
      /\ issued \in {None, SessionId}
  BY <1>1 DEF Protocol, Dialogue, OnItsWay, Served, OnItsWayBack
<1>10. OnlyFrames(Unserved) /\ OnlyFrames(Undelivered) /\ owed = None
       /\ ~(issued # None /\ sid = None)
  BY <1>9 DEF Idle, Knows
<1>11. Undelivered' = Undelivered
  BY <1>1 DEF Undelivered
<1>12. Unserved' = Unserved \/ Unserved' = Append(Unserved, item)
  <2>1. upward \in Seq(Sendable) /\ (serverPc = "request" => upward # <<>>)
    BY Waits
  <2>2. Waiting(serverPc, "request", Append(upward, item)) = Append(Unserved, item)
    BY <1>6, <2>1, WaitingIs DEF Unserved
  <2>. QED
    BY <1>1, <2>2 DEF Unserved
<1>13. Idle(Unserved', Undelivered', owed') \/ OnItsWay(Unserved', Undelivered', a, owed', sid)
  <2>1. CASE Unserved' = Unserved
    BY <1>1, <1>10, <1>11, <2>1 DEF Idle
  <2>2. CASE Unserved' = Append(Unserved, item)
    <3>1. Single(Append(Unserved, item), item)
      <4>1. Unserved \in Seq(Sendable)
        BY Waits
      <4>. QED
        BY <1>6, <1>10, <4>1, SingleSent
    <3>2. AsksFor(item, a, sid)
      BY <1>5, <1>8 DEF AsksFor, Carried
    <3>3. Single(Unserved', item) /\ OnlyFrames(Undelivered') /\ owed' = None
      BY <1>1, <1>10, <1>11, <2>2, <3>1
    <3>4. OnItsWay(Unserved', Undelivered', a, owed', sid)
      BY <1>8, <3>2, <3>3 DEF OnItsWay
    <3>. QED
      BY <3>4
  <2>. QED
    BY <1>12, <2>1, <2>2
<1> DEFINE d2 == session'.request
<1>14. Dialogue(Unserved', Undelivered', a, owed', sid, method, issued, d2, serverPc')
  BY <1>8, <1>9, <1>10, <1>13 DEF Dialogue, Knows
<1>15. asked' = a /\ issued' = issued /\ request'.sessionId = sid /\ request'.current = method
  BY <1>1, <1>7
<1> HIDE DEF sid
<1>. QED
  BY <1>14, <1>15 DEF Protocol

\* A request that has been read is the one the client waits for.
LEMMA ProtocolServerText == ASSUME Invariant, Protocol, ServerText PROVE Protocol'
<1> DEFINE d == session.request
           e == Decode("request", d, inbox)
           sid == request.sessionId
           cur == request.current
<1>1. /\ serverPc = "ondata" /\ inbox # <<>> /\ inbox[1] # Dollar
      /\ session' = [session EXCEPT !.request = e, !.isInHandler = e.ret # "more"]
      /\ serverPc' = CASE e.ret = "done" -> "request"
                       [] e.ret = "bad"  -> "badRequest"
                       [] e.ret = "more" -> "idle"
      /\ owed' = IF session'.request.ret = "done"
                 THEN [method |-> session'.request.method, cseq |-> session'.request.cseq]
                 ELSE owed
      /\ UNCHANGED <<request, clientPc, upward, downward, asked, issued>>
  BY DEF ServerText, SessionText, requestVars, DecodeRequest
<1>2. Flow("request", inbox, up, upward, clientEnd, serverPc, d)
  BY <1>1 DEF Invariant, UpFlow, Control
<1>3. SessionTyped
  BY DEF Invariant, Typed
<1> HIDE DEF d
<1>4. /\ e.ret \in {"done", "more"}
      /\ e.ret = "done" => Flow("request", inbox, up, upward, clientEnd, "request", e)
  <2>1. serverPc # "request"
    BY <1>1
  <2>. QED
    BY <1>1, <1>2, <2>1, FlowText
<1> HIDE DEF e
<1>5. session'.request = e
  BY <1>1, <1>3 DEF SessionTyped
<1>6. owed = None
  BY <1>1, NothingOwed
<1>7. CASE e.ret = "more"
  <2>1. serverPc' = "idle" /\ owed' = None
    BY <1>1, <1>5, <1>6, <1>7
  <2>2. Less(Unserved, Unserved') /\ Less(Undelivered, Undelivered')
    BY <1>1, <2>1, UnservedKept, UndeliveredKept
  <2>. QED
    BY <1>1, <2>1, <2>2, ProtocolLess
<1>8. CASE e.ret = "done"
  <2> DEFINE x == Head(upward)
             t == Tail(upward)
  <2>1. serverPc' = "request" /\ owed' = [method |-> e.method, cseq |-> e.cseq]
    BY <1>1, <1>5, <1>8
  <2>2. upward # <<>> /\ Read(e) = x /\ x # Frame /\ upward \in Seq(Sendable)
    BY <1>4, <1>8, HandedOver, Waits
  <2>3. Unserved = upward /\ Unserved' = t /\ Undelivered' = Undelivered
    <3>1. Rest(upward) = t
      BY <2>2, ToldRest
    <3>. QED
      BY <1>1, <2>1, <3>1 DEF Unserved, Undelivered, Waiting
  <2>4. ~OnlyFrames(upward) /\ \A y : Single(upward, y) => y = x /\ OnlyFrames(t)
    BY <2>2, SingleFirst
  <2> HIDE DEF x, t
  <2>5. /\ asked # None /\ OnlyFrames(Undelivered) /\ asked \in Asked /\ cur = asked.method
        /\ issued \in {None, SessionId} /\ ~(issued # None /\ sid = None)
        /\ \E y : Single(upward, y) /\ AsksFor(y, asked, sid)
    BY <1>6, <2>3, <2>4 DEF Protocol, Dialogue, Idle, OnItsWay, Served, OnItsWayBack, Knows
  <2>6. OnlyFrames(t) /\ AsksFor(x, asked, sid)
    BY <2>4, <2>5
  <2>7. e.method = x.method /\ e.cseq = x.cseq /\ e.heads = x.heads
    <3>1. Read(e).method = e.method /\ Read(e).cseq = e.cseq /\ Read(e).heads = e.heads
      BY DEF Read
    <3>. QED
      BY <2>2, <3>1
  <2>8. owed' = asked
    <3>1. asked = [method |-> asked.method, cseq |-> asked.cseq]
      BY <2>5 DEF Asked
    <3>. QED
      BY <2>1, <2>6, <2>7, <3>1 DEF AsksFor
  <2>9. Carried(e, asked, sid)
    BY <2>6, <2>7 DEF AsksFor, Carried, Values
  <2>10. Dialogue(t, Undelivered, asked, owed', sid, cur, issued, e, serverPc')
    BY <2>1, <2>5, <2>6, <2>8, <2>9 DEF Dialogue, Served, Knows
  <2>11. /\ asked' = asked /\ issued' = issued /\ request'.sessionId = sid
         /\ request'.current = cur
    BY <1>1
  <2> HIDE DEF sid, cur
  <2>. QED
    BY <1>5, <2>3, <2>10, <2>11 DEF Protocol
<1>. QED
  BY <1>4, <1>7, <1>8

\* The answer is to the request that the client waits for.
LEMMA ProtocolAnswer == ASSUME Invariant, Protocol, Answer PROVE Protocol'
<1> DEFINE m == [method |-> "NONE", code |-> 200, cseq |-> owed.cseq,
                 heads |-> AnswerHeads(owed.method), body |-> AnswerBody(owed.method)]
           item == AsRead(m)
           sid == request.sessionId
           cur == request.current
           d == session.request
<1>1. /\ owed # None /\ owed' = None
      /\ downward' \in {downward, Append(downward, item)}
      /\ issued' = IF owed.method = "SETUP" THEN SessionId ELSE issued
      /\ UNCHANGED <<session, serverPc, request, clientPc, upward, asked>>
  BY DEF Answer, Respond, Noted, sessionVars, requestVars
<1>2. owed \in Asked
  BY <1>1 DEF Invariant, Typed
<1>3. owed.method \in Methods /\ owed.cseq \in Numbers
  BY <1>2, BoundsAssumption DEF Asked
<1>4. /\ FineResponse(m) /\ item.cseq = owed.cseq
      /\ owed.method = "SETUP" => Values(item, "Session") = {Granted}
      /\ IF owed.method = "SETUP" THEN SessionHeads(item) = {2} ELSE SessionHeads(item) = {}
  BY <1>3, AnswerForFine
<1>5. item \in Sendable /\ item # Frame
  <2> HIDE DEF m
  <2>1. Item("response", ResponseText(m), item)
    BY <1>4, ResponseItem
  <2>. QED
    BY <2>1, FrameIsNoMessage DEF Item
<1> HIDE DEF item, m, Granted
<1>6. /\ asked # None /\ owed = asked /\ asked \in Asked /\ cur = asked.method
      /\ OnlyFrames(Unserved) /\ OnlyFrames(Undelivered)
      /\ issued \in {None, SessionId} /\ Knows(Unserved, asked, owed, sid, issued)
  BY <1>1 DEF Protocol, Dialogue, Idle, OnItsWay, Served, OnItsWayBack
<1>7. Unserved' = Unserved
  BY <1>1 DEF Unserved
<1>8. Undelivered' = Undelivered \/ Undelivered' = Append(Undelivered, item)
  <2>1. downward \in Seq(Sendable) /\ (clientPc = "response" => downward # <<>>)
    BY Waits
  <2>2. Waiting(clientPc, "response", Append(downward, item)) = Append(Undelivered, item)
    BY <1>5, <2>1, WaitingIs DEF Undelivered
  <2>. QED
    BY <1>1, <2>2 DEF Undelivered
<1>9. Idle(Unserved, Undelivered', None) \/ OnItsWayBack(Unserved, Undelivered', asked, None)
  <2>1. CASE Undelivered' = Undelivered
    BY <1>6, <2>1 DEF Idle
  <2>2. CASE Undelivered' = Append(Undelivered, item)
    <3>1. Single(Append(Undelivered, item), item)
      <4>1. Undelivered \in Seq(Sendable)
        BY Waits
      <4>. QED
        BY <1>5, <1>6, <4>1, SingleSent
    <3>2. Answers(item, asked)
      BY <1>4, <1>6 DEF Answers
    <3>. QED
      BY <1>6, <2>2, <3>1, <3>2 DEF OnItsWayBack
  <2>. QED
    BY <1>8, <2>1, <2>2
<1>10. Knows(Unserved, asked, None, sid, issued') /\ issued' \in {None, SessionId}
  BY <1>1, <1>6 DEF Knows
<1>11. Dialogue(Unserved, Undelivered', asked, None, sid, cur, issued', d, serverPc)
  BY <1>6, <1>9, <1>10 DEF Dialogue
<1>12. /\ asked' = asked /\ owed' = None /\ request'.sessionId = sid /\ request'.current = cur
       /\ session'.request = d /\ serverPc' = serverPc
  BY <1>1
<1> HIDE DEF sid, cur, d
<1>. QED
  BY <1>7, <1>11, <1>12 DEF Protocol

\* What the client keeps of the response to a SETUP is the session's id.
LEMMA KeptIs ==
    ASSUME RequestTyped, NEW r, r.heads \in Seq(Header), Values(r, "Session") \subseteq {Granted}
    PROVE  LET k == Kept(r)
           IN /\ k.current = request.current
              /\ k.sessionId \in {request.sessionId, SessionId}
              /\ request.current = "SETUP" /\ SessionHeads(r) # {} => k.sessionId = SessionId
<1> DEFINE id == SessionHeads(r)
           v == r.heads[FirstSession(r)].value
           n == IF Len(v) = 3 THEN Atoi(<<v[3]>>) ELSE 0
           k == Kept(r)
<1>1. id # {} => v = Granted
  BY SessionIsFirst
<1>2. Granted[1] = SessionId
  BY DEF Granted
<1>3. id # {} => v[1] = SessionId
  BY <1>1, <1>2
<1>4. \/ k = [request EXCEPT !.serverMethods = TRUE] /\ request.current # "SETUP"
      \/ id # {} /\ k = [request EXCEPT !.sessionId = v[1], !.timeout = n]
      \/ k = request /\ ~(request.current = "SETUP" /\ id # {})
  BY DEF Kept
<1> HIDE DEF k, n, v, id
<1>5. CASE k = [request EXCEPT !.serverMethods = TRUE] /\ request.current # "SETUP"
  BY <1>5 DEF RequestTyped, k
<1>6. CASE id # {} /\ k = [request EXCEPT !.sessionId = v[1], !.timeout = n]
  <2>1. k = [request EXCEPT !.sessionId = SessionId, !.timeout = n]
    BY <1>3, <1>6
  <2>. QED
    BY <2>1 DEF RequestTyped, k
<1>7. CASE k = request /\ ~(request.current = "SETUP" /\ id # {})
  BY <1>7 DEF k, id
<1>. QED
  BY <1>4, <1>5, <1>6, <1>7

\* What the handler is given of a response that has no Session header, and of
\* SETUP's.
LEMMA HandedWhole ==
    ASSUME NEW r \in Decoder, SessionHeads(r) = {}
    PROVE  Read(Handled(r)) = Handed(Read(r))
<1> DEFINE hs == r.heads
<1>1. Handled(r) = r
  BY DEF Handled
<1>2. hs \in Seq(Header)
  BY DEF Decoder
<1>3. \A i \in DOMAIN hs : hs[i].key # "Session"
  BY DEF SessionHeads
<1> HIDE DEF hs
<1>4. WithoutTimeout(hs) = hs
  <2>1. hs = [i \in DOMAIN hs |-> hs[i]]
    BY <1>2
  <2>. QED
    BY <1>3, <2>1 DEF WithoutTimeout
<1>5. Read(r).heads = hs /\ Read(r) = [Read(r) EXCEPT !.heads = hs]
  BY DEF Read, hs
<1>. QED
  BY <1>1, <1>4, <1>5 DEF Handed

LEMMA HandedSetup ==
    ASSUME NEW r \in Decoder, request.current = "SETUP", SessionHeads(r) = {2},
           Values(r, "Session") = {Granted}
    PROVE  Read(Handled(r)) = Handed(Read(r))
<1> DEFINE hs == r.heads
           cut == [hs[2] EXCEPT !.value = <<SessionId>>]
           gs == [hs EXCEPT ![2] = cut]
<1>1. FirstSession(r) = 2
  BY DEF FirstSession
<1>2. /\ hs \in Seq(Header) /\ 2 \in DOMAIN hs
      /\ \A i \in DOMAIN hs : hs[i].key = "Session" <=> i = 2
  BY DEF SessionHeads, Decoder
<1>3. hs[2].value = Granted
  BY <1>2 DEF Values
<1>4. Granted[1] = SessionId
  BY DEF Granted
<1>5. Handled(r) = [r EXCEPT !.heads = gs]
  <2>1. Handled(r) = [r EXCEPT !.heads[2].value = <<@[1]>>]
    BY <1>1 DEF Handled
  <2>. QED
    BY <1>3, <1>4, <2>1
<1> HIDE DEF cut
<1>6. gs = WithoutTimeout(hs)
  <2>1. gs = [i \in DOMAIN hs |-> IF i = 2 THEN cut ELSE hs[i]]
    BY <1>2
  <2>2. \A i \in DOMAIN hs : (IF i = 2 THEN cut ELSE hs[i])
                 = IF hs[i].key = "Session" THEN [hs[i] EXCEPT !.value = <<SessionId>>] ELSE hs[i]
    BY <1>2 DEF cut
  <2> HIDE DEF hs
  <2>. QED
    BY <2>1, <2>2 DEF WithoutTimeout
<1> HIDE DEF gs
<1>7. Handled(r).heads = gs
  BY <1>5 DEF Decoder
<1>8. Read(Handled(r)) = [Read(r) EXCEPT !.heads = gs]
  BY <1>7, HandledIs
<1>9. Read(r).heads = hs
  BY DEF Read
<1>. QED
  BY <1>6, <1>8, <1>9 DEF Handed

\* A response that has been read is the answer to the request that the
\* client's user waits for.
LEMMA ProtocolClientText ==
    ASSUME Invariant, Protocol, ClientText
    PROVE  /\ Protocol'
           /\ clientPc' = "response" => /\ asked # None
                                        /\ request'.current = asked.method
                                        /\ request'.response.cseq = asked.cseq
                                        /\ Read(request'.response) = Handed(Head(downward))
                                        /\ downward' = downward
<1> DEFINE d == NewDecoder
           e == Decode("response", d, outbox)
           sid == request.sessionId
           cur == request.current
<1>1. /\ clientPc = "ondata" /\ outbox # <<>> /\ outbox[1] # Dollar
      /\ request' = [IF e.ret = "done" THEN Kept(e) ELSE request
                     EXCEPT !.response = IF e.ret = "done" THEN Handled(e) ELSE e,
                            !.isInHandler = e.ret # "more"]
      /\ clientPc' = CASE e.ret = "done" -> "response"
                       [] e.ret = "bad"  -> "badResponse"
                       [] e.ret = "more" -> "idle"
      /\ asked' = IF clientPc' = "response" THEN None ELSE asked
      /\ UNCHANGED <<session, serverPc, upward, downward, owed, issued>>
  BY DEF ClientText, ResponseArrives, sessionVars, DecodeResponse, ResponseDecoder
<1>2. Flow("response", outbox, down, downward, serverEnd, clientPc, d)
  BY <1>1 DEF Invariant, DownFlow, Control
<1>3. RequestTyped
  BY DEF Invariant, Typed
<1> HIDE DEF d
<1>4. /\ e.ret \in {"done", "more"}
      /\ e.ret = "done" => Flow("response", outbox, down, downward, serverEnd, "response", e)
  <2>1. clientPc # "response"
    BY <1>1
  <2>. QED
    BY <1>1, <1>2, <2>1, FlowText
<1> HIDE DEF e
<1>5. Unserved' = Unserved
  BY <1>1 DEF Unserved
<1>6. CASE e.ret = "more"
  <2>1. clientPc' = "idle" /\ asked' = asked
        /\ request' = [request EXCEPT !.response = e, !.isInHandler = FALSE]
    BY <1>1, <1>6
  <2>2. Less(Unserved, Unserved') /\ Less(Undelivered, Undelivered')
    BY <1>1, <1>5, <2>1, UndeliveredKept DEF Less
  <2>3. request'.sessionId = request.sessionId /\ request'.current = request.current
    BY <1>3, <2>1 DEF RequestTyped
  <2>. QED
    BY <1>1, <2>1, <2>2, <2>3, ProtocolLess
<1>7. CASE e.ret = "done"
  <2> DEFINE x == Head(downward)
             t == Tail(downward)
             k == Kept(e)
  <2>1. clientPc' = "response" /\ asked' = None
        /\ request' = [k EXCEPT !.response = Handled(e), !.isInHandler = TRUE]
    BY <1>1, <1>7
  <2>2. downward # <<>> /\ Read(e) = x /\ x # Frame /\ downward \in Seq(Sendable)
    BY <1>4, <1>7, HandedOver, Waits
  <2>3. Undelivered = downward /\ Undelivered' = t
    <3>1. Rest(downward) = t
      BY <2>2, ToldRest
    <3>. QED
      BY <1>1, <2>1, <3>1 DEF Undelivered, Waiting
  <2>4. ~OnlyFrames(downward) /\ \A y : Single(downward, y) => y = x /\ OnlyFrames(t)
    BY <2>2, SingleFirst
  <2>5. Values(x, "Session") \subseteq {Granted}
    <3>1. Responses(downward)
      BY DEF Invariant, Told
    <3>2. 1 \in 1 .. Len(downward) /\ x = downward[1]
      BY <2>2
    <3> HIDE DEF x
    <3>. QED
      BY <2>2, <3>1, <3>2 DEF Responses
  <2> HIDE DEF x, t
  <2>6. e.cseq = x.cseq /\ e.heads = x.heads
    <3>1. Read(e).cseq = e.cseq /\ Read(e).heads = e.heads
      BY DEF Read
    <3>. QED
      BY <2>2, <3>1
  <2>7. /\ Values(e, "Session") = Values(x, "Session") /\ SessionHeads(e) = SessionHeads(x)
        /\ e \in Decoder /\ e.heads \in Seq(Header)
    <3>1. e \in Decoder
      BY <1>4, <1>7, HeldType
    <3>. QED
      BY <2>6, <3>1 DEF Values, SessionHeads, Decoder
  <2>8. /\ k.current = cur /\ k.sessionId \in {sid, SessionId}
        /\ cur = "SETUP" /\ SessionHeads(x) # {} => k.sessionId = SessionId
    BY <1>3, <2>5, <2>7, KeptIs
  <2>9. k \in [mem : {"live", "freed"}, isAlive : BOOLEAN, isInHandler : BOOLEAN,
               cseq : 0 .. MaxRequests, current : Methods \cup {"NONE"},
               serverMethods : BOOLEAN, sessionId : {None, SessionId},
               timeout : {k.timeout}, response : {request.response}]
    BY <1>3, <2>5, <2>7, KeptTyped
  <2> HIDE DEF k
  <2>10. /\ request'.current = cur /\ request'.sessionId = k.sessionId
         /\ request'.response = Handled(e)
    BY <2>1, <2>8, <2>9
  <2>11. /\ asked # None /\ owed = None /\ cur = asked.method
         /\ OnlyFrames(Unserved) /\ issued \in {None, SessionId}
         /\ Knows(Unserved, asked, owed, sid, issued)
         /\ \E y : Single(downward, y) /\ Answers(y, asked)
    BY <2>3, <2>4 DEF Protocol, Dialogue, Idle, OnItsWay, Served, OnItsWayBack
  <2>12. OnlyFrames(t) /\ Answers(x, asked)
    BY <2>4, <2>11
  <2>13. ~(issued # None /\ k.sessionId = None)
    <3> SUFFICES ASSUME issued # None, k.sessionId = None PROVE FALSE
      OBVIOUS
    <3>1. SessionId # None /\ k.sessionId = sid
      BY <2>8, <2>11
    <3>2. asked.method = "SETUP"
      BY <2>11, <3>1 DEF Knows
    <3>3. SessionHeads(x) # {}
      BY <2>12, <3>2 DEF Answers
    <3>. QED
      BY <2>8, <2>11, <3>1, <3>2, <3>3
  <2>14. Dialogue(Unserved, t, None, None, k.sessionId, cur, issued, session'.request, serverPc')
    BY <2>11, <2>12, <2>13 DEF Dialogue, Idle, Knows
  <2>15. asked' = None /\ owed' = None /\ issued' = issued
    BY <1>1, <2>1, <2>11
  <2>16. request'.sessionId = k.sessionId /\ request'.current = cur
    BY <2>10
  <2>17. Protocol'
    <3> HIDE DEF cur
    <3>. QED
      BY <1>5, <2>3, <2>14, <2>15, <2>16 DEF Protocol
  <2>18. request'.response.cseq = asked.cseq
    BY <2>6, <2>7, <2>10, <2>12, HandledIs DEF Answers
  <2>19. Read(Handled(e)) = Handed(x)
    <3>1. CASE cur = "SETUP"
      <4>1. SessionHeads(e) = {2} /\ Values(e, "Session") = {Granted}
        BY <2>7, <2>11, <2>12, <3>1 DEF Answers
      <4>. QED
        BY <2>2, <2>7, <3>1, <4>1, HandedSetup
    <3>2. CASE cur # "SETUP"
      <4>1. SessionHeads(e) = {}
        BY <2>7, <2>11, <2>12, <3>2 DEF Answers
      <4>. QED
        BY <2>2, <2>7, <4>1, HandedWhole
    <3>. QED
      BY <3>1, <3>2
  <2>. QED
    BY <1>1, <2>10, <2>11, <2>17, <2>18, <2>19 DEF x
<1>. QED
  BY <1>4, <1>6, <1>7

\* The steps of the network, and every step.
LEMMA ProtocolKept == ASSUME Protocol, UNCHANGED <<session, serverPc, request, clientPc>>,
                             UNCHANGED <<upward, downward, asked, owed, issued>>
                      PROVE  Protocol'
BY DEF Protocol, Unserved, Undelivered

LEMMA ProtocolServer == ASSUME Invariant, Protocol, ServerStep PROVE Protocol'
<1>1. CASE /\ ServerStart \/ ServerStop \/ Accept \/ AllRead \/ SessionOnClose \/ SessionEnd
           /\ Outside /\ asked' = asked /\ issued' = issued
  BY <1>1, ProtocolOutside
<1>. QED
  BY <1>1, ProtocolServerRead, ProtocolServerFrame, ProtocolServerText, ProtocolServerReturns
  DEF ServerStep, Outside, requestVars

LEMMA ProtocolClient == ASSUME Invariant, Protocol, ClientStep PROVE Protocol'
<1>1. CASE /\ Launch \/ RequestDestroy \/ OnConnected \/ NothingLeft \/ RequestOnClose
           /\ ClientOutside /\ asked' = asked /\ issued' = issued
  BY <1>1, ProtocolClientOutside
<1>2. ASSUME Launch \/ RequestDestroy \/ OnConnected \/ NothingLeft \/ RequestOnClose
      PROVE  UNCHANGED up
  BY <1>2 DEF Launch, RequestDestroy, OnConnected, NothingLeft, RequestOnClose, streamVars
<1>. QED
  BY <1>1, <1>2, ProtocolClientRead, ProtocolClientFrame, ProtocolClientText,
     ProtocolClientReturns
  DEF ClientStep, ClientOutside, ServerAlone, sessionVars

LEMMA ProtocolNext == ASSUME Invariant, Protocol, [Next]_vars PROVE Protocol'
<1>1. ASSUME NEW method \in Callable, Ask(method) PROVE Protocol'
  BY <1>1, ProtocolAsk
<1>2. CASE FrameUp
  BY <1>2, ProtocolFrameUp
<1>3. CASE Answer
  BY <1>3, ProtocolAnswer
<1>4. CASE FrameDown
  BY <1>4, ProtocolFrameDown
<1>5. CASE ServerStep
  BY <1>5, ProtocolServer
<1>6. CASE ClientStep
  BY <1>6, ProtocolClient
<1>7. CASE Network
  BY <1>7, ProtocolKept DEF Network, sessionVars, requestVars, ghostVars
<1>8. CASE UNCHANGED vars
  BY <1>8, ProtocolKept DEF vars, sessionVars, requestVars, ghostVars
<1>. QED
  BY <1>1, <1>2, <1>3, <1>4, <1>5, <1>6, <1>7, <1>8 DEF Next

\* The request in the handler carries the id that was given out.
LEMMA ProtocolCarried == ASSUME Invariant, Protocol PROVE SessionCarried
<1> SUFFICES ASSUME serverPc = "request", owed # None, issued # None,
                    owed.method \notin {"OPTIONS", "DESCRIBE"}
             PROVE  Values(session.request, "Session") = {<<issued>>}
  BY DEF SessionCarried
<1>1. /\ issued \in {None, SessionId} /\ owed = asked
      /\ Knows(Unserved, asked, owed, request.sessionId, issued)
      /\ Carried(session.request, asked, request.sessionId)
  BY DEF Protocol, Dialogue, Idle, OnItsWay, Served, OnItsWayBack
<1>2. request.sessionId # None /\ issued = SessionId
  BY <1>1 DEF Knows
<1>. QED
  BY <1>1, <1>2 DEF Carried, Plain

\* No other step hands a response over.
LEMMA OnlyClientText ==
    ASSUME [Next]_vars, clientPc # "response", clientPc' = "response" PROVE ClientText
<1>1. clientPc' # clientPc
  OBVIOUS
<1>2. ASSUME NEW method \in Callable, Ask(method) PROVE FALSE
  BY <1>1, <1>2 DEF Ask, Call
<1>3. CASE FrameUp \/ Answer \/ FrameDown \/ Network \/ UNCHANGED vars
  BY <1>1, <1>3 DEF FrameUp, SendFrameUp, Answer, FrameDown, Network, vars, requestVars
<1>4. CASE ServerStep
  BY <1>1, <1>4 DEF ServerStep, ServerRead, ServerFrame, ServerText, ServerReturns, requestVars
<1>5. CASE ClientStep
  BY <1>5 DEF ClientStep, Launch, RequestDestroy, OnConnected, EnterHandler, NothingLeft,
     RequestOnClose, ClientRead, ClientReads, ClientFrame, RequestFrame, ClientReturns,
     ClientHandlerReturns, requestVars
<1>. QED
  BY <1>2, <1>3, <1>4, <1>5 DEF Next

-----------------------------------------------------------------------------
-----------------------------------------------------------------------------
(***************************************************************************)
(* What the client's user is given while the handler runs.                 *)
(***************************************************************************)
Handing == clientPc = "response" => Read(request.response) = Handed(Head(downward))

LEMMA HandingInit == Init => Handing
BY DEF Init, RequestInit, Handing

\* While the handler runs the response is left alone, and stays the first.
LEMMA HandingStays ==
    ASSUME Invariant, [Next]_vars, clientPc = "response", clientPc' = "response"
    PROVE  request'.response = request.response /\ Head(downward') = Head(downward)
<1>1. RequestTyped /\ request.isInHandler
  BY DEF Invariant, Typed, Control, InClientHandler
<1>2. downward # <<>> /\ downward \in Seq(Sendable)
  BY Waits
<1>3. \A x : Head(Append(downward, x)) = Head(downward)
  <2> TAKE x
  <2> DEFINE S == Sendable \cup {x}
  <2>1. downward \in Seq(S) /\ x \in S /\ downward # <<>>
    BY <1>2
  <2> HIDE DEF S
  <2>. QED
    BY <2>1
<1>4. clientEnd \notin {"none", "closed"}
  BY DEF Invariant, Control, Quiet, NewEnds
<1>5. ASSUME NEW method \in Callable, Ask(method)
      PROVE  request'.response = request.response /\ downward' = downward
  BY <1>1, <1>5 DEF Ask, Call, RequestTyped
<1>6. CASE FrameUp \/ Network \/ UNCHANGED vars
  BY <1>6 DEF FrameUp, SendFrameUp, Network, vars, requestVars, ghostVars
<1>7. CASE Answer \/ FrameDown
  BY <1>3, <1>7 DEF Answer, Respond, FrameDown, Noted, requestVars
<1>8. CASE ServerStep
  BY <1>8 DEF ServerStep, ServerRead, Cut, ServerFrame, ServerText, ServerReturns, requestVars
<1>9. CASE ClientStep
  <2>1. \/ /\ Launch \/ RequestDestroy
           /\ downward' = Awaited(clientEnd', downward)
    BY <1>9 DEF ClientStep, OnConnected, NothingLeft, RequestOnClose, ClientRead, ClientReads,
       ClientFrame, RequestFrame, ClientText, ResponseArrives, ClientReturns,
       ClientHandlerReturns, Released
  <2>2. ~Launch
    BY <1>4 DEF Launch
  <2>3. request' = [request EXCEPT !.isAlive = FALSE] /\ clientEnd' = clientEnd
    BY <1>1, <2>1, <2>2 DEF RequestDestroy
  <2>. QED
    BY <1>1, <1>4, <2>1, <2>3 DEF Awaited, RequestTyped
<1>. QED
  BY <1>3, <1>5, <1>6, <1>7, <1>8, <1>9 DEF Next

LEMMA HandingNext ==
    ASSUME Invariant, Protocol, Handing, [Next]_vars PROVE Handing'
<1> SUFFICES ASSUME clientPc' = "response"
             PROVE  Read(request'.response) = Handed(Head(downward'))
  BY DEF Handing, Handed, WithoutTimeout, Read
<1>1. CASE clientPc = "response"
  BY <1>1, HandingStays DEF Handing
<1>2. CASE clientPc # "response"
  <2>1. ClientText
    BY <1>2, OnlyClientText
  <2>. QED
    BY <2>1, ProtocolClientText
<1>. QED
  BY <1>1, <1>2

\* The invariant says that what is handed over is what was sent.
LEMMA InvariantIntact == Invariant /\ Handing => StreamsIntact
<1> SUFFICES ASSUME Invariant, Handing PROVE StreamsIntact
  OBVIOUS
<1>1. Typed /\ Texts /\ Told /\ Control /\ Quiet /\ UpFlow /\ DownFlow
  BY DEF Invariant
<1>2. TypeOK
  <2>1. StreamTypeOK
    BY <1>1 DEF Typed, Texts, Text, StreamTypeOK
  <2>2. SessionTypeOK
    BY <1>1 DEF Typed, Texts, Text, SessionTyped, SessionTypeOK
  <2>3. MaxRequests \in Nat
    BY BoundsAssumption
  <2>4. RequestTypeOK
    BY <1>1, <2>3 DEF Typed, Texts, Text, RequestTyped, RequestTypeOK
  <2>. QED
    BY <2>1, <2>2, <2>4 DEF TypeOK
<1>3. RequestsIntact
  <2>1. ASSUME serverPc = "request"
        PROVE  upward # <<>> /\ Read(session.request) = Head(upward)
    BY <2>1, FirstRequest
  <2>2. ASSUME serverPc = "ondata", inbox # <<>>, inbox[1] = Dollar, FrameComplete(inbox)
        PROVE  upward # <<>> /\ FrameRead(inbox) = Head(upward)
    <3> DEFINE d == session.request
    <3>1. Flow("request", inbox, up, upward, clientEnd, serverPc, d)
      BY <1>1, <2>2 DEF UpFlow, Control
    <3> HIDE DEF d
    <3>2. serverPc # "request"
      BY <2>2
    <3>. QED
      BY <2>2, <3>1, <3>2, FlowFrame
  <2>. QED
    BY <1>1, <2>1, <2>2 DEF RequestsIntact, Typed
<1>4. ResponsesIntact
  <2>1. ASSUME clientPc = "response"
        PROVE  downward # <<>> /\ Read(request.response) = Handed(Head(downward))
    BY <2>1, Waits DEF Handing
  <2>2. ASSUME clientPc = "ondata", outbox # <<>>, outbox[1] = Dollar, FrameComplete(outbox)
        PROVE  downward # <<>> /\ FrameRead(outbox) = Head(downward)
    <3> DEFINE d == NewDecoder
    <3>1. Flow("response", outbox, down, downward, serverEnd, clientPc, d)
      BY <1>1, <2>2 DEF DownFlow, Control
    <3> HIDE DEF d
    <3>2. clientPc # "response"
      BY <2>2
    <3>. QED
      BY <2>2, <3>1, <3>2, FlowFrame
  <2>. QED
    BY <1>1, <2>1, <2>2 DEF ResponsesIntact, Typed
<1>. QED
  BY <1>2, <1>3, <1>4 DEF StreamsIntact

\* As long as no piece ends where the server's decoder cannot resume
\* (CutAnywhere = FALSE; the other case is refuted by a run), the server hands
\* over the requests and frames that the client sent and the client the responses
\* and frames that the server sent, in order and field for field but for the
\* timeout that request_filt_response() cuts off SETUP's answer, and nothing is
\* taken for a bad message (session_ondata, request_ondata, StreamsIntact).
THEOREM StreamsIntactAlways == CutAnywhere = FALSE => (Spec => []StreamsIntact)
<1> SUFFICES ASSUME CutAnywhere = FALSE PROVE Spec => []StreamsIntact
  OBVIOUS
<1>1. Init => Invariant /\ Protocol /\ Handing
  BY InvariantInit, ProtocolInit, HandingInit
<1>2. Invariant /\ Protocol /\ Handing /\ [Next]_vars => Invariant' /\ Protocol' /\ Handing'
  BY InvariantNext, ProtocolNext, HandingNext DEF Tame
<1>. QED
  BY <1>1, <1>2, InvariantIntact, PTL DEF Spec


\* Once the server gave out a session id, a request of a session's method that
\* is in its handler carries that id (request_filt_response, rtsp_request_setup ..
\* rtsp_request_set_parameter, SessionCarried).
THEOREM SessionCarriedAlways == CutAnywhere = FALSE => (Spec => []SessionCarried)
<1> SUFFICES ASSUME CutAnywhere = FALSE PROVE Spec => []SessionCarried
  OBVIOUS
<1>1. Init => Invariant /\ Protocol
  BY InvariantInit, ProtocolInit
<1>2. Invariant /\ Protocol /\ [Next]_vars => Invariant' /\ Protocol'
  BY InvariantNext, ProtocolNext DEF Tame
<1>3. Invariant /\ Protocol => SessionCarried
  BY ProtocolCarried
<1>. QED
  BY <1>1, <1>2, <1>3, PTL DEF Spec

\* No response is handed to the client's user but as the answer to the request
\* it answers, although request_ondata() never looks at CSeq (AnswersTheRequest).
THEOREM AnswersTheRequestAlways == CutAnywhere = FALSE => (Spec => AnswersTheRequest)
<1> SUFFICES ASSUME CutAnywhere = FALSE PROVE Spec => AnswersTheRequest
  OBVIOUS
<1>1. Init => Invariant /\ Protocol
  BY InvariantInit, ProtocolInit
<1>2. Invariant /\ Protocol /\ [Next]_vars => Invariant' /\ Protocol'
  BY InvariantNext, ProtocolNext DEF Tame
<1>3. Invariant /\ Protocol /\ [Next]_vars =>
          [clientPc # "response" /\ clientPc' = "response" =>
               /\ asked # None
               /\ request'.current = asked.method
               /\ request'.response.cseq = asked.cseq]_vars
  BY OnlyClientText, ProtocolClientText
<1>. QED
  BY <1>1, <1>2, <1>3, PTL DEF Spec, AnswersTheRequest
=============================================================================
