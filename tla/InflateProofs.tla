----------------------------- MODULE InflateProofs -----------------------------
(***************************************************************************)
(* Proofs about the decompressor in Packages: for every stream that a      *)
(* compressor can have written, every cut of its input and room for its    *)
(* text, and every way of calling it.                                      *)
(*                                                                         *)
(* The decompressor: the bits used are those of the fields passed, and at  *)
(* most 61 more are at hand (Reads, BitsRead); the text of these fields is *)
(* what was written, what is held back for want of room, and the rest of a *)
(* copy, while the buffer has the last DictSize bytes of it or, if it does *)
(* not wrap, all of them (Tells).  That holds across calls since a caller  *)
(* goes on in the dictionary where the call before stopped (Stands), so    *)
(* every run of bytes handed to the user continues the text.  A stream     *)
(* ends at a whole byte: putting back what was read ahead ends at it       *)
(* (InflateInv).                                                           *)
(***************************************************************************)
EXTENDS PackagesProofs

-----------------------------------------------------------------------------
(* Constants, and the functions that a stream is defined by. *)
LEMMA InflateConstants ==
  /\ DictSize \in Nat \ {0} /\ HeapSize \in Nat \ {0} /\ Margins \subseteq Int
  /\ Chunks \subseteq Nat /\ TextRooms \subseteq Nat
  /\ \A s \in Streams : Tinfl!IsStream(s)
  BY DeflateConstants, PackagesAssumption DEF Tinfl!InflateAssumption

IsEnding(f, s, n) ==
  f = [k \in 0 .. n |-> IF k = 0 THEN 0 ELSE Tinfl!After(f[k - 1], s.fields[k])]
IsTelling(f, s, n) ==
  f = [k \in 0 .. n |-> IF k = 0 THEN <<>> ELSE Tinfl!Expand(f[k - 1], s.fields[k])]

(* The recursive functions of EndsAt and of TextUpTo exist, *)
LEMMA EndingExists == ASSUME NEW s, NEW n \in Nat PROVE \E f : IsEnding(f, s, n)
  <1> DEFINE S == {m \in Nat : \E f : IsEnding(f, s, m)}
  <1>1. 0 \in S
    <2>1. IsEnding([k \in {0} |-> 0], s, 0)
      BY DEF IsEnding
    <2> QED
      BY <2>1
  <1>2. ASSUME NEW m \in Nat, m \in S PROVE m + 1 \in S
    <2>1. PICK f : IsEnding(f, s, m)
      BY <1>2
    <2> DEFINE g == [k \in 0 .. m + 1 |-> IF k = m + 1 THEN Tinfl!After(f[m], s.fields[m + 1]) ELSE f[k]]
    <2>2. \A k \in 0 .. m : f[k] = IF k = 0 THEN 0 ELSE Tinfl!After(f[k - 1], s.fields[k])
      BY <2>1 DEF IsEnding
    <2>3. \A k \in 0 .. m + 1 : g[k] = IF k = 0 THEN 0 ELSE Tinfl!After(g[k - 1], s.fields[k])
      <3> TAKE k \in 0 .. m + 1
      <3>1. CASE k = m + 1
        BY <3>1
      <3>2. CASE k \in 0 .. m
        BY <3>2, <2>2
      <3> QED
        BY <3>1, <3>2
    <2>4. g = [k \in 0 .. m + 1 |-> g[k]]
      OBVIOUS
    <2> HIDE DEF g
    <2>5. IsEnding(g, s, m + 1)
      BY <2>3, <2>4 DEF IsEnding
    <2> QED
      BY <2>5
  <1>3. Nat \subseteq S
    <2> HIDE DEF S
    <2> QED
      BY <1>1, <1>2, AllNaturals
  <1> QED
    BY <1>3

LEMMA TellingExists == ASSUME NEW s, NEW n \in Nat PROVE \E f : IsTelling(f, s, n)
  <1> DEFINE S == {m \in Nat : \E f : IsTelling(f, s, m)}
  <1>1. 0 \in S
    <2>1. IsTelling([k \in {0} |-> <<>>], s, 0)
      BY DEF IsTelling
    <2> QED
      BY <2>1
  <1>2. ASSUME NEW m \in Nat, m \in S PROVE m + 1 \in S
    <2>1. PICK f : IsTelling(f, s, m)
      BY <1>2
    <2> DEFINE g == [k \in 0 .. m + 1 |-> IF k = m + 1 THEN Tinfl!Expand(f[m], s.fields[m + 1]) ELSE f[k]]
    <2>2. \A k \in 0 .. m : f[k] = IF k = 0 THEN <<>> ELSE Tinfl!Expand(f[k - 1], s.fields[k])
      BY <2>1 DEF IsTelling
    <2>3. \A k \in 0 .. m + 1 : g[k] = IF k = 0 THEN <<>> ELSE Tinfl!Expand(g[k - 1], s.fields[k])
      <3> TAKE k \in 0 .. m + 1
      <3>1. CASE k = m + 1
        BY <3>1
      <3>2. CASE k \in 0 .. m
        BY <3>2, <2>2
      <3> QED
        BY <3>1, <3>2
    <2>4. g = [k \in 0 .. m + 1 |-> g[k]]
      OBVIOUS
    <2> HIDE DEF g
    <2>5. IsTelling(g, s, m + 1)
      BY <2>3, <2>4 DEF IsTelling
    <2> QED
      BY <2>5
  <1>3. Nat \subseteq S
    <2> HIDE DEF S
    <2> QED
      BY <1>1, <1>2, AllNaturals
  <1> QED
    BY <1>3

(* and what they are is their last value: one more field adds to what the
   ones before it came to.                                                 *)
LEMMA EndsAtIs ==
  ASSUME NEW s, NEW n \in Nat
  PROVE  \E f : IsEnding(f, s, n) /\ Tinfl!EndsAt(s, n) = f[n]
  <1> DEFINE c == CHOOSE f : IsEnding(f, s, n)
  <1>1. IsEnding(c, s, n)
    BY EndingExists
  <1>2. Tinfl!EndsAt(s, n) = c[n]
    BY DEF Tinfl!EndsAt, IsEnding
  <1> QED
    BY <1>1, <1>2

LEMMA TextUpToIs ==
  ASSUME NEW s, NEW n \in Nat
  PROVE  \E f : IsTelling(f, s, n) /\ Tinfl!TextUpTo(s, n) = f[n]
  <1> DEFINE c == CHOOSE f : IsTelling(f, s, n)
  <1>1. IsTelling(c, s, n)
    BY TellingExists
  <1>2. Tinfl!TextUpTo(s, n) = c[n]
    BY DEF Tinfl!TextUpTo, IsTelling
  <1> QED
    BY <1>1, <1>2

LEMMA EndsAtNext ==
  ASSUME NEW s, NEW n \in Nat
  PROVE  Tinfl!EndsAt(s, 0) = 0
         /\ Tinfl!EndsAt(s, n + 1) = Tinfl!After(Tinfl!EndsAt(s, n), s.fields[n + 1])
  <1>1. PICK f : IsEnding(f, s, n) /\ Tinfl!EndsAt(s, n) = f[n]
    BY EndsAtIs
  <1>2. PICK g : IsEnding(g, s, n + 1) /\ Tinfl!EndsAt(s, n + 1) = g[n + 1]
    BY EndsAtIs
  <1>3. PICK h : IsEnding(h, s, 0) /\ Tinfl!EndsAt(s, 0) = h[0]
    BY EndsAtIs
  <1>4. \A k \in 0 .. n : f[k] = IF k = 0 THEN 0 ELSE Tinfl!After(f[k - 1], s.fields[k])
    BY <1>1 DEF IsEnding
  <1>5. \A k \in 0 .. n + 1 : g[k] = IF k = 0 THEN 0 ELSE Tinfl!After(g[k - 1], s.fields[k])
    BY <1>2 DEF IsEnding
  <1> DEFINE S == {j \in Nat : j <= n => f[j] = g[j]}
  <1>6. 0 \in S
    BY <1>4, <1>5
  <1>7. ASSUME NEW j \in Nat, j \in S PROVE j + 1 \in S
    <2>1. SUFFICES ASSUME j + 1 <= n PROVE f[j + 1] = g[j + 1]
      OBVIOUS
    <2>2. f[j] = g[j] /\ j + 1 \in 0 .. n /\ j + 1 \in 0 .. n + 1 /\ (j + 1) - 1 = j /\ j + 1 # 0
      BY <1>7, <2>1
    <2> QED
      BY <1>4, <1>5, <2>2
  <1>8. Nat \subseteq S
    <2> HIDE DEF S
    <2> QED
      BY <1>6, <1>7, AllNaturals
  <1>9. f[n] = g[n]
    BY <1>8
  <1>10. g[n + 1] = Tinfl!After(g[n], s.fields[n + 1])
    BY <1>5
  <1>11. h[0] = 0
    BY <1>3 DEF IsEnding
  <1> QED
    BY <1>1, <1>2, <1>3, <1>9, <1>10, <1>11

LEMMA TextUpToNext ==
  ASSUME NEW s, NEW n \in Nat
  PROVE  Tinfl!TextUpTo(s, 0) = <<>>
         /\ Tinfl!TextUpTo(s, n + 1) = Tinfl!Expand(Tinfl!TextUpTo(s, n), s.fields[n + 1])
  <1>1. PICK f : IsTelling(f, s, n) /\ Tinfl!TextUpTo(s, n) = f[n]
    BY TextUpToIs
  <1>2. PICK g : IsTelling(g, s, n + 1) /\ Tinfl!TextUpTo(s, n + 1) = g[n + 1]
    BY TextUpToIs
  <1>3. PICK h : IsTelling(h, s, 0) /\ Tinfl!TextUpTo(s, 0) = h[0]
    BY TextUpToIs
  <1>4. \A k \in 0 .. n : f[k] = IF k = 0 THEN <<>> ELSE Tinfl!Expand(f[k - 1], s.fields[k])
    BY <1>1 DEF IsTelling
  <1>5. \A k \in 0 .. n + 1 : g[k] = IF k = 0 THEN <<>> ELSE Tinfl!Expand(g[k - 1], s.fields[k])
    BY <1>2 DEF IsTelling
  <1> DEFINE S == {j \in Nat : j <= n => f[j] = g[j]}
  <1>6. 0 \in S
    BY <1>4, <1>5
  <1>7. ASSUME NEW j \in Nat, j \in S PROVE j + 1 \in S
    <2>1. SUFFICES ASSUME j + 1 <= n PROVE f[j + 1] = g[j + 1]
      OBVIOUS
    <2>2. f[j] = g[j] /\ j + 1 \in 0 .. n /\ j + 1 \in 0 .. n + 1 /\ (j + 1) - 1 = j /\ j + 1 # 0
      BY <1>7, <2>1
    <2> QED
      BY <1>4, <1>5, <2>2
  <1>8. Nat \subseteq S
    <2> HIDE DEF S
    <2> QED
      BY <1>6, <1>7, AllNaturals
  <1>9. f[n] = g[n]
    BY <1>8
  <1>10. g[n + 1] = Tinfl!Expand(g[n], s.fields[n + 1])
    BY <1>5
  <1>11. h[0] = <<>>
    BY <1>3 DEF IsTelling
  <1> QED
    BY <1>1, <1>2, <1>3, <1>9, <1>10, <1>11

(* Where a field ends, rounded up if it aligns. *)
LEMMA AfterIs ==
  ASSUME NEW q \in Nat, NEW f, Tinfl!IsField(f)
  PROVE  /\ Tinfl!After(q, f) \in Nat /\ q <= Tinfl!After(q, f)
         /\ f.way \in {"align", "finish"} => Tinfl!After(q, f) % 8 = 0 /\ Tinfl!After(q, f) <= q + 7
         /\ f.way \notin {"align", "finish"} => Tinfl!After(q, f) = q + f.n
  <1>1. f.n \in Nat
    BY DEF Tinfl!IsField
  <1>2. /\ ((q + 7) \div 8) * 8 \in Nat /\ q <= ((q + 7) \div 8) * 8
        /\ ((q + 7) \div 8) * 8 % 8 = 0 /\ ((q + 7) \div 8) * 8 <= q + 7
    OBVIOUS
  <1> QED
    BY <1>1, <1>2 DEF Tinfl!After

(* The bits used grow from field to field. *)
LEMMA EndsGrow ==
  ASSUME NEW s \in Streams
  PROVE  /\ \A k \in 0 .. Len(s.fields) : Tinfl!EndsAt(s, k) \in Nat
         /\ \A j, k \in 0 .. Len(s.fields) : j <= k => Tinfl!EndsAt(s, j) <= Tinfl!EndsAt(s, k)
  <1> DEFINE n == Len(s.fields)
             E(k) == Tinfl!EndsAt(s, k)
  <1>1. n \in Nat /\ \A k \in 1 .. n : Tinfl!IsField(s.fields[k])
    BY InflateConstants DEF Tinfl!IsStream
  <1>2. ASSUME NEW k \in Nat, k < n, E(k) \in Nat PROVE E(k + 1) \in Nat /\ E(k) <= E(k + 1)
    <2>1. k + 1 \in 1 .. n /\ E(k + 1) = Tinfl!After(E(k), s.fields[k + 1])
      BY <1>1, <1>2, EndsAtNext
    <2> HIDE DEF E
    <2> QED
      BY <1>1, <1>2, <2>1, AfterIs
  <1>3. E(0) = 0
    BY EndsAtNext
  <1> HIDE DEF E, n
  <1> DEFINE S == {k \in Nat : k <= n => E(k) \in Nat}
  <1>4. 0 \in S
    BY <1>3
  <1>5. ASSUME NEW k \in Nat, k \in S PROVE k + 1 \in S
    BY <1>1, <1>2, <1>5
  <1>6. Nat \subseteq S
    <2> HIDE DEF S
    <2> QED
      BY <1>4, <1>5, AllNaturals
  <1>7. \A k \in 0 .. n : E(k) \in Nat
    BY <1>1, <1>6
  <1>8. ASSUME NEW j \in 0 .. n PROVE \A k \in 0 .. n : j <= k => E(j) <= E(k)
    <2> DEFINE R == {k \in Nat : j + k <= n => E(j) <= E(j + k)}
    <2>1. 0 \in R
      BY <1>7
    <2>2. ASSUME NEW k \in Nat, k \in R PROVE k + 1 \in R
      <3> SUFFICES ASSUME j + (k + 1) <= n PROVE E(j) <= E(j + (k + 1))
        OBVIOUS
      <3>1. j + k \in Nat /\ j + k < n /\ j + (k + 1) = (j + k) + 1 /\ j + k \in 0 .. n /\ j + k + 1 \in 0 .. n
        BY <1>1
      <3>2. E(j + k) <= E((j + k) + 1)
        BY <1>2, <1>7, <3>1
      <3> QED
        BY <1>7, <2>2, <3>1, <3>2
    <2>3. Nat \subseteq R
      <3> HIDE DEF R
      <3> QED
        BY <2>1, <2>2, AllNaturals
    <2>4. ASSUME NEW k \in 0 .. n, j <= k PROVE E(j) <= E(k)
      <3>1. k - j \in Nat /\ j + (k - j) = k
        BY <1>1, <2>4
      <3> QED
        BY <1>1, <2>3, <3>1
    <2> QED
      BY <2>4
  <1> QED
    BY <1>7, <1>8 DEF E, n

-----------------------------------------------------------------------------
(* The text of a stream. *)
SoFar(s, n) == Len(Tinfl!TextUpTo(s, n))
IsText(text) == Len(text) \in Nat /\ text = [k \in 1 .. Len(text) |-> text[k]]

LEMMA OneTurnBack ==
  ASSUME NEW n \in Nat \ {0}, NEW i \in Int
  PROVE  (i - n) % n = i % n
  <1> DEFINE q == i \div n
             rem == i % n
  <1>1. q \in Int /\ rem \in 0 .. n - 1 /\ i = q * n + rem
    BY Quotient
  <1> HIDE DEF q, rem
  <1>2. i - n = (q - 1) * n + rem
    BY <1>1
  <1>3. (i - n) % n = rem
    BY <1>1, <1>2, SameRemainder
  <1> QED
    BY <1>3 DEF rem

LEMMA Joined ==
  ASSUME NEW s, NEW t, NEW n \in Nat, NEW m \in Nat, s = [k \in 1 .. n |-> s[k]],
         t = [k \in 1 .. m |-> t[k]]
  PROVE  s \o t = [k \in 1 .. n + m |-> IF k <= n THEN s[k] ELSE t[k - n]]
  <1> DEFINE g == [k \in 1 .. n |-> s[k]]
             h == [k \in 1 .. m |-> t[k]]
  <1>1. g \o h = [k \in 1 .. n + m |-> IF k <= n THEN g[k] ELSE h[k - n]]
    OBVIOUS
  <1>2. g = s /\ h = t
    OBVIOUS
  <1> HIDE DEF g, h
  <1> QED
    BY <1>1, <1>2

(* A literal and a copy add to the text before them; of a copy every byte is
   the one a distance before it.                                           *)
LEMMA LiteralAdds ==
  ASSUME NEW text, IsText(text), NEW f, f.act = "lit"
  PROVE  LET more == Tinfl!Expand(text, f)
         IN /\ IsText(more) /\ Len(more) = Len(text) + 1 /\ more[Len(text) + 1] = f.val
            /\ \A k \in 1 .. Len(text) : more[k] = text[k]
  <1> DEFINE more == Tinfl!Expand(text, f)
             n == Len(text)
  <1>1. more = Append(text, f.val)
    BY DEF Tinfl!Expand
  <1>2. n \in Nat /\ text = [k \in 1 .. n |-> text[k]]
    BY DEF IsText
  <1> HIDE DEF more, n
  <1>3. more = [k \in 1 .. n + 1 |-> IF k = n + 1 THEN f.val ELSE text[k]] /\ Len(more) = n + 1
    BY <1>1, <1>2, AppendIs DEF n
  <1>4. IsText(more)
    BY <1>2, <1>3 DEF IsText
  <1>5. more[n + 1] = f.val /\ \A k \in 1 .. n : more[k] = text[k]
    <2>1. n + 1 \in 1 .. n + 1 /\ \A k \in 1 .. n : k \in 1 .. n + 1 /\ k # n + 1
      BY <1>2
    <2> QED
      BY <1>3, <2>1
  <1> QED
    BY <1>3, <1>4, <1>5 DEF more, n

LEMMA CopyAdds ==
  ASSUME NEW text, IsText(text), NEW f, f.act = "copy", f.len \in Nat \ {0}, f.dist \in Nat \ {0},
         f.dist <= Len(text)
  PROVE  LET more == Tinfl!Expand(text, f)
         IN /\ IsText(more) /\ Len(more) = Len(text) + f.len
            /\ \A k \in 1 .. Len(text) : more[k] = text[k]
            /\ \A k \in Len(text) + 1 .. Len(text) + f.len : more[k] = more[k - f.dist]
  <1> DEFINE more == Tinfl!Expand(text, f)
             n == Len(text)
             len == f.len
             dist == f.dist
             tail == [k \in 1 .. len |-> text[n - dist + 1 + ((k - 1) % dist)]]
  <1>1. more = text \o tail
    BY DEF Tinfl!Expand
  <1>2. n \in Nat /\ text = [k \in 1 .. n |-> text[k]] /\ len \in Nat \ {0} /\ dist \in Nat \ {0}
        /\ dist <= n
    BY DEF IsText
  <1>3. Len(tail) = len /\ \A k \in 1 .. len : tail[k] = text[n - dist + 1 + ((k - 1) % dist)]
    BY <1>2
  <1> HIDE DEF more, n, len, dist, tail
  <1>4. more = [k \in 1 .. n + len |-> IF k <= n THEN text[k] ELSE tail[k - n]]
    BY <1>1, <1>2, <1>3, Joined DEF n, tail
  <1>5. Len(more) = n + len /\ IsText(more)
    BY <1>2, <1>4 DEF IsText
  <1>6. \A k \in 1 .. n : more[k] = text[k]
    BY <1>2, <1>4
  <1>7. ASSUME NEW k \in n + 1 .. n + len PROVE more[k] = more[k - dist]
    <2> DEFINE j == k - n
    <2>1. j \in 1 .. len /\ k = n + j
      BY <1>2
    <2> HIDE DEF j
    <2>2. more[k] = text[n - dist + 1 + ((j - 1) % dist)]
      <3>1. more[k] = tail[k - n] /\ k - n = j
        BY <1>2, <1>4, <2>1
      <3> QED
        BY <1>3, <2>1, <3>1
    <2>3. CASE j <= dist
      <3>1. (j - 1) % dist = j - 1
        <4>1. j - 1 \in 0 .. dist - 1 /\ j - 1 \in Int /\ j - 1 = 0 * dist + (j - 1) /\ 0 \in Int
          BY <1>2, <2>1, <2>3
        <4> QED
          BY <1>2, <4>1, SameRemainder
      <3>2. n - dist + 1 + (j - 1) = k - dist /\ k - dist \in 1 .. n
        BY <1>2, <2>1, <2>3
      <3> QED
        BY <1>6, <2>2, <3>1, <3>2
    <2>4. CASE j > dist
      <3>1. j - dist \in 1 .. len /\ k - dist = n + (j - dist) /\ k - dist \in n + 1 .. n + len
        BY <1>2, <2>1, <2>4
      <3>2. more[k - dist] = tail[(k - dist) - n] /\ (k - dist) - n = j - dist
        BY <1>2, <1>4, <3>1
      <3>3. more[k - dist] = text[n - dist + 1 + (((j - dist) - 1) % dist)]
        BY <1>3, <3>1, <3>2
      <3>4. (j - dist) - 1 = (j - 1) - dist /\ j - 1 \in Int
        BY <1>2, <2>1
      <3>5. ((j - 1) - dist) % dist = (j - 1) % dist
        BY <1>2, <3>4, OneTurnBack
      <3> QED
        BY <2>2, <3>3, <3>4, <3>5
    <2> QED
      BY <1>2, <2>1, <2>3, <2>4
  <1> QED
    BY <1>5, <1>6, <1>7 DEF more, n, len, dist

(* Whatever the field, the text before it is kept. *)
LEMMA ExpandExtends ==
  ASSUME NEW text, IsText(text), NEW f, Tinfl!IsField(f)
  PROVE  LET more == Tinfl!Expand(text, f)
         IN IsText(more) /\ Len(text) <= Len(more) /\ \A k \in 1 .. Len(text) : more[k] = text[k]
  <1>1. f.act = "copy" => f.len \in Nat \ {0} /\ f.dist \in Nat \ {0}
    BY InflateConstants DEF Tinfl!IsField
  <1>2. Len(text) \in Nat
    BY DEF IsText
  <1>3. CASE f.act = "lit"
    BY <1>2, <1>3, LiteralAdds
  <1>4. CASE f.act = "copy" /\ f.dist <= Len(text)
    BY <1>1, <1>2, <1>4, CopyAdds
  <1>5. CASE f.act # "lit" /\ ~(f.act = "copy" /\ f.dist <= Len(text))
    <2>1. Tinfl!Expand(text, f) = text
      BY <1>5 DEF Tinfl!Expand
    <2> QED
      BY <1>2, <2>1
  <1> QED
    BY <1>3, <1>4, <1>5

(* The text grows from field to field. *)
LEMMA TextGrows ==
  ASSUME NEW s \in Streams
  PROVE  /\ \A k \in 0 .. Len(s.fields) : IsText(Tinfl!TextUpTo(s, k))
         /\ \A k \in 0 .. Len(s.fields) :
              /\ SoFar(s, k) \in Nat /\ SoFar(s, k) <= Len(Tinfl!Text(s))
              /\ \A i \in 1 .. SoFar(s, k) : Tinfl!Text(s)[i] = Tinfl!TextUpTo(s, k)[i]
  <1> DEFINE n == Len(s.fields)
             T(k) == Tinfl!TextUpTo(s, k)
  <1>1. n \in Nat /\ \A k \in 1 .. n : Tinfl!IsField(s.fields[k])
    BY InflateConstants DEF Tinfl!IsStream
  <1>2. ASSUME NEW k \in Nat, k < n, IsText(T(k))
        PROVE  IsText(T(k + 1)) /\ Len(T(k)) <= Len(T(k + 1))
               /\ \A i \in 1 .. Len(T(k)) : T(k + 1)[i] = T(k)[i]
    <2>1. k + 1 \in 1 .. n /\ T(k + 1) = Tinfl!Expand(T(k), s.fields[k + 1])
      BY <1>1, <1>2, TextUpToNext
    <2> HIDE DEF T
    <2> QED
      BY <1>1, <1>2, <2>1, ExpandExtends
  <1>3. IsText(T(0))
    <2>1. T(0) = <<>>
      BY TextUpToNext
    <2>2. Len(<<>>) = 0 /\ <<>> = [k \in 1 .. 0 |-> <<>>[k]]
      OBVIOUS
    <2> QED
      BY <2>1, <2>2 DEF IsText
  <1>4. Tinfl!Text(s) = T(n)
    BY DEF Tinfl!Text
  <1> HIDE DEF T, n
  <1> DEFINE S == {k \in Nat : k <= n => IsText(T(k))}
  <1>5. 0 \in S
    BY <1>3
  <1>6. ASSUME NEW k \in Nat, k \in S PROVE k + 1 \in S
    BY <1>1, <1>2, <1>6
  <1>7. Nat \subseteq S
    <2> HIDE DEF S
    <2> QED
      BY <1>5, <1>6, AllNaturals
  <1>8. \A k \in 0 .. n : IsText(T(k)) /\ Len(T(k)) \in Nat
    BY <1>1, <1>7 DEF IsText
  <1> DEFINE Kept(i, k) == Len(T(i)) <= Len(T(k)) /\ \A j \in 1 .. Len(T(i)) : T(k)[j] = T(i)[j]
  <1>9. ASSUME NEW i \in 0 .. n PROVE Kept(i, n)
    <2> DEFINE R == {k \in Nat : i + k <= n => Kept(i, i + k)}
    <2>1. 0 \in R
      BY <1>8
    <2>2. ASSUME NEW k \in Nat, k \in R PROVE k + 1 \in R
      <3> SUFFICES ASSUME i + (k + 1) <= n PROVE Kept(i, i + (k + 1))
        OBVIOUS
      <3>1. i + k \in Nat /\ i + k < n /\ i + (k + 1) = (i + k) + 1 /\ i + k \in 0 .. n /\ i + k + 1 \in 0 .. n
        BY <1>1
      <3>2. Kept(i, i + k) /\ IsText(T(i + k))
        BY <1>8, <2>2, <3>1
      <3>3. Kept(i + k, (i + k) + 1)
        BY <1>2, <3>1, <3>2
      <3>4. Len(T(i)) \in Nat /\ Len(T(i + k)) \in Nat /\ Len(T((i + k) + 1)) \in Nat
        BY <1>8, <3>1
      <3>5. Kept(i, (i + k) + 1)
        BY <3>2, <3>3, <3>4
      <3> QED
        BY <3>1, <3>5
    <2>3. Nat \subseteq R
      <3> HIDE DEF R
      <3> QED
        BY <2>1, <2>2, AllNaturals
    <2>4. n - i \in Nat /\ i + (n - i) = n
      BY <1>1
    <2> HIDE DEF Kept
    <2> QED
      BY <1>1, <2>3, <2>4
  <1> QED
    BY <1>4, <1>8, <1>9 DEF T, n, SoFar

(* What a field adds to the text. *)
LEMMA FieldAdds ==
  ASSUME NEW s \in Streams, NEW i \in 1 .. Len(s.fields)
  PROVE  LET f == s.fields[i]
             b == SoFar(s, i - 1)
             e == SoFar(s, i)
         IN /\ b \in Nat /\ e \in Nat /\ e <= Len(Tinfl!Text(s))
            /\ f.act = "none" => e = b
            /\ f.act = "lit" => e = b + 1 /\ Tinfl!Text(s)[b + 1] = f.val
            /\ f.act = "copy" /\ ~Tinfl!Before(s, i) =>
                 e = b + f.len /\ f.dist <= b
                 /\ \A k \in b + 1 .. b + f.len : Tinfl!Text(s)[k] = Tinfl!Text(s)[k - f.dist]
            /\ Tinfl!Before(s, i) => f.act = "copy" /\ f.dist > b
  <1> DEFINE n == Len(s.fields)
             f == s.fields[i]
             t == Tinfl!TextUpTo(s, i - 1)
             u == Tinfl!TextUpTo(s, i)
             b == SoFar(s, i - 1)
             e == SoFar(s, i)
             x == Tinfl!Text(s)
  <1>1. n \in Nat /\ i - 1 \in 0 .. n /\ i \in 0 .. n /\ (i - 1) + 1 = i /\ Tinfl!IsField(f)
        /\ i - 1 \in Nat
    BY InflateConstants DEF Tinfl!IsStream
  <1>2. u = Tinfl!Expand(t, f)
    BY <1>1, TextUpToNext
  <1>3. IsText(t) /\ b \in Nat /\ e \in Nat /\ e <= Len(x) /\ b = Len(t) /\ e = Len(u)
        /\ \A k \in 1 .. e : x[k] = u[k]
    BY <1>1, TextGrows DEF SoFar
  <1>4. Tinfl!Before(s, i) <=> f.act = "copy" /\ f.dist > b
    BY DEF Tinfl!Before, SoFar
  <1>5. f.act = "copy" => f.len \in Nat \ {0} /\ f.dist \in Nat \ {0}
    BY <1>1, InflateConstants DEF Tinfl!IsField
  <1> HIDE DEF n, f, t, u, b, e, x
  <1>6. f.act = "none" => e = b
    <2>1. f.act = "none" => Tinfl!Expand(t, f) = t
      BY DEF Tinfl!Expand
    <2> QED
      BY <1>2, <1>3, <2>1
  <1>7. f.act = "lit" => e = b + 1 /\ x[b + 1] = f.val
    BY <1>2, <1>3, LiteralAdds
  <1>8. ASSUME f.act = "copy", f.dist <= b
        PROVE  e = b + f.len /\ \A k \in b + 1 .. b + f.len : x[k] = x[k - f.dist]
    <2>1. e = b + f.len /\ \A k \in b + 1 .. b + f.len : u[k] = u[k - f.dist]
      <3>1. IsText(t) /\ f.len \in Nat \ {0} /\ f.dist \in Nat \ {0} /\ f.dist <= Len(t)
        BY <1>3, <1>5, <1>8
      <3>2. LET more == Tinfl!Expand(t, f)
            IN /\ Len(more) = Len(t) + f.len
               /\ \A k \in Len(t) + 1 .. Len(t) + f.len : more[k] = more[k - f.dist]
        BY <1>8, <3>1, CopyAdds
      <3> QED
        BY <1>2, <1>3, <3>2
    <2>2. ASSUME NEW k \in b + 1 .. b + f.len PROVE k \in 1 .. e /\ k - f.dist \in 1 .. e
      BY <1>3, <1>5, <1>8, <2>1
    <2> QED
      BY <1>3, <2>1, <2>2
  <1>9. ~Tinfl!Before(s, i) /\ f.act = "copy" => f.dist <= b
    BY <1>3, <1>4, <1>5
  <1> QED
    BY <1>3, <1>4, <1>6, <1>7, <1>8, <1>9 DEF f, b, e, x

-----------------------------------------------------------------------------
(* What the decompressor knows.  The predicates are of the values themselves:
   a stream s, a decompressor d, an output buffer b, a call c, the number w of
   bytes written so far.                                                   *)
Decompressor == {"i", "pos", "filling", "lit", "left", "dist", "from", "summed"}
HoldsNothing(e) == e.lit = <<>> /\ e.left = 0
Pending(e) == IF e.lit # <<>> THEN 1 ELSE e.left

(* It stands between two fields, having passed no error. *)
Reads(s, e) ==
  /\ DOMAIN e = Decompressor
  /\ e.i \in 1 .. Len(s.fields) + 1 /\ e.pos = Tinfl!EndsAt(s, e.i - 1)
  /\ \A k \in 1 .. e.i - 1 : s.fields[k].way # "bad"
  /\ e.lit = <<>> \/ (e.left = 0 /\ \E v : e.lit = <<v>>)
  /\ e.left \in Nat /\ e.from \in Nat /\ e.summed \in Nat

(* The text is written up to what is pending, the pending bytes are the next
   of the text, and the buffer has the last of those written: round the
   dictionary, or from its start.  Without a dictionary a copy from before
   the text does not get by.                                               *)
SoundTo(s, n) == \A k \in 1 .. n : ~Tinfl!Before(s, k)
Place(wraps, j) == IF wraps THEN Tdefl!Cell(j) ELSE j
Remembers(s, wraps, b, w) ==
  \A j \in Nat : j < w /\ (wraps => w - DictSize <= j) => b[Place(wraps, j)] = Tinfl!Text(s)[j + 1]
Expects(s, e, w) ==
  /\ e.lit # <<>> => e.lit = <<Tinfl!Text(s)[w + 1]>>
  /\ e.left > 0 =>
       /\ e.dist \in 1 .. DictSize /\ e.dist <= w
       /\ \A k \in w + 1 .. w + e.left : Tinfl!Text(s)[k] = Tinfl!Text(s)[k - e.dist]
Tells(s, wraps, e, b, w) ==
  /\ w \in Nat
  /\ SoundTo(s, e.i - 1) => w + Pending(e) = SoFar(s, e.i - 1)
  /\ Tinfl!Sound(s) => Expects(s, e, w) /\ Remembers(s, wraps, b, w)
  /\ e.left > 0 => Place(wraps, e.from) = Place(wraps, w)
  /\ wraps \/ SoundTo(s, e.i - 1) \/ (e.left > 0 /\ e.lit = <<>> /\ e.from < e.dist)

(* Output goes where the text goes on. *)
Stands(c, given, o, b, w) ==
  /\ c.limit \in Nat /\ o \in 0 .. c.limit /\ DOMAIN b = 0 .. c.limit - 1 /\ c.next \in 0 .. o
  /\ c.wraps => c.limit = DictSize /\ c.next = Tdefl!Cell(given) /\ o - c.next = w - given
  /\ ~c.wraps => o = w

LEMMA CellAgain ==
  ASSUME NEW i \in Int
  PROVE  Tdefl!Cell(Tdefl!Cell(i)) = Tdefl!Cell(i) /\ Tdefl!Cell(i + DictSize) = Tdefl!Cell(i)
  <1> DEFINE n == DictSize
             q == i \div n
             rem == i % n
  <1>1. n \in Nat \ {0}
    BY DeflateConstants
  <1>2. q \in Int /\ rem \in 0 .. n - 1 /\ i = q * n + rem
    BY <1>1, Quotient
  <1>3. Tdefl!Cell(i) = rem /\ Tdefl!Cell(rem) = rem % n /\ Tdefl!Cell(i + n) = (i + n) % n
    BY DEF Tdefl!Cell
  <1> HIDE DEF n, q, rem
  <1>4. i + n = (q + 1) * n + rem /\ rem = 0 * n + rem /\ rem \in Int /\ q + 1 \in Int /\ i + n \in Int
    BY <1>1, <1>2
  <1>5. (i + n) % n = rem
    BY <1>1, <1>2, <1>4, SameRemainder
  <1>6. rem % n = rem
    BY <1>1, <1>2, <1>4, SameRemainder
  <1> QED
    BY <1>3, <1>5, <1>6 DEF n

LEMMA CellsShift ==
  ASSUME NEW i \in Int, NEW j \in Int, NEW k \in Int, Tdefl!Cell(i) = Tdefl!Cell(j)
  PROVE  Tdefl!Cell(i + k) = Tdefl!Cell(j + k)
  <1> DEFINE n == DictSize
             q == i \div n
             t == j \div n
             rem == i % n
             v == (i + k) \div n
             left == (i + k) % n
  <1>1. n \in Nat \ {0}
    BY DeflateConstants
  <1>2. i % n = j % n
    BY DEF Tdefl!Cell
  <1>3. q \in Int /\ t \in Int /\ rem \in 0 .. n - 1 /\ i = q * n + rem /\ j = t * n + rem
    BY <1>1, <1>2, Quotient
  <1>4. i + k \in Int
    OBVIOUS
  <1>5. v \in Int /\ left \in 0 .. n - 1 /\ i + k = v * n + left
    BY <1>1, <1>4, Quotient
  <1> HIDE DEF n, q, t, rem, v, left
  <1>6. j + k = (v + (t - q)) * n + left /\ v + (t - q) \in Int /\ j + k \in Int
    BY <1>1, <1>3, <1>5
  <1>7. (j + k) % n = left
    BY <1>1, <1>5, <1>6, SameRemainder
  <1> QED
    BY <1>7 DEF Tdefl!Cell, left, n

(* Output goes to the place of the next byte, if there is room. *)
LEMMA OutPlace ==
  ASSUME NEW c, c.wraps \in BOOLEAN, NEW given \in Nat, NEW o, NEW b, NEW w \in Nat,
         Stands(c, given, o, b, w)
  PROVE  /\ o < c.limit => o = Place(c.wraps, w)
         /\ Place(c.wraps, o) = Place(c.wraps, w)
  <1>1. CASE ~c.wraps
    BY <1>1 DEF Stands, Place
  <1>2. CASE c.wraps
    <2> DEFINE k == w - given
    <2>1. /\ c.limit = DictSize /\ o \in 0 .. DictSize /\ c.next = Tdefl!Cell(given)
          /\ c.next \in 0 .. o /\ o - c.next = k /\ o \in Nat
      BY <1>2, DeflateConstants DEF Stands
    <2>2. c.next \in 0 .. DictSize - 1
      BY <2>1, Cells
    <2>3. k \in 0 .. DictSize /\ given + k = w /\ o = c.next + k
      BY <2>1, <2>2, DeflateConstants
    <2>4. Tdefl!Cell(w) \in 0 .. DictSize - 1
      BY Cells
    <2>5. CASE k < DictSize
      <3>1. k \in 0 .. DictSize - 1
        BY <2>3, <2>5, DeflateConstants
      <3> HIDE DEF k
      <3>2. o = Tdefl!Cell(w) \/ o = Tdefl!Cell(w) + DictSize
        BY <2>1, <2>3, <3>1, CellsAlong
      <3>3. Tdefl!Cell(o) = Tdefl!Cell(w)
        BY <2>4, <3>2, CellAgain, DeflateConstants
      <3>4. o < DictSize => o = Tdefl!Cell(w)
        BY <2>1, <2>4, <3>2, DeflateConstants
      <3> QED
        BY <1>2, <2>1, <3>3, <3>4 DEF Place
    <2>6. CASE k >= DictSize
      <3>1. c.next = 0 /\ o = DictSize /\ w = given + DictSize
        BY <2>1, <2>2, <2>3, <2>6, DeflateConstants
      <3>2. Tdefl!Cell(w) = 0
        <4>1. given \in Int
          OBVIOUS
        <4>2. Tdefl!Cell(given + DictSize) = Tdefl!Cell(given)
          BY <4>1, CellAgain
        <4> QED
          BY <2>1, <3>1, <4>2
      <3>3. Tdefl!Cell(0 + DictSize) = Tdefl!Cell(0) /\ Tdefl!Cell(Tdefl!Cell(given)) = Tdefl!Cell(given)
        BY CellAgain
      <3>4. Tdefl!Cell(o) = 0
        BY <2>1, <3>1, <3>3, DeflateConstants
      <3> QED
        BY <1>2, <2>1, <3>1, <3>2, <3>4, DeflateConstants DEF Place
    <2> QED
      BY <2>3, <2>5, <2>6, DeflateConstants
  <1> QED
    BY <1>1, <1>2

(* m bytes further, the buffer may have others. *)
LEMMA StandsMore ==
  ASSUME NEW c, c.wraps \in BOOLEAN, NEW given \in Nat, NEW o, NEW b, NEW w \in Nat,
         Stands(c, given, o, b, w), NEW m \in Nat, o + m <= c.limit, NEW g, DOMAIN g = DOMAIN b
  PROVE  Stands(c, given, o + m, g, w + m)
  <1>1. c.limit \in Nat /\ o \in 0 .. c.limit /\ DOMAIN b = 0 .. c.limit - 1 /\ c.next \in 0 .. o
    BY DEF Stands
  <1>2. o + m \in 0 .. c.limit /\ c.next \in 0 .. o + m /\ c.next \in Nat /\ o \in Nat
    BY <1>1
  <1>3. c.wraps => c.limit = DictSize /\ c.next = Tdefl!Cell(given) /\ o - c.next = w - given
    BY DEF Stands
  <1>4. c.wraps => (o + m) - c.next = (w + m) - given
    BY <1>2, <1>3
  <1>5. ~c.wraps => o + m = w + m
    BY DEF Stands
  <1> QED
    BY <1>1, <1>2, <1>3, <1>4, <1>5 DEF Stands

-----------------------------------------------------------------------------
(* The steps of the decompressor. *)
LEMMA UsedIs ==
  ASSUME NEW e, DOMAIN e = Decompressor, NEW f
  PROVE  LET u == Tinfl!Used(e, f)
         IN /\ DOMAIN u = Decompressor
            /\ u.i = e.i + 1 /\ u.pos = Tinfl!After(e.pos, f) /\ u.summed = e.summed
            /\ f.act = "lit" => u.lit = <<f.val>>
            /\ f.act # "lit" => u.lit = <<>>
            /\ f.act = "copy" => u.left = f.len /\ u.dist = f.dist /\ u.from = out
            /\ f.act # "copy" => u.left = 0 /\ u.dist = e.dist /\ u.from = e.from
  BY DEF Tinfl!Used, Decompressor

(* A field is used: what it adds is pending. *)
LEMMA UseTells ==
  ASSUME NEW s \in Streams, NEW wraps \in BOOLEAN, NEW e, NEW b, NEW w,
         Reads(s, e), Tells(s, wraps, e, b, w), HoldsNothing(e), e.i <= Len(s.fields),
         s.fields[e.i].way # "bad", out \in Nat,
         s.fields[e.i].act = "copy" => Place(wraps, out) = Place(wraps, w)
  PROVE  LET u == Tinfl!Used(e, s.fields[e.i])
         IN Reads(s, u) /\ Tells(s, wraps, u, b, w) /\ u.pos = Tinfl!After(e.pos, s.fields[e.i])
            /\ u.summed = e.summed /\ u.i = e.i + 1
  <1> DEFINE i == e.i
             f == s.fields[e.i]
             u == Tinfl!Used(e, f)
             n == Len(s.fields)
             x == Tinfl!Text(s)
  <1>1. n \in Nat /\ i \in 1 .. n /\ DOMAIN s.fields = 1 .. n /\ Tinfl!IsField(f)
        /\ e.pos = Tinfl!EndsAt(s, i - 1) /\ i - 1 \in Nat /\ (i - 1) + 1 = i
        /\ DOMAIN e = Decompressor /\ e.summed \in Nat /\ e.from \in Nat
    BY InflateConstants DEF Reads, Tinfl!IsStream
  <1>2. /\ DOMAIN u = Decompressor
        /\ u.i = i + 1 /\ u.pos = Tinfl!After(e.pos, f) /\ u.summed = e.summed
        /\ f.act = "lit" => u.lit = <<f.val>>
        /\ f.act # "lit" => u.lit = <<>>
        /\ f.act = "copy" => u.left = f.len /\ u.dist = f.dist /\ u.from = out
        /\ f.act # "copy" => u.left = 0 /\ u.dist = e.dist /\ u.from = e.from
    BY <1>1, UsedIs
  <1>3. u.pos = Tinfl!EndsAt(s, i)
    BY <1>1, <1>2, EndsAtNext
  <1>4. f.act \in {"none", "lit", "copy"}
        /\ (f.act = "copy" => f.len \in Nat \ {0} /\ f.dist \in 1 .. DictSize)
    BY <1>1 DEF Tinfl!IsField
  <1>5. Reads(s, u)
    <2>1. u.i \in 1 .. n + 1 /\ u.i - 1 = i
      BY <1>1, <1>2
    <2>2. \A k \in 1 .. i : s.fields[k].way # "bad"
      <3>1. \A k \in 1 .. i - 1 : s.fields[k].way # "bad"
        BY DEF Reads
      <3>2. \A k \in 1 .. i : k \in 1 .. i - 1 \/ k = i
        BY <1>1
      <3> QED
        BY <3>1, <3>2
    <2>3. u.lit = <<>> \/ (u.left = 0 /\ \E v : u.lit = <<v>>)
      BY <1>2
    <2>4. u.left \in Nat /\ u.from \in Nat /\ u.summed \in Nat
      BY <1>1, <1>2, <1>4
    <2> HIDE DEF u, i, n
    <2> QED
      BY <1>2, <1>3, <2>1, <2>2, <2>3, <2>4 DEF Reads, n
  <1>6. w \in Nat /\ Pending(e) = 0 /\ (SoundTo(s, i - 1) => w = SoFar(s, i - 1))
        /\ (wraps \/ SoundTo(s, i - 1))
    <2>1. Pending(e) = 0
      BY DEF Pending, HoldsNothing
    <2> QED
      BY <2>1 DEF Tells, HoldsNothing
  <1>7. LET c == SoFar(s, i - 1)
            m == SoFar(s, i)
        IN /\ c \in Nat /\ m \in Nat /\ m <= Len(x)
           /\ f.act = "none" => m = c
           /\ f.act = "lit" => m = c + 1 /\ x[c + 1] = f.val
           /\ f.act = "copy" /\ ~Tinfl!Before(s, i) =>
                m = c + f.len /\ f.dist <= c /\ \A k \in c + 1 .. c + f.len : x[k] = x[k - f.dist]
           /\ Tinfl!Before(s, i) => f.act = "copy" /\ f.dist > c
    BY <1>1, FieldAdds
  <1>8. SoundTo(s, i) <=> SoundTo(s, i - 1) /\ ~Tinfl!Before(s, i)
    <2>1. \A k \in 1 .. i : k \in 1 .. i - 1 \/ k = i
      BY <1>1
    <2>2. i \in 1 .. i /\ \A k \in 1 .. i - 1 : k \in 1 .. i
      BY <1>1
    <2> QED
      BY <2>1, <2>2 DEF SoundTo
  <1>9. Tinfl!Sound(s) => SoundTo(s, i)
    BY <1>1 DEF Tinfl!Sound, SoundTo
  <1>10. u.i - 1 = i
    BY <1>1, <1>2
  <1> HIDE DEF u, f, n, x, i
  <1>11. Pending(u) = IF f.act = "lit" THEN 1 ELSE IF f.act = "copy" THEN f.len ELSE 0
    <2>1. <<f.val>> # <<>>
      OBVIOUS
    <2> QED
      BY <1>2, <1>4, <2>1 DEF Pending
  <1>12. SoundTo(s, i) => w + Pending(u) = SoFar(s, i)
    BY <1>4, <1>6, <1>7, <1>8, <1>11
  <1>13. Tinfl!Sound(s) => Expects(s, u, w)
    <2> SUFFICES ASSUME Tinfl!Sound(s) PROVE Expects(s, u, w)
      OBVIOUS
    <2>1. w = SoFar(s, i - 1) /\ ~Tinfl!Before(s, i)
      BY <1>6, <1>8, <1>9
    <2>2. u.lit # <<>> => u.lit = <<x[w + 1]>>
      BY <1>2, <1>7, <2>1
    <2>3. u.left > 0 => /\ u.dist \in 1 .. DictSize /\ u.dist <= w
                        /\ \A k \in w + 1 .. w + u.left : x[k] = x[k - u.dist]
      BY <1>2, <1>4, <1>7, <2>1
    <2> QED
      BY <2>2, <2>3 DEF Expects, x
  <1>14. Tinfl!Sound(s) => Remembers(s, wraps, b, w)
    BY DEF Tells
  <1>15. u.left > 0 => Place(wraps, u.from) = Place(wraps, w)
    BY <1>2 DEF f
  <1>16. wraps \/ SoundTo(s, i) \/ (u.left > 0 /\ u.lit = <<>> /\ u.from < u.dist)
    <2> SUFFICES ASSUME ~wraps, Tinfl!Before(s, i) PROVE u.left > 0 /\ u.lit = <<>> /\ u.from < u.dist
      BY <1>6, <1>8
    <2>1. f.act = "copy" /\ f.dist > w
      BY <1>6, <1>7
    <2>2. out = w
      BY <2>1 DEF Place, f
    <2> QED
      BY <1>2, <1>4, <2>1, <2>2
  <1>17. Tells(s, wraps, u, b, w)
    BY <1>6, <1>10, <1>12, <1>13, <1>14, <1>15, <1>16 DEF Tells
  <1> QED
    BY <1>2, <1>5, <1>17 DEF u, f, i

(* A byte written at the place of the next is remembered with those before. *)
PutAt(b, o, v, g) == /\ DOMAIN g = DOMAIN b /\ o \in DOMAIN b /\ g[o] = v
                     /\ \A k \in DOMAIN b : k # o => g[k] = b[k]
Covers(wraps, b, w) ==
  \A j \in Nat : j < w /\ (wraps => w - DictSize <= j) => Place(wraps, j) \in DOMAIN b

LEMMA PlacesThere ==
  ASSUME NEW c, c.wraps \in BOOLEAN, NEW given, NEW o, NEW b, NEW w, Stands(c, given, o, b, w)
  PROVE  Covers(c.wraps, b, w)
  <1>1. c.limit \in Nat /\ DOMAIN b = 0 .. c.limit - 1 /\ o \in 0 .. c.limit
    BY DEF Stands
  <1> SUFFICES ASSUME NEW j \in Nat, j < w, c.wraps => w - DictSize <= j
               PROVE  Place(c.wraps, j) \in DOMAIN b
    BY DEF Covers
  <1>2. CASE c.wraps
    <2>1. c.limit = DictSize
      BY <1>2 DEF Stands
    <2>2. Tdefl!Cell(j) \in 0 .. DictSize - 1
      BY Cells
    <2> QED
      BY <1>1, <1>2, <2>1, <2>2 DEF Place
  <1>3. CASE ~c.wraps
    <2>1. o = w
      BY <1>3 DEF Stands
    <2>2. j \in 0 .. c.limit - 1
      BY <1>1, <2>1
    <2> QED
      BY <1>1, <1>3, <2>2 DEF Place
  <1> QED
    BY <1>2, <1>3

LEMMA PutRemembers ==
  ASSUME NEW s, NEW wraps \in BOOLEAN, NEW b, NEW w \in Nat, NEW o, NEW v, NEW g, PutAt(b, o, v, g),
         o = Place(wraps, w), v = Tinfl!Text(s)[w + 1], Remembers(s, wraps, b, w),
         Covers(wraps, b, w)
  PROVE  Remembers(s, wraps, g, w + 1)
  <1>1. g[o] = v /\ \A k \in DOMAIN b : k # o => g[k] = b[k]
    BY DEF PutAt
  <1> SUFFICES ASSUME NEW j \in Nat, j < w + 1, wraps => (w + 1) - DictSize <= j
               PROVE  g[Place(wraps, j)] = Tinfl!Text(s)[j + 1]
    BY DEF Remembers
  <1>2. CASE j = w
    BY <1>1, <1>2
  <1>3. CASE j # w
    <2>1. j < w /\ (wraps => w - DictSize <= j) /\ (wraps => w < j + DictSize)
      BY <1>3, DeflateConstants
    <2>2. b[Place(wraps, j)] = Tinfl!Text(s)[j + 1]
      BY <2>1 DEF Remembers
    <2>4. Place(wraps, j) \in DOMAIN b
      BY <2>1 DEF Covers
    <2>3. Place(wraps, j) # o
      <3>1. CASE wraps
        <4>1. Tdefl!Cell(j) # Tdefl!Cell(w)
          BY <2>1, <3>1, CellsApart
        <4> QED
          BY <3>1, <4>1 DEF Place
      <3>2. CASE ~wraps
        BY <1>3, <3>2 DEF Place
      <3> QED
        BY <3>1, <3>2
    <2> QED
      BY <1>1, <2>2, <2>3, <2>4
  <1> QED
    BY <1>2, <1>3

(* The literal is written. *)
Wrote(e, u) ==
  /\ DOMAIN u = Decompressor /\ u.lit = <<>> /\ u.i = e.i /\ u.pos = e.pos
  /\ u.left = e.left /\ u.dist = e.dist /\ u.from = e.from /\ u.summed = e.summed
Copied(e, u) ==
  /\ DOMAIN u = Decompressor /\ u.lit = e.lit /\ u.i = e.i /\ u.pos = e.pos
  /\ u.left = e.left - 1 /\ u.dist = e.dist /\ u.from = e.from + 1 /\ u.summed = e.summed

LEMMA LiteralTells ==
  ASSUME NEW s \in Streams, NEW wraps \in BOOLEAN, NEW e, NEW b, NEW w, NEW o, NEW v,
         Reads(s, e), Tells(s, wraps, e, b, w), e.lit = <<v>>, o = Place(wraps, w),
         Covers(wraps, b, w), NEW u, Wrote(e, u), NEW g, PutAt(b, o, v, g)
  PROVE  Reads(s, u) /\ HoldsNothing(u) /\ Tells(s, wraps, u, g, w + 1)
  <1>1. DOMAIN e = Decompressor /\ e.left = 0 /\ <<v>> # <<>>
    BY DEF Reads
  <1>2. /\ DOMAIN u = Decompressor /\ u.lit = <<>> /\ u.i = e.i /\ u.pos = e.pos
        /\ u.left = e.left /\ u.dist = e.dist /\ u.from = e.from /\ u.summed = e.summed
    BY DEF Wrote
  <1>3. Reads(s, u)
    BY <1>2 DEF Reads
  <1>4. HoldsNothing(u)
    BY <1>1, <1>2 DEF HoldsNothing
  <1>5. w \in Nat /\ Pending(e) = 1 /\ Pending(u) = 0
    BY <1>1, <1>2 DEF Tells, Pending
  <1>6. SoundTo(s, u.i - 1) => (w + 1) + Pending(u) = SoFar(s, u.i - 1)
    BY <1>2, <1>5 DEF Tells
  <1>7. ASSUME Tinfl!Sound(s)
        PROVE  Expects(s, u, w + 1) /\ Remembers(s, wraps, g, w + 1)
    <2>1. Expects(s, e, w) /\ Remembers(s, wraps, b, w)
      BY <1>7 DEF Tells
    <2>2. v = Tinfl!Text(s)[w + 1]
      BY <1>1, <2>1 DEF Expects
    <2>3. Expects(s, u, w + 1)
      BY <1>1, <1>2 DEF Expects
    <2> QED
      BY <1>5, <2>1, <2>2, <2>3, PutRemembers
  <1>8. wraps \/ SoundTo(s, u.i - 1) \/ (u.left > 0 /\ u.lit = <<>> /\ u.from < u.dist)
    BY <1>1, <1>2 DEF Tells
  <1>9. Tells(s, wraps, u, g, w + 1)
    BY <1>1, <1>2, <1>5, <1>6, <1>7, <1>8 DEF Tells
  <1> QED
    BY <1>3, <1>4, <1>9

(* A byte of a copy is written, the one a distance back. *)
LEMMA CopyTells ==
  ASSUME NEW s \in Streams, NEW wraps \in BOOLEAN, NEW e, NEW b, NEW w, NEW o, NEW v,
         Reads(s, e), Tells(s, wraps, e, b, w), e.left > 0, wraps \/ ~(e.from < e.dist),
         o = Place(wraps, w), Covers(wraps, b, w),
         v = b[IF wraps THEN (e.from - e.dist) % DictSize ELSE e.from - e.dist],
         NEW u, Copied(e, u), NEW g, PutAt(b, o, v, g)
  PROVE  Reads(s, u) /\ Tells(s, wraps, u, g, w + 1)
  <1>1. /\ DOMAIN e = Decompressor /\ e.lit = <<>> /\ e.left \in Nat \ {0} /\ e.from \in Nat
        /\ w \in Nat /\ Place(wraps, e.from) = Place(wraps, w)
    BY DEF Reads, Tells
  <1>2. /\ DOMAIN u = Decompressor /\ u.lit = <<>> /\ u.i = e.i /\ u.pos = e.pos
        /\ u.left = e.left - 1 /\ u.dist = e.dist /\ u.from = e.from + 1 /\ u.summed = e.summed
    BY <1>1 DEF Copied
  <1>3. Reads(s, u)
    BY <1>1, <1>2 DEF Reads
  <1>4. Pending(e) = e.left /\ Pending(u) = e.left - 1
    BY <1>1, <1>2 DEF Pending
  <1>5. SoundTo(s, u.i - 1) => (w + 1) + Pending(u) = SoFar(s, u.i - 1)
    BY <1>1, <1>2, <1>4 DEF Tells
  <1>6. ASSUME Tinfl!Sound(s)
        PROVE  Expects(s, u, w + 1) /\ Remembers(s, wraps, g, w + 1)
    <2>1. Expects(s, e, w) /\ Remembers(s, wraps, b, w)
      BY <1>6 DEF Tells
    <2>2. /\ e.dist \in 1 .. DictSize /\ e.dist <= w /\ e.dist \in Nat
          /\ \A k \in w + 1 .. w + e.left : Tinfl!Text(s)[k] = Tinfl!Text(s)[k - e.dist]
      BY <1>1, <2>1 DEF Expects
    <2>3. Expects(s, u, w + 1)
      <3>1. \A k \in (w + 1) + 1 .. (w + 1) + u.left : k \in w + 1 .. w + e.left
        BY <1>1, <1>2
      <3>2. e.dist <= w + 1
        BY <1>1, <2>2
      <3> QED
        BY <1>2, <2>2, <3>1, <3>2 DEF Expects
    <2> DEFINE j == w - e.dist
    <2> DEFINE dist == e.dist
    <2>3a. dist \in 1 .. DictSize /\ dist <= w
      BY <2>2
    <2>3b. w \in Nat /\ DictSize \in Nat
      BY <1>1, DeflateConstants
    <2>4. j \in Nat /\ j < w /\ w - DictSize <= j /\ j + 1 = (w + 1) - e.dist
      <3>1. w - dist \in Nat /\ w - dist < w /\ w - DictSize <= w - dist
            /\ (w - dist) + 1 = (w + 1) - dist
        <4> HIDE DEF dist
        <4> QED
          BY <2>3a, <2>3b
      <3> QED
        BY <3>1
    <2>5. Place(wraps, j) = IF wraps THEN (e.from - e.dist) % DictSize ELSE e.from - e.dist
      <3>1. CASE wraps
        <4>1. Tdefl!Cell(e.from) = Tdefl!Cell(w)
          BY <1>1, <3>1 DEF Place
        <4>2. -e.dist \in Int /\ e.from \in Int /\ w \in Int
              /\ w + (-e.dist) = w - e.dist /\ e.from + (-e.dist) = e.from - e.dist
          BY <1>1, <2>2
        <4>3. Tdefl!Cell(e.from + (-e.dist)) = Tdefl!Cell(w + (-e.dist))
          BY <4>1, <4>2, CellsShift
        <4> QED
          BY <3>1, <4>2, <4>3 DEF Place, Tdefl!Cell
      <3>2. CASE ~wraps
        BY <1>1, <3>2 DEF Place
      <3> QED
        BY <3>1, <3>2
    <2> HIDE DEF j
    <2>6. v = Tinfl!Text(s)[j + 1]
      BY <2>1, <2>4, <2>5 DEF Remembers
    <2>7. w + 1 \in w + 1 .. w + e.left
      BY <1>1
    <2>8. v = Tinfl!Text(s)[w + 1]
      BY <2>2, <2>4, <2>6, <2>7
    <2> QED
      BY <1>1, <2>1, <2>3, <2>8, PutRemembers
  <1>7. Place(wraps, u.from) = Place(wraps, w + 1)
    <2>1. CASE wraps
      <3>1. Tdefl!Cell(e.from) = Tdefl!Cell(w) /\ e.from \in Int /\ w \in Int /\ 1 \in Int
        BY <1>1, <2>1 DEF Place
      <3>2. Tdefl!Cell(e.from + 1) = Tdefl!Cell(w + 1)
        BY <3>1, CellsShift
      <3> QED
        BY <1>2, <2>1, <3>2 DEF Place
    <2>2. CASE ~wraps
      BY <1>1, <1>2, <2>2 DEF Place
    <2> QED
      BY <2>1, <2>2
  <1>8. wraps \/ SoundTo(s, u.i - 1)
    <2>1. wraps \/ SoundTo(s, e.i - 1) \/ e.from < e.dist
      BY DEF Tells
    <2>2. CASE ~wraps
      <3>1. CASE SoundTo(s, e.i - 1)
        BY <1>2, <3>1
      <3>2. CASE ~SoundTo(s, e.i - 1)
        BY <2>1, <2>2, <3>2
      <3> QED
        BY <3>1, <3>2
    <2> QED
      BY <2>2
  <1>9. w + 1 \in Nat
    BY <1>1
  <1>10. Tells(s, wraps, u, g, w + 1)
    BY <1>5, <1>6, <1>7, <1>8, <1>9 DEF Tells
  <1> QED
    BY <1>3, <1>10

-----------------------------------------------------------------------------
(* The invariant. *)
Calling == pc \in {"tinfl", "caller"}
Going == Calling \/ (pc = "user" /\ z.last # "FAILED")
Written == IF pc = "user" THEN Len(delivered) + z.avail
           ELSE IF call.wraps THEN Len(delivered) + (out - call.next) ELSE out
StreamEnd == Tinfl!EndsAt(stream, Len(stream.fields))
Statuses == {"none", "NEEDS_MORE_INPUT", "HAS_MORE_OUTPUT", "DONE"} \cup Tinfl!Failing

Kinds ==
  /\ pc \in {"user", "tinfl", "caller", "over"}
  /\ client \in {"mz_inflate", "mem_to_callback", "mem_to_heap", "mem_to_mem"}
  /\ stream \in Streams /\ input \in Nat /\ call.wraps \in BOOLEAN
  /\ DOMAIN z = {"ofs", "avail", "first", "flushed", "last", "flush", "in", "room"}

(* The bits used are those of the fields behind, at most 61 more are at hand,
   and a call does not begin behind the end of the stream.                 *)
BitsRead ==
  /\ Reads(stream, r)
  /\ cur \in Nat /\ call.base \in Nat /\ call.base <= cur
  /\ call.end \in Nat /\ cur <= call.end /\ call.end <= input
  /\ r.pos <= 8 * cur /\ 8 * cur <= r.pos + 61
  /\ ~Tinfl!HasError(stream) => 8 * call.base <= StreamEnd /\ (pc # "tinfl" => 8 * cur <= StreamEnd)

(* Where in the buffer the text goes on. *)
BufferGiven ==
  /\ call.limit \in Nat /\ out \in 0 .. call.limit
  /\ z.avail \in 0 .. DictSize /\ z.ofs \in 0 .. DictSize - 1 /\ z.room \in Nat /\ z.in \in Nat
  /\ Calling =>
       /\ Stands(call, Len(delivered), out, buf, Written)
       /\ call.wraps => z.avail = 0 /\ z.ofs = call.next /\ client \in {"mz_inflate", "mem_to_callback"}
       /\ ~call.wraps => delivered = <<>> /\ client # "mem_to_callback"
       /\ client = "mz_inflate" => ~z.first
  /\ pc = "user" /\ z.last # "FAILED" =>
       /\ z.ofs = Tdefl!Cell(Len(delivered))
       /\ z.avail > 0 => z.ofs + z.avail <= DictSize
       /\ client = "mz_inflate" /\ ~z.first => DOMAIN buf = 0 .. DictSize - 1

(* The text written so far, and what the checksum has of it. *)
TextSoFar ==
  /\ Going => Tells(stream, call.wraps, r, buf, Written)
  /\ pc = "tinfl" => r.summed + (out - call.next) = Written
  /\ pc = "caller" /\ status \notin Tinfl!Failing => r.summed = Written
  /\ pc = "user" /\ z.last # "FAILED" => r.summed = Written

(* What the statuses say. *)
StatusSays ==
  /\ status \in Statuses
  /\ status = "DONE" =>
       /\ pc # "tinfl" /\ r.i = Len(stream.fields) + 1 /\ HoldsNothing(r)
       /\ cur = Tinfl!StreamBytes(stream) /\ (call.wraps \/ Tinfl!Sound(stream))
  /\ Tinfl!Sound(stream) /\ ~Tinfl!HasError(stream) => status # "FAILED"
  /\ Tinfl!Sound(stream) /\ stream.adler => status # "ADLER32_MISMATCH"

(* The user before the first call, and between two. *)
NotYetCalled ==
  /\ delivered = <<>> /\ z.avail = 0 /\ z.ofs = 0 /\ z.last = "NEEDS_MORE_INPUT"
  /\ r = Tinfl!Fresh /\ cur = 0 /\ status = "none" /\ buf = <<>>
UserStands ==
  pc = "user" =>
    /\ z.first \/ client # "mz_inflate" => NotYetCalled
    /\ z.last # "FAILED" => z.last \notin Tinfl!Failing
    /\ client = "mz_inflate" /\ ~z.first /\ z.last # "FAILED" => call.wraps
    /\ z.last # "FAILED" => /\ z.last = "DONE" <=> status = "DONE"
                            /\ status = "DONE" => z.avail > 0

(* What the user got. *)
HasGiven(s, text) ==
  /\ IsText(text)
  /\ Tinfl!Sound(s) => /\ Len(text) <= Len(Tinfl!Text(s))
                       /\ \A k \in 1 .. Len(text) : text[k] = Tinfl!Text(s)[k]
TextGiven ==
  /\ HasGiven(stream, delivered)
  /\ answer = "STREAM_END" => /\ pc = "over"
                              /\ Tinfl!Sound(stream) => Len(delivered) = Len(Tinfl!Text(stream))
CallGains ==
  /\ before.cur \in Nat /\ before.delivered \in Nat /\ before.delivered <= Len(delivered)
  /\ Calling /\ client = "mz_inflate" /\ call.wraps => call.end = before.cur + z.in
  /\ Tinfl!CallAdvances

InflateInv == /\ Kinds /\ BitsRead /\ BufferGiven /\ TextSoFar /\ StatusSays /\ UserStands
              /\ TextGiven /\ CallGains

UserKept == UNCHANGED <<stream, input, client, z, delivered, answer, before>>
LEMMA UserVarsKept ==
  Tinfl!inputVars' = Tinfl!inputVars /\ Tinfl!userVars' = Tinfl!userVars => UserKept
  BY DEF Tinfl!inputVars, Tinfl!userVars, UserKept

LEMMA StreamConstants ==
  ASSUME NEW s \in Streams
  PROVE  /\ Len(s.fields) \in Nat /\ DOMAIN s.fields = 1 .. Len(s.fields)
         /\ \A i \in 1 .. Len(s.fields) : Tinfl!IsField(s.fields[i])
         /\ \A i \in 1 .. Len(s.fields) : s.fields[i].way = "sym" /\ s.fields[i].act = "lit" =>
              i < Len(s.fields) /\ s.fields[i + 1].way = "sym"
         /\ Tinfl!HasError(s) \/ Tinfl!EndsAt(s, Len(s.fields)) % 8 = 0
  BY InflateConstants DEF Tinfl!IsStream

LEMMA BitsAre == BitsRead /\ Kinds => /\ r.pos \in Nat /\ StreamEnd \in Nat /\ r.pos <= StreamEnd
                                      /\ r.i \in 1 .. Len(stream.fields) + 1
  <1> SUFFICES ASSUME BitsRead, Kinds
               PROVE  /\ r.pos \in Nat /\ StreamEnd \in Nat /\ r.pos <= StreamEnd
                      /\ r.i \in 1 .. Len(stream.fields) + 1
    OBVIOUS
  <1> DEFINE n == Len(stream.fields)
  <1>1. stream \in Streams /\ n \in Nat
    BY StreamConstants DEF Kinds
  <1>2. r.i \in 1 .. n + 1 /\ r.pos = Tinfl!EndsAt(stream, r.i - 1)
    BY DEF BitsRead, Reads
  <1>3. r.i - 1 \in 0 .. n /\ n \in 0 .. n /\ r.i - 1 <= n
    BY <1>1, <1>2
  <1> HIDE DEF n
  <1> QED
    BY <1>1, <1>2, <1>3, EndsGrow DEF StreamEnd, n

(* A step of the decompressor that goes on, m bytes further in the output. *)
LEMMA RunKeeps ==
  ASSUME InflateInv, pc = "tinfl", UserKept, UNCHANGED <<call, pc, status>>, NEW m \in Nat,
         out' = out + m, out + m <= call.limit, DOMAIN buf' = DOMAIN buf,
         Reads(stream, r'), Tells(stream, call.wraps, r', buf', Written + m), r'.summed = r.summed,
         cur' \in Nat, call.base <= cur', cur' <= call.end, r'.pos <= 8 * cur', 8 * cur' <= r'.pos + 61
  PROVE  InflateInv'
  <1> USE DEF UserKept
  <1>1. Calling /\ Calling' /\ Going /\ pc' = "tinfl"
    BY DEF Calling, Going
  <1>2. Kinds'
    BY DEF InflateInv, Kinds
  <1>3. BitsRead'
    BY <1>1 DEF InflateInv, BitsRead, StreamEnd
  <1>4. call.limit \in Nat /\ out \in 0 .. call.limit /\ Stands(call, Len(delivered), out, buf, Written)
        /\ Written \in Nat /\ out \in Nat /\ call.next \in 0 .. out
    BY <1>1 DEF InflateInv, BufferGiven, TextSoFar, Tells, Stands
  <1>5. Len(delivered) \in Nat /\ call.wraps \in BOOLEAN
    BY DEF InflateInv, TextGiven, HasGiven, IsText, Kinds
  <1>6. Written' = Written + m
    <2>1. Written = IF call.wraps THEN Len(delivered) + (out - call.next) ELSE out
      BY <1>1 DEF Written
    <2>2. Written' = IF call.wraps THEN Len(delivered) + ((out + m) - call.next) ELSE out + m
      <3>1. pc' = "tinfl" /\ call' = call /\ delivered' = delivered /\ out' = out + m
        BY <1>1
      <3> QED
        BY <3>1, Zenon DEF Written
    <2> QED
      BY <1>4, <1>5, <2>1, <2>2, SMTT(40)
  <1>7. BufferGiven'
    <2>1. Stands(call, Len(delivered), out', buf', Written')
      <3> DEFINE given == Len(delivered)
                 w == Written
                 b == buf'
      <3>1. given \in Nat /\ w \in Nat /\ DOMAIN b = DOMAIN buf /\ Stands(call, given, out, buf, w)
        BY <1>4, <1>5
      <3> HIDE DEF given, w, b
      <3>2. call.wraps \in BOOLEAN /\ out + m <= call.limit
        BY <1>5
      <3>3. Stands(call, given, out + m, b, w + m)
        BY <3>1, <3>2, StandsMore
      <3> QED
        BY <1>6, <3>3 DEF given, w, b
    <2>2. out' \in 0 .. call.limit
      BY <1>4
    <2> QED
      BY <1>1, <2>1, <2>2 DEF InflateInv, BufferGiven
  <1>8. TextSoFar'
    <2>1. Tells(stream, call.wraps, r', buf', Written')
      BY <1>6
    <2>2. r.summed + (out - call.next) = Written /\ r.summed \in Nat
      BY DEF InflateInv, TextSoFar, BitsRead, Reads
    <2>3. r'.summed + (out' - call.next) = Written'
      BY <1>4, <1>6, <2>2
    <2> QED
      BY <1>1, <2>1, <2>3 DEF TextSoFar
  <1>9. StatusSays'
    BY <1>1 DEF InflateInv, StatusSays
  <1>10. UserStands' /\ TextGiven'
    BY <1>1 DEF InflateInv, UserStands, TextGiven
  <1>11. CallGains'
    BY <1>1 DEF InflateInv, CallGains, Calling, Tinfl!CallAdvances
  <1> QED
    BY <1>2, <1>3, <1>7, <1>8, <1>9, <1>10, <1>11 DEF InflateInv

LEMMA ProceedKeeps ==
  ASSUME InflateInv, pc = "tinfl", NEW e, NEW q, Tinfl!Proceed(e, q),
         Reads(stream, e), Tells(stream, call.wraps, e, buf, Written), e.summed = r.summed,
         q \in Nat, call.base <= q, q <= call.end, e.pos <= 8 * q, 8 * q <= e.pos + 61
  PROVE  InflateInv'
  <1>1. r' = e /\ cur' = q /\ UserKept /\ UNCHANGED <<call, pc, status>> /\ out' = out /\ buf' = buf
    BY UserVarsKept DEF Tinfl!Proceed
  <1>2. Written \in Nat /\ call.limit \in Nat /\ out \in 0 .. call.limit
    BY DEF InflateInv, TextSoFar, BufferGiven, Going, Calling, Tells
  <1>3. out' = out + 0 /\ out + 0 <= call.limit /\ Written + 0 = Written /\ 0 \in Nat
    BY <1>1, <1>2
  <1> QED
    BY <1>1, <1>3, RunKeeps

(* Whole bytes are put back. *)
LEMMA WholeBytes ==
  ASSUME NEW q \in Nat, NEW n \in Nat, n <= 8 * q
  PROVE  LET back == q - (8 * q - n) \div 8
         IN back \in Nat /\ back <= q /\ n <= 8 * back /\ 8 * back <= n + 7
  <1> DEFINE bits == 8 * q - n
             v == bits \div 8
  <1>1. bits \in Nat /\ bits + n = 8 * q
    OBVIOUS
  <1> HIDE DEF bits
  <1>2. v \in Nat /\ 8 * v <= bits /\ bits <= 8 * v + 7
    BY <1>1
  <1> HIDE DEF v
  <1>3. q - v \in Nat /\ q - v <= q /\ n <= 8 * (q - v) /\ 8 * (q - v) <= n + 7
    BY <1>1, <1>2
  <1> QED
    BY <1>3 DEF v, bits

(* A call that returns. *)
LEMMA ExitKeeps ==
  ASSUME InflateInv, pc = "tinfl", NEW st, Tinfl!Exit(st), st \in Statuses \ {"none"},
         st # "ADLER32_MISMATCH",
         Tinfl!KeepsBits(st) /\ ~Tinfl!HasError(stream) => 8 * cur <= StreamEnd,
         st = "DONE" => HoldsNothing(r) /\ r.i > Len(stream.fields),
         st = "FAILED" => Tinfl!HasError(stream) \/ ~Tinfl!Sound(stream)
  PROVE  InflateInv'
  <1> USE DEF UserKept
  <1> DEFINE n == Len(stream.fields)
             sum == r.summed + (IF st \in Tinfl!Failing THEN 0 ELSE out - call.next)
             right == stream.adler /\ sum = Len(Tinfl!Text(stream))
             to == IF st = "DONE" /\ stream.zlib /\ ~right THEN "ADLER32_MISMATCH" ELSE st
  <1>1. /\ status' = to
        /\ cur' = (IF Tinfl!KeepsBits(st) THEN cur ELSE Tinfl!PutBack)
        /\ r' = [r EXCEPT !.summed = sum]
        /\ pc' = "caller" /\ UserKept /\ UNCHANGED <<out, buf, call>>
    BY UserVarsKept DEF Tinfl!Exit
  <1>2. Calling /\ Calling' /\ Going
    BY <1>1 DEF Calling, Going
  <1>3. n \in Nat /\ stream \in Streams /\ r.i \in 1 .. n + 1
        /\ (Tinfl!HasError(stream) \/ StreamEnd % 8 = 0)
        /\ r.pos \in Nat /\ StreamEnd \in Nat /\ r.pos <= StreamEnd
    BY StreamConstants, BitsAre DEF InflateInv, Kinds, BitsRead, Reads, StreamEnd
  <1>4. call.limit \in Nat /\ out \in 0 .. call.limit /\ Stands(call, Len(delivered), out, buf, Written)
        /\ Written \in Nat /\ out \in Nat /\ call.next \in 0 .. out
    BY <1>2 DEF InflateInv, BufferGiven, TextSoFar, Tells, Stands
  <1>5. DOMAIN r = Decompressor /\ r.summed \in Nat /\ r.summed + (out - call.next) = Written
    BY DEF InflateInv, TextSoFar, BitsRead, Reads
  <1>6. sum \in Nat /\ (st \notin Tinfl!Failing => sum = Written)
    BY <1>4, <1>5
  <1>7. Written' = Written
    BY <1>1 DEF Written
  <1> HIDE DEF sum, right
  <1>8. /\ DOMAIN r' = Decompressor /\ r'.summed = sum /\ r'.i = r.i /\ r'.pos = r.pos
        /\ r'.lit = r.lit /\ r'.left = r.left /\ r'.dist = r.dist /\ r'.from = r.from
    BY <1>1, <1>5 DEF Decompressor
  <1>9. Reads(stream, r')
    BY <1>6, <1>8 DEF InflateInv, BitsRead, Reads
  <1>10. Tells(stream, call.wraps, r', buf, Written)
    <2>1. Tells(stream, call.wraps, r, buf, Written)
      BY <1>2 DEF InflateInv, TextSoFar
    <2>3. Expects(stream, r, Written) => Expects(stream, r', Written)
      BY <1>8 DEF Expects
    <2>4. Pending(r') = Pending(r)
      BY <1>8 DEF Pending
    <2> QED
      BY <1>8, <2>1, <2>3, <2>4 DEF Tells
  <1>11. Kinds'
    BY <1>1 DEF InflateInv, Kinds
  <1>12. /\ cur \in Nat /\ call.base \in Nat /\ call.base <= cur /\ call.end \in Nat
         /\ cur <= call.end /\ r.pos <= 8 * cur /\ 8 * cur <= r.pos + 61
         /\ ~Tinfl!HasError(stream) => 8 * call.base <= StreamEnd
    BY DEF InflateInv, BitsRead
  <1>13. /\ Tinfl!PutBack \in Nat /\ call.base <= Tinfl!PutBack /\ Tinfl!PutBack <= cur
         /\ r.pos <= 8 * Tinfl!PutBack
         /\ ~Tinfl!HasError(stream) => 8 * Tinfl!PutBack <= StreamEnd
         /\ ~Tinfl!HasError(stream) /\ r.pos = StreamEnd => 8 * Tinfl!PutBack = StreamEnd
    <2> DEFINE bits == 8 * cur - r.pos
               back == cur - bits \div 8
    <2>1. Tinfl!PutBack = IF call.base > back THEN call.base ELSE back
      BY DEF Tinfl!PutBack, Tinfl!Most, Tinfl!num_bits
    <2>4. back \in Int /\ back <= cur /\ r.pos <= 8 * back /\ 8 * back <= r.pos + 7
      <3>1. cur \in Nat /\ r.pos \in Nat /\ r.pos <= 8 * cur
        BY <1>3, <1>12
      <3> DEFINE pos == r.pos
      <3> HIDE DEF pos
      <3>2. LET v == cur - (8 * cur - pos) \div 8
            IN v \in Nat /\ v <= cur /\ pos <= 8 * v /\ 8 * v <= pos + 7
        <4>1. pos \in Nat /\ pos <= 8 * cur
          BY <3>1 DEF pos
        <4> QED
          BY <3>1, <4>1, WholeBytes
      <3> QED
        BY <3>2 DEF pos
    <2> HIDE DEF back
    <2>5. ~Tinfl!HasError(stream) => 8 * back <= StreamEnd
      BY <1>3, <2>4
    <2>6. ~Tinfl!HasError(stream) /\ r.pos = StreamEnd => 8 * back = StreamEnd
      BY <1>3, <2>4
    <2> DEFINE q == Tinfl!PutBack
               base == call.base
    <2>7. q = IF base > back THEN base ELSE back
      BY <2>1
    <2>8. base \in Nat /\ base <= cur /\ cur \in Nat /\ r.pos \in Nat
          /\ (~Tinfl!HasError(stream) => 8 * base <= StreamEnd)
      BY <1>3, <1>12
    <2> HIDE DEF q, base
    <2>9. CASE base > back
      <3>1. q = base /\ q \in Nat /\ base <= q /\ q <= cur /\ r.pos <= 8 * q
        BY <2>4, <2>7, <2>8, <2>9
      <3>2. ~Tinfl!HasError(stream) /\ r.pos = StreamEnd => FALSE
        BY <1>3, <2>4, <2>8, <2>9
      <3> QED
        BY <2>8, <3>1, <3>2 DEF q, base
    <2>10. CASE ~(base > back)
      <3>1. q = back /\ q \in Nat /\ base <= q /\ q <= cur /\ r.pos <= 8 * q
        BY <2>4, <2>7, <2>8, <2>10
      <3> QED
        BY <2>5, <2>6, <3>1 DEF q, base
    <2> QED
      BY <2>9, <2>10
  <1>14. BitsRead'
    <2>1. cur' \in Nat /\ call.base <= cur' /\ cur' <= call.end /\ r.pos <= 8 * cur' /\ 8 * cur' <= r.pos + 61
      BY <1>1, <1>3, <1>12, <1>13
    <2>2. ~Tinfl!HasError(stream) => 8 * cur' <= StreamEnd
      BY <1>1, <1>13
    <2> QED
      BY <1>1, <1>8, <1>9, <2>1, <2>2 DEF InflateInv, BitsRead, StreamEnd
  <1>15. BufferGiven'
    <2>1. Stands(call, Len(delivered), out, buf, Written)'
      BY <1>1, <1>4, <1>7
    <2> QED
      BY <1>1, <1>2, <2>1 DEF InflateInv, BufferGiven
  <1>17. TextSoFar'
    <2>1. st \in Tinfl!Failing => to \in Tinfl!Failing
      BY DEF Tinfl!Failing
    <2>2. status' \notin Tinfl!Failing => r'.summed = Written'
      BY <1>1, <1>6, <1>7, <1>8, <2>1
    <2> QED
      BY <1>1, <1>7, <1>10, <2>2 DEF TextSoFar
  <1>18. StatusSays'
    <2>1. to \in Statuses
      BY DEF Statuses, Tinfl!Failing
    <2>2. to = "DONE" => st = "DONE"
      OBVIOUS
    <2>3. ASSUME st = "DONE"
          PROVE  /\ r.i = n + 1 /\ ~Tinfl!HasError(stream) /\ r.pos = StreamEnd
                 /\ HoldsNothing(r) /\ (call.wraps \/ Tinfl!Sound(stream))
                 /\ cur' = Tinfl!StreamBytes(stream)
                 /\ Tinfl!Sound(stream) => Written = Len(Tinfl!Text(stream))
      <3>1. r.i = n + 1 /\ r.i - 1 = n /\ HoldsNothing(r)
        BY <1>3, <2>3
      <3>2. ~Tinfl!HasError(stream) /\ r.pos = StreamEnd
        BY <3>1 DEF InflateInv, BitsRead, Reads, Tinfl!HasError, StreamEnd
      <3>3. Tells(stream, call.wraps, r, buf, Written) /\ Pending(r) = 0
        BY <1>2, <3>1 DEF InflateInv, TextSoFar, Pending, HoldsNothing
      <3>4. SoundTo(stream, n) <=> Tinfl!Sound(stream)
        BY <1>3, StreamConstants DEF SoundTo, Tinfl!Sound
      <3>5. call.wraps \/ Tinfl!Sound(stream)
        BY <3>1, <3>3, <3>4 DEF Tells, HoldsNothing
      <3>6. Tinfl!Sound(stream) => Written = Len(Tinfl!Text(stream))
        BY <1>4, <3>1, <3>3, <3>4 DEF Tells, SoFar, Tinfl!Text
      <3>7. ~Tinfl!KeepsBits(st)
        BY <2>3 DEF Tinfl!KeepsBits
      <3>8. cur' = Tinfl!PutBack /\ 8 * Tinfl!PutBack = StreamEnd
        BY <1>1, <1>13, <3>2, <3>7
      <3>9. cur' = Tinfl!StreamBytes(stream)
        BY <1>13, <3>8 DEF Tinfl!StreamBytes, StreamEnd
      <3> QED
        BY <3>1, <3>2, <3>5, <3>6, <3>9
    <2>4. Tinfl!Sound(stream) /\ ~Tinfl!HasError(stream) => to # "FAILED"
      OBVIOUS
    <2>5. Tinfl!Sound(stream) /\ stream.adler => to # "ADLER32_MISMATCH"
      <3>1. st = "DONE" => sum = Written
        BY <1>6 DEF Tinfl!Failing
      <3> QED
        BY <2>3, <3>1 DEF right
    <2>6. HoldsNothing(r) => HoldsNothing(r')
      BY <1>8 DEF HoldsNothing
    <2>7. status' = "DONE" => /\ r'.i = n + 1 /\ HoldsNothing(r') /\ cur' = Tinfl!StreamBytes(stream)
                              /\ (call.wraps \/ Tinfl!Sound(stream))
      BY <1>1, <1>8, <2>2, <2>3, <2>6
    <2> HIDE DEF to
    <2> QED
      BY <1>1, <2>1, <2>4, <2>5, <2>7 DEF StatusSays
  <1>18a. UserStands' /\ TextGiven'
    BY <1>1 DEF InflateInv, UserStands, TextGiven
  <1>19. CallGains'
    BY <1>1, <1>2 DEF InflateInv, CallGains, Tinfl!CallAdvances
  <1> QED
    BY <1>11, <1>14, <1>15, <1>17, <1>18, <1>18a, <1>19 DEF InflateInv

-----------------------------------------------------------------------------
(* Reading fields. *)
LEMMA AtFieldIs ==
  ASSUME InflateInv, NEW ways, Tinfl!AtField(ways)
  PROVE  /\ pc = "tinfl" /\ HoldsNothing(r) /\ r.i \in 1 .. Len(stream.fields)
         /\ Tinfl!Field = stream.fields[r.i] /\ Tinfl!IsField(Tinfl!Field) /\ Tinfl!Field.way \in ways
         /\ Reads(stream, r) /\ Tells(stream, call.wraps, r, buf, Written) /\ stream \in Streams
         /\ r.pos \in Nat /\ StreamEnd \in Nat /\ Tinfl!After(r.pos, Tinfl!Field) <= StreamEnd
         /\ cur \in Nat /\ call.base \in Nat /\ call.base <= cur /\ call.end \in Nat
         /\ cur <= call.end /\ r.pos <= 8 * cur /\ 8 * cur <= r.pos + 61
         /\ out \in 0 .. call.limit /\ call.limit \in Nat /\ out \in Nat
         /\ call.wraps \in BOOLEAN /\ Written \in Nat
         /\ Stands(call, Len(delivered), out, buf, Written) /\ Len(delivered) \in Nat
  <1> DEFINE n == Len(stream.fields)
             f == stream.fields[r.i]
  <1>1. pc = "tinfl" /\ r.i <= n /\ f.way \in ways /\ r.lit = <<>> /\ ~(r.left > 0)
        /\ Tinfl!Field = f
    BY DEF Tinfl!AtField, Tinfl!Running, Tinfl!Holding, Tinfl!Field
  <1>2. Calling /\ Going
    BY <1>1 DEF Calling, Going
  <1>3. /\ Reads(stream, r) /\ stream \in Streams /\ n \in Nat /\ call.wraps \in BOOLEAN
        /\ cur \in Nat /\ call.base \in Nat /\ call.base <= cur /\ call.end \in Nat
        /\ cur <= call.end /\ r.pos <= 8 * cur /\ 8 * cur <= r.pos + 61
    BY StreamConstants DEF InflateInv, Kinds, BitsRead
  <1>4. r.pos \in Nat /\ StreamEnd \in Nat /\ r.i \in 1 .. n + 1
    BY BitsAre DEF InflateInv
  <1>5. r.left = 0 /\ HoldsNothing(r)
    BY <1>1, <1>3 DEF Reads, HoldsNothing
  <1>6. r.i \in 1 .. n /\ Tinfl!IsField(f)
    BY <1>1, <1>3, <1>4, StreamConstants
  <1>7. Tinfl!After(r.pos, f) <= StreamEnd
    <2>1. Tinfl!EndsAt(stream, (r.i - 1) + 1) = Tinfl!After(Tinfl!EndsAt(stream, r.i - 1), stream.fields[(r.i - 1) + 1])
      BY <1>6, EndsAtNext
    <2>2. (r.i - 1) + 1 = r.i /\ r.i \in 0 .. n /\ n \in 0 .. n /\ r.i <= n
      BY <1>3, <1>6
    <2>3. Tinfl!EndsAt(stream, r.i) <= Tinfl!EndsAt(stream, n)
      BY <1>3, <2>2, EndsGrow
    <2>4. r.pos = Tinfl!EndsAt(stream, r.i - 1)
      BY <1>3 DEF Reads
    <2> QED
      BY <2>1, <2>2, <2>3, <2>4 DEF StreamEnd
  <1>8. Tells(stream, call.wraps, r, buf, Written) /\ Written \in Nat
    BY <1>2 DEF InflateInv, TextSoFar, Tells
  <1>9. /\ out \in 0 .. call.limit /\ call.limit \in Nat
        /\ Stands(call, Len(delivered), out, buf, Written) /\ Len(delivered) \in Nat
    BY <1>2 DEF InflateInv, BufferGiven, TextGiven, HasGiven, IsText
  <1>10. out \in Nat
    BY <1>9
  <1> QED
    BY <1>1, <1>3, <1>4, <1>5, <1>6, <1>7, <1>8, <1>9, <1>10

(* A field used, with q bytes read. *)
LEMMA UsedKeeps ==
  ASSUME InflateInv, NEW ways, Tinfl!AtField(ways), Tinfl!Field.way # "bad",
         NEW q \in Nat, Tinfl!Proceed(Tinfl!Used(r, Tinfl!Field), q),
         call.base <= q, q <= call.end,
         Tinfl!After(r.pos, Tinfl!Field) <= 8 * q, 8 * q <= Tinfl!After(r.pos, Tinfl!Field) + 61
  PROVE  InflateInv'
  <1> DEFINE f == stream.fields[r.i]
             u == Tinfl!Used(r, f)
  <1>1. /\ pc = "tinfl" /\ HoldsNothing(r) /\ r.i \in 1 .. Len(stream.fields)
        /\ Tinfl!Field = f /\ Reads(stream, r) /\ Tells(stream, call.wraps, r, buf, Written)
        /\ stream \in Streams /\ out \in Nat /\ call.wraps \in BOOLEAN /\ Written \in Nat
        /\ Stands(call, Len(delivered), out, buf, Written) /\ Len(delivered) \in Nat
    BY AtFieldIs
  <1>2. Place(call.wraps, out) = Place(call.wraps, Written)
    BY <1>1, OutPlace
  <1>3. r.i <= Len(stream.fields)
    BY <1>1, StreamConstants
  <1>4. Reads(stream, u) /\ Tells(stream, call.wraps, u, buf, Written)
        /\ u.pos = Tinfl!After(r.pos, f) /\ u.summed = r.summed
    BY <1>1, <1>2, <1>3, UseTells
  <1> HIDE DEF u
  <1>5. Tinfl!Proceed(u, q)
    BY <1>1 DEF u
  <1> QED
    BY <1>1, <1>4, <1>5, ProceedKeeps

(* Bytes read ahead. *)
LEMMA AheadKeeps ==
  ASSUME InflateInv, NEW ways, Tinfl!AtField(ways), NEW q \in Nat,
         Tinfl!Proceed(r, q) \/ Tinfl!Proceed([r EXCEPT !.filling = TRUE], q),
         cur <= q, q <= call.end, 8 * q <= r.pos + 61
  PROVE  InflateInv'
  <1>1. /\ pc = "tinfl" /\ Reads(stream, r) /\ Tells(stream, call.wraps, r, buf, Written)
        /\ r.pos \in Nat /\ cur \in Nat /\ r.pos <= 8 * cur /\ call.base <= cur /\ call.base \in Nat
    BY AtFieldIs
  <1>2. call.base <= q /\ r.pos <= 8 * q
    BY <1>1
  <1>3. CASE Tinfl!Proceed(r, q)
    BY <1>1, <1>2, <1>3, ProceedKeeps
  <1>4. CASE Tinfl!Proceed([r EXCEPT !.filling = TRUE], q)
    <2> DEFINE u == [r EXCEPT !.filling = TRUE]
    <2>1. DOMAIN r = Decompressor
      BY <1>1 DEF Reads
    <2>2. /\ DOMAIN u = Decompressor /\ u.lit = r.lit /\ u.i = r.i /\ u.pos = r.pos
          /\ u.left = r.left /\ u.dist = r.dist /\ u.from = r.from /\ u.summed = r.summed
      BY <2>1 DEF Decompressor
    <2> HIDE DEF u
    <2>3. Reads(stream, u)
      BY <1>1, <2>2 DEF Reads
    <2>4. Tells(stream, call.wraps, u, buf, Written)
      BY <1>1, <2>2 DEF Tells, Pending, Expects
    <2>5. Tinfl!Proceed(u, q)
      BY <1>4 DEF u
    <2> QED
      BY <1>1, <1>2, <2>2, <2>3, <2>4, <2>5, ProceedKeeps
  <1> QED
    BY <1>3, <1>4

(* Input is wanted that there is not. *)
LEMMA StarveKeeps ==
  ASSUME InflateInv, NEW ways, Tinfl!AtField(ways), Tinfl!Field.way # "finish",
         Tinfl!num_bits < Tinfl!Field.n, Tinfl!Starve
  PROVE  InflateInv'
  <1> DEFINE f == Tinfl!Field
             st == IF call.more THEN "NEEDS_MORE_INPUT" ELSE "CANNOT_MAKE_PROGRESS"
  <1>1. /\ pc = "tinfl" /\ Tinfl!IsField(f) /\ r.pos \in Nat /\ StreamEnd \in Nat
        /\ Tinfl!After(r.pos, f) <= StreamEnd /\ cur \in Nat /\ r.pos <= 8 * cur
    BY AtFieldIs
  <1>2. 8 * cur - r.pos < f.n /\ f.n \in Nat /\ f.way # "finish" /\ (f.way = "align" => f.n = 0)
    BY <1>1 DEF Tinfl!num_bits, Tinfl!IsField
  <1>3. Tinfl!After(r.pos, f) = r.pos + f.n
    <2>1. f.way # "align"
      BY <1>1, <1>2
    <2> QED
      BY <1>1, <1>2, <2>1, AfterIs
  <1>4. 8 * cur <= StreamEnd
    BY <1>1, <1>2, <1>3
  <1>5. st \in Statuses \ {"none"} /\ st # "ADLER32_MISMATCH" /\ st # "DONE" /\ st # "FAILED"
    BY DEF Statuses, Tinfl!Failing
  <1>6. Tinfl!Exit(st)
    BY DEF Tinfl!Starve
  <1> HIDE DEF st
  <1> QED
    BY <1>1, <1>4, <1>5, <1>6, ExitKeeps

LEMMA FullKeeps ==
  ASSUME InflateInv, pc = "tinfl", Tinfl!Exit("HAS_MORE_OUTPUT")
  PROVE  InflateInv'
  <1>1. "HAS_MORE_OUTPUT" \in Statuses \ {"none"} /\ ~Tinfl!KeepsBits("HAS_MORE_OUTPUT")
    BY DEF Statuses, Tinfl!KeepsBits
  <1> QED
    BY <1>1, ExitKeeps

LEMMA GetBitsKeeps == InflateInv /\ Tinfl!GetBits => InflateInv'
  <1> SUFFICES ASSUME InflateInv, Tinfl!GetBits PROVE InflateInv'
    OBVIOUS
  <1> DEFINE f == Tinfl!Field
             ways == {"bits", "align", "raw"}
  <1>1. Tinfl!AtField(ways)
    BY DEF Tinfl!GetBits, Tinfl!AtField
  <1>2. /\ Tinfl!IsField(f) /\ f.way \in ways /\ r.pos \in Nat /\ cur \in Nat /\ call.base \in Nat
        /\ call.base <= cur /\ call.end \in Nat /\ cur <= call.end /\ r.pos <= 8 * cur
        /\ 8 * cur <= r.pos + 61
    BY <1>1, AtFieldIs
  <1>3. f.n \in 0 .. 16 /\ f.way # "bad" /\ f.way # "finish" /\ Tinfl!num_bits = 8 * cur - r.pos
    BY <1>2 DEF Tinfl!IsField, Tinfl!num_bits
  <1>4. CASE Tinfl!num_bits >= f.n /\ Tinfl!Proceed(Tinfl!Used(r, f), cur)
    <2> DEFINE e == Tinfl!After(r.pos, f)
    <2>1. /\ e \in Nat /\ r.pos <= e
          /\ f.way = "align" => e % 8 = 0 /\ e <= r.pos + 7
          /\ f.way # "align" => e = r.pos + f.n
      BY <1>2, <1>3, AfterIs
    <2> HIDE DEF e
    <2>2. e <= 8 * cur /\ 8 * cur <= e + 61
      <3>1. CASE f.way = "align"
        BY <1>2, <2>1, <3>1
      <3>2. CASE f.way # "align"
        BY <1>2, <1>3, <1>4, <2>1, <3>2
      <3> QED
        BY <3>1, <3>2
    <2> QED
      BY <1>1, <1>2, <1>3, <1>4, <2>2, UsedKeeps DEF e
  <1>5. CASE Tinfl!num_bits < f.n /\ Tinfl!Available > 0 /\ Tinfl!Proceed(r, cur + 1)
    <2>1. cur + 1 \in Nat /\ cur <= cur + 1 /\ cur + 1 <= call.end /\ 8 * (cur + 1) <= r.pos + 61
      BY <1>2, <1>3, <1>5 DEF Tinfl!Available
    <2> QED
      BY <1>1, <1>5, <2>1, AheadKeeps
  <1>6. CASE Tinfl!num_bits < f.n /\ Tinfl!Starve
    BY <1>1, <1>3, <1>6, StarveKeeps
  <1> QED
    BY <1>4, <1>5, <1>6 DEF Tinfl!GetBits

LEMMA StoredByteKeeps == InflateInv /\ Tinfl!StoredByte => InflateInv'
  <1> SUFFICES ASSUME InflateInv, Tinfl!StoredByte PROVE InflateInv'
    OBVIOUS
  <1> DEFINE f == Tinfl!Field
             ways == {"raw"}
  <1>1. Tinfl!AtField(ways) /\ Tinfl!num_bits = 0
    BY DEF Tinfl!StoredByte
  <1>2. /\ pc = "tinfl" /\ Tinfl!IsField(f) /\ f.way = "raw" /\ r.pos \in Nat /\ cur \in Nat
        /\ call.base \in Nat /\ call.base <= cur /\ call.end \in Nat /\ cur <= call.end
    BY <1>1, AtFieldIs
  <1>3. f.n = 8 /\ 8 * cur = r.pos /\ f.way # "bad" /\ f.way # "finish"
    BY <1>1, <1>2 DEF Tinfl!IsField, Tinfl!num_bits
  <1>4. CASE Tinfl!Exit("HAS_MORE_OUTPUT")
    BY <1>2, <1>4, FullKeeps
  <1>5. CASE Tinfl!Available > 0 /\ Tinfl!Proceed(Tinfl!Used(r, f), cur + 1)
    <2>1. Tinfl!After(r.pos, f) = r.pos + 8
      BY <1>2, <1>3, AfterIs
    <2>2. cur + 1 \in Nat /\ call.base <= cur + 1 /\ cur + 1 <= call.end
          /\ r.pos + 8 <= 8 * (cur + 1) /\ 8 * (cur + 1) <= (r.pos + 8) + 61
      BY <1>2, <1>3, <1>5 DEF Tinfl!Available
    <2> QED
      BY <1>1, <1>3, <1>5, <2>1, <2>2, UsedKeeps
  <1>6. CASE Tinfl!Starve
    <2>1. Tinfl!num_bits < f.n
      BY <1>1, <1>3
    <2> QED
      BY <1>1, <1>3, <1>6, <2>1, StarveKeeps
  <1> QED
    BY <1>4, <1>5, <1>6 DEF Tinfl!StoredByte

LEMMA HuffDecodeKeeps == InflateInv /\ Tinfl!HuffDecode => InflateInv'
  <1> SUFFICES ASSUME InflateInv, Tinfl!HuffDecode PROVE InflateInv'
    OBVIOUS
  <1> DEFINE f == Tinfl!Field
             ways == {"huff", "sym"}
  <1>1. Tinfl!AtField(ways)
    BY DEF Tinfl!HuffDecode, Tinfl!Slow, Tinfl!AtField
  <1>2. /\ Tinfl!IsField(f) /\ f.way \in ways /\ r.pos \in Nat /\ cur \in Nat /\ call.base \in Nat
        /\ call.base <= cur /\ call.end \in Nat /\ cur <= call.end /\ r.pos <= 8 * cur
        /\ 8 * cur <= r.pos + 61
    BY <1>1, AtFieldIs
  <1>3. f.n \in 0 .. 15 /\ f.way # "bad" /\ f.way # "finish" /\ f.way # "align"
        /\ Tinfl!num_bits = 8 * cur - r.pos
    BY <1>2 DEF Tinfl!IsField, Tinfl!num_bits
  <1>4. Tinfl!After(r.pos, f) = r.pos + f.n
    BY <1>2, <1>3, AfterIs
  <1>5. CASE Tinfl!num_bits >= f.n /\ Tinfl!Proceed(Tinfl!Used(r, f), cur)
    <2>1. r.pos + f.n <= 8 * cur /\ 8 * cur <= (r.pos + f.n) + 61
      BY <1>2, <1>3, <1>5
    <2> QED
      BY <1>1, <1>2, <1>3, <1>4, <1>5, <2>1, UsedKeeps
  <1>6. CASE Tinfl!num_bits < 15 /\ Tinfl!Available >= 2 /\ Tinfl!Proceed(Tinfl!Used(r, f), cur + 2)
    <2>1. cur + 2 \in Nat /\ call.base <= cur + 2 /\ cur + 2 <= call.end
          /\ r.pos + f.n <= 8 * (cur + 2) /\ 8 * (cur + 2) <= (r.pos + f.n) + 61
      BY <1>2, <1>3, <1>6 DEF Tinfl!Available
    <2> QED
      BY <1>1, <1>2, <1>3, <1>4, <1>6, <2>1, UsedKeeps
  <1>7. CASE Tinfl!num_bits < f.n /\ Tinfl!Available > 0
             /\ Tinfl!Proceed([r EXCEPT !.filling = TRUE], cur + 1)
    <2>1. cur + 1 \in Nat /\ cur <= cur + 1 /\ cur + 1 <= call.end /\ 8 * (cur + 1) <= r.pos + 61
      BY <1>2, <1>3, <1>7 DEF Tinfl!Available
    <2> QED
      BY <1>1, <1>7, <2>1, AheadKeeps
  <1>8. CASE Tinfl!num_bits < f.n /\ Tinfl!Starve
    BY <1>1, <1>3, <1>8, StarveKeeps
  <1>9. CASE Tinfl!Proceed([r EXCEPT !.filling = TRUE], cur)
    <2>1. cur <= cur
      BY <1>2
    <2> QED
      BY <1>1, <1>2, <1>9, <2>1, AheadKeeps
  <1>10. Tinfl!num_bits >= 15 => Tinfl!num_bits >= f.n
    BY <1>2, <1>3
  <1> QED
    BY <1>5, <1>6, <1>7, <1>8, <1>9, <1>10 DEF Tinfl!HuffDecode

(* The end: what is left of the byte is dropped. *)
LEMMA FinishKeeps == InflateInv /\ Tinfl!Finish => InflateInv'
  <1> SUFFICES ASSUME InflateInv, Tinfl!Finish PROVE InflateInv'
    OBVIOUS
  <1> DEFINE f == Tinfl!Field
             ways == {"finish"}
             u == Tinfl!Used(r, f)
             e == Tinfl!After(r.pos, f)
             q == Tinfl!Most(call.base, Tinfl!Least(cur, u.pos \div 8))
  <1>1. Tinfl!AtField(ways) /\ Tinfl!Proceed(u, q)
    BY DEF Tinfl!Finish
  <1>2. /\ Tinfl!IsField(f) /\ f.way = "finish" /\ r.pos \in Nat /\ cur \in Nat /\ call.base \in Nat
        /\ call.base <= cur /\ call.end \in Nat /\ cur <= call.end /\ r.pos <= 8 * cur
        /\ 8 * cur <= r.pos + 61 /\ Reads(stream, r)
    BY <1>1, AtFieldIs
  <1>3. e \in Nat /\ r.pos <= e /\ e % 8 = 0 /\ e <= r.pos + 7
    BY <1>2, AfterIs
  <1>4. u.pos = e
    BY <1>2, UsedIs DEF Reads
  <1> DEFINE k == e \div 8
  <1>5. q = Tinfl!Most(call.base, Tinfl!Least(cur, k))
    BY <1>4
  <1> HIDE DEF e, q, u
  <1>6. k \in Nat /\ 8 * k = e
    BY <1>3
  <1> HIDE DEF k
  <1>7. k <= cur
    BY <1>2, <1>3, <1>6
  <1>8. q = IF call.base > k THEN call.base ELSE k
    <2>1. Tinfl!Least(cur, k) = k
      BY <1>2, <1>6, <1>7 DEF Tinfl!Least
    <2> QED
      BY <1>5, <2>1 DEF Tinfl!Most
  <1>9. q \in Nat /\ call.base <= q /\ q <= cur /\ e <= 8 * q
    <2>1. CASE call.base > k
      BY <1>2, <1>6, <1>8, <2>1
    <2>2. CASE ~(call.base > k)
      BY <1>2, <1>6, <1>7, <1>8, <2>2
    <2> QED
      BY <2>1, <2>2
  <1>10. q <= call.end /\ 8 * q <= e + 61
    BY <1>2, <1>3, <1>9
  <1> QED
    BY <1>1, <1>2, <1>9, <1>10, UsedKeeps DEF e, u

LEMMA DoneKeeps == InflateInv /\ Tinfl!Done => InflateInv'
  <1> SUFFICES ASSUME InflateInv, Tinfl!Done PROVE InflateInv'
    OBVIOUS
  <1>1. pc = "tinfl" /\ r.lit = <<>> /\ ~(r.left > 0) /\ r.i > Len(stream.fields) /\ Tinfl!Exit("DONE")
    BY DEF Tinfl!Done, Tinfl!Running, Tinfl!Holding
  <1>2. HoldsNothing(r)
    BY <1>1 DEF InflateInv, BitsRead, Reads, HoldsNothing
  <1>3. "DONE" \in Statuses \ {"none"} /\ ~Tinfl!KeepsBits("DONE")
    BY DEF Statuses, Tinfl!KeepsBits
  <1> QED
    BY <1>1, <1>2, <1>3, ExitKeeps

LEMMA OutputFullKeeps == InflateInv /\ Tinfl!OutputFull => InflateInv'
  BY FullKeeps DEF Tinfl!OutputFull, Tinfl!Running

(* What cannot be read is refused; a stream that can is not. *)
LEMMA CorruptKeeps == InflateInv /\ Tinfl!Corrupt => InflateInv'
  <1> SUFFICES ASSUME InflateInv, Tinfl!Corrupt PROVE InflateInv'
    OBVIOUS
  <1>1. pc = "tinfl" /\ Tinfl!Exit("FAILED") /\ (Tinfl!AtField({"bad"}) \/ Tinfl!TooFar)
    BY DEF Tinfl!Corrupt, Tinfl!Running
  <1>2. "FAILED" \in Statuses \ {"none"} /\ ~Tinfl!KeepsBits("FAILED")
    BY DEF Statuses, Tinfl!KeepsBits, Tinfl!Failing
  <1>3. CASE Tinfl!AtField({"bad"})
    <2>1. Tinfl!HasError(stream)
      BY <1>3, AtFieldIs DEF Tinfl!HasError
    <2> QED
      BY <1>1, <1>2, <2>1, ExitKeeps
  <1>4. CASE Tinfl!TooFar
    <2>1. Tells(stream, call.wraps, r, buf, Written) /\ Written \in Nat
      BY <1>1 DEF InflateInv, TextSoFar, Going, Calling, Tells
    <2>2. r.left > 0 /\ r.from < r.dist /\ ~call.wraps
      BY <1>4 DEF Tinfl!TooFar
    <2>3. r.from = Written
      BY <2>1, <2>2 DEF Tells, Place
    <2>4. ~Tinfl!Sound(stream)
      <3> SUFFICES ASSUME Tinfl!Sound(stream) PROVE FALSE
        OBVIOUS
      <3>1. r.dist \in 1 .. DictSize /\ r.dist <= Written
        BY <2>1, <2>2 DEF Tells, Expects
      <3> QED
        BY <2>1, <2>2, <2>3, <3>1, DeflateConstants
    <2> QED
      BY <1>1, <1>2, <2>4, ExitKeeps
  <1> QED
    BY <1>1, <1>3, <1>4

-----------------------------------------------------------------------------
(* Writing. *)
LEMMA AtOutput ==
  ASSUME InflateInv, pc = "tinfl"
  PROVE  /\ Stands(call, Len(delivered), out, buf, Written) /\ Len(delivered) \in Nat
         /\ Tells(stream, call.wraps, r, buf, Written) /\ Reads(stream, r) /\ Written \in Nat
         /\ call.wraps \in BOOLEAN /\ stream \in Streams /\ call.limit \in Nat
         /\ out \in 0 .. call.limit /\ out \in Nat /\ DOMAIN buf = 0 .. call.limit - 1
         /\ out < call.limit => out = Place(call.wraps, Written) /\ out \in DOMAIN buf
         /\ cur \in Nat /\ call.base <= cur /\ cur <= call.end /\ r.pos <= 8 * cur /\ 8 * cur <= r.pos + 61
         /\ r.pos \in Nat
  <1>1. Calling /\ Going
    BY DEF Calling, Going
  <1>2. /\ Stands(call, Len(delivered), out, buf, Written) /\ Len(delivered) \in Nat
        /\ Tells(stream, call.wraps, r, buf, Written) /\ Reads(stream, r) /\ Written \in Nat
        /\ call.wraps \in BOOLEAN /\ stream \in Streams
        /\ cur \in Nat /\ call.base <= cur /\ cur <= call.end /\ r.pos <= 8 * cur /\ 8 * cur <= r.pos + 61
    BY <1>1 DEF InflateInv, BufferGiven, TextSoFar, TextGiven, HasGiven, IsText, Tells, BitsRead, Kinds
  <1>3. call.limit \in Nat /\ out \in 0 .. call.limit /\ DOMAIN buf = 0 .. call.limit - 1
    BY <1>2 DEF Stands
  <1>4. out \in Nat /\ (out < call.limit => out \in DOMAIN buf)
    BY <1>3
  <1>5. out < call.limit => out = Place(call.wraps, Written)
    BY <1>2, OutPlace
  <1>6. r.pos \in Nat
    BY BitsAre DEF InflateInv
  <1> QED
    BY <1>2, <1>3, <1>4, <1>5, <1>6

LEMMA PutIs ==
  ASSUME NEW b, NEW o \in DOMAIN b, NEW v, NEW g, g = [b EXCEPT ![o] = v]
  PROVE  PutAt(b, o, v, g)
  BY DEF PutAt

(* Writing a byte. *)
LEMMA WriteIs ==
  ASSUME InflateInv, NEW v, NEW e, Tinfl!Write(v, e)
  PROVE  /\ pc = "tinfl" /\ out < call.limit /\ UserKept /\ UNCHANGED <<call, pc, status, cur>>
         /\ out' = out + 1 /\ out + 1 <= call.limit /\ r' = e /\ PutAt(buf, out, v, buf')
  <1>1. /\ pc = "tinfl" /\ UserKept /\ UNCHANGED <<call, pc, status, cur>>
        /\ out' = out + 1 /\ r' = e /\ buf' = [buf EXCEPT ![out] = v] /\ call.limit - out > 0
    BY UserVarsKept DEF Tinfl!Write, Tinfl!Running, Tinfl!Room
  <1>2. call.limit \in Nat /\ out \in Nat
    BY <1>1, AtOutput
  <1>3. out < call.limit /\ out + 1 <= call.limit
    BY <1>1, <1>2
  <1>4. out \in DOMAIN buf
    BY <1>1, <1>3, AtOutput
  <1>5. PutAt(buf, out, v, buf')
    BY <1>1, <1>4, PutIs
  <1> QED
    BY <1>1, <1>3, <1>5

(* A step that writes a byte. *)
LEMMA WrittenKeeps ==
  ASSUME InflateInv, NEW v, NEW e, Tinfl!Write(v, e), Reads(stream, e), e.pos = r.pos,
         e.summed = r.summed,
         \A g : PutAt(buf, out, v, g) => Tells(stream, call.wraps, e, g, Written + 1)
  PROVE  InflateInv'
  <1>1. /\ pc = "tinfl" /\ UserKept /\ UNCHANGED <<call, pc, status, cur>>
        /\ out' = out + 1 /\ out + 1 <= call.limit /\ r' = e /\ PutAt(buf, out, v, buf')
    BY WriteIs
  <1>2. cur' = cur /\ Reads(stream, r') /\ r'.pos = r.pos /\ r'.summed = r.summed
        /\ Tells(stream, call.wraps, r', buf', Written + 1) /\ 1 \in Nat
    BY <1>1
  <1>3. DOMAIN buf' = DOMAIN buf
    BY <1>1 DEF PutAt
  <1>4. cur' \in Nat /\ call.base <= cur' /\ cur' <= call.end /\ r'.pos <= 8 * cur' /\ 8 * cur' <= r'.pos + 61
    BY <1>1, <1>2, AtOutput
  <1> QED
    BY <1>1, <1>2, <1>3, <1>4, RunKeeps

LEMMA WriteLiteralKeeps == InflateInv /\ Tinfl!WriteLiteral => InflateInv'
  <1> SUFFICES ASSUME InflateInv, Tinfl!WriteLiteral PROVE InflateInv'
    OBVIOUS
  <1> DEFINE u == [r EXCEPT !.lit = <<>>]
  <1>1. r.lit # <<>> /\ Tinfl!Write(Head(r.lit), u)
    BY DEF Tinfl!WriteLiteral
  <1>2. pc = "tinfl" /\ out < call.limit
    BY <1>1, WriteIs
  <1>3. /\ stream \in Streams /\ call.wraps \in BOOLEAN /\ Reads(stream, r)
        /\ Tells(stream, call.wraps, r, buf, Written) /\ out = Place(call.wraps, Written)
        /\ Stands(call, Len(delivered), out, buf, Written) /\ DOMAIN r = Decompressor
    BY <1>2, AtOutput DEF Reads
  <1>4. PICK v : r.lit = <<v>>
    BY <1>1, <1>3 DEF Reads
  <1>5. Covers(call.wraps, buf, Written)
    BY <1>3, PlacesThere
  <1>6. Wrote(r, u)
    BY <1>3 DEF Wrote, Decompressor
  <1> HIDE DEF u
  <1>7. Reads(stream, u) /\ \A g : PutAt(buf, out, v, g) => Tells(stream, call.wraps, u, g, Written + 1)
    <2>1. PICK g : PutAt(buf, out, v, g)
      <3>1. out \in DOMAIN buf
        BY <1>2, AtOutput
      <3> QED
        BY <3>1, PutIs
    <2> QED
      BY <1>3, <1>4, <1>5, <1>6, <2>1, LiteralTells
  <1>8. Head(r.lit) = v /\ u.pos = r.pos /\ u.summed = r.summed
    BY <1>4, <1>6 DEF Wrote
  <1> QED
    BY <1>1, <1>7, <1>8, WrittenKeeps

LEMMA CopyByteKeeps == InflateInv /\ Tinfl!CopyByte => InflateInv'
  <1> SUFFICES ASSUME InflateInv, Tinfl!CopyByte PROVE InflateInv'
    OBVIOUS
  <1> DEFINE u == [r EXCEPT !.left = @ - 1, !.from = @ + 1]
             v == buf[Tinfl!Source]
             at_ == IF call.wraps THEN (r.from - r.dist) % DictSize ELSE r.from - r.dist
  <1>1. r.left > 0 /\ ~Tinfl!TooFar /\ Tinfl!Write(v, u)
    BY DEF Tinfl!CopyByte
  <1>2. pc = "tinfl" /\ out < call.limit
    BY <1>1, WriteIs
  <1>3. /\ stream \in Streams /\ call.wraps \in BOOLEAN /\ Reads(stream, r)
        /\ Tells(stream, call.wraps, r, buf, Written) /\ out = Place(call.wraps, Written)
        /\ Stands(call, Len(delivered), out, buf, Written) /\ DOMAIN r = Decompressor
    BY <1>2, AtOutput DEF Reads
  <1>4. call.wraps \/ ~(r.from < r.dist)
    BY <1>1 DEF Tinfl!TooFar
  <1>5. Covers(call.wraps, buf, Written)
    BY <1>3, PlacesThere
  <1>6. v = buf[at_]
    <2>1. call.wraps => call.limit = DictSize
      BY <1>3 DEF Stands
    <2> QED
      BY <2>1 DEF Tinfl!Source
  <1>7. Copied(r, u)
    BY <1>3 DEF Copied, Decompressor
  <1> HIDE DEF u, v
  <1>8. Reads(stream, u) /\ \A g : PutAt(buf, out, v, g) => Tells(stream, call.wraps, u, g, Written + 1)
    <2>1. PICK g : PutAt(buf, out, v, g)
      <3>1. out \in DOMAIN buf
        BY <1>2, AtOutput
      <3> QED
        BY <3>1, PutIs
    <2> QED
      BY <1>1, <1>3, <1>4, <1>5, <1>6, <1>7, <2>1, CopyTells
  <1>9. u.pos = r.pos /\ u.summed = r.summed
    BY <1>7 DEF Copied
  <1> QED
    BY <1>1, <1>8, <1>9, WrittenKeeps

(* What a decompressor tells does not depend on how its record and buffer
   came about.                                                             *)
SameRecord(e, u) ==
  /\ DOMAIN u = Decompressor /\ u.i = e.i /\ u.pos = e.pos /\ u.lit = e.lit /\ u.left = e.left
  /\ u.dist = e.dist /\ u.from = e.from /\ u.summed = e.summed
SameBuffer(b, g) == DOMAIN g = DOMAIN b /\ \A k \in DOMAIN b : g[k] = b[k]

LEMMA SameTells ==
  ASSUME NEW s, NEW c, NEW given \in Nat, NEW o, NEW e, NEW b, NEW w, c.wraps \in BOOLEAN,
         Reads(s, e), Tells(s, c.wraps, e, b, w), Stands(c, given, o, b, w),
         NEW u, SameRecord(e, u), NEW g, SameBuffer(b, g)
  PROVE  Reads(s, u) /\ Tells(s, c.wraps, u, g, w)
  <1>1. Reads(s, u)
    BY DEF Reads, SameRecord
  <1>2. Covers(c.wraps, b, w)
    BY PlacesThere
  <1>3. Remembers(s, c.wraps, b, w) => Remembers(s, c.wraps, g, w)
    BY <1>2 DEF Remembers, Covers, SameBuffer
  <1>4. Expects(s, e, w) => Expects(s, u, w)
    BY DEF Expects, SameRecord
  <1>5. Pending(u) = Pending(e)
    BY DEF Pending, SameRecord
  <1>6. Tells(s, c.wraps, u, g, w)
    BY <1>3, <1>4, <1>5 DEF Tells, SameRecord
  <1> QED
    BY <1>1, <1>6

(* A literal that is pending can be written at once. *)
LEMMA LiteralStep ==
  ASSUME NEW s \in Streams, NEW c, c.wraps \in BOOLEAN, NEW given \in Nat, NEW o, NEW e, NEW b,
         NEW w \in Nat, NEW v, Reads(s, e), Tells(s, c.wraps, e, b, w), Stands(c, given, o, b, w),
         e.lit = <<v>>, o < c.limit
  PROVE  \E u, g : /\ Wrote(e, u) /\ PutAt(b, o, v, g) /\ Reads(s, u) /\ HoldsNothing(u)
                   /\ Tells(s, c.wraps, u, g, w + 1) /\ Stands(c, given, o + 1, g, w + 1)
  <1> DEFINE u == [e EXCEPT !.lit = <<>>]
             g == [b EXCEPT ![o] = v]
  <1>1. o = Place(c.wraps, w)
    BY OutPlace
  <1>2. o \in DOMAIN b
    BY DEF Stands
  <1>3. PutAt(b, o, v, g)
    BY <1>2, PutIs
  <1>4. Wrote(e, u)
    BY DEF Wrote, Reads, Decompressor
  <1> HIDE DEF u, g
  <1>5. Covers(c.wraps, b, w)
    BY PlacesThere
  <1>6. Reads(s, u) /\ HoldsNothing(u) /\ Tells(s, c.wraps, u, g, w + 1)
    BY <1>1, <1>3, <1>4, <1>5, LiteralTells
  <1>7. DOMAIN g = DOMAIN b
    BY <1>3 DEF PutAt
  <1>8. Stands(c, given, o + 1, g, w + 1)
    <2>1. o + 1 <= c.limit
      BY DEF Stands
    <2> QED
      BY <1>7, <2>1, StandsMore
  <1> QED
    BY <1>3, <1>4, <1>6, <1>8

(* A symbol. *)
LEMMA SymbolIs ==
  ASSUME NEW s \in Streams, NEW i \in 1 .. Len(s.fields), s.fields[i].way = "sym"
  PROVE  LET f == s.fields[i]
         IN /\ f.n \in 0 .. 15 /\ f.act \in {"none", "lit"} /\ i <= Len(s.fields)
            /\ \A q : Tinfl!After(q, f) = q + f.n
            /\ f.act = "lit" => i + 1 \in 1 .. Len(s.fields) /\ s.fields[i + 1].way = "sym"
  <1> DEFINE n == Len(s.fields)
             f == s.fields[i]
  <1>1. n \in Nat /\ Tinfl!IsField(f) /\ (f.act = "lit" => i < n /\ s.fields[i + 1].way = "sym")
    BY StreamConstants
  <1>2. i <= n /\ (i < n => i + 1 \in 1 .. n)
    BY <1>1
  <1>3. f.n \in 0 .. 15 /\ f.act \in {"none", "lit"}
    BY <1>1 DEF Tinfl!IsField
  <1>4. \A q : Tinfl!After(q, f) = q + f.n
    BY DEF Tinfl!After
  <1> QED
    BY <1>1, <1>2, <1>3, <1>4

(* A symbol is used; another that is no literal has nothing to write. *)
LEMMA SymbolTells ==
  ASSUME NEW s \in Streams, NEW wraps \in BOOLEAN, NEW e, NEW b, NEW w,
         Reads(s, e), Tells(s, wraps, e, b, w), HoldsNothing(e), e.i \in 1 .. Len(s.fields),
         s.fields[e.i].way = "sym", out \in Nat
  PROVE  LET f == s.fields[e.i]
             u == Tinfl!Used(e, f)
         IN /\ Reads(s, u) /\ Tells(s, wraps, u, b, w) /\ u.pos = e.pos + f.n
            /\ u.summed = e.summed /\ u.i = e.i + 1 /\ u.left = 0 /\ u.dist = e.dist
            /\ u.from = e.from /\ DOMAIN u = Decompressor
            /\ f.act = "lit" => u.lit = <<f.val>>
            /\ f.act # "lit" => u.lit = <<>> /\ HoldsNothing(u)
  <1> DEFINE f == s.fields[e.i]
             u == Tinfl!Used(e, f)
  <1>1. f.act \in {"none", "lit"} /\ e.i <= Len(s.fields) /\ Tinfl!After(e.pos, f) = e.pos + f.n
    BY SymbolIs
  <1>2. f.way # "bad" /\ f.act # "copy"
    BY <1>1
  <1>3. Reads(s, u) /\ Tells(s, wraps, u, b, w) /\ u.pos = Tinfl!After(e.pos, f)
    BY <1>1, <1>2, UseTells
  <1>4. DOMAIN e = Decompressor
    BY DEF Reads
  <1>5. /\ DOMAIN u = Decompressor /\ u.i = e.i + 1 /\ u.summed = e.summed
        /\ f.act = "lit" => u.lit = <<f.val>>
        /\ f.act # "lit" => u.lit = <<>>
        /\ u.left = 0 /\ u.dist = e.dist /\ u.from = e.from
    <2>1. f.act # "copy"
      BY <1>2
    <2> HIDE DEF f
    <2> QED
      BY <1>4, <2>1, UsedIs
  <1>6. f.act # "lit" => HoldsNothing(u)
    BY <1>5 DEF HoldsNothing
  <1> QED
    BY <1>1, <1>3, <1>5, <1>6

(* The fast loop does in one step what the slow one does in up to four: m
   bytes later it is at e, b.                                              *)
LEMMA FastIs ==
  ASSUME InflateInv, Tinfl!FastDecode
  PROVE  /\ Tinfl!AtField({"sym"}) /\ r.i \in 1 .. Len(stream.fields) /\ stream.fields[r.i].way = "sym"
         /\ out + 2 <= call.limit /\ UserKept /\ UNCHANGED <<call, pc, status>>
         /\ cur' \in Nat /\ call.base <= cur' /\ cur' <= call.end /\ r.pos + 30 <= 8 * cur'
         /\ 8 * cur' <= r.pos + 61
  <1>1. Tinfl!AtField({"sym"}) /\ ~Tinfl!Slow
        /\ cur' = (IF Tinfl!num_bits < 30 THEN cur + 4 ELSE cur)
    BY DEF Tinfl!FastDecode
  <1>2. UserKept /\ UNCHANGED <<call, pc, status>>
    BY UserVarsKept DEF Tinfl!FastDecode
  <1>3. Tinfl!Field.way \in {"sym"} /\ Tinfl!Field = stream.fields[r.i]
        /\ r.i \in 1 .. Len(stream.fields)
    BY <1>1, AtFieldIs
  <1>4. cur \in Nat /\ call.base \in Nat /\ call.base <= cur /\ call.end \in Nat /\ cur <= call.end
        /\ r.pos \in Nat /\ r.pos <= 8 * cur /\ 8 * cur <= r.pos + 61
    BY <1>1, AtFieldIs
  <1>5. call.limit \in Nat /\ out \in Nat
    BY <1>1, AtFieldIs
  <1>6. ~(call.end - cur < 4) /\ ~(call.limit - out < 2)
    BY <1>1 DEF Tinfl!Slow, Tinfl!Available, Tinfl!Room
  <1>7. out + 2 <= call.limit
    BY <1>5, <1>6
  <1>8. cur' = IF 8 * cur - r.pos < 30 THEN cur + 4 ELSE cur
    BY <1>1 DEF Tinfl!num_bits
  <1>9. cur' \in Nat /\ call.base <= cur' /\ cur' <= call.end /\ r.pos + 30 <= 8 * cur'
        /\ 8 * cur' <= r.pos + 61
    <2>1. CASE 8 * cur - r.pos < 30
      <3>1. cur' = cur + 4
        BY <1>8, <2>1
      <3> QED
        BY <1>4, <1>6, <2>1, <3>1
    <2>2. CASE ~(8 * cur - r.pos < 30)
      <3>1. cur' = cur
        BY <1>8, <2>2
      <3> QED
        BY <1>4, <2>2, <3>1
    <2> QED
      BY <2>1, <2>2
  <1> QED
    BY <1>1, <1>2, <1>3, <1>7, <1>9

LEMMA FastKeeps ==
  ASSUME InflateInv, Tinfl!FastDecode, NEW m \in 0 .. 2, out' = out + m, NEW e, NEW b,
         SameRecord(e, r'), SameBuffer(b, buf'), DOMAIN b = DOMAIN buf,
         Reads(stream, e), Tells(stream, call.wraps, e, b, Written + m),
         Stands(call, Len(delivered), out + m, b, Written + m),
         e.summed = r.summed, NEW bits \in 0 .. 30, e.pos = r.pos + bits
  PROVE  InflateInv'
  <1>1. /\ Tinfl!AtField({"sym"}) /\ out + 2 <= call.limit /\ UserKept /\ UNCHANGED <<call, pc, status>>
        /\ cur' \in Nat /\ call.base <= cur' /\ cur' <= call.end /\ r.pos + 30 <= 8 * cur'
        /\ 8 * cur' <= r.pos + 61
    BY FastIs
  <1>2. /\ pc = "tinfl" /\ r.pos \in Nat /\ call.limit \in Nat /\ out \in Nat
        /\ call.wraps \in BOOLEAN /\ Len(delivered) \in Nat
    BY <1>1, AtFieldIs
  <1>3. Reads(stream, r') /\ Tells(stream, call.wraps, r', buf', Written + m)
    BY <1>2, SameTells
  <1>4. m \in Nat /\ out + m <= call.limit
    BY <1>1, <1>2, SMTT(40)
  <1>5. r'.summed = r.summed /\ r'.pos = r.pos + bits /\ DOMAIN buf' = DOMAIN buf
    BY DEF SameRecord, SameBuffer
  <1>6. r'.pos <= 8 * cur' /\ 8 * cur' <= r'.pos + 61
    <2> DEFINE pos == r.pos
               q == cur'
    <2>1. pos \in Nat /\ q \in Nat /\ pos + 30 <= 8 * q /\ 8 * q <= pos + 61
      BY <1>1, <1>2
    <2> HIDE DEF pos, q
    <2>2. pos + bits <= 8 * q /\ 8 * q <= (pos + bits) + 61
      BY <2>1
    <2> QED
      BY <1>5, <2>2 DEF pos, q
  <1> QED
    BY <1>1, <1>2, <1>3, <1>4, <1>5, <1>6, RunKeeps

(* What the loop leaves of the decompressor: no literal is pending. *)
LEMMA Unlettered ==
  ASSUME NEW e, DOMAIN e = Decompressor, NEW u, u = [e EXCEPT !.lit = <<>>]
  PROVE  Wrote(e, u)
  BY DEF Wrote, Decompressor

(* No literal at all, *)
LEMMA FastPlain ==
  ASSUME InflateInv, Tinfl!FastDecode, stream.fields[r.i].act # "lit"
  PROVE  InflateInv'
  <1> DEFINE f == stream.fields[r.i]
             one == Tinfl!Used(r, f)
  <1>1. /\ Tinfl!AtField({"sym"}) /\ r.i \in 1 .. Len(stream.fields) /\ f.way = "sym"
    BY FastIs
  <1>2. /\ HoldsNothing(r) /\ Reads(stream, r) /\ Tells(stream, call.wraps, r, buf, Written)
        /\ stream \in Streams /\ out \in Nat /\ call.wraps \in BOOLEAN /\ Written \in Nat
        /\ Stands(call, Len(delivered), out, buf, Written) /\ Tinfl!Field = f
    BY <1>1, AtFieldIs
  <1>3. f.n \in 0 .. 15
    BY <1>1, <1>2, SymbolIs
  <1>4. /\ Reads(stream, one) /\ Tells(stream, call.wraps, one, buf, Written)
        /\ one.pos = r.pos + f.n /\ one.summed = r.summed /\ one.lit = <<>> /\ DOMAIN one = Decompressor
    BY <1>1, <1>2, SymbolTells
  <1>5. /\ r' = [one EXCEPT !.lit = <<>>] /\ out' = out + Len(<<>>)
        /\ buf' = [k \in DOMAIN buf |-> IF k >= out /\ k < out + Len(<<>>)
                                        THEN <<>>[k - out + 1] ELSE buf[k]]
    BY <1>2 DEF Tinfl!FastDecode
  <1> HIDE DEF one, f
  <1>6. SameRecord(one, r')
    BY <1>4, <1>5, Unlettered DEF SameRecord, Wrote
  <1>7. SameBuffer(buf, buf')
    <2>1. DOMAIN buf = 0 .. call.limit - 1 /\ call.limit \in Nat
      BY <1>2 DEF Stands
    <2>2. ASSUME NEW k \in DOMAIN buf PROVE ~(k >= out /\ k < out + Len(<<>>))
      BY <1>2, <2>1
    <2> QED
      BY <1>5, <2>2 DEF SameBuffer
  <1>8. out' = out + 0 /\ Written + 0 = Written /\ out + 0 = out /\ 0 \in 0 .. 2
    BY <1>2, <1>5
  <1>9. f.n \in 0 .. 30
    BY <1>3
  <1> QED
    BY <1>2, <1>4, <1>6, <1>7, <1>8, <1>9, FastKeeps

(* or one, at e2 and b2, and then a symbol. *)
AfterLiteral(e2, b2) ==
  LET one == Tinfl!Used(r, stream.fields[r.i])
      w == Written + 1
  IN /\ Wrote(one, e2) /\ PutAt(buf, out, stream.fields[r.i].val, b2)
     /\ Reads(stream, e2) /\ HoldsNothing(e2) /\ Tells(stream, call.wraps, e2, b2, w)
     /\ Stands(call, Len(delivered), out + 1, b2, w)
     /\ e2.i = r.i + 1 /\ e2.pos = r.pos + stream.fields[r.i].n /\ e2.summed = r.summed

LEMMA FastFirst ==
  ASSUME InflateInv, Tinfl!FastDecode, stream.fields[r.i].act = "lit"
  PROVE  /\ \E e2, b2 : AfterLiteral(e2, b2)
         /\ r.i + 1 \in 1 .. Len(stream.fields) /\ stream.fields[r.i + 1].way = "sym"
         /\ stream.fields[r.i].n \in 0 .. 15
         /\ DOMAIN Tinfl!Used(r, stream.fields[r.i]) = Decompressor
         /\ stream \in Streams /\ call.wraps \in BOOLEAN /\ Written \in Nat /\ out \in Nat
         /\ out + 2 <= call.limit /\ call.limit \in Nat /\ Len(delivered) \in Nat
         /\ DOMAIN buf = 0 .. call.limit - 1
  <1> DEFINE f == stream.fields[r.i]
             one == Tinfl!Used(r, f)
  <1>1. /\ Tinfl!AtField({"sym"}) /\ r.i \in 1 .. Len(stream.fields) /\ f.way = "sym"
        /\ out + 2 <= call.limit
    BY FastIs
  <1>2. /\ HoldsNothing(r) /\ Reads(stream, r) /\ Tells(stream, call.wraps, r, buf, Written)
        /\ stream \in Streams /\ out \in Nat /\ call.wraps \in BOOLEAN /\ Written \in Nat
        /\ Stands(call, Len(delivered), out, buf, Written) /\ Tinfl!Field = f
        /\ call.limit \in Nat /\ Len(delivered) \in Nat
    BY <1>1, AtFieldIs
  <1>3. f.n \in 0 .. 15 /\ r.i + 1 \in 1 .. Len(stream.fields) /\ stream.fields[r.i + 1].way = "sym"
    BY <1>1, <1>2, SymbolIs
  <1>4. /\ Reads(stream, one) /\ Tells(stream, call.wraps, one, buf, Written)
        /\ one.pos = r.pos + f.n /\ one.summed = r.summed /\ one.i = r.i + 1 /\ one.lit = <<f.val>>
        /\ DOMAIN one = Decompressor
    BY <1>1, <1>2, SymbolTells, ZenonT(60)
  <1>5. out < call.limit
    BY <1>1, <1>2
  <1> HIDE DEF one, f
  <1>6. PICK e2, b2 : /\ Wrote(one, e2) /\ PutAt(buf, out, f.val, b2) /\ Reads(stream, e2)
                      /\ HoldsNothing(e2) /\ Tells(stream, call.wraps, e2, b2, Written + 1)
                      /\ Stands(call, Len(delivered), out + 1, b2, Written + 1)
    <2>1. Reads(stream, one) /\ Tells(stream, call.wraps, one, buf, Written) /\ one.lit = <<f.val>>
      BY <1>4
    <2>2. /\ stream \in Streams /\ call.wraps \in BOOLEAN /\ Written \in Nat
          /\ Stands(call, Len(delivered), out, buf, Written) /\ Len(delivered) \in Nat
      BY <1>2
    <2> QED
      <3> DEFINE v == f.val
                 w == Written
      <3>1. one.lit = <<v>> /\ Tells(stream, call.wraps, one, buf, w) /\ w \in Nat
            /\ Stands(call, Len(delivered), out, buf, w)
        BY <2>1, <2>2
      <3> HIDE DEF v, w
      <3>2. \E e2, b2 : /\ Wrote(one, e2) /\ PutAt(buf, out, v, b2) /\ Reads(stream, e2)
                        /\ HoldsNothing(e2) /\ Tells(stream, call.wraps, e2, b2, w + 1)
                        /\ Stands(call, Len(delivered), out + 1, b2, w + 1)
        BY <1>5, <2>1, <2>2, <3>1, LiteralStep
      <3> QED
        BY <3>2 DEF v, w
  <1>7. e2.i = r.i + 1 /\ e2.pos = r.pos + f.n /\ e2.summed = r.summed
    BY <1>4, <1>6 DEF Wrote
  <1>8. AfterLiteral(e2, b2)
    BY <1>6, <1>7 DEF AfterLiteral, one, f
  <1>9. DOMAIN buf = 0 .. call.limit - 1
    BY <1>2 DEF Stands
  <1> QED
    BY <1>1, <1>2, <1>3, <1>4, <1>8, <1>9 DEF one, f

(* The symbol is no literal, *)
LEMMA FastOne ==
  ASSUME InflateInv, Tinfl!FastDecode, stream.fields[r.i].act = "lit",
         stream.fields[r.i + 1].act # "lit"
  PROVE  InflateInv'
  <1> DEFINE f == stream.fields[r.i]
             second == stream.fields[r.i + 1]
             one == Tinfl!Used(r, f)
             last == Tinfl!Used(one, second)
  <1>1. PICK e2, b2 : AfterLiteral(e2, b2)
    BY FastFirst
  <1>2. /\ r.i + 1 \in 1 .. Len(stream.fields) /\ second.way = "sym"
        /\ f.n \in 0 .. 15 /\ DOMAIN one = Decompressor
        /\ stream \in Streams /\ call.wraps \in BOOLEAN /\ Written \in Nat /\ out \in Nat
        /\ out + 2 <= call.limit /\ call.limit \in Nat /\ DOMAIN buf = 0 .. call.limit - 1
    BY FastFirst
  <1>3. second.n \in 0 .. 15 /\ second.act # "copy" /\ \A q : Tinfl!After(q, second) = q + second.n
    BY <1>2, SymbolIs
  <1>4. /\ Wrote(one, e2) /\ PutAt(buf, out, f.val, b2)
        /\ Reads(stream, e2) /\ HoldsNothing(e2) /\ Tells(stream, call.wraps, e2, b2, Written + 1)
        /\ Stands(call, Len(delivered), out + 1, b2, Written + 1)
        /\ e2.i = r.i + 1 /\ e2.pos = r.pos + f.n /\ e2.summed = r.summed
    BY <1>1 DEF AfterLiteral
  <1> DEFINE e3 == Tinfl!Used(e2, stream.fields[e2.i])
  <1>5. /\ Reads(stream, e3) /\ Tells(stream, call.wraps, e3, b2, Written + 1)
        /\ e3.pos = e2.pos + second.n /\ e3.summed = e2.summed /\ e3.i = e2.i + 1 /\ e3.left = 0
        /\ e3.dist = e2.dist /\ e3.from = e2.from /\ DOMAIN e3 = Decompressor /\ e3.lit = <<>>
    <2>1. e2.i \in 1 .. Len(stream.fields) /\ stream.fields[e2.i].way = "sym"
          /\ stream.fields[e2.i] = second
      BY <1>2, <1>4
    <2> QED
      BY <1>2, <1>4, <2>1, SymbolTells
  <1>6. /\ r' = [last EXCEPT !.lit = <<>>] /\ out' = out + Len(<<f.val>>)
        /\ buf' = [k \in DOMAIN buf |-> IF k >= out /\ k < out + Len(<<f.val>>)
                                        THEN <<f.val>>[k - out + 1] ELSE buf[k]]
    BY DEF Tinfl!FastDecode, Tinfl!Field
  <1>7. /\ DOMAIN last = Decompressor /\ last.i = one.i + 1 /\ last.pos = Tinfl!After(one.pos, second)
        /\ last.summed = one.summed /\ last.left = 0 /\ last.dist = one.dist /\ last.from = one.from
    <2> HIDE DEF one, second
    <2> QED
      BY <1>2, <1>3, UsedIs, ZenonT(60)
  <1> HIDE DEF last, one, e3, f, second
  <1>8. Wrote(last, r')
    BY <1>6, <1>7, Unlettered
  <1>9. SameRecord(e3, r')
    BY <1>3, <1>4, <1>5, <1>7, <1>8 DEF SameRecord, Wrote
  <1>10. SameBuffer(b2, buf')
    <2>1. /\ DOMAIN b2 = DOMAIN buf /\ b2[out] = f.val
          /\ \A k \in DOMAIN buf : k # out => b2[k] = buf[k]
      BY <1>4 DEF PutAt
    <2>2. DOMAIN buf' = DOMAIN buf
      BY <1>6
    <2>3. ASSUME NEW k \in DOMAIN buf PROVE buf'[k] = b2[k]
      <3>1. CASE k = out
        <4>1. k >= out /\ k < out + Len(<<f.val>>) /\ k - out + 1 = 1
          BY <1>2, <3>1
        <4>2. buf'[k] = <<f.val>>[1]
          BY <1>6, <4>1
        <4> QED
          BY <2>1, <3>1, <4>2
      <3>2. CASE k # out
        <4>1. ~(k >= out /\ k < out + Len(<<f.val>>))
          BY <1>2, <3>2
        <4>2. buf'[k] = buf[k]
          BY <1>6, <4>1
        <4> QED
          BY <2>1, <3>2, <4>2
      <3> QED
        BY <3>1, <3>2
    <2> QED
      BY <2>1, <2>2, <2>3 DEF SameBuffer
  <1>11. DOMAIN b2 = DOMAIN buf
    BY <1>4 DEF PutAt
  <1>12. out' = out + 1 /\ 1 \in 0 .. 2 /\ e3.summed = r.summed
    BY <1>4, <1>5, <1>6
  <1>13. f.n + second.n \in 0 .. 30 /\ e3.pos = r.pos + (f.n + second.n)
    <2>1. r.pos \in Nat
      BY BitsAre DEF InflateInv
    <2>2. f.n \in 0 .. 15 /\ second.n \in 0 .. 15
      BY <1>2, <1>3
    <2>3. e3.pos = (r.pos + f.n) + second.n
      BY <1>4, <1>5
    <2> QED
      BY <2>1, <2>2, <2>3
  <1> QED
    BY <1>4, <1>5, <1>9, <1>10, <1>11, <1>12, <1>13, FastKeeps

(* or it is one too. *)
LEMMA FastTwo ==
  ASSUME InflateInv, Tinfl!FastDecode, stream.fields[r.i].act = "lit",
         stream.fields[r.i + 1].act = "lit"
  PROVE  InflateInv'
  <1> DEFINE f == stream.fields[r.i]
             second == stream.fields[r.i + 1]
             one == Tinfl!Used(r, f)
             last == Tinfl!Used(one, second)
             text == <<f.val, second.val>>
  <1>1. PICK e2, b2 : AfterLiteral(e2, b2)
    BY FastFirst
  <1>2. /\ r.i + 1 \in 1 .. Len(stream.fields) /\ second.way = "sym"
        /\ f.n \in 0 .. 15 /\ DOMAIN one = Decompressor
        /\ stream \in Streams /\ call.wraps \in BOOLEAN /\ Written \in Nat /\ out \in Nat
        /\ out + 2 <= call.limit /\ call.limit \in Nat /\ DOMAIN buf = 0 .. call.limit - 1
        /\ Len(delivered) \in Nat
    BY FastFirst
  <1>3. second.n \in 0 .. 15 /\ second.act # "copy" /\ \A q : Tinfl!After(q, second) = q + second.n
    BY <1>2, SymbolIs
  <1>4. /\ Wrote(one, e2) /\ PutAt(buf, out, f.val, b2)
        /\ Reads(stream, e2) /\ HoldsNothing(e2) /\ Tells(stream, call.wraps, e2, b2, Written + 1)
        /\ Stands(call, Len(delivered), out + 1, b2, Written + 1)
        /\ e2.i = r.i + 1 /\ e2.pos = r.pos + f.n /\ e2.summed = r.summed
    BY <1>1 DEF AfterLiteral
  <1> DEFINE e3 == Tinfl!Used(e2, stream.fields[e2.i])
  <1>5. /\ Reads(stream, e3) /\ Tells(stream, call.wraps, e3, b2, Written + 1)
        /\ e3.pos = e2.pos + second.n /\ e3.summed = e2.summed /\ e3.i = e2.i + 1 /\ e3.left = 0
        /\ e3.dist = e2.dist /\ e3.from = e2.from /\ e3.lit = <<second.val>>
    <2>1. e2.i \in 1 .. Len(stream.fields) /\ stream.fields[e2.i].way = "sym"
          /\ stream.fields[e2.i] = second
      BY <1>2, <1>4
    <2>2. /\ Reads(stream, e2) /\ HoldsNothing(e2) /\ Tells(stream, call.wraps, e2, b2, Written + 1)
          /\ stream \in Streams /\ call.wraps \in BOOLEAN /\ out \in Nat
      BY <1>2, <1>4
    <2>3. /\ Reads(stream, e3) /\ Tells(stream, call.wraps, e3, b2, Written + 1)
          /\ e3.pos = e2.pos + stream.fields[e2.i].n /\ e3.summed = e2.summed /\ e3.i = e2.i + 1
          /\ e3.left = 0 /\ e3.dist = e2.dist /\ e3.from = e2.from
          /\ stream.fields[e2.i].act = "lit" => e3.lit = <<stream.fields[e2.i].val>>
      BY <2>1, <2>2, SymbolTells, ZenonT(60)
    <2> HIDE DEF e3
    <2> QED
      BY <2>1, <2>3
  <1>6. /\ r' = [last EXCEPT !.lit = <<>>] /\ out' = out + Len(text)
        /\ buf' = [k \in DOMAIN buf |-> IF k >= out /\ k < out + Len(text)
                                        THEN text[k - out + 1] ELSE buf[k]]
    BY DEF Tinfl!FastDecode, Tinfl!Field
  <1>7. /\ DOMAIN last = Decompressor /\ last.i = one.i + 1 /\ last.pos = Tinfl!After(one.pos, second)
        /\ last.summed = one.summed /\ last.left = 0 /\ last.dist = one.dist /\ last.from = one.from
    <2> HIDE DEF one, second
    <2> QED
      BY <1>2, <1>3, UsedIs, ZenonT(60)
  <1> HIDE DEF last, one, e3
  <1> DEFINE o == out + 1
             w == Written + 1
  <1>8. o < call.limit /\ o \in Nat /\ w \in Nat /\ o + 1 = out + 2 /\ w + 1 = Written + 2
    BY <1>2
  <1> HIDE DEF f, second
  <1>9. PICK e4, b4 : /\ Wrote(e3, e4) /\ PutAt(b2, o, second.val, b4) /\ Reads(stream, e4)
                      /\ Tells(stream, call.wraps, e4, b4, w + 1)
                      /\ Stands(call, Len(delivered), o + 1, b4, w + 1)
    <2>1. Stands(call, Len(delivered), o, b2, w) /\ Tells(stream, call.wraps, e3, b2, w)
      BY <1>4, <1>5
    <2> HIDE DEF o, w
    <2> QED
      BY <1>2, <1>5, <1>8, <2>1, LiteralStep
  <1>10. Wrote(last, r')
    BY <1>6, <1>7, Unlettered
  <1>11. SameRecord(e4, r')
    BY <1>3, <1>4, <1>5, <1>7, <1>9, <1>10 DEF SameRecord, Wrote
  <1>12. DOMAIN b2 = DOMAIN buf /\ DOMAIN b4 = DOMAIN buf
    BY <1>4, <1>9 DEF PutAt
  <1>13. SameBuffer(b4, buf')
    <2>1. /\ b2[out] = f.val /\ b4[o] = second.val
          /\ \A k \in DOMAIN buf : k # out => b2[k] = buf[k]
          /\ \A k \in DOMAIN buf : k # o => b4[k] = b2[k]
      BY <1>4, <1>9, <1>12 DEF PutAt
    <2>2. DOMAIN buf' = DOMAIN buf
      BY <1>6
    <2>3. Len(text) = 2 /\ text[1] = f.val /\ text[2] = second.val
      OBVIOUS
    <2> HIDE DEF text
    <2>4. ASSUME NEW k \in DOMAIN buf PROVE buf'[k] = b4[k]
      <3>1. CASE k = out
        <4>1. k >= out /\ k < out + 2 /\ k - out + 1 = 1 /\ k # o
          BY <1>2, <3>1
        <4>2. buf'[k] = text[1]
          BY <1>6, <2>3, <4>1
        <4> QED
          BY <2>1, <2>3, <3>1, <4>1, <4>2
      <3>2. CASE k = o
        <4>1. k >= out /\ k < out + 2 /\ k - out + 1 = 2
          BY <1>2, <3>2
        <4>2. buf'[k] = text[2]
          BY <1>6, <2>3, <4>1
        <4> QED
          BY <2>1, <2>3, <3>2, <4>2
      <3>3. CASE k # out /\ k # o
        <4>1. ~(k >= out /\ k < out + 2)
          BY <1>2, <3>3
        <4>2. buf'[k] = buf[k]
          BY <1>6, <2>3, <4>1
        <4> QED
          BY <2>1, <3>3, <4>2
      <3> QED
        BY <3>1, <3>2, <3>3
    <2> QED
      BY <1>12, <2>2, <2>4 DEF SameBuffer
  <1>14. out' = out + 2 /\ 2 \in 0 .. 2 /\ e4.summed = r.summed
    <2>1. Len(text) = 2
      OBVIOUS
    <2> HIDE DEF text
    <2> QED
      BY <1>4, <1>5, <1>6, <1>9, <2>1 DEF Wrote
  <1>15. f.n + second.n \in 0 .. 30 /\ e4.pos = r.pos + (f.n + second.n)
    <2>1. r.pos \in Nat
      BY BitsAre DEF InflateInv
    <2>2. e4.pos = e3.pos
      BY <1>9 DEF Wrote
    <2>3. f.n \in 0 .. 15 /\ second.n \in 0 .. 15
      BY <1>2, <1>3
    <2>4. e4.pos = (r.pos + f.n) + second.n
      BY <1>4, <1>5, <2>2
    <2> QED
      BY <2>1, <2>3, <2>4
  <1>16. Tells(stream, call.wraps, e4, b4, Written + 2) /\ Stands(call, Len(delivered), out + 2, b4, Written + 2)
    BY <1>8, <1>9
  <1> HIDE DEF o, w, text
  <1> QED
    BY <1>9, <1>11, <1>12, <1>13, <1>14, <1>15, <1>16, FastKeeps

LEMMA DecompressKeeps == InflateInv /\ Tinfl!Decompress => InflateInv'
  BY GetBitsKeeps, StoredByteKeeps, HuffDecodeKeeps, FastPlain, FastOne, FastTwo, WriteLiteralKeeps,
     CopyByteKeeps, OutputFullKeeps, CorruptKeeps, FinishKeeps, DoneKeeps DEF Tinfl!Decompress

-----------------------------------------------------------------------------
(* The callers.  A decompressor that has just been set up has read nothing and
   has nothing to remember.                                                *)
LEMMA FreshTells ==
  ASSUME NEW s \in Streams, NEW wraps \in BOOLEAN, NEW b
  PROVE  Reads(s, Tinfl!Fresh) /\ Tells(s, wraps, Tinfl!Fresh, b, 0)
  <1> DEFINE e == Tinfl!Fresh
             n == Len(s.fields)
  <1>1. /\ DOMAIN e = Decompressor /\ e.i = 1 /\ e.pos = 0 /\ e.lit = <<>> /\ e.left = 0
        /\ e.from = 0 /\ e.summed = 0
    BY DEF Tinfl!Fresh, Decompressor
  <1>2. n \in Nat
    BY StreamConstants
  <1>3. Tinfl!EndsAt(s, 0) = 0 /\ Tinfl!TextUpTo(s, 0) = <<>>
    BY EndsAtNext, TextUpToNext
  <1> HIDE DEF e
  <1>4. Reads(s, e)
    <2>1. e.i \in 1 .. n + 1 /\ e.i - 1 = 0 /\ \A k \in 1 .. e.i - 1 : FALSE
      BY <1>1, <1>2
    <2> QED
      BY <1>1, <1>3, <2>1 DEF Reads
  <1>5. Tells(s, wraps, e, b, 0)
    <2>1. Pending(e) = 0 /\ e.i - 1 = 0
      BY <1>1 DEF Pending
    <2>2. SoFar(s, 0) = 0
      BY <1>3 DEF SoFar
    <2>3. SoundTo(s, 0)
      BY DEF SoundTo
    <2>4. Expects(s, e, 0)
      BY <1>1 DEF Expects
    <2>5. Remembers(s, wraps, b, 0)
      BY DEF Remembers
    <2> QED
      BY <1>1, <2>1, <2>2, <2>3, <2>4, <2>5 DEF Tells
  <1> QED
    BY <1>4, <1>5 DEF e

(* The n bytes of the buffer from where the text given ends are the next n of
   the text.                                                               *)
LEMMA HandedOver ==
  ASSUME NEW s, NEW wraps \in BOOLEAN, NEW b, NEW w \in Nat, Remembers(s, wraps, b, w),
         NEW given \in Nat, NEW n \in Nat, given + n <= w, NEW from \in Nat,
         from = Place(wraps, given),
         wraps => w - DictSize <= given /\ from + n <= DictSize
  PROVE  \A k \in 1 .. n : b[from + k - 1] = Tinfl!Text(s)[given + k]
  <1> SUFFICES ASSUME NEW k \in 1 .. n PROVE b[from + k - 1] = Tinfl!Text(s)[given + k]
    OBVIOUS
  <1> DEFINE j == given + (k - 1)
  <1>1. j \in Nat /\ j < w /\ j + 1 = given + k /\ (wraps => w - DictSize <= j) /\ from + (k - 1) = from + k - 1
    BY DeflateConstants
  <1> HIDE DEF j
  <1>2. b[Place(wraps, j)] = Tinfl!Text(s)[j + 1]
    BY <1>1 DEF Remembers
  <1>3. Place(wraps, j) = from + k - 1
    <2>1. CASE wraps
      <3>1. from = Tdefl!Cell(given) /\ from + n <= DictSize
        BY <2>1 DEF Place
      <3>2. k - 1 \in 0 .. DictSize - 1 /\ from + (k - 1) < DictSize /\ given \in Int
        BY <3>1, DeflateConstants
      <3>3. \/ Tdefl!Cell(given) + (k - 1) = Tdefl!Cell(given + (k - 1))
            \/ Tdefl!Cell(given) + (k - 1) = Tdefl!Cell(given + (k - 1)) + DictSize
        BY <3>2, CellsAlong
      <3>4. Tdefl!Cell(j) \in 0 .. DictSize - 1
        <4>1. j \in Int
          BY <1>1
        <4> QED
          BY <4>1, Cells
      <3>5. Tdefl!Cell(j) = from + (k - 1)
        BY <3>1, <3>2, <3>3, <3>4, DeflateConstants DEF j
      <3> QED
        BY <1>1, <2>1, <3>5 DEF Place
    <2>2. CASE ~wraps
      <3>1. from = given /\ Place(wraps, j) = j
        BY <2>2 DEF Place
      <3>2. given + (k - 1) = given + k - 1
        OBVIOUS
      <3> QED
        BY <3>1, <3>2 DEF j
    <2> QED
      BY <2>1, <2>2
  <1> QED
    BY <1>1, <1>2, <1>3

(* Where the dictionary goes on once n bytes have been given of it. *)
LEMMA PlaceMoves ==
  ASSUME NEW from \in 0 .. DictSize - 1, NEW given \in Nat, from = Tdefl!Cell(given), NEW n \in Nat,
         NEW m \in Nat, n <= m, from + m <= DictSize
  PROVE  LET next == (from + n) % DictSize
         IN next \in 0 .. DictSize - 1 /\ next = Tdefl!Cell(given + n) /\ (n < m => next = from + n)
  <1> DEFINE next == (from + n) % DictSize
  <1>1. from \in Int /\ given \in Int /\ n \in Int /\ from + n \in Int /\ DictSize \in Nat \ {0}
    BY DeflateConstants
  <1>2. next = Tdefl!Cell(from + n)
    BY DEF Tdefl!Cell
  <1>3. Tdefl!Cell(from) = Tdefl!Cell(given)
    <2>1. Tdefl!Cell(Tdefl!Cell(given)) = Tdefl!Cell(given)
      BY <1>1, CellAgain
    <2> QED
      BY <2>1
  <1>4. Tdefl!Cell(from + n) = Tdefl!Cell(given + n)
    BY <1>1, <1>3, CellsShift
  <1>5. next \in 0 .. DictSize - 1
    BY <1>1, <1>2, Cells
  <1>6. ASSUME n < m PROVE next = from + n
    <2>1. from + n \in 0 .. DictSize - 1 /\ from + n = 0 * DictSize + (from + n) /\ 0 \in Int
      BY <1>1, <1>6
    <2> QED
      BY <1>1, <2>1, SameRemainder
  <1> QED
    BY <1>2, <1>4, <1>5, <1>6

(* What is given is added to what the user has. *)
LEMMA PartIs ==
  ASSUME NEW from \in Nat, NEW n \in Nat
  PROVE  LET part_ == Tinfl!Part(from, n)
         IN Len(part_) = n /\ IsText(part_) /\ \A k \in 1 .. n : part_[k] = buf[from + k - 1]
  <1> DEFINE p_ == Tinfl!Part(from, n)
  <1>1. p_ = [k \in 1 .. n |-> buf[from + k - 1]]
    BY DEF Tinfl!Part
  <1> HIDE DEF p_
  <1>2. Len(p_) = n
    BY <1>1
  <1>3. \A k \in 1 .. n : p_[k] = buf[from + k - 1]
    BY <1>1
  <1>4. p_ = [k \in 1 .. n |-> p_[k]]
    BY <1>1
  <1>5. IsText(p_)
    BY <1>2, <1>4 DEF IsText
  <1> QED
    BY <1>2, <1>3, <1>5 DEF p_

LEMMA MoreGiven ==
  ASSUME NEW s, NEW text, HasGiven(s, text), NEW t, IsText(t),
         Tinfl!Sound(s) => /\ Len(text) + Len(t) <= Len(Tinfl!Text(s))
                           /\ \A k \in 1 .. Len(t) : t[k] = Tinfl!Text(s)[Len(text) + k]
  PROVE  HasGiven(s, text \o t) /\ Len(text \o t) = Len(text) + Len(t)
  <1> DEFINE n == Len(text)
             m == Len(t)
             u == text \o t
             x == Tinfl!Text(s)
  <1>1. n \in Nat /\ m \in Nat /\ text = [k \in 1 .. n |-> text[k]] /\ t = [k \in 1 .. m |-> t[k]]
    BY DEF HasGiven, IsText
  <1> HIDE DEF n, m
  <1>2. u = [k \in 1 .. n + m |-> IF k <= n THEN text[k] ELSE t[k - n]]
    BY <1>1, Joined
  <1> HIDE DEF u
  <1>3. Len(u) = n + m
    BY <1>1, <1>2
  <1>4. IsText(u)
    <2>1. u = [k \in 1 .. n + m |-> u[k]]
      BY <1>2
    <2> QED
      BY <1>1, <1>3, <2>1 DEF IsText
  <1>5. ASSUME Tinfl!Sound(s) PROVE Len(u) <= Len(x) /\ \A k \in 1 .. Len(u) : u[k] = x[k]
    <2>1. n + m <= Len(x) /\ \A k \in 1 .. m : t[k] = x[n + k]
      BY <1>5 DEF n, m
    <2>2. \A k \in 1 .. n : text[k] = x[k]
      BY <1>5 DEF HasGiven, n
    <2>3. ASSUME NEW k \in 1 .. n + m PROVE u[k] = x[k]
      <3>1. CASE k <= n
        BY <1>1, <1>2, <2>2, <3>1
      <3>2. CASE ~(k <= n)
        <4>1. k - n \in 1 .. m /\ n + (k - n) = k
          BY <1>1, <3>2
        <4>2. t[k - n] = x[n + (k - n)]
          BY <2>1, <4>1
        <4> QED
          BY <1>2, <3>2, <4>1, <4>2
      <3> QED
        BY <3>1, <3>2
    <2> QED
      BY <1>3, <2>1, <2>3
  <1> QED
    BY <1>3, <1>4, <1>5 DEF HasGiven, n, m, u

(* Of a stream that can be read all that is written is of its text, *)
LEMMA TextBounds ==
  ASSUME NEW s \in Streams, NEW wraps, NEW e, NEW b, NEW w, Reads(s, e), Tells(s, wraps, e, b, w),
         Tinfl!Sound(s)
  PROVE  w <= Len(Tinfl!Text(s)) /\ Len(Tinfl!Text(s)) \in Nat
         /\ (e.i = Len(s.fields) + 1 /\ HoldsNothing(e) => w = Len(Tinfl!Text(s)))
  <1> DEFINE n == Len(s.fields)
             x == Len(Tinfl!Text(s))
  <1>1. n \in Nat /\ DOMAIN s.fields = 1 .. n
    BY StreamConstants
  <1>2. e.i \in 1 .. n + 1 /\ w \in Nat
    BY DEF Reads, Tells
  <1>3. e.i - 1 \in 0 .. n /\ n \in 0 .. n
    BY <1>1, <1>2
  <1>4. SoundTo(s, e.i - 1)
    <2>1. \A k \in 1 .. e.i - 1 : k \in 1 .. n
      BY <1>1, <1>3
    <2> QED
      BY <1>1, <2>1 DEF SoundTo, Tinfl!Sound
  <1>5. w + Pending(e) = SoFar(s, e.i - 1)
    BY <1>4 DEF Tells
  <1>6. Pending(e) \in Nat
    BY DEF Pending, Reads
  <1>7. SoFar(s, e.i - 1) <= x /\ SoFar(s, e.i - 1) \in Nat
    BY <1>3, TextGrows
  <1>8. x \in Nat
    <2>1. IsText(Tinfl!TextUpTo(s, n))
      BY <1>3, TextGrows
    <2> QED
      BY <2>1 DEF IsText, Tinfl!Text
  <1>9. ASSUME e.i = n + 1, HoldsNothing(e) PROVE w = x
    <2>1. e.i - 1 = n /\ Pending(e) = 0
      BY <1>1, <1>9 DEF Pending, HoldsNothing
    <2>2. SoFar(s, n) = x
      BY DEF SoFar, Tinfl!Text
    <2> QED
      BY <1>2, <1>5, <2>1, <2>2
  <1> HIDE DEF x, n
  <1> QED
    BY <1>2, <1>5, <1>6, <1>7, <1>8, <1>9 DEF x, n

(* and whoever is handed n bytes of it has n more of its beginning. *)
LEMMA PartLonger ==
  ASSUME NEW s, NEW text, HasGiven(s, text), NEW from \in Nat, NEW n \in Nat,
         NEW more, more = text \o Tinfl!Part(from, n)
  PROVE  Len(more) = Len(text) + n
  <1> DEFINE t == Tinfl!Part(from, n)
             m == Len(text)
  <1>1. Len(t) = n /\ t = [k \in 1 .. n |-> t[k]]
    BY PartIs DEF IsText
  <1>2. m \in Nat /\ text = [k \in 1 .. m |-> text[k]] /\ more = text \o t
    BY DEF HasGiven, IsText
  <1> HIDE DEF t, m
  <1>3. text \o t = [k \in 1 .. m + n |-> IF k <= m THEN text[k] ELSE t[k - m]]
    BY <1>1, <1>2, Joined
  <1>4. Len(more) = m + n
    BY <1>2, <1>3
  <1> QED
    BY <1>4 DEF m

Lies(wraps, w, given, from, n) ==
  /\ given + n <= w /\ from = Place(wraps, given)
  /\ wraps => w - DictSize <= given /\ from + n <= DictSize
Shows(s, b, from, given, n) == \A k \in 1 .. n : b[from + k - 1] = Tinfl!Text(s)[given + k]

LEMMA PartHanded ==
  ASSUME NEW s, NEW wraps \in BOOLEAN, NEW b, NEW w \in Nat, Remembers(s, wraps, b, w),
         NEW given \in Nat, NEW n \in Nat, NEW from \in Nat, Lies(wraps, w, given, from, n)
  PROVE  Shows(s, b, from, given, n)
  <1>1. \A k \in 1 .. n : b[from + k - 1] = Tinfl!Text(s)[given + k]
    BY HandedOver DEF Lies
  <1> QED
    BY <1>1 DEF Shows

LEMMA PartAdds ==
  ASSUME NEW s \in Streams, NEW wraps \in BOOLEAN, NEW e, NEW w \in Nat, Reads(s, e),
         Tells(s, wraps, e, buf, w), NEW text, HasGiven(s, text), NEW from \in Nat, NEW n \in Nat,
         Lies(wraps, w, Len(text), from, n)
  PROVE  HasGiven(s, text \o Tinfl!Part(from, n))
  <1> DEFINE t == Tinfl!Part(from, n)
  <1>1. Len(t) = n /\ IsText(t) /\ \A k \in 1 .. n : t[k] = buf[from + k - 1]
    BY PartIs
  <1>2. Len(text) \in Nat /\ w \in Nat
    BY DEF HasGiven, IsText, Tells
  <1> HIDE DEF t
  <1>4. ASSUME Tinfl!Sound(s)
        PROVE  /\ Len(text) + Len(t) <= Len(Tinfl!Text(s))
               /\ \A k \in 1 .. Len(t) : t[k] = Tinfl!Text(s)[Len(text) + k]
    <2>1. w <= Len(Tinfl!Text(s)) /\ Len(Tinfl!Text(s)) \in Nat
      BY <1>4, TextBounds
    <2>2. Remembers(s, wraps, buf, w)
      BY <1>4 DEF Tells
    <2>3. Shows(s, buf, from, Len(text), n)
      BY <1>2, <2>2, PartHanded, Zenon
    <2>4. Len(text) + n <= Len(Tinfl!Text(s))
      BY <1>2, <2>1 DEF Lies
    <2> QED
      BY <1>1, <2>3, <2>4 DEF Shows
  <1>5. HasGiven(s, text \o t) /\ Len(text \o t) = Len(text) + Len(t)
    <2>1. Tinfl!Sound(s) => /\ Len(text) + Len(t) <= Len(Tinfl!Text(s))
                            /\ \A k \in 1 .. Len(t) : t[k] = Tinfl!Text(s)[Len(text) + k]
      BY <1>4
    <2>2. IsText(t)
      BY <1>1
    <2> QED
      BY <2>1, <2>2, MoreGiven
  <1> QED
    BY <1>5 DEF t

Gains(from, n) == delivered' = delivered \o Tinfl!Part(from, n)

LEMMA UserGets ==
  ASSUME stream \in Streams, call.wraps \in BOOLEAN, NEW w \in Nat, Reads(stream, r),
         Tells(stream, call.wraps, r, buf, w), HasGiven(stream, delivered),
         NEW from \in Nat, NEW n \in Nat, Lies(call.wraps, w, Len(delivered), from, n), Gains(from, n)
  PROVE  HasGiven(stream, delivered')
  <1>1. HasGiven(stream, delivered \o Tinfl!Part(from, n))
    BY PartAdds, Zenon
  <1>2. delivered' = delivered \o Tinfl!Part(from, n)
    BY DEF Gains
  <1> QED
    BY <1>1, <1>2

LEMMA UserGetsAll ==
  ASSUME HasGiven(stream, delivered), NEW from \in Nat, NEW n \in Nat, Gains(from, n)
  PROVE  Len(delivered') = Len(delivered) + n
  <1>1. delivered' = delivered \o Tinfl!Part(from, n)
    BY DEF Gains
  <1> QED
    BY <1>1, PartLonger, Zenon

-----------------------------------------------------------------------------
(* A caller that answers. *)
StateFields == {"ofs", "avail", "first", "flushed", "last", "flush", "in", "room"}
StateOK(s) ==
  /\ DOMAIN s = StateFields
  /\ s.avail \in 0 .. DictSize /\ s.ofs \in 0 .. DictSize - 1 /\ s.room \in Nat /\ s.in \in Nat

(* What is so when the user of mz_inflate may go on. *)
GoesOn(s, given) ==
  /\ ~s.first
  /\ s.last # "FAILED" =>
       /\ s.ofs = Tdefl!Cell(given) /\ (s.avail > 0 => s.ofs + s.avail <= DictSize)
       /\ DOMAIN buf = 0 .. DictSize - 1 /\ call.wraps /\ s.last \notin Tinfl!Failing
       /\ Tells(stream, call.wraps, r, buf, given + s.avail) /\ r.summed = given + s.avail
       /\ (s.last = "DONE" <=> status = "DONE") /\ (status = "DONE" => s.avail > 0)

LEMMA StateIs == InflateInv => StateOK(z)
  BY DEF InflateInv, Kinds, BufferGiven, StateOK, StateFields

LEMMA GivenSoFar == InflateInv => HasGiven(stream, delivered) /\ Len(delivered) \in Nat
  BY DEF InflateInv, TextGiven, HasGiven, IsText

LEMMA AnswerKeeps ==
  ASSUME InflateInv, pc \in {"user", "caller"}, NEW ans, Tinfl!Answer(ans), StateOK(z'),
         HasGiven(stream, delivered'), Len(delivered) <= Len(delivered'),
         ans = "STREAM_END" /\ Tinfl!Sound(stream) => Len(delivered') = Len(Tinfl!Text(stream)),
         client = "mz_inflate" /\ ans \notin {"STREAM_END", "DATA_ERROR", "STREAM_ERROR"} =>
           GoesOn(z', Len(delivered')),
         client = "mz_inflate" /\ ans = "OK" /\ z'.in > 0 /\ z'.room > 0 =>
           cur > before.cur \/ Len(delivered') > before.delivered
  PROVE  InflateInv'
  <1>1. /\ answer' = ans
        /\ pc' = (IF client # "mz_inflate" \/ ans \in {"STREAM_END", "DATA_ERROR", "STREAM_ERROR"}
                  THEN "over" ELSE "user")
        /\ stream' = stream /\ input' = input /\ client' = client /\ r' = r /\ cur' = cur
        /\ out' = out /\ buf' = buf /\ call' = call /\ status' = status /\ before' = before
    BY DEF Tinfl!Answer, Tinfl!inputVars
  <1>2. pc' \in {"user", "over"} /\ (pc' = "user" => client = "mz_inflate" /\ GoesOn(z', Len(delivered')))
        /\ (ans = "STREAM_END" => pc' = "over")
    BY <1>1
  <1>3. ~Calling' /\ (Going' => pc' = "user" /\ z'.last # "FAILED")
    BY <1>2 DEF Calling, Going
  <1>4. Kinds'
    BY <1>1, <1>2 DEF InflateInv, Kinds, StateOK, StateFields
  <1>5. BitsRead'
    <2>1. ~Tinfl!HasError(stream) => 8 * cur <= StreamEnd
      BY DEF InflateInv, BitsRead
    <2> QED
      BY <1>1, <1>2, <2>1 DEF InflateInv, BitsRead, StreamEnd
  <1>6. BufferGiven'
    <2>1. call.limit \in Nat /\ out \in 0 .. call.limit
      BY DEF InflateInv, BufferGiven
    <2>2. pc' = "user" /\ z'.last # "FAILED" =>
            /\ z'.ofs = Tdefl!Cell(Len(delivered'))
            /\ z'.avail > 0 => z'.ofs + z'.avail <= DictSize
            /\ DOMAIN buf = 0 .. DictSize - 1
      BY <1>2 DEF GoesOn
    <2> QED
      BY <1>1, <1>3, <2>1, <2>2 DEF BufferGiven, StateOK
  <1>7. TextSoFar'
    <2>1. pc' = "user" => Written' = Len(delivered') + z'.avail
      BY DEF Written
    <2>2. Going' => Tells(stream, call.wraps, r, buf, Written')
      BY <1>2, <1>3, <2>1 DEF GoesOn
    <2>3. pc' = "user" /\ z'.last # "FAILED" => r.summed = Written'
      BY <1>2, <2>1 DEF GoesOn
    <2> QED
      BY <1>1, <1>2, <2>2, <2>3 DEF TextSoFar
  <1>8. StatusSays'
    <2>1. pc' # "tinfl"
      BY <1>2
    <2> QED
      BY <1>1, <2>1 DEF InflateInv, StatusSays
  <1>9. UserStands'
    BY <1>1, <1>2 DEF UserStands, GoesOn
  <1>10. TextGiven'
    BY <1>1, <1>2 DEF TextGiven
  <1>11. CallGains'
    <2>1. before.cur \in Nat /\ before.delivered \in Nat /\ before.delivered <= Len(delivered)
      BY DEF InflateInv, CallGains
    <2>2. Len(delivered) \in Nat /\ Len(delivered') \in Nat
      BY GivenSoFar DEF HasGiven, IsText
    <2>3. before.delivered <= Len(delivered')
      BY <2>1, <2>2
    <2>4. Tinfl!CallAdvances'
      BY <1>1, <1>2 DEF Tinfl!CallAdvances
    <2> QED
      BY <1>1, <1>3, <2>1, <2>3, <2>4 DEF CallGains
  <1> QED
    BY <1>4, <1>5, <1>6, <1>7, <1>8, <1>9, <1>10, <1>11 DEF InflateInv

(* A caller that calls tinfl_decompress. *)
LEMMA CallKeeps ==
  ASSUME InflateInv, pc \in {"user", "caller"}, status # "DONE",
         NEW offered \in Nat, cur + offered <= input, NEW buffer, NEW next, NEW bound \in Nat,
         NEW wraps \in BOOLEAN, NEW more, Tinfl!Call(offered, buffer, next, bound, wraps, more),
         StateOK(z'), HasGiven(stream, delivered'),
         NEW w, w = IF wraps THEN Len(delivered') ELSE next,
         next \in 0 .. bound, DOMAIN buffer = 0 .. bound - 1,
         Tells(stream, wraps, r, buffer, w), r.summed = w,
         wraps => /\ bound = DictSize /\ next = Tdefl!Cell(Len(delivered'))
                  /\ z'.avail = 0 /\ z'.ofs = next /\ client \in {"mz_inflate", "mem_to_callback"},
         ~wraps => delivered' = <<>> /\ client # "mem_to_callback",
         client = "mz_inflate" => ~z'.first,
         before'.cur \in Nat, before'.delivered \in Nat, before'.delivered <= Len(delivered'),
         client = "mz_inflate" /\ wraps => cur + offered = before'.cur + z'.in
  PROVE  InflateInv'
  <1>1. /\ call' = [base |-> cur, end |-> cur + offered, next |-> next, limit |-> bound,
                    wraps |-> wraps, more |-> more]
        /\ buf' = buffer /\ out' = next /\ pc' = "tinfl"
        /\ stream' = stream /\ input' = input /\ client' = client /\ r' = r /\ cur' = cur
        /\ status' = status /\ answer' = answer
    BY DEF Tinfl!Call, Tinfl!inputVars
  <1>2. /\ call'.base = cur /\ call'.end = cur + offered /\ call'.next = next /\ call'.limit = bound
        /\ call'.wraps = wraps
    BY <1>1
  <1>3. Calling' /\ Going'
    BY <1>1 DEF Calling, Going
  <1>4. Len(delivered') \in Nat /\ next \in Nat /\ next - next = 0
    BY DEF HasGiven, IsText
  <1>5. Written' = w /\ w \in Nat
    <2>1. Written' = IF call'.wraps THEN Len(delivered') + (next - next) ELSE next
      <3>1. pc' # "user"
        BY <1>1
      <3> QED
        BY <1>1, <1>2, <3>1 DEF Written
    <2> QED
      BY <1>2, <1>4, <2>1
  <1>6. Kinds'
    BY <1>1, <1>2 DEF InflateInv, Kinds, StateOK, StateFields
  <1>7. BitsRead'
    <2>1. /\ Reads(stream, r) /\ cur \in Nat /\ r.pos <= 8 * cur /\ 8 * cur <= r.pos + 61
          /\ ~Tinfl!HasError(stream) => 8 * cur <= StreamEnd
      BY DEF InflateInv, BitsRead
    <2>2. cur + offered \in Nat /\ cur <= cur + offered /\ cur <= cur
      BY <2>1
    <2> QED
      BY <1>1, <1>2, <2>1, <2>2 DEF BitsRead, StreamEnd
  <1>8. BufferGiven'
    <2>1. Stands(call', Len(delivered'), next, buffer, w)
      <3>1. wraps => next - next = w - Len(delivered')
        BY <1>4
      <3> QED
        BY <1>2, <1>4, <3>1 DEF Stands
    <2>2. Stands(call, Len(delivered), out, buf, Written)'
      BY <1>1, <1>5, <2>1
    <2> QED
      BY <1>1, <1>2, <1>3, <2>2 DEF BufferGiven, StateOK
  <1>9. TextSoFar'
    <2>1. r.summed + (next - next) = w
      BY <1>4, <1>5
    <2> QED
      BY <1>1, <1>2, <1>5, <2>1 DEF TextSoFar
  <1>10. StatusSays'
    BY <1>1 DEF InflateInv, StatusSays
  <1>11. UserStands'
    BY <1>1 DEF UserStands
  <1>12. TextGiven'
    <2>1. answer # "STREAM_END"
      BY DEF InflateInv, TextGiven
    <2> QED
      BY <1>1, <2>1 DEF TextGiven
  <1>13. CallGains'
    BY <1>1, <1>2, <1>3 DEF CallGains, Tinfl!CallAdvances
  <1> QED
    BY <1>6, <1>7, <1>8, <1>9, <1>10, <1>11, <1>12, <1>13 DEF InflateInv

(* The user calls mz_inflate.  A use that is refused changes nothing, *)
LEMMA RefusedKeeps ==
  ASSUME InflateInv, pc = "user", delivered' = delivered, z' = [z EXCEPT !.first = FALSE],
         NEW ans \in {"DATA_ERROR", "STREAM_ERROR"}, Tinfl!Answer(ans)
  PROVE  InflateInv'
  <1>1. StateOK(z')
    BY StateIs DEF StateOK, StateFields
  <1>2. HasGiven(stream, delivered') /\ Len(delivered) <= Len(delivered')
    BY GivenSoFar
  <1> QED
    BY <1>1, <1>2, AnswerKeeps

(* the state is prepared for the others, *)
Prepared(s, flush, offered, room) ==
  s = [z EXCEPT !.first = FALSE, !.flush = flush, !.in = offered, !.room = room,
                !.flushed = @ \/ flush = "finish"]

LEMMA PreparedIs ==
  ASSUME StateOK(z), NEW s, NEW flush, NEW offered \in Nat, NEW room \in Nat,
         Prepared(s, flush, offered, room)
  PROVE  /\ StateOK(s) /\ ~s.first /\ s.in = offered /\ s.room = room /\ s.avail = z.avail
         /\ s.ofs = z.ofs /\ s.last = z.last
  BY DEF StateOK, StateFields, Prepared

(* and one that may go on finds the text so far in the dictionary. *)
LEMMA UserHas ==
  ASSUME InflateInv, pc = "user", client = "mz_inflate", NEW flush, Tinfl!Usable(flush)
  PROVE  /\ z.last # "FAILED" /\ z.last \notin Tinfl!Failing
         /\ z.ofs = Tdefl!Cell(Len(delivered)) /\ (z.avail > 0 => z.ofs + z.avail <= DictSize)
         /\ Tells(stream, call.wraps, r, buf, Len(delivered) + z.avail) /\ Reads(stream, r)
         /\ r.summed = Len(delivered) + z.avail /\ stream \in Streams
         /\ z.first => NotYetCalled
         /\ ~z.first => call.wraps /\ DOMAIN buf = 0 .. DictSize - 1
         /\ z.last = "DONE" <=> status = "DONE"
         /\ status = "DONE" => z.avail > 0
         /\ StateOK(z) /\ HasGiven(stream, delivered) /\ Len(delivered) \in Nat
  <1>1. z.last # "FAILED" /\ z.last \notin Tinfl!Failing
    BY DEF Tinfl!Usable, Tinfl!Failing
  <1>2. Going /\ Written = Len(delivered) + z.avail
    BY <1>1 DEF Going, Written
  <1>3. z.ofs = Tdefl!Cell(Len(delivered)) /\ (z.avail > 0 => z.ofs + z.avail <= DictSize)
        /\ (~z.first => DOMAIN buf = 0 .. DictSize - 1)
    BY <1>1 DEF InflateInv, BufferGiven
  <1>4. Tells(stream, call.wraps, r, buf, Len(delivered) + z.avail) /\ Reads(stream, r)
        /\ r.summed = Len(delivered) + z.avail /\ stream \in Streams
    BY <1>1, <1>2 DEF InflateInv, TextSoFar, BitsRead, Kinds
  <1>5. /\ z.first => NotYetCalled
        /\ ~z.first => call.wraps
        /\ z.last = "DONE" <=> status = "DONE"
        /\ status = "DONE" => z.avail > 0
    BY <1>1 DEF InflateInv, UserStands
  <1> QED
    BY <1>1, <1>3, <1>4, <1>5, StateIs, GivenSoFar

(* What is left in the dictionary is given first. *)
Drained(s, n) == z' = [s EXCEPT !.avail = @ - n, !.ofs = (@ + n) % DictSize]

LEMMA DrainKeeps ==
  ASSUME InflateInv, pc = "user", client = "mz_inflate", NEW flush, Tinfl!Usable(flush), z.avail > 0,
         NEW offered \in Nat, NEW room \in Nat, NEW s, Prepared(s, flush, offered, room),
         NEW n, n = Tinfl!Least(z.avail, room), Gains(z.ofs, n),
         Drained(s, n),
         Tinfl!Answer(IF z.last = "DONE" /\ n = z.avail THEN "STREAM_END" ELSE "OK")
  PROVE  InflateInv'
  <1> DEFINE given == Len(delivered)
             avail == z.avail
             ofs == z.ofs
             next == (ofs + n) % DictSize
             ans == IF z.last = "DONE" /\ n = avail THEN "STREAM_END" ELSE "OK"
  <1>1. /\ ofs = Tdefl!Cell(given) /\ ofs + avail <= DictSize
        /\ Tells(stream, call.wraps, r, buf, given + avail) /\ Reads(stream, r)
        /\ r.summed = given + avail /\ stream \in Streams /\ z.last \notin Tinfl!Failing
        /\ z.last = "DONE" <=> status = "DONE"
        /\ StateOK(z) /\ HasGiven(stream, delivered) /\ given \in Nat
    BY UserHas
  <1>2. call.wraps /\ DOMAIN buf = 0 .. DictSize - 1
    <2>1. ~z.first
      BY UserHas DEF NotYetCalled
    <2> QED
      BY <2>1, UserHas
  <1>3. /\ StateOK(s) /\ ~s.first /\ s.in = offered /\ s.room = room /\ s.avail = avail
        /\ s.ofs = ofs /\ s.last = z.last
    BY <1>1, PreparedIs
  <1>4. avail \in 1 .. DictSize /\ ofs \in 0 .. DictSize - 1 /\ DictSize \in Nat \ {0}
    BY <1>1, DeflateConstants DEF StateOK
  <1>5. n \in 0 .. avail /\ n <= room /\ (n < avail => n = room) /\ n \in Nat
    BY <1>4 DEF Tinfl!Least
  <1>6. next \in 0 .. DictSize - 1 /\ next = Tdefl!Cell(given + n) /\ (n < avail => next = ofs + n)
    <2> HIDE DEF given, avail, ofs
    <2>1. avail \in Nat /\ n <= avail
      BY <1>4, <1>5
    <2> QED
      BY <1>1, <1>4, <1>5, <2>1, PlaceMoves
  <1>7. /\ DOMAIN z' = StateFields /\ z'.avail = avail - n /\ z'.ofs = next /\ z'.first = s.first
        /\ z'.in = offered /\ z'.room = room /\ z'.last = z.last
    BY <1>3 DEF Drained, StateOK, StateFields
  <1> HIDE DEF next
  <1>8. StateOK(z')
    <2>1. avail - n \in 0 .. DictSize
      BY <1>4, <1>5
    <2> QED
      BY <1>6, <1>7, <2>1 DEF StateOK
  <1>9. HasGiven(stream, delivered') /\ Len(delivered') = given + n
    <2> DEFINE w == given + avail
    <2>1. w \in Nat /\ ofs \in Nat /\ given + n <= w
      BY <1>1, <1>4, <1>5
    <2>2. call.wraps => w - DictSize <= given /\ ofs + n <= DictSize
      BY <1>1, <1>4, <1>5
    <2>3. ofs = Place(call.wraps, given) /\ call.wraps \in BOOLEAN
      BY <1>1, <1>2 DEF Place, InflateInv, Kinds
    <2>3a. Lies(call.wraps, w, Len(delivered), ofs, n)
      BY <2>1, <2>2, <2>3 DEF Lies
    <2>4. Tells(stream, call.wraps, r, buf, w) /\ Reads(stream, r) /\ stream \in Streams
          /\ HasGiven(stream, delivered)
      BY <1>1
    <2>5. Gains(ofs, n) /\ n \in Nat
      BY <1>5
    <2> HIDE DEF ofs, w
    <2>6. HasGiven(stream, delivered')
      BY <2>1, <2>3, <2>3a, <2>4, <2>5, UserGets, Zenon
    <2>7. ofs \in Nat /\ HasGiven(stream, delivered)
      BY <2>1, <2>4
    <2>8. Len(delivered') = Len(delivered) + n
      BY <2>5, <2>7, UserGetsAll, Zenon
    <2> QED
      BY <2>6, <2>8
  <1>10. ans = "STREAM_END" /\ Tinfl!Sound(stream) => Len(delivered') = Len(Tinfl!Text(stream))
    <2> SUFFICES ASSUME z.last = "DONE", n = avail, Tinfl!Sound(stream)
                 PROVE  Len(delivered') = Len(Tinfl!Text(stream))
      OBVIOUS
    <2>1. r.i = Len(stream.fields) + 1 /\ HoldsNothing(r)
      BY <1>1 DEF InflateInv, StatusSays
    <2>2. given + avail = Len(Tinfl!Text(stream))
      BY <1>1, <2>1, TextBounds
    <2> QED
      BY <1>9, <2>2
  <1>11. ASSUME ans # "STREAM_END" PROVE GoesOn(z', Len(delivered'))
    <2>1. Len(delivered') = given + n /\ (given + n) + (avail - n) = given + avail
      BY <1>1, <1>4, <1>5, <1>9
    <2>2. avail - n > 0 => next + (avail - n) <= DictSize
      BY <1>1, <1>4, <1>5, <1>6
    <2>3. status = "DONE" => avail - n > 0
      BY <1>1, <1>4, <1>5, <1>11
    <2>4. z'.last \notin Tinfl!Failing /\ z'.ofs = Tdefl!Cell(Len(delivered')) /\ ~z'.first
      BY <1>1, <1>3, <1>6, <1>7, <2>1
    <2>5. Tells(stream, call.wraps, r, buf, Len(delivered') + z'.avail)
          /\ r.summed = Len(delivered') + z'.avail
      BY <1>1, <1>7, <2>1
    <2> HIDE DEF avail
    <2> QED
      BY <1>1, <1>2, <1>7, <2>2, <2>3, <2>4, <2>5 DEF GoesOn
  <1>12. z'.room > 0 => Len(delivered') > before.delivered
    <2>1. before.delivered \in Nat /\ before.delivered <= given
      BY DEF InflateInv, CallGains
    <2>2. room > 0 => n > 0
      BY <1>4, <1>5
    <2> QED
      BY <1>1, <1>5, <1>7, <1>9, <2>1, <2>2
  <1>13. given <= Len(delivered')
    BY <1>1, <1>5, <1>9
  <1>14. Tinfl!Answer(ans) /\ pc \in {"user", "caller"}
    OBVIOUS
  <1> HIDE DEF ans
  <1> QED
    BY <1>8, <1>9, <1>10, <1>11, <1>12, <1>13, <1>14, AnswerKeeps

(* On the first call MZ_FINISH lets it decompress into the user's room; *)
LEMMA ZeroesAre ==
  ASSUME NEW n \in Nat
  PROVE  DOMAIN Tinfl!Zeroes(n) = 0 .. n - 1
  BY DEF Tinfl!Zeroes

UserNoted == before' = [cur |-> cur, delivered |-> Len(delivered)]

LEMMA FirstKeeps ==
  ASSUME InflateInv, pc = "user", client = "mz_inflate", z.first, NEW flush,
         NEW offered \in Nat, cur + offered <= input, NEW room \in Nat,
         NEW s, Prepared(s, flush, offered, room), z' = s, delivered' = delivered, UserNoted,
         Tinfl!Call(offered, Tinfl!Zeroes(room), 0, room, FALSE, FALSE)
  PROVE  InflateInv'
  <1>1. NotYetCalled /\ stream \in Streams /\ cur \in Nat
    BY DEF InflateInv, UserStands, Kinds, BitsRead
  <1>2. status # "DONE" /\ delivered = <<>> /\ Len(delivered) = 0 /\ r = Tinfl!Fresh
    BY <1>1 DEF NotYetCalled
  <1>3. StateOK(s) /\ ~s.first
    BY StateIs, PreparedIs
  <1>4. HasGiven(stream, delivered')
    BY GivenSoFar
  <1>5. r.summed = 0
    BY <1>2 DEF Tinfl!Fresh
  <1>6. Tells(stream, FALSE, r, Tinfl!Zeroes(room), 0)
    BY <1>1, <1>2, FreshTells
  <1>7. DOMAIN Tinfl!Zeroes(room) = 0 .. room - 1
    BY ZeroesAre
  <1>8. before'.cur = cur /\ before'.delivered = 0
    BY <1>2 DEF UserNoted
  <1>9. 0 \in 0 .. room /\ FALSE \in BOOLEAN /\ Len(delivered') = 0 /\ delivered' = <<>>
    BY <1>2
  <1>10. pc \in {"user", "caller"} /\ client # "mem_to_callback"
    OBVIOUS
  <1>11. StateOK(z') /\ ~z'.first
    BY <1>3
  <1>12. before'.cur \in Nat /\ before'.delivered \in Nat /\ before'.delivered <= Len(delivered')
    BY <1>1, <1>8, <1>9
  <1> QED
    BY <1>2, <1>4, <1>5, <1>6, <1>7, <1>9, <1>10, <1>11, <1>12, CallKeeps

(* else it goes on in the dictionary. *)
LEMMA DictIs ==
  ASSUME DOMAIN buf = 0 .. DictSize - 1
  PROVE  Tinfl!DictBuffer = buf
  <1>1. 0 \in DOMAIN buf
    BY DeflateConstants
  <1>2. DOMAIN <<>> = {}
    OBVIOUS
  <1>3. buf # <<>>
    BY <1>1, <1>2
  <1> QED
    BY <1>3 DEF Tinfl!DictBuffer

LEMMA AgainKeeps ==
  ASSUME InflateInv, pc = "user", client = "mz_inflate", z.avail = 0, NEW flush, Tinfl!Usable(flush),
         NEW offered \in Nat, cur + offered <= input, NEW room \in Nat,
         NEW s, Prepared(s, flush, offered, room), z' = s, delivered' = delivered, UserNoted,
         NEW more, Tinfl!Call(offered, Tinfl!DictBuffer, z.ofs, DictSize, TRUE, more)
  PROVE  InflateInv'
  <1> DEFINE given == Len(delivered)
  <1>1. /\ stream \in Streams /\ cur \in Nat /\ StateOK(z)
        /\ HasGiven(stream, delivered) /\ given \in Nat
    BY StateIs, GivenSoFar DEF InflateInv, Kinds, BitsRead
  <1>2. /\ z.ofs = Tdefl!Cell(given) /\ r.summed = given + z.avail
        /\ Tells(stream, call.wraps, r, buf, given + z.avail)
        /\ z.first => NotYetCalled
        /\ ~z.first => call.wraps /\ DOMAIN buf = 0 .. DictSize - 1
        /\ status = "DONE" => z.avail > 0
    BY UserHas
  <1>3. given + z.avail = given /\ status # "DONE"
    BY <1>1, <1>2
  <1>4. /\ DOMAIN Tinfl!DictBuffer = 0 .. DictSize - 1
        /\ Tells(stream, TRUE, r, Tinfl!DictBuffer, given)
    <2>1. CASE z.first
      <3>1. NotYetCalled
        BY <1>2, <2>1
      <3>2. buf = <<>> /\ r = Tinfl!Fresh /\ given = 0
        BY <3>1 DEF NotYetCalled
      <3>3. Tinfl!DictBuffer = Tinfl!Zeroes(DictSize)
        BY <3>2 DEF Tinfl!DictBuffer
      <3>4. DOMAIN Tinfl!Zeroes(DictSize) = 0 .. DictSize - 1
        BY ZeroesAre, DeflateConstants
      <3>5. Tells(stream, TRUE, r, Tinfl!Zeroes(DictSize), 0)
        BY <1>1, <3>2, FreshTells
      <3> HIDE DEF given
      <3> QED
        BY <3>2, <3>3, <3>4, <3>5
    <2>2. CASE ~z.first
      <3>1. call.wraps /\ DOMAIN buf = 0 .. DictSize - 1 /\ call.wraps \in BOOLEAN
        BY <1>2, <2>2 DEF InflateInv, Kinds
      <3>2. call.wraps = TRUE
        BY <3>1
      <3>3. Tinfl!DictBuffer = buf
        BY <3>1, DictIs
      <3> QED
        BY <1>2, <1>3, <3>1, <3>2, <3>3
    <2> QED
      BY <2>1, <2>2
  <1>5. StateOK(s) /\ ~s.first /\ s.in = offered /\ s.avail = z.avail /\ s.ofs = z.ofs
    BY <1>1, PreparedIs
  <1>6. z.ofs \in 0 .. DictSize /\ DictSize \in Nat
    BY <1>1, DeflateConstants DEF StateOK
  <1>7. before'.cur = cur /\ before'.delivered = given
    BY DEF UserNoted
  <1>8. pc \in {"user", "caller"} /\ TRUE \in BOOLEAN /\ Len(delivered') = given
    OBVIOUS
  <1>9. HasGiven(stream, delivered')
    BY <1>1
  <1>10. z'.avail = 0 /\ z'.ofs = z.ofs /\ ~z'.first /\ z'.in = offered /\ StateOK(z')
    BY <1>5
  <1>11. r.summed = given /\ before'.cur \in Nat /\ before'.delivered \in Nat
         /\ before'.delivered <= Len(delivered') /\ cur + offered = before'.cur + z'.in
    BY <1>1, <1>2, <1>3, <1>7, <1>8, <1>10
  <1>12. z.ofs = Tdefl!Cell(Len(delivered')) /\ Tells(stream, TRUE, r, Tinfl!DictBuffer, Len(delivered'))
         /\ r.summed = Len(delivered')
    BY <1>2, <1>4, <1>8, <1>11
  <1> QED
    BY <1>3, <1>4, <1>6, <1>8, <1>9, <1>10, <1>11, <1>12, CallKeeps

LEMMA InflatesKeeps ==
  ASSUME InflateInv, NEW flush, NEW offered \in Nat, NEW room \in Nat,
         Tinfl!mz_inflate(flush, offered, room)
  PROVE  InflateInv'
  <1> DEFINE s == [z EXCEPT !.first = FALSE, !.flush = flush, !.in = offered, !.room = room,
                            !.flushed = @ \/ flush = "finish"]
             n == Tinfl!Least(z.avail, room)
             no == IF z.last \in Tinfl!Failing THEN "DATA_ERROR" ELSE "STREAM_ERROR"
             ok == IF z.last = "DONE" /\ n = z.avail THEN "STREAM_END" ELSE "OK"
  <1>1. pc = "user" /\ client = "mz_inflate" /\ offered <= input - cur
    BY DEF Tinfl!mz_inflate
  <1>2. \/ z' = [z EXCEPT !.first = FALSE] /\ delivered' = delivered /\ Tinfl!Answer(no)
        \/ z.first /\ z' = s /\ delivered' = delivered /\ UserNoted
           /\ Tinfl!Call(offered, Tinfl!Zeroes(room), 0, room, FALSE, FALSE)
        \/ Tinfl!Usable(flush) /\ z.avail > 0 /\ Gains(z.ofs, n) /\ Drained(s, n) /\ Tinfl!Answer(ok)
        \/ Tinfl!Usable(flush) /\ z.avail = 0 /\ z' = s /\ delivered' = delivered /\ UserNoted
           /\ Tinfl!Call(offered, Tinfl!DictBuffer, z.ofs, DictSize, TRUE, flush # "finish")
    BY DEF Tinfl!mz_inflate, Gains, Drained, UserNoted
  <1>3. cur + offered <= input
    BY <1>1 DEF InflateInv, BitsRead, Kinds
  <1>4. Prepared(s, flush, offered, room)
    BY DEF Prepared
  <1>5. no \in {"DATA_ERROR", "STREAM_ERROR"}
    OBVIOUS
  <1>6. ASSUME z' = [z EXCEPT !.first = FALSE], delivered' = delivered, Tinfl!Answer(no)
        PROVE  InflateInv'
    <2> HIDE DEF no
    <2> QED
      BY <1>1, <1>5, <1>6, RefusedKeeps
  <1> HIDE DEF s
  <1>7. CASE z.first /\ z' = s /\ delivered' = delivered /\ UserNoted
             /\ Tinfl!Call(offered, Tinfl!Zeroes(room), 0, room, FALSE, FALSE)
    BY <1>1, <1>3, <1>4, <1>7, FirstKeeps, Zenon
  <1>8. CASE Tinfl!Usable(flush) /\ z.avail > 0 /\ Gains(z.ofs, n) /\ Drained(s, n) /\ Tinfl!Answer(ok)
    <2>1. n = Tinfl!Least(z.avail, room)
      OBVIOUS
    <2> HIDE DEF n
    <2> QED
      BY <1>1, <1>4, <1>8, <2>1, DrainKeeps
  <1>9. CASE Tinfl!Usable(flush) /\ z.avail = 0 /\ z' = s /\ delivered' = delivered /\ UserNoted
             /\ Tinfl!Call(offered, Tinfl!DictBuffer, z.ofs, DictSize, TRUE, flush # "finish")
    <2> DEFINE more == flush # "finish"
    <2>1. Tinfl!Call(offered, Tinfl!DictBuffer, z.ofs, DictSize, TRUE, more)
      BY <1>9
    <2> HIDE DEF more
    <2> QED
      BY <1>1, <1>3, <1>4, <1>9, <2>1, AgainKeeps
  <1> QED
    BY <1>2, <1>6, <1>7, <1>8, <1>9

LEMMA InflateUserKeeps ==
  ASSUME InflateInv, Tinfl!UserCalls
  PROVE  InflateInv'
  <1>1. cur \in Nat /\ input \in Nat /\ cur <= input
    BY DEF InflateInv, BitsRead, Kinds
  <1>2. ASSUME NEW flush, NEW room \in TextRooms, NEW offered, offered \in Chunks \cup {input - cur},
               Tinfl!mz_inflate(flush, offered, room)
        PROVE  InflateInv'
    <2>1. room \in Nat /\ offered \in Nat
      BY <1>1, <1>2, InflateConstants
    <2> QED
      BY <1>2, <2>1, InflatesKeeps
  <1> QED
    BY <1>2 DEF Tinfl!UserCalls

(* What a caller finds when tinfl_decompress returned. *)
LEMMA CallerHas ==
  ASSUME InflateInv, pc = "caller"
  PROVE  /\ stream \in Streams /\ call.wraps \in BOOLEAN /\ Reads(stream, r) /\ Written \in Nat
         /\ Tells(stream, call.wraps, r, buf, Written)
         /\ Stands(call, Len(delivered), out, buf, Written)
         /\ StateOK(z) /\ HasGiven(stream, delivered) /\ Len(delivered) \in Nat
         /\ status \notin Tinfl!Failing => r.summed = Written
         /\ status = "DONE" => r.i = Len(stream.fields) + 1 /\ HoldsNothing(r)
         /\ call.wraps => z.avail = 0 /\ z.ofs = call.next /\ client \in {"mz_inflate", "mem_to_callback"}
         /\ ~call.wraps => delivered = <<>> /\ client # "mem_to_callback"
         /\ client = "mz_inflate" => ~z.first
  <1>1. Calling /\ Going
    BY DEF Calling, Going
  <1>2. stream \in Streams /\ call.wraps \in BOOLEAN /\ Reads(stream, r)
    BY DEF InflateInv, Kinds, BitsRead
  <1>3. Tells(stream, call.wraps, r, buf, Written) /\ (status \notin Tinfl!Failing => r.summed = Written)
    BY <1>1 DEF InflateInv, TextSoFar
  <1>4. Written \in Nat
    BY <1>3 DEF Tells
  <1>5. /\ Stands(call, Len(delivered), out, buf, Written)
        /\ call.wraps => z.avail = 0 /\ z.ofs = call.next /\ client \in {"mz_inflate", "mem_to_callback"}
        /\ ~call.wraps => delivered = <<>> /\ client # "mem_to_callback"
        /\ client = "mz_inflate" => ~z.first
    BY <1>1 DEF InflateInv, BufferGiven
  <1>6. status = "DONE" => r.i = Len(stream.fields) + 1 /\ HoldsNothing(r)
    BY DEF InflateInv, StatusSays
  <1> QED
    BY <1>2, <1>3, <1>4, <1>5, <1>6, StateIs, GivenSoFar

(* A buffer of its own holds the text from its start, all of it at the end. *)
LEMMA NothingFirst ==
  ASSUME NEW t, IsText(t)
  PROVE  <<>> \o t = t
  <1> DEFINE n == Len(t)
  <1>1. n \in Nat /\ t = [k \in 1 .. n |-> t[k]]
    BY DEF IsText
  <1> HIDE DEF n
  <1>2. <<>> = [k \in 1 .. 0 |-> <<>>[k]] /\ 0 \in Nat
    OBVIOUS
  <1>3. <<>> \o t = [k \in 1 .. 0 + n |-> IF k <= 0 THEN <<>>[k] ELSE t[k - 0]]
    BY <1>1, <1>2, Joined
  <1>4. 0 + n = n /\ \A k \in 1 .. n : ~(k <= 0) /\ k - 0 = k
    BY <1>1
  <1>5. <<>> \o t = [k \in 1 .. n |-> t[k]]
    BY <1>3, <1>4
  <1> QED
    BY <1>1, <1>5

LEMMA WholeGiven ==
  ASSUME InflateInv, pc = "caller", ~call.wraps
  PROVE  /\ HasGiven(stream, Tinfl!Part(0, out)) /\ Len(Tinfl!Part(0, out)) = out /\ out \in Nat
         /\ status = "DONE" /\ Tinfl!Sound(stream) => out = Len(Tinfl!Text(stream))
  <1> DEFINE t == Tinfl!Part(0, out)
  <1>1. /\ stream \in Streams /\ call.wraps \in BOOLEAN /\ Reads(stream, r) /\ Written \in Nat
        /\ Tells(stream, call.wraps, r, buf, Written)
        /\ HasGiven(stream, delivered) /\ delivered = <<>>
        /\ status = "DONE" => r.i = Len(stream.fields) + 1 /\ HoldsNothing(r)
    BY CallerHas
  <1>2. out = Written /\ out \in Nat
    <2>1. Stands(call, Len(delivered), out, buf, Written)
      BY CallerHas
    <2> QED
      BY <1>1, <2>1 DEF Stands
  <1>3. Lies(call.wraps, Written, Len(delivered), 0, out)
    <2>1. Len(delivered) = 0
      BY <1>1
    <2>2. Place(call.wraps, 0) = 0
      BY DEF Place
    <2> QED
      BY <1>2, <2>1, <2>2 DEF Lies
  <1>4. HasGiven(stream, delivered \o t)
    BY <1>1, <1>2, <1>3, PartAdds, Zenon
  <1>5. Len(t) = out /\ IsText(t)
    BY <1>2, PartIs
  <1> HIDE DEF t
  <1>6. delivered \o t = t
    BY <1>1, <1>5, NothingFirst
  <1>7. ASSUME status = "DONE", Tinfl!Sound(stream) PROVE out = Len(Tinfl!Text(stream))
    BY <1>1, <1>2, <1>7, TextBounds
  <1> QED
    BY <1>2, <1>4, <1>5, <1>6, <1>7 DEF t

(* The answer to MZ_FINISH on the first call. *)
Ended(s, st) == s = [z EXCEPT !.last = st]

LEMMA EndedIs ==
  ASSUME StateOK(z), NEW s, NEW st, Ended(s, st)
  PROVE  StateOK(s) /\ s.first = z.first /\ s.last = st
  BY DEF StateOK, StateFields, Ended

LEMMA FirstFinishKeeps ==
  ASSUME InflateInv, Tinfl!FirstFinish
  PROVE  InflateInv'
  <1> DEFINE last == IF status = "DONE" THEN status ELSE "FAILED"
             ans == CASE status = "DONE" -> "STREAM_END" [] status \in Tinfl!Failing -> "DATA_ERROR"
                    [] OTHER -> "BUF_ERROR"
  <1>1. pc = "caller" /\ client = "mz_inflate" /\ ~call.wraps /\ delivered' = Tinfl!Part(0, out)
        /\ Ended(z', last) /\ Tinfl!Answer(ans)
    BY DEF Tinfl!FirstFinish, Ended
  <1>2. /\ HasGiven(stream, Tinfl!Part(0, out)) /\ Len(Tinfl!Part(0, out)) = out /\ out \in Nat
        /\ status = "DONE" /\ Tinfl!Sound(stream) => out = Len(Tinfl!Text(stream))
    BY <1>1, WholeGiven
  <1>3. StateOK(z) /\ ~z.first /\ delivered = <<>>
    BY <1>1, CallerHas
  <1>4. StateOK(z') /\ ~z'.first /\ z'.last = last
    BY <1>1, <1>3, EndedIs DEF Ended
  <1>5. HasGiven(stream, delivered') /\ Len(delivered') = out /\ Len(delivered) <= Len(delivered')
    <2>1. Len(delivered) = 0
      BY <1>3
    <2> QED
      BY <1>1, <1>2, <2>1
  <1>6. ans \in {"STREAM_END", "DATA_ERROR", "BUF_ERROR"} /\ (ans = "STREAM_END" <=> status = "DONE")
    BY DEF Tinfl!Failing
  <1>7. ans = "STREAM_END" /\ Tinfl!Sound(stream) => Len(delivered') = Len(Tinfl!Text(stream))
    BY <1>2, <1>5, <1>6
  <1>8. ASSUME ans \notin {"STREAM_END", "DATA_ERROR", "STREAM_ERROR"} PROVE GoesOn(z', Len(delivered'))
    <2>1. z'.last = "FAILED"
      BY <1>4, <1>6, <1>8
    <2> QED
      BY <1>4, <2>1 DEF GoesOn
  <1>9. ans # "OK" /\ pc \in {"user", "caller"}
    BY <1>1, <1>6
  <1> HIDE DEF ans
  <1> QED
    BY <1>1, <1>4, <1>5, <1>7, <1>8, <1>9, AnswerKeeps

(* The loop of mz_inflate: what was produced is given, as far as there is room. *)
Looped(s, n) ==
  s = [z EXCEPT !.last = status, !.avail = (out - call.next) - n,
                !.ofs = (call.next + n) % DictSize, !.room = @ - n]

LEMMA LoopedIs ==
  ASSUME StateOK(z), NEW s, NEW n, Looped(s, n)
  PROVE  /\ DOMAIN s = StateFields /\ s.last = status /\ s.avail = (out - call.next) - n
         /\ s.ofs = (call.next + n) % DictSize /\ s.room = z.room - n /\ s.in = z.in /\ s.first = z.first
  BY DEF StateOK, StateFields, Looped

LEMMA ProducedIs ==
  ASSUME InflateInv, pc = "caller", call.wraps
  PROVE  /\ out - call.next \in Nat /\ Written = Len(delivered) + (out - call.next)
         /\ call.next \in 0 .. DictSize - 1 /\ call.next = Tdefl!Cell(Len(delivered))
         /\ call.next + (out - call.next) = out /\ out <= DictSize /\ out \in Nat
         /\ DOMAIN buf = 0 .. DictSize - 1 /\ call.limit = DictSize
  <1> DEFINE given == Len(delivered)
             next == call.next
  <1>1. Stands(call, given, out, buf, Written) /\ given \in Nat /\ Written \in Nat
    BY CallerHas
  <1>2. /\ call.limit = DictSize /\ out \in 0 .. DictSize /\ next \in 0 .. out
        /\ next = Tdefl!Cell(given) /\ out - next = Written - given /\ DOMAIN buf = 0 .. DictSize - 1
    BY <1>1 DEF Stands
  <1>3. given \in Int
    BY <1>1
  <1>4. Tdefl!Cell(given) \in 0 .. DictSize - 1
    BY <1>3, Cells
  <1> HIDE DEF given, next
  <1>5. out - next \in Nat /\ next + (out - next) = out /\ out <= DictSize /\ out \in Nat
        /\ Written = given + (out - next)
    BY <1>1, <1>2, DeflateConstants
  <1> QED
    BY <1>2, <1>4, <1>5 DEF given, next

LEMMA LoopHas ==
  ASSUME InflateInv, pc = "caller", call.wraps, NEW n, n = Tinfl!Given(out - call.next, z.room),
         NEW s, Looped(s, n), z' = s, Gains(call.next, n)
  PROVE  /\ StateOK(z') /\ z'.first = z.first /\ z'.last = status /\ z'.in = z.in
         /\ HasGiven(stream, delivered') /\ Len(delivered) <= Len(delivered')
         /\ z'.ofs = Tdefl!Cell(Len(delivered'))
         /\ z'.avail > 0 => z'.ofs + z'.avail <= DictSize /\ z'.room = 0
         /\ Written = Len(delivered') + z'.avail
  <1> DEFINE given == Len(delivered)
             next == call.next
             produced == out - call.next
             to == (next + n) % DictSize
  <1>1. /\ stream \in Streams /\ call.wraps \in BOOLEAN /\ Reads(stream, r) /\ Written \in Nat
        /\ Tells(stream, call.wraps, r, buf, Written) /\ StateOK(z)
        /\ HasGiven(stream, delivered) /\ given \in Nat
    BY CallerHas
  <1>2. /\ produced \in Nat /\ Written = given + produced /\ next \in 0 .. DictSize - 1
        /\ next = Tdefl!Cell(given) /\ next + produced <= DictSize /\ DictSize \in Nat
    <2>1. next + produced = out /\ out <= DictSize
      BY ProducedIs
    <2> QED
      BY <2>1, ProducedIs, DeflateConstants
  <1> HIDE DEF produced
  <1>3. n \in Nat /\ n <= produced /\ n <= z.room /\ (n < produced => n = z.room) /\ z.room \in Nat
    BY <1>1, <1>2 DEF Tinfl!Given, Tinfl!Least, produced, StateOK
  <1>4. /\ DOMAIN s = StateFields /\ s.last = status /\ s.avail = produced - n
        /\ s.ofs = to /\ s.room = z.room - n /\ s.in = z.in /\ s.first = z.first
    BY <1>1, LoopedIs DEF produced
  <1>5. to \in 0 .. DictSize - 1 /\ to = Tdefl!Cell(given + n) /\ (n < produced => to = next + n)
    <2> HIDE DEF next, given
    <2> QED
      BY <1>1, <1>2, <1>3, PlaceMoves, ZenonT(60)
  <1> HIDE DEF to
  <1>6. s.avail \in 0 .. DictSize /\ s.room \in Nat /\ s.in \in Nat
    <2>1. produced - n \in 0 .. DictSize
      <3> HIDE DEF next
      <3> QED
        BY <1>2, <1>3
    <2>2. z.room - n \in Nat /\ z.in \in Nat
      BY <1>1, <1>3 DEF StateOK
    <2> QED
      BY <1>4, <2>1, <2>2
  <1>7. StateOK(z')
    BY <1>4, <1>5, <1>6 DEF StateOK
  <1>8. Lies(call.wraps, Written, Len(delivered), next, n)
    <2>1. given + n <= Written /\ Written - DictSize <= given /\ next + n <= DictSize
      <3> HIDE DEF next, given
      <3> QED
        BY <1>1, <1>2, <1>3
    <2>2. next = Place(call.wraps, given)
      BY <1>2 DEF Place
    <2> QED
      BY <2>1, <2>2 DEF Lies
  <1>9. next \in Nat /\ Gains(next, n)
    BY <1>2
  <1>10. HasGiven(stream, delivered') /\ Len(delivered') = Len(delivered) + n
    <2>1. HasGiven(stream, delivered')
      BY <1>1, <1>3, <1>8, <1>9, UserGets, Zenon
    <2>2. Len(delivered') = Len(delivered) + n
      BY <1>1, <1>3, <1>9, UserGetsAll, Zenon
    <2> QED
      BY <2>1, <2>2
  <1>11. Len(delivered) <= Len(delivered')
    BY <1>1, <1>3, <1>10
  <1>12. ASSUME z'.avail > 0 PROVE z'.ofs + z'.avail <= DictSize /\ z'.room = 0
    <2>1. n < produced
      BY <1>2, <1>3, <1>4, <1>12
    <2> HIDE DEF next
    <2> QED
      BY <1>2, <1>3, <1>4, <1>5, <2>1
  <1>13. Written = Len(delivered') + z'.avail
    <2>1. z'.avail = produced - n /\ Len(delivered') = given + n
      BY <1>4, <1>10
    <2> HIDE DEF given
    <2> QED
      BY <1>1, <1>2, <1>3, <2>1
  <1> QED
    BY <1>4, <1>5, <1>7, <1>10, <1>11, <1>12, <1>13

LEMMA LoopAnswers ==
  ASSUME InflateInv, pc = "caller", client = "mz_inflate", call.wraps,
         NEW n, n = Tinfl!Given(out - call.next, z.room), NEW s, Looped(s, n), z' = s,
         Gains(call.next, n), NEW ans, Tinfl!Answer(ans),
         ans # "DATA_ERROR" => status \notin Tinfl!Failing,
         ans = "STREAM_END" => status = "DONE" /\ s.avail = 0,
         ans \in {"OK", "BUF_ERROR"} /\ status = "DONE" => s.avail > 0,
         ans \in {"OK", "BUF_ERROR", "STREAM_END", "DATA_ERROR"},
         ans = "OK" => status = "DONE" \/ call.end - cur = 0 \/ s.room = 0 \/ s.avail > 0
  PROVE  InflateInv'
  <1>1. /\ StateOK(z') /\ z'.first = z.first /\ z'.last = status /\ z'.in = z.in
        /\ HasGiven(stream, delivered') /\ Len(delivered) <= Len(delivered')
        /\ z'.ofs = Tdefl!Cell(Len(delivered'))
        /\ z'.avail > 0 => z'.ofs + z'.avail <= DictSize /\ z'.room = 0
        /\ Written = Len(delivered') + z'.avail
    BY LoopHas
  <1>2. /\ stream \in Streams /\ Reads(stream, r) /\ Written \in Nat
        /\ Tells(stream, call.wraps, r, buf, Written)
        /\ status \notin Tinfl!Failing => r.summed = Written
        /\ status = "DONE" => r.i = Len(stream.fields) + 1 /\ HoldsNothing(r)
        /\ ~z.first
    BY CallerHas
  <1>3. DOMAIN buf = 0 .. DictSize - 1
    BY ProducedIs
  <1>4. ans = "STREAM_END" /\ Tinfl!Sound(stream) => Len(delivered') = Len(Tinfl!Text(stream))
    <2> SUFFICES ASSUME ans = "STREAM_END", Tinfl!Sound(stream)
                 PROVE  Len(delivered') = Len(Tinfl!Text(stream))
      OBVIOUS
    <2>1. status = "DONE" /\ z'.avail = 0
      BY <1>1
    <2>2. r.i = Len(stream.fields) + 1 /\ HoldsNothing(r)
      BY <1>2, <2>1
    <2>3. Written = Len(Tinfl!Text(stream))
      BY <1>2, <2>2, TextBounds
    <2>4. Len(delivered') \in Nat
      BY <1>1 DEF HasGiven, IsText
    <2> QED
      BY <1>1, <2>1, <2>3, <2>4
  <1>5. ASSUME ans \notin {"STREAM_END", "DATA_ERROR", "STREAM_ERROR"} PROVE GoesOn(z', Len(delivered'))
    <2>1. ans \in {"OK", "BUF_ERROR"} /\ status \notin Tinfl!Failing
      BY <1>5
    <2>2. status = "DONE" => z'.avail > 0
      BY <2>1
    <2>3. z'.last \notin Tinfl!Failing /\ (z'.last = "DONE" <=> status = "DONE") /\ ~z'.first
      BY <1>1, <1>2, <2>1
    <2>4. Tells(stream, call.wraps, r, buf, Len(delivered') + z'.avail)
          /\ r.summed = Len(delivered') + z'.avail
      BY <1>1, <1>2, <2>1
    <2>5. z'.ofs = Tdefl!Cell(Len(delivered')) /\ (z'.avail > 0 => z'.ofs + z'.avail <= DictSize)
      BY <1>1
    <2> QED
      BY <1>3, <2>2, <2>3, <2>4, <2>5 DEF GoesOn
  <1>6. ASSUME ans = "OK", z'.in > 0, z'.room > 0 PROVE cur > before.cur
    <2>1. ~(z'.avail > 0)
      BY <1>1, <1>6
    <2>2. status # "DONE" /\ z'.room # 0
      BY <1>6, <2>1
    <2>3. call.end - cur = 0
      BY <1>6, <2>1, <2>2
    <2>4. call.end = before.cur + z.in /\ before.cur \in Nat /\ call.end \in Nat /\ cur \in Nat
      BY DEF InflateInv, CallGains, Calling, BitsRead
    <2>5. z.in \in Nat /\ z.in > 0
      BY <1>1, <1>6 DEF StateOK
    <2> QED
      BY <2>3, <2>4, <2>5
  <1> QED
    BY <1>1, <1>4, <1>5, <1>6, AnswerKeeps

LEMMA LoopCalls ==
  ASSUME InflateInv, pc = "caller", client = "mz_inflate", call.wraps,
         NEW n, n = Tinfl!Given(out - call.next, z.room), NEW s, Looped(s, n), z' = s,
         Gains(call.next, n), before' = before, status \notin Tinfl!Failing, status # "DONE",
         s.room > 0 \/ s.avail = 0,
         NEW more, Tinfl!Call(call.end - cur, buf, s.ofs, DictSize, TRUE, more)
  PROVE  InflateInv'
  <1> DEFINE left == call.end - cur
             next == s.ofs
  <1>1. /\ StateOK(z') /\ z'.first = z.first /\ z'.last = status /\ z'.in = z.in
        /\ HasGiven(stream, delivered') /\ Len(delivered) <= Len(delivered')
        /\ z'.ofs = Tdefl!Cell(Len(delivered'))
        /\ z'.avail > 0 => z'.ofs + z'.avail <= DictSize /\ z'.room = 0
        /\ Written = Len(delivered') + z'.avail
    BY LoopHas
  <1>2. Tells(stream, call.wraps, r, buf, Written) /\ r.summed = Written /\ ~z.first
        /\ call.wraps \in BOOLEAN /\ Len(delivered) \in Nat
    BY CallerHas
  <1>3. DOMAIN buf = 0 .. DictSize - 1 /\ DictSize \in Nat
    BY ProducedIs, DeflateConstants
  <1>4. z'.avail = 0
    <2>1. z'.avail \in Nat
      BY <1>1 DEF StateOK
    <2> QED
      BY <1>1, <2>1
  <1>5. Len(delivered') \in Nat
    BY <1>1 DEF HasGiven, IsText
  <1>6. Written = Len(delivered')
    BY <1>1, <1>4, <1>5
  <1>7. Tells(stream, TRUE, r, buf, Len(delivered')) /\ r.summed = Len(delivered')
    <2>1. call.wraps = TRUE
      BY <1>2
    <2> QED
      BY <1>2, <1>6, <2>1
  <1>8. left \in Nat /\ cur + left <= input /\ cur + left = before'.cur + z'.in
    <2>1. call.end = before.cur + z.in /\ before.cur \in Nat
      BY DEF InflateInv, CallGains, Calling
    <2>2. call.end \in Nat /\ cur \in Nat /\ cur <= call.end /\ call.end <= input
      BY DEF InflateInv, BitsRead
    <2>3. left \in Nat /\ cur + left = call.end
      BY <2>2
    <2> HIDE DEF left
    <2> QED
      BY <1>1, <2>1, <2>2, <2>3
  <1>9. before'.cur \in Nat /\ before'.delivered \in Nat /\ before'.delivered <= Len(delivered')
    <2>1. before.cur \in Nat /\ before.delivered \in Nat /\ before.delivered <= Len(delivered)
      BY DEF InflateInv, CallGains
    <2> QED
      BY <1>1, <1>2, <1>5, <2>1
  <1>10. next = Tdefl!Cell(Len(delivered')) /\ next \in 0 .. DictSize /\ z'.ofs = next
    BY <1>1, <1>3 DEF StateOK
  <1>11. ~z'.first /\ pc \in {"user", "caller"} /\ TRUE \in BOOLEAN /\ Tinfl!Call(left, buf, next, DictSize, TRUE, more)
    BY <1>1, <1>2
  <1>12. client \in {"mz_inflate", "mem_to_callback"} /\ StateOK(z') /\ HasGiven(stream, delivered')
    BY <1>1
  <1> HIDE DEF left, next
  <1> QED
    BY <1>3, <1>4, <1>7, <1>8, <1>9, <1>10, <1>11, <1>12, CallKeeps

LEMMA InflateLoopKeeps ==
  ASSUME InflateInv, Tinfl!InflateLoop
  PROVE  InflateInv'
  <1> DEFINE n == Tinfl!Given(out - call.next, z.room)
             left == call.end - cur
             s == [z EXCEPT !.last = status, !.avail = (out - call.next) - n,
                            !.ofs = (call.next + n) % DictSize, !.room = @ - n]
             ends == status = "DONE" \/ left = 0 \/ s.room = 0 \/ s.avail > 0
             more == z.flush # "finish"
             last == IF s.avail > 0 THEN "BUF_ERROR" ELSE "STREAM_END"
             says == IF status = "DONE" /\ s.avail = 0 THEN "STREAM_END" ELSE "OK"
             Case1 == status \in Tinfl!Failing /\ Tinfl!Answer("DATA_ERROR")
             Case2 == status = "NEEDS_MORE_INPUT" /\ Tinfl!Answer("BUF_ERROR")
             Case3 == status = "DONE" /\ Tinfl!Answer(last)
             Case4 == status = "HAS_MORE_OUTPUT" /\ Tinfl!Answer("BUF_ERROR")
             Case5 == status \notin Tinfl!Failing /\ ends /\ Tinfl!Answer(says)
             Case6 == /\ status \notin Tinfl!Failing
                      /\ IF z.flush = "finish" THEN status = "HAS_MORE_OUTPUT" /\ s.room > 0 ELSE ~ends
                      /\ before' = before /\ Tinfl!Call(left, buf, s.ofs, DictSize, TRUE, more)
  <1>1. pc = "caller" /\ client = "mz_inflate" /\ call.wraps /\ z' = s /\ Gains(call.next, n)
    BY DEF Tinfl!InflateLoop, Gains
  <1>2. Case1 \/ Case2 \/ Case3 \/ Case4 \/ Case5 \/ Case6
    BY DEF Tinfl!InflateLoop
  <1>3. Looped(s, n)
    BY DEF Looped
  <1>4. n = Tinfl!Given(out - call.next, z.room) /\ StateOK(z)
    BY StateIs
  <1>5. s.avail \in Nat /\ s.room \in Nat
    <2>1. StateOK(z')
      <3> HIDE DEF s, n
      <3> QED
        BY <1>1, <1>3, <1>4, LoopHas
    <2>2. StateOK(s)
      BY <1>1, <2>1
    <2> HIDE DEF s
    <2> QED
      BY <2>2, DeflateConstants DEF StateOK
  <1> HIDE DEF s, n
  <1>6. CASE Case1
    <2> DEFINE ans == "DATA_ERROR"
    <2>1. ans = "DATA_ERROR" /\ Tinfl!Answer(ans)
      BY <1>6
    <2> HIDE DEF ans
    <2> QED
      BY <1>1, <1>3, <1>4, <2>1, LoopAnswers
  <1>7. CASE Case2
    <2> DEFINE ans == "BUF_ERROR"
    <2>1. ans = "BUF_ERROR" /\ Tinfl!Answer(ans)
      BY <1>7
    <2>2. status \notin Tinfl!Failing /\ status # "DONE"
      BY <1>7 DEF Tinfl!Failing
    <2> HIDE DEF ans
    <2> QED
      BY <1>1, <1>3, <1>4, <2>1, <2>2, LoopAnswers
  <1>8. CASE Case3
    <2>1. status = "DONE" /\ Tinfl!Answer(last)
      BY <1>8
    <2>2. status \notin Tinfl!Failing
      BY <2>1 DEF Tinfl!Failing
    <2>3. last \in {"BUF_ERROR", "STREAM_END"} /\ (last = "STREAM_END" => s.avail = 0)
          /\ (last = "BUF_ERROR" => s.avail > 0)
      BY <1>5
    <2> HIDE DEF last
    <2> QED
      BY <1>1, <1>3, <1>4, <2>1, <2>2, <2>3, LoopAnswers
  <1>9. CASE Case4
    <2> DEFINE ans == "BUF_ERROR"
    <2>1. ans = "BUF_ERROR" /\ Tinfl!Answer(ans)
      BY <1>9
    <2>2. status \notin Tinfl!Failing /\ status # "DONE"
      BY <1>9 DEF Tinfl!Failing
    <2> HIDE DEF ans
    <2> QED
      BY <1>1, <1>3, <1>4, <2>1, <2>2, LoopAnswers
  <1>10. CASE Case5
    <2>1. status \notin Tinfl!Failing /\ Tinfl!Answer(says)
          /\ (status = "DONE" \/ call.end - cur = 0 \/ s.room = 0 \/ s.avail > 0)
      BY <1>10
    <2>2. says \in {"OK", "STREAM_END"} /\ (says = "STREAM_END" => status = "DONE" /\ s.avail = 0)
          /\ (says = "OK" /\ status = "DONE" => s.avail > 0)
      BY <1>5
    <2> HIDE DEF says
    <2> QED
      BY <1>1, <1>3, <1>4, <2>1, <2>2, LoopAnswers
  <1>11. CASE Case6
    <2>1. status \notin Tinfl!Failing /\ before' = before
          /\ Tinfl!Call(call.end - cur, buf, s.ofs, DictSize, TRUE, more)
      BY <1>11
    <2>2. status # "DONE" /\ (s.room > 0 \/ s.avail = 0)
      BY <1>5, <1>11
    <2> HIDE DEF more
    <2> QED
      BY <1>1, <1>3, <1>4, <2>1, <2>2, LoopCalls
  <1> QED
    BY <1>2, <1>6, <1>7, <1>8, <1>9, <1>10, <1>11

(* tinfl_decompress_mem_to_callback: the first call, and the part produced given
   to the callback.                                                        *)
LEMMA InputLeft ==
  ASSUME InflateInv
  PROVE  input - cur \in Nat /\ cur + (input - cur) <= input /\ input \in Nat /\ cur \in Nat
  <1>1. cur \in Nat /\ call.end \in Nat /\ cur <= call.end /\ call.end <= input /\ input \in Nat
    BY DEF InflateInv, BitsRead, Kinds
  <1> QED
    BY <1>1

LEMMA CellZero == Tdefl!Cell(0) = 0
  <1>1. DictSize \in Nat \ {0} /\ 0 \in 0 .. DictSize - 1 /\ 0 = 0 * DictSize + 0 /\ 0 \in Int
    BY DeflateConstants
  <1> QED
    BY <1>1, SameRemainder DEF Tdefl!Cell

LEMMA HelperCalls ==
  ASSUME InflateInv, pc = "user", client # "mz_inflate", UNCHANGED <<z, delivered, before>>,
         NEW offered \in Nat, cur + offered <= input, NEW bound \in Nat, NEW wraps \in BOOLEAN, NEW b,
         Tinfl!Call(offered, b, 0, bound, wraps, FALSE), DOMAIN b = 0 .. bound - 1,
         wraps => bound = DictSize /\ client = "mem_to_callback",
         ~wraps => client # "mem_to_callback"
  PROVE  InflateInv'
  <1>1. NotYetCalled /\ stream \in Streams /\ StateOK(z) /\ HasGiven(stream, delivered)
    BY StateIs, GivenSoFar DEF InflateInv, UserStands, Kinds
  <1>2. /\ delivered = <<>> /\ Len(delivered) = 0 /\ z.avail = 0 /\ z.ofs = 0
        /\ r = Tinfl!Fresh /\ status # "DONE"
    BY <1>1 DEF NotYetCalled
  <1>3. z' = z /\ delivered' = delivered /\ before' = before
    OBVIOUS
  <1>4. Tells(stream, wraps, r, b, 0) /\ r.summed = 0
    BY <1>1, <1>2, FreshTells DEF Tinfl!Fresh
  <1>5. before'.cur \in Nat /\ before'.delivered \in Nat /\ before'.delivered <= Len(delivered')
    BY <1>3 DEF InflateInv, CallGains
  <1>6. Tdefl!Cell(0) = 0
    BY CellZero
  <1>7. /\ pc \in {"user", "caller"} /\ 0 \in 0 .. bound /\ Len(delivered') = 0 /\ delivered' = <<>>
        /\ z'.avail = 0 /\ z'.ofs = 0 /\ StateOK(z') /\ HasGiven(stream, delivered')
    BY <1>1, <1>2, <1>3
  <1>8. 0 = Tdefl!Cell(Len(delivered'))
    BY <1>6, <1>7
  <1>9. CASE wraps
    <2>1. wraps = TRUE /\ bound = DictSize /\ client \in {"mz_inflate", "mem_to_callback"}
      BY <1>9
    <2>2. Tinfl!Call(offered, b, 0, bound, TRUE, FALSE) /\ Tells(stream, TRUE, r, b, 0)
      BY <1>4, <2>1
    <2>3. TRUE \in BOOLEAN /\ 0 = Len(delivered')
      BY <1>7
    <2> QED
      BY <1>2, <1>4, <1>5, <1>7, <1>8, <2>1, <2>2, <2>3, CallKeeps
  <1>10. CASE ~wraps
    <2>1. wraps = FALSE /\ client # "mem_to_callback"
      BY <1>10
    <2>2. Tinfl!Call(offered, b, 0, bound, FALSE, FALSE) /\ Tells(stream, FALSE, r, b, 0)
      BY <1>4, <2>1
    <2>3. FALSE \in BOOLEAN
      OBVIOUS
    <2> QED
      BY <1>2, <1>4, <1>5, <1>7, <2>1, <2>2, <2>3, CallKeeps
  <1> QED
    BY <1>9, <1>10

Turned(s, n) == s = [z EXCEPT !.ofs = (@ + n) % DictSize]

LEMMA TurnedIs ==
  ASSUME StateOK(z), NEW s, NEW n, Turned(s, n)
  PROVE  /\ DOMAIN s = StateFields /\ s.avail = z.avail /\ s.ofs = (z.ofs + n) % DictSize
         /\ s.room = z.room /\ s.in = z.in
  BY DEF StateOK, StateFields, Turned

LEMMA CallbackHas ==
  ASSUME InflateInv, pc = "caller", client = "mem_to_callback", NEW n, n = out - call.next,
         NEW s, Turned(s, n), z' = s, Gains(call.next, n)
  PROVE  /\ StateOK(z') /\ z'.avail = 0 /\ z'.ofs = Tdefl!Cell(Len(delivered'))
         /\ z'.ofs = (z.ofs + n) % DictSize
         /\ HasGiven(stream, delivered') /\ Len(delivered) <= Len(delivered')
         /\ Written = Len(delivered') /\ call.wraps
  <1> DEFINE given == Len(delivered)
             next == call.next
             to == (next + n) % DictSize
  <1>1. call.wraps
    BY CallerHas
  <1>2. /\ stream \in Streams /\ call.wraps \in BOOLEAN /\ Reads(stream, r) /\ Written \in Nat
        /\ Tells(stream, call.wraps, r, buf, Written) /\ StateOK(z)
        /\ HasGiven(stream, delivered) /\ given \in Nat /\ z.avail = 0 /\ z.ofs = next
    BY <1>1, CallerHas
  <1>3. /\ n \in Nat /\ Written = given + n /\ next \in 0 .. DictSize - 1
        /\ next = Tdefl!Cell(given) /\ next + n <= DictSize /\ DictSize \in Nat
    <2>1. next + n = out /\ out <= DictSize
      BY <1>1, ProducedIs
    <2> QED
      BY <1>1, <2>1, ProducedIs, DeflateConstants
  <1>4. /\ DOMAIN s = StateFields /\ s.avail = 0 /\ s.ofs = to /\ s.room = z.room /\ s.in = z.in
    BY <1>2, TurnedIs
  <1>5. to \in 0 .. DictSize - 1 /\ to = Tdefl!Cell(given + n)
    <2>1. n <= n
      BY <1>3
    <2> HIDE DEF next, given
    <2> QED
      BY <1>2, <1>3, <2>1, PlaceMoves
  <1> HIDE DEF to
  <1>6. StateOK(z')
    <2>1. 0 \in 0 .. DictSize
      BY <1>3
    <2> QED
      BY <1>2, <1>4, <1>5, <2>1 DEF StateOK
  <1>7. Lies(call.wraps, Written, Len(delivered), next, n)
    <2>1. given + n <= Written /\ Written - DictSize <= given /\ next + n <= DictSize
      <3> HIDE DEF next, given
      <3> QED
        BY <1>2, <1>3
    <2>2. next = Place(call.wraps, given)
      BY <1>1, <1>3 DEF Place
    <2> QED
      BY <2>1, <2>2 DEF Lies
  <1>8. next \in Nat /\ Gains(next, n)
    BY <1>3
  <1>9. HasGiven(stream, delivered')
    BY <1>2, <1>3, <1>7, <1>8, UserGets, Zenon
  <1>10. Len(delivered') = Len(delivered) + n
    BY <1>2, <1>3, <1>8, UserGetsAll, Zenon
  <1>11. Len(delivered) <= Len(delivered') /\ Written = Len(delivered')
    BY <1>2, <1>3, <1>10
  <1>12. z'.ofs = Tdefl!Cell(Len(delivered')) /\ z'.avail = 0 /\ z'.ofs = (z.ofs + n) % DictSize
    BY <1>2, <1>4, <1>5, <1>10 DEF to
  <1> QED
    BY <1>1, <1>6, <1>9, <1>11, <1>12

LEMMA ToCallbackKeeps ==
  ASSUME InflateInv, Tinfl!ToCallback
  PROVE  InflateInv'
  <1> DEFINE n == out - call.next
             s == [z EXCEPT !.ofs = (@ + n) % DictSize]
             ans == IF status = "DONE" THEN "STREAM_END" ELSE "FAILED"
             First == /\ pc = "user" /\ UNCHANGED <<z, delivered, before>>
                      /\ Tinfl!Call(input - cur, Tinfl!Zeroes(DictSize), 0, DictSize, TRUE, FALSE)
             Refused == pc = "caller" /\ UNCHANGED <<z, delivered>> /\ Tinfl!Answer("FAILED")
             Given == pc = "caller" /\ Gains(call.next, n) /\ z' = s
             Ends == Tinfl!Answer(ans)
             Again == /\ status = "HAS_MORE_OUTPUT" /\ before' = before
                      /\ Tinfl!Call(input - cur, buf, (z.ofs + n) % DictSize, DictSize, TRUE, FALSE)
  <1>1. client = "mem_to_callback" /\ (First \/ Refused \/ (Given /\ (Ends \/ Again)))
    BY DEF Tinfl!ToCallback, Gains
  <1>2. input - cur \in Nat /\ cur + (input - cur) <= input /\ DictSize \in Nat
    BY InputLeft, DeflateConstants
  <1>3. ASSUME First PROVE InflateInv'
    <2> DEFINE b == Tinfl!Zeroes(DictSize)
               offered == input - cur
    <2>1. DOMAIN b = 0 .. DictSize - 1
      BY <1>2, ZeroesAre
    <2>2. Tinfl!Call(offered, b, 0, DictSize, TRUE, FALSE) /\ TRUE \in BOOLEAN
      BY <1>3
    <2>3. UNCHANGED <<z, delivered, before>> /\ pc = "user"
      BY <1>3
    <2>4. offered \in Nat /\ cur + offered <= input
      BY <1>2
    <2> HIDE DEF b, offered, First
    <2> QED
      BY <1>1, <1>2, <2>1, <2>2, <2>3, <2>4, HelperCalls
  <1>4. ASSUME Refused PROVE InflateInv'
    <2> DEFINE says == "FAILED"
    <2>1. z' = z /\ delivered' = delivered /\ pc = "caller" /\ Tinfl!Answer(says)
          /\ says \notin {"OK", "STREAM_END"}
      BY <1>4
    <2>2. StateOK(z') /\ HasGiven(stream, delivered') /\ Len(delivered) <= Len(delivered')
      BY <2>1, StateIs, GivenSoFar
    <2>3. client # "mz_inflate" /\ pc \in {"user", "caller"}
      BY <1>1, <2>1
    <2> HIDE DEF says
    <2> QED
      BY <2>1, <2>2, <2>3, AnswerKeeps
  <1>5. Turned(s, n)
    BY DEF Turned
  <1> HIDE DEF s
  <1>6. ASSUME Given
        PROVE  /\ StateOK(z') /\ z'.avail = 0 /\ z'.ofs = Tdefl!Cell(Len(delivered'))
               /\ z'.ofs = (z.ofs + n) % DictSize
               /\ HasGiven(stream, delivered') /\ Len(delivered) <= Len(delivered')
               /\ Written = Len(delivered') /\ call.wraps
    <2>1. pc = "caller" /\ Gains(call.next, n) /\ z' = s /\ n = out - call.next
      BY <1>6
    <2> HIDE DEF n, Given
    <2> QED
      BY <1>1, <1>5, <2>1, CallbackHas
  <1>7. pc = "caller" =>
          /\ stream \in Streams /\ Reads(stream, r) /\ Tells(stream, call.wraps, r, buf, Written)
          /\ status \notin Tinfl!Failing => r.summed = Written
          /\ status = "DONE" => r.i = Len(stream.fields) + 1 /\ HoldsNothing(r)
    BY CallerHas
  <1>8. ASSUME Given, Ends PROVE InflateInv'
    <2>1. pc = "caller" /\ Tinfl!Answer(ans)
      BY <1>8
    <2>2. ans \notin {"OK"} /\ (ans = "STREAM_END" => status = "DONE") /\ client # "mz_inflate"
          /\ pc \in {"user", "caller"}
      BY <1>1, <2>1
    <2>3. ASSUME ans = "STREAM_END", Tinfl!Sound(stream) PROVE Len(delivered') = Len(Tinfl!Text(stream))
      <3>1. status = "DONE" /\ Written = Len(delivered')
        BY <1>6, <1>8, <2>3
      <3>2. Written = Len(Tinfl!Text(stream))
        BY <1>7, <2>1, <2>3, <3>1, TextBounds
      <3> QED
        BY <3>1, <3>2
    <2>4. StateOK(z') /\ HasGiven(stream, delivered') /\ Len(delivered) <= Len(delivered')
      BY <1>6, <1>8
    <2> HIDE DEF ans, Given, Ends
    <2> QED
      BY <2>1, <2>2, <2>3, <2>4, AnswerKeeps
  <1>9. ASSUME Given, Again PROVE InflateInv'
    <2> DEFINE offered == input - cur
               next == (z.ofs + n) % DictSize
               w == Len(delivered')
    <2>1. /\ pc = "caller" /\ status = "HAS_MORE_OUTPUT" /\ before' = before
          /\ Tinfl!Call(offered, buf, next, DictSize, TRUE, FALSE)
      BY <1>9
    <2>2. status # "DONE" /\ status \notin Tinfl!Failing
      BY <2>1 DEF Tinfl!Failing
    <2>3. /\ StateOK(z') /\ z'.avail = 0 /\ z'.ofs = Tdefl!Cell(w) /\ z'.ofs = next
          /\ HasGiven(stream, delivered') /\ Len(delivered) <= w /\ Written = w /\ call.wraps
      BY <1>6, <1>9
    <2>4. offered \in Nat /\ cur + offered <= input
      BY <1>2
    <2>5. DOMAIN buf = 0 .. DictSize - 1
      BY <2>1, <2>3, ProducedIs
    <2>6. Tells(stream, TRUE, r, buf, w) /\ r.summed = w
      <3>1. call.wraps \in BOOLEAN
        BY DEF InflateInv, Kinds
      <3>2. call.wraps = TRUE
        BY <2>3, <3>1
      <3> QED
        BY <1>7, <2>1, <2>2, <2>3, <3>2
    <2>7. next \in 0 .. DictSize /\ next = Tdefl!Cell(w)
      BY <1>2, <2>3 DEF StateOK
    <2>8. before'.cur \in Nat /\ before'.delivered \in Nat /\ before'.delivered <= w
      <3>1. before.cur \in Nat /\ before.delivered \in Nat /\ before.delivered <= Len(delivered)
        BY DEF InflateInv, CallGains
      <3>2. w \in Nat /\ Len(delivered) \in Nat
        BY <2>3, GivenSoFar DEF HasGiven, IsText
      <3> QED
        BY <2>1, <2>3, <3>1, <3>2
    <2>9. client # "mz_inflate" /\ client \in {"mz_inflate", "mem_to_callback"} /\ pc \in {"user", "caller"}
          /\ TRUE \in BOOLEAN /\ w = (IF TRUE THEN Len(delivered') ELSE next)
      BY <1>1, <2>1
    <2> HIDE DEF Given, Again, next, offered
    <2> QED
      BY <1>2, <2>1, <2>2, <2>3, <2>4, <2>5, <2>6, <2>7, <2>8, <2>9, CallKeeps
  <1> HIDE DEF First, Refused, Given, Ends, Again
  <1> QED
    BY <1>1, <1>3, <1>4, <1>8, <1>9

(* The helpers that give the whole text at once: their answer, *)
LEMMA WholeAnswered ==
  ASSUME InflateInv, pc = "caller", client \in {"mem_to_heap", "mem_to_mem"}, z' = z,
         status = "DONE", delivered' = Tinfl!Part(0, out), Tinfl!Answer("STREAM_END")
  PROVE  InflateInv'
  <1> DEFINE ans == "STREAM_END"
  <1>1. ~call.wraps /\ StateOK(z) /\ delivered = <<>>
    BY CallerHas
  <1>2. /\ HasGiven(stream, delivered') /\ Len(delivered') = out /\ out \in Nat
        /\ Tinfl!Sound(stream) => out = Len(Tinfl!Text(stream))
    BY <1>1, WholeGiven
  <1>3. Len(delivered) = 0
    BY <1>1
  <1>4. StateOK(z') /\ Len(delivered) <= Len(delivered') /\ client # "mz_inflate" /\ pc \in {"user", "caller"}
    BY <1>1, <1>2, <1>3
  <1>5. Tinfl!Sound(stream) => Len(delivered') = Len(Tinfl!Text(stream))
    BY <1>2
  <1>6. Tinfl!Answer(ans)
    OBVIOUS
  <1> HIDE DEF ans
  <1> QED
    BY <1>2, <1>4, <1>5, <1>6, AnswerKeeps

LEMMA NothingAnswered ==
  ASSUME InflateInv, pc = "caller", client # "mz_inflate", z' = z, delivered' = delivered,
         Tinfl!Answer("FAILED")
  PROVE  InflateInv'
  <1> DEFINE ans == "FAILED"
  <1>1. Tinfl!Answer(ans) /\ ans \notin {"OK", "STREAM_END"}
    OBVIOUS
  <1>2. StateOK(z') /\ HasGiven(stream, delivered') /\ Len(delivered) <= Len(delivered')
        /\ pc \in {"user", "caller"}
    BY StateIs, GivenSoFar
  <1> HIDE DEF ans
  <1> QED
    BY <1>1, <1>2, AnswerKeeps

(* and the buffer on the heap, twice as large, with what the last one had. *)
LEMMA TellsInCopy ==
  ASSUME NEW s, NEW e, NEW b, NEW w, Tells(s, FALSE, e, b, w), NEW g,
         \A j \in Nat : j < w => g[j] = b[j]
  PROVE  Tells(s, FALSE, e, g, w)
  <1>1. Remembers(s, FALSE, b, w) => Remembers(s, FALSE, g, w)
    BY DEF Remembers, Place
  <1> QED
    BY <1>1 DEF Tells

Grown(heap) == [k \in 0 .. heap - 1 |-> IF k < out THEN buf[k] ELSE 0]

LEMMA HeapGrows ==
  ASSUME InflateInv, pc = "caller", client = "mem_to_heap", status = "HAS_MORE_OUTPUT",
         UNCHANGED <<z, delivered, before>>, NEW heap, heap = Tinfl!Most(HeapSize, 2 * call.limit),
         Tinfl!Call(input - cur, Grown(heap), out, heap, FALSE, FALSE)
  PROVE  InflateInv'
  <1> DEFINE g == Grown(heap)
             offered == input - cur
  <1>1. ~call.wraps /\ call.wraps \in BOOLEAN /\ StateOK(z) /\ delivered = <<>>
        /\ Tells(stream, call.wraps, r, buf, Written)
        /\ Stands(call, Len(delivered), out, buf, Written)
        /\ HasGiven(stream, delivered) /\ (status \notin Tinfl!Failing => r.summed = Written)
    BY CallerHas
  <1>2. out = Written /\ call.limit \in Nat /\ out \in 0 .. call.limit
    BY <1>1 DEF Stands
  <1>3. heap \in Nat /\ out \in 0 .. heap /\ out \in Nat
    BY <1>2, InflateConstants DEF Tinfl!Most
  <1>4. g = [k \in 0 .. heap - 1 |-> IF k < out THEN buf[k] ELSE 0]
    BY DEF Grown
  <1>5. Tinfl!Call(offered, g, out, heap, FALSE, FALSE)
    OBVIOUS
  <1> HIDE DEF g
  <1>6. DOMAIN g = 0 .. heap - 1
    BY <1>4
  <1>7. \A j \in Nat : j < out => g[j] = buf[j]
    <2> TAKE j \in Nat
    <2> HAVE j < out
    <2>1. j \in 0 .. heap - 1
      BY <1>3
    <2> QED
      BY <1>4, <2>1
  <1>8. Tells(stream, FALSE, r, g, out)
    <2>1. call.wraps = FALSE
      BY <1>1
    <2>2. Tells(stream, FALSE, r, buf, out)
      BY <1>1, <1>2, <2>1
    <2> QED
      BY <1>7, <2>2, TellsInCopy
  <1>9. r.summed = out /\ status # "DONE"
    BY <1>1, <1>2 DEF Tinfl!Failing
  <1>10. offered \in Nat /\ cur + offered <= input
    BY InputLeft
  <1>11. before'.cur \in Nat /\ before'.delivered \in Nat /\ before'.delivered <= Len(delivered')
    BY DEF InflateInv, CallGains
  <1>12. StateOK(z') /\ HasGiven(stream, delivered') /\ delivered' = <<>> /\ pc \in {"user", "caller"}
         /\ FALSE \in BOOLEAN /\ out = (IF FALSE THEN Len(delivered') ELSE out)
    BY <1>1
  <1>13. client # "mz_inflate" /\ client # "mem_to_callback"
    OBVIOUS
  <1> HIDE DEF offered
  <1> QED
    BY <1>3, <1>5, <1>6, <1>8, <1>9, <1>10, <1>11, <1>12, <1>13, CallKeeps

LEMMA ToHeapKeeps ==
  ASSUME InflateInv, Tinfl!ToHeap
  PROVE  InflateInv'
  <1> DEFINE heap == Tinfl!Most(HeapSize, 2 * call.limit)
             First == /\ pc = "user" /\ UNCHANGED <<delivered, before>>
                      /\ Tinfl!Call(input, <<>>, 0, 0, FALSE, FALSE)
             Ends == /\ pc = "caller" /\ status = "DONE"
                     /\ delivered' = Tinfl!Part(0, out) /\ Tinfl!Answer("STREAM_END")
             Fails == pc = "caller" /\ delivered' = delivered /\ Tinfl!Answer("FAILED")
             Grows == /\ pc = "caller" /\ status = "HAS_MORE_OUTPUT" /\ UNCHANGED <<delivered, before>>
                      /\ Tinfl!Call(input - cur, Grown(heap), out, heap, FALSE, FALSE)
  <1>1. client = "mem_to_heap" /\ z' = z /\ (First \/ Ends \/ Fails \/ Grows)
    BY DEF Tinfl!ToHeap, Grown
  <1>2. ASSUME First PROVE InflateInv'
    <2> DEFINE b == <<>>
    <2>1. DOMAIN b = 0 .. 0 - 1 /\ 0 \in Nat /\ FALSE \in BOOLEAN
      OBVIOUS
    <2>2. cur + input <= input /\ input \in Nat
      <3>1. cur = 0
        BY <1>1, <1>2 DEF InflateInv, UserStands, NotYetCalled
      <3>2. input \in Nat
        BY InputLeft
      <3> QED
        BY <3>1, <3>2
    <2>3. pc = "user" /\ UNCHANGED <<z, delivered, before>> /\ Tinfl!Call(input, b, 0, 0, FALSE, FALSE)
      BY <1>1, <1>2
    <2>4. client # "mz_inflate" /\ client # "mem_to_callback"
      BY <1>1
    <2> HIDE DEF b, First
    <2> QED
      BY <2>1, <2>2, <2>3, <2>4, HelperCalls
  <1>3. ASSUME Ends PROVE InflateInv'
    BY <1>1, <1>3, WholeAnswered
  <1>4. ASSUME Fails PROVE InflateInv'
    <2>1. client # "mz_inflate"
      BY <1>1
    <2> QED
      BY <1>1, <1>4, <2>1, NothingAnswered
  <1>5. ASSUME Grows PROVE InflateInv'
    <2>1. /\ pc = "caller" /\ status = "HAS_MORE_OUTPUT" /\ UNCHANGED <<z, delivered, before>>
          /\ Tinfl!Call(input - cur, Grown(heap), out, heap, FALSE, FALSE)
      BY <1>1, <1>5
    <2>2. heap = Tinfl!Most(HeapSize, 2 * call.limit)
      OBVIOUS
    <2> HIDE DEF heap, Grows
    <2> QED
      BY <1>1, <2>1, <2>2, HeapGrows
  <1> HIDE DEF First, Ends, Fails, Grows
  <1> QED
    BY <1>1, <1>2, <1>3, <1>4, <1>5

LEMMA ToMemoryKeeps ==
  ASSUME InflateInv, Tinfl!ToMemory
  PROVE  InflateInv'
  <1> DEFINE First(room) == Tinfl!Call(input, Tinfl!Zeroes(room), 0, room, FALSE, FALSE)
             ans == IF status = "DONE" THEN "STREAM_END" ELSE "FAILED"
             Ends == /\ pc = "caller" /\ Tinfl!Answer(ans)
                     /\ delivered' = IF status = "DONE" THEN Tinfl!Part(0, out) ELSE delivered
  <1>1. client = "mem_to_mem" /\ z' = z
        /\ \/ pc = "user" /\ UNCHANGED <<delivered, before>> /\ \E room \in TextRooms : First(room)
           \/ Ends
    BY DEF Tinfl!ToMemory
  <1>2. ASSUME pc = "user", UNCHANGED <<delivered, before>>, NEW room \in TextRooms, First(room)
        PROVE  InflateInv'
    <2> DEFINE b == Tinfl!Zeroes(room)
    <2>1. room \in Nat /\ FALSE \in BOOLEAN
      BY InflateConstants
    <2>2. DOMAIN b = 0 .. room - 1
      BY <2>1, ZeroesAre
    <2>3. cur + input <= input /\ input \in Nat
      <3>1. cur = 0
        BY <1>1, <1>2 DEF InflateInv, UserStands, NotYetCalled
      <3>2. input \in Nat
        BY InputLeft
      <3> QED
        BY <3>1, <3>2
    <2>4. UNCHANGED <<z, delivered, before>> /\ Tinfl!Call(input, b, 0, room, FALSE, FALSE)
      BY <1>1, <1>2
    <2>5. client # "mz_inflate" /\ client # "mem_to_callback"
      BY <1>1
    <2> HIDE DEF b, First, Ends
    <2> QED
      BY <1>2, <2>1, <2>2, <2>3, <2>4, <2>5, HelperCalls
  <1>3. ASSUME Ends PROVE InflateInv'
    <2>1. CASE status = "DONE"
      BY <1>1, <1>3, <2>1, WholeAnswered
    <2>2. CASE status # "DONE"
      <3>1. client # "mz_inflate"
        BY <1>1
      <3> QED
        BY <1>1, <1>3, <2>2, <3>1, NothingAnswered
    <2> QED
      BY <2>1, <2>2
  <1> HIDE DEF First, Ends
  <1> QED
    BY <1>1, <1>2, <1>3

(* The invariant holds at the beginning, *)
LEMMA InflateBegins ==
  ASSUME Tinfl!Init
  PROVE  InflateInv
  <1> DEFINE n == Len(stream.fields)
  <1>1. /\ stream \in Streams /\ r = Tinfl!Fresh /\ cur = 0 /\ out = 0 /\ buf = <<>>
        /\ client \in {"mz_inflate", "mem_to_callback", "mem_to_heap", "mem_to_mem"}
        /\ call = [base |-> 0, end |-> 0, next |-> 0, limit |-> 0, wraps |-> FALSE, more |-> FALSE]
        /\ pc = "user" /\ status = "none" /\ z = Tinfl!NewState
        /\ delivered = <<>> /\ answer = "none" /\ before = [cur |-> 0, delivered |-> 0]
    BY DEF Tinfl!Init
  <1>2. /\ call.base = 0 /\ call.end = 0 /\ call.limit = 0 /\ call.wraps = FALSE
        /\ before.cur = 0 /\ before.delivered = 0
    BY <1>1
  <1>3. /\ DOMAIN z = {"ofs", "avail", "first", "flushed", "last", "flush", "in", "room"}
        /\ z.ofs = 0 /\ z.avail = 0 /\ z.first = TRUE /\ z.last = "NEEDS_MORE_INPUT"
        /\ z.in = 0 /\ z.room = 0
    BY <1>1 DEF Tinfl!NewState
  <1>4. n \in Nat /\ StreamEnd \in Nat
    <2>1. n \in Nat
      BY <1>1, StreamConstants
    <2>2. n \in 0 .. n
      BY <2>1
    <2> QED
      BY <1>1, <2>1, <2>2, EndsGrow DEF StreamEnd
  <1>5. input \in Nat
    <2>1. PICK margin \in Margins : input = Tinfl!Most(0, Tinfl!StreamBytes(stream) + margin)
      BY DEF Tinfl!Init
    <2>2. margin \in Int /\ Tinfl!StreamBytes(stream) \in Int
      BY <1>4, InflateConstants DEF StreamEnd, Tinfl!StreamBytes
    <2> QED
      BY <2>1, <2>2 DEF Tinfl!Most
  <1>6. Len(delivered) = 0 /\ FALSE \in BOOLEAN /\ DictSize \in Nat \ {0}
    BY <1>1, DeflateConstants
  <1>7. Written = 0
    BY <1>1, <1>3, <1>6 DEF Written
  <1>8. ~Calling /\ Tdefl!Cell(Len(delivered)) = 0
    BY <1>1, <1>6, CellZero DEF Calling
  <1>9. Reads(stream, r) /\ Tells(stream, call.wraps, r, buf, Written) /\ r.summed = 0 /\ r.pos = 0
    <2>1. Reads(stream, r) /\ Tells(stream, FALSE, r, buf, 0)
      BY <1>1, <1>6, FreshTells
    <2>2. r.summed = 0 /\ r.pos = 0
      BY <1>1 DEF Tinfl!Fresh
    <2> QED
      BY <1>2, <1>7, <2>1, <2>2
  <1>10. Kinds
    BY <1>1, <1>2, <1>3, <1>5 DEF Kinds
  <1>11. BitsRead
    BY <1>1, <1>2, <1>4, <1>5, <1>9 DEF BitsRead
  <1>12. BufferGiven
    BY <1>1, <1>2, <1>3, <1>6, <1>8 DEF BufferGiven
  <1>13. TextSoFar
    BY <1>1, <1>7, <1>9 DEF TextSoFar
  <1>14. StatusSays
    BY <1>1 DEF StatusSays, Statuses
  <1>15. UserStands
    BY <1>1, <1>3 DEF UserStands, NotYetCalled, Tinfl!Failing
  <1>16. HasGiven(stream, delivered)
    <2>1. IsText(<<>>)
      <3>1. <<>> = [k \in 1 .. 0 |-> <<>>[k]]
        OBVIOUS
      <3> QED
        BY <3>1 DEF IsText
    <2>2. Len(Tinfl!Text(stream)) \in Nat
      <3>1. n \in 0 .. n
        BY <1>4
      <3> QED
        BY <1>1, <3>1, TextGrows DEF IsText, Tinfl!Text
    <2>3. 0 <= Len(Tinfl!Text(stream)) /\ \A k \in 1 .. 0 : FALSE
      BY <2>2
    <2> QED
      BY <1>1, <1>6, <2>1, <2>3 DEF HasGiven
  <1>17. TextGiven
    BY <1>1, <1>16 DEF TextGiven
  <1>18. CallGains
    BY <1>1, <1>2, <1>6, <1>8 DEF CallGains, Tinfl!CallAdvances
  <1> QED
    BY <1>10, <1>11, <1>12, <1>13, <1>14, <1>15, <1>17, <1>18 DEF InflateInv

(* every step keeps it, *)
LEMMA InflateStands ==
  ASSUME InflateInv, UNCHANGED Tinfl!vars
  PROVE  InflateInv'
  <1>1. UNCHANGED <<stream, input, client, r, cur, out, buf, call, pc, status, z, delivered,
                    answer, before>>
    BY DEF Tinfl!vars
  <1>2. Kinds' /\ BitsRead'
    BY <1>1 DEF InflateInv, Kinds, BitsRead, StreamEnd
  <1>3. Written' = Written /\ Calling' = Calling /\ Going' = Going
    BY <1>1 DEF Written, Calling, Going
  <1>4. BufferGiven'
    BY <1>1, <1>3 DEF InflateInv, BufferGiven
  <1>5. TextSoFar' /\ StatusSays' /\ UserStands'
    BY <1>1, <1>3 DEF InflateInv, TextSoFar, StatusSays, UserStands, NotYetCalled
  <1>6. TextGiven' /\ CallGains'
    BY <1>1, <1>3 DEF InflateInv, TextGiven, CallGains, Tinfl!CallAdvances
  <1> QED
    BY <1>2, <1>4, <1>5, <1>6 DEF InflateInv

LEMMA InflateStep ==
  ASSUME InflateInv, [Tinfl!Next]_(Tinfl!vars)
  PROVE  InflateInv'
  BY InflateStands, DecompressKeeps, InflateUserKeeps, FirstFinishKeeps, InflateLoopKeeps,
     ToCallbackKeeps, ToHeapKeeps, ToMemoryKeeps DEF Tinfl!Next

(* and it says what the user gets. *)
LEMMA InflateRight == InflateInv => Tinfl!TextDelivered /\ Tinfl!ReadsToTheEnd /\ Tinfl!CallAdvances
  <1> SUFFICES ASSUME InflateInv
               PROVE  Tinfl!TextDelivered /\ Tinfl!ReadsToTheEnd /\ Tinfl!CallAdvances
    OBVIOUS
  <1> DEFINE t == Tinfl!Text(stream)
             m == Len(delivered)
             n == Len(stream.fields)
  <1>1. stream \in Streams /\ HasGiven(stream, delivered)
        /\ (answer = "STREAM_END" /\ Tinfl!Sound(stream) => m = Len(t))
    BY GivenSoFar DEF InflateInv, Kinds, TextGiven
  <1>2. Len(t) \in Nat /\ t = [k \in 1 .. Len(t) |-> t[k]]
    <2>1. n \in Nat
      BY <1>1, StreamConstants
    <2>2. n \in 0 .. n
      BY <2>1
    <2> QED
      BY <1>1, <2>2, TextGrows DEF IsText, Tinfl!Text
  <1>3. m \in Nat /\ delivered = [k \in 1 .. m |-> delivered[k]]
    BY <1>1 DEF HasGiven, IsText
  <1>4. ASSUME Tinfl!Sound(stream)
        PROVE  Tinfl!IsPrefix(delivered, t) /\ (answer = "STREAM_END" => delivered = t)
    <2>1. m <= Len(t) /\ \A k \in 1 .. m : delivered[k] = t[k]
      BY <1>1, <1>4 DEF HasGiven
    <2> HIDE DEF t
    <2>2. SubSeq(delivered, 1, m) = [k \in 1 .. m |-> delivered[k]]
      BY <1>3
    <2>3. SubSeq(t, 1, m) = [k \in 1 .. m |-> t[k]]
      BY <1>2, <1>3, <2>1
    <2>4. SubSeq(delivered, 1, m) = SubSeq(t, 1, m)
      BY <2>1, <2>2, <2>3
    <2>5. ASSUME answer = "STREAM_END" PROVE delivered = t
      <3>1. m = Len(t)
        BY <1>1, <1>4, <2>5
      <3> HIDE DEF m
      <3> QED
        BY <1>2, <1>3, <2>1, <3>1
    <2> QED
      BY <2>1, <2>4, <2>5 DEF Tinfl!IsPrefix
  <1>5. Tinfl!TextDelivered
    BY <1>4 DEF Tinfl!TextDelivered
  <1>6. Tinfl!ReadsToTheEnd
    BY DEF InflateInv, StatusSays, Tinfl!ReadsToTheEnd
  <1> QED
    BY <1>5, <1>6 DEF InflateInv, CallGains

(* A step of Packages is one of the decompressor and its callers, or leaves
   them alone.                                                             *)
LEMMA InflatePart == (Is("inflate") => InflateInv) /\ [Next]_vars => (Is("inflate") => InflateInv)'
  <1> SUFFICES ASSUME Is("inflate") => InflateInv, [Next]_vars, Is("inflate")' PROVE InflateInv'
    OBVIOUS
  <1>1. part' = part
    BY DEF Next, vars
  <1>2. Is("inflate")
    BY <1>1 DEF Is
  <1>3. [Tinfl!Next]_(Tinfl!vars)
    BY <1>2 DEF Next, vars, Is, inflateVars, Tinfl!vars
  <1> QED
    BY <1>2, <1>3, InflateStep

(* For every stream a compressor can have written, every cut of its input and
   room for its text and every way of calling: what the user gets is the text
   from its beginning, all of it when told that it ended; nothing behind the
   stream is used up, and a stream that is all there is not refused; a call
   answered OK got something done (miniz.c, tinfl_decompress, mz_inflate and
   the tinfl_decompress_mem_to helpers).                                   *)
THEOREM DecompressionDeliversText == Spec => []Inflated
  <1>1. Init => (Is("inflate") => InflateInv)
    BY InflateBegins DEF Init, Is
  <1>2. (Is("inflate") => InflateInv) => Inflated
    BY InflateRight DEF Inflated
  <1> QED
    BY <1>1, <1>2, InflatePart, PTL DEF Spec
===============================================================================
