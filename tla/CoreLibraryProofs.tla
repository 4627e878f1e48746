-------------------------- MODULE CoreLibraryProofs --------------------------
(***************************************************************************)
(* Proofs about the core library: for vectors of any length and growth,    *)
(* strings of any length and any room for short ones, any number of        *)
(* results, a console of any size, any number of failing tests, any number *)
(* of pointers and blocks; for integers of any width, fields of any width  *)
(* and any fill, and any set of format strings.                            *)
(*                                                                         *)
(* Each part has an invariant of its own:                                  *)
(*   VectorInv   the described list has the length of the vector, which    *)
(*               its values need to stay its own while it grows;           *)
(*   ResultInv   every result stands for what is described of it;          *)
(*   ConsoleInv  the colours in use are those of the cells drawn;          *)
(*   StringInv   a string's buffer holds its text and ends it, or it was   *)
(*               appended to itself in place, which happens only to a      *)
(*               short one;                                                *)
(*   TestsInv    a running test still has to come to the verdict its       *)
(*               expectations give, and the ones that ran are counted so;  *)
(*   OInv        one owner of a live block at most, no pointer to a dead   *)
(*               one, and no array longer than its block;                  *)
(*   StreamInv   is FieldReadsBack with what the fill may be: it is never  *)
(*               a digit but zero, and zeros in front of a number do not   *)
(*               change it;                                                *)
(*   FormatInv   says where the reader of a format is: behind a directive, *)
(*               or in front of the width, the precision, the length or the*)
(*               conversion of one, with the arguments taken and the text  *)
(*               printed up to there.                                      *)
(* A step of the whole is a step of the part exercised, so together they   *)
(* are an invariant of the composition.                                    *)
(*                                                                         *)
(* Digits, powers, the text of a format and what it prints are functions   *)
(* defined step by step along the natural numbers.  Each is shown to be    *)
(* defined (IteratesExist), and facts about it to hold at every step       *)
(* (UpToBound), so that no leaf unfolds more than one step.                *)
(***************************************************************************)
EXTENDS CoreLibrary, Digits, NaturalLemmas, TLAPS

-----------------------------------------------------------------------------
(* Functions defined step by step. *)

(* What holds at 0 and from each number to the next holds up to n. *)
LEMMA UpToBound ==
  ASSUME NEW n \in Nat, NEW S, 0 \in S, \A i \in 0 .. n - 1 : i \in S => i + 1 \in S
  PROVE  \A i \in 0 .. n : i \in S
  <1> DEFINE T == {k \in Nat : k <= n => k \in S}
  <1>1. 0 \in T
    OBVIOUS
  <1>2. \A k \in Nat : k \in T => k + 1 \in T
    OBVIOUS
  <1>3. Nat \subseteq T
    <2> HIDE DEF T
    <2> QED
      BY <1>1, <1>2, AllNaturals
  <1> QED
    BY <1>3

(* The values of an iteration, from a, with a function for each step. *)
Iterates(f, a, next, n) == f[0] = a /\ \A i \in 1 .. n : f[i] = next[i][f[i - 1]]

(* Every iteration within a set has such values. *)
LEMMA IteratesExist ==
  ASSUME NEW D, NEW a \in D, NEW next \in [Nat -> [D -> D]], NEW n \in Nat
  PROVE  \E f \in [0 .. n -> D] : Iterates(f, a, next, n)
  <1> DEFINE S == {k \in Nat : \E f \in [0 .. k -> D] : Iterates(f, a, next, k)}
  <1>1. 0 \in S
    <2> DEFINE h == [i \in 0 .. 0 |-> a]
    <2>1. h \in [0 .. 0 -> D] /\ h[0] = a
      OBVIOUS
    <2> HIDE DEF h
    <2>2. Iterates(h, a, next, 0)
      BY <2>1 DEF Iterates
    <2> QED
      BY <2>1, <2>2
  <1>2. ASSUME NEW k \in Nat, k \in S PROVE k + 1 \in S
    <2>1. PICK f \in [0 .. k -> D] : Iterates(f, a, next, k)
      BY <1>2
    <2> DEFINE h == [i \in 0 .. k + 1 |-> IF i = k + 1 THEN next[k + 1][f[k]] ELSE f[i]]
    <2>2. next[k + 1][f[k]] \in D
      OBVIOUS
    <2>3. h \in [0 .. k + 1 -> D]
      BY <2>2
    <2>4. Iterates(h, a, next, k + 1)
      <3>1. h[0] = a
        BY <2>1 DEF Iterates
      <3>2. ASSUME NEW i \in 1 .. k + 1 PROVE h[i] = next[i][h[i - 1]]
        <4>1. CASE i = k + 1
          BY <4>1
        <4>2. CASE i \in 1 .. k
          <5>1. h[i] = f[i] /\ h[i - 1] = f[i - 1]
            BY <4>2
          <5> QED
            BY <4>2, <5>1, <2>1 DEF Iterates
        <4> QED
          BY <4>1, <4>2
      <3> HIDE DEF h
      <3> QED
        BY <3>1, <3>2 DEF Iterates
    <2> HIDE DEF h
    <2>5. \E g \in [0 .. k + 1 -> D] : Iterates(g, a, next, k + 1)
      BY <2>3, <2>4
    <2> QED
      BY <2>5
  <1>3. Nat \subseteq S
    <2> HIDE DEF S
    <2> QED
      BY <1>1, <1>2, AllNaturals
  <1> QED
    BY <1>3

-----------------------------------------------------------------------------
(* Powers and digits. *)

(* The function Power chooses. *)
IsPower(f, base, n) == f = [i \in 0 .. n |-> IF i = 0 THEN 1 ELSE base * f[i - 1]]

(* Power is well defined. *)
LEMMA PowerIs ==
  ASSUME NEW base \in Nat, NEW n \in Nat
  PROVE  \E f \in [0 .. n -> Nat] : IsPower(f, base, n) /\ Power(base, n) = f[n]
  <1> DEFINE next == [i \in Nat |-> [x \in Nat |-> base * x]]
  <1>1. next \in [Nat -> [Nat -> Nat]]
    OBVIOUS
  <1> HIDE DEF next
  <1>2. PICK f \in [0 .. n -> Nat] : Iterates(f, 1, next, n)
    BY <1>1, IteratesExist
  <1>3. ASSUME NEW i \in 1 .. n PROVE f[i - 1] \in Nat /\ f[i] = base * f[i - 1]
    <2>1. i - 1 \in 0 .. n /\ i \in Nat
      OBVIOUS
    <2>2. f[i] = next[i][f[i - 1]]
      BY <1>2 DEF Iterates
    <2> QED
      BY <2>1, <2>2 DEF next
  <1>4. IsPower(f, base, n)
    BY <1>2, <1>3 DEF IsPower, Iterates
  <1> DEFINE c == CHOOSE g : IsPower(g, base, n)
  <1>5. IsPower(c, base, n)
    BY <1>4
  <1>6. Power(base, n) = c[n]
    BY DEF Power, IsPower
  <1> HIDE DEF c
  <1>7. \A i \in 0 .. n : c[i] \in Nat
    <2> DEFINE S == {i \in Nat : c[i] \in Nat}
    <2>1. 0 \in S
      BY <1>5 DEF IsPower
    <2>2. ASSUME NEW i \in 0 .. n - 1, i \in S PROVE i + 1 \in S
      BY <1>5, <2>2 DEF IsPower
    <2>3. \A i \in 0 .. n : i \in S
      <3> HIDE DEF S
      <3> QED
        BY <2>1, <2>2, UpToBound
    <2> QED
      BY <2>3
  <1>8. c \in [0 .. n -> Nat]
    BY <1>5, <1>7 DEF IsPower
  <1> QED
    BY <1>5, <1>6, <1>8

(* The powers up to n are the same in a longer table. *)
LEMMA PowersAgree ==
  ASSUME NEW base \in Nat, NEW n \in Nat, NEW f \in [0 .. n -> Nat],
         NEW g \in [0 .. n + 1 -> Nat], IsPower(f, base, n), IsPower(g, base, n + 1)
  PROVE  f[n] = g[n]
  <1> DEFINE S == {i \in Nat : f[i] = g[i]}
  <1>1. 0 \in S
    BY DEF IsPower
  <1>2. ASSUME NEW i \in 0 .. n - 1, i \in S PROVE i + 1 \in S
    <2>1. f[i + 1] = base * f[i] /\ g[i + 1] = base * g[i]
      BY DEF IsPower
    <2> QED
      BY <1>2, <2>1
  <1>3. \A i \in 0 .. n : i \in S
    <2> HIDE DEF S
    <2> QED
      BY <1>1, <1>2, UpToBound
  <1> QED
    BY <1>3

(* The laws of Power. *)
LEMMA PowerFacts ==
  ASSUME NEW base \in Nat
  PROVE  /\ Power(base, 0) = 1
         /\ \A n \in Nat : Power(base, n) \in Nat /\ Power(base, n + 1) = base * Power(base, n)
  <1>1. Power(base, 0) = 1
    <2>1. PICK f \in [0 .. 0 -> Nat] : IsPower(f, base, 0) /\ Power(base, 0) = f[0]
      BY PowerIs
    <2> QED
      BY <2>1 DEF IsPower
  <1>2. ASSUME NEW n \in Nat
        PROVE  Power(base, n) \in Nat /\ Power(base, n + 1) = base * Power(base, n)
    <2>1. PICK f \in [0 .. n -> Nat] : IsPower(f, base, n) /\ Power(base, n) = f[n]
      BY PowerIs
    <2> DEFINE m == n + 1
    <2>2. PICK g \in [0 .. m -> Nat] : IsPower(g, base, m) /\ Power(base, m) = g[m]
      <3>1. m \in Nat
        OBVIOUS
      <3> HIDE DEF m
      <3> QED
        BY <3>1, PowerIs
    <2>3. g[n + 1] = base * g[n]
      BY <2>2 DEF IsPower
    <2>4. f[n] = g[n]
      BY <2>1, <2>2, PowersAgree
    <2> QED
      BY <2>1, <2>2, <2>3, <2>4
  <1> QED
    BY <1>1, <1>2

LEMMA PowersGrow ==
  ASSUME NEW base \in Nat \ {0} PROVE \A n \in Nat : Power(base, n) \in Nat \ {0}
  <1> DEFINE S == {n \in Nat : Power(base, n) \in Nat \ {0}}
  <1>1. 0 \in S
    BY PowerFacts
  <1>2. ASSUME NEW n \in Nat, n \in S PROVE n + 1 \in S
    <2>1. Power(base, n + 1) = base * Power(base, n) /\ Power(base, n) \in Nat \ {0}
      BY <1>2, PowerFacts
    <2> HIDE DEF S
    <2>2. \A x, y \in Nat \ {0} : x * y \in Nat \ {0}
      OBVIOUS
    <2>3. Power(base, n + 1) \in Nat \ {0}
      BY <2>1, <2>2
    <2> QED
      BY <2>3 DEF S
  <1>3. Nat \subseteq S
    <2> HIDE DEF S
    <2> QED
      BY <1>1, <1>2, AllNaturals
  <1> QED
    BY <1>3

-----------------------------------------------------------------------------
(* The function outdigits chooses. *)
IsDigits(f, value, base, upper) ==
  f = [v \in 0 .. value |->
        IF v < base THEN <<Digit(v, upper)>>
        ELSE Append(f[v \div base], Digit(v % base, upper))]

Bases == {8, 10, 16}

LEMMA Quotients ==
  ASSUME NEW base \in Bases, NEW v \in Nat
  PROVE  /\ v \div base \in Nat /\ v % base \in 0 .. base - 1
         /\ v = ((v \div base) * base) + (v % base)
         /\ v >= base => v \div base < v
         /\ v < base => v % base = v
  BY DEF Bases

(* outdigits is well defined: the quotient is smaller than the value. *)
LEMMA DigitsExist ==
  ASSUME NEW base \in Bases, NEW upper, NEW value \in Nat
  PROVE  \E f : IsDigits(f, value, base, upper)
  <1> DEFINE S == {k \in Nat : \E f : IsDigits(f, k, base, upper)}
  <1>0. base \in Nat \ {0}
    BY DEF Bases
  <1>1. 0 \in S
    <2> DEFINE h == [v \in 0 .. 0 |-> <<Digit(0, upper)>>]
    <2>1. IsDigits(h, 0, base, upper)
      BY <1>0 DEF IsDigits
    <2> QED
      BY <2>1
  <1>2. ASSUME NEW k \in Nat, k \in S PROVE k + 1 \in S
    <2>1. PICK f : IsDigits(f, k, base, upper)
      BY <1>2
    <2> DEFINE next == IF k + 1 < base THEN <<Digit(k + 1, upper)>>
                       ELSE Append(f[(k + 1) \div base], Digit((k + 1) % base, upper))
               h == [v \in 0 .. k + 1 |-> IF v = k + 1 THEN next ELSE f[v]]
    <2>2. ASSUME NEW v \in 0 .. k + 1, v >= base
          PROVE  v \div base \in 0 .. k /\ h[v \div base] = f[v \div base]
      <3>1. v \div base \in Nat /\ v \div base < v
        BY <2>2, Quotients
      <3>2. v \div base \in 0 .. k
        BY <3>1
      <3> QED
        BY <3>2
    <2>3. ASSUME NEW v \in 0 .. k + 1
          PROVE  h[v] = IF v < base THEN <<Digit(v, upper)>>
                        ELSE Append(h[v \div base], Digit(v % base, upper))
      <3>1. CASE v = k + 1
        <4>1. h[v] = next
          BY <3>1
        <4> HIDE DEF h
        <4> QED
          BY <3>1, <4>1, <2>2, <1>0
      <3>2. CASE v \in 0 .. k
        <4>1. h[v] = f[v]
          BY <3>2
        <4> HIDE DEF h, next
        <4>2. f[v] = IF v < base THEN <<Digit(v, upper)>>
                     ELSE Append(f[v \div base], Digit(v % base, upper))
          BY <3>2, <2>1 DEF IsDigits
        <4> QED
          BY <4>1, <4>2, <2>2, <1>0
      <3> QED
        BY <3>1, <3>2
    <2>4. h = [v \in 0 .. k + 1 |-> h[v]]
      OBVIOUS
    <2> HIDE DEF h
    <2>5. IsDigits(h, k + 1, base, upper)
      BY <2>3, <2>4 DEF IsDigits
    <2> QED
      BY <2>5
  <1>3. Nat \subseteq S
    <2> HIDE DEF S
    <2> QED
      BY <1>1, <1>2, AllNaturals
  <1> QED
    BY <1>3

LEMMA DigitsAre ==
  ASSUME NEW base \in Bases, NEW upper, NEW value \in Nat
  PROVE  \E f : IsDigits(f, value, base, upper) /\ outdigits(value, base, upper) = f[value]
  <1> DEFINE c == CHOOSE f : IsDigits(f, value, base, upper)
  <1>1. IsDigits(c, value, base, upper)
    BY DigitsExist
  <1>2. outdigits(value, base, upper) = c[value]
    BY DEF outdigits, IsDigits
  <1> QED
    BY <1>1, <1>2

(* The digits of every base, in both cases. *)
AllDigits == {"0", "1", "2", "3", "4", "5", "6", "7", "8", "9", "a", "b", "c", "d", "e", "f",
              "A", "B", "C", "D", "E", "F"}

(* A digit has its own value. *)
LEMMA DigitKinds ==
  ASSUME NEW d \in 0 .. 15, NEW upper \in BOOLEAN
  PROVE  Digit(d, upper) \in AllDigits /\ DigitValue(Digit(d, upper)) = d
  <1>1. Digit(d, upper) \in AllDigits
    BY DEF Digit, Lower, Upper, AllDigits
  <1>2. ASSUME NEW e \in 0 .. 15, NEW other \in BOOLEAN, Digit(d, upper) = Digit(e, other)
        PROVE  e = d
    BY <1>2 DEF Digit, Lower, Upper
  <1>3. Digit(d, upper) \in {Digit(d, TRUE), Digit(d, FALSE)}
    OBVIOUS
  <1>4. \A e \in 0 .. 15 : Digit(d, upper) \in {Digit(e, TRUE), Digit(e, FALSE)} => e = d
    BY <1>2
  <1> QED
    BY <1>1, <1>3, <1>4 DEF DigitValue

(* A number is written with digits, at least one. *)
LEMMA DigitsTyped ==
  ASSUME NEW base \in Bases, NEW upper \in BOOLEAN, NEW value \in Nat, NEW f,
         IsDigits(f, value, base, upper)
  PROVE  \A v \in 0 .. value : f[v] \in Seq(AllDigits) /\ Len(f[v]) >= 1
  <1> DEFINE P(v) == f[v] \in Seq(AllDigits) /\ Len(f[v]) >= 1
             S == {k \in Nat : \A v \in 0 .. k : P(v)}
  <1>0. base \in 1 .. 16
    BY DEF Bases
  <1>1. ASSUME NEW v \in 0 .. value, v >= base => P(v \div base)
        PROVE  P(v)
    <2>1. f[v] = IF v < base THEN <<Digit(v, upper)>>
                 ELSE Append(f[v \div base], Digit(v % base, upper))
      BY DEF IsDigits
    <2>2. v % base \in 0 .. 15 /\ (v < base => v \in 0 .. 15)
      BY <1>0, Quotients
    <2>3. Digit(v % base, upper) \in AllDigits /\ (v < base => Digit(v, upper) \in AllDigits)
      BY <2>2, DigitKinds
    <2> QED
      BY <1>0, <1>1, <2>1, <2>3
  <1> HIDE DEF P
  <1>2. 0 \in S
    BY <1>0, <1>1
  <1>3. ASSUME NEW k \in 0 .. value - 1, k \in S PROVE k + 1 \in S
    <2>1. k + 1 >= base => (k + 1) \div base \in 0 .. k
      BY Quotients, <1>0
    <2>2. P(k + 1)
      BY <1>1, <1>3, <2>1
    <2> QED
      BY <1>3, <2>2
  <1>4. \A k \in 0 .. value : k \in S
    <2> HIDE DEF S
    <2> QED
      BY <1>2, <1>3, UpToBound
  <1> QED
    BY <1>4 DEF P

(* A number below a power of ten has no more digits than that, in base 10 *)
(* and 16.                                                                *)
LEMMA DigitsFit ==
  ASSUME NEW base \in {10, 16}, NEW upper \in BOOLEAN, NEW value \in Nat, NEW f,
         IsDigits(f, value, base, upper), NEW n \in Nat
  PROVE  \A v \in 0 .. value : v < Power(10, n + 1) => Len(f[v]) <= n + 1
  <1> DEFINE P(m) == \A v \in 0 .. value : v < Power(10, m + 1) => Len(f[v]) <= m + 1
             S == {m \in Nat : P(m)}
  <1>0. base \in Bases
    BY DEF Bases
  <1>1. \A v \in 0 .. value : f[v] = IF v < base THEN <<Digit(v, upper)>>
                                   ELSE Append(f[v \div base], Digit(v % base, upper))
    BY DEF IsDigits
  <1>2. Power(10, 1) = 10
    <2>1. Power(10, 0) = 1 /\ Power(10, 0 + 1) = 10 * Power(10, 0)
      BY PowerFacts
    <2> QED
      BY <2>1
  <1>3. 0 \in S
    <2>1. ASSUME NEW v \in 0 .. value, v < Power(10, 0 + 1) PROVE Len(f[v]) <= 0 + 1
      <3>1. v < base
        BY <1>2, <2>1
      <3>2. f[v] = <<Digit(v, upper)>>
        BY <1>1, <3>1
      <3> QED
        BY <3>2
    <2> QED
      BY <2>1
  <1>4. ASSUME NEW m \in Nat, m \in S PROVE m + 1 \in S
    <2> DEFINE q == Power(10, m + 1)
    <2>1. q \in Nat /\ Power(10, m + 1 + 1) = 10 * q
      <3> DEFINE e == m + 1
      <3>1. e \in Nat /\ 10 \in Nat
        OBVIOUS
      <3> HIDE DEF e
      <3>2. Power(10, e) \in Nat /\ Power(10, e + 1) = 10 * Power(10, e)
        BY <3>1, PowerFacts
      <3> QED
        BY <3>2 DEF e
    <2> HIDE DEF q
    <2>2. ASSUME NEW v \in 0 .. value, v < Power(10, m + 1 + 1) PROVE Len(f[v]) <= m + 1 + 1
      <3>1. CASE v < base
        <4>1. f[v] = <<Digit(v, upper)>>
          BY <1>1, <3>1
        <4> QED
          BY <4>1
      <3>2. CASE v >= base
        <4>0. ~(v < base)
          BY <3>2, <1>0 DEF Bases
        <4>1. f[v] = Append(f[v \div base], Digit(v % base, upper))
          BY <1>1, <4>0
        <4>2. v < 10 * q
          BY <2>1, <2>2
        <4>3. v \div base \in 0 .. value /\ v \div base < q
          BY <2>1, <4>2
        <4>4. Len(f[v \div base]) <= m + 1
          BY <1>4, <4>3 DEF q
        <4>5. f[v \div base] \in Seq(AllDigits)
          BY <1>0, <4>3, DigitsTyped
        <4>6. Len(f[v]) = Len(f[v \div base]) + 1
          BY <4>1, <4>5
        <4> QED
          BY <4>4, <4>5, <4>6
      <3> QED
        BY <3>1, <3>2, <1>0 DEF Bases
    <2>3. P(m + 1)
      BY <2>2
    <2> QED
      BY <2>3
  <1>5. n \in S
    <2> HIDE DEF S
    <2> QED
      BY <1>3, <1>4, AllNaturals
  <1> QED
    BY <1>5

-----------------------------------------------------------------------------
(* Reading digits back. *)

(* The function ReadBack chooses. *)
IsRead(r, chars, n, base, skip) ==
  r = [i \in 0 .. n |->
        IF i = 0 THEN 0
        ELSE IF chars[i] \in skip THEN r[i - 1]
        ELSE r[i - 1] * base + DigitValue(chars[i])]

(* ReadBack is well defined on digits and characters it skips. *)
LEMMA ReadExists ==
  ASSUME NEW chars, NEW base \in Bases, NEW skip, NEW n \in Nat,
         \A i \in 1 .. n : chars[i] \in skip \cup AllDigits
  PROVE  \E r : IsRead(r, chars, n, base, skip)
  <1> DEFINE worth(i) == IF chars[i] \in AllDigits THEN DigitValue(chars[i]) ELSE 0
             next == [i \in Nat |-> [x \in Nat |-> IF chars[i] \in skip THEN x
                                                   ELSE x * base + worth(i)]]
  <1>1. \A i \in Nat : worth(i) \in Nat
    <2> SUFFICES ASSUME NEW i \in Nat, chars[i] \in AllDigits PROVE DigitValue(chars[i]) \in Nat
      OBVIOUS
    <2>1. PICK d \in 0 .. 15 : chars[i] = Digit(d, TRUE) \/ chars[i] = Digit(d, FALSE)
      BY DEF AllDigits, Digit, Lower, Upper
    <2>2. DigitValue(Digit(d, TRUE)) = d /\ DigitValue(Digit(d, FALSE)) = d
      BY DigitKinds
    <2>3. CASE chars[i] = Digit(d, TRUE)
      <3>1. DigitValue(chars[i]) = d
        BY <2>2, <2>3, Zenon
      <3>2. d \in Nat
        OBVIOUS
      <3> QED
        BY <3>1, <3>2
    <2>4. CASE chars[i] = Digit(d, FALSE)
      <3>1. DigitValue(chars[i]) = d
        BY <2>2, <2>4, Zenon
      <3>2. d \in Nat
        OBVIOUS
      <3> QED
        BY <3>1, <3>2
    <2> QED
      BY <2>1, <2>3, <2>4
  <1>2. next \in [Nat -> [Nat -> Nat]]
    <2>1. \A i, x \in Nat : x * base + worth(i) \in Nat
      BY <1>1 DEF Bases
    <2> QED
      BY <2>1
  <1> HIDE DEF next
  <1>4. PICK r \in [0 .. n -> Nat] : Iterates(r, 0, next, n)
    BY <1>2, IteratesExist
  <1>5. ASSUME NEW i \in 1 .. n
        PROVE  r[i] = IF chars[i] \in skip THEN r[i - 1]
                   ELSE r[i - 1] * base + DigitValue(chars[i])
    <2>1. i - 1 \in 0 .. n /\ i \in Nat
      OBVIOUS
    <2>2. r[i] = next[i][r[i - 1]] /\ r[i - 1] \in Nat
      BY <1>4, <2>1 DEF Iterates
    <2>3. next[i][r[i - 1]] = IF chars[i] \in skip THEN r[i - 1] ELSE r[i - 1] * base + worth(i)
      BY <2>1, <2>2 DEF next
    <2>4. chars[i] \notin skip => worth(i) = DigitValue(chars[i])
      OBVIOUS
    <2> HIDE DEF worth
    <2> QED
      BY <2>2, <2>3, <2>4
  <1>6. r[0] = 0
    BY <1>4 DEF Iterates
  <1>7. IsRead(r, chars, n, base, skip)
    BY <1>5, <1>6 DEF IsRead
  <1> QED
    BY <1>7

(* A set of characters without a digit. *)
NoDigits(set) == set \cap AllDigits = {}

(* The characters behind the first i, up to the j-th, are of a kind. *)
Among(chars, i, j, sort) == \A l \in i + 1 .. j : chars[l] \in sort
(* The digits stand in the characters, behind the first k. *)
Stand(chars, k, digits) == \A i \in 1 .. Len(digits) : chars[k + i] = digits[i]

(* Zeros and what is skipped in front of the digits are worth nothing, and *)
(* what is skipped behind them changes nothing.                            *)
LEMMA LeadingZeros ==
  ASSUME NEW chars, NEW base \in Bases, NEW skip, NEW r, NEW n \in Nat,
         IsRead(r, chars, n, base, skip), NEW k \in 0 .. n,
         Among(chars, 0, k, skip \cup {"0"})
  PROVE  r[k] = 0
  <1>1. r[0] = 0
    BY DEF IsRead
  <1>2. \A i \in 1 .. n :
          r[i] = IF chars[i] \in skip THEN r[i - 1] ELSE (r[i - 1] * base) + DigitValue(chars[i])
    BY DEF IsRead
  <1> DEFINE S == {i \in Nat : r[i] = 0}
  <1>3. 0 \in S
    BY <1>1
  <1>4. ASSUME NEW i \in 0 .. k - 1, i \in S PROVE i + 1 \in S
    <2>1. chars[i + 1] \in skip \cup {"0"} /\ i + 1 \in 1 .. n /\ r[i] = 0
      BY <1>4 DEF Among
    <2>2. DigitValue("0") = 0
      <3>1. Digit(0, TRUE) = "0"
        BY DEF Digit, Upper
      <3> DEFINE d == 0
      <3>2. d \in 0 .. 15
        OBVIOUS
      <3> HIDE DEF d
      <3>3. DigitValue(Digit(d, TRUE)) = d
        BY <3>2, DigitKinds
      <3> QED
        BY <3>1, <3>3 DEF d
    <2>3. (0 * base) + 0 = 0
      BY DEF Bases
    <2>4. r[i + 1] = IF chars[i + 1] \in skip THEN r[i]
                     ELSE (r[i] * base) + DigitValue(chars[i + 1])
      BY <1>2, <2>1
    <2> QED
      BY <2>1, <2>2, <2>3, <2>4
  <1>5. \A i \in 0 .. k : i \in S
    <2> HIDE DEF S
    <2> QED
      BY <1>3, <1>4, UpToBound
  <1> QED
    BY <1>5

LEMMA TrailingSkipped ==
  ASSUME NEW chars, NEW base \in Bases, NEW skip, NEW r, NEW n \in Nat,
         IsRead(r, chars, n, base, skip), NEW k \in 0 .. n,
         Among(chars, k, n, skip)
  PROVE  r[n] = r[k]
  <1>1. \A i \in 1 .. n : chars[i] \in skip => r[i] = r[i - 1]
    BY DEF IsRead
  <1> DEFINE m == n - k
             S == {i \in Nat : r[k + i] = r[k]}
  <1>2. 0 \in S
    OBVIOUS
  <1>3. ASSUME NEW i \in 0 .. m - 1, i \in S PROVE i + 1 \in S
    <2>1. k + (i + 1) \in 1 .. n /\ chars[k + (i + 1)] \in skip
      BY DEF Among
    <2>2. r[k + (i + 1)] = r[k + (i + 1) - 1]
      BY <1>1, <2>1
    <2>3. k + (i + 1) - 1 = k + i
      OBVIOUS
    <2> QED
      BY <1>3, <2>2, <2>3
  <1>4. m \in Nat
    OBVIOUS
  <1> HIDE DEF m
  <1>5. \A i \in 0 .. m : i \in S
    <2> HIDE DEF S
    <2> QED
      BY <1>2, <1>3, <1>4, UpToBound
  <1>6. m \in S
    BY <1>4, <1>5
  <1> QED
    BY <1>6 DEF m

(* Digits with zeros in front, and with what is skipped around them, read *)
(* back as the number they were made from.                                *)
LEMMA PiecesReadBack ==
  ASSUME NEW chars, NEW base \in Bases, NEW skip, NEW r, NEW n \in Nat,
         IsRead(r, chars, n, base, skip), NoDigits(skip),
         NEW upper \in BOOLEAN, NEW value \in Nat, NEW f, IsDigits(f, value, base, upper),
         NEW k \in 0 .. n, Among(chars, 0, k, skip \cup {"0"}),
         Stand(chars, k, f[value]),
         k + Len(f[value]) \in 0 .. n, Among(chars, k + Len(f[value]), n, skip)
  PROVE  r[n] = value
  <1> DEFINE Digitwise(v) == k + Len(f[v]) <= n /\ Stand(chars, k, f[v])
             P(v) == Digitwise(v) => r[k + Len(f[v])] = v
             S == {j \in Nat : \A v \in 0 .. j : P(v)}
  <1>0. base \in 1 .. 16
    BY DEF Bases
  <1>6. r[k] = 0
    BY LeadingZeros
  <1>1. ASSUME NEW v \in 0 .. value, v >= base => P(v \div base)
        PROVE  P(v)
    <2>1. f[v] = IF v < base THEN <<Digit(v, upper)>>
                 ELSE Append(f[v \div base], Digit(v % base, upper))
      BY DEF IsDigits
    <2>2. v % base \in 0 .. 15 /\ (v < base => v \in 0 .. 15 /\ v % base = v)
      <3> DEFINE m == v % base
      <3>0. v \in Nat
        OBVIOUS
      <3>1. m \in 0 .. base - 1 /\ (v < base => m = v)
        BY <3>0, Quotients
      <3> HIDE DEF m
      <3>2. m \in 0 .. 15 /\ (v < base => v \in 0 .. 15 /\ m = v)
        BY <1>0, <3>1
      <3> QED
        BY <3>2 DEF m
    <2> DEFINE d == Digit(v % base, upper)
    <2>3. d \in AllDigits /\ DigitValue(d) = v % base
      BY <2>2, DigitKinds
    <2>4. \A i \in 1 .. n : chars[i] = d => r[i] = r[i - 1] * base + (v % base)
      <3> HIDE DEF d
      <3> QED
          BY <2>3 DEF IsRead, NoDigits
    <2>5. SUFFICES ASSUME Digitwise(v) PROVE r[k + Len(f[v])] = v
      OBVIOUS
    <2>6. CASE v < base
      <3>1. f[v] = <<d>> /\ Len(f[v]) = 1 /\ f[v][1] = d
        BY <2>1, <2>2, <2>6
      <3> HIDE DEF d
      <3>2. k + 1 \in 1 .. n /\ chars[k + 1] = d
        BY <2>5, <3>1 DEF Stand
      <3>3. r[k + 1] = r[k + 1 - 1] * base + (v % base)
        BY <2>4, <3>2
      <3>4. k + 1 - 1 = k
        OBVIOUS
      <3>5. 0 * base + v = v
        BY <1>0
      <3> QED
        BY <1>6, <3>1, <3>3, <3>4, <3>5, <2>2, <2>6
    <2>7. CASE v >= base
      <3> DEFINE q == v \div base
      <3>1. f[v] = Append(f[q], d)
        BY <2>1, <2>7, <1>0
      <3>2. q \in 0 .. value /\ v = (q * base) + (v % base)
        <4>1. q \in Nat /\ v = (q * base) + (v % base) /\ q < v
          BY <2>7, Quotients
        <4> HIDE DEF q
        <4> QED
          BY <4>1
      <3>3. f[q] \in Seq(AllDigits)
        BY <3>2, DigitsTyped
      <3> HIDE DEF d
      <3>4. /\ Len(f[v]) = Len(f[q]) + 1 /\ Len(f[q]) \in Nat
            /\ \A i \in 1 .. Len(f[q]) : f[v][i] = f[q][i]
            /\ f[v][Len(f[q]) + 1] = d
        BY <2>3, <3>1, <3>3
      <3>5. Digitwise(q)
        BY <2>5, <3>4 DEF Stand
      <3>6. r[k + Len(f[q])] = q
        BY <1>1, <2>7, <3>5
      <3>7. k + Len(f[v]) \in 1 .. n /\ chars[k + Len(f[v])] = d
        <4> DEFINE l == Len(f[v])
        <4>1. l \in Nat /\ l >= 1 /\ f[v][l] = d
          BY <3>4
        <4>2. k + l <= n /\ \A i \in 1 .. l : chars[k + i] = f[v][i]
          BY <2>5 DEF Stand
        <4> HIDE DEF l
        <4>3. k + l \in 1 .. n /\ chars[k + l] = d
          BY <4>1, <4>2
        <4> QED
          BY <4>3 DEF l
      <3>8. k + Len(f[v]) - 1 = k + Len(f[q])
        BY <3>4
      <3>9. r[k + Len(f[v])] = r[k + Len(f[q])] * base + (v % base)
        BY <2>4, <3>7, <3>8
      <3> QED
        BY <3>2, <3>6, <3>9
    <2> QED
      BY <2>6, <2>7, <1>0
  <1> HIDE DEF P
  <1>2. 0 \in S
    BY <1>0, <1>1
  <1>3. ASSUME NEW j \in 0 .. value - 1, j \in S PROVE j + 1 \in S
    <2>1. j + 1 >= base => (j + 1) \div base \in 0 .. j
      <3> DEFINE v == j + 1
                 q == v \div base
      <3>1. v \in Nat
        OBVIOUS
      <3> HIDE DEF v
      <3>2. q \in Nat /\ (v >= base => q < v)
        BY <3>1, Quotients
      <3> HIDE DEF q
      <3>3. v >= base => q \in 0 .. j
        BY <3>2 DEF v
      <3> QED
        BY <3>3 DEF v, q
    <2>2. P(j + 1)
      BY <1>1, <1>3, <2>1
    <2> QED
      BY <1>3, <2>2
  <1>4. \A j \in 0 .. value : j \in S
    <2> HIDE DEF S
    <2> QED
      BY <1>2, <1>3, UpToBound
  <1>5. \A v \in 0 .. value : P(v)
    BY <1>4
  <1>7. r[k + Len(f[value])] = value
    BY <1>5 DEF P
  <1>8. r[n] = r[k + Len(f[value])]
    <2> DEFINE m == k + Len(f[value])
    <2>1. m \in 0 .. n /\ Among(chars, m, n, skip)
      OBVIOUS
    <2> HIDE DEF m
    <2>2. r[n] = r[m]
      BY <2>1, TrailingSkipped
    <2> QED
      BY <2>2 DEF m
  <1> QED
    BY <1>7, <1>8

-----------------------------------------------------------------------------
(* Streams. *)

(* The stream's digits and powers are those of Digits. *)
LEMMA StreamDigits ==
  ASSUME NEW value, NEW base, NEW upper
  PROVE  Stream!outdigits(value, base, upper) = outdigits(value, base, upper)
  BY DEF Stream!outdigits, outdigits, Stream!Digit, Digit, Stream!Lower, Lower, Stream!Upper, Upper

LEMMA StreamPowers ==
  ASSUME NEW base, NEW n PROVE Stream!Power(base, n) = Power(base, n)
  BY DEF Stream!Power, Power

LEMMA StreamDigitsAre ==
  ASSUME NEW base \in Bases, NEW upper, NEW value \in Nat
  PROVE  \E f : IsDigits(f, value, base, upper) /\ Stream!outdigits(value, base, upper) = f[value]
  <1>1. PICK f : IsDigits(f, value, base, upper) /\ outdigits(value, base, upper) = f[value]
    BY DigitsAre
  <1> QED
    BY <1>1, StreamDigits, Zenon

LEMMA StreamPowerFacts ==
  ASSUME NEW base \in Nat, NEW n \in Nat PROVE Stream!Power(base, n) \in Nat
  <1>1. Power(base, n) \in Nat
    BY PowerFacts
  <1> QED
    BY <1>1, StreamPowers, Zenon

LEMMA StreamPowersGrow ==
  ASSUME NEW base \in Nat \ {0}, NEW n \in Nat PROVE Stream!Power(base, n) \in Nat \ {0}
  <1>1. Power(base, n) \in Nat \ {0}
    BY PowersGrow
  <1> QED
    BY <1>1, StreamPowers, Zenon

(* What a piece of text is made of, and two pieces together. *)
LEMMA PiecesJoin ==
  ASSUME NEW C, NEW a \in Seq(C), NEW b \in Seq(C)
  PROVE  /\ a \o b \in Seq(C) /\ Len(a \o b) = Len(a) + Len(b)
         /\ Stream!ToSet(a \o b) = Stream!ToSet(a) \cup Stream!ToSet(b)
  <1>1. a \o b \in Seq(C) /\ Len(a \o b) = Len(a) + Len(b)
    OBVIOUS
  <1>2. \A i \in 1 .. Len(a) : (a \o b)[i] = a[i]
    OBVIOUS
  <1>3. \A i \in 1 .. Len(b) : (a \o b)[Len(a) + i] = b[i]
    OBVIOUS
  <1>4. /\ DOMAIN a = 1 .. Len(a) /\ DOMAIN b = 1 .. Len(b)
        /\ DOMAIN (a \o b) = 1 .. Len(a) + Len(b) /\ Len(a) \in Nat /\ Len(b) \in Nat
    OBVIOUS
  <1>5. Stream!ToSet(a) \subseteq Stream!ToSet(a \o b)
    BY <1>2, <1>4 DEF Stream!ToSet
  <1>6. Stream!ToSet(b) \subseteq Stream!ToSet(a \o b)
    <2>1. SUFFICES ASSUME NEW i \in 1 .. Len(b) PROVE b[i] \in Stream!ToSet(a \o b)
      BY <1>4 DEF Stream!ToSet
    <2>2. Len(a) + i \in DOMAIN (a \o b)
      BY <1>4
    <2> QED
      BY <1>3, <2>2 DEF Stream!ToSet
  <1>7. Stream!ToSet(a \o b) \subseteq Stream!ToSet(a) \cup Stream!ToSet(b)
    <2>1. SUFFICES ASSUME NEW i \in 1 .. Len(a) + Len(b)
                   PROVE  (a \o b)[i] \in Stream!ToSet(a) \cup Stream!ToSet(b)
      BY <1>4 DEF Stream!ToSet
    <2>2. CASE i \in 1 .. Len(a)
      BY <1>2, <1>4, <2>2 DEF Stream!ToSet
    <2>3. CASE i > Len(a)
      <3>1. i - Len(a) \in 1 .. Len(b) /\ Len(a) + (i - Len(a)) = i
        BY <1>4, <2>3
      <3>2. (a \o b)[i] = b[i - Len(a)]
        BY <1>3, <3>1
      <3> QED
        BY <1>4, <3>1, <3>2 DEF Stream!ToSet
    <2> QED
      BY <1>4, <2>2, <2>3
  <1> QED
    BY <1>1, <1>5, <1>6, <1>7

LEMMA PieceOf ==
  ASSUME NEW C, NEW a \in Seq(C), NEW D, NEW x, Stream!ToSet(a) \subseteq {x}, x \in D
  PROVE  a \in Seq(D)
  <1>1. Len(a) \in Nat /\ \A i \in 1 .. Len(a) : a[i] \in D
    BY DEF Stream!ToSet
  <1>2. a = [i \in 1 .. Len(a) |-> a[i]]
    OBVIOUS
  <1> QED
    BY <1>1, <1>2

(* What outdigits writes are digits. *)
LEMMA DigitsInBase ==
  ASSUME NEW base \in Bases, NEW upper \in BOOLEAN, NEW value \in Nat
  PROVE  Stream!outdigits(value, base, upper) \in Seq(AllDigits)
             /\ Len(Stream!outdigits(value, base, upper)) >= 1
  <1>1. PICK f : IsDigits(f, value, base, upper) /\ Stream!outdigits(value, base, upper) = f[value]
    BY StreamDigitsAre
  <1> QED
    BY <1>1, DigitsTyped

(* A number in front of and behind anything that is skipped reads back. *)
LEMMA ReadsBackIn ==
  ASSUME NEW base \in Bases, NEW upper \in BOOLEAN, NEW value \in Nat,
         NoDigits(Stream!Skipped),
         NEW front \in Seq(Stream!Skipped \cup {"0"}), NEW back \in Seq(Stream!Skipped)
  PROVE  Stream!ReadBack(front \o Stream!outdigits(value, base, upper) \o back, base) = value
  <1> DEFINE C == Stream!Skipped \cup AllDigits
             digits == Stream!outdigits(value, base, upper)
             chars == front \o digits \o back
             r == CHOOSE g : IsRead(g, chars, Len(chars), base, Stream!Skipped)
  <1>1. PICK f : IsDigits(f, value, base, upper) /\ digits = f[value]
    BY StreamDigitsAre
  <1>2. digits \in Seq(AllDigits)
    BY DigitsInBase
  <1> HIDE DEF digits
  <1>3. "0" \in AllDigits
    BY DEF AllDigits
  <1>4. front \in Seq(C) /\ digits \in Seq(C) /\ back \in Seq(C)
    BY <1>2, <1>3
  <1>5. /\ chars \in Seq(C) /\ Len(chars) = Len(front) + Len(digits) + Len(back)
        /\ \A i \in 1 .. Len(front) : chars[i] = front[i]
        /\ \A i \in 1 .. Len(digits) : chars[Len(front) + i] = digits[i]
        /\ \A i \in Len(front) + Len(digits) + 1 .. Len(chars) :
             chars[i] = back[i - (Len(front) + Len(digits))]
    <2> HIDE DEF C
    <2> QED
      BY <1>4
  <1>6. Len(front) \in Nat /\ Len(digits) \in Nat /\ Len(back) \in Nat
    BY <1>4
  <1> HIDE DEF chars
  <1>7. Len(chars) \in Nat
    BY <1>5, <1>6
  <1>8. \A i \in 1 .. Len(chars) : chars[i] \in Stream!Skipped \cup AllDigits
    BY <1>5
  <1>9. IsRead(r, chars, Len(chars), base, Stream!Skipped)
    BY <1>7, <1>8, ReadExists
  <1>10. Stream!ReadBack(chars, base) = r[Len(chars)]
    BY DEF Stream!ReadBack, IsRead, Stream!DigitValue, DigitValue, Stream!Digit, Digit,
           Stream!Lower, Lower, Stream!Upper, Upper
  <1> HIDE DEF r, C
  <1>11. r[Len(chars)] = value
    <2> DEFINE k == Len(front)
               n == Len(chars)
               m == k + Len(f[value])
    <2>1. k \in 0 .. n /\ m \in 0 .. n /\ n \in Nat /\ m + Len(back) = n
      BY <1>1, <1>5, <1>6
    <2>2. Among(chars, 0, k, Stream!Skipped \cup {"0"})
      BY <1>5 DEF Among
    <2>3. Among(chars, m, n, Stream!Skipped)
      <3>1. SUFFICES ASSUME NEW i \in m + 1 .. n PROVE chars[i] \in Stream!Skipped
        BY DEF Among
      <3>2. chars[i] = back[i - m]
        BY <1>1, <1>5
      <3> HIDE DEF m, n
      <3>3. i - m \in 1 .. Len(back)
        BY <2>1, <1>6
      <3> QED
        BY <3>2, <3>3
    <2>4. Stand(chars, k, f[value])
      BY <1>1, <1>5 DEF Stand
    <2>5. IsRead(r, chars, n, base, Stream!Skipped)
      BY <1>9
    <2>6. k + Len(f[value]) \in 0 .. n /\ Among(chars, k + Len(f[value]), n, Stream!Skipped)
      BY <2>1, <2>3
    <2> HIDE DEF k, n, m
    <2>7. r[n] = value
      BY <1>1, <2>1, <2>2, <2>4, <2>5, <2>6, PiecesReadBack
    <2> QED
      BY <2>7 DEF n
  <1> QED
    BY <1>10, <1>11 DEF chars, digits

(* The parts of a written number, and the padding (ostream.cpp). *)
Sign == IF "showpos" \in flags_ THEN <<"+">> ELSE <<>>
Prefix(value) ==
  IF "showbase" \notin flags_ THEN <<>>
  ELSE IF "hex" \in flags_ THEN <<"0", IF "uppercase" \in flags_ THEN "X" ELSE "x">>
  ELSE IF "oct" \in flags_ /\ value # 0 THEN <<"0">> ELSE <<>>
Number(value) == Stream!outdigits(value, Stream!Base(flags_), "uppercase" \in flags_)
Printed(value) == Len(Sign) + Len(Prefix(value)) + Len(Number(value))
Pad(value) == Stream!Padding(IF Printed(value) < width_ THEN width_ - Printed(value) ELSE 0)

(* The order of the parts. *)
LEMMA OutIs ==
  ASSUME NEW value, NEW isSigned
  PROVE  Stream!out(value, isSigned, FALSE) =
           IF "left" \in flags_ THEN Pad(value) \o Sign \o Prefix(value) \o Number(value)
           ELSE IF "internal" \in flags_ THEN Sign \o Prefix(value) \o Pad(value) \o Number(value)
           ELSE Sign \o Prefix(value) \o Number(value) \o Pad(value)
  BY Zenon DEF Stream!out, Sign, Prefix, Number, Printed, Pad

(* Every digit is one of Lower or Upper. *)
LEMMA DigitsListed == AllDigits \subseteq Stream!ToSet(Stream!Lower)
    \cup Stream!ToSet(Stream!Upper)
  <1>1. DOMAIN Stream!Lower = 1 .. 16
    BY DEF Stream!Lower
  <1>2. DOMAIN Stream!Upper = 1 .. 16
    BY DEF Stream!Upper
  <1>3. \A i \in 1 .. 16 : Stream!Lower[i] \in Stream!ToSet(Stream!Lower)
            /\ Stream!Upper[i] \in Stream!ToSet(Stream!Upper)
    BY <1>1, <1>2 DEF Stream!ToSet
  <1>4. \A c \in AllDigits : \E i \in 1 .. 16 : c = Stream!Lower[i] \/ c = Stream!Upper[i]
    BY DEF AllDigits, Stream!Lower, Stream!Upper
  <1> QED
    BY <1>3, <1>4

(* What the fill may be: a fill of the callers, or the blank it starts as. *)
FillOK == fill_ = " " \/ fill_ \in Fills
(* Zeros as a fill behind the number: it cannot be read back then. *)
ZeroesBehind == fill_ = "0" /\ flags_ \cap {"left", "internal"} = {}

(* A fill is skipped, or zero. *)
LEMMA FillKnown ==
  ASSUME Stream!StreamAssumption, FillOK
  PROVE  /\ fill_ \in AllDigits \cup {"+", "x", "X"} => fill_ = "0"
         /\ NoDigits(Stream!Skipped) /\ fill_ \in Stream!Skipped \cup {"0"}
  <1>1. fill_ \in AllDigits \cup {"+", "x", "X"} => fill_ = "0"
    BY DigitsListed DEF Stream!StreamAssumption, AllDigits, FillOK
  <1>2. NoDigits(Stream!Skipped)
    BY <1>1 DEF Stream!Skipped, AllDigits, NoDigits, FillOK
  <1>3. fill_ \in Stream!Skipped \cup {"0"}
    BY DEF Stream!Skipped
  <1> QED
    BY <1>1, <1>2, <1>3

(* What the parts are made of, and how long the padding is. *)
LEMMA PartsOf ==
  ASSUME NEW value \in Nat, NEW C, Stream!Skipped \subseteq C, AllDigits \subseteq C,
         fill_ \in C, width_ \in Nat
  PROVE  /\ Sign \in Seq(C) /\ Prefix(value) \in Seq(C) /\ Number(value) \in Seq(C)
         /\ Pad(value) \in Seq(C)
         /\ Len(Pad(value)) = IF Printed(value) < width_ THEN width_ - Printed(value) ELSE 0
         /\ Printed(value) \in Nat \ {0}
         /\ Stream!ToSet(Sign) = IF "showpos" \in flags_ THEN {"+"} ELSE {}
         /\ Stream!ToSet(Prefix(value)) \subseteq {"0", "x", "X"}
         /\ Stream!ToSet(Number(value)) \subseteq AllDigits
         /\ Stream!ToSet(Pad(value)) \subseteq {fill_}
  <1>1. "+" \in C /\ "x" \in C /\ "X" \in C /\ "0" \in C
    BY DEF Stream!Skipped, AllDigits
  <1>2. Sign \in Seq(C) /\ Len(Sign) \in Nat /\ Stream!ToSet(Sign) = IF "showpos" \in flags_
            THEN {"+"} ELSE {}
    BY <1>1 DEF Sign, Stream!ToSet
  <1>3. Prefix(value) \in Seq(C) /\ Len(Prefix(value)) \in Nat
            /\ Stream!ToSet(Prefix(value)) \subseteq {"0", "x", "X"}
    BY <1>1 DEF Prefix, Stream!ToSet
  <1>4. /\ Number(value) \in Seq(C) /\ Len(Number(value)) \in Nat \ {0}
        /\ Stream!ToSet(Number(value)) \subseteq AllDigits
    <2>1. Stream!Base(flags_) \in Bases /\ ("uppercase" \in flags_) \in BOOLEAN
      BY DEF Stream!Base, Bases
    <2>2. Number(value) \in Seq(AllDigits) /\ Len(Number(value)) >= 1
      BY <2>1, DigitsInBase DEF Number
    <2> QED
      BY <2>2 DEF Stream!ToSet
  <1> DEFINE n == IF Printed(value) < width_ THEN width_ - Printed(value) ELSE 0
  <1>5. Printed(value) \in Nat \ {0} /\ n \in Nat
    BY <1>2, <1>3, <1>4 DEF Printed
  <1>6. Pad(value) = [i \in 1 .. n |-> fill_]
    BY DEF Pad, Stream!Padding
  <1> HIDE DEF n
  <1>7. Pad(value) \in Seq(C) /\ Len(Pad(value)) = n /\ Stream!ToSet(Pad(value)) \subseteq {fill_}
    BY <1>5, <1>6 DEF Stream!ToSet
  <1> QED
    BY <1>2, <1>3, <1>4, <1>5, <1>7 DEF n

(* A field is as wide as asked, and shows a plus when asked. *)
LEMMA WrittenFills ==
  ASSUME Stream!StreamAssumption, width_ \in Nat, FillOK, NEW value \in Nat, NEW isSigned
  PROVE  LET chars == Stream!out(value, isSigned, FALSE)
         IN /\ Len(chars) >= width_ /\ Len(chars) \in Nat
            /\ Len(chars) > width_ => fill_ = "0" \/ fill_ \notin Stream!ToSet(chars)
            /\ "+" \in Stream!ToSet(chars) <=> "showpos" \in flags_
  <1> DEFINE chars == Stream!out(value, isSigned, FALSE)
  <1>0. chars = IF "left" \in flags_ THEN Pad(value) \o Sign \o Prefix(value) \o Number(value)
                ELSE IF "internal" \in flags_
                     THEN Sign \o Prefix(value) \o Pad(value) \o Number(value)
                ELSE Sign \o Prefix(value) \o Number(value) \o Pad(value)
    BY OutIs
  <1> HIDE DEF chars
  <1> DEFINE C == Stream!Skipped \cup AllDigits
  <1>1. /\ fill_ \in AllDigits \cup {"+", "x", "X"} => fill_ = "0"
        /\ fill_ \in C
    BY FillKnown DEF AllDigits
  <1>2. /\ Sign \in Seq(C) /\ Prefix(value) \in Seq(C) /\ Number(value) \in Seq(C)
        /\ Pad(value) \in Seq(C)
        /\ Len(Pad(value)) = IF Printed(value) < width_ THEN width_ - Printed(value) ELSE 0
        /\ Printed(value) \in Nat \ {0}
        /\ Stream!ToSet(Sign) = IF "showpos" \in flags_ THEN {"+"} ELSE {}
        /\ Stream!ToSet(Prefix(value)) \subseteq {"0", "x", "X"}
        /\ Stream!ToSet(Number(value)) \subseteq AllDigits
        /\ Stream!ToSet(Pad(value)) \subseteq {fill_}
    <2>1. Stream!Skipped \subseteq C /\ AllDigits \subseteq C
      OBVIOUS
    <2> HIDE DEF C
    <2> QED
      BY <1>1, <2>1, PartsOf
  <1> HIDE DEF C
  <1> DEFINE sum == Len(Sign) + Len(Prefix(value)) + Len(Number(value)) + Len(Pad(value))
             all == Stream!ToSet(Sign) \cup Stream!ToSet(Prefix(value))
                 \cup Stream!ToSet(Number(value))
                    \cup Stream!ToSet(Pad(value))
  <1>3. Len(chars) = sum /\ Stream!ToSet(chars) = all
    <2> DEFINE a == Sign
               b == Prefix(value)
               c == Number(value)
               d == Pad(value)
    <2>0. a \in Seq(C) /\ b \in Seq(C) /\ c \in Seq(C) /\ d \in Seq(C)
      BY <1>2
    <2>1. chars = IF "left" \in flags_ THEN d \o a \o b \o c
                  ELSE IF "internal" \in flags_ THEN a \o b \o d \o c
                  ELSE a \o b \o c \o d
      BY <1>0
    <2>2. \A w, x, y, z \in Seq(C) :
            /\ Len(w \o x \o y \o z) = Len(w) + Len(x) + Len(y) + Len(z)
            /\ Stream!ToSet(w \o x \o y \o z) = Stream!ToSet(w) \cup Stream!ToSet(x)
                   \cup Stream!ToSet(y) \cup Stream!ToSet(z)
      <3> TAKE w, x, y, z \in Seq(C)
      <3> DEFINE two == w \o x
                 three == two \o y
      <3>1. two \in Seq(C) /\ Len(two) = Len(w) + Len(x) /\ Stream!ToSet(two) = Stream!ToSet(w)
                \cup Stream!ToSet(x)
        BY PiecesJoin
      <3> HIDE DEF two
      <3>5. two \in Seq(C)
        BY <3>1
      <3>2. /\ three \in Seq(C) /\ Len(three) = Len(two) + Len(y)
            /\ Stream!ToSet(three) = Stream!ToSet(two) \cup Stream!ToSet(y)
        BY <3>5, PiecesJoin
      <3> HIDE DEF three
      <3>6. three \in Seq(C)
        BY <3>2
      <3>3. Len(three \o z) = Len(three) + Len(z)
                /\ Stream!ToSet(three \o z) = Stream!ToSet(three) \cup Stream!ToSet(z)
        BY <3>6, PiecesJoin
      <3>4. /\ Len(three \o z) = Len(w) + Len(x) + Len(y) + Len(z)
            /\ Stream!ToSet(three \o z) = Stream!ToSet(w) \cup Stream!ToSet(x)
                   \cup Stream!ToSet(y) \cup Stream!ToSet(z)
        BY <3>1, <3>2, <3>3
      <3> QED
        BY <3>4 DEF two, three
    <2>3. Len(a) \in Nat /\ Len(b) \in Nat /\ Len(c) \in Nat /\ Len(d) \in Nat
      BY <2>0
    <2> HIDE DEF a, b, c, d
    <2>4. /\ Len(chars) = Len(a) + Len(b) + Len(c) + Len(d)
          /\ Stream!ToSet(chars) = Stream!ToSet(a) \cup Stream!ToSet(b) \cup Stream!ToSet(c)
                 \cup Stream!ToSet(d)
      <3>1. CASE "left" \in flags_
        <4>1. chars = d \o a \o b \o c
          BY <2>1, <3>1
        <4>2. /\ Len(chars) = Len(d) + Len(a) + Len(b) + Len(c)
              /\ Stream!ToSet(chars) = Stream!ToSet(d) \cup Stream!ToSet(a) \cup Stream!ToSet(b)
                     \cup Stream!ToSet(c)
          BY <2>0, <2>2, <4>1
        <4> QED
          BY <2>3, <4>2
      <3>2. CASE "left" \notin flags_ /\ "internal" \in flags_
        <4>1. chars = a \o b \o d \o c
          BY <2>1, <3>2
        <4>2. /\ Len(chars) = Len(a) + Len(b) + Len(d) + Len(c)
              /\ Stream!ToSet(chars) = Stream!ToSet(a) \cup Stream!ToSet(b) \cup Stream!ToSet(d)
                     \cup Stream!ToSet(c)
          BY <2>0, <2>2, <4>1
        <4> QED
          BY <2>3, <4>2
      <3>3. CASE "left" \notin flags_ /\ "internal" \notin flags_
        <4>1. chars = a \o b \o c \o d
          BY <2>1, <3>3
        <4> QED
          BY <2>0, <2>2, <4>1
      <3> QED
        BY <3>1, <3>2, <3>3
    <2> QED
      BY <2>4 DEF a, b, c, d
  <1>4. Len(chars) = Printed(value) + Len(Pad(value))
    BY <1>3 DEF Printed
  <1>5. Len(chars) >= width_ /\ Len(chars) \in Nat
    BY <1>2, <1>4
  <1>6. ASSUME Len(chars) > width_, fill_ # "0" PROVE fill_ \notin Stream!ToSet(chars)
    <2>1. Len(Pad(value)) = 0
      BY <1>2, <1>4, <1>6
    <2>2. Stream!ToSet(Pad(value)) = {}
      BY <1>2, <2>1 DEF Stream!ToSet
    <2>3. fill_ \notin AllDigits \cup {"+", "x", "X"} /\ "0" \in AllDigits
      BY <1>1, <1>6 DEF AllDigits
    <2> QED
      BY <1>2, <1>3, <2>2, <2>3
  <1>7. "+" \in Stream!ToSet(chars) <=> "showpos" \in flags_
    <2>1. "+" \notin AllDigits /\ "+" \notin {"0", "x", "X"} /\ fill_ # "+"
      BY <1>1 DEF AllDigits
    <2> QED
      BY <1>2, <1>3, <2>1
  <1> QED
    BY <1>5, <1>6, <1>7 DEF chars

(* A field reads back as its number. *)
LEMMA WrittenReadsBack ==
  ASSUME Stream!StreamAssumption, width_ \in Nat, FillOK, NEW value \in Nat, NEW isSigned,
             ~ZeroesBehind
  PROVE  Stream!ReadBack(Stream!out(value, isSigned, FALSE), Stream!Base(flags_)) = value
  <1> DEFINE C == Stream!Skipped \cup {"0"}
             D == Stream!Skipped \cup AllDigits
             chars == Stream!out(value, isSigned, FALSE)
             upper == "uppercase" \in flags_
             base == Stream!Base(flags_)
  <1>1. NoDigits(Stream!Skipped) /\ fill_ \in C
    BY FillKnown DEF NoDigits
  <1>0. chars = IF "left" \in flags_ THEN Pad(value) \o Sign \o Prefix(value) \o Number(value)
                ELSE IF "internal" \in flags_
                     THEN Sign \o Prefix(value) \o Pad(value) \o Number(value)
                ELSE Sign \o Prefix(value) \o Number(value) \o Pad(value)
    BY OutIs
  <1> HIDE DEF chars
  <1>2. /\ Sign \in Seq(C) /\ Prefix(value) \in Seq(C)
    <2>1. "+" \in C /\ "x" \in C /\ "X" \in C /\ "0" \in C
      BY DEF Stream!Skipped
    <2> HIDE DEF C
    <2> QED
      BY <2>1 DEF Sign, Prefix
  <1>3. /\ Pad(value) \in Seq(D) /\ Stream!ToSet(Pad(value)) \subseteq {fill_}
        /\ Number(value) \in Seq(D)
    <2>1. Stream!Skipped \subseteq D /\ AllDigits \subseteq D /\ fill_ \in D
      BY <1>1 DEF AllDigits
    <2> HIDE DEF D
    <2> QED
      BY <2>1, PartsOf
  <1>4. Pad(value) \in Seq(C)
    BY <1>1, <1>3, PieceOf
  <1>5. base \in Bases /\ upper \in BOOLEAN /\ Number(value) = Stream!outdigits(value, base, upper)
    BY DEF Stream!Base, Bases, Number
  <1> HIDE DEF base, upper
  <1>6. \A front \in Seq(C), back \in Seq(Stream!Skipped) :
          Stream!ReadBack(front \o Number(value) \o back, base) = value
    BY <1>1, <1>5, ReadsBackIn
  <1>7. CASE "left" \in flags_
    <2>1. chars = Pad(value) \o Sign \o Prefix(value) \o Number(value)
      BY <1>7, <1>0
    <2>2. Pad(value) \o Sign \o Prefix(value) \in Seq(C)
      BY <1>2, <1>4
    <2>3. <<>> \in Seq(Stream!Skipped)
      OBVIOUS
    <2>4. chars = (Pad(value) \o Sign \o Prefix(value)) \o Number(value) \o <<>>
      <3> DEFINE a == Pad(value) \o Sign \o Prefix(value)
                 b == Number(value)
      <3>1. a \in Seq(D) /\ b \in Seq(D) /\ chars = a \o b
        BY <1>3, <2>1, <2>2 DEF AllDigits
      <3> HIDE DEF a, b
      <3>2. chars = a \o b \o <<>>
        BY <3>1
      <3> QED
        BY <3>2 DEF a, b
    <2>5. Stream!ReadBack(chars, base) = value
      BY <1>6, <2>2, <2>3, <2>4
    <2> QED
      BY <2>5 DEF chars, base
  <1>8. CASE "left" \notin flags_ /\ "internal" \in flags_
    <2>1. chars = Sign \o Prefix(value) \o Pad(value) \o Number(value)
      BY <1>8, <1>0
    <2>2. Sign \o Prefix(value) \o Pad(value) \in Seq(C)
      BY <1>2, <1>4
    <2>3. <<>> \in Seq(Stream!Skipped)
      OBVIOUS
    <2>4. chars = (Sign \o Prefix(value) \o Pad(value)) \o Number(value) \o <<>>
      <3> DEFINE a == Sign \o Prefix(value) \o Pad(value)
                 b == Number(value)
      <3>1. a \in Seq(D) /\ b \in Seq(D) /\ chars = a \o b
        BY <1>3, <2>1, <2>2 DEF AllDigits
      <3> HIDE DEF a, b
      <3>2. chars = a \o b \o <<>>
        BY <3>1
      <3> QED
        BY <3>2 DEF a, b
    <2>5. Stream!ReadBack(chars, base) = value
      BY <1>6, <2>2, <2>3, <2>4
    <2> QED
      BY <2>5 DEF chars, base
  <1>9. CASE "left" \notin flags_ /\ "internal" \notin flags_
    <2>1. chars = Sign \o Prefix(value) \o Number(value) \o Pad(value)
      BY <1>9, <1>0
    <2>2. Sign \o Prefix(value) \in Seq(C)
      BY <1>2
    <2>3. fill_ \in Stream!Skipped
      <3>1. fill_ # "0"
        BY <1>9 DEF ZeroesBehind
      <3> QED
        BY <3>1 DEF Stream!Skipped
    <2>4. Pad(value) \in Seq(Stream!Skipped)
      BY <1>3, <2>3, PieceOf
    <2>5. Stream!ReadBack(chars, base) = value
      BY <1>6, <2>1, <2>2, <2>4
    <2> QED
      BY <2>5 DEF chars, base
  <1> QED
    BY <1>7, <1>8, <1>9

(* The digits of an integer fit the buffer, in base 10 and 16. *)
LEMMA BufferIsGood ==
  ASSUME Stream!StreamAssumption
  PROVE  \A value \in 0 .. Stream!Power(2, Bits) - 1 : \A base \in {10, 16} :
           Len(Stream!outdigits(value, base, FALSE)) <= buf_chrs
  <1> SUFFICES ASSUME NEW value \in 0 .. Stream!Power(2, Bits) - 1, NEW base \in {10, 16}
               PROVE  Len(Stream!outdigits(value, base, FALSE)) <= buf_chrs
    OBVIOUS
  <1> DEFINE n == buf_chrs - 1
  <1>1. base \in Bases
    BY DEF Bases
  <1>2. n \in Nat /\ buf_chrs = n + 1 /\ Bits \in Nat
    BY DEF Stream!StreamAssumption
  <1>3. Stream!Power(2, Bits) \in Nat /\ Stream!Power(10, buf_chrs) \in Nat
            /\ Stream!Power(2, Bits) <= Stream!Power(10, buf_chrs)
    <2>1. buf_chrs \in Nat /\ 2 \in Nat /\ 10 \in Nat
      BY DEF Stream!StreamAssumption
    <2> QED
      BY <1>2, <2>1, StreamPowerFacts DEF Stream!StreamAssumption
  <1>4. value \in Nat /\ value < Stream!Power(10, buf_chrs)
    BY <1>3
  <1> HIDE DEF n
  <1>5. PICK f : IsDigits(f, value, base, FALSE) /\ Stream!outdigits(value, base, FALSE) = f[value]
    BY <1>1, <1>4, StreamDigitsAre
  <1>6. \A v \in 0 .. value : v < Stream!Power(10, n + 1) => Len(f[v]) <= n + 1
    <2>1. \A v \in 0 .. value : v < Power(10, n + 1) => Len(f[v]) <= n + 1
      BY <1>1, <1>2, <1>4, <1>5, DigitsFit
    <2>2. Stream!Power(10, n + 1) = Power(10, n + 1)
      BY StreamPowers
    <2> QED
      BY <2>1, <2>2, Zenon
  <1>7. Len(f[value]) <= n + 1
    BY <1>2, <1>4, <1>6
  <1> QED
    BY <1>2, <1>5, <1>7

(* BufferSufficesButForOctal, in this state and the next. *)
LEMMA BufferForAll ==
  ASSUME Stream!StreamAssumption
  PROVE  /\ field.value \in 0 .. Stream!Power(2, Bits) - 1 => Stream!BufferSufficesButForOctal
         /\ (field.value \in 0 .. Stream!Power(2, Bits) - 1 => Stream!BufferSufficesButForOctal)'
  <1>1. \A flags : Stream!Base(flags) # 8 => Stream!Base(flags) \in {10, 16}
    BY DEF Stream!Base
  <1> QED
    BY <1>1, BufferIsGood DEF Stream!BufferSufficesButForOctal

(* The invariant of the stream. *)
StreamInv ==
  /\ Stream!StreamTypeOK /\ FillOK /\ Stream!FieldReadsBack /\ Stream!BufferSufficesButForOctal

LEMMA ValuesExist ==
  ASSUME Stream!StreamAssumption
  PROVE  Stream!Power(2, Bits) \in Nat /\ 0 < Stream!Power(2, Bits)
  <1>1. Bits \in Nat /\ 2 \in Nat \ {0}
    BY DEF Stream!StreamAssumption
  <1>2. Stream!Power(2, Bits) \in Nat \ {0}
    BY <1>1, StreamPowersGrow
  <1> QED
    BY <1>2

LEMMA ZeroIsValue == ASSUME Stream!StreamAssumption PROVE 0 \in 0 .. Stream!Power(2, Bits) - 1
  BY ValuesExist

(* The invariant holds first, and after every step. *)
LEMMA StreamBegins == ASSUME Stream!StreamAssumption, Stream!Init PROVE StreamInv
  <1>1. 0 \in 0 .. Stream!Power(2, Bits) - 1
    BY ZeroIsValue
  <1>2. Stream!StreamTypeOK
    <2>1. flags_ = {} /\ width_ \in Nat /\ field.value = 0
      BY DEF Stream!Init, Stream!NoField
    <2> QED
      BY <1>1, <2>1 DEF Stream!StreamTypeOK
  <1>3. Stream!FieldReadsBack
    BY DEF Stream!Init, Stream!FieldReadsBack, Stream!NoField
  <1>4. Stream!BufferSufficesButForOctal
    BY <1>2, BufferForAll DEF Stream!StreamTypeOK
  <1> QED
    BY <1>2, <1>3, <1>4 DEF StreamInv, Stream!Init, FillOK

(* Every change of the flags, the width or the fill forgets the field. *)
LEMMA Becomes ==
  ASSUME Stream!StreamAssumption, NEW flags \in SUBSET (Stream!Switches \cup UNION Stream!Groups),
             NEW width \in Nat,
         NEW fill \in Fills \cup {" "}, Stream!Become(flags, width, fill)
  PROVE  StreamInv'
  <1>1. 0 \in 0 .. Stream!Power(2, Bits) - 1
    BY ZeroIsValue
  <1>2. Stream!StreamTypeOK'
    <2>1. flags_' = flags /\ width_' = width /\ field'.value = 0
      BY DEF Stream!Become, Stream!NoField
    <2> QED
      BY <1>1, <2>1 DEF Stream!StreamTypeOK
  <1>3. Stream!FieldReadsBack'
    BY DEF Stream!Become, Stream!FieldReadsBack, Stream!NoField
  <1>4. FillOK'
    BY DEF Stream!Become, FillOK
  <1>5. Stream!BufferSufficesButForOctal'
    BY <1>2, BufferForAll DEF Stream!StreamTypeOK
  <1> QED
    BY <1>2, <1>3, <1>4, <1>5 DEF StreamInv

(* operator<< of a number. *)
LEMMA WriteReadsBack ==
  ASSUME Stream!StreamAssumption, StreamInv, NEW x \in Int, NEW is_signed \in BOOLEAN,
         Stream!WriteNumber(x, is_signed)
  PROVE  StreamInv'
  <1> DEFINE all == Stream!Power(2, Bits)
             value == x % all
             positive == IF is_signed /\ value >= Stream!Power(2, Bits - 1) THEN all - value
                 ELSE value
             chars == Stream!out(positive, is_signed, FALSE)
  <1>1. all \in Nat /\ 0 < all
    BY ValuesExist
  <1> HIDE DEF all
  <1>2. value \in 0 .. all - 1
    BY <1>1
  <1>3. field' = [chars |-> Stream!out(positive, is_signed, value < 0), value |-> positive]
    BY DEF Stream!WriteNumber, all
  <1>4. flags_' = flags_ /\ width_' = width_ /\ fill_' = fill_
    BY DEF Stream!WriteNumber
  <1> HIDE DEF value
  <1>5. positive \in 0 .. all - 1
    <2>1. Stream!Power(2, Bits - 1) \in Nat /\ 0 < Stream!Power(2, Bits - 1)
      <3>1. Bits - 1 \in Nat /\ 2 \in Nat \ {0}
        BY DEF Stream!StreamAssumption
      <3>2. Stream!Power(2, Bits - 1) \in Nat \ {0}
        BY <3>1, StreamPowersGrow
      <3> QED
        BY <3>2
    <2> QED
      BY <1>1, <1>2, <2>1
  <1> HIDE DEF positive
  <1>6. (value < 0) = FALSE
    BY <1>2
  <1>7. field' = [chars |-> chars, value |-> positive]
    BY <1>3, <1>6, Zenon
  <1> HIDE DEF chars
  <1>8. field'.chars = chars /\ field'.value = positive
    BY <1>7
  <1>9. width_ \in Nat /\ FillOK /\ positive \in Nat
    BY <1>1, <1>5 DEF StreamInv, Stream!StreamTypeOK
  <1>10. Stream!StreamTypeOK'
    BY <1>4, <1>5, <1>8 DEF StreamInv, Stream!StreamTypeOK, all
  <1>11. FillOK'
    BY <1>4, <1>9 DEF FillOK
  <1>12. Stream!BufferSufficesButForOctal'
    BY <1>10, BufferForAll DEF Stream!StreamTypeOK
  <1>13. /\ Len(chars) >= width_ /\ Len(chars) \in Nat
         /\ Len(chars) > width_ => fill_ = "0" \/ fill_ \notin Stream!ToSet(chars)
         /\ "+" \in Stream!ToSet(chars) <=> "showpos" \in flags_
    BY <1>9, WrittenFills DEF chars
  <1>14. ~ZeroesBehind => Stream!ReadBack(chars, Stream!Base(flags_)) = positive
    BY <1>9, WrittenReadsBack DEF chars
  <1>15. (Stream!ReadBack(field.chars, Stream!Base(flags_)))'
             = Stream!ReadBack(chars, Stream!Base(flags_))
    BY <1>4, <1>8 DEF Stream!ReadBack, Stream!Skipped
  <1>16. Stream!FieldReadsBack'
    BY <1>4, <1>8, <1>13, <1>14, <1>15 DEF Stream!FieldReadsBack, ZeroesBehind
  <1> QED
    BY <1>10, <1>11, <1>12, <1>16 DEF StreamInv

LEMMA StreamKept ==
  ASSUME StreamInv, UNCHANGED streamVars
  PROVE  StreamInv'
  <1>1. Stream!StreamTypeOK'
    BY DEF StreamInv, Stream!StreamTypeOK, streamVars
  <1>2. FillOK'
    BY DEF StreamInv, FillOK, streamVars
  <1>3. Stream!FieldReadsBack'
    <2>1. flags_' = flags_ /\ width_' = width_ /\ fill_' = fill_ /\ field' = field
      BY DEF streamVars
    <2>2. (Stream!ReadBack(field.chars, Stream!Base(flags_)))'
              = Stream!ReadBack(field.chars, Stream!Base(flags_))
      BY <2>1 DEF Stream!ReadBack, Stream!Skipped
    <2>3. Stream!FieldReadsBack
      BY DEF StreamInv
    <2> QED
      BY <2>1, <2>2, <2>3 DEF Stream!FieldReadsBack
  <1>4. Stream!BufferSufficesButForOctal'
    BY DEF StreamInv, Stream!BufferSufficesButForOctal, streamVars
  <1> QED
    BY <1>1, <1>2, <1>3, <1>4 DEF StreamInv

LEMMA StreamStep ==
  ASSUME Stream!StreamAssumption, StreamInv, [Stream!Next]_streamVars
  PROVE  StreamInv'
  <1> DEFINE all == SUBSET (Stream!Switches \cup UNION Stream!Groups)
             filling == Fills \cup {" "}
  <1>1. flags_ \in all /\ width_ \in Nat /\ fill_ \in filling
    BY DEF StreamInv, Stream!StreamTypeOK, FillOK
  <1>2. {} \in all /\ {"dec", "hex", "oct"} \in all /\ {"internal", "left", "right"} \in all
    BY DEF Stream!Groups
  <1>3. \A flags \in all, width \in Nat, fill \in filling :
          Stream!Become(flags, width, fill) => StreamInv'
    BY Becomes
  <1> HIDE DEF filling
  <1>4. ASSUME NEW m \in Stream!Manipulators, Stream!Manipulate(m) PROVE StreamInv'
    <2>1. m.set \in all
      <3>1. CASE m \in {[clear |-> {}, set |-> {f}] : f \in Stream!Switches \cap FlagNames}
        BY <3>1
      <3>2. CASE m \in {[clear |-> {f}, set |-> {}] : f \in Stream!Switches \cap FlagNames}
        BY <3>2
      <3>3. CASE m \in UNION {{[clear |-> g \ {f}, set |-> {f}] : f \in g \cap FlagNames} :
                     g \in Stream!Groups}
        BY <3>3
      <3> QED
        BY <1>4, <3>1, <3>2, <3>3 DEF Stream!Manipulators
    <2>2. (flags_ \ m.clear) \cup m.set \in all
      BY <1>1, <2>1
    <2> QED
      BY <1>1, <1>3, <1>4, <2>2 DEF Stream!Manipulate, Stream!setf, Stream!unsetf
  <1>5. ASSUME NEW f \in {{"hex"}, {"left", "internal"}}, Stream!SetFlags(f) PROVE StreamInv'
    <2>1. f \in all
      BY <1>5, <1>2
    <2>2. flags_ \cup f \in all /\ flags_ \ f \in all
      BY <1>1, <2>1
    <2>3. \A g \in Stream!Groups : (flags_ \ g) \cup (f \cap g) \in all
      BY <1>1, <2>1
    <2> QED
      BY <1>1, <1>3, <1>5, <2>2, <2>3 DEF Stream!SetFlags, Stream!setf, Stream!unsetf,
            Stream!setfMasked
  <1>6. ASSUME NEW w \in Widths, Stream!SetWidth(w) PROVE StreamInv'
    <2>1. w \in Nat
      BY DEF Stream!StreamAssumption
    <2> QED
      BY <1>1, <1>3, <1>6, <2>1 DEF Stream!SetWidth
  <1>7. ASSUME NEW c \in Fills, Stream!SetFill(c) PROVE StreamInv'
    <2>1. c \in filling
      BY DEF filling
    <2> QED
      BY <1>1, <1>3, <1>7, <2>1 DEF Stream!SetFill
  <1>8. ASSUME NEW b, Stream!SetBase(b) PROVE StreamInv'
    <2> DEFINE base == CASE b = 10 -> {"dec"} [] b = 16 -> {"hex"} [] b
                   = 8 -> {"oct"} [] OTHER -> {}
    <2>1. base \in all
      BY <1>2
    <2> DEFINE flags == IF base = {} THEN flags_ ELSE (flags_ \ {"dec", "hex", "oct"}) \cup base
    <2>2. flags \in all
      <3> HIDE DEF base
      <3> QED
        BY <1>1, <2>1
    <2>3. Stream!Become(flags, width_, fill_)
      BY <1>8 DEF Stream!SetBase
    <2> HIDE DEF flags
    <2> QED
      BY <1>1, <1>3, <2>2, <2>3
  <1>9. ASSUME NEW x \in Numbers, NEW is_signed \in BOOLEAN, Stream!WriteNumber(x, is_signed)
        PROVE  StreamInv'
    <2>1. x \in Int
      <3>1. Bits - 1 \in Nat /\ 2 \in Nat
        BY DEF Stream!StreamAssumption
      <3>2. Stream!Power(2, Bits - 1) \in Nat
        BY <3>1, StreamPowerFacts
      <3> QED
        BY <3>2 DEF Stream!StreamAssumption
    <2> QED
      BY <1>9, <2>1, WriteReadsBack
  <1>10. ASSUME Stream!WriteWord PROVE StreamInv'
    <2>1. /\ flags_' = flags_ /\ width_' = width_ /\ fill_' = fill_
          /\ field'.chars = <<"word">> /\ field'.value = 0
      BY <1>10 DEF Stream!WriteWord
    <2>3. Stream!StreamTypeOK'
      BY <1>1, <2>1, ZeroIsValue DEF Stream!StreamTypeOK
    <2>4. FillOK'
      BY <1>1, <2>1 DEF FillOK, filling
    <2>5. Stream!FieldReadsBack'
      BY <2>1 DEF Stream!FieldReadsBack
    <2>6. Stream!BufferSufficesButForOctal'
      BY <2>3, BufferForAll DEF Stream!StreamTypeOK
    <2> QED
      BY <2>3, <2>4, <2>5, <2>6 DEF StreamInv
  <1>11. ASSUME Stream!NewStream PROVE StreamInv'
    <2>1. " " \in filling /\ 0 \in Nat
      BY DEF filling
    <2> QED
      BY <1>2, <1>3, <1>11, <2>1 DEF Stream!NewStream
  <1>12. CASE UNCHANGED streamVars
    BY <1>12, StreamKept
  <1>13. CASE Stream!Next
    <2> HIDE DEF all
    <2>1. TRUE \in BOOLEAN /\ FALSE \in BOOLEAN
      OBVIOUS
    <2> QED
      BY <1>4, <1>5, <1>6, <1>7, <1>8, <1>9, <1>10, <1>11, <1>13, <2>1 DEF Stream!Next
  <1> QED
    BY <1>12, <1>13

-----------------------------------------------------------------------------
(* Formats: the text of a list of directives. *)

(* The digits and powers of FormatString are those of Digits. *)
LEMMA FormatDigits ==
  ASSUME NEW value, NEW base, NEW upper
  PROVE  Format!outdigits(value, base, upper) = outdigits(value, base, upper)
  BY DEF Format!outdigits, outdigits, Format!Digit, Digit, Format!Lower, Lower, Format!Upper, Upper

LEMMA FormatPowers ==
  ASSUME NEW base, NEW n PROVE Format!Power(base, n) = Power(base, n)
  BY DEF Format!Power, Power

LEMMA FormatDigitValues == ASSUME NEW c PROVE Format!DigitValue(c) = DigitValue(c)
  BY DEF Format!DigitValue, DigitValue, Format!Digit, Digit, Format!Lower, Lower, Format!Upper,
        Upper

LEMMA FormatDigitsAre ==
  ASSUME NEW base \in Bases, NEW upper, NEW value \in Nat
  PROVE  \E f : IsDigits(f, value, base, upper) /\ Format!outdigits(value, base, upper) = f[value]
  <1>1. PICK f : IsDigits(f, value, base, upper) /\ outdigits(value, base, upper) = f[value]
    BY DigitsAre
  <1> QED
    BY <1>1, FormatDigits, Zenon

LEMMA FormatPowersGrow ==
  ASSUME NEW base \in Nat \ {0}, NEW n \in Nat PROVE Format!Power(base, n) \in Nat \ {0}
  <1>1. Power(base, n) \in Nat \ {0}
    BY PowersGrow
  <1> QED
    BY <1>1, FormatPowers, Zenon

LEMMA FormatDigitKinds ==
  ASSUME NEW d \in 0 .. 15, NEW upper \in BOOLEAN
  PROVE  Format!DigitValue(Format!Digit(d, upper)) = d
  <1>1. DigitValue(Digit(d, upper)) = d
    BY DigitKinds
  <1>2. Format!Digit(d, upper) = Digit(d, upper)
    BY DEF Format!Digit, Digit, Format!Lower, Lower, Format!Upper, Upper
  <1> QED
    BY <1>1, <1>2, FormatDigitValues, Zenon

(* The first elements of a sequence. *)
LEMMA FirstOfSeq ==
  ASSUME NEW C, NEW p \in Seq(C), NEW n \in 0 .. Len(p)
  PROVE  Len(SubSeq(p, 1, n)) = n /\ SubSeq(p, 1, n) \in Seq(C)
         /\ \A i \in 1 .. n : SubSeq(p, 1, n)[i] = p[i]
  OBVIOUS

(* Concatenation as an operator of its own: the provers would otherwise try *)
(* every way of splitting a sequence.                                       *)
Cat(p, q) == p \o q

LEMMA CatTyped ==
  ASSUME NEW C, NEW p \in Seq(C), NEW q \in Seq(C) PROVE Cat(p, q) \in Seq(C)
  BY DEF Cat

LEMMA CatJoined ==
  ASSUME NEW C, NEW p \in Seq(C), NEW q \in Seq(C), NEW r \in Seq(C)
  PROVE  Cat(Cat(p, q), r) = Cat(p, Cat(q, r))
  <1>1. (p \o q) \o r = p \o (q \o r)
    BY SMT
  <1> QED
    BY <1>1 DEF Cat

(* Joining the parts of a directive one way or the other is the same. *)
Seven(p, f, w, r, l, e, b) ==
  (p \o f \o w \o r \o l \o e) \o b = p \o (f \o (w \o (r \o (l \o (e \o b)))))

LEMMA SevenJoined ==
  ASSUME NEW C, NEW p \in Seq(C), NEW f \in Seq(C), NEW w \in Seq(C), NEW r \in Seq(C),
         NEW l \in Seq(C), NEW e \in Seq(C), NEW b \in Seq(C)
  PROVE  Seven(p, f, w, r, l, e, b)
  <1> DEFINE P1 == Cat(p, f)
             P2 == Cat(P1, w)
             P3 == Cat(P2, r)
             P4 == Cat(P3, l)
             B0 == Cat(e, b)
             B1 == Cat(l, B0)
             B2 == Cat(r, B1)
             B3 == Cat(w, B2)
  <1>1. /\ P1 \in Seq(C) /\ P2 \in Seq(C) /\ P3 \in Seq(C) /\ P4 \in Seq(C)
        /\ B0 \in Seq(C) /\ B1 \in Seq(C) /\ B2 \in Seq(C) /\ B3 \in Seq(C)
    BY CatTyped, Zenon
  <1> HIDE DEF P1, P2, P3, P4, B0, B1, B2, B3
  <1>2. Cat(Cat(P4, e), b) = Cat(P4, Cat(e, b))
    BY <1>1, CatJoined
  <1>3. Cat(Cat(P3, l), B0) = Cat(P3, Cat(l, B0))
    BY <1>1, CatJoined
  <1>4. Cat(Cat(P2, r), B1) = Cat(P2, Cat(r, B1))
    BY <1>1, CatJoined
  <1>5. Cat(Cat(P1, w), B2) = Cat(P1, Cat(w, B2))
    BY <1>1, CatJoined
  <1>6. Cat(Cat(p, f), B3) = Cat(p, Cat(f, B3))
    BY <1>1, CatJoined
  <1>7. /\ P4 = Cat(P3, l) /\ P3 = Cat(P2, r) /\ P2 = Cat(P1, w) /\ P1 = Cat(p, f)
        /\ B0 = Cat(e, b) /\ B1 = Cat(l, B0) /\ B2 = Cat(r, B1) /\ B3 = Cat(w, B2)
    BY DEF P1, P2, P3, P4, B0, B1, B2, B3
  <1>8. Cat(Cat(P4, e), b) = Cat(p, Cat(f, B3))
    BY <1>2, <1>3, <1>4, <1>5, <1>6, <1>7, SMT
  <1> QED
    BY <1>8, Zenon DEF Cat, Seven, P1, P2, P3, P4, B0, B1, B2, B3

LEMMA DecimalsAre == Format!Decimals = {"0", "1", "2", "3", "4", "5", "6", "7", "8", "9"}
  <1> DEFINE str == SubSeq(Format!Lower, 1, 10)
  <1>1. Format!Lower \in Seq(AllDigits) /\ Len(Format!Lower) = 16
    BY DEF Format!Lower, AllDigits
  <1>2. Len(str) = 10 /\ str \in Seq(AllDigits) /\ \A i \in 1 .. 10 : str[i] = Format!Lower[i]
    <2> DEFINE n == 10
               l == Format!Lower
    <2>1. n \in 0 .. Len(l) /\ l \in Seq(AllDigits)
      BY <1>1
    <2> HIDE DEF n, l
    <2>2. /\ Len(SubSeq(l, 1, n)) = n /\ SubSeq(l, 1, n) \in Seq(AllDigits)
          /\ \A i \in 1 .. n : SubSeq(l, 1, n)[i] = l[i]
      BY <2>1, FirstOfSeq
    <2> QED
      BY <2>2 DEF n, l
  <1>3. DOMAIN str = 1 .. 10
    BY <1>2
  <1> HIDE DEF str
  <1>4. Format!Decimals = {Format!Lower[i] : i \in 1 .. 10}
    BY <1>2, <1>3 DEF Format!Decimals, str, Format!ToSet
  <1> QED
    BY <1>4 DEF Format!Lower

(* A run of characters of a set ends where another kind begins. *)
LEMMA RunOfFront ==
  ASSUME NEW C, NEW p \in Seq(C), NEW q \in Seq(C), NEW set,
         \A i \in 1 .. Len(p) : p[i] \in set, q # <<>> => q[1] \notin set
  PROVE  Format!Run(p \o q, set) = Len(p)
  <1> DEFINE str == p \o q
             R(n) == /\ \A i \in 1 .. n : str[i] \in set
                     /\ n < Len(str) => str[n + 1] \notin set
  <1>1. str \in Seq(C) /\ Len(str) = Len(p) + Len(q) /\ Len(p) \in Nat /\ Len(q) \in Nat
    OBVIOUS
  <1>2. /\ \A i \in 1 .. Len(p) : str[i] = p[i]
        /\ \A i \in 1 .. Len(q) : str[Len(p) + i] = q[i]
    OBVIOUS
  <1> HIDE DEF str
  <1>3. Len(p) \in 0 .. Len(str) /\ R(Len(p))
    <2>1. Len(p) < Len(str) => q # <<>> /\ str[Len(p) + 1] = q[1]
      BY <1>1, <1>2
    <2> QED
      BY <1>1, <1>2, <2>1
  <1>4. ASSUME NEW n \in 0 .. Len(str), R(n) PROVE n = Len(p)
    <2>1. CASE n < Len(p)
      BY <1>1, <1>3, <1>4, <2>1
    <2>2. CASE n > Len(p)
      BY <1>1, <1>3, <1>4, <2>2
    <2> QED
      BY <1>1, <2>1, <2>2
  <1> QED
    BY <1>3, <1>4 DEF Format!Run, str

(* The characters of directives but for their conversions. *)
LengthChars == {"h", "l", "j", "z", "t", "L"}
SyntaxChars == Format!FlagChars \cup Format!Decimals \cup {"%", ".", "*"} \cup LengthChars

(* A directive from a part on, and what is behind it. *)
FromConversion(d, b) == <<d.conversion>> \o b
FromLength(d, b) == d.length \o FromConversion(d, b)
FromPrecision(d, b) == d.precision \o FromLength(d, b)
FromWidth(d, b) == d.width \o FromPrecision(d, b)
FromFlags(d, b) == d.flags \o FromWidth(d, b)

(* A directive whose characters are among C. *)
DirectiveOf(d, C) == Format!WellFormed(d) /\ SyntaxChars \subseteq C /\ d.conversion \in C

(* The parts of a directive, and the directive, are characters. *)
LEMMA LengthsTyped == ASSUME NEW l \in Format!Lengths PROVE l \in Seq(LengthChars)
  <1>1. \A x, y \in LengthChars : <<x>> \in Seq(LengthChars) /\ <<x, y>> \in Seq(LengthChars)
    OBVIOUS
  <1>2. <<>> \in Seq(LengthChars)
    OBVIOUS
  <1>3. \/ l = <<>> \/ \E x \in LengthChars : l = <<x>>
        \/ \E x, y \in LengthChars : l = <<x, y>>
    <2>1. /\ "h" \in LengthChars /\ "l" \in LengthChars /\ "j" \in LengthChars
          /\ "z" \in LengthChars /\ "t" \in LengthChars /\ "L" \in LengthChars
      BY DEF LengthChars
    <2> QED
      BY <2>1, Zenon DEF Format!Lengths
  <1> QED
    BY <1>1, <1>2, <1>3

(* A sequence over a set is one over a larger set. *)
LEMMA Wider == ASSUME NEW C, NEW D, C \subseteq D, NEW p \in Seq(C) PROVE p \in Seq(D)
  OBVIOUS

LEMMA PartsTyped ==
  ASSUME NEW C, NEW d, DirectiveOf(d, C), ~d.literal
  PROVE  /\ d.flags \in Seq(C) /\ d.width \in Seq(C) /\ d.precision \in Seq(C)
         /\ d.length \in Seq(C) /\ <<d.conversion>> \in Seq(C)
  <1>1. /\ Format!FlagChars \subseteq C /\ Format!Decimals \subseteq C /\ LengthChars \subseteq C
        /\ "." \in C /\ "*" \in C /\ Format!Decimals \cup {"."} \subseteq C
    BY DEF DirectiveOf, SyntaxChars
  <1>2. d.flags \in Seq(C)
    BY <1>1, Wider DEF DirectiveOf, Format!WellFormed
  <1>3. d.length \in Seq(C)
    BY <1>1, Wider, LengthsTyped DEF DirectiveOf, Format!WellFormed
  <1>4. d.precision \in Seq(C)
    BY <1>1, Wider DEF DirectiveOf, Format!WellFormed
  <1>5. d.width \in Seq(C)
    <2>1. d.width = <<"*">> \/ d.width \in Seq(Format!Decimals)
      BY DEF DirectiveOf, Format!WellFormed
    <2>2. CASE d.width = <<"*">>
      BY <1>1, <2>2
    <2>3. CASE d.width \in Seq(Format!Decimals)
      BY <1>1, <2>3, Wider
    <2> QED
      BY <2>1, <2>2, <2>3
  <1>6. <<d.conversion>> \in Seq(C)
    BY DEF DirectiveOf
  <1> QED
    BY <1>2, <1>3, <1>4, <1>5, <1>6

LEMMA TailsTyped ==
  ASSUME NEW C, NEW d, DirectiveOf(d, C), ~d.literal, NEW b \in Seq(C)
  PROVE  /\ FromConversion(d, b) \in Seq(C) /\ FromLength(d, b) \in Seq(C)
                /\ FromPrecision(d, b) \in Seq(C)
         /\ FromWidth(d, b) \in Seq(C) /\ FromFlags(d, b) \in Seq(C)
  <1>0. \A p, q \in Seq(C) : p \o q \in Seq(C)
    OBVIOUS
  <1>1. /\ d.flags \in Seq(C) /\ d.width \in Seq(C) /\ d.precision \in Seq(C)
        /\ d.length \in Seq(C) /\ <<d.conversion>> \in Seq(C)
    BY PartsTyped
  <1>2. FromConversion(d, b) \in Seq(C)
    BY <1>0, <1>1 DEF FromConversion
  <1>3. FromLength(d, b) \in Seq(C)
    BY <1>0, <1>1, <1>2 DEF FromLength
  <1>4. FromPrecision(d, b) \in Seq(C)
    BY <1>0, <1>1, <1>3 DEF FromPrecision
  <1>5. FromWidth(d, b) \in Seq(C)
    BY <1>0, <1>1, <1>4 DEF FromWidth
  <1>6. FromFlags(d, b) \in Seq(C)
    BY <1>0, <1>1, <1>5 DEF FromFlags
  <1> QED
    BY <1>2, <1>3, <1>4, <1>5, <1>6

(* The characters of a directive are its parts in order. *)
LEMMA DirectiveSplit ==
  ASSUME NEW C, NEW d, DirectiveOf(d, C), NEW b \in Seq(C)
  PROVE  /\ Format!Chars(d) \in Seq(C)
         /\ d.literal => Format!Chars(d) \o b = <<d.conversion>> \o b
         /\ ~d.literal => Format!Chars(d) \o b = <<"%">> \o FromFlags(d, b)
  <1>1. CASE d.literal
    <2>1. Format!Chars(d) = <<d.conversion>>
      BY <1>1 DEF Format!Chars
    <2> QED
      BY <1>1, <2>1 DEF DirectiveOf
  <1>2. CASE ~d.literal
    <2> DEFINE p == <<"%">>
               e == <<d.conversion>>
               f == d.flags
               w == d.width
               r == d.precision
               l == d.length
    <2>1. /\ p \in Seq(C) /\ e \in Seq(C) /\ f \in Seq(C) /\ w \in Seq(C) /\ r \in Seq(C)
          /\ l \in Seq(C)
      BY <1>2, PartsTyped DEF DirectiveOf, SyntaxChars
    <2>2. Format!Chars(d) = p \o f \o w \o r \o l \o e
      BY <1>2 DEF Format!Chars
    <2>3. FromFlags(d, b) = f \o (w \o (r \o (l \o (e \o b))))
      BY DEF FromFlags, FromWidth, FromPrecision, FromLength, FromConversion
    <2>4. (p \o f \o w \o r \o l \o e) \o b = p \o (f \o (w \o (r \o (l \o (e \o b)))))
      <3> HIDE DEF p, e, f, w, r, l
      <3>1. p \in Seq(C)
        BY <2>1
      <3>2. f \in Seq(C)
        BY <2>1
      <3>3. w \in Seq(C)
        BY <2>1
      <3>4. r \in Seq(C)
        BY <2>1
      <3>5. l \in Seq(C)
        BY <2>1
      <3>6. e \in Seq(C)
        BY <2>1
      <3>7. Seven(p, f, w, r, l, e, b)
        BY <3>1, <3>2, <3>3, <3>4, <3>5, <3>6, SevenJoined
      <3> QED
        BY <3>7, Zenon DEF Seven
    <2>5. p \o f \o w \o r \o l \o e \in Seq(C)
      BY <2>1
    <2>12. Format!Chars(d) \o b = p \o FromFlags(d, b) /\ Format!Chars(d) \in Seq(C)
      BY <2>2, <2>3, <2>4, <2>5
    <2> QED
      BY <1>2, <2>12 DEF p
  <1> QED
    BY <1>1, <1>2

(* A list of directives over an alphabet. *)
GoodFormat(ds, C) == Len(ds) \in Nat /\ \A i \in 1 .. Len(ds) : DirectiveOf(ds[i], C)

(* The text behind the first directives: the function Format chooses. *)
IsText(f, ds) ==
  f = [i \in 0 .. Len(ds) |->
        IF i = 0 THEN <<>> ELSE Format!Chars(ds[Len(ds) - i + 1]) \o f[i - 1]]
TextOf(ds) == CHOOSE f : IsText(f, ds)
Behind(ds, k) == TextOf(ds)[Len(ds) - k]

(* Format is well defined. *)
LEMMA TextExists ==
  ASSUME NEW C, NEW ds, GoodFormat(ds, C)
  PROVE  IsText(TextOf(ds), ds) /\ \A i \in 0 .. Len(ds) : TextOf(ds)[i] \in Seq(C)
  <1> DEFINE n == Len(ds)
             D == Seq(C)
             next == [i \in Nat |-> [x \in D |-> IF i \in 1 .. n THEN Format!Chars(ds[n - i + 1])
                 \o x
                                              ELSE x]]
  <1>1. n \in Nat
    BY DEF GoodFormat
  <1>2. ASSUME NEW i \in 1 .. n PROVE Format!Chars(ds[n - i + 1]) \in Seq(C)
    <2>1. n - i + 1 \in 1 .. n
      BY <1>1
    <2>2. DirectiveOf(ds[n - i + 1], C) /\ <<>> \in Seq(C)
      BY <2>1 DEF GoodFormat
    <2> QED
      BY <2>2, DirectiveSplit
  <1> HIDE DEF n
  <1>3. next \in [Nat -> [D -> D]]
    <2>1. ASSUME NEW i \in Nat, NEW x \in D
          PROVE  (IF i \in 1 .. n THEN Format!Chars(ds[n - i + 1]) \o x ELSE x) \in D
      BY <1>2
    <2> HIDE DEF D
    <2> QED
      BY <2>1
  <1>4. <<>> \in D
    OBVIOUS
  <1>5. \A i \in 1 .. n, x \in D : next[i][x] = Format!Chars(ds[n - i + 1]) \o x
    BY <1>1
  <1> HIDE DEF next, D
  <1>6. PICK f \in [0 .. n -> D] : Iterates(f, <<>>, next, n)
    BY <1>1, <1>3, <1>4, IteratesExist
  <1>7. IsText(f, ds)
    <2>1. ASSUME NEW i \in 0 .. n
          PROVE  f[i] = IF i = 0 THEN <<>> ELSE Format!Chars(ds[n - i + 1]) \o f[i - 1]
      <3>1. CASE i = 0
        BY <3>1, <1>6 DEF Iterates
      <3>2. CASE i \in 1 .. n
        <4>1. f[i - 1] \in D
          BY <1>1, <3>2
        <4>2. f[i] = next[i][f[i - 1]]
          BY <1>6, <3>2 DEF Iterates
        <4>3. next[i][f[i - 1]] = Format!Chars(ds[n - i + 1]) \o f[i - 1]
          BY <1>5, <3>2, <4>1
        <4>4. i # 0
          BY <3>2
        <4>5. f[i] = Format!Chars(ds[n - i + 1]) \o f[i - 1]
          BY <4>2, <4>3, Zenon
        <4> QED
          BY <4>4, <4>5, Zenon
      <3> QED
        BY <1>1, <3>1, <3>2
    <2> QED
      BY <2>1 DEF IsText, n
  <1>8. IsText(TextOf(ds), ds)
    BY <1>7 DEF TextOf
  <1> DEFINE t == TextOf(ds)
             S == {i \in Nat : t[i] \in Seq(C)}
  <1>9. 0 \in S
    BY <1>1, <1>8 DEF IsText, n
  <1>10. ASSUME NEW i \in 0 .. n - 1, i \in S PROVE i + 1 \in S
    <2>1. t[i + 1] = Format!Chars(ds[n - (i + 1) + 1]) \o t[i]
      BY <1>1, <1>8 DEF IsText, n
    <2>2. Format!Chars(ds[n - (i + 1) + 1]) \in Seq(C)
      <3> DEFINE m == i + 1
      <3>1. m \in 1 .. n
        BY <1>1
      <3> HIDE DEF m
      <3>2. Format!Chars(ds[n - m + 1]) \in Seq(C)
        BY <1>2, <3>1
      <3> QED
        BY <3>2 DEF m
    <2>3. t[i] \in Seq(C)
      BY <1>10
    <2> DEFINE c == Format!Chars(ds[n - (i + 1) + 1])
               u == t[i]
    <2>4. c \in Seq(C) /\ u \in Seq(C)
      BY <2>2, <2>3
    <2>5. c \o u \in Seq(C)
      <3> HIDE DEF c, u
      <3> QED
        BY <2>4
    <2>6. i + 1 \in Nat
      OBVIOUS
    <2> QED
      BY <2>1, <2>5, <2>6, Zenon
  <1>11. \A i \in 0 .. n : i \in S
    <2> HIDE DEF S
    <2> QED
      BY <1>1, <1>9, <1>10, UpToBound
  <1> QED
    BY <1>8, <1>11 DEF n

(* The text behind k directives begins with the next one. *)
LEMMA BehindFacts ==
  ASSUME NEW C, NEW ds, GoodFormat(ds, C)
  PROVE  /\ Format!Format(ds) = Behind(ds, 0) /\ Behind(ds, Len(ds)) = <<>>
         /\ \A k \in 0 .. Len(ds) : Behind(ds, k) \in Seq(C)
         /\ \A k \in 0 .. Len(ds) - 1 : Behind(ds, k) = Format!Chars(ds[k + 1])
                \o Behind(ds, k + 1)
  <1> DEFINE t == TextOf(ds)
             n == Len(ds)
  <1>1. IsText(t, ds) /\ (\A i \in 0 .. n : t[i] \in Seq(C)) /\ n \in Nat
    BY TextExists DEF GoodFormat
  <1>2. Format!Format(ds) = t[n]
    BY DEF Format!Format, TextOf, IsText
  <1> HIDE DEF t, n
  <1>3. \A i \in 0 .. n : t[i] = IF i = 0 THEN <<>> ELSE Format!Chars(ds[n - i + 1]) \o t[i - 1]
    BY <1>1 DEF IsText, n
  <1>4. \A k : Behind(ds, k) = t[n - k]
    BY DEF Behind, t, n
  <1>5. n - 0 = n /\ n - n = 0 /\ \A k \in 0 .. n : n - k \in 0 .. n
    BY <1>1
  <1>6. ASSUME NEW k \in 0 .. n - 1 PROVE t[n - k] = Format!Chars(ds[k + 1]) \o t[n - (k + 1)]
    <2>1. n - k \in 1 .. n /\ n - (n - k) + 1 = k + 1 /\ n - k - 1 = n - (k + 1)
      BY <1>1
    <2> DEFINE i == n - k
    <2>2. i \in 0 .. n /\ i # 0 /\ n - i + 1 = k + 1 /\ i - 1 = n - (k + 1)
      BY <1>1, <2>1
    <2> HIDE DEF i
    <2>3. t[i] = Format!Chars(ds[n - i + 1]) \o t[i - 1]
      BY <1>3, <2>2
    <2>4. t[i] = Format!Chars(ds[k + 1]) \o t[n - (k + 1)]
      BY <2>2, <2>3, Zenon
    <2> QED
      BY <2>4 DEF i
  <1>7. Behind(ds, n) = <<>>
    BY <1>1, <1>3, <1>4, <1>5
  <1>8. \A k \in 0 .. n : Behind(ds, k) \in Seq(C)
    BY <1>1, <1>4, <1>5
  <1>9. Format!Format(ds) = Behind(ds, 0)
    BY <1>2, <1>4, <1>5
  <1>10. \A k \in 0 .. n - 1 : Behind(ds, k) = Format!Chars(ds[k + 1]) \o Behind(ds, k + 1)
    BY <1>4, <1>6
  <1> QED
    BY <1>7, <1>8, <1>9, <1>10 DEF n

(* A directive takes a number of arguments. *)
LEMMA TakesTyped == ASSUME NEW d PROVE Format!Takes(d) \in Nat
  BY DEF Format!Takes

(* The arguments taken by the first directives: what TakenBy chooses. *)
IsTaken(f, ds) ==
  f = [i \in 0 .. Len(ds) |-> IF i = 0 THEN 0 ELSE f[i - 1] + Format!Takes(ds[i])]
TakenOf(ds) == CHOOSE f : IsTaken(f, ds)

(* TakenBy is well defined. *)
LEMMA TakenExists ==
  ASSUME NEW C, NEW ds, GoodFormat(ds, C)
  PROVE  /\ IsTaken(TakenOf(ds), ds) /\ \A i \in 0 .. Len(ds) : TakenOf(ds)[i] \in Nat
         /\ Format!TakenBy(ds) = TakenOf(ds)[Len(ds)]
  <1> DEFINE n == Len(ds)
             D == Nat
             next == [i \in Nat |-> [x \in D |-> IF i \in 1 .. n THEN x + Format!Takes(ds[i])
                 ELSE x]]
  <1>1. n \in Nat
    BY DEF GoodFormat
  <1>2. \A i \in 1 .. n : Format!Takes(ds[i]) \in Nat
    BY TakesTyped
  <1>3. ASSUME NEW i \in 1 .. n, NEW x \in D PROVE x + Format!Takes(ds[i]) \in D
    BY <1>2
  <1> HIDE DEF n
  <1>4. next \in [Nat -> [D -> D]]
    <2> HIDE DEF D
    <2> QED
      BY <1>3
  <1>5. 0 \in D
    OBVIOUS
  <1>6. \A i \in 1 .. n, x \in D : next[i][x] = x + Format!Takes(ds[i])
    BY <1>1
  <1> HIDE DEF next, D
  <1>7. PICK f \in [0 .. n -> D] : Iterates(f, 0, next, n)
    BY <1>1, <1>4, <1>5, IteratesExist
  <1>8. IsTaken(f, ds)
    <2>1. ASSUME NEW i \in 0 .. n PROVE f[i] = IF i = 0 THEN 0 ELSE f[i - 1] + Format!Takes(ds[i])
      <3>1. CASE i = 0
        BY <3>1, <1>7 DEF Iterates
      <3>2. CASE i \in 1 .. n
        <4>1. f[i - 1] \in D
          BY <1>1, <3>2
        <4>2. f[i] = next[i][f[i - 1]]
          BY <1>7, <3>2 DEF Iterates
        <4>3. next[i][f[i - 1]] = f[i - 1] + Format!Takes(ds[i])
          BY <1>6, <3>2, <4>1
        <4>4. i # 0
          BY <3>2
        <4>5. f[i] = f[i - 1] + Format!Takes(ds[i])
          BY <4>2, <4>3, Zenon
        <4> QED
          BY <4>4, <4>5, Zenon
      <3>3. i = 0 \/ i \in 1 .. n
        BY <1>1
      <3> QED
        BY <3>1, <3>2, <3>3, Zenon
    <2> QED
      BY <2>1 DEF IsTaken, n
  <1> DEFINE t == TakenOf(ds)
             S == {i \in Nat : t[i] \in D}
  <1>9. IsTaken(t, ds)
    BY <1>8 DEF TakenOf
  <1> HIDE DEF t
  <1>10. 0 \in S
    BY <1>1, <1>5, <1>9 DEF IsTaken, n
  <1>11. ASSUME NEW i \in 0 .. n - 1, i \in S PROVE i + 1 \in S
    <2> DEFINE m == i + 1
    <2>1. m \in 1 .. n /\ m \in Nat /\ m - 1 = i
      BY <1>1
    <2> HIDE DEF m
    <2>2. m # 0 /\ m \in 0 .. n
      BY <1>1, <2>1
    <2>3. t[m] = t[m - 1] + Format!Takes(ds[m])
      BY <1>9, <2>2 DEF IsTaken, n
    <2>4. t[m - 1] \in D
      BY <1>11, <2>1
    <2>5. t[m] \in D
      BY <1>3, <2>1, <2>3, <2>4
    <2> QED
      BY <2>1, <2>5 DEF m
  <1>12. \A i \in 0 .. n : i \in S
    <2> HIDE DEF S
    <2> QED
      BY <1>1, <1>10, <1>11, UpToBound
  <1>13. Format!TakenBy(ds) = t[n]
    BY DEF Format!TakenBy, t, TakenOf, IsTaken, n
  <1> QED
    BY <1>9, <1>12, <1>13 DEF n, t, D

(* What vparsef prints for an argument. *)
Marks == {"number", "?", "text", "%"}

(* A directive prints marks and characters. *)
LEMMA PrintsTyped ==
  ASSUME NEW C, NEW d, DirectiveOf(d, C)
  PROVE  Format!Prints(d) \in Seq(C \cup Marks)
  <1> DEFINE M == C \cup Marks
  <1>1. d.conversion \in M /\ d.literal \in BOOLEAN
    BY DEF DirectiveOf, Format!WellFormed
  <1>2. "number" \in M /\ "?" \in M /\ "text" \in M /\ "%" \in M
    BY DEF Marks
  <1> HIDE DEF M
  <1>3. \A x, y \in M : <<x>> \in Seq(M) /\ <<x, y>> \in Seq(M)
    OBVIOUS
  <1>4. <<>> \in Seq(M)
    OBVIOUS
  <1>5. Format!Prints(d) \in Seq(M)
    <2>1. CASE d.literal
      BY <1>1, <1>3, <2>1 DEF Format!Prints
    <2>2. CASE ~d.literal
      <3> DEFINE c == d.conversion
      <3>1. CASE c \in Format!Integrals
        BY <1>2, <1>3, <2>2, <3>1 DEF Format!Prints, Format!Integrals, Format!Floats,
              Format!Conversions
      <3>2. CASE c \in Format!Floats
        BY <1>2, <1>3, <2>2, <3>2 DEF Format!Prints, Format!Integrals, Format!Floats,
              Format!Conversions
      <3>3. CASE c \in {"c", "s"}
        BY <1>2, <1>3, <2>2, <3>3 DEF Format!Prints, Format!Integrals, Format!Floats,
              Format!Conversions
      <3>4. CASE c = "n"
        BY <1>4, <2>2, <3>4 DEF Format!Prints, Format!Integrals, Format!Floats, Format!Conversions
      <3>5. CASE c = "%"
        BY <1>2, <1>3, <2>2, <3>5 DEF Format!Prints, Format!Integrals, Format!Floats,
              Format!Conversions
      <3>6. CASE c \notin Format!Conversions
        BY <1>1, <1>2, <1>3, <2>2, <3>6 DEF Format!Prints, Format!Integrals, Format!Floats,
              Format!Conversions
      <3> QED
        BY <3>1, <3>2, <3>3, <3>4, <3>5, <3>6 DEF Format!Conversions
    <2> QED
      BY <1>1, <2>1, <2>2
  <1> QED
    BY <1>5 DEF M

(* What the first directives print: the function PrintedBy chooses. *)
IsPrinted(f, ds) ==
  f = [i \in 0 .. Len(ds) |-> IF i = 0 THEN <<>> ELSE f[i - 1] \o Format!Prints(ds[i])]
PrintedOf(ds) == CHOOSE f : IsPrinted(f, ds)

(* PrintedBy is well defined. *)
LEMMA PrintedExists ==
  ASSUME NEW C, NEW ds, GoodFormat(ds, C)
  PROVE  /\ IsPrinted(PrintedOf(ds), ds) /\ \A i \in 0 .. Len(ds) :
                PrintedOf(ds)[i] \in Seq(C \cup Marks)
         /\ Format!PrintedBy(ds) = PrintedOf(ds)[Len(ds)]
  <1> DEFINE n == Len(ds)
             D == Seq(C \cup Marks)
             next == [i \in Nat |-> [x \in D |-> IF i \in 1 .. n THEN x \o Format!Prints(ds[i])
                 ELSE x]]
  <1>1. n \in Nat
    BY DEF GoodFormat
  <1>2. \A i \in 1 .. n : Format!Prints(ds[i]) \in Seq(C \cup Marks)
    BY PrintsTyped DEF GoodFormat
  <1>3. ASSUME NEW i \in 1 .. n, NEW x \in D PROVE x \o Format!Prints(ds[i]) \in D
    BY <1>2
  <1> HIDE DEF n
  <1>4. next \in [Nat -> [D -> D]]
    <2> HIDE DEF D
    <2> QED
      BY <1>3
  <1>5. <<>> \in D
    OBVIOUS
  <1>6. \A i \in 1 .. n, x \in D : next[i][x] = x \o Format!Prints(ds[i])
    BY <1>1
  <1> HIDE DEF next, D
  <1>7. PICK f \in [0 .. n -> D] : Iterates(f, <<>>, next, n)
    BY <1>1, <1>4, <1>5, IteratesExist
  <1>8. IsPrinted(f, ds)
    <2>1. ASSUME NEW i \in 0 .. n PROVE f[i] = IF i = 0 THEN <<>> ELSE f[i - 1]
                     \o Format!Prints(ds[i])
      <3>1. CASE i = 0
        BY <3>1, <1>7 DEF Iterates
      <3>2. CASE i \in 1 .. n
        <4>1. f[i - 1] \in D
          BY <1>1, <3>2
        <4>2. f[i] = next[i][f[i - 1]]
          BY <1>7, <3>2 DEF Iterates
        <4>3. next[i][f[i - 1]] = f[i - 1] \o Format!Prints(ds[i])
          BY <1>6, <3>2, <4>1
        <4>4. i # 0
          BY <3>2
        <4>5. f[i] = f[i - 1] \o Format!Prints(ds[i])
          BY <4>2, <4>3, Zenon
        <4> QED
          BY <4>4, <4>5, Zenon
      <3>3. i = 0 \/ i \in 1 .. n
        BY <1>1
      <3> QED
        BY <3>1, <3>2, <3>3, Zenon
    <2> QED
      BY <2>1 DEF IsPrinted, n
  <1> DEFINE t == PrintedOf(ds)
             S == {i \in Nat : t[i] \in D}
  <1>9. IsPrinted(t, ds)
    BY <1>8 DEF PrintedOf
  <1> HIDE DEF t
  <1>10. 0 \in S
    BY <1>1, <1>5, <1>9 DEF IsPrinted, n
  <1>11. ASSUME NEW i \in 0 .. n - 1, i \in S PROVE i + 1 \in S
    <2> DEFINE m == i + 1
    <2>1. m \in 1 .. n /\ m \in Nat /\ m - 1 = i
      BY <1>1
    <2> HIDE DEF m
    <2>2. m # 0 /\ m \in 0 .. n
      BY <1>1, <2>1
    <2>3. t[m] = t[m - 1] \o Format!Prints(ds[m])
      BY <1>9, <2>2 DEF IsPrinted, n
    <2>4. t[m - 1] \in D
      BY <1>11, <2>1
    <2>5. t[m] \in D
      BY <1>3, <2>1, <2>3, <2>4
    <2> QED
      BY <2>1, <2>5 DEF m
  <1>12. \A i \in 0 .. n : i \in S
    <2> HIDE DEF S
    <2> QED
      BY <1>1, <1>10, <1>11, UpToBound
  <1>13. Format!PrintedBy(ds) = t[n]
    BY DEF Format!PrintedBy, t, PrintedOf, IsPrinted, n
  <1> QED
    BY <1>9, <1>12, <1>13 DEF n, t, D

(* A decimal digit has a value. *)
LEMMA DecimalValue == ASSUME NEW c \in Format!Decimals PROVE Format!DigitValue(c) \in Nat
  <1>1. PICK d \in 0 .. 15 : c = Format!Digit(d, FALSE)
    <2>1. \A i \in 0 .. 9 : Format!Digit(i, FALSE) = Format!Lower[i + 1]
      BY DEF Format!Digit
    <2>2. \E i \in 0 .. 9 : c = Format!Lower[i + 1]
      BY DecimalsAre DEF Format!Lower
    <2>3. \E i \in 0 .. 9 : c = Format!Digit(i, FALSE)
      BY <2>1, <2>2
    <2>4. 0 .. 9 \subseteq 0 .. 15
      OBVIOUS
    <2> QED
      BY <2>3, <2>4
  <1>2. Format!DigitValue(Format!Digit(d, FALSE)) = d
    <2>1. FALSE \in BOOLEAN
      OBVIOUS
    <2> QED
      BY <2>1, FormatDigitKinds
  <1>3. d \in Nat
    BY <1>1
  <1> QED
    BY <1>1, <1>2, <1>3, Zenon

(* The function ParsedNumber chooses. *)
IsParsed(f, str) ==
  f = [i \in 0 .. Len(str) |-> IF i = 0 THEN 0 ELSE f[i - 1] * 10 + Format!DigitValue(str[i])]
ParsedOf(str) == CHOOSE f : IsParsed(f, str)

(* ParsedNumber is well defined. *)
LEMMA ParsedExists ==
  ASSUME NEW str \in Seq(Format!Decimals)
  PROVE  /\ IsParsed(ParsedOf(str), str) /\ \A i \in 0 .. Len(str) : ParsedOf(str)[i] \in Nat
         /\ Format!ParsedNumber(str) = ParsedOf(str)[Len(str)]
  <1> DEFINE n == Len(str)
             D == Nat
             next == [i \in Nat |-> [x \in D |-> IF i \in 1 .. n
                 THEN x * 10 + Format!DigitValue(str[i]) ELSE x]]
  <1>1. n \in Nat
    OBVIOUS
  <1>2. \A i \in 1 .. n : Format!DigitValue(str[i]) \in Nat
    BY DecimalValue
  <1>3. ASSUME NEW i \in 1 .. n, NEW x \in D PROVE x * 10 + Format!DigitValue(str[i]) \in D
    BY <1>2
  <1> HIDE DEF n
  <1>4. next \in [Nat -> [D -> D]]
    <2> HIDE DEF D
    <2> QED
      BY <1>3
  <1>5. 0 \in D
    OBVIOUS
  <1>6. \A i \in 1 .. n, x \in D : next[i][x] = x * 10 + Format!DigitValue(str[i])
    BY <1>1
  <1> HIDE DEF next, D
  <1>7. PICK f \in [0 .. n -> D] : Iterates(f, 0, next, n)
    BY <1>1, <1>4, <1>5, IteratesExist
  <1>8. IsParsed(f, str)
    <2>1. ASSUME NEW i \in 0 .. n PROVE f[i] = IF i = 0 THEN 0
                     ELSE f[i - 1] * 10 + Format!DigitValue(str[i])
      <3>1. CASE i = 0
        BY <3>1, <1>7 DEF Iterates
      <3>2. CASE i \in 1 .. n
        <4>1. f[i - 1] \in D
          BY <1>1, <3>2
        <4>2. f[i] = next[i][f[i - 1]]
          BY <1>7, <3>2 DEF Iterates
        <4>3. next[i][f[i - 1]] = f[i - 1] * 10 + Format!DigitValue(str[i])
          BY <1>6, <3>2, <4>1
        <4>4. i # 0
          BY <3>2
        <4>5. f[i] = f[i - 1] * 10 + Format!DigitValue(str[i])
          BY <4>2, <4>3, Zenon
        <4> QED
          BY <4>4, <4>5, Zenon
      <3>3. i = 0 \/ i \in 1 .. n
        BY <1>1
      <3> QED
        BY <3>1, <3>2, <3>3, Zenon
    <2> QED
      BY <2>1 DEF IsParsed, n
  <1> DEFINE t == ParsedOf(str)
             S == {i \in Nat : t[i] \in D}
  <1>9. IsParsed(t, str)
    BY <1>8 DEF ParsedOf
  <1> HIDE DEF t
  <1>10. 0 \in S
    BY <1>1, <1>5, <1>9 DEF IsParsed, n
  <1>11. ASSUME NEW i \in 0 .. n - 1, i \in S PROVE i + 1 \in S
    <2> DEFINE m == i + 1
    <2>1. m \in 1 .. n /\ m \in Nat /\ m - 1 = i
      BY <1>1
    <2> HIDE DEF m
    <2>2. m # 0 /\ m \in 0 .. n
      BY <1>1, <2>1
    <2>3. t[m] = t[m - 1] * 10 + Format!DigitValue(str[m])
      BY <1>9, <2>2 DEF IsParsed, n
    <2>4. t[m - 1] \in D
      BY <1>11, <2>1
    <2>5. t[m] \in D
      BY <1>3, <2>1, <2>3, <2>4
    <2> QED
      BY <2>1, <2>5 DEF m
  <1>12. \A i \in 0 .. n : i \in S
    <2> HIDE DEF S
    <2> QED
      BY <1>1, <1>10, <1>11, UpToBound
  <1>13. Format!ParsedNumber(str) = t[n]
    BY DEF Format!ParsedNumber, t, ParsedOf, IsParsed, n
  <1> QED
    BY <1>9, <1>12, <1>13 DEF n, t, D

(* TakenOf and PrintedOf, one directive at a time. *)
LEMMA TakenFacts ==
  ASSUME NEW C, NEW ds, GoodFormat(ds, C)
  PROVE  /\ TakenOf(ds)[0] = 0 /\ Format!TakenBy(ds) = TakenOf(ds)[Len(ds)]
         /\ \A k \in 0 .. Len(ds) : TakenOf(ds)[k] \in Nat
         /\ \A k \in 0 .. Len(ds) - 1 :
              TakenOf(ds)[k + 1] = TakenOf(ds)[k] + Format!Takes(ds[k + 1])
  <1> DEFINE t == TakenOf(ds)
             n == Len(ds)
  <1>1. n \in Nat
    BY DEF GoodFormat
  <1>2. IsTaken(t, ds) /\ (\A i \in 0 .. n : t[i] \in Nat) /\ Format!TakenBy(ds) = t[n]
    BY TakenExists
  <1> HIDE DEF t, n
  <1>3. \A i \in 0 .. n : t[i] = IF i = 0 THEN 0 ELSE t[i - 1] + Format!Takes(ds[i])
    BY <1>2 DEF IsTaken, n
  <1>4. t[0] = 0
    BY <1>1, <1>3
  <1>5. ASSUME NEW k \in 0 .. n - 1 PROVE t[k + 1] = t[k] + Format!Takes(ds[k + 1])
    <2> DEFINE i == k + 1
    <2>1. i \in 0 .. n /\ i # 0 /\ i - 1 = k
      BY <1>1
    <2> HIDE DEF i
    <2>2. t[i] = t[i - 1] + Format!Takes(ds[i])
      BY <1>3, <2>1
    <2>3. t[i] = t[k] + Format!Takes(ds[i])
      BY <2>1, <2>2, Zenon
    <2> QED
      BY <2>3 DEF i
  <1> QED
    BY <1>2, <1>4, <1>5 DEF n, t

LEMMA PrintedFacts ==
  ASSUME NEW C, NEW ds, GoodFormat(ds, C)
  PROVE  /\ PrintedOf(ds)[0] = <<>> /\ Format!PrintedBy(ds) = PrintedOf(ds)[Len(ds)]
         /\ \A k \in 0 .. Len(ds) : PrintedOf(ds)[k] \in Seq(C \cup Marks)
         /\ \A k \in 0 .. Len(ds) - 1 :
              PrintedOf(ds)[k + 1] = PrintedOf(ds)[k] \o Format!Prints(ds[k + 1])
  <1> DEFINE t == PrintedOf(ds)
             n == Len(ds)
  <1>1. n \in Nat
    BY DEF GoodFormat
  <1>2. IsPrinted(t, ds) /\ (\A i \in 0 .. n : t[i] \in Seq(C \cup Marks))
            /\ Format!PrintedBy(ds) = t[n]
    BY PrintedExists
  <1> HIDE DEF t, n
  <1>3. \A i \in 0 .. n : t[i] = IF i = 0 THEN <<>> ELSE t[i - 1] \o Format!Prints(ds[i])
    BY <1>2 DEF IsPrinted, n
  <1>4. t[0] = <<>>
    BY <1>1, <1>3
  <1>5. ASSUME NEW k \in 0 .. n - 1 PROVE t[k + 1] = t[k] \o Format!Prints(ds[k + 1])
    <2> DEFINE i == k + 1
    <2>1. i \in 0 .. n /\ i # 0 /\ i - 1 = k
      BY <1>1
    <2> HIDE DEF i
    <2>2. t[i] = t[i - 1] \o Format!Prints(ds[i])
      BY <1>3, <2>1
    <2>3. t[i] = t[k] \o Format!Prints(ds[i])
      BY <2>1, <2>2, Zenon
    <2> QED
      BY <2>3 DEF i
  <1> QED
    BY <1>2, <1>4, <1>5 DEF n, t

(* A text that begins with a character of a set. *)
Starts(str, set) == str # <<>> /\ str[1] \in set

LEMMA StartsWith ==
  ASSUME NEW C, NEW p \in Seq(C), NEW q \in Seq(C), NEW set, p # <<>> => p[1] \in set,
         Starts(q, set)
  PROVE  Starts(p \o q, set)
  <1>1. CASE p = <<>>
    <2>1. p \o q = q
      BY <1>1
    <2> QED
      BY <2>1
  <1>2. CASE p # <<>>
    <2>1. p \o q # <<>> /\ (p \o q)[1] = p[1]
      BY <1>2
    <2> QED
      BY <1>2, <2>1 DEF Starts
  <1> QED
    BY <1>1, <1>2

LEMMA StartsWider ==
  ASSUME NEW str, NEW set, NEW more, set \subseteq more, Starts(str, set) PROVE Starts(str, more)
  BY DEF Starts

(* What each part of a directive can begin with. *)
LEMMA TailsStart ==
  ASSUME NEW C, NEW d, DirectiveOf(d, C), ~d.literal, NEW b \in Seq(C)
  PROVE  /\ Starts(FromConversion(d, b), {d.conversion})
         /\ Starts(FromLength(d, b), LengthChars \cup {d.conversion})
         /\ Starts(FromPrecision(d, b), {"."} \cup LengthChars \cup {d.conversion})
         /\ Starts(FromWidth(d, b),
                ({"*"} \cup (Format!Decimals \ {"0"}) \cup {"."} \cup LengthChars)
                              \cup {d.conversion})
  <1> DEFINE S3 == LengthChars \cup {d.conversion}
             S2 == {"."} \cup LengthChars \cup {d.conversion}
             S1 == ({"*"} \cup (Format!Decimals \ {"0"}) \cup {"."} \cup LengthChars)
                 \cup {d.conversion}
             a4 == FromConversion(d, b)
             a3 == FromLength(d, b)
             a2 == FromPrecision(d, b)
  <1>1. /\ a4 \in Seq(C) /\ a3 \in Seq(C) /\ a2 \in Seq(C)
        /\ d.width \in Seq(C) /\ d.precision \in Seq(C) /\ d.length \in Seq(C)
    BY TailsTyped, PartsTyped
  <1>2. Starts(a4, {d.conversion})
    <2>1. d.conversion \in C
      BY DEF DirectiveOf
    <2> QED
      BY <2>1 DEF FromConversion, Starts
  <1>3. d.length # <<>> => d.length[1] \in S3
    <2>1. d.length \in Seq(LengthChars)
      BY LengthsTyped DEF DirectiveOf, Format!WellFormed
    <2> QED
      BY <2>1
  <1>4. d.precision # <<>> => d.precision[1] \in S2
    BY <1>1 DEF DirectiveOf, Format!WellFormed
  <1>5. d.width # <<>> => d.width[1] \in S1
    <2>1. \/ d.width = <<"*">>
          \/ d.width \in Seq(Format!Decimals) /\ (d.width # <<>> => d.width[1] # "0")
      BY DEF DirectiveOf, Format!WellFormed
    <2>2. CASE d.width = <<"*">>
      BY <2>2
    <2>3. CASE d.width \in Seq(Format!Decimals) /\ (d.width # <<>> => d.width[1] # "0")
      BY <2>3
    <2> QED
      BY <2>1, <2>2, <2>3
  <1>6. FromLength(d, b) = d.length \o a4 /\ FromPrecision(d, b) = d.precision \o a3
        /\ FromWidth(d, b) = d.width \o a2
    BY DEF FromWidth, FromPrecision, FromLength
  <1>7. {d.conversion} \subseteq S3 /\ S3 \subseteq S2 /\ S2 \subseteq S1
    OBVIOUS
  <1> HIDE DEF S1, S2, S3, a2, a3, a4
  <1>8. Starts(d.length \o a4, S3)
    <2>1. Starts(a4, S3)
      BY <1>2, <1>7, StartsWider
    <2> QED
      BY <1>1, <1>3, <2>1, StartsWith
  <1>9. Starts(d.precision \o a3, S2)
    <2>1. Starts(a3, S2)
      BY <1>6, <1>7, <1>8, StartsWider DEF a3
    <2> QED
      BY <1>1, <1>4, <2>1, StartsWith
  <1>10. Starts(d.width \o a2, S1)
    <2>1. Starts(a2, S1)
      BY <1>6, <1>7, <1>9, StartsWider DEF a2
    <2> QED
      BY <1>1, <1>5, <2>1, StartsWith
  <1>11. Starts(FromConversion(d, b), {d.conversion})
    BY <1>2 DEF a4
  <1>12. Starts(FromLength(d, b), S3) /\ Starts(FromPrecision(d, b), S2)
             /\ Starts(FromWidth(d, b), S1)
    BY <1>6, <1>8, <1>9, <1>10, Zenon
  <1> QED
    BY <1>11, <1>12 DEF S1, S2, S3

(* A character in front of a text. *)
LEMMA OneThen ==
  ASSUME NEW C, NEW x \in C, NEW b \in Seq(C)
  PROVE  /\ <<x>> \o b # <<>> /\ (<<x>> \o b)[1] = x /\ Tail(<<x>> \o b) = b
         /\ Len(<<x>> \o b) = 1 + Len(b)
         /\ b # <<>> => Len(<<x>> \o b) > 1 /\ (<<x>> \o b)[2] = b[1]
  OBVIOUS

(* Reading a run of characters leaves the text behind it. *)
LEMMA RunSkipped ==
  ASSUME NEW C, NEW p \in Seq(C), NEW q \in Seq(C), NEW set,
         \A i \in 1 .. Len(p) : p[i] \in set, Starts(q, C \ set)
  PROVE  /\ Format!Run(p \o q, set) = Len(p)
         /\ SubSeq(p \o q, 1, Format!Run(p \o q, set)) = p
         /\ SubSeq(p \o q, Format!Run(p \o q, set) + 1, Len(p \o q)) = q
  <1>1. q # <<>> => q[1] \notin set
    BY DEF Starts
  <1>2. Format!Run(p \o q, set) = Len(p)
    BY <1>1, RunOfFront
  <1>3. SubSeq(p \o q, 1, Len(p)) = p /\ SubSeq(p \o q, Len(p) + 1, Len(p \o q)) = q
    OBVIOUS
  <1> QED
    BY <1>2, <1>3

-----------------------------------------------------------------------------
(* Where the reader of a format is. *)

(* A percent sign as a conversion is printed twice unless it is the last. *)
DoubledIn(ds) == \E i \in 1 .. Len(ds) - 1 : ~ds[i].literal /\ ds[i].conversion = "%"
PrintedRight(ds, C, o, k) ==
  o \in Seq(C \cup Marks) /\ (~DoubledIn(ds) => o = PrintedOf(ds)[k])
(* In front of directive k + 1. *)
AtDirective(ds, C, c, u, o, k) ==
  c = Behind(ds, k) /\ u = TakenOf(ds)[k] /\ PrintedRight(ds, C, o, k)
(* In front of the conversion of directive k, which vparsef does not know *)
(* and prints again as text.                                              *)
AtUnknown(ds, C, c, u, o, k) ==
  /\ k # 0 /\ ~ds[k].literal /\ ds[k].conversion \notin Format!Conversions
  /\ c = <<ds[k].conversion>> \o Behind(ds, k) /\ u = TakenOf(ds)[k]
  /\ o \in Seq(C \cup Marks)
  /\ ~DoubledIn(ds) => Append(o, ds[k].conversion) = PrintedOf(ds)[k]
(* In the middle of directive k + 1. *)
Inside(ds, C, o, k) == k < Len(ds) /\ ~ds[k + 1].literal /\ PrintedRight(ds, C, o, k)
StarsOf(d) == IF d.width = <<"*">> THEN 1 ELSE 0
(* In front of the width of the directive, its precision, its length and *)
(* its conversion.                                                       *)
AtWidth(ds, C, c, u, o, k) ==
  /\ Inside(ds, C, o, k) /\ u = TakenOf(ds)[k]
  /\ c = FromWidth(ds[k + 1], Behind(ds, k + 1))
AtPrecision(ds, C, c, u, o, k) ==
  /\ Inside(ds, C, o, k) /\ u = TakenOf(ds)[k] + StarsOf(ds[k + 1])
  /\ c = FromPrecision(ds[k + 1], Behind(ds, k + 1))
AtLength(ds, C, c, u, o, k) ==
  /\ Inside(ds, C, o, k) /\ u = TakenOf(ds)[k] + StarsOf(ds[k + 1])
  /\ c = FromLength(ds[k + 1], Behind(ds, k + 1))
AtConversion(ds, C, c, u, o, k) ==
  /\ Inside(ds, C, o, k) /\ u = TakenOf(ds)[k] + StarsOf(ds[k + 1])
  /\ c = FromConversion(ds[k + 1], Behind(ds, k + 1))
(* Behind the last directive. *)
AtEnd(ds, C, u, o, k) ==
  k = Len(ds) /\ u = TakenOf(ds)[k] /\ PrintedRight(ds, C, o, k)

(* What is known of the directive that is next. *)
NextKnown(ds, C, k) ==
  /\ DirectiveOf(ds[k + 1], C) /\ Behind(ds, k + 1) \in Seq(C) /\ k + 1 \in 0 .. Len(ds)
  /\ Behind(ds, k) = Format!Chars(ds[k + 1]) \o Behind(ds, k + 1)
  /\ TakenOf(ds)[k] \in Nat
  /\ TakenOf(ds)[k + 1] = TakenOf(ds)[k] + Format!Takes(ds[k + 1])
  /\ PrintedOf(ds)[k + 1] = PrintedOf(ds)[k] \o Format!Prints(ds[k + 1])

(* There is such a directive. *)
LEMMA NextDirective ==
  ASSUME NEW C, NEW ds, GoodFormat(ds, C), NEW k \in 0 .. Len(ds), k < Len(ds)
  PROVE  NextKnown(ds, C, k)
  <1>1. Len(ds) \in Nat
    BY DEF GoodFormat
  <1>2. k + 1 \in 1 .. Len(ds) /\ k + 1 \in 0 .. Len(ds) /\ k \in 0 .. Len(ds) - 1
    BY <1>1
  <1>3. DirectiveOf(ds[k + 1], C)
    BY <1>2 DEF GoodFormat
  <1>4. /\ Behind(ds, k + 1) \in Seq(C)
        /\ Behind(ds, k) = Format!Chars(ds[k + 1]) \o Behind(ds, k + 1)
    BY <1>2, BehindFacts
  <1>5. TakenOf(ds)[k] \in Nat /\ TakenOf(ds)[k + 1] = TakenOf(ds)[k] + Format!Takes(ds[k + 1])
    BY <1>2, TakenFacts
  <1>6. PrintedOf(ds)[k + 1] = PrintedOf(ds)[k] \o Format!Prints(ds[k + 1])
    BY <1>2, PrintedFacts
  <1> QED
    BY <1>2, <1>3, <1>4, <1>5, <1>6 DEF NextKnown

(* A text that is left has a directive. *)
LEMMA MoreToRead ==
  ASSUME NEW C, NEW ds, GoodFormat(ds, C), NEW k \in 0 .. Len(ds), Behind(ds, k) # <<>>
  PROVE  k < Len(ds)
  <1>1. Len(ds) \in Nat /\ Behind(ds, Len(ds)) = <<>>
    BY BehindFacts DEF GoodFormat
  <1> QED
    BY <1>1

(* Appending is concatenating. *)
LEMMA AppendIs ==
  ASSUME NEW C, NEW o \in Seq(C), NEW x \in C
  PROVE  Append(o, x) \in Seq(C) /\ o \o <<x>> = Append(o, x)
  OBVIOUS

(* A character that is no directive is printed (format.cpp). *)
LEMMA PrintsLiteral ==
  ASSUME NEW C, NEW ds, GoodFormat(ds, C), NEW k \in 0 .. Len(ds), NEW c, NEW u, NEW o,
         AtDirective(ds, C, c, u, o, k), c # <<>>, c[1] # "%"
  PROVE  k + 1 \in 0 .. Len(ds) /\ AtDirective(ds, C, Tail(c), u, Append(o, c[1]), k + 1)
  <1> DEFINE d == ds[k + 1]
             b == Behind(ds, k + 1)
             x == d.conversion
  <1>1. k < Len(ds)
    BY MoreToRead DEF AtDirective
  <1>2. /\ DirectiveOf(d, C) /\ b \in Seq(C) /\ k + 1 \in 0 .. Len(ds) /\ c = Format!Chars(d) \o b
        /\ TakenOf(ds)[k] \in Nat /\ TakenOf(ds)[k + 1] = TakenOf(ds)[k] + Format!Takes(d)
        /\ PrintedOf(ds)[k + 1] = PrintedOf(ds)[k] \o Format!Prints(d)
    <2>1. /\ DirectiveOf(ds[k + 1], C) /\ Behind(ds, k + 1) \in Seq(C) /\ k + 1 \in 0 .. Len(ds)
          /\ Behind(ds, k) = Format!Chars(ds[k + 1]) \o Behind(ds, k + 1)
          /\ TakenOf(ds)[k] \in Nat
          /\ TakenOf(ds)[k + 1] = TakenOf(ds)[k] + Format!Takes(ds[k + 1])
          /\ PrintedOf(ds)[k + 1] = PrintedOf(ds)[k] \o Format!Prints(ds[k + 1])
      <3>1. NextKnown(ds, C, k)
        BY <1>1, NextDirective
      <3> QED
        BY <3>1, Zenon DEF NextKnown
    <2>2. c = Behind(ds, k)
      BY DEF AtDirective
    <2> QED
      BY <2>1, <2>2, Zenon
  <1>3. x \in C /\ "%" \in C /\ d.literal \in BOOLEAN
    BY <1>2 DEF DirectiveOf, SyntaxChars, Format!WellFormed
  <1> HIDE DEF d, b
  <1>4. d.literal
    <2>1. SUFFICES ASSUME ~d.literal PROVE FALSE
      BY <1>3
    <2>2. FromFlags(d, b) \in Seq(C) /\ c = <<"%">> \o FromFlags(d, b)
      BY <1>2, <2>1, TailsTyped, DirectiveSplit
    <2>3. (<<"%">> \o FromFlags(d, b))[1] = "%"
      BY <1>3, <2>2, OneThen
    <2> QED
      BY <2>2, <2>3
  <1>5. c = <<x>> \o b
    BY <1>2, <1>4, DirectiveSplit
  <1>6. c[1] = x /\ Tail(c) = b
    <2>1. (<<x>> \o b)[1] = x /\ Tail(<<x>> \o b) = b
      BY <1>2, <1>3, OneThen
    <2> QED
      BY <1>5, <2>1, Zenon
  <1>7. Format!Takes(d) = 0 /\ Format!Prints(d) = <<x>>
    BY <1>4 DEF Format!Takes, Format!Prints
  <1>8. u = TakenOf(ds)[k + 1]
    BY <1>2, <1>7 DEF AtDirective
  <1>9. PrintedRight(ds, C, Append(o, x), k + 1)
    <2>1. o \in Seq(C \cup Marks) /\ x \in C \cup Marks
      BY <1>3 DEF AtDirective, PrintedRight
    <2>2. Append(o, x) \in Seq(C \cup Marks) /\ o \o <<x>> = Append(o, x)
      BY <2>1, AppendIs
    <2>3. ~DoubledIn(ds) => o = PrintedOf(ds)[k]
      BY DEF AtDirective, PrintedRight
    <2>4. ~DoubledIn(ds) => Append(o, x) = PrintedOf(ds)[k + 1]
      BY <1>2, <1>7, <2>2, <2>3, Zenon
    <2> QED
      BY <2>2, <2>4 DEF PrintedRight
  <1> QED
    BY <1>2, <1>6, <1>8, <1>9 DEF AtDirective, b

(* A conversion that is not known is printed behind its mark. *)
LEMMA PrintsUnknown ==
  ASSUME NEW C, NEW ds, GoodFormat(ds, C), NEW k \in 0 .. Len(ds), NEW c, NEW u, NEW o,
         AtUnknown(ds, C, c, u, o, k)
  PROVE  c # <<>> /\ c[1] # "%" /\ AtDirective(ds, C, Tail(c), u, Append(o, c[1]), k)
  <1> DEFINE x == ds[k].conversion
             b == Behind(ds, k)
  <1>1. k \in 1 .. Len(ds) /\ b \in Seq(C)
    BY BehindFacts DEF AtUnknown, GoodFormat
  <1>2. x \in C /\ x # "%"
    BY <1>1 DEF GoodFormat, DirectiveOf, AtUnknown, Format!Conversions
  <1>3. c = <<x>> \o b
    BY DEF AtUnknown
  <1> HIDE DEF x, b
  <1>4. <<x>> \o b # <<>> /\ (<<x>> \o b)[1] = x /\ Tail(<<x>> \o b) = b
    BY <1>1, <1>2, OneThen
  <1>5. c # <<>> /\ c[1] = x /\ Tail(c) = b
    BY <1>3, <1>4, Zenon
  <1>6. Append(o, x) \in Seq(C \cup Marks)
    BY <1>2 DEF AtUnknown
  <1>7. PrintedRight(ds, C, Append(o, x), k) /\ u = TakenOf(ds)[k]
    BY <1>6 DEF AtUnknown, PrintedRight, x
  <1> QED
    BY <1>2, <1>5, <1>7, Zenon DEF AtDirective, b

(* The flags are read up to the width. *)
LEMMA ReadsFlags ==
  ASSUME NEW C, NEW ds, GoodFormat(ds, C), NEW k \in 0 .. Len(ds), NEW c, NEW u, NEW o,
         AtDirective(ds, C, c, u, o, k), c # <<>>, c[1] = "%"
  PROVE  AtWidth(ds, C, SubSeq(Tail(c), Format!Run(Tail(c), Format!FlagChars) + 1, Len(Tail(c))),
             u, o, k)
  <1> DEFINE d == ds[k + 1]
             b == Behind(ds, k + 1)
             x == d.conversion
  <1>1. k < Len(ds)
    BY MoreToRead DEF AtDirective
  <1>2. DirectiveOf(d, C) /\ b \in Seq(C) /\ c = Format!Chars(d) \o b
    <2>1. /\ DirectiveOf(ds[k + 1], C) /\ Behind(ds, k + 1) \in Seq(C) /\ k + 1 \in 0 .. Len(ds)
          /\ Behind(ds, k) = Format!Chars(ds[k + 1]) \o Behind(ds, k + 1)
          /\ TakenOf(ds)[k] \in Nat
          /\ TakenOf(ds)[k + 1] = TakenOf(ds)[k] + Format!Takes(ds[k + 1])
          /\ PrintedOf(ds)[k + 1] = PrintedOf(ds)[k] \o Format!Prints(ds[k + 1])
      <3>1. NextKnown(ds, C, k)
        BY <1>1, NextDirective
      <3> QED
        BY <3>1, Zenon DEF NextKnown
    <2>2. c = Behind(ds, k)
      BY DEF AtDirective
    <2> QED
      BY <2>1, <2>2, Zenon
  <1>3. x \in C /\ "%" \in C /\ d.literal \in BOOLEAN /\ (d.literal => x # "%")
    BY <1>2 DEF DirectiveOf, SyntaxChars, Format!WellFormed
  <1> HIDE DEF d, b
  <1>4. ~d.literal
    <2>1. SUFFICES ASSUME d.literal PROVE FALSE
      BY <1>3
    <2>2. c = <<x>> \o b
      BY <1>2, <2>1, DirectiveSplit
    <2>3. (<<x>> \o b)[1] = x
      BY <1>2, <1>3, OneThen
    <2>4. c[1] = x
      BY <2>2, <2>3, Zenon
    <2> QED
      BY <1>3, <2>1, <2>4
  <1>5. /\ FromFlags(d, b) \in Seq(C) /\ FromWidth(d, b) \in Seq(C) /\ c = <<"%">>
               \o FromFlags(d, b)
        /\ d.flags \in Seq(C)
    BY <1>2, <1>4, TailsTyped, PartsTyped, DirectiveSplit
  <1>6. Tail(c) = FromFlags(d, b)
    <2>1. Tail(<<"%">> \o FromFlags(d, b)) = FromFlags(d, b)
      BY <1>3, <1>5, OneThen
    <2> QED
      BY <1>5, <2>1, Zenon
  <1>7. Starts(FromWidth(d, b), C \ Format!FlagChars)
    <2> DEFINE S1 == ({"*"} \cup (Format!Decimals \ {"0"}) \cup {"."} \cup LengthChars) \cup {x}
    <2>1. Starts(FromWidth(d, b), S1)
      BY <1>2, <1>4, TailsStart
    <2>2. x \notin Format!FlagChars
      BY <1>2, <1>4 DEF DirectiveOf, Format!WellFormed
    <2>3. S1 \subseteq C \ Format!FlagChars
      BY <1>2, <1>3, <2>2, DecimalsAre DEF DirectiveOf, SyntaxChars, Format!FlagChars, LengthChars
    <2> HIDE DEF S1
    <2> QED
      BY <2>1, <2>3, StartsWider
  <1>8. \A i \in 1 .. Len(d.flags) : d.flags[i] \in Format!FlagChars
    BY <1>2, <1>4 DEF DirectiveOf, Format!WellFormed
  <1> DEFINE t == d.flags \o FromWidth(d, b)
  <1>9. SubSeq(t, Format!Run(t, Format!FlagChars) + 1, Len(t)) = FromWidth(d, b)
    <2> DEFINE p == d.flags
               q == FromWidth(d, b)
    <2>1. p \in Seq(C) /\ q \in Seq(C)
      BY <1>5
    <2>2. Starts(q, C \ Format!FlagChars) /\ \A i \in 1 .. Len(p) : p[i] \in Format!FlagChars
      BY <1>7, <1>8
    <2> HIDE DEF p, q
    <2>3. SubSeq(p \o q, Format!Run(p \o q, Format!FlagChars) + 1, Len(p \o q)) = q
      BY <2>1, <2>2, RunSkipped
    <2> QED
      BY <2>3 DEF p, q
  <1>10. t = FromFlags(d, b)
    BY DEF FromFlags
  <1> HIDE DEF t
  <1>11. SubSeq(Tail(c), Format!Run(Tail(c), Format!FlagChars) + 1, Len(Tail(c))) = FromWidth(d, b)
    BY <1>6, <1>9, <1>10, Zenon
  <1> QED
    BY <1>1, <1>4, <1>11, Zenon DEF AtWidth, Inside, AtDirective, d, b

(* The directive being read, whatever part of it is next. *)
InsideKnown(ds, C, k) ==
  /\ DirectiveOf(ds[k + 1], C) /\ ~ds[k + 1].literal /\ Behind(ds, k + 1) \in Seq(C)
  /\ TakenOf(ds)[k] \in Nat /\ k + 1 \in 0 .. Len(ds)

(* Those facts inside a directive. *)
LEMMA DirectiveInside ==
  ASSUME NEW C, NEW ds, GoodFormat(ds, C), NEW k \in 0 .. Len(ds), NEW o, Inside(ds, C, o, k)
  PROVE  InsideKnown(ds, C, k)
  <1>1. k < Len(ds) /\ ~ds[k + 1].literal
    BY DEF Inside
  <1>2. NextKnown(ds, C, k)
    BY <1>1, NextDirective
  <1> QED
    BY <1>1, <1>2, Zenon DEF NextKnown, InsideKnown

(* The characters of the parts of a directive are distinct. *)
LEMMA SyntaxKnown ==
  ASSUME NEW C, NEW d, DirectiveOf(d, C), ~d.literal
  PROVE  /\ d.conversion \in C
         /\ d.conversion \notin Format!FlagChars \cup Format!Decimals \cup {".", "*"}
                \cup LengthChars
         /\ {"%", ".", "*"} \subseteq C /\ Format!Decimals \subseteq C /\ LengthChars \subseteq C
         /\ Format!Decimals \cap ({".", "*"} \cup LengthChars) = {}
         /\ Format!FlagChars \subseteq C
         /\ {".", "*"} \cap LengthChars = {} /\ "." # "*"
  <1>1. d.conversion \notin Format!FlagChars \cup Format!Decimals
                             \cup {".", "*", "h", "l", "j", "z", "t", "L"}
    BY DEF DirectiveOf, Format!WellFormed
  <1>2. Format!Decimals \cap ({".", "*"} \cup LengthChars) = {}
    BY DecimalsAre DEF LengthChars
  <1> QED
    BY <1>1, <1>2 DEF DirectiveOf, SyntaxChars, LengthChars

(* The width is a star, which takes an argument, or a number. *)
LEMMA ReadsStar ==
  ASSUME NEW C, NEW ds, GoodFormat(ds, C), NEW k \in 0 .. Len(ds), NEW c, NEW u, NEW o,
         AtWidth(ds, C, c, u, o, k)
  PROVE  /\ c # <<>>
         /\ c[1] = "*" => AtPrecision(ds, C, Tail(c), u + 1, o, k)
         /\ c[1] # "*" =>
              /\ AtPrecision(ds, C, SubSeq(c, Format!Run(c, Format!Decimals) + 1, Len(c)), u, o, k)
              /\ SubSeq(c, 1, Format!Run(c, Format!Decimals)) \in Seq(Format!Decimals)
  <1> DEFINE d == ds[k + 1]
             b == Behind(ds, k + 1)
             w == d.width
             q == FromPrecision(d, b)
             rest == {"."} \cup LengthChars \cup {d.conversion}
  <1>1. /\ DirectiveOf(d, C) /\ ~d.literal /\ b \in Seq(C) /\ TakenOf(ds)[k] \in Nat
        /\ Inside(ds, C, o, k) /\ u = TakenOf(ds)[k]
    <2>1. Inside(ds, C, o, k) /\ u = TakenOf(ds)[k]
      BY DEF AtWidth
    <2>2. InsideKnown(ds, C, k)
      BY <2>1, DirectiveInside
    <2> QED
      BY <2>1, <2>2, Zenon DEF InsideKnown
  <1>2. c = w \o q
    BY DEF AtWidth, FromWidth
  <1>3. AtPrecision(ds, C, q, TakenOf(ds)[k] + StarsOf(d), o, k)
    BY <1>1, Zenon DEF AtPrecision
  <1> HIDE DEF d, b
  <1>4. w \in Seq(C) /\ q \in Seq(C) /\ Starts(q, rest)
    BY <1>1, TailsTyped, TailsStart, PartsTyped
  <1>5. rest \subseteq C \ Format!Decimals /\ "*" \notin rest /\ "*" \in C
            /\ "*" \notin Format!Decimals
    BY <1>1, SyntaxKnown
  <1>6. w = <<"*">> \/ w \in Seq(Format!Decimals)
    BY <1>1 DEF DirectiveOf, Format!WellFormed
  <1> HIDE DEF q, rest
  <1>7. CASE w = <<"*">>
    <2>1. <<"*">> \o q # <<>> /\ (<<"*">> \o q)[1] = "*" /\ Tail(<<"*">> \o q) = q
      BY <1>4, <1>5, OneThen
    <2>2. c # <<>> /\ c[1] = "*" /\ Tail(c) = q
      BY <1>2, <1>7, <2>1, Zenon
    <2>3. StarsOf(d) = 1
      BY <1>7 DEF StarsOf
    <2>4. AtPrecision(ds, C, Tail(c), u + 1, o, k)
      BY <1>1, <1>3, <2>2, <2>3, Zenon
    <2> QED
      BY <2>2, <2>4, Zenon
  <1>8. CASE w \in Seq(Format!Decimals)
    <2>1. \A i \in 1 .. Len(w) : w[i] \in Format!Decimals
      BY <1>8
    <2>2. Starts(q, C \ Format!Decimals)
      BY <1>4, <1>5, StartsWider
    <2> HIDE DEF w
    <2>3. /\ SubSeq(w \o q, 1, Format!Run(w \o q, Format!Decimals)) = w
          /\ SubSeq(w \o q, Format!Run(w \o q, Format!Decimals) + 1, Len(w \o q)) = q
      BY <1>4, <2>1, <2>2, RunSkipped
    <2>4. StarsOf(d) = 0
      <3>1. w # <<"*">>
        <4>1. SUFFICES ASSUME w = <<"*">> PROVE FALSE
          OBVIOUS
        <4>2. Len(w) = 1 /\ w[1] = "*"
          BY <4>1
        <4> QED
          BY <1>5, <2>1, <4>2
      <3> QED
        BY <3>1 DEF StarsOf, w
    <2>5. AtPrecision(ds, C, q, u, o, k)
      <3>1. TakenOf(ds)[k] + 0 = TakenOf(ds)[k]
        BY <1>1
      <3> QED
        BY <1>1, <1>3, <2>4, <3>1, Zenon
    <2>6. Starts(w \o q, Format!Decimals \cup rest)
      <3>1. w # <<>> => w[1] \in Format!Decimals \cup rest
        BY <1>8
      <3>2. Starts(q, Format!Decimals \cup rest)
        BY <1>4, StartsWider
      <3> QED
        BY <1>4, <3>1, <3>2, StartsWith
    <2>7. Starts(c, Format!Decimals \cup rest)
      BY <1>2, <2>6, Zenon DEF w
    <2>8. c # <<>> /\ c[1] # "*"
      BY <1>5, <2>7 DEF Starts
    <2>9. /\ AtPrecision(ds, C, SubSeq(c, Format!Run(c, Format!Decimals) + 1, Len(c)), u, o, k)
          /\ SubSeq(c, 1, Format!Run(c, Format!Decimals)) \in Seq(Format!Decimals)
      BY <1>2, <1>8, <2>3, <2>5, Zenon DEF w
    <2> QED
      BY <2>8, <2>9, Zenon
  <1> QED
    BY <1>6, <1>7, <1>8

(* The precision is skipped, and takes no argument. *)
LEMMA ReadsPrecision ==
  ASSUME NEW C, NEW ds, GoodFormat(ds, C), NEW k \in 0 .. Len(ds), NEW c, NEW u, NEW o,
         AtPrecision(ds, C, c, u, o, k)
  PROVE  /\ c # <<>>
         /\ c[1] = "." =>
              AtLength(ds, C,
                  SubSeq(Tail(c), Format!Run(Tail(c), Format!Decimals) + 1, Len(Tail(c))), u, o, k)
         /\ c[1] # "." => AtLength(ds, C, c, u, o, k)
  <1> DEFINE d == ds[k + 1]
             b == Behind(ds, k + 1)
             r == d.precision
             q == FromLength(d, b)
             rest == LengthChars \cup {d.conversion}
  <1>1. /\ DirectiveOf(d, C) /\ ~d.literal /\ b \in Seq(C)
        /\ Inside(ds, C, o, k) /\ u = TakenOf(ds)[k] + StarsOf(d)
    <2>1. Inside(ds, C, o, k) /\ u = TakenOf(ds)[k] + StarsOf(d)
      BY DEF AtPrecision
    <2>2. InsideKnown(ds, C, k)
      BY <2>1, DirectiveInside
    <2> QED
      BY <2>1, <2>2, Zenon DEF InsideKnown
  <1>2. c = r \o q
    BY DEF AtPrecision, FromPrecision
  <1>3. AtLength(ds, C, q, u, o, k)
    BY <1>1, Zenon DEF AtLength
  <1> HIDE DEF d, b
  <1>4. r \in Seq(C) /\ q \in Seq(C) /\ Starts(q, rest)
    BY <1>1, TailsTyped, TailsStart, PartsTyped
  <1>5. rest \subseteq C \ Format!Decimals /\ "." \notin rest
    BY <1>1, SyntaxKnown
  <1>6. \A i \in 1 .. Len(r) : ((i = 1) <=> r[i] = ".") /\ r[i] \in Format!Decimals \cup {"."}
    BY <1>1 DEF DirectiveOf, Format!WellFormed
  <1> HIDE DEF q, rest, r
  <1>7. CASE r = <<>>
    <2>1. r \o q = q
      BY <1>4, <1>7
    <2>2. c = q
      BY <1>2, <2>1, Zenon
    <2>3. q # <<>> /\ q[1] # "."
      BY <1>4, <1>5 DEF Starts
    <2> QED
      BY <1>3, <2>2, <2>3, Zenon
  <1>8. CASE r # <<>>
    <2>1. r \o q # <<>> /\ (r \o q)[1] = r[1] /\ Tail(r \o q) = Tail(r) \o q
      BY <1>4, <1>8
    <2>2. r[1] = "."
      BY <1>4, <1>6, <1>8
    <2>3. c # <<>> /\ c[1] = "." /\ Tail(c) = Tail(r) \o q
      BY <1>2, <2>1, <2>2, Zenon
    <2> DEFINE p == Tail(r)
    <2>4. p \in Seq(C) /\ \A i \in 1 .. Len(p) : p[i] \in Format!Decimals
      <3>1. p \in Seq(C) /\ Len(p) = Len(r) - 1 /\ \A i \in 1 .. Len(p) : p[i] = r[i + 1]
        BY <1>4, <1>8
      <3>2. \A i \in 1 .. Len(r) - 1 : i + 1 \in 1 .. Len(r) /\ i + 1 # 1
        BY <1>4
      <3> HIDE DEF p
      <3> QED
        BY <1>6, <3>1, <3>2
    <2>5. Starts(q, C \ Format!Decimals)
      BY <1>4, <1>5, StartsWider
    <2> HIDE DEF p
    <2>6. SubSeq(p \o q, Format!Run(p \o q, Format!Decimals) + 1, Len(p \o q)) = q
      BY <1>4, <2>4, <2>5, RunSkipped
    <2>7. AtLength(ds, C, SubSeq(Tail(c), Format!Run(Tail(c), Format!Decimals) + 1, Len(Tail(c))),
              u, o, k)
      BY <1>3, <2>3, <2>6, Zenon DEF p
    <2> QED
      BY <2>3, <2>7, Zenon
  <1> QED
    BY <1>7, <1>8

(* Whether the length is written twice, as hh and ll are. *)
Twice(c) == c[1] \in {"h", "l"} /\ Len(c) > 1 /\ c[2] = c[1]

(* The length is read, once or twice. *)
LEMMA ReadsLength ==
  ASSUME NEW C, NEW ds, GoodFormat(ds, C), NEW k \in 0 .. Len(ds), NEW c, NEW u, NEW o,
         AtLength(ds, C, c, u, o, k)
  PROVE  /\ c # <<>>
         /\ c[1] \notin LengthChars => AtConversion(ds, C, c, u, o, k)
         /\ c[1] \in LengthChars /\ Twice(c) => AtConversion(ds, C, Tail(Tail(c)), u, o, k)
         /\ c[1] \in LengthChars /\ ~Twice(c) => AtConversion(ds, C, Tail(c), u, o, k)
  <1> DEFINE d == ds[k + 1]
             b == Behind(ds, k + 1)
             l == d.length
             q == FromConversion(d, b)
  <1>1. /\ DirectiveOf(d, C) /\ ~d.literal /\ b \in Seq(C)
        /\ Inside(ds, C, o, k) /\ u = TakenOf(ds)[k] + StarsOf(d)
    <2>1. Inside(ds, C, o, k) /\ u = TakenOf(ds)[k] + StarsOf(d)
      BY DEF AtLength
    <2>2. InsideKnown(ds, C, k)
      BY <2>1, DirectiveInside
    <2> QED
      BY <2>1, <2>2, Zenon DEF InsideKnown
  <1>2. c = l \o q
    BY DEF AtLength, FromLength
  <1>3. AtConversion(ds, C, q, u, o, k)
    BY <1>1, Zenon DEF AtConversion
  <1> HIDE DEF d, b
  <1>4. l \in Seq(C) /\ q \in Seq(C) /\ Starts(q, {d.conversion})
    BY <1>1, TailsTyped, TailsStart, PartsTyped
  <1>5. d.conversion \notin LengthChars /\ LengthChars \subseteq C
    BY <1>1, SyntaxKnown
  <1>6. l \in Format!Lengths
    BY <1>1 DEF DirectiveOf, Format!WellFormed
  <1>7. q # <<>> /\ q[1] \notin LengthChars
    BY <1>4, <1>5 DEF Starts
  <1> HIDE DEF q, l
  <1>8. \/ l = <<>> \/ \E x \in LengthChars : l = <<x>>
        \/ l = <<"h", "h">> \/ l = <<"l", "l">>
    BY <1>6, Zenon DEF Format!Lengths, LengthChars
  <1>9. CASE l = <<>>
    <2>1. l \o q = q
      BY <1>4, <1>9
    <2>2. c = q
      BY <1>2, <2>1, Zenon
    <2> QED
      BY <1>3, <1>7, <2>2, Zenon
  <1>10. CASE \E x \in LengthChars : l = <<x>>
    <2>1. PICK x \in LengthChars : l = <<x>>
      BY <1>10
    <2>2. c = <<x>> \o q
      BY <1>2, <2>1, Zenon
    <2>3. x \in C
      BY <1>5
    <2>4. /\ <<x>> \o q # <<>> /\ (<<x>> \o q)[1] = x /\ Tail(<<x>> \o q) = q
          /\ (<<x>> \o q)[2] = q[1]
      BY <1>4, <1>7, <2>3, OneThen
    <2>5. c # <<>> /\ c[1] = x /\ Tail(c) = q /\ c[2] = q[1]
      BY <2>2, <2>4, Zenon
    <2>6. ~Twice(c)
      BY <1>7, <2>5 DEF Twice
    <2> QED
      BY <1>3, <2>5, <2>6, Zenon
  <1>11. ASSUME NEW x \in {"h", "l"}, l = <<x, x>>
         PROVE  c # <<>> /\ c[1] = x /\ Twice(c) /\ Tail(Tail(c)) = q
    <2>1. x \in C
      BY <1>5 DEF LengthChars
    <2>2. LET t == <<x, x>> \o q
          IN t # <<>> /\ t[1] = x /\ t[2] = x /\ Len(t) > 1 /\ Tail(Tail(t)) = q
      BY <1>4, <2>1
    <2>3. c = <<x, x>> \o q
      BY <1>2, <1>11, Zenon
    <2>4. c # <<>> /\ c[1] = x /\ c[2] = x /\ Len(c) > 1 /\ Tail(Tail(c)) = q
      BY <2>2, <2>3, Zenon
    <2> QED
      BY <2>4 DEF Twice
  <1>12. CASE l = <<"h", "h">> \/ l = <<"l", "l">>
    <2>1. PICK x \in {"h", "l"} : l = <<x, x>>
      BY <1>12
    <2>2. c # <<>> /\ c[1] = x /\ Twice(c) /\ Tail(Tail(c)) = q
      BY <1>11, <2>1
    <2>3. x \in LengthChars
      BY DEF LengthChars
    <2> QED
      BY <1>3, <2>2, <2>3, Zenon
  <1> QED
    BY <1>8, <1>9, <1>10, <1>12

(* What a directive prints, by its conversion. *)
LEMMA PrintsOf ==
  ASSUME NEW d, ~d.literal
  PROVE  /\ d.conversion \in Format!Integrals => Format!Prints(d) = <<"number">>
         /\ d.conversion \in Format!Floats => Format!Prints(d) = <<"?">>
         /\ d.conversion \in {"c", "s"} => Format!Prints(d) = <<"text">>
         /\ d.conversion = "n" => Format!Prints(d) = <<>>
         /\ d.conversion = "%" => Format!Prints(d) = <<"%">>
         /\ d.conversion \notin Format!Conversions => Format!Prints(d) = <<"?", d.conversion>>
  BY DEF Format!Prints, Format!Integrals, Format!Floats, Format!Conversions

(* A mark and a character. *)
LEMMA TwoPrinted ==
  ASSUME NEW C, NEW o \in Seq(C), NEW x \in C, NEW y \in C
  PROVE  Append(Append(o, x), y) = o \o <<x, y>>
  OBVIOUS

(* What every conversion does to the format and the arguments. *)
Converting(ds, C, c, u, o, k) ==
  /\ c # <<>> /\ c[1] = ds[k + 1].conversion /\ Tail(c) = Behind(ds, k + 1)
  /\ k + 1 \in 0 .. Len(ds) /\ Behind(ds, k + 1) \in Seq(C)
  /\ c = <<ds[k + 1].conversion>> \o Behind(ds, k + 1)
  /\ ~ds[k + 1].literal /\ ds[k + 1].conversion \in C
  /\ ds[k + 1].conversion # "%" => u + 1 = TakenOf(ds)[k + 1]
  /\ ds[k + 1].conversion = "%" => u = TakenOf(ds)[k + 1]
  /\ PrintedOf(ds)[k + 1] = PrintedOf(ds)[k] \o Format!Prints(ds[k + 1])
  /\ o \in Seq(C \cup Marks)
  /\ ~DoubledIn(ds) => o = PrintedOf(ds)[k]

(* It is what is known at a conversion. *)
LEMMA ConversionKnown ==
  ASSUME NEW C, NEW ds, GoodFormat(ds, C), NEW k \in 0 .. Len(ds), NEW c, NEW u, NEW o,
         AtConversion(ds, C, c, u, o, k)
  PROVE  Converting(ds, C, c, u, o, k)
  <1> DEFINE d == ds[k + 1]
             b == Behind(ds, k + 1)
             x == d.conversion
  <1>1. k < Len(ds) /\ ~d.literal /\ u = TakenOf(ds)[k] + StarsOf(d)
    BY DEF AtConversion, Inside
  <1>2. o \in Seq(C \cup Marks) /\ (~DoubledIn(ds) => o = PrintedOf(ds)[k])
    BY DEF AtConversion, Inside, PrintedRight
  <1>3. NextKnown(ds, C, k)
    BY <1>1, NextDirective
  <1>4. /\ DirectiveOf(d, C) /\ b \in Seq(C) /\ k + 1 \in 0 .. Len(ds) /\ TakenOf(ds)[k] \in Nat
        /\ TakenOf(ds)[k + 1] = TakenOf(ds)[k] + Format!Takes(d)
        /\ PrintedOf(ds)[k + 1] = PrintedOf(ds)[k] \o Format!Prints(d)
    BY <1>3, Zenon DEF NextKnown
  <1>5. c = <<x>> \o b
    BY DEF AtConversion, FromConversion
  <1> HIDE DEF d, b
  <1>6. x \in C
    BY <1>4 DEF DirectiveOf
  <1>7. <<x>> \o b # <<>> /\ (<<x>> \o b)[1] = x /\ Tail(<<x>> \o b) = b
    BY <1>4, <1>6, OneThen
  <1>8. c # <<>> /\ c[1] = x /\ Tail(c) = b
    BY <1>5, <1>7, Zenon
  <1>9. Format!Takes(d) = StarsOf(d) + (IF x = "%" THEN 0 ELSE 1) /\ StarsOf(d) \in Nat
    BY <1>1 DEF Format!Takes, StarsOf
  <1>10. (x # "%" => u + 1 = TakenOf(ds)[k + 1]) /\ (x = "%" => u = TakenOf(ds)[k + 1])
    <2> DEFINE t == TakenOf(ds)[k]
               e == TakenOf(ds)[k + 1]
               str == StarsOf(d)
    <2>1. t \in Nat /\ str \in Nat /\ u = t + str /\ e = t + Format!Takes(d)
      BY <1>1, <1>4, <1>9
    <2>2. CASE x = "%"
      <3>1. Format!Takes(d) = str + 0
        BY <1>9, <2>2
      <3> HIDE DEF t, e, str
      <3>2. u = e
        BY <2>1, <3>1
      <3> QED
        BY <2>2, <3>2 DEF e
    <2>3. CASE x # "%"
      <3>1. Format!Takes(d) = str + 1
        BY <1>9, <2>3
      <3> HIDE DEF t, e, str
      <3>2. u + 1 = e
        BY <2>1, <3>1
      <3> QED
        BY <2>3, <3>2 DEF e
    <2> QED
      BY <2>2, <2>3
  <1> QED
    BY <1>1, <1>2, <1>4, <1>5, <1>6, <1>8, <1>10, Zenon DEF d, b, Converting

(* A conversion takes its argument and prints its mark. *)
LEMMA ReadsConversion ==
  ASSUME NEW C, NEW ds, GoodFormat(ds, C), NEW k \in 0 .. Len(ds), NEW c, NEW u, NEW o,
         AtConversion(ds, C, c, u, o, k)
  PROVE  /\ c # <<>> /\ k + 1 \in 0 .. Len(ds)
         /\ c[1] \in Format!Integrals =>
              AtDirective(ds, C, Tail(c), u + 1, Append(o, "number"), k + 1)
         /\ c[1] \in Format!Floats => AtDirective(ds, C, Tail(c), u + 1, Append(o, "?"), k + 1)
         /\ c[1] \in {"c", "s"} =>
              AtDirective(ds, C, Tail(c), u + 1, Append(o, "text"), k + 1)
         /\ c[1] = "n" => AtDirective(ds, C, Tail(c), u + 1, o, k + 1)
         /\ c[1] = "%" => AtDirective(ds, C, Tail(c), u, o \o c, k + 1)
         /\ c[1] \notin Format!Conversions => AtUnknown(ds, C, c, u + 1, Append(o, "?"), k + 1)
  <1> DEFINE d == ds[k + 1]
             b == Behind(ds, k + 1)
             x == d.conversion
             before == PrintedOf(ds)[k]
             after == PrintedOf(ds)[k + 1]
             taken == TakenOf(ds)[k + 1]
             M == C \cup Marks
  <1>0. Converting(ds, C, c, u, o, k)
    BY ConversionKnown
  <1>1. /\ c # <<>> /\ c[1] = x /\ Tail(c) = b /\ k + 1 \in 0 .. Len(ds) /\ b \in Seq(C)
        /\ c = <<x>> \o b /\ ~d.literal /\ x \in C
    BY <1>0, Zenon DEF Converting
  <1>2. (x # "%" => u + 1 = taken) /\ (x = "%" => u = taken)
    BY <1>0, Zenon DEF Converting
  <1>3. after = before \o Format!Prints(d) /\ o \in Seq(M) /\ (~DoubledIn(ds) => o = before)
    BY <1>0, Zenon DEF Converting
  <1>4. "number" \in M /\ "?" \in M /\ "text" \in M /\ "%" \in M /\ x \in M
    BY <1>1 DEF Marks
  <1>5. ASSUME NEW m \in M, Format!Prints(d) = <<m>>, x # "%"
        PROVE  AtDirective(ds, C, Tail(c), u + 1, Append(o, m), k + 1)
    <2>1. Append(o, m) \in Seq(M) /\ o \o <<m>> = Append(o, m)
      <3> HIDE DEF M
      <3> QED
        BY <1>3, AppendIs
    <2>2. ~DoubledIn(ds) => Append(o, m) = after
      BY <1>3, <1>5, <2>1, Zenon
    <2>3. PrintedRight(ds, C, Append(o, m), k + 1)
      BY <2>1, <2>2, Zenon DEF PrintedRight
    <2> QED
      BY <1>1, <1>2, <1>5, <2>3, Zenon DEF AtDirective
  <1> HIDE DEF M
  <1>6. ("number" \in M) /\ ("?" \in M) /\ ("text" \in M)
    BY <1>4
  <1>7. ASSUME x \in Format!Integrals
        PROVE  AtDirective(ds, C, Tail(c), u + 1, Append(o, "number"), k + 1)
    <2>1. Format!Prints(d) = <<"number">> /\ x # "%"
      BY <1>1, <1>7, PrintsOf DEF Format!Integrals
    <2> QED
      BY <1>5, <1>6, <2>1
  <1>8. ASSUME x \in Format!Floats
        PROVE  AtDirective(ds, C, Tail(c), u + 1, Append(o, "?"), k + 1)
    <2>1. Format!Prints(d) = <<"?">> /\ x # "%"
      BY <1>1, <1>8, PrintsOf DEF Format!Floats
    <2> QED
      BY <1>5, <1>6, <2>1
  <1>9. ASSUME x \in {"c", "s"}
        PROVE  AtDirective(ds, C, Tail(c), u + 1, Append(o, "text"), k + 1)
    <2>1. Format!Prints(d) = <<"text">> /\ x # "%"
      BY <1>1, <1>9, PrintsOf
    <2> QED
      BY <1>5, <1>6, <2>1
  <1>10. ASSUME x = "n" PROVE AtDirective(ds, C, Tail(c), u + 1, o, k + 1)
    <2>1. Format!Prints(d) = <<>> /\ x # "%"
      BY <1>1, <1>10, PrintsOf
    <2>2. o \o <<>> = o
      BY <1>3
    <2>3. ~DoubledIn(ds) => o = after
      BY <1>3, <2>1, <2>2, Zenon
    <2>4. PrintedRight(ds, C, o, k + 1)
      BY <1>3, <2>3, Zenon DEF PrintedRight, M
    <2> QED
      BY <1>1, <1>2, <2>1, <2>4, Zenon DEF AtDirective
  <1>11. ASSUME x = "%" PROVE AtDirective(ds, C, Tail(c), u, o \o c, k + 1)
    <2>1. Format!Prints(d) = <<x>>
      BY <1>1, <1>11, PrintsOf
    <2>2. c \in Seq(M) /\ o \o c \in Seq(M)
      <3>1. <<x>> \in Seq(M) /\ b \in Seq(M)
        BY <1>1, <1>4, Wider DEF M
      <3>2. <<x>> \o b \in Seq(M)
        <4> HIDE DEF b, x
        <4> QED
          BY <3>1
      <3>3. c \in Seq(M)
        BY <1>1, <3>2, Zenon
      <3> QED
        BY <1>3, <3>3
    <2>3. ASSUME ~DoubledIn(ds) PROVE o \o c = after
      <3>1. Len(ds) \in Nat
        BY DEF GoodFormat
      <3>2. k + 1 = Len(ds)
        <4>1. SUFFICES ASSUME k + 1 # Len(ds) PROVE FALSE
          OBVIOUS
        <4>2. k + 1 \in 1 .. Len(ds) - 1
          BY <1>1, <3>1, <4>1
        <4> QED
          BY <1>1, <1>11, <2>3, <4>2 DEF DoubledIn
      <3>3. b = <<>>
        <4>1. Behind(ds, Len(ds)) = <<>>
          BY BehindFacts
        <4> QED
          BY <3>2, <4>1, Zenon
      <3>4. <<x>> \o <<>> = <<x>>
        BY <1>1
      <3>5. c = <<x>>
        BY <1>1, <3>3, <3>4, Zenon
      <3> QED
        BY <1>3, <2>1, <2>3, <3>5, Zenon
    <2>4. PrintedRight(ds, C, o \o c, k + 1)
      BY <2>2, <2>3, Zenon DEF PrintedRight, M
    <2> QED
      BY <1>1, <1>2, <1>11, <2>4, Zenon DEF AtDirective
  <1>12. ASSUME x \notin Format!Conversions
         PROVE  AtUnknown(ds, C, c, u + 1, Append(o, "?"), k + 1)
    <2>1. Format!Prints(d) = <<"?", x>> /\ x # "%"
      BY <1>1, <1>12, PrintsOf DEF Format!Conversions
    <2>2. Append(Append(o, "?"), x) = o \o <<"?", x>> /\ Append(o, "?") \in Seq(M)
      <3>1. "?" \in M /\ x \in M /\ o \in Seq(M)
        BY <1>3, <1>4
      <3> HIDE DEF x
      <3>2. Append(o, "?") \in Seq(M)
        BY <3>1
      <3> QED
        BY <3>1, <3>2, TwoPrinted
    <2>3. ~DoubledIn(ds) => Append(Append(o, "?"), x) = after
      BY <1>3, <2>1, <2>2, Zenon
    <2>4. k + 1 # 0
      OBVIOUS
    <2> QED
      BY <1>1, <1>2, <1>12, <2>1, <2>2, <2>3, <2>4, Zenon DEF AtUnknown, M
  <1> QED
    BY <1>1, <1>7, <1>8, <1>9, <1>10, <1>11, <1>12, Zenon

(* At the end of the text every directive was read. *)
LEMMA Finishes ==
  ASSUME NEW C, NEW ds, GoodFormat(ds, C), NEW k \in 0 .. Len(ds), NEW u, NEW o,
         AtDirective(ds, C, <<>>, u, o, k)
  PROVE  AtEnd(ds, C, u, o, k)
  <1>1. k = Len(ds)
    <2>1. SUFFICES ASSUME k # Len(ds) PROVE FALSE
      OBVIOUS
    <2> DEFINE d == ds[k + 1]
               b == Behind(ds, k + 1)
    <2>2. k < Len(ds)
      BY <2>1 DEF GoodFormat
    <2>3. NextKnown(ds, C, k)
      BY <2>2, NextDirective
    <2>4. DirectiveOf(d, C) /\ b \in Seq(C) /\ Behind(ds, k) = Format!Chars(d) \o b
      BY <2>3, Zenon DEF NextKnown
    <2>5. Behind(ds, k) = <<>>
      BY DEF AtDirective
    <2>6. d.conversion \in C /\ "%" \in C /\ d.literal \in BOOLEAN
      BY <2>4 DEF DirectiveOf, SyntaxChars, Format!WellFormed
    <2> HIDE DEF d, b
    <2>7. CASE d.literal
      <3>1. Format!Chars(d) \o b = <<d.conversion>> \o b
        BY <2>4, <2>7, DirectiveSplit
      <3>2. <<d.conversion>> \o b # <<>>
        BY <2>4, <2>6
      <3> QED
        BY <2>4, <2>5, <3>1, <3>2, Zenon
    <2>8. CASE ~d.literal
      <3>1. Format!Chars(d) \o b = <<"%">> \o FromFlags(d, b) /\ FromFlags(d, b) \in Seq(C)
        BY <2>4, <2>8, DirectiveSplit, TailsTyped
      <3>2. <<"%">> \o FromFlags(d, b) # <<>>
        BY <2>6, <3>1
      <3> QED
        BY <2>4, <2>5, <3>1, <3>2, Zenon
    <2> QED
      BY <2>6, <2>7, <2>8
  <1> QED
    BY <1>1 DEF AtEnd, AtDirective

-----------------------------------------------------------------------------
(* Numbers in a field. *)

(* The characters of a number in a field. *)
NumberChars == {"-", "+", " ", "x", "X"} \cup AllDigits

(* What outdigits writes are digits. *)
LEMMA DigitsWritten ==
  ASSUME NEW base \in Bases, NEW upper \in BOOLEAN, NEW value \in Nat
  PROVE  Format!outdigits(value, base, upper) \in Seq(AllDigits)
             /\ Len(Format!outdigits(value, base, upper)) >= 1
  <1>1. PICK f : IsDigits(f, value, base, upper) /\ Format!outdigits(value, base, upper) = f[value]
    BY FormatDigitsAre
  <1> QED
    BY <1>1, DigitsTyped

(* A piece in the middle of a text. *)
LEMMA Middle ==
  ASSUME NEW C, NEW p \in Seq(C), NEW q \in Seq(C), NEW str \in Seq(C), Len(q) >= 1
  PROVE  /\ SubSeq(p \o q, Len(p) + 1, Len(p) + 1 + Len(q) - 1) = q
         /\ SubSeq((p \o q) \o str, Len(p) + 1, Len(p) + 1 + Len(q) - 1) = q
         /\ Len(p) + 1 \in 1 .. Len(p \o q) /\ Len(p) + 1 + Len(q) - 1 <= Len(p \o q)
         /\ Len(p) + 1 \in 1 .. Len((p \o q) \o str) /\ Len(p) + 1 + Len(q) - 1
                <= Len((p \o q) \o str)
  <1>1. Len(p) \in Nat /\ Len(q) \in Nat /\ Len(str) \in Nat /\ Len(p \o q) = Len(p) + Len(q)
        /\ Len((p \o q) \o str) = Len(p) + Len(q) + Len(str)
    OBVIOUS
  <1>2. SubSeq(p \o q, Len(p) + 1, Len(p) + 1 + Len(q) - 1) = q
    OBVIOUS
  <1>3. SubSeq((p \o q) \o str, Len(p) + 1, Len(p) + 1 + Len(q) - 1) = q
    OBVIOUS
  <1> QED
    BY <1>1, <1>2, <1>3

(* The digits of a value stand somewhere in what is printed. *)
Shows(chars, value) ==
  \E n \in 1 .. Len(chars) :
    \E base \in {8, 10, 16}, upper \in BOOLEAN :
      LET digits == Format!outdigits(value, base, upper)
      IN n + Len(digits) - 1 <= Len(chars)
         /\ SubSeq(chars, n, n + Len(digits) - 1) = digits

(* Digits in a text are shown by it. *)
LEMMA ShowsDigits ==
  ASSUME NEW base \in Bases, NEW upper \in BOOLEAN, NEW value \in Nat, NEW C,
         NEW p \in Seq(C), NEW str \in Seq(C), AllDigits \subseteq C
  PROVE  /\ Shows(p \o Format!outdigits(value, base, upper), value)
         /\ Shows(p \o Format!outdigits(value, base, upper) \o str, value)
  <1> DEFINE q == Format!outdigits(value, base, upper)
             n == Len(p) + 1
  <1>1. q \in Seq(AllDigits) /\ Len(q) >= 1
    BY DigitsWritten
  <1>2. q \in Seq(C)
    BY <1>1, Wider
  <1>3. base \in {8, 10, 16}
    BY DEF Bases
  <1> HIDE DEF q
  <1>4. /\ SubSeq(p \o q, n, n + Len(q) - 1) = q
        /\ SubSeq((p \o q) \o str, n, n + Len(q) - 1) = q
        /\ n \in 1 .. Len(p \o q) /\ n + Len(q) - 1 <= Len(p \o q)
        /\ n \in 1 .. Len((p \o q) \o str) /\ n + Len(q) - 1 <= Len((p \o q) \o str)
    BY <1>1, <1>2, Middle
  <1> HIDE DEF n
  <1>5. Shows(p \o q, value)
    BY <1>3, <1>4, Zenon DEF Shows, q
  <1>6. Shows((p \o q) \o str, value)
    BY <1>3, <1>4, Zenon DEF Shows, q
  <1> QED
    BY <1>5, <1>6 DEF q

(* The parts of a number that outputNumber prints, and the padding. *)
SignOf(x, isSigned) ==
  IF ~isSigned THEN <<>> ELSE IF x < 0 THEN <<"-">>
  ELSE IF "+" \in formatFlags THEN <<"+">>
  ELSE IF " " \in formatFlags THEN <<" ">> ELSE <<>>
PrefixOf(x, upper, base) ==
  IF "#" \notin formatFlags THEN <<>>
  ELSE IF base = 8 /\ x = 0 THEN <<"0">>
  ELSE IF base = 16 THEN <<"0", IF upper THEN "X" ELSE "x">> ELSE <<>>
Magnitude(x) == IF x < 0 THEN -x ELSE x
DigitsOf(x, upper, base) == Format!outdigits(Magnitude(x), base, upper)
CountOf(x, isSigned, upper, base) ==
  Len(SignOf(x, isSigned)) + Len(PrefixOf(x, upper, base)) + Len(DigitsOf(x, upper, base))
FillOf(x, isSigned, upper, base) ==
  Format!Fill(IF CountOf(x, isSigned, upper, base) < formatWidth
       THEN formatWidth - CountOf(x, isSigned, upper, base) ELSE 0)

(* The order of the parts. *)
LEMMA NumberIs ==
  ASSUME NEW x, NEW isSigned, NEW upper, NEW base
  PROVE  Format!outputNumber(x, isSigned, upper, base)
         = IF "-" \in formatFlags
           THEN SignOf(x, isSigned) \o PrefixOf(x, upper, base) \o DigitsOf(x, upper, base)
                  \o FillOf(x, isSigned, upper, base)
           ELSE SignOf(x, isSigned) \o PrefixOf(x, upper, base)
                  \o FillOf(x, isSigned, upper, base) \o DigitsOf(x, upper, base)
  BY Zenon DEF Format!outputNumber, SignOf, PrefixOf, DigitsOf, CountOf, FillOf, Magnitude

(* The sign is a minus for negative numbers only. *)
LEMMA SignIs ==
  ASSUME NEW x \in Int, NEW isSigned \in BOOLEAN, isSigned \/ x >= 0
  PROVE  /\ x < 0 => SignOf(x, isSigned) = <<"-">>
         /\ x >= 0 => \/ SignOf(x, isSigned) = <<>> \/ SignOf(x, isSigned) = <<"+">>
                      \/ SignOf(x, isSigned) = <<" ">>
  <1>1. x >= 0 <=> ~(x < 0)
    OBVIOUS
  <1> QED
    BY <1>1, Zenon DEF SignOf

(* No character and one. *)
LEMMA Singles == ASSUME NEW N PROVE <<>> \in Seq(N) /\ \A y \in N : <<y>> \in Seq(N)
  OBVIOUS

(* The padding is zeros or blanks, as many as are missing. *)
LEMMA FillTyped ==
  ASSUME NEW n \in Nat PROVE Format!Fill(n) \in Seq({"0", " "}) /\ Len(Format!Fill(n)) = n
  BY DEF Format!Fill

(* A number fills its field, is signed as it is and shows its digits. *)
LEMMA OutputFits ==
  ASSUME NEW x \in Int, NEW isSigned \in BOOLEAN, NEW upper \in BOOLEAN, NEW base \in Bases,
         isSigned \/ x >= 0, formatWidth \in Int
  PROVE  LET r == Format!outputNumber(x, isSigned, upper, base)
         IN /\ Len(r) >= formatWidth /\ (x < 0 <=> r[1] = "-") /\ Shows(r, Magnitude(x))
  <1> DEFINE C == NumberChars
             N == C \ {"-"}
             str == SignOf(x, isSigned)
             p == PrefixOf(x, upper, base)
             d == DigitsOf(x, upper, base)
             f == FillOf(x, isSigned, upper, base)
             r == Format!outputNumber(x, isSigned, upper, base)
             w == formatWidth
  <1>1. {"0", " ", "+", "x", "X"} \subseteq N /\ AllDigits \subseteq N /\ "-" \in C
            /\ N \subseteq C
    BY DEF NumberChars, AllDigits
  <1>2. Magnitude(x) \in Nat
    BY DEF Magnitude
  <1>3. d \in Seq(AllDigits) /\ Len(d) >= 1
    BY <1>2, DigitsWritten DEF DigitsOf
  <1>4. d \in Seq(N) /\ d \in Seq(C)
    BY <1>1, <1>3, Wider
  <1>5. p \in Seq(N)
    <2>1. <<>> \in Seq(N) /\ <<"0">> \in Seq(N) /\ <<"0", "x">> \in Seq(N)
              /\ <<"0", "X">> \in Seq(N)
      <3>1. "0" \in N /\ "x" \in N /\ "X" \in N
        BY <1>1
      <3> HIDE DEF N
      <3> QED
        BY <3>1
    <2> QED
      BY <2>1 DEF PrefixOf
  <1>6. /\ x < 0 => str = <<"-">>
        /\ x >= 0 => str \in Seq(N)
    <2>1. "+" \in N /\ " " \in N
      BY <1>1
    <2>2. /\ x < 0 => str = <<"-">>
          /\ x >= 0 => str = <<>> \/ str = <<"+">> \/ str = <<" ">>
      BY SignIs
    <2> HIDE DEF N, str
    <2>3. <<>> \in Seq(N) /\ <<"+">> \in Seq(N) /\ <<" ">> \in Seq(N)
      BY <2>1, Singles
    <2> QED
      BY <2>2, <2>3, Zenon
  <1>7. str \in Seq(C) /\ p \in Seq(C)
    <2>1. <<"-">> \in Seq(C)
      BY <1>1, Singles
    <2>2. x >= 0 => str \in Seq(C)
      BY <1>1, <1>6, Wider
    <2>3. p \in Seq(C)
      BY <1>1, <1>5, Wider
    <2>4. x < 0 \/ x >= 0
      OBVIOUS
    <2> HIDE DEF str, C, N, p
    <2> QED
      BY <1>6, <2>1, <2>2, <2>3, <2>4
  <1> DEFINE n == CountOf(x, isSigned, upper, base)
             m == IF n < w THEN w - n ELSE 0
  <1>8. n = Len(str) + Len(p) + Len(d) /\ n \in Nat
    <2>1. n = Len(str) + Len(p) + Len(d)
      BY DEF CountOf
    <2> HIDE DEF n, str, p, d
    <2> QED
      BY <1>4, <1>7, <2>1
  <1>9. f = Format!Fill(m)
    BY DEF FillOf
  <1> HIDE DEF n
  <1>10. m \in Nat /\ n + m >= w
    <2>1. n \in Nat /\ w \in Int
      BY <1>8
    <2> HIDE DEF w
    <2> QED
      BY <2>1
  <1> HIDE DEF m
  <1>11. f \in Seq(N) /\ Len(f) = m /\ f \in Seq(C)
    <2>1. Format!Fill(m) \in Seq({"0", " "}) /\ Len(Format!Fill(m)) = m
      BY <1>10, FillTyped
    <2>2. {"0", " "} \subseteq N /\ {"0", " "} \subseteq C
      BY <1>1
    <2> HIDE DEF N, C, f
    <2> QED
      BY <1>9, <2>1, <2>2, Wider
  <1>12. r = IF "-" \in formatFlags THEN str \o p \o d \o f ELSE str \o p \o f \o d
    BY NumberIs
  <1>13. Shows(str \o p \o d \o f, Magnitude(x)) /\ Shows(str \o p \o f \o d, Magnitude(x))
    <2> DEFINE g == str \o p
               e == str \o p \o f
    <2>1. g \in Seq(C) /\ e \in Seq(C) /\ AllDigits \subseteq C
      <3>1. AllDigits \subseteq C
        BY <1>1
      <3> HIDE DEF str, p, f, C
      <3> QED
        BY <1>7, <1>11, <3>1
    <2> HIDE DEF g, e, C
    <2>2. Shows(g \o Format!outdigits(Magnitude(x), base, upper) \o f, Magnitude(x))
      BY <1>2, <1>11, <2>1, ShowsDigits
    <2>3. Shows(e \o Format!outdigits(Magnitude(x), base, upper), Magnitude(x))
      BY <1>2, <1>11, <2>1, ShowsDigits
    <2> QED
      BY <2>2, <2>3, Zenon DEF g, e, DigitsOf
  <1> HIDE DEF str, p, d, f, C, N
  <1>14. Len(str \o p \o d \o f) = n + m /\ Len(str \o p \o f \o d) = n + m
    <2>1. /\ Len(str \o p \o d \o f) = Len(str) + Len(p) + Len(d) + Len(f)
          /\ Len(str \o p \o f \o d) = Len(str) + Len(p) + Len(f) + Len(d)
          /\ Len(str) \in Nat /\ Len(p) \in Nat /\ Len(d) \in Nat /\ Len(f) \in Nat
      BY <1>4, <1>7, <1>11
    <2>2. n = Len(str) + Len(p) + Len(d) /\ Len(f) = m
      BY <1>8, <1>11
    <2> QED
      BY <2>1, <2>2
  <1>15. ASSUME x < 0 PROVE (str \o p \o d \o f)[1] = "-" /\ (str \o p \o f \o d)[1] = "-"
    <2>1. str = <<"-">>
      BY <1>6, <1>15
    <2>2. str # <<>> /\ str[1] = "-"
      BY <2>1
    <2> QED
      BY <1>4, <1>7, <1>11, <2>2
  <1>16. ASSUME x >= 0 PROVE (str \o p \o d \o f)[1] # "-" /\ (str \o p \o f \o d)[1] # "-"
    <2>1. /\ str \o p \o d \o f \in Seq(N) /\ str \o p \o f \o d \in Seq(N)
          /\ Len(str \o p \o d \o f) >= 1 /\ Len(str \o p \o f \o d) >= 1
      BY <1>3, <1>4, <1>5, <1>6, <1>11, <1>16
    <2>2. \A t \in Seq(N) : Len(t) >= 1 => t[1] \in N
      OBVIOUS
    <2>3. "-" \notin N
      BY DEF N
    <2> QED
      BY <2>1, <2>2, <2>3
  <1>17. \/ r = str \o p \o d \o f \/ r = str \o p \o f \o d
    BY <1>12, Zenon
  <1> HIDE DEF r
  <1>18. Len(r) >= w
    BY <1>8, <1>10, <1>14, <1>17
  <1>19. Shows(r, Magnitude(x))
    BY <1>13, <1>17, Zenon
  <1>20. x < 0 <=> r[1] = "-"
    <2>1. x < 0 => r[1] = "-"
      BY <1>15, <1>17, Zenon
    <2>2. x >= 0 => r[1] # "-"
      BY <1>16, <1>17, Zenon
    <2>3. x < 0 \/ x >= 0
      OBVIOUS
    <2> QED
      BY <2>1, <2>2, <2>3, Zenon
  <1> QED
    BY <1>18, <1>19, <1>20 DEF r

-----------------------------------------------------------------------------
(* Reading and printing a format. *)

(* The characters of a format. *)
Alphabet(ds) == SyntaxChars \cup {ds[i].conversion : i \in 1 .. Len(ds)}

(* The reader is in front of directive k + 1, in it or behind the last. *)
ReadingAt(ds, p, c, u, o, k) ==
  \/ p = "loop" /\ \/ AtDirective(ds, Alphabet(ds), c, u, o, k)
                   \/ AtUnknown(ds, Alphabet(ds), c, u, o, k)
  \/ p = "width" /\ AtWidth(ds, Alphabet(ds), c, u, o, k)
  \/ p = "precision" /\ AtPrecision(ds, Alphabet(ds), c, u, o, k)
  \/ p = "length" /\ AtLength(ds, Alphabet(ds), c, u, o, k)
  \/ p = "convert" /\ AtConversion(ds, Alphabet(ds), c, u, o, k)
  \/ p = "done" /\ AtEnd(ds, Alphabet(ds), u, o, k)
Progress(ds, p, c, u, o) == p = "silent" \/ \E k \in 0 .. Len(ds) : ReadingAt(ds, p, c, u, o, k)

(* The number printed last fills its field and shows its digits. *)
NumberRight(v) ==
  v.chars # <<>> =>
    /\ Len(v.chars) >= v.width
    /\ v.val < 0 <=> v.chars[1] = "-"
    /\ Shows(v.chars, Magnitude(v.val))

(* The invariant of vparsef. *)
FormatInv ==
  /\ directives \in Formats /\ Format!FormatTypeOK /\ NumberRight(number)
  /\ Progress(directives, pc, c_, used, out)

(* Every format is over its alphabet. *)
LEMMA FormatsGood ==
  ASSUME Format!FormatAssumption, NEW ds \in Formats PROVE GoodFormat(ds, Alphabet(ds))
  <1>1. ds \in Seq(Format!ToSet(ds)) /\ \A i \in 1 .. Len(ds) : Format!WellFormed(ds[i])
    BY DEF Format!FormatAssumption
  <1>2. Len(ds) \in Nat
    BY <1>1
  <1>3. ASSUME NEW i \in 1 .. Len(ds) PROVE DirectiveOf(ds[i], Alphabet(ds))
    BY <1>1 DEF DirectiveOf, Alphabet
  <1> QED
    BY <1>2, <1>3 DEF GoodFormat

(* The invariant holds first, and after every step. *)
LEMMA FormatBegins == ASSUME Format!FormatAssumption, Format!Init PROVE FormatInv
  <1> DEFINE ds == directives
             C == Alphabet(ds)
  <1>1. /\ ds \in Formats /\ c_ = Format!Format(ds) /\ formatWidth = 0 /\ formatSize = 0
               /\ used = 0
        /\ out = <<>> /\ number = Format!NoNumber /\ pc \in {"silent", "loop"}
    BY DEF Format!Init
  <1>2. GoodFormat(ds, C)
    BY <1>1, FormatsGood
  <1> HIDE DEF C
  <1>3. Format!Format(ds) = Behind(ds, 0) /\ TakenOf(ds)[0] = 0 /\ PrintedOf(ds)[0] = <<>>
    BY <1>2, BehindFacts, TakenFacts, PrintedFacts
  <1>4. AtDirective(ds, C, c_, used, out, 0)
    <2>1. <<>> \in Seq(C \cup Marks)
      OBVIOUS
    <2>2. PrintedRight(ds, C, out, 0)
      BY <1>1, <1>3, <2>1, Zenon DEF PrintedRight
    <2> QED
      BY <1>1, <1>3, <2>2, Zenon DEF AtDirective
  <1>5. 0 \in 0 .. Len(ds)
    BY <1>2 DEF GoodFormat
  <1>6. Progress(ds, pc, c_, used, out)
    BY <1>1, <1>4, <1>5, Zenon DEF Progress, ReadingAt, C
  <1>7. Format!FormatTypeOK
    BY <1>1 DEF Format!FormatTypeOK
  <1>8. NumberRight(number)
    BY <1>1 DEF NumberRight, Format!NoNumber
  <1> QED
    BY <1>1, <1>6, <1>7, <1>8 DEF FormatInv

(* Where the reader is when it is in a given function. *)
LEMMA Reads ==
  ASSUME Format!FormatAssumption, FormatInv, pc # "silent"
  PROVE  /\ GoodFormat(directives, Alphabet(directives))
         /\ \E k \in 0 .. Len(directives) : ReadingAt(directives, pc, c_, used, out, k)
  <1>1. GoodFormat(directives, Alphabet(directives))
    BY FormatsGood DEF FormatInv
  <1> QED
    BY <1>1, Zenon DEF FormatInv, Progress

(* What each function leaves to be read. *)
LEMMA CharPrinted ==
  ASSUME Format!FormatAssumption, FormatInv, Format!PrintChar
  PROVE  Progress(directives, pc', c_', used', out')
  <1> DEFINE ds == directives
             C == Alphabet(ds)
  <1>1. /\ pc = "loop" /\ c_ # <<>> /\ c_[1] # "%" /\ out' = Append(out, c_[1])
        /\ c_' = Tail(c_) /\ used' = used /\ pc' = "loop"
    BY DEF Format!PrintChar, Format!Here, Format!Rest
  <1>2. GoodFormat(ds, C)
    BY <1>1, Reads
  <1>3. PICK k \in 0 .. Len(ds) : ReadingAt(ds, pc, c_, used, out, k)
    BY <1>1, Reads
  <1> HIDE DEF C
  <1>4. CASE AtDirective(ds, C, c_, used, out, k)
    <2>1. k + 1 \in 0 .. Len(ds) /\ AtDirective(ds, C, Tail(c_), used, Append(out, c_[1]), k + 1)
      BY <1>1, <1>2, <1>4, PrintsLiteral
    <2> QED
      BY <1>1, <2>1, Zenon DEF Progress, ReadingAt, C
  <1>5. CASE AtUnknown(ds, C, c_, used, out, k)
    <2>1. AtDirective(ds, C, Tail(c_), used, Append(out, c_[1]), k)
      BY <1>2, <1>5, PrintsUnknown
    <2> QED
      BY <1>1, <2>1, Zenon DEF Progress, ReadingAt, C
  <1> QED
    BY <1>1, <1>3, <1>4, <1>5 DEF ReadingAt, C

LEMMA FlagsRead ==
  ASSUME Format!FormatAssumption, FormatInv, Format!parseFlags
  PROVE  Progress(directives, pc', c_', used', out')
  <1> DEFINE ds == directives
             C == Alphabet(ds)
             t == Tail(c_)
  <1>1. pc = "loop" /\ Format!Here = "%" /\ pc' = "width" /\ used' = used /\ out' = out
    BY DEF Format!parseFlags
  <1>2. c_ # <<>> /\ c_[1] = "%"
    BY <1>1 DEF Format!Here
  <1>3. c_' = SubSeq(t, Format!Run(t, Format!FlagChars) + 1, Len(t))
    BY <1>2 DEF Format!parseFlags, Format!Rest
  <1>4. GoodFormat(ds, C)
    BY <1>1, Reads
  <1>5. PICK k \in 0 .. Len(ds) : ReadingAt(ds, pc, c_, used, out, k)
    BY <1>1, Reads
  <1> HIDE DEF C
  <1>6. AtDirective(ds, C, c_, used, out, k)
    <2>1. AtUnknown(ds, C, c_, used, out, k) => c_[1] # "%"
      BY <1>4, PrintsUnknown
    <2> QED
      BY <1>1, <1>2, <1>5, <2>1 DEF ReadingAt, C
  <1>7. AtWidth(ds, C, SubSeq(t, Format!Run(t, Format!FlagChars) + 1, Len(t)), used, out, k)
    BY <1>2, <1>4, <1>6, ReadsFlags
  <1> QED
    BY <1>1, <1>3, <1>7, Zenon DEF Progress, ReadingAt, C

LEMMA WidthRead ==
  ASSUME Format!FormatAssumption, FormatInv, Format!parseWidth
  PROVE  Progress(directives, pc', c_', used', out') /\ formatWidth' \in Int /\ used' \in Nat
  <1> DEFINE ds == directives
             C == Alphabet(ds)
  <1>1. pc = "width" /\ pc' = "precision" /\ out' = out
    BY DEF Format!parseWidth
  <1>2. GoodFormat(ds, C)
    BY <1>1, Reads
  <1>3. PICK k \in 0 .. Len(ds) : ReadingAt(ds, pc, c_, used, out, k)
    BY <1>1, Reads
  <1> HIDE DEF C
  <1>4. AtWidth(ds, C, c_, used, out, k)
    BY <1>1, <1>3 DEF ReadingAt, C
  <1>5. used \in Nat /\ Arguments \subseteq Int
    BY DEF FormatInv, Format!FormatTypeOK, Format!FormatAssumption
  <1>6. c_ # <<>>
    BY <1>2, <1>4, ReadsStar
  <1>7. CASE c_[1] = "*"
    <2>1. AtPrecision(ds, C, Tail(c_), used + 1, out, k)
      BY <1>2, <1>4, <1>7, ReadsStar
    <2>2. used' = used + 1 /\ c_' = Tail(c_) /\ formatWidth' \in Arguments
      BY <1>6, <1>7 DEF Format!parseWidth, Format!Here, Format!Rest
    <2>3. Progress(ds, pc', c_', used', out')
      BY <1>1, <2>1, <2>2, Zenon DEF Progress, ReadingAt, C
    <2> QED
      BY <1>5, <2>2, <2>3
  <1>8. CASE c_[1] # "*"
    <2> DEFINE n == Format!Run(c_, Format!Decimals)
    <2>1. AtPrecision(ds, C, SubSeq(c_, n + 1, Len(c_)), used, out, k)
              /\ SubSeq(c_, 1, n) \in Seq(Format!Decimals)
      BY <1>2, <1>4, <1>8, ReadsStar
    <2>2. used' = used /\ c_' = SubSeq(c_, n + 1, Len(c_))
              /\ formatWidth' = Format!ParsedNumber(SubSeq(c_, 1, n))
      BY <1>6, <1>8 DEF Format!parseWidth, Format!Here
    <2> DEFINE str == SubSeq(c_, 1, n)
    <2>3. Format!ParsedNumber(str) \in Nat
      <3>1. str \in Seq(Format!Decimals)
        BY <2>1
      <3> HIDE DEF str
      <3>2. Format!ParsedNumber(str) = ParsedOf(str)[Len(str)] /\ \A i \in 0 .. Len(str) :
                ParsedOf(str)[i] \in Nat
        BY <3>1, ParsedExists
      <3>3. Len(str) \in 0 .. Len(str)
        BY <3>1
      <3> QED
        BY <3>2, <3>3
    <2> HIDE DEF n
    <2>4. Progress(ds, pc', c_', used', out')
      BY <1>1, <2>1, <2>2, Zenon DEF Progress, ReadingAt, C
    <2> QED
      BY <1>5, <2>2, <2>3, <2>4
  <1> QED
    BY <1>7, <1>8

LEMMA PrecisionRead ==
  ASSUME Format!FormatAssumption, FormatInv, Format!parsePrecision
  PROVE  Progress(directives, pc', c_', used', out')
  <1> DEFINE ds == directives
             C == Alphabet(ds)
             t == Tail(c_)
  <1>1. pc = "precision" /\ pc' = "length" /\ out' = out /\ used' = used
    BY DEF Format!parsePrecision
  <1>2. GoodFormat(ds, C)
    BY <1>1, Reads
  <1>3. PICK k \in 0 .. Len(ds) : ReadingAt(ds, pc, c_, used, out, k)
    BY <1>1, Reads
  <1> HIDE DEF C
  <1>4. AtPrecision(ds, C, c_, used, out, k)
    BY <1>1, <1>3 DEF ReadingAt, C
  <1>5. c_ # <<>>
    BY <1>2, <1>4, ReadsPrecision
  <1>6. AtLength(ds, C, c_', used, out, k)
    <2>1. CASE c_[1] = "."
      <3>1. AtLength(ds, C, SubSeq(t, Format!Run(t, Format!Decimals) + 1, Len(t)), used, out, k)
        BY <1>2, <1>4, <2>1, ReadsPrecision
      <3>2. c_' = SubSeq(t, Format!Run(t, Format!Decimals) + 1, Len(t))
        BY <1>5, <2>1 DEF Format!parsePrecision, Format!Here, Format!Rest
      <3> QED
        BY <3>1, <3>2, Zenon
    <2>2. CASE c_[1] # "."
      <3>1. AtLength(ds, C, c_, used, out, k)
        BY <1>2, <1>4, <2>2, ReadsPrecision
      <3>2. c_' = c_
        BY <1>5, <2>2 DEF Format!parsePrecision, Format!Here
      <3> QED
        BY <3>1, <3>2, Zenon
    <2> QED
      BY <2>1, <2>2
  <1> QED
    BY <1>1, <1>6, Zenon DEF Progress, ReadingAt, C

LEMMA LengthRead ==
  ASSUME Format!FormatAssumption, FormatInv, Format!parseLength
  PROVE  Progress(directives, pc', c_', used', out') /\ formatSize' \in {0, 1, 2, 8, 16}
  <1> DEFINE ds == directives
             C == Alphabet(ds)
             h == c_[1]
             twice == h \in {"h", "l"} /\ Len(c_) > 1 /\ c_[2] = h
  <1>1. pc = "length" /\ pc' = "convert" /\ out' = out /\ used' = used
    BY DEF Format!parseLength
  <1>2. GoodFormat(ds, C)
    BY <1>1, Reads
  <1>3. PICK k \in 0 .. Len(ds) : ReadingAt(ds, pc, c_, used, out, k)
    BY <1>1, Reads
  <1> HIDE DEF C
  <1>4. AtLength(ds, C, c_, used, out, k)
    BY <1>1, <1>3 DEF ReadingAt, C
  <1>5. c_ # <<>>
    BY <1>2, <1>4, ReadsLength
  <1>6. Format!Here = h /\ Format!Rest = Tail(c_)
    BY <1>5 DEF Format!Here, Format!Rest
  <1>7. /\ formatSize' = CASE h = "h" -> IF twice THEN 1 ELSE 2
                      [] h \in {"l", "j", "z", "t"} -> 8
                      [] h = "L" -> 16
                      [] OTHER -> 0
        /\ c_' = IF formatSize' = 0 THEN c_ ELSE IF twice THEN Tail(Tail(c_)) ELSE Tail(c_)
    BY <1>6, Zenon DEF Format!parseLength
  <1>8. twice <=> Twice(c_)
    BY DEF Twice
  <1> HIDE DEF twice, h
  <1>9. formatSize' \in {0, 1, 2, 8, 16} /\ (formatSize' = 0 <=> h \notin LengthChars)
    BY <1>7 DEF LengthChars
  <1>10. AtConversion(ds, C, c_', used, out, k)
    <2>1. CASE h \notin LengthChars
      <3>1. AtConversion(ds, C, c_, used, out, k)
        BY <1>2, <1>4, <2>1, ReadsLength DEF h
      <3>2. c_' = c_
        BY <1>7, <1>9, <2>1, Zenon
      <3> QED
        BY <3>1, <3>2, Zenon
    <2>2. CASE h \in LengthChars /\ twice
      <3>1. AtConversion(ds, C, Tail(Tail(c_)), used, out, k)
        BY <1>2, <1>4, <1>8, <2>2, ReadsLength DEF h
      <3>2. c_' = Tail(Tail(c_))
        BY <1>7, <1>9, <2>2, Zenon
      <3> QED
        BY <3>1, <3>2, Zenon
    <2>3. CASE h \in LengthChars /\ ~twice
      <3>1. AtConversion(ds, C, Tail(c_), used, out, k)
        BY <1>2, <1>4, <1>8, <2>3, ReadsLength DEF h
      <3>2. c_' = Tail(c_)
        BY <1>7, <1>9, <2>3, Zenon
      <3> QED
        BY <3>1, <3>2, Zenon
    <2> QED
      BY <2>1, <2>2, <2>3
  <1>11. Progress(ds, pc', c_', used', out')
    BY <1>1, <1>10, Zenon DEF Progress, ReadingAt, C
  <1> QED
    BY <1>9, <1>11

LEMMA Converted ==
  ASSUME Format!FormatAssumption, FormatInv, Format!Convert
  PROVE  Progress(directives, pc', c_', used', out') /\ used' \in Nat
  <1> DEFINE ds == directives
             C == Alphabet(ds)
             h == c_[1]
  <1>1. pc = "convert" /\ pc' = "loop"
    BY DEF Format!Convert
  <1>2. GoodFormat(ds, C)
    BY <1>1, Reads
  <1>3. PICK k \in 0 .. Len(ds) : ReadingAt(ds, pc, c_, used, out, k)
    BY <1>1, Reads
  <1> HIDE DEF C
  <1>4. AtConversion(ds, C, c_, used, out, k)
    BY <1>1, <1>3 DEF ReadingAt, C
  <1>5. /\ c_ # <<>> /\ k + 1 \in 0 .. Len(ds)
        /\ h \in Format!Integrals => AtDirective(ds, C, Tail(c_), used + 1, Append(out, "number"),
               k + 1)
        /\ h \in Format!Floats => AtDirective(ds, C, Tail(c_), used + 1, Append(out, "?"), k + 1)
        /\ h \in {"c", "s"} => AtDirective(ds, C, Tail(c_), used + 1, Append(out, "text"), k + 1)
        /\ h = "n" => AtDirective(ds, C, Tail(c_), used + 1, out, k + 1)
        /\ h = "%" => AtDirective(ds, C, Tail(c_), used, out \o c_, k + 1)
        /\ h \notin Format!Conversions => AtUnknown(ds, C, c_, used + 1, Append(out, "?"), k + 1)
    BY <1>2, <1>4, ReadsConversion
  <1>6. Format!Here = h /\ Format!Rest = Tail(c_)
    BY <1>5 DEF Format!Here, Format!Rest
  <1>7. used \in Nat /\ used + 1 \in Nat
    BY DEF FormatInv, Format!FormatTypeOK
  <1> HIDE DEF h
  <1>8. AtDirective(ds, C, c_', used', out', k + 1) \/ AtUnknown(ds, C, c_', used', out', k + 1)
    <2>1. CASE Format!Integer
      BY <1>5, <1>6, <2>1, Zenon DEF Format!Integer, Format!outputChars
    <2>2. CASE Format!Text
      BY <1>5, <1>6, <2>2, Zenon DEF Format!Text, Format!outputChars
    <2>3. CASE Format!Unsupported
      BY <1>5, <1>6, <2>3, Zenon DEF Format!Unsupported, Format!outputChars
    <2>4. CASE Format!CharsWritten
      BY <1>5, <1>6, <2>4, Zenon DEF Format!CharsWritten
    <2>5. CASE Format!Percent
      BY <1>5, <1>6, <2>5, Zenon DEF Format!Percent
    <2>6. CASE Format!Unknown
      BY <1>5, <1>6, <2>6, Zenon DEF Format!Unknown, Format!outputChars
    <2> QED
      BY <2>1, <2>2, <2>3, <2>4, <2>5, <2>6, Zenon DEF Format!Convert
  <1>9. used' \in {used, used + 1}
    BY Zenon DEF Format!Convert, Format!Integer, Format!Text, Format!Unsupported,
          Format!CharsWritten, Format!Percent, Format!Unknown
  <1>10. Progress(ds, pc', c_', used', out')
    BY <1>1, <1>5, <1>8, Zenon DEF Progress, ReadingAt, C
  <1> QED
    BY <1>7, <1>9, <1>10

LEMMA Finished ==
  ASSUME Format!FormatAssumption, FormatInv, Format!Finish
  PROVE  Progress(directives, pc', c_', used', out')
  <1> DEFINE ds == directives
             C == Alphabet(ds)
  <1>1. pc = "loop" /\ c_ = <<>> /\ pc' = "done" /\ out' = out /\ used' = used
    BY DEF Format!Finish
  <1>2. GoodFormat(ds, C)
    BY <1>1, Reads
  <1>3. PICK k \in 0 .. Len(ds) : ReadingAt(ds, pc, c_, used, out, k)
    BY <1>1, Reads
  <1> HIDE DEF C
  <1>4. AtDirective(ds, C, c_, used, out, k)
    <2>1. AtUnknown(ds, C, c_, used, out, k) => c_ # <<>>
      BY <1>2, PrintsUnknown
    <2> QED
      BY <1>1, <1>3, <2>1 DEF ReadingAt, C
  <1>5. AtDirective(ds, C, <<>>, used, out, k)
    BY <1>1, <1>4, Zenon
  <1>6. AtEnd(ds, C, used, out, k)
    BY <1>2, <1>5, Finishes
  <1> QED
    BY <1>1, <1>6, Zenon DEF Progress, ReadingAt, C

(* An argument cast to a width is a number. *)
LEMMA ArgumentValues ==
  ASSUME NEW bits \in Nat \ {0}, NEW x \in Int
  PROVE  Format!AsUnsigned(x, bits) \in Nat /\ Format!AsSigned(x, bits) \in Int
  <1> DEFINE p == Format!Power(2, bits)
             q == Format!Power(2, bits - 1)
  <1>1. p \in Nat \ {0} /\ q \in Nat
    <2> DEFINE e == bits - 1
    <2>1. e \in Nat /\ bits \in Nat /\ 2 \in Nat \ {0}
      OBVIOUS
    <2> HIDE DEF e
    <2>2. Format!Power(2, e) \in Nat \ {0} /\ Format!Power(2, bits) \in Nat \ {0}
      BY <2>1, FormatPowersGrow
    <2> QED
      BY <2>2 DEF e
  <1> HIDE DEF p, q
  <1>2. x % p \in Nat
    BY <1>1
  <1>3. Format!AsUnsigned(x, bits) = x % p
    BY DEF Format!AsUnsigned, p
  <1>4. Format!AsSigned(x, bits) = IF x % p >= q THEN (x % p) - p ELSE x % p
    BY Zenon DEF Format!AsSigned, Format!AsUnsigned, p, q
  <1> QED
    BY <1>1, <1>2, <1>3, <1>4

(* Printing a number. *)
LEMMA NumberPrinted ==
  ASSUME Format!FormatAssumption, formatWidth \in Int, Format!Integer PROVE NumberRight(number')
  <1>1. PICK x \in Arguments :
          LET isSigned == Format!Here \in {"d", "i"}
              val == IF isSigned THEN Format!AsSigned(x, Format!Width)
                  ELSE Format!AsUnsigned(x, Format!Width)
              base == CASE Format!Here \in {"d", "i", "u"} -> 10 [] Format!Here = "o" -> 8
                        [] Format!Here \in {"x", "X", "p"} -> 16
          IN number' = [chars |-> Format!outputNumber(val, isSigned, Format!Here = "X", base),
                        val |-> val, width |-> formatWidth]
    BY DEF Format!Integer
  <1> DEFINE isSigned == Format!Here \in {"d", "i"}
             upper == Format!Here = "X"
             bits == Format!Width
             val == IF isSigned THEN Format!AsSigned(x, bits) ELSE Format!AsUnsigned(x, bits)
             base == CASE Format!Here \in {"d", "i", "u"} -> 10 [] Format!Here = "o" -> 8
                       [] Format!Here \in {"x", "X", "p"} -> 16
             chars == Format!outputNumber(val, isSigned, upper, base)
  <1>2. number' = [chars |-> chars, val |-> val, width |-> formatWidth]
    BY <1>1
  <1>3. x \in Int /\ bits \in Nat \ {0}
    BY DEF Format!FormatAssumption, Format!Width
  <1>4. base \in Bases /\ isSigned \in BOOLEAN /\ upper \in BOOLEAN
    BY DEF Format!Integer, Format!Integrals, Bases
  <1> HIDE DEF isSigned, upper, bits, base
  <1>5. Format!AsUnsigned(x, bits) \in Nat /\ Format!AsSigned(x, bits) \in Int
    BY <1>3, ArgumentValues
  <1>6. val \in Int /\ (isSigned \/ val >= 0)
    BY <1>4, <1>5
  <1> HIDE DEF val
  <1>7. /\ Len(chars) >= formatWidth /\ (val < 0 <=> chars[1] = "-")
        /\ Shows(chars, Magnitude(val))
    BY <1>4, <1>6, OutputFits
  <1> HIDE DEF chars
  <1>8. number'.chars = chars /\ number'.val = val /\ number'.width = formatWidth
    BY <1>2
  <1> QED
    BY <1>7, <1>8, Zenon DEF NumberRight

LEMMA FormatStep == ASSUME Format!FormatAssumption, FormatInv, Format!Next PROVE FormatInv'
  <1>1. /\ directives \in Formats /\ NumberRight(number) /\ formatWidth \in Int
        /\ formatSize \in {0, 1, 2, 8, 16} /\ used \in Nat
    BY DEF FormatInv, Format!FormatTypeOK
  <1>2. NumberRight(Format!NoNumber)
    BY DEF NumberRight, Format!NoNumber
  <1>3. Format!PrintChar => FormatInv'
    <2>1. SUFFICES ASSUME Format!PrintChar PROVE FormatInv'
      OBVIOUS
    <2>2. /\ directives' = directives /\ formatWidth' = formatWidth /\ formatSize' = formatSize
                 /\ used' = used
          /\ pc' = "loop" /\ number' = Format!NoNumber
      BY <2>1 DEF Format!PrintChar, Format!spec
    <2>3. Progress(directives, pc', c_', used', out')
      BY <2>1, CharPrinted
    <2>4. NumberRight(number') /\ Progress(directives', pc', c_', used', out')
      BY <1>2, <2>2, <2>3, Zenon
    <2>5. Format!FormatTypeOK'
      BY <1>1, <2>2 DEF Format!FormatTypeOK
    <2> QED
      BY <1>1, <2>2, <2>4, <2>5, Zenon DEF FormatInv
  <1>4. Format!parseFlags => FormatInv'
    <2>1. SUFFICES ASSUME Format!parseFlags PROVE FormatInv'
      OBVIOUS
    <2>2. /\ directives' = directives /\ formatWidth' = formatWidth /\ formatSize' = formatSize
                 /\ used' = used
          /\ pc' = "width" /\ number' = Format!NoNumber
      BY <2>1 DEF Format!parseFlags
    <2>3. Progress(directives, pc', c_', used', out')
      BY <2>1, FlagsRead
    <2>4. NumberRight(number') /\ Progress(directives', pc', c_', used', out')
      BY <1>2, <2>2, <2>3, Zenon
    <2>5. Format!FormatTypeOK'
      BY <1>1, <2>2 DEF Format!FormatTypeOK
    <2> QED
      BY <1>1, <2>2, <2>4, <2>5, Zenon DEF FormatInv
  <1>5. Format!parseWidth => FormatInv'
    <2>1. SUFFICES ASSUME Format!parseWidth PROVE FormatInv'
      OBVIOUS
    <2>2. /\ directives' = directives /\ formatSize' = formatSize /\ pc' = "precision"
          /\ number' = number
      BY <2>1 DEF Format!parseWidth
    <2>3. Progress(directives, pc', c_', used', out') /\ formatWidth' \in Int /\ used' \in Nat
      BY <2>1, WidthRead
    <2>4. NumberRight(number') /\ Progress(directives', pc', c_', used', out')
      BY <1>1, <2>2, <2>3, Zenon
    <2>5. Format!FormatTypeOK'
      BY <1>1, <2>2, <2>3 DEF Format!FormatTypeOK
    <2> QED
      BY <1>1, <2>2, <2>4, <2>5, Zenon DEF FormatInv
  <1>6. Format!parsePrecision => FormatInv'
    <2>1. SUFFICES ASSUME Format!parsePrecision PROVE FormatInv'
      OBVIOUS
    <2>2. /\ directives' = directives /\ formatWidth' = formatWidth /\ formatSize' = formatSize
                 /\ used' = used
          /\ pc' = "length" /\ number' = number
      BY <2>1 DEF Format!parsePrecision, Format!spec
    <2>3. Progress(directives, pc', c_', used', out')
      BY <2>1, PrecisionRead
    <2>4. NumberRight(number') /\ Progress(directives', pc', c_', used', out')
      BY <1>1, <2>2, <2>3, Zenon
    <2>5. Format!FormatTypeOK'
      BY <1>1, <2>2 DEF Format!FormatTypeOK
    <2> QED
      BY <1>1, <2>2, <2>4, <2>5, Zenon DEF FormatInv
  <1>7. Format!parseLength => FormatInv'
    <2>1. SUFFICES ASSUME Format!parseLength PROVE FormatInv'
      OBVIOUS
    <2>2. /\ directives' = directives /\ formatWidth' = formatWidth /\ used' = used
          /\ pc' = "convert" /\ number' = number
      BY <2>1 DEF Format!parseLength
    <2>3. Progress(directives, pc', c_', used', out') /\ formatSize' \in {0, 1, 2, 8, 16}
      BY <2>1, LengthRead
    <2>4. NumberRight(number') /\ Progress(directives', pc', c_', used', out')
      BY <1>1, <2>2, <2>3, Zenon
    <2>5. Format!FormatTypeOK'
      BY <1>1, <2>2, <2>3 DEF Format!FormatTypeOK
    <2> QED
      BY <1>1, <2>2, <2>4, <2>5, Zenon DEF FormatInv
  <1>8. Format!Convert => FormatInv'
    <2>1. SUFFICES ASSUME Format!Convert PROVE FormatInv'
      OBVIOUS
    <2>2. /\ directives' = directives /\ formatWidth' = formatWidth /\ formatSize' = formatSize
          /\ pc' = "loop"
      BY <2>1 DEF Format!Convert, Format!spec
    <2>3. Progress(directives, pc', c_', used', out') /\ used' \in Nat
      BY <2>1, Converted
    <2>4. NumberRight(number')
      <3>1. CASE Format!Integer
        BY <1>1, <3>1, NumberPrinted
      <3>2. CASE number' = number
        BY <1>1, <3>2, Zenon
      <3> QED
        BY <2>1, <3>1, <3>2, Zenon
           DEF Format!Convert, Format!Text, Format!Unsupported, Format!CharsWritten,
               Format!Percent, Format!Unknown
    <2>5. Progress(directives', pc', c_', used', out')
      BY <2>2, <2>3, Zenon
    <2>6. Format!FormatTypeOK'
      BY <1>1, <2>2, <2>3 DEF Format!FormatTypeOK
    <2> QED
      BY <1>1, <2>2, <2>4, <2>5, <2>6, Zenon DEF FormatInv
  <1>9. Format!Finish => FormatInv'
    <2>1. SUFFICES ASSUME Format!Finish PROVE FormatInv'
      OBVIOUS
    <2>2. /\ directives' = directives /\ formatWidth' = formatWidth /\ formatSize' = formatSize
                 /\ used' = used
          /\ pc' = "done" /\ number' = number
      BY <2>1 DEF Format!Finish, Format!spec
    <2>3. Progress(directives, pc', c_', used', out')
      BY <2>1, Finished
    <2>4. NumberRight(number') /\ Progress(directives', pc', c_', used', out')
      BY <1>1, <2>2, <2>3, Zenon
    <2>5. Format!FormatTypeOK'
      BY <1>1, <2>2 DEF Format!FormatTypeOK
    <2> QED
      BY <1>1, <2>2, <2>4, <2>5, Zenon DEF FormatInv
  <1> QED
    BY <1>3, <1>4, <1>5, <1>6, <1>7, <1>8, <1>9, Zenon DEF Format!Next

LEMMA FormatKept ==
  ASSUME FormatInv, UNCHANGED formatVars PROVE FormatInv'
  <1>1. /\ directives' = directives /\ formatWidth' = formatWidth /\ formatSize' = formatSize
               /\ used' = used
        /\ pc' = pc /\ number' = number /\ c_' = c_ /\ out' = out
    BY DEF formatVars
  <1>2. Format!FormatTypeOK'
    BY <1>1 DEF Format!FormatTypeOK, FormatInv
  <1>3. /\ directives \in Formats /\ NumberRight(number)
        /\ Progress(directives, pc, c_, used, out)
    BY DEF FormatInv
  <1>4. /\ directives' \in Formats /\ NumberRight(number')
        /\ Progress(directives', pc', c_', used', out')
    BY <1>1, <1>3, Zenon
  <1> QED
    BY <1>2, <1>4, Zenon DEF FormatInv

(* At the end the directives were obeyed. *)
LEMMA FormatDone ==
  ASSUME Format!FormatAssumption, FormatInv
  PROVE  Format!FormatObeyed /\ Format!NumberInField /\ Format!FormatTypeOK
  <1>1. Format!FormatObeyed
    <2>1. SUFFICES ASSUME pc = "done", ~Format!Doubled
                   PROVE  used = Format!TakenBy(directives) /\ out = Format!PrintedBy(directives)
      BY DEF Format!FormatObeyed
    <2> DEFINE ds == directives
               C == Alphabet(ds)
    <2>2. GoodFormat(ds, C)
      BY <2>1, Reads
    <2>3. PICK k \in 0 .. Len(ds) : ReadingAt(ds, pc, c_, used, out, k)
      BY <2>1, Reads
    <2> HIDE DEF C
    <2>4. AtEnd(ds, C, used, out, k)
      BY <2>1, <2>3 DEF ReadingAt, C
    <2>5. ~DoubledIn(ds)
      BY <2>1 DEF Format!Doubled, DoubledIn
    <2>6. k = Len(ds) /\ used = TakenOf(ds)[k] /\ out = PrintedOf(ds)[k]
      BY <2>4, <2>5, Zenon DEF AtEnd, PrintedRight
    <2>7. Format!TakenBy(ds) = TakenOf(ds)[Len(ds)]
              /\ Format!PrintedBy(ds) = PrintedOf(ds)[Len(ds)]
      BY <2>2, TakenFacts, PrintedFacts
    <2> QED
      BY <2>6, <2>7, Zenon
  <1>2. Format!NumberInField
    BY Zenon DEF FormatInv, NumberRight, Format!NumberInField, Shows, Magnitude
  <1> QED
    BY <1>1, <1>2 DEF FormatInv

-----------------------------------------------------------------------------
(* Vectors. *)
Slots(n) == [0 .. n - 1 -> [alive : BOOLEAN, val : Values]]

VectorInv ==
  /\ Vector!VectorTypeOK /\ Vector!HoldsList /\ Vector!ElementsAlive
  /\ ~stretched => Len(list) = size_

LEMMA CapacityGrows ==
  ASSUME Vector!VectorTypeOK, Vector!VectorAssumption, NEW n \in Nat
  PROVE  /\ Vector!CapacityFor(n) \in Nat /\ n <= Vector!CapacityFor(n)
         /\ n <= capacity_ <=> Vector!CapacityFor(n) <= capacity_
  <1>1. capacity_ \in Nat /\ initial_capacity_ \in Nat
    BY DEF Vector!VectorTypeOK
  <1>2. (3 * capacity_) \div 2 \in Nat
    BY <1>1
  <1>3. Vector!computeGrowth \in Nat
    BY <1>1, <1>2 DEF Vector!computeGrowth, Vector!num_, Vector!denom_
  <1> QED
    BY <1>1, <1>3 DEF Vector!CapacityFor

LEMMA RelocatedSlots ==
  ASSUME Vector!VectorTypeOK, Vector!VectorAssumption, NEW n \in Nat, n > capacity_
  PROVE  /\ Vector!Relocated(n) \in Slots(n)
         /\ \A i \in 0 .. n - 1 : Vector!Relocated(n)[i].alive
         /\ \A i \in 0 .. size_ - 1 : Vector!Relocated(n)[i].val = elems_[i].val
  <1>1. size_ \in Nat /\ size_ <= capacity_ /\ capacity_ \in Nat
    BY DEF Vector!VectorTypeOK
  <1>2. \A i \in 0 .. size_ - 1 : i \in 0 .. capacity_ - 1 /\ i \in 0 .. n - 1 /\ elems_[i].val \in Values
    BY <1>1 DEF Vector!VectorTypeOK
  <1>3. Default \in Values
    BY DEF Vector!VectorAssumption
  <1>4. \A i \in 0 .. n - 1 : i < size_ => i \in 0 .. size_ - 1
    BY <1>1
  <1>5. \A i \in 0 .. size_ - 1 : i < size_
    BY <1>1
  <1> QED
    BY <1>2, <1>3, <1>4, <1>5 DEF Vector!Relocated, Vector!Element, Slots

(* What grow leaves, whether or not there was memory. *)
LEMMA GrowSlots ==
  ASSUME VectorInv, Vector!VectorAssumption, NEW n \in Nat, Vector!Grow(n)
  PROVE  /\ capacity_' \in Nat /\ size_' \in 0 .. capacity_' /\ elems_' \in Slots(capacity_')
         /\ size_' \in {n, size_}
         /\ \A i \in 0 .. size_ - 1 : elems_'[i].val = elems_[i].val
         /\ \A i \in 0 .. size_ - 1 : elems_[i].alive => elems_'[i].alive
  <1> DEFINE m == Vector!CapacityFor(n)
  <1>1. Vector!VectorTypeOK
    BY DEF VectorInv
  <1>2. m \in Nat /\ n <= m /\ (n <= capacity_ <=> m <= capacity_)
    BY <1>1, CapacityGrows
  <1>3. capacity_ \in Nat /\ size_ \in 0 .. capacity_ /\ elems_ \in Slots(capacity_)
    BY <1>1 DEF Vector!VectorTypeOK, Slots
  <1>4. CASE /\ m <= capacity_
             /\ size_' = n /\ UNCHANGED <<capacity_, elems_>>
    BY <1>2, <1>3, <1>4
  <1>5. CASE /\ m > capacity_
             /\ capacity_' = m /\ elems_' = Vector!Relocated(m) /\ size_' = n
    <2>1. /\ Vector!Relocated(m) \in Slots(m)
          /\ \A i \in 0 .. m - 1 : Vector!Relocated(m)[i].alive
          /\ \A i \in 0 .. size_ - 1 : Vector!Relocated(m)[i].val = elems_[i].val
      BY <1>1, <1>2, <1>5, RelocatedSlots
    <2>2. \A i \in 0 .. size_ - 1 : i \in 0 .. m - 1
      BY <1>2, <1>3, <1>5
    <2> HIDE DEF m
    <2> QED
      BY <1>2, <1>5, <2>1, <2>2
  <1>6. CASE UNCHANGED <<size_, capacity_, elems_>>
    BY <1>3, <1>6
  <1> QED
    BY <1>4, <1>5, <1>6 DEF Vector!Grow

LEMMA BelowOrPast ==
  ASSUME NEW a \in Nat, NEW b \in Nat, NEW i \in 0 .. b - 1
  PROVE  i \in a .. b - 1 \/ (i \in 0 .. a - 1 /\ i < b)
  OBVIOUS

LEMMA SeqAsFunction ==
  ASSUME NEW S, NEW q \in Seq(S)
  PROVE  q = [i \in 1 .. Len(q) |-> q[i]]
  OBVIOUS

(* What the operations that move the end of the vector leave. *)
LEMMA VectorLeaves ==
  ASSUME NEW cap \in Nat, NEW sz \in 0 .. cap, NEW slots \in Slots(cap), NEW l,
         capacity_' = cap, size_' = sz, elems_' = slots, list' = l,
         initial_capacity_' \in Nat, stretched' \in BOOLEAN, reentered' \in BOOLEAN,
         l \in Seq(Values),
         ~stretched' => l = [i \in 1 .. sz |-> slots[i - 1].val],
         ~stretched' /\ ~reentered' => \A i \in 0 .. sz - 1 : slots[i].alive
  PROVE  VectorInv'
  <1>1. ~stretched' => Len(l) = sz
    OBVIOUS
  <1> QED
    BY <1>1 DEF VectorInv, Vector!VectorTypeOK, Vector!HoldsList, Vector!ElementsAlive, Slots

LEMMA ListOfSlots ==
  ASSUME NEW cap \in Nat, NEW sz \in 0 .. cap, NEW slots \in Slots(cap)
  PROVE  /\ [i \in 1 .. sz |-> slots[i - 1].val] \in Seq(Values)
         /\ \A i \in 1 .. sz : slots[i - 1].val \in Values
         /\ \A i \in 0 .. sz - 1 : i \in 0 .. cap - 1
  <1>1. \A i \in 1 .. sz : slots[i - 1].val \in Values
    <2> TAKE i \in 1 .. sz
    <2>1. i - 1 \in 0 .. cap - 1
      OBVIOUS
    <2> QED
      BY <2>1 DEF Slots
  <1> QED
    BY <1>1

LEMMA VectorFacts ==
  VectorInv => /\ capacity_ \in Nat /\ initial_capacity_ \in Nat
               /\ size_ \in Nat /\ size_ <= capacity_ /\ elems_ \in Slots(capacity_)
               /\ list \in Seq(Values) /\ stretched \in BOOLEAN /\ reentered \in BOOLEAN
               /\ ~stretched => /\ Len(list) = size_
                                /\ list = [i \in 1 .. size_ |-> elems_[i - 1].val]
               /\ ~stretched /\ ~reentered => \A i \in 0 .. size_ - 1 : elems_[i].alive
  BY DEF VectorInv, Vector!VectorTypeOK, Vector!HoldsList, Vector!ElementsAlive, Slots

(* A vector that was cut short: the rest keeps its values and its life. *)
LEMMA ShrinkSlots ==
  ASSUME VectorInv, NEW n \in Nat, n <= size_
  PROVE  /\ Vector!Retired(n) \in Slots(capacity_)
         /\ \A i \in 0 .. n - 1 : Vector!Retired(n)[i] = elems_[i]
         /\ \A i \in 0 .. capacity_ - 1 : Vector!Retired(n)[i].val = elems_[i].val
  <1>1. capacity_ \in Nat /\ size_ \in Nat /\ size_ <= capacity_ /\ elems_ \in Slots(capacity_)
    BY VectorFacts
  <1>2. DOMAIN elems_ = 0 .. capacity_ - 1
    BY <1>1 DEF Slots
  <1>3. \A i \in 0 .. capacity_ - 1 : elems_[i] \in [alive : BOOLEAN, val : Values]
    BY <1>1 DEF Slots
  <1>4. \A i \in 0 .. n - 1 : i \in 0 .. capacity_ - 1 /\ i \notin n .. size_ - 1
    BY <1>1
  <1> QED
    BY <1>2, <1>3, <1>4 DEF Vector!Retired, Slots

LEMMA ResizeVector ==
  ASSUME VectorInv, Vector!VectorAssumption, NEW n \in 0 .. MaxSize, Vector!Resize(n)
  PROVE  VectorInv'
  <1> DEFINE kept == [i \in 1 .. size_' |-> IF i <= Len(list) THEN list[i] ELSE elems_'[i - 1].val]
  <1>1. /\ capacity_ \in Nat /\ initial_capacity_ \in Nat /\ n \in Nat
        /\ size_ \in Nat /\ size_ <= capacity_ /\ elems_ \in Slots(capacity_)
        /\ list \in Seq(Values) /\ stretched \in BOOLEAN /\ reentered \in BOOLEAN
    BY VectorFacts DEF Vector!VectorAssumption
  <1>2. /\ stretched' = stretched /\ initial_capacity_' = initial_capacity_
        /\ list' = IF stretched THEN <<>> ELSE kept
        /\ reentered' = (reentered \/ \E i \in size_ .. size_' - 1 : ~elems_'[i].alive)
    BY DEF Vector!Resize, Vector!Described
  <1>3. /\ capacity_' \in Nat /\ size_' \in 0 .. capacity_' /\ elems_' \in Slots(capacity_')
        /\ \A i \in 0 .. size_ - 1 : i < size_' => elems_'[i].val = elems_[i].val
        /\ \A i \in 0 .. size_ - 1 : i < size_' /\ elems_[i].alive => elems_'[i].alive
    <2>1. CASE n > size_
      BY <1>1, <2>1, GrowSlots DEF Vector!Resize
    <2>2. CASE n < size_
      <3>1. size_' = n /\ elems_' = Vector!Retired(n) /\ capacity_' = capacity_
        BY <1>1, <2>2 DEF Vector!Resize, Vector!Shrink
      <3>2. /\ Vector!Retired(n) \in Slots(capacity_)
            /\ \A i \in 0 .. n - 1 : Vector!Retired(n)[i] = elems_[i]
        BY <1>1, <2>2, ShrinkSlots
      <3>3. \A i \in 0 .. size_ - 1 : i < n => i \in 0 .. n - 1
        BY <1>1
      <3> QED
        BY <1>1, <2>2, <3>1, <3>2, <3>3
    <2> QED
      BY <1>1, <2>1, <2>2 DEF Vector!Resize
  <1> DEFINE sz == size_' slots == elems_' cap == capacity_'
  <1>4. ASSUME ~stretched PROVE kept = [i \in 1 .. sz |-> slots[i - 1].val]
    <2>1. list = [i \in 1 .. size_ |-> elems_[i - 1].val] /\ Len(list) = size_
      BY <1>4, VectorFacts
    <2>2. ASSUME NEW i \in 1 .. sz, i <= size_ PROVE list[i] = slots[i - 1].val
      <3>1. i \in 1 .. size_ /\ i - 1 \in 0 .. size_ - 1 /\ i - 1 < size_'
        BY <1>1, <1>3, <2>2
      <3> QED
        BY <1>3, <2>1, <3>1
    <2> QED
      BY <1>1, <2>1, <2>2
  <1>5. [i \in 1 .. sz |-> slots[i - 1].val] \in Seq(Values)
    BY <1>3, ListOfSlots
  <1>6. ASSUME ~stretched, ~reentered' PROVE \A i \in 0 .. sz - 1 : slots[i].alive
    <2>1. ~reentered /\ \A i \in size_ .. size_' - 1 : elems_'[i].alive
      BY <1>2, <1>6
    <2>2. \A i \in 0 .. size_ - 1 : elems_[i].alive
      BY <1>6, <2>1, VectorFacts
    <2>3. size_' \in Nat
      BY <1>3
    <2>4. ASSUME NEW i \in 0 .. size_' - 1
          PROVE  i \in size_ .. size_' - 1 \/ (i \in 0 .. size_ - 1 /\ i < size_')
      BY <1>1, <2>3, BelowOrPast
    <2> QED
      BY <1>3, <2>1, <2>2, <2>4
  <1>7. reentered' \in BOOLEAN
    BY <1>1, <1>2
  <1> HIDE DEF kept
  <1>8. list' \in Seq(Values) /\ (~stretched => list' = [i \in 1 .. sz |-> slots[i - 1].val])
    <2>1. CASE stretched
      BY <1>2, <2>1
    <2>2. CASE ~stretched
      BY <1>2, <1>4, <1>5, <2>2
    <2> QED
      BY <2>1, <2>2
  <1> QED
    BY <1>1, <1>2, <1>3, <1>6, <1>7, <1>8, VectorLeaves

LEMMA PushVector ==
  ASSUME VectorInv, Vector!VectorAssumption, NEW x \in Values, NEW constructed \in BOOLEAN,
         Vector!BackSlot(x, constructed)
  PROVE  VectorInv'
  <1>1. /\ capacity_ \in Nat /\ initial_capacity_ \in Nat
        /\ size_ \in Nat /\ size_ <= capacity_ /\ elems_ \in Slots(capacity_)
        /\ list \in Seq(Values) /\ stretched \in BOOLEAN /\ reentered \in BOOLEAN
    BY VectorFacts
  <1>2. CASE UNCHANGED <<size_, capacity_, elems_, list, reentered>>
    BY <1>1, <1>2, VectorFacts, VectorLeaves, ListOfSlots DEF Vector!BackSlot
  <1>3. CASE ~UNCHANGED <<size_, capacity_, elems_, list, reentered>>
    <2> DEFINE n == Vector!CapacityFor(size_ + 1)
               buffer == IF n > capacity_ THEN Vector!Relocated(n) ELSE elems_
               alive_ == constructed \/ buffer[size_].alive
               slots == [buffer EXCEPT ![size_] = [alive |-> alive_, val |-> x]]
    <2>1. /\ capacity_' = n /\ size_' = size_ + 1 /\ elems_' = slots
          /\ list' = IF stretched THEN <<>> ELSE Append(list, x)
          /\ reentered' = (reentered \/ ~alive_)
          /\ stretched' = stretched /\ initial_capacity_' = initial_capacity_
      BY <1>3 DEF Vector!BackSlot, Vector!Described
    <2>2. Vector!VectorTypeOK
      BY DEF VectorInv
    <2>3. n \in Nat /\ size_ + 1 <= n /\ (n <= capacity_ <=> size_ + 1 <= capacity_)
      BY <1>1, <2>2, CapacityGrows
    <2>4. /\ buffer \in Slots(n)
          /\ \A i \in 0 .. size_ - 1 : buffer[i].val = elems_[i].val
          /\ \A i \in 0 .. size_ - 1 : elems_[i].alive => buffer[i].alive
      <3>1. CASE n > capacity_
        <4>1. /\ buffer \in Slots(n)
              /\ \A i \in 0 .. n - 1 : buffer[i].alive
              /\ \A i \in 0 .. size_ - 1 : buffer[i].val = elems_[i].val
          BY <1>1, <2>2, <2>3, <3>1, RelocatedSlots
        <4>2. \A i \in 0 .. size_ - 1 : i \in 0 .. n - 1
          BY <1>1, <2>3
        <4> HIDE DEF buffer, n
        <4> QED
          BY <4>1, <4>2
      <3>2. CASE n <= capacity_
        <4>1. n = capacity_
          BY <1>1, <2>3, <3>2 DEF Vector!CapacityFor
        <4> QED
          BY <1>1, <3>2, <4>1
      <3> QED
        BY <1>1, <2>3, <3>1, <3>2
    <2> HIDE DEF buffer, n
    <2>5. size_ \in 0 .. n - 1 /\ size_ + 1 \in 0 .. n
      BY <1>1, <2>3
    <2>6. alive_ \in BOOLEAN
      BY <2>4, <2>5 DEF Slots
    <2>7. /\ slots \in Slots(n)
          /\ slots[size_] = [alive |-> alive_, val |-> x]
          /\ \A i \in 0 .. size_ - 1 : slots[i] = buffer[i]
      <3>1. \A i \in 0 .. size_ - 1 : i # size_ /\ i \in 0 .. n - 1
        BY <1>1, <2>3
      <3> QED
        BY <2>4, <2>5, <2>6, <3>1 DEF Slots
    <2> HIDE DEF slots, alive_
    <2>8. ASSUME ~stretched
          PROVE  Append(list, x) = [i \in 1 .. size_ + 1 |-> slots[i - 1].val]
      <3>1. list = [i \in 1 .. size_ |-> elems_[i - 1].val] /\ Len(list) = size_
        BY <2>8, VectorFacts
      <3>2. ASSUME NEW i \in 1 .. size_ + 1 PROVE Append(list, x)[i] = slots[i - 1].val
        <4>1. CASE i = size_ + 1
          <5>1. i - 1 = size_
            BY <1>1, <4>1
          <5> QED
            BY <1>1, <2>7, <3>1, <4>1, <5>1
        <4>2. CASE i # size_ + 1
          <5>1. i \in 1 .. size_ /\ i - 1 \in 0 .. size_ - 1
            BY <1>1, <4>2
          <5>2. list[i] = slots[i - 1].val
            BY <2>4, <2>7, <3>1, <5>1
          <5> QED
            BY <1>1, <3>1, <5>1, <5>2
        <4> QED
          BY <4>1, <4>2
      <3>4. Append(list, x) \in Seq(Values)
        BY <1>1
      <3>5. Append(list, x) = [i \in 1 .. Len(Append(list, x)) |-> Append(list, x)[i]]
        BY <3>4, SeqAsFunction
      <3>6. Len(Append(list, x)) = size_ + 1
        BY <1>1, <3>1
      <3> QED
        BY <3>2, <3>5, <3>6
    <2>9. list' \in Seq(Values)
          /\ (~stretched => list' = [i \in 1 .. size_ + 1 |-> slots[i - 1].val])
      <3>1. CASE stretched
        BY <2>1, <3>1
      <3>2. CASE ~stretched
        BY <1>1, <2>1, <2>8, <3>2
      <3> QED
        BY <3>1, <3>2
    <2>10. ASSUME ~stretched, ~reentered' PROVE \A i \in 0 .. size_ : slots[i].alive
      <3>1. ~reentered /\ alive_
        BY <2>1, <2>10
      <3>2. \A i \in 0 .. size_ - 1 : elems_[i].alive
        BY <2>10, <3>1, VectorFacts
      <3>3. \A i \in 0 .. size_ : i = size_ \/ i \in 0 .. size_ - 1
        BY <1>1
      <3> QED
        BY <2>4, <2>7, <3>1, <3>2, <3>3
    <2>11. reentered' \in BOOLEAN
      BY <1>1, <2>1, <2>6
    <2>12. (size_ + 1) - 1 = size_
      BY <1>1
    <2> QED
      BY <1>1, <2>1, <2>3, <2>5, <2>7, <2>9, <2>10, <2>11, <2>12, VectorLeaves
  <1> QED
    BY <1>2, <1>3

LEMMA PopVector ==
  ASSUME VectorInv, Vector!PopBack
  PROVE  VectorInv'
  <1> DEFINE n == size_ - 1 slots == Vector!Retired(n)
  <1>1. /\ capacity_ \in Nat /\ initial_capacity_ \in Nat
        /\ size_ \in Nat /\ size_ <= capacity_ /\ elems_ \in Slots(capacity_)
        /\ list \in Seq(Values) /\ stretched \in BOOLEAN /\ reentered \in BOOLEAN
    BY VectorFacts
  <1>2. /\ size_ > 0 /\ size_' = n /\ elems_' = slots /\ capacity_' = capacity_
        /\ list' = IF stretched THEN <<>> ELSE SubSeq(list, 1, n)
        /\ stretched' = stretched /\ reentered' = reentered
        /\ initial_capacity_' = initial_capacity_
    BY DEF Vector!PopBack, Vector!Shrink, Vector!Described
  <1>3. n \in Nat /\ n <= size_ /\ n \in 0 .. capacity_
    BY <1>1, <1>2
  <1>4. /\ slots \in Slots(capacity_)
        /\ \A i \in 0 .. n - 1 : slots[i] = elems_[i]
    BY <1>3, ShrinkSlots
  <1>5. \A i \in 0 .. n - 1 : i \in 0 .. size_ - 1
    BY <1>1, <1>3
  <1>6. \A i \in 1 .. n : i \in 1 .. size_ /\ i - 1 \in 0 .. n - 1
    BY <1>1, <1>3
  <1> HIDE DEF n, slots
  <1>7. ASSUME ~stretched
        PROVE  /\ SubSeq(list, 1, n) = [i \in 1 .. n |-> slots[i - 1].val]
               /\ SubSeq(list, 1, n) \in Seq(Values)
    <2>1. list = [i \in 1 .. size_ |-> elems_[i - 1].val] /\ Len(list) = size_
      BY <1>7, VectorFacts
    <2>2. SubSeq(list, 1, n) = [i \in 1 .. n |-> list[i]]
      BY <1>1, <1>3
    <2>3. \A i \in 1 .. n : list[i] = slots[i - 1].val
      BY <1>4, <1>6, <2>1
    <2> QED
      BY <1>1, <1>3, <2>1, <2>2, <2>3
  <1>8. list' \in Seq(Values) /\ (~stretched => list' = [i \in 1 .. n |-> slots[i - 1].val])
    <2>1. CASE stretched
      BY <1>2, <2>1
    <2>2. CASE ~stretched
      BY <1>2, <1>7, <2>2
    <2> QED
      BY <2>1, <2>2
  <1>9. ASSUME ~stretched, ~reentered PROVE \A i \in 0 .. n - 1 : slots[i].alive
    BY <1>4, <1>5, <1>9, VectorFacts
  <1> QED
    BY <1>1, <1>2, <1>3, <1>4, <1>8, <1>9, VectorLeaves

LEMMA ReserveVector ==
  ASSUME VectorInv, Vector!VectorAssumption, NEW n \in Reserves, Vector!Reserve(n)
  PROVE  VectorInv'
  <1>1. /\ capacity_ \in Nat /\ initial_capacity_ \in Nat /\ n \in Nat
        /\ size_ \in Nat /\ size_ <= capacity_ /\ elems_ \in Slots(capacity_)
        /\ list \in Seq(Values) /\ stretched \in BOOLEAN /\ reentered \in BOOLEAN
    BY VectorFacts DEF Vector!VectorAssumption
  <1>2. CASE capacity_ = 0
    <2>1. /\ initial_capacity_' = n /\ UNCHANGED <<size_, capacity_, elems_, stretched, reentered>>
          /\ list' = IF stretched THEN <<>> ELSE list
      BY <1>2 DEF Vector!Reserve
    <2>2. list' \in Seq(Values) /\ (~stretched => list' = list)
      BY <1>1, <2>1
    <2> QED
      BY <1>1, <2>1, <2>2, VectorFacts DEF VectorInv, Vector!VectorTypeOK, Vector!HoldsList,
         Vector!ElementsAlive
  <1>3. CASE capacity_ # 0
    <2>1. /\ Vector!Grow(n) /\ stretched' = TRUE /\ UNCHANGED <<initial_capacity_, reentered>>
          /\ list' = <<>>
      BY <1>3 DEF Vector!Reserve
    <2>2. /\ capacity_' \in Nat /\ size_' \in 0 .. capacity_' /\ elems_' \in Slots(capacity_')
      BY <1>1, <2>1, GrowSlots
    <2>3. Vector!VectorTypeOK'
      <3>1. list' \in Seq(Values) /\ stretched' \in BOOLEAN
        BY <2>1
      <3> QED
        BY <1>1, <2>1, <2>2, <3>1 DEF Vector!VectorTypeOK, Slots
    <2> QED
      BY <2>1, <2>3 DEF VectorInv, Vector!HoldsList, Vector!ElementsAlive
  <1> QED
    BY <1>2, <1>3

LEMMA VectorInit == Vector!Init /\ Vector!VectorAssumption => VectorInv
  <1> SUFFICES ASSUME Vector!Init, Vector!VectorAssumption PROVE VectorInv
    OBVIOUS
  <1>1. /\ size_ = 0 /\ capacity_ = 0 /\ elems_ = <<>> /\ list = <<>>
        /\ initial_capacity_ \in Nat /\ stretched = FALSE /\ reentered = FALSE
    BY DEF Vector!Init, Vector!VectorAssumption
  <1>2. <<>> \in Slots(0) /\ <<>> \in Seq(Values) /\ Len(<<>>) = 0
    BY DEF Slots
  <1>3. Vector!VectorTypeOK
    <2>1. capacity_ \in Nat /\ elems_ \in Slots(capacity_)
      BY <1>1, <1>2
    <2>2. size_ \in 0 .. capacity_
      BY <1>1
    <2>3. list \in Seq(Values) /\ stretched \in BOOLEAN /\ reentered \in BOOLEAN
      BY <1>1, <1>2
    <2> QED
      BY <1>1, <2>1, <2>2, <2>3 DEF Vector!VectorTypeOK, Slots
  <1>4. 1 .. size_ = {} /\ 0 .. size_ - 1 = {}
    BY <1>1
  <1>5. <<>> = [i \in {} |-> elems_[i - 1].val]
    OBVIOUS
  <1> QED
    BY <1>1, <1>2, <1>3, <1>4, <1>5 DEF VectorInv, Vector!HoldsList, Vector!ElementsAlive

LEMMA VectorStep ==
  VectorInv /\ Vector!VectorAssumption /\ [Vector!Next]_vectorVars => VectorInv'
  <1> SUFFICES ASSUME VectorInv, Vector!VectorAssumption, [Vector!Next]_vectorVars
               PROVE  VectorInv'
    OBVIOUS
  <1>1. ASSUME NEW n \in 0 .. MaxSize, Vector!Resize(n) PROVE VectorInv'
    BY <1>1, ResizeVector
  <1>2. ASSUME NEW x \in Values, Vector!PushBack(x) PROVE VectorInv'
    BY <1>2, PushVector DEF Vector!PushBack
  <1>3. ASSUME NEW x \in Values, Vector!EmplaceBack(x) PROVE VectorInv'
    BY <1>3, PushVector DEF Vector!EmplaceBack
  <1>4. CASE Vector!PopBack
    BY <1>4, PopVector
  <1>5. ASSUME NEW n \in Reserves, Vector!Reserve(n) PROVE VectorInv'
    BY <1>5, ReserveVector
  <1>6. CASE UNCHANGED vectorVars
    BY <1>6 DEF vectorVars, VectorInv, Vector!VectorTypeOK, Vector!HoldsList, Vector!ElementsAlive
  <1> QED
    BY <1>1, <1>2, <1>3, <1>4, <1>5, <1>6 DEF Vector!Next

-----------------------------------------------------------------------------
(* StatusOr: what one representation has to be to stand for a status or an item. *)
Stands(rep, d) ==
  /\ rep.hasT \in BOOLEAN /\ rep.status \in Failures /\ rep.item \in Items \cup {Moved}
  /\ rep.alive \in BOOLEAN /\ rep.assigned \in BOOLEAN
  /\ rep.hasT = d.ok
  /\ rep.hasT => rep.item = d.item /\ (rep.alive \/ rep.assigned)
  /\ ~rep.hasT => rep.status = d.code /\ ~rep.alive

ResultInv ==
  /\ Result!ResultTypeOK /\ Result!ResultDescribed
  /\ DOMAIN described = Results

LEMMA InvStands ==
  ASSUME ResultInv, NEW r \in Results
  PROVE  Stands(Result!Rep(r), described[r])
  BY DEF ResultInv, Result!ResultTypeOK, Result!ResultDescribed, Result!Rep, Stands

LEMMA StandsInv ==
  ASSUME NEW f, Result!Become(f), NEW d, described' = d, DOMAIN d = Results,
         Result!StatusAssumption, trapped' \in BOOLEAN,
         \A r \in Results : Stands(f[r], d[r])
  PROVE  ResultInv'
  <1>1. ASSUME NEW r \in Results
        PROVE  /\ hasT_'[r] = f[r].hasT /\ status_'[r] = f[r].status /\ item_'[r] = f[r].item
               /\ alive'[r] = f[r].alive /\ assigned'[r] = f[r].assigned
    BY DEF Result!Become
  <1>2. Result!ResultTypeOK'
    BY DEF Result!ResultTypeOK, Result!Become, Stands
  <1>3. "Ok" \notin Failures
    BY DEF Result!StatusAssumption
  <1>4. Result!ResultDescribed'
    BY <1>1, <1>3 DEF Result!ResultDescribed, Result!status, Stands
  <1> QED
    BY <1>2, <1>4 DEF ResultInv

(* What operations on one variable and on two leave. *)
LEMMA SetInv ==
  ASSUME ResultInv, Result!StatusAssumption, NEW r \in Results, NEW rep, NEW d,
         Result!Set(r, rep), described' = [described EXCEPT ![r] = d],
         Stands(rep, d), trapped' = trapped
  PROVE  ResultInv'
  <1> DEFINE f == [x \in Results |-> IF x = r THEN rep ELSE Result!Rep(x)]
             e == [described EXCEPT ![r] = d]
  <1>1. Result!Become(f) /\ described' = e
    BY DEF Result!Set
  <1>2. DOMAIN e = Results /\ \A x \in Results : e[x] = IF x = r THEN d ELSE described[x]
    BY DEF ResultInv
  <1>3. \A x \in Results : f[x] = IF x = r THEN rep ELSE Result!Rep(x)
    OBVIOUS
  <1>4. trapped' \in BOOLEAN
    BY DEF ResultInv, Result!ResultTypeOK
  <1> HIDE DEF f, e
  <1>5. \A x \in Results : Stands(f[x], e[x])
    BY <1>2, <1>3, InvStands
  <1> QED
    BY <1>1, <1>2, <1>4, <1>5, StandsInv

LEMMA AfterReset ==
  ASSUME NEW rep, NEW d, Stands(rep, d), Result!StatusAssumption,
         rep = [hasT |-> rep.hasT, status |-> rep.status, item |-> rep.item,
                alive |-> rep.alive, assigned |-> rep.assigned]
  PROVE  /\ Stands(Result!Reset(rep), Result!Failed("Unknown"))
         /\ \A x \in Items \cup {Moved} :
              Stands(Result!WithItem(Result!Reset(rep), x), Result!Holding(x))
         /\ \A c \in Failures :
              Stands(Result!WithStatus(Result!Reset(rep), c), Result!Failed(c))
  BY DEF Stands, Result!Reset, Result!WithItem, Result!WithStatus, Result!Failed,
         Result!Holding, Result!StatusAssumption

LEMMA StandsSame ==
  ASSUME NEW rep, NEW d, NEW e, Stands(rep, e), e.ok = d.ok,
         e.ok => e.item = d.item, ~e.ok => e.code = d.code
  PROVE  Stands(rep, d)
  BY DEF Stands

LEMMA TakenStands ==
  ASSUME ResultInv, Result!StatusAssumption, NEW r \in Results, NEW o \in Results
  PROVE  Stands(Result!Taken(r, o), described[o])
  <1>1. Stands(Result!Rep(r), described[r]) /\ Stands(Result!Rep(o), described[o])
    BY InvStands
  <1> DEFINE x == item_[o] c == status_[o]
  <1>2. /\ x \in Items \cup {Moved} /\ c \in Failures /\ hasT_[o] \in BOOLEAN
        /\ hasT_[o] = described[o].ok
        /\ hasT_[o] => x = described[o].item
        /\ ~hasT_[o] => c = described[o].code
    BY DEF ResultInv, Result!ResultTypeOK, Result!ResultDescribed
  <1>3. /\ Stands(Result!WithItem(Result!Reset(Result!Rep(r)), x), Result!Holding(x))
        /\ Stands(Result!WithStatus(Result!Reset(Result!Rep(r)), c), Result!Failed(c))
    BY <1>1, <1>2, AfterReset DEF Result!Rep
  <1>4. /\ Result!Holding(x).ok = TRUE /\ Result!Holding(x).item = x
        /\ Result!Failed(c).ok = FALSE /\ Result!Failed(c).code = c
    BY DEF Result!Holding, Result!Failed
  <1>5. CASE hasT_[o]
    <2>1. Stands(Result!WithItem(Result!Reset(Result!Rep(r)), x), described[o])
      BY <1>2, <1>3, <1>4, <1>5, StandsSame
    <2> QED
      BY <1>5, <2>1 DEF Result!Taken
  <1>6. CASE ~hasT_[o]
    <2>1. Stands(Result!WithStatus(Result!Reset(Result!Rep(r)), c), described[o])
      BY <1>2, <1>3, <1>4, <1>6, StandsSame
    <2> QED
      BY <1>6, <2>1 DEF Result!Taken
  <1> QED
    BY <1>2, <1>5, <1>6

LEMMA FromStatusInv ==
  ASSUME ResultInv, Result!StatusAssumption, NEW r \in Results, NEW c \in Failures,
         Result!FromStatus(r, c)
  PROVE  ResultInv'
  <1> DEFINE rep == [hasT |-> FALSE, status |-> c, item |-> Moved, alive |-> FALSE,
                     assigned |-> FALSE]
  <1>1. Stands(rep, Result!Failed(c))
    BY DEF Stands, Result!Failed
  <1>2. /\ Result!Set(r, rep) /\ described' = [described EXCEPT ![r] = Result!Failed(c)]
        /\ trapped' = trapped
    BY DEF Result!FromStatus
  <1> HIDE DEF rep
  <1> QED
    BY <1>1, <1>2, SetInv

LEMMA FromItemInv ==
  ASSUME ResultInv, Result!StatusAssumption, NEW r \in Results, NEW x \in Items,
         Result!FromItem(r, x)
  PROVE  ResultInv'
  <1> DEFINE rep == [hasT |-> TRUE, status |-> status_[r], item |-> x, alive |-> TRUE,
                     assigned |-> FALSE]
  <1>1. Stands(rep, Result!Holding(x))
    BY DEF Stands, Result!Holding, ResultInv, Result!ResultTypeOK
  <1>2. /\ Result!Set(r, rep) /\ described' = [described EXCEPT ![r] = Result!Holding(x)]
        /\ trapped' = trapped
    BY DEF Result!FromItem
  <1> HIDE DEF rep
  <1> QED
    BY <1>1, <1>2, SetInv

LEMMA AssignItemInv ==
  ASSUME ResultInv, Result!StatusAssumption, NEW r \in Results, NEW x \in Items,
         Result!AssignItem(r, x)
  PROVE  ResultInv'
  <1>1. Stands(Result!Rep(r), described[r])
    BY InvStands
  <1>2. Stands(Result!WithItem(Result!Reset(Result!Rep(r)), x), Result!Holding(x))
    BY <1>1, AfterReset DEF Result!Rep
  <1> QED
    BY <1>2, SetInv DEF Result!AssignItem

LEMMA MoveAssignInv ==
  ASSUME ResultInv, Result!StatusAssumption, NEW r \in Results, NEW o \in Results,
         Result!MoveAssign(r, o)
  PROVE  ResultInv'
  <1> DEFINE f == [x \in Results |-> IF x = r THEN Result!Taken(r, o)
                                     ELSE IF x = o THEN Result!Reset(Result!Rep(o))
                                     ELSE Result!Rep(x)]
             e == [described EXCEPT ![r] = described[o], ![o] = Result!Failed("Unknown")]
  <1>1. r # o /\ Result!Become(f) /\ described' = e /\ trapped' \in BOOLEAN
    BY DEF Result!MoveAssign, ResultInv, Result!ResultTypeOK
  <1>2. /\ DOMAIN e = Results
        /\ \A x \in Results : e[x] = IF x = r THEN described[o]
                                     ELSE IF x = o THEN Result!Failed("Unknown")
                                     ELSE described[x]
    BY <1>1 DEF ResultInv
  <1>3. \A x \in Results : f[x] = IF x = r THEN Result!Taken(r, o)
                                     ELSE IF x = o THEN Result!Reset(Result!Rep(o))
                                     ELSE Result!Rep(x)
    OBVIOUS
  <1> HIDE DEF f, e
  <1>4. Stands(Result!Taken(r, o), described[o])
    BY TakenStands
  <1>5. Stands(Result!Rep(o), described[o])
    BY InvStands
  <1>6. Stands(Result!Reset(Result!Rep(o)), Result!Failed("Unknown"))
    BY <1>5, AfterReset DEF Result!Rep
  <1>7. \A x \in Results : Stands(f[x], e[x])
    BY <1>2, <1>3, <1>4, <1>6, InvStands
  <1> QED
    BY <1>1, <1>2, <1>7, StandsInv

LEMMA ResultInit == Result!Init /\ Result!StatusAssumption => ResultInv
  <1> SUFFICES ASSUME Result!Init, Result!StatusAssumption PROVE ResultInv
    OBVIOUS
  <1>1. Result!ResultTypeOK
    BY DEF Result!Init, Result!StatusAssumption, Result!ResultTypeOK
  <1>2. ASSUME NEW r \in Results
        PROVE  /\ hasT_[r] = FALSE /\ status_[r] = "Unknown" /\ alive[r] = FALSE
               /\ described[r] = Result!Failed("Unknown")
    BY DEF Result!Init
  <1>3. Result!Failed("Unknown").ok = FALSE /\ Result!Failed("Unknown").code = "Unknown"
    BY DEF Result!Failed
  <1>4. Result!ResultDescribed
    BY <1>2, <1>3 DEF Result!ResultDescribed, Result!status
  <1> QED
    BY <1>1, <1>4 DEF ResultInv, Result!Init

LEMMA ResultStep ==
  ResultInv /\ Result!StatusAssumption /\ [Result!Next]_statusVars => ResultInv'
  <1> SUFFICES ASSUME ResultInv, Result!StatusAssumption, [Result!Next]_statusVars
               PROVE  ResultInv'
    OBVIOUS
  <1>1. ASSUME NEW r \in Results, NEW c \in Failures, Result!FromStatus(r, c) PROVE ResultInv'
    BY <1>1, FromStatusInv
  <1>2. ASSUME NEW r \in Results, NEW x \in Items, Result!FromItem(r, x) PROVE ResultInv'
    BY <1>2, FromItemInv
  <1>3. ASSUME NEW o \in Results, Result!status(o) # "Ok" PROVE Result!status(o) \in Failures
    BY <1>3 DEF Result!status, ResultInv, Result!ResultTypeOK
  <1>4. ASSUME NEW r \in Results, NEW c \in Failures, NEW o \in Results, Result!AndThen(r, o, c)
        PROVE  ResultInv'
    BY <1>1, <1>3, <1>4 DEF Result!AndThen
  <1>5. ASSUME NEW r \in Results, NEW x \in Items, Result!AssignItem(r, x) PROVE ResultInv'
    BY <1>5, AssignItemInv
  <1>6. ASSUME NEW r \in Results, NEW x \in Items, NEW o \in Results, Result!Map(r, o, x)
        PROVE  ResultInv'
    BY <1>1, <1>2, <1>3, <1>6 DEF Result!Map
  <1>7. ASSUME NEW r \in Results, NEW o \in Results, Result!CopyAssign(r, o) PROVE ResultInv'
    BY <1>7, TakenStands, SetInv DEF Result!CopyAssign
  <1>8. ASSUME NEW r \in Results, NEW o \in Results, Result!MoveAssign(r, o) PROVE ResultInv'
    BY <1>8, MoveAssignInv
  <1>9. ASSUME NEW r \in Results, Result!Get(r) PROVE ResultInv'
    BY <1>9 DEF Result!Get, ResultInv, Result!ResultTypeOK, Result!ResultDescribed, Result!status
  <1>10. CASE UNCHANGED statusVars
    BY <1>10 DEF statusVars, ResultInv, Result!ResultTypeOK, Result!ResultDescribed, Result!status
  <1> QED
    BY <1>1, <1>2, <1>4, <1>5, <1>6, <1>7, <1>8, <1>9, <1>10 DEF Result!Next

-----------------------------------------------------------------------------
(* Text output. *)
Cells == [glyph : Glyphs \cup {" "}, bg : Colors \cup {Console!Black},
          fg : Colors \cup {Console!Black, Console!White}]
Screens == [Console!Rows -> [Console!Cols -> Cells]]

ConsoleInv ==
  /\ Console!ConsoleTypeOK
  /\ bg_ \in Colors \cup {Console!Black} /\ fg_ \in Colors \cup {Console!White}

LEMMA ConsoleFacts ==
  ASSUME Console!ConsoleAssumption
  PROVE  /\ rows_ \in Nat \ {0} /\ cols_ \in Nat \ {0} /\ TabStop \in Nat \ {0}
         /\ MaxRow \in Nat /\ Colors \subseteq 0 .. 15
         /\ 0 \in Console!Rows /\ 0 \in Console!Cols
  BY DEF Console!ConsoleAssumption, Console!Rows, Console!Cols

LEMMA BlankScreens ==
  ASSUME NEW color \in Colors \cup {Console!Black}
  PROVE  /\ Console!Blank(color) \in Cells
         /\ [r \in Console!Rows |-> [c \in Console!Cols |-> Console!Blank(color)]] \in Screens
  <1>1. Console!Blank(color) \in Cells
    BY DEF Console!Blank, Cells
  <1> QED
    BY <1>1 DEF Screens

LEMMA TabStaysInRow ==
  ASSUME Console!ConsoleAssumption, NEW col \in Nat
  PROVE  Console!TabEnd(col) \in 0 .. cols_
  <1> DEFINE stop == ((col + TabStop - 1) \div TabStop) * TabStop
  <1>1. cols_ \in Nat /\ TabStop \in Nat \ {0}
    BY ConsoleFacts
  <1>2. (col + TabStop - 1) \div TabStop \in Nat
    BY <1>1
  <1>3. stop \in Nat
    BY <1>1, <1>2
  <1> HIDE DEF stop
  <1>4. Console!TabEnd(col) = IF stop < cols_ THEN stop ELSE cols_
    BY DEF Console!TabEnd, stop
  <1> QED
    BY <1>1, <1>3, <1>4

OtherRowsAs(new, page, row) == \A r \in Console!Rows \ {row} : new[r] = page[r]

LEMMA DrawnScreens ==
  ASSUME ConsoleInv, NEW page \in Screens, NEW glyph \in Glyphs \cup {" "}, NEW row, NEW from, NEW to
  PROVE  /\ Console!Drawn(page, glyph, row, from, to) \in Screens
         /\ OtherRowsAs(Console!Drawn(page, glyph, row, from, to), page, row)
  <1> DEFINE cell == [glyph |-> glyph, bg |-> bg_, fg |-> fg_]
             result == Console!Drawn(page, glyph, row, from, to)
  <1>1. cell \in Cells
    BY DEF Cells, ConsoleInv
  <1> HIDE DEF cell
  <1>2. result = [r \in Console!Rows |-> [c \in Console!Cols |->
                    IF r = row /\ c \in from .. to THEN cell ELSE page[r][c]]]
    BY DEF Console!Drawn, cell
  <1> HIDE DEF result
  <1>3. \A r \in Console!Rows : page[r] \in [Console!Cols -> Cells]
    BY DEF Screens
  <1>4. result \in Screens
    BY <1>1, <1>2, <1>3 DEF Screens
  <1>5. ASSUME NEW r \in Console!Rows \ {row} PROVE result[r] = page[r]
    <2>1. result[r] = [c \in Console!Cols |-> page[r][c]]
      BY <1>2, <1>5
    <2> QED
      BY <1>3, <2>1
  <1> QED
    BY <1>4, <1>5 DEF result, OtherRowsAs

LEMMA ScrolledScreens ==
  ASSUME ConsoleInv, Console!ConsoleAssumption
  PROVE  Console!ScrolledUp \in Screens
  <1>1. screen \in Screens /\ bg_ \in Colors \cup {Console!Black}
    BY DEF ConsoleInv, Console!ConsoleTypeOK, Screens, Cells
  <1> DEFINE blank == [c \in Console!Cols |-> Console!Blank(bg_)]
  <1>2. blank \in [Console!Cols -> Cells]
    BY <1>1, BlankScreens
  <1> HIDE DEF blank
  <1>3. Console!ScrolledUp = [r \in Console!Rows |-> IF r + 1 < rows_ THEN screen[r + 1] ELSE blank]
    BY DEF Console!ScrolledUp, blank
  <1>4. \A r \in Console!Rows : r + 1 < rows_ => r + 1 \in Console!Rows
    BY ConsoleFacts DEF Console!Rows
  <1> QED
    BY <1>1, <1>2, <1>3, <1>4 DEF Screens

(* A character printed leaves the other rows as they were, or scrolls. *)
LEMMA PrintRows ==
  ASSUME ConsoleInv, Console!ConsoleAssumption,
         NEW char \in Glyphs \cup {"newline", "tab", "control"}, Console!PrintNext(char)
  PROVE  ConsoleInv' /\ Console!KeepsOtherRows
  <1> DEFINE breaks == char = "newline" \/ col_ >= cols_
             row == IF breaks THEN row_ + 1 ELSE row_
             col == IF breaks THEN 0 ELSE col_
             page == IF Console!Scrolls(row) THEN Console!ScrolledUp ELSE screen
             end == Console!TabEnd(col)
  <1>1. /\ row_ \in 0 .. MaxRow /\ col_ \in 0 .. cols_ /\ screen \in Screens
        /\ drawn.col \in Console!Cols
    BY DEF ConsoleInv, Console!ConsoleTypeOK, Screens, Cells
  <1>2. rows_ \in Nat \ {0} /\ cols_ \in Nat \ {0} /\ MaxRow \in Nat
    BY ConsoleFacts
  <1>3. /\ row_ < MaxRow /\ row_' = row /\ UNCHANGED <<bg_, fg_>>
        /\ \/ /\ char = "tab" /\ col_' = end
              /\ screen' = Console!Drawn(page, " ", row, col, end - 1)
              /\ drawn' = IF end > col THEN [row |-> row, col |-> end - 1] ELSE drawn
           \/ /\ char \in Glyphs /\ col_' = col
              /\ screen' = Console!Drawn(page, char, row, col, col)
              /\ drawn' = [row |-> row, col |-> col]
           \/ col_' = col /\ screen' = page /\ UNCHANGED drawn
    BY DEF Console!PrintNext
  <1>4. row \in 0 .. MaxRow /\ col \in 0 .. cols_ - 1 /\ col \in Nat
    <2>1. CASE breaks
      <3>1. row = row_ + 1 /\ col = 0
        BY <2>1
      <3> HIDE DEF row, col
      <3>2. row_ < MaxRow
        BY <1>3
      <3>3. row \in 0 .. MaxRow
        BY <1>1, <1>2, <3>1, <3>2
      <3>4. col \in 0 .. cols_ - 1 /\ col \in Nat
        BY <1>2, <3>1
      <3> QED
        BY <3>3, <3>4
    <2>2. CASE ~breaks
      <3>1. row = row_ /\ col = col_ /\ ~(col_ >= cols_)
        BY <2>2
      <3> HIDE DEF row, col
      <3> QED
        BY <1>1, <1>2, <3>1
    <2> QED
      BY <2>1, <2>2
  <1>5. page \in Screens /\ (row < rows_ => page = screen)
    <2>1. row < rows_ => ~Console!Scrolls(row)
      BY <1>2, <1>4 DEF Console!Scrolls
    <2> QED
      BY <1>1, <2>1, ScrolledScreens
  <1>6. end \in 0 .. cols_
    BY <1>4, TabStaysInRow
  <1> HIDE DEF row, col, page, end
  <1>7. /\ screen' \in Screens /\ col_' \in 0 .. cols_ /\ drawn'.col \in Console!Cols
        /\ OtherRowsAs(screen', page, row)
    <2>1. CASE /\ char = "tab" /\ col_' = end
               /\ screen' = Console!Drawn(page, " ", row, col, end - 1)
               /\ drawn' = IF end > col THEN [row |-> row, col |-> end - 1] ELSE drawn
      <3>1. drawn'.col \in Console!Cols
        <4>1. CASE end > col
          <5>1. end - 1 \in 0 .. cols_ - 1
            BY <1>2, <1>4, <1>6, <4>1
          <5> QED
            BY <2>1, <4>1, <5>1 DEF Console!Cols
        <4>2. CASE ~(end > col)
          BY <1>1, <2>1, <4>2
        <4> QED
          BY <4>1, <4>2
      <3> DEFINE new == Console!Drawn(page, " ", row, col, end - 1)
      <3>2. new \in Screens /\ OtherRowsAs(new, page, row)
        <4>1. " " \in Glyphs \cup {" "} /\ page \in Screens
          BY <1>5
        <4> QED
          BY <4>1, DrawnScreens
      <3> HIDE DEF new
      <3>3. screen' = new
        BY <2>1 DEF new
      <3> QED
        BY <1>6, <2>1, <3>1, <3>2, <3>3
    <2>2. CASE /\ char \in Glyphs /\ col_' = col
               /\ screen' = Console!Drawn(page, char, row, col, col)
               /\ drawn' = [row |-> row, col |-> col]
      <3>1. col \in 0 .. cols_ /\ col \in Console!Cols
        BY <1>2, <1>4 DEF Console!Cols
      <3> DEFINE new == Console!Drawn(page, char, row, col, col)
      <3>2. new \in Screens /\ OtherRowsAs(new, page, row)
        <4>1. char \in Glyphs \cup {" "} /\ page \in Screens
          BY <1>5, <2>2
        <4> QED
          BY <4>1, DrawnScreens
      <3> HIDE DEF new
      <3>3. screen' = new /\ drawn'.col = col
        BY <2>2 DEF new
      <3> QED
        BY <2>2, <3>1, <3>2, <3>3
    <2>3. CASE col_' = col /\ screen' = page /\ UNCHANGED drawn
      <3>1. col \in 0 .. cols_
        BY <1>2, <1>4
      <3> QED
        BY <1>1, <1>5, <2>3, <3>1 DEF OtherRowsAs
    <2> QED
      BY <1>3, <2>1, <2>2, <2>3
  <1>8. ConsoleInv'
    BY <1>3, <1>4, <1>7 DEF ConsoleInv, Console!ConsoleTypeOK, Screens, Cells
  <1>9. Console!KeepsOtherRows
    BY <1>3, <1>5, <1>7 DEF Console!KeepsOtherRows, OtherRowsAs
  <1> QED
    BY <1>8, <1>9

LEMMA ConsoleInit == Console!Init /\ Console!ConsoleAssumption => ConsoleInv
  <1> SUFFICES ASSUME Console!Init, Console!ConsoleAssumption PROVE ConsoleInv
    OBVIOUS
  <1>1. cols_ \in Nat \ {0} /\ MaxRow \in Nat /\ 0 \in Console!Cols
    BY ConsoleFacts
  <1>2. screen \in Screens
    BY BlankScreens DEF Console!Init
  <1>3. drawn.col \in Console!Cols /\ bg_ = Console!Black /\ fg_ = Console!White
    BY <1>1 DEF Console!Init
  <1>4. row_ \in 0 .. MaxRow
    BY <1>1 DEF Console!Init
  <1>5. col_ \in 0 .. cols_
    BY <1>1 DEF Console!Init
  <1>6. bg_ \in 0 .. 14 /\ bg_ \in Colors \cup {Console!Black}
    BY <1>3 DEF Console!Black
  <1>7. fg_ \in 0 .. 15 /\ fg_ \in Colors \cup {Console!White}
    BY <1>3 DEF Console!White
  <1> QED
    BY <1>2, <1>3, <1>4, <1>5, <1>6, <1>7 DEF ConsoleInv, Console!ConsoleTypeOK, Screens, Cells

LEMMA ConsoleStep ==
  ASSUME ConsoleInv, Console!ConsoleAssumption, [Console!Next]_consoleVars
  PROVE  ConsoleInv' /\ [Console!KeepsOtherRows]_consoleVars
  <1>1. ASSUME NEW char \in Glyphs \cup {"newline", "tab", "control"}, Console!PrintNext(char)
        PROVE  ConsoleInv' /\ Console!KeepsOtherRows
    BY <1>1, PrintRows
  <1>2. ASSUME NEW c \in Colors, Console!SetBg(c) PROVE ConsoleInv' /\ Console!KeepsOtherRows
    <2>1. c \in 0 .. 14
      BY <1>2, ConsoleFacts DEF Console!SetBg
    <2> QED
      BY <1>2, <2>1 DEF Console!SetBg, ConsoleInv, Console!ConsoleTypeOK, Console!KeepsOtherRows
  <1>3. ASSUME NEW c \in Colors, Console!SetFg(c) PROVE ConsoleInv' /\ Console!KeepsOtherRows
    <2>1. c \in 0 .. 15
      BY ConsoleFacts
    <2> QED
      BY <1>3, <2>1 DEF Console!SetFg, ConsoleInv, Console!ConsoleTypeOK, Console!KeepsOtherRows
  <1>4. ASSUME NEW c \in Colors, Console!Clear(c) PROVE ConsoleInv' /\ Console!KeepsOtherRows
    <2>1. screen' \in Screens /\ UNCHANGED <<row_, col_, bg_, fg_, drawn>>
      BY <1>4, BlankScreens DEF Console!Clear
    <2>2. ConsoleInv'
      BY <2>1 DEF ConsoleInv, Console!ConsoleTypeOK, Screens, Cells
    <2>3. screen' = [r \in Console!Rows |-> [k \in Console!Cols |-> Console!Blank(c)]]
      BY <1>4 DEF Console!Clear
    <2>4. screen'[0][0].bg = c
      BY <2>3, ConsoleFacts DEF Console!Blank
    <2> QED
      BY <2>2, <2>3, <2>4 DEF Console!KeepsOtherRows
  <1>5. ASSUME UNCHANGED consoleVars PROVE ConsoleInv'
    BY <1>5 DEF consoleVars, ConsoleInv, Console!ConsoleTypeOK
  <1> QED
    BY <1>1, <1>2, <1>3, <1>4, <1>5 DEF Console!Next

-----------------------------------------------------------------------------
(* Strings: what one representation has to be to hold a text. *)
Held == {t \in Seq(Letters) : Len(t) <= MaxText}

LastSlot(rep) == IF rep.short THEN kMaxShortLen - 1 ELSE rep.len

Holds(rep, t) ==
  /\ rep = [short |-> rep.short, len |-> rep.len, buf |-> rep.buf]
  /\ rep.short \in BOOLEAN /\ rep.len = Len(t) /\ DOMAIN rep.buf = 0 .. LastSlot(rep)
  /\ rep.short <=> Len(t) < kMaxShortLen
  /\ \A i \in 1 .. Len(t) : rep.buf[i - 1] = t[i]
  /\ Len(t) = 0 => \A i \in 0 .. kMaxShortLen - 1 : rep.buf[i] = 0

Ends(rep) == rep.buf[rep.len] = 0

StringInv ==
  /\ DOMAIN s = Strings /\ DOMAIN text = Strings
  /\ overlapped \subseteq Strings /\ fault \in BOOLEAN
  /\ \A v \in Strings : /\ text[v] \in Held /\ Holds(s[v], text[v])
                        /\ Ends(s[v]) \/ (v \in overlapped /\ s[v].short)

LEMMA StringFacts ==
  ASSUME Text!StringAssumption
  PROVE  kMaxShortLen \in Nat \ {0} /\ MaxText \in Nat /\ kMaxShortLen <= MaxText
  BY DEF Text!StringAssumption

LEMMA TextsHeld ==
  ASSUME Text!StringAssumption, NEW t \in Text!Texts
  PROVE  t \in Held
  <1>1. PICK n \in 0 .. MaxText : t \in [1 .. n -> Letters]
    BY DEF Text!Texts
  <1>2. n \in Nat /\ n <= MaxText
    BY <1>1, StringFacts
  <1>3. t \in Seq(Letters) /\ Len(t) = n
    BY <1>1, <1>2
  <1> QED
    BY <1>2, <1>3 DEF Held

(* A text is seen as it is stored. *)
LEMMA ViewIsText ==
  ASSUME StringInv, NEW v \in Strings
  PROVE  Text!View(v) = text[v] /\ Text!length(v) = Len(text[v])
  <1>1. text[v] \in Seq(Letters)
    BY DEF StringInv, Held
  <1>2. text[v] = [i \in 1 .. Len(text[v]) |-> text[v][i]]
    BY <1>1, SeqAsFunction
  <1>3. s[v].len = Len(text[v]) /\ \A i \in 1 .. Len(text[v]) : s[v].buf[i - 1] = text[v][i]
    BY DEF StringInv, Holds
  <1> QED
    BY <1>2, <1>3 DEF Text!View, Text!length

IsCopy(new, dest, at, t, more) ==
  /\ DOMAIN new = DOMAIN dest
  /\ \A i \in DOMAIN dest :
       new[i] = IF i < at \/ i >= at + Len(t) + more THEN dest[i]
                ELSE IF i < at + Len(t) THEN t[i - at + 1] ELSE 0

LEMMA CopiedIsCopy ==
  ASSUME NEW dest, NEW at, NEW t, NEW more
  PROVE  IsCopy(Text!Copied(dest, at, t, more), dest, at, t, more)
  BY DEF Text!Copied, IsCopy

LEMMA FittingHolds ==
  ASSUME Text!StringAssumption, NEW t \in Held
  PROVE  Holds(Text!Fitting(t), t) /\ Ends(Text!Fitting(t))
  <1> DEFINE n == Len(t) room == IF n >= kMaxShortLen THEN n + 1 ELSE kMaxShortLen
             buf == Text!Copied(Text!Zeroes(room), 0, t, 1)
             rep == Text!Fitting(t)
  <1>1. n \in Nat /\ kMaxShortLen \in Nat \ {0}
    BY StringFacts DEF Held
  <1>2. n < room /\ room \in Nat
    BY <1>1
  <1>3. rep = [short |-> ~(n >= kMaxShortLen), len |-> n, buf |-> buf]
    BY DEF Text!Fitting, Text!Long, Text!Short
  <1>4. /\ DOMAIN Text!Zeroes(room) = 0 .. room - 1
        /\ \A i \in 0 .. room - 1 : Text!Zeroes(room)[i] = 0
    BY DEF Text!Zeroes
  <1>5. /\ DOMAIN buf = 0 .. room - 1
        /\ \A i \in 0 .. room - 1 :
             buf[i] = IF i < 0 \/ i >= 0 + n + 1 THEN 0 ELSE IF i < 0 + n THEN t[i - 0 + 1] ELSE 0
    <2>1. IsCopy(buf, Text!Zeroes(room), 0, t, 1)
      BY CopiedIsCopy
    <2> HIDE DEF buf
    <2> QED
      BY <1>4, <2>1 DEF IsCopy
  <1>6. n = 0 => room = kMaxShortLen
    BY <1>1
  <1>7. room - 1 = LastSlot(rep)
    <2> HIDE DEF buf, rep, n
    <2>1. rep.len = n /\ (rep.short <=> ~(n >= kMaxShortLen))
      BY <1>3
    <2>2. room = IF n >= kMaxShortLen THEN n + 1 ELSE kMaxShortLen
      OBVIOUS
    <2> HIDE DEF room
    <2> QED
      BY <1>1, <2>1, <2>2 DEF LastSlot
  <1> HIDE DEF buf, room, n, rep
  <1>8. \A i \in 1 .. n : buf[i - 1] = t[i]
    <2> TAKE i \in 1 .. n
    <2>1. i - 1 \in 0 .. room - 1 /\ (i - 1) + 1 = i /\ ~(i - 1 < 0) /\ ~(i - 1 >= 0 + n + 1)
          /\ i - 1 < 0 + n /\ (i - 1) - 0 + 1 = i
      BY <1>1, <1>2
    <2> QED
      BY <1>5, <2>1
  <1>9. buf[n] = 0
    BY <1>1, <1>2, <1>5
  <1>10. n = 0 => \A i \in 0 .. room - 1 : buf[i] = 0
    BY <1>1, <1>5
  <1>11. /\ rep.short \in BOOLEAN /\ (rep.short <=> ~(n >= kMaxShortLen))
         /\ rep.len = n /\ rep.buf = buf
    BY <1>3
  <1>12. n = 0 => \A i \in 0 .. kMaxShortLen - 1 : buf[i] = 0
    BY <1>6, <1>10
  <1>13. Holds(rep, t)
    <2>1. rep.short \in BOOLEAN /\ (rep.short <=> n < kMaxShortLen)
      BY <1>1, <1>11
    <2> QED
      BY <1>3, <1>5, <1>7, <1>8, <1>11, <1>12, <2>1 DEF Holds, n
  <1> QED
    BY <1>9, <1>11, <1>13 DEF Ends, rep

LEMMA JoinedElements ==
  ASSUME NEW a \in Seq(Letters), NEW b \in Seq(Letters)
  PROVE  /\ a \o b \in Seq(Letters) /\ Len(a \o b) = Len(a) + Len(b)
         /\ \A i \in 1 .. Len(a) : (a \o b)[i] = a[i]
         /\ \A i \in 1 .. Len(b) : (a \o b)[i + Len(a)] = b[i]
  OBVIOUS

(* operator+ and append into a new buffer. *)
LEMMA JoinedHolds ==
  ASSUME StringInv, Text!StringAssumption, NEW v \in Strings, NEW t \in Held,
         Len(text[v]) + Len(t) <= MaxText, Len(text[v]) + Len(t) >= kMaxShortLen
  PROVE  Holds(Text!Joined(v, t), text[v] \o t) /\ Ends(Text!Joined(v, t))
  <1> DEFINE a == text[v] m == Len(a) n == Len(t)
             first == Text!Copied(Text!Zeroes(m + n + 1), 0, a, 0)
             buf == Text!Copied(first, m, t, 1)
             rep == Text!Joined(v, t)
             joined == a \o t
  <1>1. m \in Nat /\ n \in Nat /\ kMaxShortLen \in Nat \ {0} /\ m + n >= kMaxShortLen
    BY StringFacts DEF Held, StringInv
  <1>2. rep = [short |-> FALSE, len |-> m + n, buf |-> buf]
    BY ViewIsText DEF Text!Joined
  <1>3. /\ DOMAIN Text!Zeroes(m + n + 1) = 0 .. (m + n + 1) - 1
        /\ \A i \in 0 .. (m + n + 1) - 1 : Text!Zeroes(m + n + 1)[i] = 0
    BY DEF Text!Zeroes
  <1>4. /\ DOMAIN first = 0 .. (m + n + 1) - 1
        /\ \A i \in 0 .. (m + n + 1) - 1 :
             first[i] = IF i < 0 \/ i >= 0 + m + 0 THEN 0 ELSE IF i < 0 + m THEN a[i - 0 + 1] ELSE 0
    <2>1. IsCopy(first, Text!Zeroes(m + n + 1), 0, a, 0)
      BY CopiedIsCopy
    <2> HIDE DEF first
    <2> QED
      BY <1>3, <2>1 DEF IsCopy
  <1> HIDE DEF first
  <1>5. /\ DOMAIN buf = 0 .. (m + n + 1) - 1
        /\ \A i \in 0 .. (m + n + 1) - 1 :
             buf[i] = IF i < m \/ i >= m + n + 1 THEN first[i]
                      ELSE IF i < m + n THEN t[i - m + 1] ELSE 0
    <2>1. IsCopy(buf, first, m, t, 1)
      BY CopiedIsCopy
    <2> HIDE DEF buf
    <2> QED
      BY <1>4, <2>1 DEF IsCopy
  <1>6. /\ Len(joined) = m + n
        /\ \A i \in 1 .. m : joined[i] = a[i]
        /\ \A i \in 1 .. n : joined[i + m] = t[i]
    BY JoinedElements DEF StringInv, Held
  <1> HIDE DEF buf, a, m, n, rep, joined
  <1>7. ASSUME NEW i \in 1 .. m + n PROVE buf[i - 1] = joined[i]
    <2>1. i - 1 \in 0 .. (m + n + 1) - 1 /\ ~(i - 1 >= m + n + 1) /\ i - 1 < m + n
      BY <1>1
    <2>2. CASE i <= m
      <3>1. i - 1 < m /\ i \in 1 .. m /\ ~(i - 1 < 0) /\ ~(i - 1 >= 0 + m + 0) /\ i - 1 < 0 + m
            /\ (i - 1) - 0 + 1 = i
        BY <1>1, <2>2
      <3> QED
        BY <1>4, <1>5, <1>6, <2>1, <3>1
    <2>3. CASE i > m
      <3>1. i - m \in 1 .. n /\ (i - m) + m = i /\ ~(i - 1 < m) /\ (i - 1) - m + 1 = i - m
        BY <1>1, <2>3
      <3> QED
        BY <1>5, <1>6, <2>1, <3>1
    <2> QED
      BY <1>1, <2>2, <2>3
  <1>8. buf[m + n] = 0
    BY <1>1, <1>5
  <1>9. LastSlot(rep) = (m + n + 1) - 1 /\ m + n # 0
    BY <1>1, <1>2 DEF LastSlot
  <1>10. rep.short = FALSE /\ rep.len = m + n /\ rep.buf = buf
    BY <1>2
  <1>11. Holds(rep, joined)
    <2>1. rep.short <=> m + n < kMaxShortLen
      BY <1>1, <1>10
    <2> QED
      BY <1>2, <1>5, <1>6, <1>7, <1>9, <1>10, <2>1 DEF Holds
  <1> QED
    BY <1>8, <1>10, <1>11 DEF Ends, rep, joined, a

(* append into the buffer that is there. *)
LEMMA AppendedHolds ==
  ASSUME StringInv, Text!StringAssumption, NEW v \in Strings, NEW t \in Held, NEW rep,
         Len(text[v]) + Len(t) < kMaxShortLen,
         rep = [s[v] EXCEPT !.len = @ + Len(t), !.buf = Text!Copied(@, Text!length(v), t, 1)]
  PROVE  Holds(rep, text[v] \o t) /\ Ends(rep)
  <1> DEFINE a == text[v] m == Len(a) n == Len(t) old == s[v].buf
             buf == Text!Copied(old, m, t, 1)
             joined == a \o t
  <1>1. m \in Nat /\ n \in Nat /\ kMaxShortLen \in Nat \ {0} /\ m + n < kMaxShortLen
    BY StringFacts DEF Held, StringInv
  <1>2. Text!length(v) = m
    BY ViewIsText
  <1>3. /\ s[v] = [short |-> s[v].short, len |-> s[v].len, buf |-> old]
        /\ s[v].short \in BOOLEAN /\ s[v].len = m /\ DOMAIN old = 0 .. LastSlot(s[v])
        /\ s[v].short <=> m < kMaxShortLen
        /\ \A i \in 1 .. m : old[i - 1] = a[i]
        /\ m = 0 => \A i \in 0 .. kMaxShortLen - 1 : old[i] = 0
    BY DEF StringInv, Holds
  <1>4. s[v].short /\ DOMAIN old = 0 .. kMaxShortLen - 1
    BY <1>1, <1>3 DEF LastSlot
  <1>5. rep = [short |-> TRUE, len |-> m + n, buf |-> buf]
    BY <1>2, <1>3, <1>4
  <1>6. \A i \in 0 .. kMaxShortLen - 1 :
          buf[i] = IF i < m \/ i >= m + n + 1 THEN old[i]
                   ELSE IF i < m + n THEN t[i - m + 1] ELSE 0
    <2>1. IsCopy(buf, old, m, t, 1)
      BY CopiedIsCopy
    <2> HIDE DEF buf, old
    <2> QED
      BY <1>4, <2>1 DEF IsCopy
  <1>7. DOMAIN buf = 0 .. kMaxShortLen - 1
    <2>1. IsCopy(buf, old, m, t, 1)
      BY CopiedIsCopy
    <2> HIDE DEF buf, old
    <2> QED
      BY <1>4, <2>1 DEF IsCopy
  <1>8. /\ Len(joined) = m + n
        /\ \A i \in 1 .. m : joined[i] = a[i]
        /\ \A i \in 1 .. n : joined[i + m] = t[i]
    BY JoinedElements DEF StringInv, Held
  <1> HIDE DEF buf, a, m, n, joined, old
  <1>9. ASSUME NEW i \in 1 .. m + n PROVE buf[i - 1] = joined[i]
    <2>1. i - 1 \in 0 .. kMaxShortLen - 1 /\ ~(i - 1 >= m + n + 1) /\ i - 1 < m + n
      BY <1>1
    <2>2. CASE i <= m
      <3>1. i - 1 < m /\ i \in 1 .. m
        BY <1>1, <2>2
      <3> QED
        BY <1>3, <1>6, <1>8, <2>1, <3>1
    <2>3. CASE i > m
      <3>1. i - m \in 1 .. n /\ (i - m) + m = i /\ ~(i - 1 < m) /\ (i - 1) - m + 1 = i - m
        BY <1>1, <2>3
      <3> QED
        BY <1>6, <1>8, <2>1, <3>1
    <2> QED
      BY <1>1, <2>2, <2>3
  <1>10. buf[m + n] = 0
    BY <1>1, <1>6
  <1>11. ASSUME m + n = 0, NEW i \in 0 .. kMaxShortLen - 1 PROVE buf[i] = 0
    <2>1. m = 0
      BY <1>1, <1>11
    <2>2. old[i] = 0
      BY <1>3, <2>1
    <2>3. ~(i < m + n)
      BY <1>1, <1>11
    <2> QED
      BY <1>6, <2>2, <2>3
  <1>12. rep.short = TRUE /\ rep.len = m + n /\ rep.buf = buf
    BY ONLY <1>5
  <1>13. Holds(rep, joined)
    <2>1. LastSlot(rep) = kMaxShortLen - 1
      BY <1>12 DEF LastSlot
    <2> QED
      BY <1>1, <1>5, <1>7, <1>8, <1>9, <1>11, <1>12, <2>1 DEF Holds
  <1> QED
    BY <1>10, <1>12, <1>13 DEF Ends, joined, a

LEMMA RemainderOnce ==
  ASSUME NEW m \in Nat \ {0}, NEW j \in Nat, j < 2 * m
  PROVE  j % m = IF j < m THEN j ELSE j - m
  <1>1. /\ j = m * (j \div m) + (j % m) /\ j % m \in 0 .. m - 1 /\ j \div m \in Nat
    OBVIOUS
  <1> DEFINE q == j \div m r == j % m
  <1>2. /\ j = m * q + r /\ r \in 0 .. m - 1 /\ q \in Nat
    BY <1>1
  <1> HIDE DEF q, r
  <1>3. q = 0 \/ q = 1
    <2>1. SUFFICES ASSUME q >= 2 PROVE FALSE
      BY <1>2
    <2>2. m * q >= m * 2
      BY <1>2, <2>1
    <2> QED
      BY <1>2, <2>2
  <1>4. CASE q = 0
    BY <1>2, <1>4 DEF r
  <1>5. CASE q = 1
    BY <1>2, <1>5 DEF r
  <1> QED
    BY <1>3, <1>4, <1>5

(* append of a string to itself, in place: twice the text, and no end. *)
LEMMA DoubledHolds ==
  ASSUME StringInv, Text!StringAssumption, NEW v \in Strings, NEW rep,
         2 * Len(text[v]) < kMaxShortLen,
         rep = [s[v] EXCEPT !.len = 2 * @, !.buf = Text!CopiedOver(@, Text!View(v))]
  PROVE  Holds(rep, text[v] \o text[v]) /\ rep.short
  <1> DEFINE a == text[v] m == Len(a) old == s[v].buf
             buf == Text!CopiedOver(old, a)
             joined == a \o a
  <1>1. m \in Nat /\ kMaxShortLen \in Nat \ {0} /\ 2 * m < kMaxShortLen /\ a \in Seq(Letters)
    BY StringFacts DEF Held, StringInv
  <1>2. Text!View(v) = a
    BY ViewIsText
  <1>3. /\ s[v] = [short |-> s[v].short, len |-> s[v].len, buf |-> old]
        /\ s[v].short \in BOOLEAN /\ s[v].len = m /\ DOMAIN old = 0 .. LastSlot(s[v])
        /\ s[v].short <=> m < kMaxShortLen
        /\ m = 0 => \A i \in 0 .. kMaxShortLen - 1 : old[i] = 0
    BY DEF StringInv, Holds
  <1>4. s[v].short /\ DOMAIN old = 0 .. kMaxShortLen - 1
    BY <1>1, <1>3 DEF LastSlot
  <1>5. rep = [short |-> TRUE, len |-> 2 * m, buf |-> buf]
    BY <1>2, <1>3, <1>4
  <1>6. /\ DOMAIN buf = 0 .. kMaxShortLen - 1
        /\ \A i \in 0 .. kMaxShortLen - 1 :
             buf[i] = IF a # <<>> /\ i <= 2 * m THEN a[(i % m) + 1] ELSE old[i]
    BY <1>4 DEF Text!CopiedOver
  <1>7. /\ Len(joined) = m + m
        /\ \A i \in 1 .. m : joined[i] = a[i]
        /\ \A i \in 1 .. m : joined[i + m] = a[i]
    BY JoinedElements DEF StringInv, Held
  <1>8. m = 0 <=> a = <<>>
    BY <1>1
  <1> HIDE DEF buf, a, m, joined, old
  <1>9. ASSUME NEW i \in 1 .. 2 * m PROVE buf[i - 1] = joined[i]
    <2>1. /\ i - 1 \in 0 .. kMaxShortLen - 1 /\ i - 1 <= 2 * m /\ m \in Nat \ {0}
          /\ i - 1 \in Nat /\ i - 1 < 2 * m
      BY <1>1
    <2>2. buf[i - 1] = a[((i - 1) % m) + 1]
      BY <1>6, <1>8, <2>1
    <2>3. (i - 1) % m = IF i - 1 < m THEN i - 1 ELSE (i - 1) - m
      BY <2>1, RemainderOnce
    <2>4. CASE i <= m
      <3>1. i - 1 < m /\ i \in 1 .. m /\ (i - 1) + 1 = i
        BY <1>1, <2>4
      <3> QED
        BY <1>7, <2>2, <2>3, <3>1
    <2>5. CASE i > m
      <3>1. i - m \in 1 .. m /\ (i - m) + m = i /\ ~(i - 1 < m) /\ ((i - 1) - m) + 1 = i - m
        BY <1>1, <2>5
      <3> QED
        BY <1>7, <2>2, <2>3, <3>1
    <2> QED
      BY <1>1, <2>4, <2>5
  <1>10. ASSUME 2 * m = 0, NEW i \in 0 .. kMaxShortLen - 1 PROVE buf[i] = 0
    <2>1. m = 0
      BY <1>1, <1>10
    <2>2. old[i] = 0
      BY <1>3, <2>1
    <2> QED
      BY <1>6, <1>8, <2>1, <2>2
  <1>11. rep.short = TRUE /\ rep.len = 2 * m /\ rep.buf = buf
    BY ONLY <1>5
  <1>12. m + m = 2 * m
    BY <1>1
  <1>13. Holds(rep, joined)
    <2>1. LastSlot(rep) = kMaxShortLen - 1
      BY <1>11 DEF LastSlot
    <2> QED
      BY <1>1, <1>5, <1>6, <1>7, <1>9, <1>10, <1>11, <1>12, <2>1 DEF Holds
  <1> QED
    BY <1>11, <1>13 DEF joined, a

-----------------------------------------------------------------------------
(* What operations on one string and on two leave. *)
LEMMA PutInv ==
  ASSUME StringInv, NEW v \in Strings, NEW rep, NEW t \in Held,
         Holds(rep, t), Ends(rep), Text!Put(v, rep, t)
  PROVE  StringInv'
  <1>1. /\ s' = [s EXCEPT ![v] = rep] /\ text' = [text EXCEPT ![v] = t]
        /\ overlapped' = overlapped \ {v} /\ fault' = fault
    BY DEF Text!Put
  <1>2. /\ DOMAIN s' = Strings /\ DOMAIN text' = Strings
        /\ overlapped' \subseteq Strings /\ fault' \in BOOLEAN
    BY <1>1 DEF StringInv
  <1>3. ASSUME NEW w \in Strings
        PROVE  /\ text'[w] \in Held /\ Holds(s'[w], text'[w])
               /\ Ends(s'[w]) \/ (w \in overlapped' /\ s'[w].short)
    <2>1. CASE w = v
      <3>1. s'[w] = rep /\ text'[w] = t
        BY <1>1, <2>1 DEF StringInv
      <3> QED
        BY <3>1
    <2>2. CASE w # v
      <3>1. s'[w] = s[w] /\ text'[w] = text[w] /\ (w \in overlapped => w \in overlapped')
        BY <1>1, <2>2 DEF StringInv
      <3> QED
        BY <3>1 DEF StringInv
    <2> QED
      BY <2>1, <2>2
  <1> QED
    BY <1>2, <1>3 DEF StringInv

LEMMA OutOfMemoryInv ==
  ASSUME StringInv, NEW t, Text!OutOfMemory(t)
  PROVE  StringInv'
  <1>1. UNCHANGED <<s, text, overlapped>> /\ fault' = TRUE
    BY DEF Text!OutOfMemory
  <1> QED
    BY <1>1 DEF StringInv

LEMMA MoveTextInv ==
  ASSUME StringInv, Text!StringAssumption, NEW v \in Strings, NEW w \in Strings,
         Text!MoveAssign(v, w)
  PROVE  StringInv'
  <1> DEFINE rep == IF s[w].short THEN Text!Fitting(Text!View(w)) ELSE s[w]
             none == Text!Short(<<>>)
  <1>1. /\ v # w /\ s' = [s EXCEPT ![v] = rep, ![w] = none]
        /\ text' = [text EXCEPT ![v] = text[w], ![w] = <<>>]
        /\ overlapped' = overlapped \ {v, w} /\ fault' = fault
    BY DEF Text!MoveAssign
  <1>2. <<>> \in Held
    BY StringFacts DEF Held
  <1>3. none = Text!Fitting(<<>>)
    BY StringFacts DEF Text!Fitting
  <1>4. Holds(none, <<>>) /\ Ends(none)
    BY <1>2, <1>3, FittingHolds
  <1>5. text[w] \in Held /\ Holds(s[w], text[w]) /\ (Ends(s[w]) \/ s[w].short)
    BY DEF StringInv
  <1>6. Holds(Text!Fitting(text[w]), text[w]) /\ Ends(Text!Fitting(text[w]))
    BY <1>5, FittingHolds
  <1>7. Holds(rep, text[w]) /\ Ends(rep)
    BY <1>5, <1>6, ViewIsText
  <1> HIDE DEF rep, none
  <1>8. /\ DOMAIN s' = Strings /\ DOMAIN text' = Strings
        /\ overlapped' \subseteq Strings /\ fault' \in BOOLEAN
    BY <1>1 DEF StringInv
  <1>9. ASSUME NEW u \in Strings
        PROVE  /\ text'[u] \in Held /\ Holds(s'[u], text'[u])
               /\ Ends(s'[u]) \/ (u \in overlapped' /\ s'[u].short)
    <2>1. CASE u = v
      <3>1. s'[u] = rep /\ text'[u] = text[w]
        BY <1>1, <2>1 DEF StringInv
      <3> QED
        BY <1>5, <1>7, <3>1
    <2>2. CASE u = w
      <3>1. s'[u] = none /\ text'[u] = <<>>
        BY <1>1, <2>2 DEF StringInv
      <3> QED
        BY <1>2, <1>4, <3>1
    <2>3. CASE u # v /\ u # w
      <3>1. s'[u] = s[u] /\ text'[u] = text[u] /\ (u \in overlapped => u \in overlapped')
        BY <1>1, <2>3 DEF StringInv
      <3> QED
        BY <3>1 DEF StringInv
    <2> QED
      BY <2>1, <2>2, <2>3
  <1> QED
    BY <1>8, <1>9 DEF StringInv

LEMMA JoinedText ==
  ASSUME StringInv, NEW v \in Strings, NEW t \in Held, Len(text[v]) + Len(t) <= MaxText
  PROVE  text[v] \o t \in Held /\ Len(text[v] \o t) = Len(text[v]) + Len(t)
  BY JoinedElements DEF StringInv, Held

LEMMA AppendTextInv ==
  ASSUME StringInv, Text!StringAssumption, NEW v \in Strings, NEW t \in Held,
         Text!AppendText(v, t)
  PROVE  StringInv'
  <1> DEFINE n == Len(text[v]) + Len(t)
             rep == [s[v] EXCEPT !.len = @ + Len(t), !.buf = Text!Copied(@, Text!length(v), t, 1)]
             joined == text[v] \o t
  <1>1. /\ Text!length(v) = Len(text[v]) /\ n <= MaxText /\ n \in Nat
        /\ kMaxShortLen \in Nat \ {0}
    BY ViewIsText, StringFacts DEF Text!AppendText, StringInv, Held
  <1>2. joined \in Held
    BY <1>1, JoinedText
  <1>3. CASE Text!NeedBuffer(Text!length(v) + Len(t))
    <2>1. n >= kMaxShortLen
      BY <1>1, <1>3 DEF Text!NeedBuffer
    <2>2. Holds(Text!Joined(v, t), joined) /\ Ends(Text!Joined(v, t))
      BY <1>1, <2>1, JoinedHolds
    <2>3. Text!OutOfMemory(Text!View(v) \o t) \/ Text!Put(v, Text!Joined(v, t), joined)
      BY <1>3 DEF Text!AppendText
    <2> QED
      BY <1>2, <2>2, <2>3, PutInv, OutOfMemoryInv
  <1>4. CASE ~Text!NeedBuffer(Text!length(v) + Len(t))
    <2>1. n < kMaxShortLen
      BY <1>1, <1>4 DEF Text!NeedBuffer
    <2>2. Holds(rep, joined) /\ Ends(rep)
      BY <2>1, AppendedHolds
    <2>3. Text!Put(v, rep, joined)
      BY <1>4 DEF Text!AppendText
    <2> HIDE DEF rep
    <2> QED
      BY <1>2, <2>2, <2>3, PutInv
  <1> QED
    BY <1>3, <1>4

LEMMA AppendSelfInv ==
  ASSUME StringInv, Text!StringAssumption, NEW v \in Strings, Text!AppendSelf(v)
  PROVE  StringInv'
  <1> DEFINE a == text[v] m == Len(a)
             rep == [s[v] EXCEPT !.len = 2 * @, !.buf = Text!CopiedOver(@, Text!View(v))]
             joined == a \o a
  <1>1. /\ Text!length(v) = m /\ Text!View(v) = a /\ a \in Held /\ m \in Nat
        /\ kMaxShortLen \in Nat \ {0} /\ kMaxShortLen <= MaxText /\ MaxText \in Nat
    BY ViewIsText, StringFacts DEF StringInv, Held
  <1>2. CASE Text!NeedBuffer(2 * Text!length(v))
    <2>1. Text!AppendText(v, a)
      BY <1>1, <1>2 DEF Text!AppendSelf
    <2> QED
      BY <1>1, <2>1, AppendTextInv
  <1>3. CASE ~Text!NeedBuffer(2 * Text!length(v))
    <2>1. 2 * m < kMaxShortLen
      BY <1>1, <1>3 DEF Text!NeedBuffer
    <2>2. Holds(rep, joined) /\ rep.short
      BY <2>1, DoubledHolds
    <2>3. m + m <= MaxText
      BY <1>1, <2>1
    <2>4. joined \in Held
      BY <1>1, <2>3, JoinedText
    <2>5. /\ s' = [s EXCEPT ![v].len = 2 * @, ![v].buf = Text!CopiedOver(@, Text!View(v))]
          /\ text' = [text EXCEPT ![v] = @ \o @]
          /\ overlapped' = overlapped \cup {v} /\ fault' = fault
      BY <1>3 DEF Text!AppendSelf
    <2>6. s' = [s EXCEPT ![v] = rep] /\ text' = [text EXCEPT ![v] = joined]
      BY <2>5 DEF StringInv
    <2> HIDE DEF rep, joined, m, a
    <2>7. /\ DOMAIN s' = Strings /\ DOMAIN text' = Strings
          /\ overlapped' \subseteq Strings /\ fault' \in BOOLEAN
      BY <2>5, <2>6 DEF StringInv
    <2>8. ASSUME NEW w \in Strings
          PROVE  /\ text'[w] \in Held /\ Holds(s'[w], text'[w])
                 /\ Ends(s'[w]) \/ (w \in overlapped' /\ s'[w].short)
      <3>1. CASE w = v
        <4>1. s'[w] = rep /\ text'[w] = joined /\ w \in overlapped'
          BY <2>5, <2>6, <3>1 DEF StringInv
        <4> QED
          BY <2>2, <2>4, <4>1
      <3>2. CASE w # v
        <4>1. s'[w] = s[w] /\ text'[w] = text[w] /\ (w \in overlapped => w \in overlapped')
          BY <2>5, <2>6, <3>2 DEF StringInv
        <4> QED
          BY <4>1 DEF StringInv
      <3> QED
        BY <3>1, <3>2
    <2> QED
      BY <2>7, <2>8 DEF StringInv
  <1> QED
    BY <1>2, <1>3

LEMMA ConcatInv ==
  ASSUME StringInv, Text!StringAssumption, NEW v \in Strings, NEW w \in Strings,
         NEW t \in Held, Text!Concat(v, w, t)
  PROVE  StringInv'
  <1> DEFINE n == Len(text[w]) + Len(t) joined == text[w] \o t
             start == IF n < kMaxShortLen THEN Text!Short(joined) ELSE Text!Joined(w, t)
  <1>1. /\ Text!length(w) = Len(text[w]) /\ Text!View(w) = text[w] /\ n <= MaxText
        /\ n \in Nat /\ kMaxShortLen \in Nat \ {0}
    BY ViewIsText, StringFacts DEF Text!Concat, StringInv, Held
  <1>2. joined \in Held /\ Len(joined) = n
    BY <1>1, JoinedText
  <1>3. Text!OutOfMemory(joined) \/ Text!Put(v, start, joined)
    BY <1>1 DEF Text!Concat
  <1>4. Holds(start, joined) /\ Ends(start)
    <2>1. CASE n < kMaxShortLen
      <3>1. start = Text!Fitting(joined)
        BY <1>1, <1>2, <2>1 DEF Text!Fitting
      <3> QED
        BY <1>2, <3>1, FittingHolds
    <2>2. CASE ~(n < kMaxShortLen)
      <3>1. n >= kMaxShortLen
        BY <1>1, <2>2
      <3> QED
        BY <1>1, <2>2, <3>1, JoinedHolds
    <2> QED
      BY <2>1, <2>2
  <1> HIDE DEF start, joined
  <1> QED
    BY <1>2, <1>3, <1>4, PutInv, OutOfMemoryInv

LEMMA StringInit == Text!Init /\ Text!StringAssumption => StringInv
  <1> SUFFICES ASSUME Text!Init, Text!StringAssumption PROVE StringInv
    OBVIOUS
  <1>1. <<>> \in Held /\ Text!Short(<<>>) = Text!Fitting(<<>>)
    BY StringFacts DEF Held, Text!Fitting
  <1>2. Holds(Text!Short(<<>>), <<>>) /\ Ends(Text!Short(<<>>))
    BY <1>1, FittingHolds
  <1> QED
    BY <1>1, <1>2 DEF Text!Init, StringInv

LEMMA StringStep ==
  ASSUME StringInv, Text!StringAssumption, [Text!Next]_stringVars
  PROVE  StringInv'
  <1>1. \A t \in Text!Texts : t \in Held
    BY TextsHeld
  <1>2. ASSUME NEW t \in Held PROVE Holds(Text!Fitting(t), t) /\ Ends(Text!Fitting(t))
    BY FittingHolds
  <1>3. ASSUME NEW v \in Strings, NEW t \in Text!Texts, Text!Construct(v, t) PROVE StringInv'
    BY <1>1, <1>2, <1>3, PutInv, OutOfMemoryInv DEF Text!Construct
  <1>4. ASSUME NEW v \in Strings, NEW t \in Text!Texts, Text!AppendText(v, t) PROVE StringInv'
    BY <1>1, <1>4, AppendTextInv
  <1>5. ASSUME NEW v \in Strings, NEW w \in Strings, Text!CopyAssign(v, w) PROVE StringInv'
    <2>1. text[w] \in Held /\ Text!View(w) = text[w]
      BY ViewIsText DEF StringInv
    <2>2. Text!OutOfMemory(text[w]) \/ Text!Put(v, Text!Fitting(text[w]), text[w])
      BY <1>5, <2>1 DEF Text!CopyAssign
    <2> QED
      BY <1>2, <2>1, <2>2, PutInv, OutOfMemoryInv
  <1>6. ASSUME NEW v \in Strings, NEW w \in Strings, Text!MoveAssign(v, w) PROVE StringInv'
    BY <1>6, MoveTextInv
  <1>7. ASSUME NEW v \in Strings, NEW w \in Strings, NEW t \in Text!Texts, Text!Concat(v, w, t)
        PROVE  StringInv'
    BY <1>1, <1>7, ConcatInv
  <1>8. ASSUME NEW v \in Strings, Text!AppendSelf(v) PROVE StringInv'
    BY <1>8, AppendSelfInv
  <1>9. ASSUME NEW v \in Strings, Text!Clear(v) PROVE StringInv'
    <2>1. <<>> \in Held /\ Text!Short(<<>>) = Text!Fitting(<<>>)
      BY StringFacts DEF Held, Text!Fitting
    <2> QED
      BY <1>2, <1>9, <2>1, PutInv DEF Text!Clear
  <1>10. CASE UNCHANGED stringVars
    BY <1>10 DEF stringVars, StringInv
  <1> QED
    BY <1>3, <1>4, <1>5, <1>6, <1>7, <1>8, <1>9, <1>10 DEF Text!Next

LEMMA StringInvHolds ==
  StringInv /\ Text!StringAssumption => Text!StringTypeOK /\ Text!HoldsText
  <1> SUFFICES ASSUME StringInv, Text!StringAssumption
               PROVE  Text!StringTypeOK /\ Text!HoldsText
    OBVIOUS
  <1>1. ASSUME NEW v \in Strings
        PROVE  /\ s[v].short \in BOOLEAN /\ s[v].len \in 0 .. MaxText
               /\ DOMAIN s[v].buf = 0 .. (IF s[v].short THEN kMaxShortLen - 1 ELSE s[v].len)
    <2>1. /\ text[v] \in Held /\ s[v].short \in BOOLEAN /\ s[v].len = Len(text[v])
          /\ DOMAIN s[v].buf = 0 .. LastSlot(s[v])
      BY DEF StringInv, Holds
    <2>2. Len(text[v]) \in 0 .. MaxText
      BY <2>1, StringFacts DEF Held
    <2> QED
      BY <2>1, <2>2 DEF LastSlot
  <1>2. ASSUME NEW v \in Strings
        PROVE  /\ Text!View(v) = text[v]
               /\ s[v].short <=> Text!length(v) < kMaxShortLen
               /\ s[v].buf[Text!length(v)] = 0 \/ v \in overlapped
               /\ Text!empty(v) <=> text[v] = <<>>
    <2>1. /\ text[v] \in Held /\ s[v].len = Len(text[v])
          /\ s[v].short <=> Len(text[v]) < kMaxShortLen
          /\ Len(text[v]) = 0 => \A i \in 0 .. kMaxShortLen - 1 : s[v].buf[i] = 0
          /\ Ends(s[v]) \/ v \in overlapped
      BY DEF StringInv, Holds
    <2>2. Text!View(v) = text[v] /\ Text!length(v) = Len(text[v])
      BY ViewIsText
    <2>3. text[v] = <<>> <=> Len(text[v]) = 0
      BY <2>1 DEF Held
    <2>4. Text!empty(v) <=> Len(text[v]) = 0
      BY <2>1, <2>2 DEF Text!empty
    <2> QED
      BY <2>1, <2>2, <2>3, <2>4 DEF Ends
  <1>3. overlapped \subseteq Strings /\ fault \in BOOLEAN
    BY DEF StringInv
  <1> QED
    BY <1>1, <1>2, <1>3 DEF Text!StringTypeOK, Text!HoldsText

-----------------------------------------------------------------------------
(* The test framework. Whether a test passes is known from its expectations,  *)
(* those of the tests it calls included; a test that runs still has to come   *)
(* to what that says, and what has run is counted accordingly.                *)
Macros == {"EQUAL", "NOT_EQUAL", "EMPTY", "NOT_EMPTY", "GREATER_THAN", "NOT_GREATER_THAN",
           "LESS_THAN", "NOT_LESS_THAN", "GREATER_THAN_OR_EQUAL", "LESS_THAN_OR_EQUAL",
           "NOT_GREATER_THAN_OR_EQUAL", "NOT_LESS_THAN_OR_EQUAL"}
Expectations == [macro : Macros, a : Int, b : Int]
TestCalls == [macro : {"FAIL", "SUCCESS"}, test : {Tests!successful_test, Tests!failing_test}]
TestSteps == Expectations \cup TestCalls

AllMet(t) == \A i \in 1 .. Len(t) : Tests!Met(t[i])
Good(e) == IF Tests!IsCall(e) THEN AllMet(e.test) <=> e.macro = "SUCCESS" ELSE Tests!Met(e)
Passes(t) == \A i \in 1 .. Len(t) : Good(t[i])

Passing(t) == t \in Seq(TestSteps) /\ Passes(t)
Failing(t) == t \in Seq(TestSteps) /\ ~Passes(t)

(* What each macro compares. *)
LEMMA MacrosCompare ==
  ASSUME NEW a, NEW b
  PROVE  /\ Tests!Met(Tests!E("EQUAL", a, b)) <=> a = b
         /\ Tests!Met(Tests!E("NOT_EQUAL", a, b)) <=> a # b
         /\ Tests!Met(Tests!E("EMPTY", a, b)) <=> a = Tests!Empty
         /\ Tests!Met(Tests!E("NOT_EMPTY", a, b)) <=> a # Tests!Empty
         /\ Tests!Met(Tests!E("GREATER_THAN", a, b)) <=> a > b
         /\ Tests!Met(Tests!E("NOT_GREATER_THAN", a, b)) <=> ~(a > b)
         /\ Tests!Met(Tests!E("LESS_THAN", a, b)) <=> a < b
         /\ Tests!Met(Tests!E("NOT_LESS_THAN", a, b)) <=> ~(a < b)
         /\ Tests!Met(Tests!E("GREATER_THAN_OR_EQUAL", a, b)) <=> a >= b
         /\ Tests!Met(Tests!E("LESS_THAN_OR_EQUAL", a, b)) <=> a <= b
         /\ Tests!Met(Tests!E("NOT_GREATER_THAN_OR_EQUAL", a, b)) <=> ~(a >= b)
         /\ Tests!Met(Tests!E("NOT_LESS_THAN_OR_EQUAL", a, b)) <=> ~(a <= b)
  BY DEF Tests!Met, Tests!E

LEMMA OneExpectation ==
  \A m \in Macros : \A a, b \in Int :
    /\ Tests!One(m, a, b) \in Seq(TestSteps) /\ Tests!One(m, a, b) \in Seq(Expectations)
    /\ Passes(Tests!One(m, a, b)) <=> Tests!Met(Tests!E(m, a, b))
    /\ AllMet(Tests!One(m, a, b)) <=> Tests!Met(Tests!E(m, a, b))
    /\ Len(Tests!One(m, a, b)) = 1 /\ Tests!One(m, a, b)[1] = Tests!E(m, a, b)
  BY DEF Tests!One, Tests!E, Passes, AllMet, Good, Tests!IsCall, Macros, TestSteps, Expectations

LEMMA OnePasses ==
  \A m \in Macros : \A a, b \in Int :
    /\ Tests!Met(Tests!E(m, a, b)) => Passing(Tests!One(m, a, b))
    /\ ~Tests!Met(Tests!E(m, a, b)) => Failing(Tests!One(m, a, b))
  BY OneExpectation DEF Passing, Failing

LEMMA JoinedPass ==
  ASSUME NEW t, NEW u, Passing(t), Passing(u)
  PROVE  Passing(t \o u)
  <1>1. /\ t \in Seq(TestSteps) /\ u \in Seq(TestSteps)
        /\ \A i \in 1 .. Len(t) : Good(t[i])
        /\ \A i \in 1 .. Len(u) : Good(u[i])
    BY DEF Passing, Passes
  <1>2. t \o u \in Seq(TestSteps) /\ Len(t \o u) = Len(t) + Len(u)
    BY <1>1
  <1>3. ASSUME NEW i \in 1 .. Len(t \o u) PROVE Good((t \o u)[i])
    <2>1. CASE i <= Len(t)
      BY <1>1, <1>2, <2>1
    <2>2. CASE i > Len(t)
      <3>1. (t \o u)[i] = u[i - Len(t)] /\ i - Len(t) \in 1 .. Len(u)
        BY <1>1, <1>2, <2>2
      <3> QED
        BY <1>1, <3>1
    <2> QED
      BY <1>1, <2>1, <2>2
  <1> QED
    BY <1>2, <1>3 DEF Passing, Passes

LEMMA SampleTests ==
  /\ AllMet(Tests!successful_test) /\ Tests!successful_test \in Seq(Expectations)
  /\ Passing(Tests!successful_test)
  /\ ~AllMet(Tests!failing_test) /\ Tests!failing_test \in Seq(Expectations)
  /\ Failing(Tests!failing_test)
  /\ Len(Tests!failing_test) = 1 /\ ~Tests!IsCall(Tests!failing_test[1])
  /\ ~Tests!Met(Tests!failing_test[1])
  <1>1. ~Tests!Met(Tests!E("EQUAL", 0, 1))
    BY MacrosCompare
  <1>2. "EQUAL" \in Macros
    BY DEF Macros
  <1>3. ~Tests!IsCall(Tests!E("EQUAL", 0, 1))
    BY DEF Tests!IsCall, Tests!E
  <1>4. /\ AllMet(Tests!successful_test) /\ Tests!successful_test \in Seq(Expectations)
        /\ Passing(Tests!successful_test)
    BY DEF Tests!successful_test, AllMet, Passing, Passes
  <1>5. /\ ~AllMet(Tests!failing_test) /\ Tests!failing_test \in Seq(Expectations)
        /\ Failing(Tests!failing_test)
        /\ Len(Tests!failing_test) = 1 /\ Tests!failing_test[1] = Tests!E("EQUAL", 0, 1)
    BY <1>1, <1>2, OneExpectation, OnePasses DEF Tests!failing_test
  <1> QED
    BY <1>1, <1>3, <1>4, <1>5

LEMMA OneCall ==
  ASSUME NEW m \in {"FAIL", "SUCCESS"}, NEW t \in {Tests!successful_test, Tests!failing_test}
  PROVE  /\ Tests!Calls(m, t) \in Seq(TestSteps)
         /\ Passes(Tests!Calls(m, t)) <=> (AllMet(t) <=> m = "SUCCESS")
  BY DEF Tests!Calls, Passes, Good, Tests!IsCall, TestSteps, TestCalls

LEMMA CallsPass ==
  /\ Failing(Tests!Calls("FAIL", Tests!successful_test))
  /\ Failing(Tests!Calls("SUCCESS", Tests!failing_test))
  /\ Passing(Tests!Calls("FAIL", Tests!failing_test))
  /\ Passing(Tests!Calls("SUCCESS", Tests!successful_test))
  BY OneCall, SampleTests DEF Passing, Failing

LEMMA SuiteLengths ==
  /\ Len(Tests!failure_tests) = 26 /\ DOMAIN Tests!failure_tests = 1 .. 26
  /\ Len(Tests!succeeding_tests) = 27 /\ DOMAIN Tests!succeeding_tests = 1 .. 27
  <1>1. Len(Tests!failure_tests) = 26 /\ DOMAIN Tests!failure_tests = 1 .. 26
    BY DEF Tests!failure_tests
  <1>2. Len(Tests!succeeding_tests) = 27 /\ DOMAIN Tests!succeeding_tests = 1 .. 27
    BY DEF Tests!succeeding_tests
  <1> QED
    BY <1>1, <1>2

(* Every test that must fail does, *)
LEMMA FailureTestsFail == \A i \in 1 .. 26 : Failing(Tests!failure_tests[i])
  <1>1. Failing(Tests!failure_tests[1]) /\ Failing(Tests!failure_tests[2])
    BY CallsPass DEF Tests!failure_tests
  <1>2. /\ Failing(Tests!failure_tests[3]) /\ Failing(Tests!failure_tests[4])
        /\ Failing(Tests!failure_tests[5]) /\ Failing(Tests!failure_tests[6])
        /\ Failing(Tests!failure_tests[7]) /\ Failing(Tests!failure_tests[8])
        /\ Failing(Tests!failure_tests[9]) /\ Failing(Tests!failure_tests[10])
        /\ Failing(Tests!failure_tests[11]) /\ Failing(Tests!failure_tests[12])
        /\ Failing(Tests!failure_tests[13]) /\ Failing(Tests!failure_tests[14])
        /\ Failing(Tests!failure_tests[15]) /\ Failing(Tests!failure_tests[16])
        /\ Failing(Tests!failure_tests[17]) /\ Failing(Tests!failure_tests[18])
        /\ Failing(Tests!failure_tests[19]) /\ Failing(Tests!failure_tests[20])
        /\ Failing(Tests!failure_tests[21]) /\ Failing(Tests!failure_tests[22])
        /\ Failing(Tests!failure_tests[23]) /\ Failing(Tests!failure_tests[24])
        /\ Failing(Tests!failure_tests[25]) /\ Failing(Tests!failure_tests[26])
    BY OnePasses, MacrosCompare, SMTT(60) DEF Tests!failure_tests, Macros, Tests!Dot, Tests!Empty
  <1> QED
    BY <1>1, <1>2

(* and every test that must pass. *)
LEMMA SucceedingTestsPass == \A i \in 1 .. 27 : Passing(Tests!succeeding_tests[i])
  <1>1. /\ Passing(Tests!succeeding_tests[1]) /\ Passing(Tests!succeeding_tests[2])
        /\ Passing(Tests!succeeding_tests[3])
    BY CallsPass, SampleTests DEF Tests!succeeding_tests
  <1>2. /\ Passing(Tests!succeeding_tests[4]) /\ Passing(Tests!succeeding_tests[5])
        /\ Passing(Tests!succeeding_tests[6]) /\ Passing(Tests!succeeding_tests[7])
        /\ Passing(Tests!succeeding_tests[8]) /\ Passing(Tests!succeeding_tests[9])
        /\ Passing(Tests!succeeding_tests[10]) /\ Passing(Tests!succeeding_tests[11])
        /\ Passing(Tests!succeeding_tests[12]) /\ Passing(Tests!succeeding_tests[13])
        /\ Passing(Tests!succeeding_tests[14]) /\ Passing(Tests!succeeding_tests[15])
        /\ Passing(Tests!succeeding_tests[16]) /\ Passing(Tests!succeeding_tests[17])
        /\ Passing(Tests!succeeding_tests[18]) /\ Passing(Tests!succeeding_tests[19])
        /\ Passing(Tests!succeeding_tests[20]) /\ Passing(Tests!succeeding_tests[21])
    BY OnePasses, MacrosCompare, SMTT(60) DEF Tests!succeeding_tests, Macros, Tests!Dot, Tests!Empty
  <1>3. /\ Passing(Tests!succeeding_tests[22]) /\ Passing(Tests!succeeding_tests[23])
        /\ Passing(Tests!succeeding_tests[24]) /\ Passing(Tests!succeeding_tests[25])
    BY OnePasses, JoinedPass, MacrosCompare, SMTT(60) DEF Tests!succeeding_tests, Macros
  <1>4. /\ Passing(Tests!succeeding_tests[26]) /\ Passing(Tests!succeeding_tests[27])
    BY OnePasses, MacrosCompare, SMTT(60) DEF Tests!succeeding_tests, Macros
  <1> QED
    BY <1>1, <1>2, <1>3, <1>4

SuiteEntries == [macro : {"TEST", "FAIL_TEST"}, test : Seq(TestSteps)]

RightSuite(q) ==
  /\ q \in Seq(SuiteEntries)
  /\ \A i \in 1 .. Len(q) : Passes(q[i].test) <=> q[i].macro = "TEST"

LEMMA EntriesRight ==
  ASSUME NEW n \in Nat, NEW t, NEW m \in {"TEST", "FAIL_TEST"},
         \A i \in 1 .. n : t[i] \in Seq(TestSteps) /\ (Passes(t[i]) <=> m = "TEST"),
         NEW q, q = [i \in 1 .. n |-> [macro |-> m, test |-> t[i]]]
  PROVE  RightSuite(q) /\ Len(q) = n
  <1>1. \A i \in 1 .. n : [macro |-> m, test |-> t[i]] \in SuiteEntries
    BY DEF SuiteEntries
  <1>2. q \in Seq(SuiteEntries) /\ Len(q) = n
    BY <1>1
  <1>3. \A i \in 1 .. n : q[i].test = t[i] /\ q[i].macro = m
    OBVIOUS
  <1> QED
    BY <1>2, <1>3 DEF RightSuite

LEMMA JoinedRight ==
  ASSUME NEW q, NEW r, RightSuite(q), RightSuite(r)
  PROVE  RightSuite(q \o r) /\ Len(q \o r) = Len(q) + Len(r)
  <1>1. q \in Seq(SuiteEntries) /\ r \in Seq(SuiteEntries)
    BY DEF RightSuite
  <1>2. q \o r \in Seq(SuiteEntries) /\ Len(q \o r) = Len(q) + Len(r)
    BY <1>1
  <1>3. ASSUME NEW i \in 1 .. Len(q \o r)
        PROVE  Passes((q \o r)[i].test) <=> (q \o r)[i].macro = "TEST"
    <2>1. CASE i <= Len(q)
      <3>1. (q \o r)[i] = q[i] /\ i \in 1 .. Len(q)
        BY <1>1, <1>2, <2>1
      <3> QED
        BY <3>1 DEF RightSuite
    <2>2. CASE i > Len(q)
      <3>1. (q \o r)[i] = r[i - Len(q)] /\ i - Len(q) \in 1 .. Len(r)
        BY <1>1, <1>2, <2>2
      <3> QED
        BY <3>1 DEF RightSuite
    <2> QED
      BY <1>1, <2>1, <2>2
  <1> QED
    BY <1>2, <1>3 DEF RightSuite

LEMMA SuiteAsExpected == RightSuite(Tests!Suite) /\ Len(Tests!Suite) = 26 + 27
  <1> DEFINE must == [i \in 1 .. 26 |-> [macro |-> "FAIL_TEST", test |-> Tests!failure_tests[i]]]
             may == [i \in 1 .. 27 |-> [macro |-> "TEST", test |-> Tests!succeeding_tests[i]]]
  <1>1. Tests!Suite = must \o may
    BY SuiteLengths DEF Tests!Suite
  <1>2. \A i \in 1 .. 26 : /\ Tests!failure_tests[i] \in Seq(TestSteps)
                           /\ Passes(Tests!failure_tests[i]) <=> "FAIL_TEST" = "TEST"
    BY FailureTestsFail DEF Failing
  <1>3. RightSuite(must) /\ Len(must) = 26
    BY <1>2, EntriesRight
  <1>4. \A i \in 1 .. 27 : /\ Tests!succeeding_tests[i] \in Seq(TestSteps)
                           /\ Passes(Tests!succeeding_tests[i]) <=> "TEST" = "TEST"
    BY SucceedingTestsPass DEF Passing
  <1>5. RightSuite(may) /\ Len(may) = 27
    BY <1>4, EntriesRight
  <1> HIDE DEF must, may
  <1> QED
    BY <1>1, <1>3, <1>5, JoinedRight

(* The first expectation decided, the others are what is left. *)
LEMMA FirstOfSteps ==
  ASSUME NEW t \in Seq(TestSteps), t # <<>>
  PROVE  /\ Head(t) \in TestSteps /\ Tail(t) \in Seq(TestSteps)
         /\ Passes(t) <=> Good(Head(t)) /\ Passes(Tail(t))
  <1>1. /\ Head(t) \in TestSteps /\ Tail(t) \in Seq(TestSteps) /\ Head(t) = t[1]
        /\ Len(t) \in Nat \ {0} /\ Len(Tail(t)) = Len(t) - 1
        /\ \A i \in 1 .. Len(t) - 1 : Tail(t)[i] = t[i + 1]
    OBVIOUS
  <1>2. ASSUME Good(t[1]), Passes(Tail(t)), NEW i \in 1 .. Len(t) PROVE Good(t[i])
    <2>1. CASE i = 1
      BY <1>2, <2>1
    <2>2. CASE i # 1
      <3>1. i - 1 \in 1 .. Len(t) - 1 /\ Tail(t)[i - 1] = t[i]
        BY <1>1, <2>2
      <3> QED
        BY <1>1, <1>2, <3>1 DEF Passes
    <2> QED
      BY <2>1, <2>2
  <1>3. ASSUME Passes(t), NEW i \in 1 .. Len(t) - 1 PROVE Good(Tail(t)[i])
    <2>1. i + 1 \in 1 .. Len(t)
      BY <1>1
    <2> QED
      BY <1>1, <1>3, <2>1 DEF Passes
  <1>4. Passes(t) => Good(t[1])
    BY <1>1 DEF Passes
  <1> QED
    BY <1>1, <1>2, <1>3, <1>4 DEF Passes

LEMMA FirstOfExpectations ==
  ASSUME NEW t \in Seq(Expectations), t # <<>>
  PROVE  /\ Head(t) \in Expectations /\ Tail(t) \in Seq(Expectations)
         /\ AllMet(t) <=> Tests!Met(Head(t)) /\ AllMet(Tail(t))
  <1>1. /\ Head(t) \in Expectations /\ Tail(t) \in Seq(Expectations) /\ Head(t) = t[1]
        /\ Len(t) \in Nat \ {0} /\ Len(Tail(t)) = Len(t) - 1
        /\ \A i \in 1 .. Len(t) - 1 : Tail(t)[i] = t[i + 1]
    OBVIOUS
  <1>2. ASSUME Tests!Met(t[1]), AllMet(Tail(t)), NEW i \in 1 .. Len(t) PROVE Tests!Met(t[i])
    <2>1. CASE i = 1
      BY <1>2, <2>1
    <2>2. CASE i # 1
      <3>1. i - 1 \in 1 .. Len(t) - 1 /\ Tail(t)[i - 1] = t[i]
        BY <1>1, <2>2
      <3> QED
        BY <1>1, <1>2, <3>1 DEF AllMet
    <2> QED
      BY <2>1, <2>2
  <1>3. ASSUME AllMet(t), NEW i \in 1 .. Len(t) - 1 PROVE Tests!Met(Tail(t)[i])
    <2>1. i + 1 \in 1 .. Len(t)
      BY <1>1
    <2> QED
      BY <1>1, <1>3, <2>1 DEF AllMet
  <1>4. AllMet(t) => Tests!Met(t[1])
    BY <1>1 DEF AllMet
  <1> QED
    BY <1>1, <1>2, <1>3, <1>4 DEF AllMet

LEMMA NoneLeft == Passes(<<>>) /\ AllMet(<<>>)
  BY DEF Passes, AllMet

LEMMA StepKinds ==
  /\ \A e \in Expectations : ~Tests!IsCall(e)
  /\ \A e \in TestSteps : Tests!IsCall(e) => e \in TestCalls
  BY DEF Expectations, Macros, Tests!IsCall, TestSteps, TestCalls

(* What is registered, the framework's own tests first. *)
Own == Len(Tests!Suite)
Registered(i) == IF i <= Own THEN Tests!Suite[i]
                 ELSE [macro |-> "TEST", test |-> Tests!failing_test]
Started == Own + extra - Len(pending)

LEMMA OwnTests ==
  /\ Own \in Nat
  /\ \A i \in Nat \ {0} : Registered(i) \in SuiteEntries
  /\ \A i \in 1 .. Own : Passes(Registered(i).test) <=> Registered(i).macro = "TEST"
  <1>0. /\ Tests!Suite \in Seq(SuiteEntries)
        /\ \A i \in 1 .. Own : Passes(Tests!Suite[i].test) <=> Tests!Suite[i].macro = "TEST"
    BY SuiteAsExpected DEF RightSuite, Own
  <1>1. Own \in Nat /\ \A i \in 1 .. Own : Tests!Suite[i] \in SuiteEntries
    BY <1>0 DEF Own
  <1>2. [macro |-> "TEST", test |-> Tests!failing_test] \in SuiteEntries
    BY SampleTests DEF SuiteEntries, Failing
  <1>3. ASSUME NEW i \in Nat \ {0} PROVE Registered(i) \in SuiteEntries
    BY <1>1, <1>2 DEF Registered
  <1>4. ASSUME NEW i \in 1 .. Own
        PROVE  Passes(Registered(i).test) <=> Registered(i).macro = "TEST"
    BY <1>0, <1>1 DEF Registered
  <1> QED
    BY <1>1, <1>3, <1>4

(* A test that runs, and one it calls. *)
Outer == [macro : {"TEST", "FAIL_TEST"}, left : Seq(TestSteps), prev : {TRUE}]
Inner == [macro : {"FAIL", "SUCCESS"}, left : Seq(Expectations), prev : BOOLEAN]

(* One of the framework's own is to end as it must, from what is left of it;  *)
(* one registered besides has not begun with its one expectation.             *)
OuterRuns(f) ==
  /\ Started <= Own => (Passes(f.left) <=> f.macro = "TEST")
  /\ Started > Own => f.macro = "TEST" /\ f.left = Tests!failing_test
  /\ test_logging = (f.macro = "TEST")

InnerRuns(g, f) ==
  /\ Started <= Own
  /\ (AllMet(g.left) <=> g.macro = "SUCCESS") /\ Passes(f.left) <=> f.macro = "TEST"
  /\ g.prev = (f.macro = "TEST")
  /\ test_logging = (g.macro = "SUCCESS" /\ f.macro = "TEST")

Running ==
  \/ \E f \in Outer : frames = <<f>> /\ OuterRuns(f)
  \/ \E g \in Inner, f \in Outer : frames = <<g, f>> /\ InnerRuns(g, f)

Counted(done) ==
  /\ successful_tests = IF done <= Own THEN done ELSE Own
  /\ failed_tests = IF done <= Own THEN 0 ELSE done - Own
  /\ logged = failed_tests

PendingInv ==
  /\ extra \in Nat /\ pending \in Seq(SuiteEntries) /\ Len(pending) <= Own + extra
  /\ \A i \in 1 .. Len(pending) : pending[i] = Registered(Started + i)

TestsInv ==
  /\ PendingInv
  /\ \/ frames = <<>> /\ test_logging = TRUE /\ Counted(Started)
     \/ Running /\ Started > 0 /\ Counted(Started - 1)
  /\ status = -1 \/ (status \in 0 .. 255 /\ pending = <<>> /\ frames = <<>>)

LEMMA TestsBegin == Tests!Init => TestsInv
  <1> SUFFICES ASSUME Tests!Init PROVE TestsInv
    OBVIOUS
  <1>1. /\ pending = Tests!Suite /\ frames = <<>> /\ test_logging = TRUE /\ extra = 0
        /\ successful_tests = 0 /\ failed_tests = 0 /\ logged = 0 /\ status = -1
    BY DEF Tests!Init
  <1>2. Own \in Nat /\ Started = 0 /\ Len(pending) = Own
    BY <1>1, OwnTests DEF Started, Own
  <1>3. pending \in Seq(SuiteEntries) /\ extra \in Nat
    BY <1>1, SuiteAsExpected DEF RightSuite
  <1>4. \A i \in 1 .. Len(pending) : pending[i] = Registered(i)
    BY <1>1, <1>2 DEF Registered
  <1>5. \A i \in 1 .. Len(pending) : Started + i = i
    BY <1>2
  <1>6. PendingInv
    BY <1>1, <1>2, <1>3, <1>4, <1>5 DEF PendingInv
  <1>7. Counted(Started)
    BY <1>1, <1>2 DEF Counted
  <1> QED
    BY <1>1, <1>6, <1>7 DEF TestsInv

LEMMA StartedFacts ==
  ASSUME PendingInv
  PROVE  /\ Own \in Nat /\ extra \in Nat /\ Len(pending) \in Nat /\ Started \in Nat
         /\ Started <= Own + extra /\ pending \in Seq(SuiteEntries)
  BY OwnTests DEF PendingInv, Started

(* While no test is taken, what is pending stays what it is. *)
LEMMA PendingSame ==
  ASSUME PendingInv, UNCHANGED <<pending, extra>>
  PROVE  PendingInv' /\ Started' = Started /\ Own' = Own
  <1>1. Own' = Own /\ Started' = Started
    BY DEF Own, Started, Tests!Suite
  <1>2. \A i \in 1 .. Len(pending) : Registered(Started + i)' = Registered(Started + i)
    BY <1>1 DEF Registered
  <1> QED
    BY <1>1, <1>2 DEF PendingInv

LEMMA TestStarts ==
  ASSUME TestsInv, Tests!Start
  PROVE  TestsInv'
  <1> DEFINE e == Head(pending)
  <1>1. /\ frames = <<>> /\ pending # <<>> /\ frames' = <<Tests!Frame(e.macro, e.test)>>
        /\ test_logging' = Tests!LoggingIn(e.macro) /\ pending' = Tail(pending)
        /\ UNCHANGED <<successful_tests, failed_tests, logged, extra, status>>
    BY DEF Tests!Start
  <1>2. PendingInv /\ test_logging = TRUE /\ Counted(Started)
    BY <1>1 DEF TestsInv, Running
  <1>3. /\ Own \in Nat /\ extra \in Nat /\ Len(pending) \in Nat /\ Started \in Nat
        /\ pending \in Seq(SuiteEntries) /\ Len(pending) <= Own + extra
    BY <1>2, StartedFacts DEF PendingInv
  <1>4. /\ Len(pending) > 0 /\ e \in SuiteEntries /\ e = pending[1]
        /\ pending' \in Seq(SuiteEntries) /\ Len(pending') = Len(pending) - 1
        /\ \A i \in 1 .. Len(pending) - 1 : pending'[i] = pending[i + 1]
    BY <1>1, <1>3
  <1>5. Own' = Own /\ Started' = Started + 1 /\ extra' = extra
    BY <1>1, <1>3, <1>4 DEF Started, Own
  <1>6. PendingInv'
    <2>1. \A i \in 1 .. Len(pending') : pending'[i] = Registered(Started + (i + 1))
      BY <1>2, <1>3, <1>4 DEF PendingInv
    <2>2. \A i \in 1 .. Len(pending') : Started' + i = Started + (i + 1)
      BY <1>3, <1>4, <1>5
    <2>3. \A i \in 1 .. Len(pending') : pending'[i] = Registered(Started' + i)
      BY <2>1, <2>2
    <2>4. \A i : Registered(i)' = Registered(i)
      BY <1>5 DEF Registered
    <2>5. Len(pending') <= Own' + extra'
      BY <1>3, <1>4, <1>5
    <2> QED
      BY <1>3, <1>4, <1>5, <2>3, <2>4, <2>5 DEF PendingInv
  <1>7. e = Registered(Started + 1)
    BY <1>2, <1>3, <1>4 DEF PendingInv
  <1>8. PICK f \in Outer : /\ f.macro = e.macro /\ f.left = e.test
                           /\ frames' = <<f>> /\ test_logging' = (f.macro = "TEST")
    <2>1. /\ Tests!Frame(e.macro, e.test) = [macro |-> e.macro, left |-> e.test, prev |-> TRUE]
          /\ test_logging' = (e.macro = "TEST")
      BY <1>1, <1>2, <1>4 DEF Tests!Frame, Tests!LoggingIn, SuiteEntries
    <2>2. [macro |-> e.macro, left |-> e.test, prev |-> TRUE] \in Outer
      BY <1>4 DEF Outer, SuiteEntries
    <2> HIDE DEF e
    <2> QED
      BY <1>1, <2>1, <2>2
  <1>9. Started' <= Own' => (Passes(f.left) <=> f.macro = "TEST")
    BY <1>3, <1>5, <1>7, <1>8, OwnTests
  <1>10. Started' > Own' => f.macro = "TEST" /\ f.left = Tests!failing_test
    BY <1>3, <1>5, <1>7, <1>8 DEF Registered
  <1>11. OuterRuns(f)'
    BY <1>8, <1>9, <1>10 DEF OuterRuns
  <1>12. Running' /\ Started' > 0
    BY <1>3, <1>5, <1>8, <1>11 DEF Running
  <1>13. Started' - 1 = Started
    BY <1>3, <1>5
  <1>14. Counted(Started - 1)'
    BY <1>1, <1>2, <1>5, <1>13 DEF Counted
  <1>15. status' = -1
    BY <1>1 DEF TestsInv
  <1> QED
    BY <1>6, <1>12, <1>14, <1>15 DEF TestsInv

LEMMA SmallStacks ==
  /\ \A f : Head(<<f>>) = f /\ Tail(<<f>>) = <<>> /\ <<f>> # <<>>
  /\ \A g, f : Head(<<g, f>>) = g /\ Tail(<<g, f>>) = <<f>> /\ <<g, f>> # <<>>
  /\ \A f : <<f>> \o <<>> = <<f>>
  /\ \A g, f : <<g>> \o <<f>> = <<g, f>>
  /\ \A g, f : <<g, f>> \o <<>> = <<g, f>>
  <1>1. ASSUME NEW f
        PROVE  Head(<<f>>) = f /\ Tail(<<f>>) = <<>> /\ <<f>> # <<>>
    OBVIOUS
  <1>2. ASSUME NEW g, NEW f
        PROVE  Head(<<g, f>>) = g /\ Tail(<<g, f>>) = <<f>> /\ <<g, f>> # <<>>
    OBVIOUS
  <1>3. ASSUME NEW f PROVE <<f>> \o <<>> = <<f>>
    <2>1. <<f>> \in Seq({f}) /\ <<>> \in Seq({f})
      OBVIOUS
    <2> QED
      BY <2>1
  <1>4. ASSUME NEW g, NEW f PROVE <<g>> \o <<f>> = <<g, f>>
    <2>1. /\ <<g>> \in Seq({g, f}) /\ Len(<<g>>) = 1 /\ <<g>>[1] = g
          /\ <<f>> \in Seq({g, f}) /\ Len(<<f>>) = 1 /\ <<f>>[1] = f
          /\ <<g, f>> \in Seq({g, f}) /\ Len(<<g, f>>) = 2
          /\ <<g, f>>[1] = g /\ <<g, f>>[2] = f
      OBVIOUS
    <2> DEFINE both == <<g>> \o <<f>>
    <2>2. both \in Seq({g, f}) /\ Len(both) = 2 /\ both[1] = g /\ both[2] = f
      BY <2>1
    <2> HIDE DEF both
    <2>3. ASSUME NEW q \in Seq({g, f}), Len(q) = 2, q[1] = g, q[2] = f
          PROVE  q = <<g, f>>
      BY <2>3
    <2> QED
      BY <2>2, <2>3 DEF both
  <1>5. ASSUME NEW g, NEW f PROVE <<g, f>> \o <<>> = <<g, f>>
    <2>1. <<g, f>> \in Seq({g, f}) /\ <<>> \in Seq({g, f})
      OBVIOUS
    <2> QED
      BY <2>1
  <1> QED
    BY <1>1, <1>2, <1>3, <1>4, <1>5

(* The test the framework called ends: as it must if it is one of its own,    *)
(* and otherwise with a failure, reported.                                    *)
LEMMA OuterReturns ==
  ASSUME TestsInv, NEW f \in Outer, frames = <<f>>, OuterRuns(f), NEW result \in {0, 1},
         Tests!Return(result), Started > 0, Counted(Started - 1),
         result = 0 <=> Passes(f.left),
         logged' = IF result = 1 THEN Tests!Report(test_logging) ELSE logged
  PROVE  TestsInv'
  <1>1. /\ test_logging' = Tests!Restored(f) /\ frames' = <<>>
        /\ successful_tests' = successful_tests + (IF Tests!Fulfils(f, result) THEN 1 ELSE 0)
        /\ failed_tests' = failed_tests + (IF Tests!Fulfils(f, result) THEN 0 ELSE 1)
        /\ UNCHANGED <<pending, extra, status>>
    BY SmallStacks DEF Tests!Return
  <1>2. PendingInv /\ Started' = Started /\ Own' = Own /\ PendingInv'
    BY <1>1, PendingSame DEF TestsInv
  <1>3. Own \in Nat /\ Started \in Nat
    BY <1>2, StartedFacts
  <1>4. f.macro \in {"TEST", "FAIL_TEST"} /\ f.prev = TRUE
    BY DEF Outer
  <1>5. test_logging' = TRUE
    BY <1>1, <1>4 DEF Tests!Restored, OuterRuns
  <1>6. ASSUME Started <= Own PROVE (Counted(Started))'
    <2>1. Tests!Fulfils(f, result)
      BY <1>4, <1>6 DEF OuterRuns, Tests!Fulfils
    <2>2. logged' = logged
      <3>1. result = 1 => f.macro # "TEST"
        BY <1>6 DEF OuterRuns
      <3>2. result = 1 => test_logging = FALSE
        BY <3>1 DEF OuterRuns
      <3> QED
        BY <3>2 DEF Tests!Report
    <2>3. successful_tests' = successful_tests + 1 /\ failed_tests' = failed_tests + 0
      BY <1>1, <2>1
    <2>4. successful_tests = Started - 1 /\ failed_tests = 0 /\ logged = failed_tests
      BY <1>3, <1>6 DEF Counted
    <2> QED
      BY <1>2, <1>3, <1>6, <2>2, <2>3, <2>4 DEF Counted
  <1>7. ASSUME Started > Own PROVE (Counted(Started))'
    <2>1. result = 1 /\ f.macro = "TEST" /\ test_logging = TRUE
      BY <1>7, SampleTests DEF OuterRuns, Failing
    <2>2. ~Tests!Fulfils(f, result)
      BY <2>1 DEF Tests!Fulfils
    <2>3. logged' = logged + 1
      BY <2>1 DEF Tests!Report
    <2>4. successful_tests' = successful_tests + 0 /\ failed_tests' = failed_tests + 1
      BY <1>1, <2>2
    <2>5. /\ successful_tests = Own /\ failed_tests = Started - 1 - Own
          /\ logged = failed_tests
      BY <1>3, <1>7 DEF Counted
    <2> QED
      BY <1>2, <1>3, <1>7, <2>3, <2>4, <2>5 DEF Counted
  <1>8. (Counted(Started))'
    BY <1>3, <1>6, <1>7
  <1>9. status' = -1
    BY <1>1, SmallStacks DEF TestsInv
  <1> QED
    BY <1>1, <1>2, <1>5, <1>8, <1>9 DEF TestsInv

(* A test inside another ends: the one around it goes on, or fails in turn.   *)
LEMMA InnerReturns ==
  ASSUME TestsInv, NEW g \in Inner, NEW f \in Outer, frames = <<g, f>>, InnerRuns(g, f),
         NEW result \in {0, 1}, Tests!Return(result), Started > 0, Counted(Started - 1),
         result = 0 <=> AllMet(g.left),
         logged' = IF result = 1 THEN Tests!Report(test_logging) ELSE logged
  PROVE  TestsInv'
  <1> DEFINE failed == [f EXCEPT !.left = Tests!failing_test]
             on == IF Tests!Fulfils(g, result) THEN f ELSE failed
  <1>1. /\ test_logging' = Tests!Restored(g)
        /\ frames' = IF Tests!Fulfils(g, result) THEN <<f>> ELSE <<failed>> \o <<>>
        /\ UNCHANGED <<successful_tests, failed_tests, pending, extra, status>>
    BY SmallStacks DEF Tests!Return
  <1>2. PendingInv /\ Started' = Started /\ Own' = Own /\ PendingInv'
    BY <1>1, PendingSame DEF TestsInv
  <1>3. /\ g.macro \in {"FAIL", "SUCCESS"} /\ f.macro \in {"TEST", "FAIL_TEST"}
        /\ g.prev = (f.macro = "TEST")
    BY DEF Inner, Outer, InnerRuns
  <1>4. test_logging' = (f.macro = "TEST")
    BY <1>1, <1>3 DEF Tests!Restored, InnerRuns
  <1>5. Tests!Fulfils(g, result) <=> (AllMet(g.left) <=> g.macro = "SUCCESS")
    BY <1>3 DEF Tests!Fulfils
  <1>6. failed \in Outer /\ failed.macro = f.macro /\ failed.left = Tests!failing_test
    BY SampleTests DEF Outer, Failing
  <1>7. on \in Outer /\ on.macro = f.macro /\ (Passes(on.left) <=> f.macro = "TEST")
    BY <1>5, <1>6, SampleTests DEF InnerRuns, Failing
  <1>8. frames' = <<on>>
    BY <1>1, SmallStacks
  <1>9. logged' = logged
    <2>1. result = 1 => ~(g.macro = "SUCCESS" /\ f.macro = "TEST")
      BY <1>3 DEF InnerRuns
    <2>2. result = 1 => test_logging = FALSE
      BY <2>1 DEF InnerRuns
    <2> QED
      BY <2>2 DEF Tests!Report
  <1>10. PICK h \in Outer : frames' = <<h>> /\ h.macro = f.macro
                            /\ (Passes(h.left) <=> f.macro = "TEST")
    BY <1>7, <1>8
  <1>11. Started' <= Own' /\ ~(Started' > Own')
    BY <1>2, StartedFacts DEF InnerRuns
  <1>12. OuterRuns(h)'
    BY <1>4, <1>10, <1>11 DEF OuterRuns
  <1>13. Running'
    BY <1>10, <1>12 DEF Running
  <1>14. (Counted(Started - 1))'
    BY <1>1, <1>2, <1>9 DEF Counted
  <1>15. status' = -1
    BY <1>1, SmallStacks DEF TestsInv
  <1> QED
    BY <1>2, <1>13, <1>14, <1>15 DEF TestsInv

(* A step within a running test that counts nothing. *)
LEMMA RunsOn ==
  ASSUME TestsInv, frames # <<>>, Running',
         UNCHANGED <<pending, successful_tests, failed_tests, logged, extra, status>>
  PROVE  TestsInv'
  <1>1. PendingInv /\ Started' = Started /\ Own' = Own /\ PendingInv'
    BY PendingSame DEF TestsInv
  <1>2. Started > 0 /\ Counted(Started - 1) /\ status = -1
    BY DEF TestsInv
  <1>3. (Counted(Started - 1))'
    BY <1>1, <1>2 DEF Counted
  <1> QED
    BY <1>1, <1>2, <1>3 DEF TestsInv

LEMMA TestEnds ==
  ASSUME TestsInv, Tests!Finish
  PROVE  TestsInv'
  <1>1. frames # <<>> /\ Running /\ Started > 0 /\ Counted(Started - 1)
    BY DEF Tests!Finish, TestsInv
  <1>2. ASSUME NEW f \in Outer, frames = <<f>>, OuterRuns(f) PROVE TestsInv'
    <2>1. f.left = <<>> /\ Tests!Return(0) /\ logged' = logged
      BY <1>2, SmallStacks DEF Tests!Finish
    <2>2. Passes(f.left)
      BY <2>1, NoneLeft
    <2> QED
      BY <1>1, <1>2, <2>1, <2>2, OuterReturns
  <1>3. ASSUME NEW g \in Inner, NEW f \in Outer, frames = <<g, f>>, InnerRuns(g, f)
        PROVE  TestsInv'
    <2>1. g.left = <<>> /\ Tests!Return(0) /\ logged' = logged
      BY <1>3, SmallStacks DEF Tests!Finish
    <2>2. AllMet(g.left)
      BY <2>1, NoneLeft
    <2> QED
      BY <1>1, <1>3, <2>1, <2>2, InnerReturns
  <1> QED
    BY <1>1, <1>2, <1>3 DEF Running

(* The next expectation of a test the framework called. *)
LEMMA OuterExpects ==
  ASSUME TestsInv, Tests!Expect, NEW f \in Outer, frames = <<f>>, OuterRuns(f)
  PROVE  TestsInv'
  <1> DEFINE e == Head(f.left)
             rest == [f EXCEPT !.left = Tail(f.left)]
  <1>1. /\ f.left \in Seq(TestSteps) /\ f.left # <<>>
        /\ Head(frames) = f /\ Tail(frames) = <<>> /\ frames # <<>>
    BY SmallStacks DEF Tests!Expect, Outer
  <1>2. /\ e \in TestSteps /\ Tail(f.left) \in Seq(TestSteps)
        /\ Passes(f.left) <=> Good(e) /\ Passes(Tail(f.left))
    BY <1>1, FirstOfSteps
  <1>3. /\ rest \in Outer /\ rest.macro = f.macro /\ rest.left = Tail(f.left)
    BY <1>2 DEF Outer
  <1>4. PendingInv /\ Started > 0 /\ Counted(Started - 1) /\ Own \in Nat /\ Started \in Nat
    BY <1>1, StartedFacts DEF TestsInv
  <1>5. (Tests!IsCall(e) \/ Tests!Met(e)) => Started <= Own
    BY <1>1, <1>4, SampleTests DEF OuterRuns
  <1>6. ASSUME ~Tests!IsCall(e), ~Tests!Met(e), Tests!Return(1),
               logged' = Tests!Report(test_logging)
        PROVE  TestsInv'
    <2>1. ~Passes(f.left)
      BY <1>2, <1>6 DEF Good
    <2> QED
      BY <1>4, <1>6, <2>1, OuterReturns
  <1>7. ASSUME ~Tests!IsCall(e), Tests!Met(e), frames' = <<rest>> \o <<>>,
               UNCHANGED <<pending, test_logging, successful_tests, failed_tests, logged,
                           extra, status>>
        PROVE  TestsInv'
    <2>1. Started' = Started /\ Own' = Own
      BY <1>4, <1>7, PendingSame
    <2>2. PICK h \in Outer : /\ frames' = <<h>> /\ h.macro = f.macro
                             /\ h.left = Tail(f.left)
      BY <1>3, <1>7, SmallStacks
    <2>3. Passes(h.left) <=> f.macro = "TEST"
      BY <1>2, <1>5, <1>7, <2>2 DEF OuterRuns, Good
    <2>4. Started' <= Own' /\ ~(Started' > Own')
      BY <1>4, <1>5, <1>7, <2>1
    <2>5. test_logging' = (h.macro = "TEST")
      BY <1>7, <2>2 DEF OuterRuns
    <2>6. OuterRuns(h)'
      BY <2>2, <2>3, <2>4, <2>5 DEF OuterRuns
    <2>7. Running'
      BY <2>2, <2>6 DEF Running
    <2> QED
      BY <1>1, <1>7, <2>7, RunsOn
  <1>8. ASSUME Tests!IsCall(e), frames' = <<Tests!Frame(e.macro, e.test), rest>> \o <<>>,
               test_logging' = Tests!LoggingIn(e.macro),
               UNCHANGED <<pending, successful_tests, failed_tests, logged, extra, status>>
        PROVE  TestsInv'
    <2>1. Started' = Started /\ Own' = Own
      BY <1>4, <1>8, PendingSame
    <2>2. e.macro \in {"FAIL", "SUCCESS"} /\ e.test \in Seq(Expectations)
      BY <1>2, <1>8, StepKinds, SampleTests DEF TestCalls
    <2>3. Good(e) <=> (AllMet(e.test) <=> e.macro = "SUCCESS")
      BY <1>8 DEF Good
    <2> DEFINE inner == [macro |-> e.macro, left |-> e.test, prev |-> test_logging]
    <2>4. /\ Tests!Frame(e.macro, e.test) = inner
          /\ inner.macro = e.macro /\ inner.left = e.test /\ inner.prev = test_logging
      BY DEF Tests!Frame
    <2>5. test_logging \in BOOLEAN /\ test_logging = (f.macro = "TEST")
      BY DEF OuterRuns
    <2>6. inner \in Inner
      BY <2>2, <2>5 DEF Inner
    <2>7. frames' = <<inner, rest>>
      BY <1>8, <2>4, SmallStacks
    <2> HIDE DEF inner, rest, e
    <2>8. PICK g \in Inner, h \in Outer :
            /\ frames' = <<g, h>> /\ h.macro = f.macro /\ h.left = Tail(f.left)
            /\ g.macro = e.macro /\ g.left = e.test /\ g.prev = test_logging
      BY <1>3, <2>4, <2>6, <2>7
    <2>9. (AllMet(g.left) <=> g.macro = "SUCCESS") /\ Passes(h.left) <=> h.macro = "TEST"
      <3>1. Passes(f.left) <=> f.macro = "TEST"
        BY <1>5, <1>8 DEF OuterRuns
      <3>2. Good(e) /\ Passes(h.left) <=> h.macro = "TEST"
        BY <1>2, <2>8, <3>1
      <3> QED
        BY <2>3, <2>8, <3>2
    <2>10. g.prev = (h.macro = "TEST")
      BY <2>5, <2>8
    <2>11. test_logging' = (g.macro = "SUCCESS" /\ h.macro = "TEST")
      <3>1. CASE e.macro = "FAIL"
        BY <1>8, <2>8, <3>1 DEF Tests!LoggingIn
      <3>2. CASE e.macro = "SUCCESS"
        <4>1. test_logging' = test_logging
          BY <1>8, <3>2 DEF Tests!LoggingIn
        <4> QED
          BY <2>5, <2>8, <3>2, <4>1
      <3> QED
        BY <2>2, <3>1, <3>2
    <2>12. Started' <= Own'
      BY <1>5, <1>8, <2>1
    <2>13. InnerRuns(g, h)'
      BY <2>9, <2>10, <2>11, <2>12 DEF InnerRuns
    <2>14. Running'
      BY <2>8, <2>13 DEF Running
    <2> QED
      BY <1>1, <1>8, <2>14, RunsOn
  <1>9. \/ /\ Tests!IsCall(e) /\ frames' = <<Tests!Frame(e.macro, e.test), rest>> \o <<>>
           /\ test_logging' = Tests!LoggingIn(e.macro)
           /\ UNCHANGED <<pending, successful_tests, failed_tests, logged, extra, status>>
        \/ /\ ~Tests!IsCall(e) /\ Tests!Met(e) /\ frames' = <<rest>> \o <<>>
           /\ UNCHANGED <<pending, test_logging, successful_tests, failed_tests, logged,
                          extra, status>>
        \/ /\ ~Tests!IsCall(e) /\ ~Tests!Met(e) /\ Tests!Return(1)
           /\ logged' = Tests!Report(test_logging)
    BY <1>1 DEF Tests!Expect
  <1> QED
    BY <1>6, <1>7, <1>8, <1>9

(* The next expectation of a test inside another; it calls none. *)
LEMMA InnerExpects ==
  ASSUME TestsInv, Tests!Expect, NEW g \in Inner, NEW f \in Outer, frames = <<g, f>>,
         InnerRuns(g, f)
  PROVE  TestsInv'
  <1> DEFINE e == Head(g.left)
             rest == [g EXCEPT !.left = Tail(g.left)]
  <1>1. /\ g.left \in Seq(Expectations) /\ g.left # <<>>
        /\ Head(frames) = g /\ Tail(frames) = <<f>> /\ frames # <<>>
    BY SmallStacks DEF Tests!Expect, Inner
  <1>2. /\ e \in Expectations /\ Tail(g.left) \in Seq(Expectations)
        /\ AllMet(g.left) <=> Tests!Met(e) /\ AllMet(Tail(g.left))
    BY <1>1, FirstOfExpectations
  <1>3. /\ rest \in Inner /\ rest.macro = g.macro /\ rest.left = Tail(g.left)
        /\ rest.prev = g.prev
    BY <1>2 DEF Inner
  <1>4. PendingInv /\ Started > 0 /\ Counted(Started - 1)
    BY <1>1 DEF TestsInv
  <1>5. \/ /\ Tests!Met(e) /\ frames' = <<rest>> \o <<f>>
           /\ UNCHANGED <<pending, test_logging, successful_tests, failed_tests, logged,
                          extra, status>>
        \/ /\ ~Tests!Met(e) /\ Tests!Return(1) /\ logged' = Tests!Report(test_logging)
    BY <1>1, <1>2, StepKinds DEF Tests!Expect
  <1>6. ASSUME ~Tests!Met(e), Tests!Return(1), logged' = Tests!Report(test_logging)
        PROVE  TestsInv'
    BY <1>2, <1>4, <1>6, InnerReturns
  <1>7. ASSUME Tests!Met(e), frames' = <<rest>> \o <<f>>,
               UNCHANGED <<pending, test_logging, successful_tests, failed_tests, logged,
                           extra, status>>
        PROVE  TestsInv'
    <2>1. Started' = Started /\ Own' = Own
      BY <1>4, <1>7, PendingSame
    <2>2. frames' = <<rest, f>>
      BY <1>7, SmallStacks
    <2> HIDE DEF rest, e
    <2>3. PICK h \in Inner : /\ frames' = <<h, f>> /\ h.macro = g.macro
                             /\ h.left = Tail(g.left) /\ h.prev = g.prev
      BY <1>3, <2>2
    <2>4. AllMet(h.left) <=> AllMet(g.left)
      BY <1>2, <1>7, <2>3
    <2>5. (AllMet(h.left) <=> h.macro = "SUCCESS") /\ Passes(f.left) <=> f.macro = "TEST"
      BY <2>3, <2>4 DEF InnerRuns
    <2>6. h.prev = (f.macro = "TEST") /\ Started' <= Own'
      BY <2>1, <2>3 DEF InnerRuns
    <2>7. test_logging' = (h.macro = "SUCCESS" /\ f.macro = "TEST")
      BY <1>7, <2>3 DEF InnerRuns
    <2>8. InnerRuns(h, f)'
      BY <2>5, <2>6, <2>7 DEF InnerRuns
    <2>9. Running'
      BY <2>3, <2>8 DEF Running
    <2> QED
      BY <1>1, <1>7, <2>9, RunsOn
  <1> QED
    BY <1>5, <1>6, <1>7

LEMMA TestRegistered ==
  ASSUME TestsInv, Tests!Register
  PROVE  TestsInv'
  <1> DEFINE e == [macro |-> "TEST", test |-> Tests!failing_test]
  <1>1. /\ extra' = extra + 1 /\ status = -1 /\ pending' = Append(pending, e)
        /\ UNCHANGED <<frames, test_logging, successful_tests, failed_tests, logged, status>>
    BY DEF Tests!Register
  <1>2. /\ PendingInv /\ Own \in Nat /\ extra \in Nat /\ Len(pending) \in Nat
        /\ Started \in Nat /\ pending \in Seq(SuiteEntries) /\ Len(pending) <= Own + extra
    BY StartedFacts DEF TestsInv, PendingInv
  <1>3. e \in SuiteEntries
    BY SampleTests DEF SuiteEntries, Failing
  <1>4. /\ pending' \in Seq(SuiteEntries) /\ Len(pending') = Len(pending) + 1
        /\ \A i \in 1 .. Len(pending) : pending'[i] = pending[i]
        /\ pending'[Len(pending) + 1] = e
    <2> HIDE DEF e
    <2> QED
      BY <1>1, <1>2, <1>3
  <1>5. Own' = Own /\ Started' = Started
    BY <1>1, <1>2, <1>4 DEF Started, Own
  <1>6. \A i : Registered(i)' = Registered(i)
    BY <1>5 DEF Registered
  <1>7. ASSUME NEW i \in 1 .. Len(pending) + 1
        PROVE  pending'[i] = Registered(Started + i)
    <2>1. CASE i = Len(pending) + 1
      <3>1. ~(Started + i <= Own)
        BY <1>2, <2>1 DEF Started
      <3> QED
        BY <1>4, <2>1, <3>1 DEF Registered
    <2>2. CASE i # Len(pending) + 1
      <3>1. i \in 1 .. Len(pending)
        BY <1>2, <2>2
      <3> QED
        BY <1>2, <1>4, <3>1 DEF PendingInv
    <2> QED
      BY <2>1, <2>2
  <1>8. Len(pending') <= Own' + extra' /\ extra' \in Nat
    BY <1>1, <1>2, <1>4, <1>5
  <1>9. PendingInv'
    BY <1>4, <1>5, <1>6, <1>7, <1>8 DEF PendingInv
  <1>10. /\ Counted(Started) => (Counted(Started))'
         /\ Counted(Started - 1) => (Counted(Started - 1))'
    BY <1>1, <1>5 DEF Counted
  <1>11. Running => Running'
    <2>1. \A f : OuterRuns(f) => OuterRuns(f)'
      BY <1>1, <1>5 DEF OuterRuns
    <2>2. \A g, f : InnerRuns(g, f) => InnerRuns(g, f)'
      BY <1>1, <1>5 DEF InnerRuns
    <2>3. frames' = frames
      BY <1>1
    <2> QED
      BY <2>1, <2>2, <2>3 DEF Running
  <1> QED
    BY <1>1, <1>5, <1>9, <1>10, <1>11 DEF TestsInv

LEMMA TestsExit ==
  ASSUME TestsInv, Tests!Exit
  PROVE  TestsInv'
  <1>1. /\ pending = <<>> /\ frames = <<>> /\ status' = failed_tests % 256
        /\ UNCHANGED <<pending, frames, test_logging, successful_tests, failed_tests,
                       logged, extra>>
    BY DEF Tests!Exit
  <1>2. PendingInv /\ test_logging = TRUE /\ Counted(Started)
    BY <1>1, SmallStacks DEF TestsInv, Running
  <1>3. PendingInv' /\ Started' = Started /\ Own' = Own
    BY <1>1, <1>2, PendingSame
  <1>4. failed_tests \in Nat
    BY <1>2, StartedFacts DEF Counted
  <1>5. status' \in 0 .. 255
    BY <1>1, <1>4
  <1>6. (Counted(Started))'
    BY <1>1, <1>2, <1>3 DEF Counted
  <1> QED
    BY <1>1, <1>2, <1>3, <1>5, <1>6 DEF TestsInv

LEMMA TestsStep ==
  ASSUME TestsInv, [Tests!Next]_testVars
  PROVE  TestsInv'
  <1>1. CASE Tests!Start
    BY <1>1, TestStarts
  <1>2. CASE Tests!Finish
    BY <1>2, TestEnds
  <1>3. CASE Tests!Expect
    <2>1. Running
      BY <1>3 DEF Tests!Expect, TestsInv
    <2> QED
      BY <1>3, <2>1, OuterExpects, InnerExpects DEF Running
  <1>4. CASE Tests!Register
    BY <1>4, TestRegistered
  <1>5. CASE Tests!Exit
    BY <1>5, TestsExit
  <1>6. CASE UNCHANGED testVars
    <2>1. PendingInv => PendingInv' /\ Started' = Started /\ Own' = Own
      BY <1>6, PendingSame DEF testVars
    <2>2. Running => Running'
      <3>1. \A f : OuterRuns(f) => OuterRuns(f)'
        BY <1>6, <2>1 DEF TestsInv, OuterRuns, testVars
      <3>2. \A g, f : InnerRuns(g, f) => InnerRuns(g, f)'
        BY <1>6, <2>1 DEF TestsInv, InnerRuns, testVars
      <3> QED
        BY <1>6, <3>1, <3>2 DEF Running, testVars
    <2>3. /\ Counted(Started) => (Counted(Started))'
          /\ Counted(Started - 1) => (Counted(Started - 1))'
      BY <1>6, <2>1 DEF TestsInv, Counted, testVars
    <2> QED
      BY <1>6, <2>1, <2>2, <2>3 DEF TestsInv, testVars
  <1> QED
    BY <1>1, <1>2, <1>3, <1>4, <1>5, <1>6 DEF Tests!Next

LEMMA TestsInvHolds == TestsInv => Tests!FrameworkTypeOK /\ Tests!VerdictsRight
  <1> SUFFICES ASSUME TestsInv PROVE Tests!FrameworkTypeOK /\ Tests!VerdictsRight
    OBVIOUS
  <1>1. PendingInv /\ Own \in Nat /\ extra \in Nat /\ Started \in Nat
    BY StartedFacts DEF TestsInv
  <1>2. Len(frames) <= 2
    <2>1. \A f : Len(<<f>>) <= 2
      OBVIOUS
    <2>2. \A g, f : Len(<<g, f>>) <= 2
      OBVIOUS
    <2>3. Running => Len(frames) <= 2
      BY <2>1, <2>2 DEF Running
    <2>4. frames = <<>> => Len(frames) <= 2
      OBVIOUS
    <2> QED
      BY <2>3, <2>4 DEF TestsInv
  <1>3. test_logging \in BOOLEAN
    BY DEF TestsInv, Running, OuterRuns, InnerRuns
  <1>4. successful_tests \in Nat /\ failed_tests \in Nat
    BY <1>1 DEF TestsInv, Counted
  <1>5. status \in -1 .. 255
    BY DEF TestsInv
  <1>6. ASSUME status # -1
        PROVE  failed_tests = extra /\ logged = extra /\ successful_tests = Own
    <2>1. pending = <<>> /\ frames = <<>>
      BY <1>6 DEF TestsInv
    <2>2. Counted(Started) /\ Started = Own + extra
      BY <1>1, <2>1, SmallStacks DEF TestsInv, Running, Started
    <2> QED
      BY <1>1, <2>2 DEF Counted
  <1>7. frames = <<>> => test_logging
    BY SmallStacks DEF TestsInv, Running
  <1> QED
    BY <1>2, <1>3, <1>4, <1>5, <1>6, <1>7
       DEF Tests!FrameworkTypeOK, Tests!VerdictsRight, Own

-----------------------------------------------------------------------------
(* Pointers.  The properties are inductive together: a deletion is sound       *)
(* because its block is live and has no other owner, an allocation because     *)
(* nobody owns an address at which nothing was made yet.                       *)

(* What bounds the length an array pointer records. *)
ArraysBounded == \A a \in Addr : kind[a] = "array" => size[a] \in 0 .. MaxLen

BlocksOwned == SoleOwner /\ NeverDangles /\ DeletedOnce

OInv == PointersTypeOK /\ ArraysBounded /\ BlocksOwned /\ LengthOfBlock

Owned(a) == a \in raw \/ \E v \in Names : ptr[v] = a

LEMMA Distinct == Null \notin Addr /\ Ended \notin Addr /\ Null # Ended /\ MaxLen \in Nat
  BY OwningPointerAssumption

LEMMA InitOInv == Init => OInv
  <1> SUFFICES ASSUME Init PROVE OInv
    OBVIOUS
  <1>1. PointersTypeOK
    BY Distinct DEF Init, PointersTypeOK
  <1>2. \A v \in Names : ptr[v] \notin Addr
    BY Distinct DEF Init
  <1>3. SoleOwner
    BY <1>2 DEF SoleOwner
  <1>4. NeverDangles
    BY <1>2 DEF Init, NeverDangles
  <1>5. DeletedOnce
    BY DEF Init, DeletedOnce
  <1>6. LengthOfBlock
    BY <1>2 DEF LengthOfBlock, Names
  <1>7. ArraysBounded
    BY DEF Init, ArraysBounded
  <1> QED
    BY <1>1, <1>3, <1>4, <1>5, <1>6, <1>7 DEF OInv, BlocksOwned

(* What operator[] reads, of a block of the length recorded. *)
LEMMA ReadsInside ==
  ASSUME NEW v \in Arrays, PointersTypeOK, ptr[v] \in Addr
  PROVE  \A i \in 0 .. MaxLen : i < Length(v) => ReadsAt(v, i) \in Addr
  BY Distinct DEF Length, ReadsAt, PointersTypeOK

(* The lengths, without what follows from them. *)
Lengths ==
  \A v \in Arrays : ptr[v] \in Addr => kind[ptr[v]] = "array" /\ len[v] = size[ptr[v]]

LEMMA LengthsSuffice == PointersTypeOK => (Lengths <=> LengthOfBlock)
  BY ReadsInside DEF Lengths, LengthOfBlock

-----------------------------------------------------------------------------
(* What a step does to a block, and to those who own one. *)
Pointers == [Names -> Addr \cup {Null, Ended}]

Same(a) == kind'[a] = kind[a] /\ size'[a] = size[a] /\ deletes'[a] = deletes[a]
Made(a) == kind[a] = "none" /\ Live(a)' /\ deletes'[a] = deletes[a]
Deleted(a) == Live(a) /\ kind'[a] = "dead" /\ deletes'[a] = deletes[a] + 1

LEMMA BlocksSound ==
  ASSUME OInv, SoleOwner', \A a \in Addr : Same(a) \/ Made(a) \/ Deleted(a),
         \A a \in Addr : Owned(a)' => Live(a)'
  PROVE  BlocksOwned'
  <1>1. NeverDangles'
    BY DEF NeverDangles, Owned
  <1>2. DeletedOnce'
    BY DEF OInv, BlocksOwned, DeletedOnce, PointersTypeOK, Same, Made, Deleted, Live
  <1> QED
    BY <1>1, <1>2 DEF BlocksOwned

LEMMA OwnedIsLive == OInv => \A a \in Addr : Owned(a) => Live(a)
  BY DEF OInv, BlocksOwned, NeverDangles, Owned

(* v takes a block nobody else points to, or none. *)
LEMMA PutSole ==
  ASSUME OInv, NEW v \in Names, NEW a \in Addr \cup {Null, Ended},
         a \in Addr => \A w \in Names : ptr[w] # a,
         ptr' = [ptr EXCEPT ![v] = a], raw' = raw \ {a}
  PROVE  /\ ptr' \in Pointers /\ raw' \in SUBSET Addr
         /\ SoleOwner'
         /\ \A b \in Addr : Owned(b)' => b = a \/ (Owned(b) /\ b # ptr[v])
  <1>1. /\ ptr'[v] = a /\ \A u \in Names : u # v => ptr'[u] = ptr[u]
        /\ ptr' \in Pointers /\ raw' \in SUBSET Addr
    BY DEF OInv, PointersTypeOK, Pointers
  <1>2. SoleOwner'
    BY <1>1 DEF OInv, BlocksOwned, SoleOwner
  <1>3. \A b \in Addr : Owned(b)' => b = a \/ (Owned(b) /\ b # ptr[v])
    BY <1>1 DEF OInv, BlocksOwned, SoleOwner, Owned
  <1> QED
    BY <1>1, <1>2, <1>3

LEMMA TakeFromSole ==
  ASSUME OInv, NEW v \in Names, NEW w \in Names, v # w, ptr' = TakeFrom(v, w), UNCHANGED raw
  PROVE  /\ ptr' \in Pointers /\ raw' \in SUBSET Addr
         /\ SoleOwner' /\ \A a \in Addr : Owned(a)' => Owned(a)
  <1>1. /\ ptr'[v] = ptr[w] /\ ptr'[w] = Null
        /\ \A u \in Names : u # v /\ u # w => ptr'[u] = ptr[u]
        /\ ptr' \in Pointers /\ raw' \in SUBSET Addr
    BY DEF TakeFrom, OInv, PointersTypeOK, Pointers
  <1>2. SoleOwner'
    <2> SUFFICES ASSUME NEW u \in Names, ptr'[u] \in Addr
                 PROVE  /\ \A x \in Names : ptr'[x] = ptr'[u] => x = u
                        /\ ptr'[u] \notin raw
      BY DEF SoleOwner
    <2>1. u # w
      BY <1>1, Distinct
    <2>2. CASE u = v
      BY <1>1, <2>2, Distinct DEF OInv, BlocksOwned, SoleOwner
    <2>3. CASE u # v
      BY <1>1, <2>1, <2>3, Distinct DEF OInv, BlocksOwned, SoleOwner
    <2> QED
      BY <2>2, <2>3
  <1>3. \A a \in Addr : Owned(a)' => Owned(a)
    BY <1>1, Distinct DEF Owned
  <1> QED
    BY <1>1, <1>2, <1>3

-----------------------------------------------------------------------------
(* The two shapes a step has: v takes a block nobody else points to, or v  *)
(* takes the block of w.                                                   *)
TypesOfBlocks ==
  /\ len \in [Arrays -> 0 .. MaxLen]
  /\ kind \in [Addr -> {"none", "object", "array", "placed", "dead"}]
  /\ size \in [Addr -> Nat]
  /\ deletes \in [Addr -> Nat]
  /\ ArraysBounded

LEMMA Together ==
  ASSUME ptr' \in Pointers, raw' \in SUBSET Addr, TypesOfBlocks', BlocksOwned', Lengths'
  PROVE  OInv'
  <1>1. PointersTypeOK'
    BY DEF PointersTypeOK, Pointers, TypesOfBlocks, ArraysBounded
  <1>2. LengthOfBlock'
    <2> SUFFICES ASSUME NEW v \in Arrays, ptr'[v] \in Addr
                 PROVE  \A i \in 0 .. MaxLen : i < Length(v)' => ReadsAt(v, i)' \in Addr
      BY DEF LengthOfBlock, Lengths
    <2> QED
      BY <1>1, Distinct DEF Length, ReadsAt, PointersTypeOK
  <1> QED
    BY <1>1, <1>2 DEF OInv, TypesOfBlocks, ArraysBounded

LEMMA PutOInv ==
  ASSUME OInv, NEW v \in Names, NEW a \in Addr \cup {Null, Ended},
         a \in Addr => \A w \in Names : ptr[w] # a,
         ptr' = [ptr EXCEPT ![v] = a], raw' = raw \ {a}, TypesOfBlocks',
         \A b \in Addr : Same(b) \/ Made(b) \/ Deleted(b),
         \A b \in Addr : Owned(b) /\ b # ptr[v] => Same(b),
         a \in Addr => Live(a)',
         \A x \in Arrays : x # v => len'[x] = len[x],
         v \in Arrays /\ a \in Addr => kind'[a] = "array" /\ len'[v] = size'[a]
  PROVE  OInv'
  <1>1. /\ ptr' \in Pointers /\ raw' \in SUBSET Addr /\ SoleOwner'
        /\ \A b \in Addr : Owned(b)' => b = a \/ (Owned(b) /\ b # ptr[v])
    BY PutSole
  <1>2. \A b \in Addr : Owned(b)' => Live(b)'
    BY <1>1, OwnedIsLive DEF Same, Live
  <1>3. BlocksOwned'
    BY <1>1, <1>2, BlocksSound
  <1>4. Lengths'
    <2> SUFFICES ASSUME NEW x \in Arrays, ptr'[x] \in Addr
                 PROVE  kind'[ptr'[x]] = "array" /\ len'[x] = size'[ptr'[x]]
      BY DEF Lengths
    <2>1. x \in Names
      BY DEF Names
    <2>2. CASE x = v
      BY <2>1, <2>2 DEF OInv, PointersTypeOK
    <2>3. CASE x # v
      <3>1. ptr'[x] = ptr[x] /\ len'[x] = len[x]
        BY <2>1, <2>3 DEF OInv, PointersTypeOK
      <3>2. ptr[x] # ptr[v] /\ Owned(ptr[x])
        BY <2>1, <2>3, <3>1 DEF OInv, BlocksOwned, SoleOwner, Owned
      <3>3. Same(ptr[x])
        BY <3>1, <3>2
      <3> QED
        BY <3>1, <3>3 DEF OInv, LengthOfBlock, Same
    <2> QED
      BY <2>2, <2>3
  <1> QED
    BY <1>1, <1>3, <1>4, Together

LEMMA TakeFromOInv ==
  ASSUME OInv, NEW v \in Names, NEW w \in Names, v # w,
         ptr' = TakeFrom(v, w), UNCHANGED raw, TypesOfBlocks',
         \A b \in Addr : Same(b) \/ Made(b),
         v \in Arrays => w \in Arrays /\ len'[v] = len[w],
         \A x \in Arrays : x # v /\ x # w => len'[x] = len[x]
  PROVE  OInv'
  <1>1. /\ ptr' \in Pointers /\ raw' \in SUBSET Addr
        /\ SoleOwner' /\ \A a \in Addr : Owned(a)' => Owned(a)
    BY TakeFromSole
  <1>2. \A a \in Addr : Owned(a) => Same(a)
    BY OwnedIsLive DEF Made, Live
  <1>3. BlocksOwned'
    <2>1. \A a \in Addr : Owned(a)' => Live(a)'
      BY <1>1, <1>2, OwnedIsLive DEF Same, Live
    <2> QED
      BY <1>1, <2>1, BlocksSound
  <1>4. Lengths'
    <2> SUFFICES ASSUME NEW x \in Arrays, ptr'[x] \in Addr
                 PROVE  kind'[ptr'[x]] = "array" /\ len'[x] = size'[ptr'[x]]
      BY DEF Lengths
    <2>1. x \in Names
      BY DEF Names
    <2>2. /\ ptr'[v] = ptr[w] /\ ptr'[w] = Null
          /\ \A u \in Names : u # v /\ u # w => ptr'[u] = ptr[u]
      BY DEF TakeFrom, OInv, PointersTypeOK
    <2>3. PICK y \in Arrays : ptr'[x] = ptr[y] /\ len'[x] = len[y]
      BY <2>1, <2>2, Distinct
    <2>4. Same(ptr[y])
      BY <1>2, <2>3 DEF Owned, Names
    <2> QED
      BY <2>3, <2>4 DEF OInv, LengthOfBlock, Same
  <1> QED
    BY <1>1, <1>3, <1>4, Together

(* What a deleter does to the blocks: nothing, or it destroys the one v    *)
(* points to, which is live.                                               *)
LEMMA DeleteEffect ==
  ASSUME OInv, NEW v \in Scope, Delete(ptr[v])
  PROVE  /\ kind' \in [Addr -> {"none", "object", "array", "placed", "dead"}]
         /\ size' = size /\ deletes' \in [Addr -> Nat]
         /\ \A b \in Addr : b # ptr[v] => Same(b)
         /\ \A b \in Addr : Same(b) \/ Deleted(b)
         /\ ArraysBounded'
  <1>1. v \in Names /\ ptr[v] \in Addr \cup {Null} /\ PointersTypeOK
    BY DEF Scope, OInv, PointersTypeOK
  <1>2. CASE ptr[v] = Null
    BY <1>1, <1>2 DEF Delete, heap, Same, PointersTypeOK, OInv, ArraysBounded
  <1>3. CASE ptr[v] # Null
    <2>1. ptr[v] \in Addr /\ Live(ptr[v])
      BY <1>1, <1>3, OwnedIsLive DEF Owned
    <2> QED
      BY <1>1, <1>3, <2>1 DEF Delete, Same, Deleted, PointersTypeOK, OInv, ArraysBounded
  <1> QED
    BY <1>2, <1>3

-----------------------------------------------------------------------------
(* Objects. *)

LEMMA MakeUniqueOInv == ASSUME OInv, NEW v \in Objects, MakeUnique(v) PROVE OInv'
  <1>1. PICK a \in Fresh \cup {Null}, k \in {"object", "placed"} :
          /\ v \notin Scope /\ New(a, k, 1)
          /\ ptr' = [ptr EXCEPT ![v] = a] /\ UNCHANGED <<len, raw>>
    BY DEF MakeUnique
  <1>2. /\ v \in Names /\ v \notin Arrays /\ ptr[v] = Ended /\ a \in Addr \cup {Null}
        /\ a \in Addr => kind[a] = "none" /\ ~Owned(a)
    BY <1>1, OwnedIsLive, OwningPointerAssumption DEF Scope, Fresh, Live, Names
  <1>3. raw' = raw \ {a} /\ (a \in Addr => \A w \in Names : ptr[w] # a)
    BY <1>1, <1>2, Distinct DEF Owned, OInv, PointersTypeOK
  <1>4. /\ TypesOfBlocks' /\ UNCHANGED deletes
        /\ \A b \in Addr : b # a => Same(b)
        /\ a \in Addr => kind'[a] = k
    BY <1>1, <1>2, Distinct DEF New, OInv, PointersTypeOK, Fresh, TypesOfBlocks, Same, ArraysBounded
  <1>5. a \in Addr => Made(a) /\ Live(a)'
    BY <1>2, <1>4 DEF Made, Live
  <1> QED
    BY <1>1, <1>2, <1>3, <1>4, <1>5, PutOInv

LEMMA AdoptOInv == ASSUME OInv, NEW v \in Objects, Adopt(v) PROVE OInv'
  <1>1. PICK a \in raw : /\ v \notin Scope /\ kind[a] # "array"
                         /\ ptr' = [ptr EXCEPT ![v] = a] /\ raw' = raw \ {a}
                         /\ UNCHANGED <<len, heap>>
    BY DEF Adopt
  <1>2. v \in Names /\ v \notin Arrays /\ a \in Addr /\ Owned(a)
    BY OwningPointerAssumption DEF Names, OInv, PointersTypeOK, Owned
  <1>3. \A w \in Names : ptr[w] # a
    BY <1>2 DEF OInv, BlocksOwned, SoleOwner
  <1>4. TypesOfBlocks' /\ (\A b \in Addr : Same(b)) /\ Live(a)'
    BY <1>1, <1>2, OwnedIsLive DEF heap, TypesOfBlocks, OInv, PointersTypeOK, Same, Live, ArraysBounded
  <1> QED
    BY <1>1, <1>2, <1>3, <1>4, PutOInv

LEMMA ResetOInv == ASSUME OInv, NEW v \in Objects, Reset(v) PROVE OInv'
  <1>1. PICK a \in raw \cup {Null} :
          /\ v \in Scope /\ Delete(ptr[v])
          /\ ptr' = [ptr EXCEPT ![v] = a] /\ raw' = raw \ {a} /\ UNCHANGED len
    BY DEF Reset
  <1>2. /\ v \in Names /\ v \notin Arrays /\ a \in Addr \cup {Null}
        /\ a \in Addr => a \in raw /\ Owned(a)
    BY Distinct, OwningPointerAssumption DEF Names, OInv, PointersTypeOK, Owned
  <1>3. a \in Addr => \A w \in Names : ptr[w] # a
    BY <1>2 DEF OInv, BlocksOwned, SoleOwner
  <1>4. /\ TypesOfBlocks'
        /\ \A b \in Addr : b # ptr[v] => Same(b)
        /\ \A b \in Addr : Same(b) \/ Deleted(b)
    BY <1>1, DeleteEffect DEF OInv, PointersTypeOK, TypesOfBlocks
  <1>5. a \in Addr => Live(a)'
    BY <1>2, <1>3, <1>4, OwnedIsLive DEF Same, Live
  <1> QED
    BY <1>1, <1>2, <1>3, <1>4, <1>5, PutOInv

LEMMA MoveOInv ==
  ASSUME OInv, NEW v \in Objects, NEW w \in Objects \ {v},
         MoveConstruct(v, w) \/ MoveAssign(v, w)
  PROVE  OInv'
  <1>1. ptr' = TakeFrom(v, w) /\ UNCHANGED <<len, raw, heap>>
    BY DEF MoveConstruct, MoveAssign
  <1>2. v \in Names /\ w \in Names /\ v # w /\ v \notin Arrays /\ w \notin Arrays
    BY OwningPointerAssumption DEF Names
  <1>3. TypesOfBlocks' /\ \A b \in Addr : Same(b)
    BY <1>1 DEF heap, TypesOfBlocks, OInv, PointersTypeOK, Same, ArraysBounded
  <1> QED
    BY <1>1, <1>2, <1>3, TakeFromOInv

LEMMA SwapOInv ==
  ASSUME OInv, NEW v \in Objects, NEW w \in Objects \ {v}, Swap(v, w) PROVE OInv'
  <1>1. /\ ptr' = [ptr EXCEPT ![v] = ptr[w], ![w] = ptr[v]]
        /\ UNCHANGED <<len, raw, heap>>
    BY DEF Swap
  <1>2. v \in Names /\ w \in Names /\ v # w
    BY DEF Names
  <1>3. /\ ptr'[v] = ptr[w] /\ ptr'[w] = ptr[v]
        /\ \A u \in Names : u # v /\ u # w => ptr'[u] = ptr[u]
        /\ ptr' \in Pointers
    BY <1>1, <1>2 DEF OInv, PointersTypeOK, Pointers
  <1>4. raw' \in SUBSET Addr /\ TypesOfBlocks' /\ \A b \in Addr : Same(b)
    BY <1>1 DEF heap, TypesOfBlocks, OInv, PointersTypeOK, Same, ArraysBounded
  <1>5. SoleOwner'
    <2> SUFFICES ASSUME NEW x \in Names, ptr'[x] \in Addr
                 PROVE  /\ \A y \in Names : ptr'[y] = ptr'[x] => y = x
                        /\ ptr'[x] \notin raw
      BY <1>1 DEF SoleOwner
    <2>1. SoleOwner
      BY DEF OInv, BlocksOwned
    <2>2. CASE x = v
      BY <1>2, <1>3, <2>1, <2>2 DEF SoleOwner
    <2>3. CASE x = w
      BY <1>2, <1>3, <2>1, <2>3 DEF SoleOwner
    <2>4. CASE x # v /\ x # w
      BY <1>2, <1>3, <2>1, <2>4 DEF SoleOwner
    <2> QED
      BY <2>2, <2>3, <2>4
  <1>6. \A b \in Addr : Owned(b)' => Live(b)'
    <2>1. \A b \in Addr : Owned(b)' => Owned(b)
      BY <1>1, <1>2, <1>3 DEF Owned
    <2> QED
      BY <1>4, <2>1, OwnedIsLive DEF Same, Live
  <1>7. BlocksOwned'
    BY <1>4, <1>5, <1>6, BlocksSound
  <1>8. Lengths'
    <2> SUFFICES ASSUME NEW x \in Arrays, ptr'[x] \in Addr
                 PROVE  kind'[ptr'[x]] = "array" /\ len'[x] = size'[ptr'[x]]
      BY DEF Lengths
    <2>1. x \in Names /\ x # v /\ x # w
      BY OwningPointerAssumption DEF Names
    <2>2. ptr'[x] = ptr[x] /\ len'[x] = len[x] /\ ptr[x] \in Addr
      BY <1>1, <1>3, <2>1
    <2>3. Same(ptr[x])
      BY <1>4, <2>2
    <2> QED
      BY <2>2, <2>3 DEF OInv, LengthOfBlock, Same
  <1> QED
    BY <1>3, <1>4, <1>7, <1>8, Together

-----------------------------------------------------------------------------
(* Arrays. The block that the base of an array pointer makes is lost: it   *)
(* is made, and nobody owns it.                                            *)

LEMMA ArrayOfLengthOInv == ASSUME OInv, NEW v \in Arrays, ArrayOfLength(v) PROVE OInv'
  <1>1. PICK n \in 0 .. MaxLen, base \in Fresh \cup {Null}, a \in Fresh \cup {Null} :
          /\ v \notin Scope /\ (base = a => a = Null)
          /\ kind' = [x \in Addr |-> IF x = base THEN "object"
                                     ELSE IF x = a THEN "array" ELSE kind[x]]
          /\ size' = [x \in Addr |-> IF x = base THEN 1 ELSE IF x = a THEN n ELSE size[x]]
          /\ ptr' = [ptr EXCEPT ![v] = a]
          /\ len' = [len EXCEPT ![v] = IF a = Null THEN 0 ELSE n]
          /\ UNCHANGED <<raw, deletes>>
    BY DEF ArrayOfLength
  <1>2. /\ v \in Names /\ a \in Addr \cup {Null} /\ (base = a => a = Null)
        /\ a \in Addr => kind[a] = "none" /\ ~Owned(a)
        /\ base \in Addr => kind[base] = "none" /\ ~Owned(base)
    BY <1>1, OwnedIsLive, Distinct DEF Fresh, Live, Names
  <1>3. raw' = raw \ {a} /\ (a \in Addr => \A w \in Names : ptr[w] # a)
    BY <1>1, <1>2, Distinct DEF Owned, OInv, PointersTypeOK
  <1>4. /\ TypesOfBlocks'
        /\ \A b \in Addr : b # a /\ b # base => Same(b)
    BY <1>1, <1>2, Distinct DEF OInv, PointersTypeOK, TypesOfBlocks, Same, ArraysBounded
  <1>5. /\ base \in Addr => Made(base)
        /\ a \in Addr => Made(a) /\ Live(a)' /\ kind'[a] = "array" /\ size'[a] = n
    BY <1>1, <1>2, Distinct DEF Made, Live
  <1>6. /\ \A x \in Arrays : x # v => len'[x] = len[x]
        /\ a \in Addr => len'[v] = n
    BY <1>1, Distinct DEF OInv, PointersTypeOK
  <1>7. \A b \in Addr : Owned(b) => Same(b)
    BY <1>2, <1>4
  <1>8. \A b \in Addr : Same(b) \/ Made(b) \/ Deleted(b)
    BY <1>4, <1>5
  <1> QED
    BY <1>1, <1>2, <1>3, <1>4, <1>5, <1>6, <1>7, <1>8, PutOInv

LEMMA AdoptArrayOInv == ASSUME OInv, NEW v \in Arrays, AdoptArray(v) PROVE OInv'
  <1>1. PICK a \in raw \cup {Null} :
          /\ v \notin Scope /\ (a # Null => kind[a] = "array")
          /\ ptr' = [ptr EXCEPT ![v] = a]
          /\ len' = [len EXCEPT ![v] = IF a = Null THEN 0 ELSE size[a]]
          /\ raw' = raw \ {a} /\ UNCHANGED heap
    BY DEF AdoptArray
  <1>2. /\ v \in Names /\ a \in Addr \cup {Null}
        /\ a \in Addr => a # Null /\ a \in raw /\ Owned(a)
    BY Distinct DEF Names, OInv, PointersTypeOK, Owned
  <1>3. a \in Addr => \A w \in Names : ptr[w] # a
    BY <1>2 DEF OInv, BlocksOwned, SoleOwner
  <1>4. (\A b \in Addr : Same(b)) /\ (a \in Addr => Live(a)')
    BY <1>1, <1>2, OwnedIsLive DEF heap, Same, Live
  <1>5. /\ len' \in [Arrays -> 0 .. MaxLen]
        /\ \A x \in Arrays : x # v => len'[x] = len[x]
        /\ a \in Addr => len'[v] = size[a]
    BY <1>1, <1>2, Distinct DEF OInv, PointersTypeOK, ArraysBounded
  <1>6. TypesOfBlocks'
    BY <1>1, <1>5 DEF heap, TypesOfBlocks, OInv, PointersTypeOK, ArraysBounded
  <1> QED
    BY <1>1, <1>2, <1>3, <1>4, <1>5, <1>6, PutOInv DEF Same

LEMMA ResetArrayOInv == ASSUME OInv, NEW v \in Arrays, ResetArray(v) PROVE OInv'
  <1>1. PICK a \in raw \cup {Null} :
          /\ v \in Scope /\ (a # Null => kind[a] = "array") /\ Delete(ptr[v])
          /\ ptr' = [ptr EXCEPT ![v] = a]
          /\ len' = [len EXCEPT ![v] = IF a = Null THEN 0 ELSE size[a]]
          /\ raw' = raw \ {a}
    BY DEF ResetArray
  <1>2. /\ v \in Names /\ a \in Addr \cup {Null}
        /\ a \in Addr => a # Null /\ a \in raw /\ Owned(a)
    BY Distinct DEF Names, OInv, PointersTypeOK, Owned
  <1>3. a \in Addr => \A w \in Names : ptr[w] # a
    BY <1>2 DEF OInv, BlocksOwned, SoleOwner
  <1>4. /\ \A b \in Addr : b # ptr[v] => Same(b)
        /\ \A b \in Addr : Same(b) \/ Deleted(b)
        /\ kind' \in [Addr -> {"none", "object", "array", "placed", "dead"}]
        /\ size' = size /\ deletes' \in [Addr -> Nat] /\ ArraysBounded'
    BY <1>1, DeleteEffect
  <1>5. /\ len' \in [Arrays -> 0 .. MaxLen]
        /\ \A x \in Arrays : x # v => len'[x] = len[x]
        /\ a \in Addr => len'[v] = size[a]
    BY <1>1, <1>2, Distinct DEF OInv, PointersTypeOK, ArraysBounded
  <1>6. a \in Addr => Same(a) /\ Live(a)'
    BY <1>2, <1>3, <1>4, OwnedIsLive DEF Same, Live
  <1>7. TypesOfBlocks'
    BY <1>4, <1>5 DEF TypesOfBlocks, OInv, PointersTypeOK
  <1> QED
    BY <1>1, <1>2, <1>3, <1>4, <1>5, <1>6, <1>7, PutOInv DEF Same

LEMMA MoveArrayOInv ==
  ASSUME OInv, NEW v \in Arrays, NEW w \in Arrays \ {v},
         MoveConstructArray(v, w) \/ MoveAssignArray(v, w)
  PROVE  OInv'
  <1>1. /\ ptr' = TakeFrom(v, w) /\ UNCHANGED raw
        /\ len' = [len EXCEPT ![v] = len[w], ![w] = 0]
    BY DEF MoveConstructArray, MoveAssignArray
  <1>2. v \in Names /\ w \in Names /\ v # w /\ w \in Arrays
    BY DEF Names
  <1>3. /\ len' \in [Arrays -> 0 .. MaxLen] /\ len'[v] = len[w]
        /\ \A x \in Arrays : x # v /\ x # w => len'[x] = len[x]
    BY <1>1, <1>2, Distinct DEF OInv, PointersTypeOK
  <1>4. /\ \A b \in Addr : Same(b) \/ Made(b)
        /\ kind' \in [Addr -> {"none", "object", "array", "placed", "dead"}]
        /\ size' \in [Addr -> Nat] /\ deletes' \in [Addr -> Nat]
        /\ ArraysBounded'
    <2>1. CASE MoveConstructArray(v, w)
      <3>1. PICK base \in Fresh \cup {Null} : New(base, "object", 1)
        BY <2>1 DEF MoveConstructArray
      <3>2. base \in Addr => kind[base] = "none"
        BY <3>1, Distinct DEF Fresh
      <3> QED
        BY <3>1, <3>2, Distinct DEF New, Fresh, Same, Made, Live, OInv, PointersTypeOK, ArraysBounded
    <2>2. CASE MoveAssignArray(v, w)
      BY <2>2 DEF MoveAssignArray, heap, Same, OInv, PointersTypeOK, ArraysBounded
    <2> QED
      BY <2>1, <2>2
  <1>5. TypesOfBlocks'
    BY <1>3, <1>4 DEF TypesOfBlocks
  <1> QED
    BY <1>1, <1>2, <1>3, <1>4, <1>5, TakeFromOInv

-----------------------------------------------------------------------------
(* Both. *)

LEMMA ReleaseOInv == ASSUME OInv, NEW v \in Names, Release(v) PROVE OInv'
  <1>1. /\ v \in Scope /\ raw' = raw \cup ({ptr[v]} \ {Null})
        /\ ptr' = [ptr EXCEPT ![v] = Null] /\ UNCHANGED <<len, heap>>
    BY DEF Release
  <1>2. /\ ptr[v] \in Addr \cup {Null} /\ ptr'[v] = Null
        /\ \A u \in Names : u # v => ptr'[u] = ptr[u]
        /\ ptr' \in Pointers /\ raw' \in SUBSET Addr
    BY <1>1 DEF Scope, OInv, PointersTypeOK, Pointers
  <1>3. TypesOfBlocks' /\ \A b \in Addr : Same(b)
    BY <1>1 DEF heap, TypesOfBlocks, OInv, PointersTypeOK, Same, ArraysBounded
  <1>4. SoleOwner'
    BY <1>1, <1>2, Distinct DEF OInv, BlocksOwned, SoleOwner
  <1>5. \A b \in Addr : Owned(b)' => Live(b)'
    <2>1. \A b \in Addr : Owned(b)' => Owned(b)
      BY <1>1, <1>2, Distinct DEF Owned
    <2> QED
      BY <1>3, <2>1, OwnedIsLive DEF Same, Live
  <1>6. BlocksOwned'
    BY <1>3, <1>4, <1>5, BlocksSound
  <1>7. Lengths'
    <2> SUFFICES ASSUME NEW x \in Arrays, ptr'[x] \in Addr
                 PROVE  kind'[ptr'[x]] = "array" /\ len'[x] = size'[ptr'[x]]
      BY DEF Lengths
    <2>1. ptr'[x] = ptr[x] /\ len'[x] = len[x] /\ ptr[x] \in Addr
      BY <1>1, <1>2, Distinct DEF Names
    <2>2. Same(ptr[x])
      BY <1>3, <2>1
    <2> QED
      BY <2>1, <2>2 DEF OInv, LengthOfBlock, Same
  <1> QED
    BY <1>2, <1>3, <1>6, <1>7, Together

LEMMA DestroyOInv == ASSUME OInv, NEW v \in Names, Destroy(v) PROVE OInv'
  <1>1. /\ v \in Scope /\ Delete(ptr[v])
        /\ ptr' = [ptr EXCEPT ![v] = Ended] /\ UNCHANGED <<len, raw>>
    BY DEF Destroy
  <1>2. raw' = raw \ {Ended}
    BY <1>1, Distinct DEF OInv, PointersTypeOK
  <1>3. /\ TypesOfBlocks'
        /\ \A b \in Addr : b # ptr[v] => Same(b)
        /\ \A b \in Addr : Same(b) \/ Deleted(b)
    BY <1>1, DeleteEffect DEF OInv, PointersTypeOK, TypesOfBlocks
  <1> QED
    BY <1>1, <1>2, <1>3, Distinct, PutOInv

LEMMA NextOInv == OInv /\ [Next]_vars => OInv'
  <1> SUFFICES ASSUME OInv, [Next]_vars PROVE OInv'
    OBVIOUS
  <1>1. ASSUME NEW v \in Objects, ObjectStep(v) PROVE OInv'
    BY <1>1, MakeUniqueOInv, AdoptOInv, ResetOInv, MoveOInv, SwapOInv DEF ObjectStep
  <1>2. ASSUME NEW v \in Arrays, ArrayStep(v) PROVE OInv'
    BY <1>2, ArrayOfLengthOInv, AdoptArrayOInv, ResetArrayOInv, MoveArrayOInv DEF ArrayStep
  <1>3. ASSUME NEW v \in Names, Release(v) \/ Destroy(v) PROVE OInv'
    BY <1>3, ReleaseOInv, DestroyOInv
  <1>4. CASE UNCHANGED vars
    BY <1>4 DEF vars, OInv, PointersTypeOK, BlocksOwned, SoleOwner, NeverDangles,
       DeletedOnce, LengthOfBlock, Length, ReadsAt, Live, ArraysBounded
  <1> QED
    BY <1>1, <1>2, <1>3, <1>4 DEF Next

LEMMA OInvAlways == Spec => []OInv
  <1>1. Init => OInv
    BY InitOInv
  <1>2. OInv /\ [Next]_vars => OInv'
    BY NextOInv
  <1> QED
    BY <1>1, <1>2, PTL DEF Spec

(* Every block has one owner at most, who owns it while it is live, and is *)
(* deleted once at most, however pointers are moved, swapped, reset,       *)
(* released and destroyed (memory.h:120, memory.h:160); an array pointer   *)
(* knows the length of its block, and indexing stays inside (memory.h:287).*)
THEOREM OwnershipKept == Spec => []OwnershipSound
  <1>1. OInv => OwnershipSound
    BY DEF OInv, BlocksOwned, OwnershipSound
  <1> QED
    BY <1>1, OInvAlways, PTL

-----------------------------------------------------------------------------
(* What is lost.                                                           *)

BaseMade(b) == kind[b] = "none" /\ kind'[b] = "object"

LEMMA PutLoses ==
  ASSUME OInv, NEW v \in Names, NEW a, ptr' = [ptr EXCEPT ![v] = a], raw' = raw \ {a},
         ptr[v] \in Addr => kind'[ptr[v]] = "dead",
         \A b \in Addr : Live(b)' /\ ~ Live(b) => b = a \/ BaseMade(b)
  PROVE  LosesOnlyOverwritten
  <1> SUFFICES ASSUME NEW b \in Lost', b \notin Lost PROVE BaseMade(b)
    BY DEF LosesOnlyOverwritten, BaseMade
  <1>1. ptr'[v] = a /\ \A u \in Names : u # v => ptr'[u] = ptr[u]
    BY DEF OInv, PointersTypeOK
  <1>2. b \in Addr /\ Live(b)' /\ ~ Owned(b)'
    BY DEF Lost, Owned
  <1>3. b # a
    BY <1>1, <1>2 DEF Owned
  <1>4. ~ Owned(b)
    BY <1>1, <1>2, <1>3 DEF Owned, Live
  <1>5. ~ Live(b)
    BY <1>2, <1>4 DEF Lost, Owned
  <1> QED
    BY <1>2, <1>3, <1>5

LEMMA MoveLoses ==
  ASSUME OInv, NEW v \in Names, NEW w \in Names, v # w,
         ptr' = TakeFrom(v, w), UNCHANGED raw,
         \A b \in Addr : Live(b)' /\ ~ Live(b) => BaseMade(b)
  PROVE  LosesOnlyOverwritten
  <1>1. /\ ptr'[v] = ptr[w] /\ ptr'[w] = Null
        /\ \A u \in Names : u # v /\ u # w => ptr'[u] = ptr[u]
    BY DEF TakeFrom, OInv, PointersTypeOK
  <1> SUFFICES ASSUME NEW b \in Lost', b \notin Lost PROVE BaseMade(b) \/ ptr[v] = b
    BY <1>1 DEF LosesOnlyOverwritten, BaseMade
  <1>2. b \in Addr /\ Live(b)' /\ ~ Owned(b)'
    BY DEF Lost, Owned
  <1>3. Owned(b) => ptr[v] = b
    BY <1>1, <1>2 DEF Owned
  <1>4. ~ Owned(b) => ~ Live(b)
    BY <1>2 DEF Lost, Owned
  <1> QED
    BY <1>2, <1>3, <1>4

LEMMA OwnersLose ==
  ASSUME UNCHANGED kind, \A b \in Addr : Owned(b) => Owned(b)'
  PROVE  LosesOnlyOverwritten
  <1> SUFFICES ASSUME NEW b \in Lost', b \notin Lost PROVE FALSE
    BY DEF LosesOnlyOverwritten
  <1>1. b \in Addr /\ Live(b) /\ ~ Owned(b)'
    BY DEF Lost, Owned, Live
  <1>2. Owned(b)
    BY <1>1 DEF Lost, Owned
  <1> QED
    BY <1>1, <1>2

LEMMA DeletedIsDead ==
  ASSUME OInv, NEW v \in Scope, Delete(ptr[v])
  PROVE  /\ ptr[v] \in Addr => kind'[ptr[v]] = "dead"
         /\ \A b \in Addr : Live(b)' => Live(b)
  <1>1. ptr[v] \in Addr => kind'[ptr[v]] = "dead"
    BY Distinct DEF Delete, OInv, PointersTypeOK
  <1>2. \A b \in Addr : b # ptr[v] => Same(b)
    BY DeleteEffect
  <1> QED
    BY <1>1, <1>2 DEF Live, Same

LEMMA ObjectLoses == ASSUME OInv, NEW v \in Objects, ObjectStep(v) PROVE LosesOnlyOverwritten
  <1> USE DEF Names
  <1>1. CASE MakeUnique(v)
    <2>1. PICK a \in Fresh \cup {Null}, k \in {"object", "placed"} :
            /\ v \notin Scope /\ New(a, k, 1)
            /\ ptr' = [ptr EXCEPT ![v] = a] /\ UNCHANGED <<len, raw>>
      BY <1>1 DEF MakeUnique
    <2>2. raw' = raw \ {a}
      BY <2>1, OwnedIsLive, Distinct DEF Owned, Live, Fresh, OInv, PointersTypeOK
    <2>3. \A b \in Addr : Live(b)' /\ ~ Live(b) => b = a
      BY <2>1 DEF New, Live, OInv, PointersTypeOK
    <2>4. ptr[v] \notin Addr
      BY <2>1, Distinct DEF Scope
    <2> QED
      BY <2>1, <2>2, <2>3, <2>4, PutLoses
  <1>2. CASE Adopt(v)
    BY <1>2, PutLoses, Distinct DEF Adopt, heap, Live, Scope
  <1>3. CASE Reset(v)
    <2>1. PICK a \in raw \cup {Null} :
            /\ v \in Scope /\ Delete(ptr[v])
            /\ ptr' = [ptr EXCEPT ![v] = a] /\ raw' = raw \ {a}
      BY <1>3 DEF Reset
    <2> QED
      BY <2>1, DeletedIsDead, PutLoses
  <1>4. ASSUME NEW w \in Objects \ {v}, MoveConstruct(v, w) \/ MoveAssign(v, w)
        PROVE  LosesOnlyOverwritten
    BY <1>4, MoveLoses DEF MoveConstruct, MoveAssign, heap, Live
  <1>5. ASSUME NEW w \in Objects \ {v}, Swap(v, w) PROVE LosesOnlyOverwritten
    <2>1. /\ ptr'[v] = ptr[w] /\ ptr'[w] = ptr[v]
          /\ \A u \in Names : u # v /\ u # w => ptr'[u] = ptr[u]
      BY <1>5 DEF Swap, OInv, PointersTypeOK
    <2>2. UNCHANGED <<raw, kind>>
      BY <1>5 DEF Swap, heap
    <2> QED
      BY <2>1, <2>2, OwnersLose DEF Owned
  <1> QED
    BY <1>1, <1>2, <1>3, <1>4, <1>5 DEF ObjectStep

LEMMA ArrayLoses == ASSUME OInv, NEW v \in Arrays, ArrayStep(v) PROVE LosesOnlyOverwritten
  <1> USE DEF Names
  <1>1. CASE ArrayOfLength(v)
    <2>1. PICK n \in 0 .. MaxLen, base \in Fresh \cup {Null}, a \in Fresh \cup {Null} :
            /\ v \notin Scope
            /\ kind' = [x \in Addr |-> IF x = base THEN "object"
                                       ELSE IF x = a THEN "array" ELSE kind[x]]
            /\ ptr' = [ptr EXCEPT ![v] = a]
            /\ UNCHANGED raw
      BY <1>1 DEF ArrayOfLength
    <2>2. raw' = raw \ {a}
      BY <2>1, OwnedIsLive, Distinct DEF Owned, Live, Fresh, OInv, PointersTypeOK
    <2>3. \A b \in Addr : Live(b)' /\ ~ Live(b) => b = a \/ BaseMade(b)
      BY <2>1, Distinct DEF Live, BaseMade, Fresh
    <2>4. ptr[v] \notin Addr
      BY <2>1, Distinct DEF Scope
    <2> QED
      BY <2>1, <2>2, <2>3, <2>4, PutLoses
  <1>2. CASE AdoptArray(v)
    BY <1>2, PutLoses, Distinct DEF AdoptArray, heap, Live, Scope
  <1>3. CASE ResetArray(v)
    <2>1. PICK a \in raw \cup {Null} :
            /\ v \in Scope /\ Delete(ptr[v])
            /\ ptr' = [ptr EXCEPT ![v] = a] /\ raw' = raw \ {a}
      BY <1>3 DEF ResetArray
    <2> QED
      BY <2>1, DeletedIsDead, PutLoses
  <1>4. ASSUME NEW w \in Arrays \ {v}, MoveConstructArray(v, w) PROVE LosesOnlyOverwritten
    <2>1. PICK base \in Fresh \cup {Null} : New(base, "object", 1)
      BY <1>4 DEF MoveConstructArray
    <2>2. \A b \in Addr : Live(b)' /\ ~ Live(b) => BaseMade(b)
      BY <2>1, Distinct DEF New, Live, BaseMade, Fresh, OInv, PointersTypeOK
    <2> QED
      BY <1>4, <2>2, MoveLoses DEF MoveConstructArray
  <1>5. ASSUME NEW w \in Arrays \ {v}, MoveAssignArray(v, w) PROVE LosesOnlyOverwritten
    BY <1>5, MoveLoses DEF MoveAssignArray, heap, Live
  <1> QED
    BY <1>1, <1>2, <1>3, <1>4, <1>5 DEF ArrayStep

LEMMA BothLose ==
  ASSUME OInv, NEW v \in Names, Release(v) \/ Destroy(v) PROVE LosesOnlyOverwritten
  <1>1. CASE Release(v)
    <2>1. /\ \A u \in Names : u # v => ptr'[u] = ptr[u]
          /\ raw' = raw \cup ({ptr[v]} \ {Null}) /\ UNCHANGED kind
      BY <1>1 DEF Release, heap, OInv, PointersTypeOK
    <2> QED
      BY <2>1, OwnersLose, Distinct DEF Owned
  <1>2. CASE Destroy(v)
    <2>1. v \in Scope /\ ptr' = [ptr EXCEPT ![v] = Ended] /\ raw' = raw \ {Ended}
      BY <1>2, Distinct DEF Destroy, OInv, PointersTypeOK
    <2> QED
      BY <1>2, <2>1, DeletedIsDead, PutLoses DEF Destroy
  <1> QED
    BY <1>1, <1>2

(* A block is lost only when a move assignment overwrites the pointer to   *)
(* it, or when the base of an array pointer made it (memory.h:145, 247).   *)
THEOREM LossesKnown == Spec => LostOnlyByOverwriting
  <1>1. OInv /\ [Next]_vars => [LosesOnlyOverwritten]_vars
    BY ObjectLoses, ArrayLoses, BothLose DEF Next
  <1> QED
    BY <1>1, OInvAlways, PTL DEF Spec, LostOnlyByOverwriting

-----------------------------------------------------------------------------
(* All of them side by side. *)
PartsInv ==
  /\ Is("vector") => VectorInv
  /\ Is("string") => StringInv
  /\ Is("status") => ResultInv
  /\ Is("console") => ConsoleInv
  /\ Is("tests") => TestsInv
  /\ Is("stream") => StreamInv
  /\ Is("format") => FormatInv

LEMMA PartsAssumed ==
  /\ Vector!VectorAssumption /\ Text!StringAssumption
  /\ Result!StatusAssumption /\ Console!ConsoleAssumption
  /\ Stream!StreamAssumption /\ Format!FormatAssumption
  BY CoreAssumption

LEMMA PartsBegin == CoreInit => PartsInv
  <1> SUFFICES ASSUME CoreInit PROVE PartsInv
    OBVIOUS
  <1>1. /\ Is("vector") => Vector!Init
        /\ Is("string") => Text!Init
        /\ Is("status") => Result!Init
        /\ Is("console") => Console!Init
        /\ Is("tests") => Tests!Init
        /\ Is("stream") => Stream!Init
        /\ Is("format") => Format!Init
    BY DEF CoreInit, Is
  <1> QED
    BY <1>1, PartsAssumed, VectorInit, StringInit, ResultInit, ConsoleInit,
       TestsBegin, StreamBegins, FormatBegins DEF PartsInv

(* A step of the whole is one of the part exercised, or none of its. *)
LEMMA PartSteps ==
  ASSUME [CoreNext]_coreVars
  PROVE  /\ part' = part
         /\ Is("vector") => [Vector!Next]_vectorVars
         /\ Is("string") => [Text!Next]_stringVars
         /\ Is("status") => [Result!Next]_statusVars
         /\ Is("console") => [Console!Next]_consoleVars
         /\ Is("tests") => [Tests!Next]_testVars
         /\ Is("stream") => [Stream!Next]_streamVars
         /\ Is("format") => [Format!Next]_formatVars
  <1>1. CASE UNCHANGED coreVars
    BY <1>1 DEF coreVars
  <1>2. CASE CoreNext
    <2>1. part' = part
      BY <1>2 DEF CoreNext
    <2>2. Is("vector") => Vector!Next
      BY <1>2 DEF CoreNext, Is
    <2>3. Is("string") => Text!Next
      BY <1>2 DEF CoreNext, Is
    <2>4. Is("status") => Result!Next
      BY <1>2 DEF CoreNext, Is
    <2>5. Is("console") => Console!Next
      BY <1>2 DEF CoreNext, Is
    <2>6. Is("tests") => Tests!Next
      BY <1>2 DEF CoreNext, Is
    <2>7. Is("stream") => Stream!Next
      BY <1>2 DEF CoreNext, Is
    <2>8. Is("format") => Format!Next
      BY <1>2 DEF CoreNext, Is
    <2> QED
      BY <2>1, <2>2, <2>3, <2>4, <2>5, <2>6, <2>7, <2>8
  <1> QED
    BY <1>1, <1>2

LEMMA PartsStep ==
  ASSUME PartsInv, [CoreNext]_coreVars
  PROVE  PartsInv' /\ [Is("console") => Console!KeepsOtherRows]_coreVars
  <1>1. \A p : Is(p)' <=> Is(p)
    BY PartSteps DEF Is
  <1>2. Is("vector") => VectorInv'
    BY PartSteps, PartsAssumed, VectorStep DEF PartsInv
  <1>3. Is("string") => StringInv'
    BY PartSteps, PartsAssumed, StringStep DEF PartsInv
  <1>4. Is("status") => ResultInv'
    BY PartSteps, PartsAssumed, ResultStep DEF PartsInv
  <1>5. Is("console") => ConsoleInv' /\ [Console!KeepsOtherRows]_consoleVars
    BY PartSteps, PartsAssumed, ConsoleStep DEF PartsInv
  <1>6. Is("tests") => TestsInv'
    BY PartSteps, TestsStep DEF PartsInv
  <1>7. Is("stream") => StreamInv'
    BY PartSteps, PartsAssumed, StreamStep DEF PartsInv
  <1>8. Is("format") => FormatInv'
    BY PartSteps, PartsAssumed, FormatStep, FormatKept DEF PartsInv
  <1>9. PartsInv'
    BY <1>1, <1>2, <1>3, <1>4, <1>5, <1>6, <1>7, <1>8 DEF PartsInv, Is
  <1>10. UNCHANGED consoleVars => Console!KeepsOtherRows
    BY DEF consoleVars, Console!KeepsOtherRows
  <1>11. Is("console") => Console!KeepsOtherRows
    BY <1>5, <1>10
  <1> QED
    BY <1>9, <1>11

LEMMA PartsAlways == CoreSpec => []PartsInv
  <1>1. PartsInv /\ [CoreNext]_coreVars => PartsInv'
    BY PartsStep
  <1> QED
    BY <1>1, PartsBegin, PTL DEF CoreSpec

(* What the core types hold is what their calls describe, for every length,   *)
(* capacity and sequence of calls: a vector its list, in living elements, a   *)
(* string its text, and a StatusOr its status or its item (vector.h:36-163,   *)
(* string.h:34-153, status.h:87-200).                                         *)
THEOREM ContainersHoldTheirValues == CoreSpec => []ContainersKeepValues
  <1>1. PartsInv => ContainersKeepValues
    BY PartsAssumed, StringInvHolds
       DEF PartsInv, VectorInv, ResultInv, ContainersKeepValues
  <1> QED
    BY <1>1, PartsAlways, PTL

(* On a screen of any size, printing and scrolling leave every row but the    *)
(* cursor's as it was, or move them all (simpletext.h:80-138).                *)
THEOREM RowsAreKept == CoreSpec => OtherRowsKept
  <1>1. PartsInv /\ [CoreNext]_coreVars => [Is("console") => Console!KeepsOtherRows]_coreVars
    BY PartsStep
  <1> QED
    BY <1>1, PartsAlways, PTL DEF CoreSpec, OtherRowsKept

(* However many failing tests are registered, and whenever: none of the       *)
(* framework's own tests fails, every other one does and is reported, and     *)
(* logging is on whenever no test runs (test.h, test.cpp).                    *)
THEOREM VerdictsAreRight == CoreSpec => []VerdictsRight
  <1>1. PartsInv => VerdictsRight
    BY TestsInvHolds DEF PartsInv, VerdictsRight
  <1> QED
    BY <1>1, PartsAlways, PTL

(* Whichever component is exercised, the pointers do what OwningPointer says: *)
(* its theorems hold of the whole library.                                    *)
THEOREM PointersAsSpecified == CoreSpec => Spec
  <1>1. CoreInit => Init
    BY DEF CoreInit
  <1>2. [CoreNext]_coreVars => [Next]_vars
    <2>1. CASE UNCHANGED coreVars
      BY <2>1 DEF coreVars
    <2>2. CASE CoreNext
      BY <2>2 DEF CoreNext, Is
    <2> QED
      BY <2>1, <2>2
  <1> QED
    BY <1>1, <1>2, PTL DEF CoreSpec, Spec

(* Every component of the core library stays what its code takes it to be,    *)
(* whatever the sizes: lengths within capacities and buffers, the cursor      *)
(* within the screen, every pointer null, or a block some allocation made     *)
(* (memory.h, vector.h, string.h, status.h, ostream.h, format.cpp,            *)
(* simpletext.h, test.h).                                                     *)
THEOREM CoreTypes == CoreSpec => []CoreTypeOK
  <1>1. OInv /\ PartsInv => CoreTypeOK
    BY PartsAssumed, StringInvHolds, TestsInvHolds, FormatDone
       DEF OInv, PartsInv, VectorInv, ResultInv, ConsoleInv, StreamInv, CoreTypeOK
  <1> QED
    BY <1>1, OInvAlways, PartsAlways, PointersAsSpecified, PTL

(* For integers of any width, fields of any width and every fill: what an     *)
(* ostream prints reads back as the number, but for zeros behind it, and is   *)
(* no shorter than asked; and the buffer holds the digits of every number     *)
(* but in octal (ostream.cpp).                                                *)
THEOREM FieldsReadBack == CoreSpec => []FieldReadsBack
  <1>1. PartsInv => FieldReadsBack
    BY DEF PartsInv, StreamInv, FieldReadsBack
  <1> QED
    BY <1>1, PartsAlways, PTL

(* For every format string made of directives: vparsef prints what they say,  *)
(* unless a %% is among them before the end, and takes one argument for each  *)
(* of them and each star; and a number fills its width, has a minus when it   *)
(* is negative and shows its digits (format.cpp).                             *)
THEOREM FormatsObeyed == CoreSpec => []FormatObeyed
  <1>1. PartsInv => FormatObeyed
    BY PartsAssumed, FormatDone DEF PartsInv, FormatObeyed
  <1> QED
    BY <1>1, PartsAlways, PTL
=============================================================================
