------------------------------- MODULE Digits -------------------------------
(* outdigits (format.h), with which numbers are printed. *)
EXTENDS Integers, Sequences

Lower == <<"0", "1", "2", "3", "4", "5", "6", "7", "8", "9", "a", "b", "c", "d", "e", "f">>
Upper == <<"0", "1", "2", "3", "4", "5", "6", "7", "8", "9", "A", "B", "C", "D", "E", "F">>
Digit(d, upper) == (IF upper THEN Upper ELSE Lower)[d + 1]

(* The digits of a value, most significant first, and at least one: they are *)
(* found from the last to the first.                                         *)
outdigits(value, base, upper) ==
  LET digits[v \in 0 .. value] ==
        IF v < base THEN <<Digit(v, upper)>>
        ELSE Append(digits[v \div base], Digit(v % base, upper))
  IN digits[value]

(* Reading a digit back, and how many numbers n digits can tell apart.       *)
DigitValue(c) == CHOOSE d \in 0 .. 15 : c \in {Digit(d, TRUE), Digit(d, FALSE)}
Power(base, n) ==
  LET power[i \in 0 .. n] == IF i = 0 THEN 1 ELSE base * power[i - 1]
  IN power[n]
=============================================================================
