---------------------------- MODULE FormatString ----------------------------
(* Printf-style logging: Logger's level test, then Formatter::vparsef, one   *)
(* step per parsing function. The format is a sequence of characters made of *)
(* whole directives, so that what it asks for is known beforehand; a 64-bit  *)
(* argument is Bits wide, the others half that.                              *)
EXTENDS Digits, SequencesExt

CONSTANTS Bits,
          Formats,    \* lists of directives, each a literal character or the
                      \* parts of a conversion
          Arguments,  \* values va_arg may find
          LevelOrder  \* the log levels, most urgent first

FlagChars == {"-", "+", " ", "#", "0"}
Decimals == ToSet(SubSeq(Lower, 1, 10))
Lengths == {<<>>, <<"h">>, <<"h", "h">>, <<"l">>, <<"l", "l">>, <<"j">>, <<"z">>, <<"t">>,
            <<"L">>}

(* What holds of the constants: no part of a directive can be taken for      *)
(* another.                                                                  *)
WellFormed(d) ==
  /\ d.literal \in BOOLEAN /\ d.conversion \in STRING
  /\ d.literal => d.conversion # "%"
  /\ ~d.literal =>
       /\ d.flags \in Seq(FlagChars) /\ d.length \in Lengths
       /\ \/ d.width = <<"*">>
          \/ d.width \in Seq(Decimals) /\ (d.width # <<>> => d.width[1] # "0")
       /\ d.precision \in Seq(Decimals \cup {"."})
       /\ \A i \in 1 .. Len(d.precision) : (i = 1) <=> d.precision[i] = "."
       /\ d.conversion \notin FlagChars \cup Decimals
                             \cup {".", "*", "h", "l", "j", "z", "t", "L"}
FormatAssumption ==
  /\ Bits \in Nat \ {0, 1} /\ Arguments \subseteq Int
  /\ \A f \in Formats : /\ f \in Seq(ToSet(f)) /\ \A i \in 1 .. Len(f) : WellFormed(f[i])

VARIABLES directives,  \* history: the directives format_ consists of
          c_,          \* what is left of format_
          flags_, width_, size_,
          used,        \* how many arguments va_arg took
          out,         \* what outputChars was called with
          number,      \* the number just printed
          pc

vars == <<directives, c_, flags_, width_, size_, used, out, number, pc>>
spec == <<flags_, width_, size_>>

Integrals == {"d", "i", "u", "o", "x", "X", "p"}
Floats == {"f", "e", "E", "g", "G", "a", "A"}
Conversions == Integrals \cup Floats \cup {"c", "s", "n", "%"}

(* A directive: its characters, the arguments it takes, what it prints.      *)
Chars(d) ==
  IF d.literal THEN <<d.conversion>>
  ELSE <<"%">> \o d.flags \o d.width \o d.precision \o d.length \o <<d.conversion>>
Takes(d) ==
  IF d.literal THEN 0
  ELSE (IF d.width = <<"*">> THEN 1 ELSE 0) + (IF d.conversion = "%" THEN 0 ELSE 1)
Prints(d) ==
  CASE d.literal -> <<d.conversion>>
    [] ~d.literal /\ d.conversion \in Integrals -> <<"number">>
    [] ~d.literal /\ d.conversion \in Floats -> <<"?">>
    [] ~d.literal /\ d.conversion \in {"c", "s"} -> <<"text">>
    [] ~d.literal /\ d.conversion = "n" -> <<>>
    [] ~d.literal /\ d.conversion = "%" -> <<"%">>
    [] ~d.literal /\ d.conversion \notin Conversions -> <<"?", d.conversion>>

(* The format itself, from its last directive to its first.                  *)
Format(ds) ==
  LET text[i \in 0 .. Len(ds)] ==
        IF i = 0 THEN <<>> ELSE Chars(ds[Len(ds) - i + 1]) \o text[i - 1]
  IN text[Len(ds)]
NoNumber == [chars |-> <<>>, val |-> 0, width |-> 0]

Rank(level) == CHOOSE i \in DOMAIN LevelOrder : LevelOrder[i] = level

(* Logger::vlog(level, format, argp): nothing above the logger's level.      *)
Init ==
  \E logger, level \in ToSet(LevelOrder) :
    /\ directives \in Formats /\ c_ = Format(directives)
    /\ flags_ = {} /\ width_ = 0 /\ size_ = 0
    /\ used = 0 /\ out = <<>> /\ number = NoNumber
    /\ pc = IF Rank(level) > Rank(logger) THEN "silent" ELSE "loop"

Here == IF c_ = <<>> THEN "end" ELSE c_[1]
Rest == IF c_ = <<>> THEN <<>> ELSE Tail(c_)

(* The characters at the front that belong to a set, and those behind them.  *)
Run(s, set) == CHOOSE n \in 0 .. Len(s) : /\ \A i \in 1 .. n : s[i] \in set
                                          /\ n < Len(s) => s[n + 1] \notin set

(* The loop of vparsef: a character printed as it is, or a directive.        *)
PrintChar ==
  /\ pc = "loop" /\ c_ # <<>> /\ Here # "%"
  /\ out' = Append(out, Here) /\ c_' = Rest /\ number' = NoNumber
  /\ UNCHANGED <<directives, spec, used, pc>>

parseFlags ==
  /\ pc = "loop" /\ Here = "%"
  /\ LET n == Run(Rest, FlagChars)
     IN flags_' = ToSet(SubSeq(Rest, 1, n)) /\ c_' = SubSeq(Rest, n + 1, Len(Rest))
  /\ pc' = "width" /\ number' = NoNumber
  /\ UNCHANGED <<directives, width_, size_, used, out>>

ParsedNumber(s) ==
  LET parsed[i \in 0 .. Len(s)] ==
        IF i = 0 THEN 0 ELSE parsed[i - 1] * 10 + DigitValue(s[i])
  IN parsed[Len(s)]

parseWidth ==
  /\ pc = "width" /\ pc' = "precision"
  /\ IF Here = "*"
     THEN /\ \E w \in Arguments : width_' = w
          /\ used' = used + 1 /\ c_' = Rest
     ELSE LET n == Run(c_, Decimals)
          IN /\ width_' = ParsedNumber(SubSeq(c_, 1, n))
             /\ c_' = SubSeq(c_, n + 1, Len(c_)) /\ UNCHANGED used
  /\ UNCHANGED <<directives, flags_, size_, out, number>>

(* The precision is parsed, and not used.                                    *)
parsePrecision ==
  /\ pc = "precision" /\ pc' = "length"
  /\ c_' = IF Here = "." THEN SubSeq(Rest, Run(Rest, Decimals) + 1, Len(Rest)) ELSE c_
  /\ UNCHANGED <<directives, spec, used, out, number>>

parseLength ==
  /\ pc = "length" /\ pc' = "convert"
  /\ LET twice == Here \in {"h", "l"} /\ Len(c_) > 1 /\ c_[2] = Here
     IN /\ size_' = CASE Here = "h" -> IF twice THEN 1 ELSE 2
                      [] Here \in {"l", "j", "z", "t"} -> 8
                      [] Here = "L" -> 16
                      [] OTHER -> 0
        /\ c_' = IF size_' = 0 THEN c_ ELSE IF twice THEN Tail(Rest) ELSE Rest
  /\ UNCHANGED <<directives, flags_, width_, used, out, number>>

(* va_arg of 64 or of 32 bits, signed and unsigned.                          *)
Width == IF size_ = 8 THEN Bits ELSE Bits \div 2
AsUnsigned(x, bits) == x % Power(2, bits)
AsSigned(x, bits) == LET u == AsUnsigned(x, bits)
                     IN IF u >= Power(2, bits - 1) THEN u - Power(2, bits) ELSE u

Fill(n) == [i \in 1 .. n |-> IF "0" \in flags_ THEN "0" ELSE " "]

(* outputNumber: sign and prefix, the fill, the digits of the magnitude, and *)
(* the fill again when it is to the right.                                   *)
outputNumber(x, isSigned, upper, base) ==
  LET sign == IF ~isSigned THEN <<>> ELSE IF x < 0 THEN <<"-">>
              ELSE IF "+" \in flags_ THEN <<"+">>
              ELSE IF " " \in flags_ THEN <<" ">> ELSE <<>>
      prefix == IF "#" \notin flags_ THEN <<>>
                ELSE IF base = 8 /\ x = 0 THEN <<"0">>
                ELSE IF base = 16 THEN <<"0", IF upper THEN "X" ELSE "x">> ELSE <<>>
      digits == outdigits(IF x < 0 THEN -x ELSE x, base, upper)
      count == Len(sign) + Len(prefix) + Len(digits)
      fill == Fill(IF count < width_ THEN width_ - count ELSE 0)
  IN IF "-" \in flags_ THEN sign \o prefix \o digits \o fill
     ELSE sign \o prefix \o fill \o digits

outputChars(what) == out' = Append(out, what)

(* The conversions; each takes the argument it names, none for %%, and an    *)
(* unknown one takes an int and stays where it is.                           *)
Integer ==
  /\ Here \in Integrals
  /\ \E x \in Arguments :
       LET isSigned == Here \in {"d", "i"}
           val == IF isSigned THEN AsSigned(x, Width) ELSE AsUnsigned(x, Width)
           base == CASE Here \in {"d", "i", "u"} -> 10 [] Here = "o" -> 8
                     [] Here \in {"x", "X", "p"} -> 16
       IN number' = [chars |-> outputNumber(val, isSigned, Here = "X", base),
                     val |-> val, width |-> width_]
  /\ outputChars("number") /\ used' = used + 1 /\ c_' = Rest

Text == /\ Here \in {"c", "s"} /\ outputChars("text")
        /\ used' = used + 1 /\ c_' = Rest /\ UNCHANGED number
Unsupported == /\ Here \in Floats /\ outputChars("?")
               /\ used' = used + 1 /\ c_' = Rest /\ UNCHANGED number
CharsWritten == /\ Here = "n" /\ UNCHANGED <<out, number>>
                /\ used' = used + 1 /\ c_' = Rest

(* outputChars(c_++) is given all of the format that is left.                *)
Percent == /\ Here = "%" /\ out' = out \o c_ /\ c_' = Rest /\ UNCHANGED <<used, number>>

(* The unknown conversion does not take its argument. *)
MutantUnknown ==
  Here \notin Conversions /\ outputChars("?") /\ UNCHANGED <<c_, number, used>>

Unknown == /\ Here \notin Conversions
           /\ outputChars("?") /\ used' = used + 1 /\ UNCHANGED <<c_, number>>

Convert ==
  /\ pc = "convert" /\ pc' = "loop"
  /\ Integer \/ Text \/ Unsupported \/ CharsWritten \/ Percent \/ Unknown
  /\ UNCHANGED <<directives, spec>>

Finish == /\ pc = "loop" /\ c_ = <<>> /\ pc' = "done"
          /\ UNCHANGED <<directives, c_, spec, used, out, number>>

Next == PrintChar \/ parseFlags \/ parseWidth \/ parsePrecision \/ parseLength
        \/ Convert \/ Finish

Spec == Init /\ [][Next]_vars

-----------------------------------------------------------------------------
FormatTypeOK ==
  /\ pc \in {"silent", "loop", "width", "precision", "length", "convert", "done"}
  /\ width_ \in Int /\ size_ \in {0, 1, 2, 8, 16} /\ used \in Nat

(* When vparsef is done it has taken one argument for every conversion and   *)
(* every star, and printed what the directives ask for, in order; but %%     *)
(* prints all that follows it too, so that only a last one is right.         *)
TakenBy(ds) ==
  LET taken[i \in 0 .. Len(ds)] == IF i = 0 THEN 0 ELSE taken[i - 1] + Takes(ds[i])
  IN taken[Len(ds)]
PrintedBy(ds) ==
  LET printed[i \in 0 .. Len(ds)] == IF i = 0 THEN <<>> ELSE printed[i - 1] \o Prints(ds[i])
  IN printed[Len(ds)]
Doubled == \E i \in 1 .. Len(directives) - 1 :
             ~directives[i].literal /\ directives[i].conversion = "%"
FormatObeyed ==
  pc = "done" /\ ~Doubled =>
    used = TakenBy(directives) /\ out = PrintedBy(directives)

(* A number printed is at least as wide as asked, has a minus exactly when   *)
(* it is negative, and is padded only when it was too short.                 *)
NumberInField ==
  number.chars # <<>> =>
    /\ Len(number.chars) >= number.width
    /\ number.val < 0 <=> number.chars[1] = "-"
    /\ \E n \in 1 .. Len(number.chars) :
         \E base \in {8, 10, 16}, upper \in BOOLEAN :
           LET digits == outdigits(IF number.val < 0 THEN -number.val ELSE number.val, base, upper)
           IN n + Len(digits) - 1 <= Len(number.chars)
              /\ SubSeq(number.chars, n, n + Len(digits) - 1) = digits

=============================================================================
