----------------------------- MODULE TextStream -----------------------------
(* Formatting state of an output stream and the numbers it prints: ios.h,    *)
(* iomanip.h, ostream and ostringstream. Numbers are Bits wide and printed   *)
(* through a buffer of buf_chrs characters, filled from its end.             *)
EXTENDS Digits, SequencesExt

CONSTANTS Bits,       \* of uintmax_t
          FlagNames,  \* the flags in use
          buf_chrs,
          Numbers,    \* values printed, as intmax_t
          Widths,     \* arguments of setw
          Fills       \* arguments of setfill

(* What holds of the constants: the buffer is good for numbers of Bits bits  *)
(* in base ten, and no fill is taken for a part of a number, except a zero.  *)
StreamAssumption ==
  /\ Bits \in Nat \ {0} /\ buf_chrs \in Nat \ {0} /\ Widths \subseteq Nat
  /\ Numbers \subseteq -Power(2, Bits - 1) .. Power(2, Bits - 1) - 1
  /\ Power(2, Bits) <= Power(10, buf_chrs)
  /\ Fills \cap (ToSet(Lower) \cup ToSet(Upper) \cup {"+", "x", "X"}) \subseteq {"0"}

VARIABLES flags_, width_, fill_,
          field      \* the number just printed, and how, if one was

vars == <<flags_, width_, fill_, field>>

NoField == [chars |-> <<>>, value |-> 0]

Init == flags_ = {} /\ width_ = 0 /\ fill_ = " " /\ field = NoField

(* setf(f), unsetf(f) and setf(f, mask).                                     *)
setf(flags, f) == flags \cup f
unsetf(flags, f) == flags \ f
setfMasked(flags, f, mask) == (flags \ mask) \cup (f \cap mask)

(* The manipulators: what each clears and what it then sets.                 *)
Switches == {"boolalpha", "showbase", "showpoint", "showpos", "skipws", "unitbuf",
             "uppercase"}
Groups == {{"dec", "hex", "oct"}, {"fixed", "scientific"}, {"internal", "left", "right"}}
Manipulators ==
  {[clear |-> {}, set |-> {f}] : f \in Switches \cap FlagNames} \cup
  {[clear |-> {f}, set |-> {}] : f \in Switches \cap FlagNames} \cup
  UNION {{[clear |-> g \ {f}, set |-> {f}] : f \in g \cap FlagNames} : g \in Groups}

Become(flags, width, fill) ==
  flags_' = flags /\ width_' = width /\ fill_' = fill /\ field' = NoField

Manipulate(m) == Become(setf(unsetf(flags_, m.clear), m.set), width_, fill_)

(* setiosflags, resetiosflags, and setf with a mask.                         *)
SetFlags(f) ==
  \/ Become(setf(flags_, f), width_, fill_) \/ Become(unsetf(flags_, f), width_, fill_)
  \/ \E g \in Groups : Become(setfMasked(flags_, f, g), width_, fill_)

(* setw and setfill stay until the next one; setbase is dec, hex, oct, or    *)
(* nothing.                                                                  *)
SetWidth(w) == Become(flags_, w, fill_)
SetFill(c) == Become(flags_, width_, c)
SetBase(b) ==
  LET base == CASE b = 10 -> {"dec"} [] b = 16 -> {"hex"} [] b = 8 -> {"oct"} [] OTHER -> {}
  IN Become(IF base = {} THEN flags_ ELSE (flags_ \ {"dec", "hex", "oct"}) \cup base,
            width_, fill_)

Base(flags) == IF "hex" \in flags THEN 16 ELSE IF "oct" \in flags THEN 8 ELSE 10

(* The prefix is not counted in the width. *)
MutantPadding(n) == [i \in 1 .. n - 1 |-> fill_]

Padding(n) == [i \in 1 .. n |-> fill_]

(* out(): padding before the sign when left is set, behind the prefix when   *)
(* internal is, and behind the number otherwise.                             *)
out(value, isSigned, negative) ==
  LET sign == IF (isSigned /\ negative) \/ "showpos" \in flags_
              THEN IF negative THEN <<"-">> ELSE <<"+">> ELSE <<>>
      prefix == IF "showbase" \notin flags_ THEN <<>>
                ELSE IF "hex" \in flags_
                     THEN <<"0", IF "uppercase" \in flags_ THEN "X" ELSE "x">>
                     ELSE IF "oct" \in flags_ /\ value # 0 THEN <<"0">> ELSE <<>>
      digits == outdigits(value, Base(flags_), "uppercase" \in flags_)
      printed == Len(sign) + Len(prefix) + Len(digits)
      pad == Padding(IF printed < width_ THEN width_ - printed ELSE 0)
  IN IF "left" \in flags_ THEN pad \o sign \o prefix \o digits
     ELSE IF "internal" \in flags_ THEN sign \o prefix \o pad \o digits
     ELSE sign \o prefix \o digits \o pad

(* write(value, is_signed), for signed and for unsigned types: the value     *)
(* converted to unsigned, its magnitude printed. Whether it was negative is  *)
(* asked of the unsigned value, so never.                                    *)
WriteNumber(x, is_signed) ==
  LET value == x % Power(2, Bits)
      positive == IF is_signed /\ value >= Power(2, Bits - 1) THEN Power(2, Bits) - value
                  ELSE value
  IN /\ field' = [chars |-> out(positive, is_signed, value < 0), value |-> positive]
     /\ UNCHANGED <<flags_, width_, fill_>>

(* A bool is printed as a word; text, endl and flush leave the state alone.  *)
WriteWord ==
  /\ field' = [chars |-> <<"word">>, value |-> 0]
  /\ UNCHANGED <<flags_, width_, fill_>>

(* ss = {}                                                                   *)
NewStream == Become({}, 0, " ")

Next == \/ \E m \in Manipulators : Manipulate(m)
        \/ \E f \in {{"hex"}, {"left", "internal"}} : SetFlags(f)
        \/ \E w \in Widths : SetWidth(w)
        \/ \E c \in Fills : SetFill(c)
        \/ \E b \in {2, 8, 10, 16} : SetBase(b)
        \/ \E x \in Numbers : WriteNumber(x, TRUE) \/ (x >= 0 /\ WriteNumber(x, FALSE))
        \/ WriteWord \/ NewStream

Spec == Init /\ [][Next]_vars

-----------------------------------------------------------------------------
StreamTypeOK ==
  /\ flags_ \subseteq Switches \cup UNION Groups
  /\ width_ \in Nat /\ field.value \in 0 .. Power(2, Bits) - 1

(* What an insertion prints: at least as wide as asked, filled only when     *)
(* needed, and readable: the digits, in the base of the flags, are the       *)
(* magnitude of the number, unless zeroes fill up on the right (the default  *)
(* adjustment). A plus is there when asked for; the minus never is.          *)
Skipped == {" ", "+", "-", "x", "X"} \cup ({fill_} \ {"0"})
ReadBack(chars, base) ==
  LET number[i \in 0 .. Len(chars)] ==
        IF i = 0 THEN 0
        ELSE IF chars[i] \in Skipped THEN number[i - 1]
        ELSE number[i - 1] * base + DigitValue(chars[i])
  IN number[Len(chars)]

FieldReadsBack ==
  field.chars \notin {<<>>, <<"word">>} =>
    /\ Len(field.chars) >= width_
    /\ Len(field.chars) > width_ => fill_ = "0" \/ fill_ \notin ToSet(field.chars)
    /\ \/ fill_ = "0" /\ flags_ \cap {"left", "internal"} = {}
       \/ ReadBack(field.chars, Base(flags_)) = field.value
    /\ "+" \in ToSet(field.chars) <=> "showpos" \in flags_

(* No number has more digits than the buffer of 20 (ostream.cpp:21) has room *)
(* for, unless it is printed in base eight.                                  *)
BufferSufficesButForOctal ==
  Base(flags_) # 8 => Len(outdigits(field.value, Base(flags_), FALSE)) <= buf_chrs

=============================================================================
