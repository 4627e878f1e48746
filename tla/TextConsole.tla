----------------------------- MODULE TextConsole -----------------------------
(* SimpleTextOutput (simpletext.h) on a frame buffer (framebuf.h), in cells   *)
(* of one character: the cursor, wrapping, scrolling, tabs and colours.       *)
EXTENDS Naturals

CONSTANTS rows_, cols_,
          TabStop,       \* 8
          Glyphs,        \* characters of 32 and above
          Colors,        \* indices of the palette that may be chosen
          MaxRow         \* bound: nothing is printed once the cursor is there

(* What holds of the constants. *)
ConsoleAssumption ==
  /\ {rows_, cols_, TabStop} \subseteq Nat \ {0}
  /\ Colors \subseteq 0 .. 15 /\ MaxRow \in Nat

VARIABLES row_, col_, bg_, fg_,
          screen,        \* what each cell of the frame buffer shows
          drawn          \* the cell drawn last

vars == <<row_, col_, bg_, fg_, screen, drawn>>

Rows == 0 .. rows_ - 1
Cols == 0 .. cols_ - 1
Blank(color) == [glyph |-> " ", bg |-> color, fg |-> color]
Black == 0
White == 15

Init == /\ row_ = 0 /\ col_ = 0 /\ bg_ = Black /\ fg_ = White
        /\ screen = [r \in Rows |-> [c \in Cols |-> Blank(Black)]]
        /\ drawn = [row |-> 0, col |-> 0]

(* setBg and setFg take colours below 15: white cannot be chosen again.       *)
SetBg(c) == c < 15 /\ bg_' = c /\ UNCHANGED <<row_, col_, fg_, screen, drawn>>
SetFg(c) == c < 15 /\ fg_' = c /\ UNCHANGED <<row_, col_, bg_, screen, drawn>>

(* FrameBuffer::clear                                                         *)
Clear(color) == /\ screen' = [r \in Rows |-> [c \in Cols |-> Blank(color)]]
                /\ UNCHANGED <<row_, col_, bg_, fg_, drawn>>

(* The copy of every line to the one above it, and a blank last line.         *)
ScrolledUp == [r \in Rows |-> IF r + 1 < rows_ THEN screen[r + 1]
                              ELSE [c \in Cols |-> Blank(bg_)]]
(* It scrolls one row early. *)
MutantScrolls(row) == row + 1 >= rows_

Scrolls(row) == row >= rows_

(* drawCharacter; a cell outside the frame buffer is drawn all the same, in   *)
(* the memory behind it.                                                      *)
Drawn(s, glyph, row, from, to) ==
  [r \in Rows |-> [c \in Cols |-> IF r = row /\ c \in from .. to
                                  THEN [glyph |-> glyph, bg |-> bg_, fg |-> fg_] ELSE s[r][c]]]

(* Where a tab leaves the cursor: at the next stop, or behind the last column.*)
(* Column 0 is a stop, and since only tabs advance the cursor it never leaves *)
(* it: characters are printed one over the other.                             *)
TabEnd(col) ==
  LET newCol == ((col + TabStop - 1) \div TabStop) * TabStop
  IN IF newCol < cols_ THEN newCol ELSE cols_

(* One character of print(): wrap or break, scroll, then a tab drawn as       *)
(* spaces up to the next stop, or the character, which leaves col_ alone.     *)
PrintNext(char) ==
  LET breaks == char = "newline" \/ col_ >= cols_
      row == IF breaks THEN row_ + 1 ELSE row_
      col == IF breaks THEN 0 ELSE col_
      page == IF Scrolls(row) THEN ScrolledUp ELSE screen
      end == TabEnd(col)
  IN /\ row_ < MaxRow
     /\ row_' = row
     /\ \/ /\ char = "tab" /\ col_' = end
           /\ screen' = Drawn(page, " ", row, col, end - 1)
           /\ drawn' = IF end > col THEN [row |-> row, col |-> end - 1] ELSE drawn
        \/ /\ char \in Glyphs /\ col_' = col
           /\ screen' = Drawn(page, char, row, col, col)
           /\ drawn' = [row |-> row, col |-> col]
        \/ /\ char \in {"newline", "control"} /\ col_' = col
           /\ screen' = page /\ UNCHANGED drawn
     /\ UNCHANGED <<bg_, fg_>>

Next == \/ \E char \in Glyphs \cup {"newline", "tab", "control"} : PrintNext(char)
        \/ \E c \in Colors : SetBg(c) \/ SetFg(c) \/ Clear(c)

Spec == Init /\ [][Next]_vars

------------------------------------------------------------------------------
(* Type invariant. *)
ConsoleTypeOK ==
  /\ row_ \in 0 .. MaxRow /\ col_ \in 0 .. cols_ /\ drawn.col \in Cols
  /\ bg_ \in 0 .. 14 /\ fg_ \in 0 .. 15
  /\ screen \in [Rows -> [Cols -> [glyph : Glyphs \cup {" "}, bg : Colors \cup {Black},
                                   fg : Colors \cup {Black, White}]]]

(* As long as the cursor is on the screen, printing changes its row only:     *)
(* what other rows show stays, whatever is wrapped, broken or drawn by tabs.  *)
KeepsOtherRows ==
  row_' < rows_ /\ screen' # [r \in Rows |-> [c \in Cols |-> Blank(screen'[0][0].bg)]] =>
    \A r \in Rows \ {row_'} : screen'[r] = screen[r]

=============================================================================
