------------------------------ MODULE Terminal ------------------------------
(* What the framebuffer console promises to the code that prints: a window of*)
(* Rows lines of Cols cells with a cursor, and under it a status bar that    *)
(* text never touches.  Pixels, buffers, dirty rectangles and the display    *)
(* device do not exist at this level.                                        *)
EXTENDS Integers, Sequences

CONSTANTS Cols,      \* cells per line
          Rows,      \* lines of the window
          TabStop,   \* tabs advance to a multiple of this column
          Image,     \* a cell of what the framebuffer's owner draws
          Texts      \* what one print call may write: sequences of characters

VARIABLES lines,     \* the window, one sequence of Cols cells per line
          row, col,  \* the cursor; col = Cols means: wrap before the next glyph
          bar        \* what the status bar shows

vars == <<lines, row, col, bar>>

Blank == "space"
BlankLine == [c \in 1..Cols |-> Blank]

Scrolled(ls) == [r \in 1..Rows |-> IF r < Rows THEN ls[r + 1] ELSE BlankLine]

\* A line feed at the bottom drops the top line.
LineFeed(t) ==
  IF t.row < Rows THEN [lines |-> t.lines, row |-> t.row + 1, col |-> 0]
  ELSE [lines |-> Scrolled(t.lines), row |-> t.row, col |-> 0]

Glyph(t, ch) ==
  LET u == IF t.col >= Cols THEN LineFeed(t) ELSE t
  IN  [lines |-> [u.lines EXCEPT ![u.row][u.col + 1] = ch],
       row |-> u.row, col |-> u.col + 1]

\* A tab blanks the cells up to the next stop or the end of the line.
Tab(t) ==
  LET next == (t.col \div TabStop + 1) * TabStop
      stop == IF next < Cols THEN next ELSE Cols
      blanked == [c \in 1..Cols |-> IF c \in t.col + 1 .. stop THEN Blank
                                     ELSE t.lines[t.row][c]]
  IN  [lines |-> [t.lines EXCEPT ![t.row] = blanked], row |-> t.row, col |-> stop]

Char(t, ch) ==
  CASE ch = "newline"   -> LineFeed(t)
    [] ch = "return"    -> [t EXCEPT !.col = 0]
    [] ch = "backspace" -> IF t.col = 0 THEN t
                           ELSE [lines |-> [t.lines EXCEPT ![t.row][t.col] = Blank],
                                 row |-> t.row, col |-> t.col - 1]
    [] ch = "tab"       -> Tab(t)
    [] OTHER            -> Glyph(t, ch)

Written(t, text) ==
  LET upto[n \in 0..Len(text)] == IF n = 0 THEN t ELSE Char(upto[n - 1], text[n])
  IN  upto[Len(text)]

Write(text) ==
  LET t == Written([lines |-> lines, row |-> row, col |-> col], text)
  IN  /\ lines' = t.lines /\ row' = t.row /\ col' = t.col
      /\ UNCHANGED bar

DrawBar == UNCHANGED <<lines, row, col>>   \* bar' is whatever is drawn

\* Clearing blanks the bar as well, until it is drawn again.
Clear ==
  /\ lines' = [r \in 1..Rows |-> BlankLine]
  /\ row' = 1 /\ col' = 0

\* A process that owns the framebuffer paints over everything; the cursor stays.
Overdraw ==
  /\ lines' = [r \in 1..Rows |-> [c \in 1..Cols |-> Image]]
  /\ UNCHANGED <<row, col>>

Init ==
  /\ lines = [r \in 1..Rows |-> BlankLine]
  /\ row = 1 /\ col = 0

Next == (\E text \in Texts : Write(text)) \/ DrawBar \/ Clear \/ Overdraw

Spec == Init /\ [][Next]_vars
=============================================================================
