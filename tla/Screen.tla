------------------------------- MODULE Screen -------------------------------
(***************************************************************************)
(* A terminal, as far as the library uses one: a character is put at the    *)
(* cursor and wraps at the right edge, a newline goes to the start of the   *)
(* next row (the library leaves output processing on), the screen scrolls,  *)
(* the cursor jumps, the rest of the screen is cleared.  Rows are counted   *)
(* from 0, those that have scrolled away included.                          *)
(*                                                                         *)
(* After a character in the last column the cursor stays there until the    *)
(* next character: wrap.  A cell is a character and its highlighting.       *)
(***************************************************************************)
EXTENDS Integers, SequencesExt

CONSTANT Height \* rows of the screen

Plain(c) == [c |-> c, mark |-> ""]
Blank == Plain(" ")
Newline == "\n"

Lower(a, b) == IF a < b THEN a ELSE b
Upper(a, b) == IF a > b THEN a ELSE b
Cropped(row, columns) == SubSeq(row, 1, Lower(columns, Len(row)))

Fresh(columns) == [rows |-> << <<>> >>, x |-> 0, y |-> 0, top |-> 0, wrap |-> FALSE,
                   columns |-> columns]

\* Rows exist down to the cursor's.
Reaching(rows, y) == rows \o [i \in 1..Upper(0, y + 1 - Len(rows)) |-> <<>>]

Moved(t, x, y) ==
  [t EXCEPT !.x = x, !.y = y, !.wrap = FALSE, !.rows = Reaching(@, y),
            !.top = Upper(@, y - Height + 1)]

Feed(t) == Moved(t, 0, t.y + 1)

Blanks(n) == [i \in 1..n |-> Blank]

\* row with cell in column x
Placed(row, x, cell) ==
  IF x < Len(row) THEN [row EXCEPT ![x + 1] = cell]
  ELSE row \o Blanks(x - Len(row)) \o <<cell>>

Put(t, cell) ==
  LET at == IF t.wrap THEN Feed(t) ELSE t
      last == at.x = at.columns - 1
  IN IF cell.c = Newline THEN Feed(t)
     ELSE [at EXCEPT !.rows[at.y + 1] = Placed(@, at.x, cell),
                     !.x = IF last THEN @ ELSE @ + 1, !.wrap = last]

Written(t, cells) ==
  LET after[i \in 0..Len(cells)] == IF i = 0 THEN t ELSE Put(after[i - 1], cells[i])
  IN after[Len(cells)]

\* The cursor does not leave the screen.
JumpCursor(t, x, yOffset) ==
  Moved(t, Lower(x, t.columns - 1),
        Upper(t.top, Lower(t.top + Height - 1, t.y + yOffset)))

ClearToEnd(t) ==
  LET row == t.rows[t.y + 1]
  IN [t EXCEPT !.rows = Append(SubSeq(@, 1, t.y), IF t.wrap THEN row ELSE Cropped(row, t.x))]

\* Rows that become too long are cut, none is wrapped anew.
Resized(t, columns) ==
  [t EXCEPT !.columns = columns, !.x = Lower(@, columns - 1), !.wrap = FALSE,
            !.rows = [i \in DOMAIN @ |-> Cropped(@[i], columns)]]

-----------------------------------------------------------------------------

\* The cell in column x of rows[y].
CellIn(rows, y, x) ==
  IF y \in DOMAIN rows THEN IF x < Len(rows[y]) THEN rows[y][x + 1] ELSE Blank ELSE Blank

\* From row number base on, the screen shows rows and nothing else.
Shows(t, base, rows) ==
  \A y \in 1..Upper(Len(rows), Len(t.rows) - base), x \in 0..(t.columns - 1) :
    CellIn(t.rows, base + y, x) = CellIn(rows, y, x)

=============================================================================
