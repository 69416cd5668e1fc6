------------------------------ MODULE Rendering ------------------------------
(***************************************************************************)
(* How the line gets on the screen: virtual_render(), render(), the hints,  *)
(* the matching parenthesis, refresh_line(), move_cursor(), repaint() and   *)
(* the prompt, on the terminal of module Screen.  The library keeps no      *)
(* picture of the screen: it knows how many rows the cursor is below the    *)
(* start of the prompt, and every drawing starts from there.                *)
(*                                                                         *)
(* A call of refresh_line() within a millisecond of the last one is skipped *)
(* and made up for when read_char() times out; which calls come so soon     *)
(* (rapid) is chosen anew each time.  Colours are left out but for the      *)
(* highlighted parentheses and the hints; every character is one column     *)
(* wide.  The hinter answers at once and always the same.                   *)
(***************************************************************************)
EXTENDS Screen

CONSTANTS
  Glyphs,      \* the characters there are
  Widths,      \* of the terminal
  Prompts,     \* the prompts' texts, whose last line is shorter than any width
  Preloads,    \* what the line starts with or is replaced by
  Characters,  \* what may be typed
  Messages,    \* what is printed above the prompt: a row each
  OptionVals,  \* records: whether there is a hinter, whether hints are shown
               \* after a delay only, and set_indent_multiline
  Hints(_),    \* its hints for a context
  WordBreaks,  \* where contexts start
  MaxHintRows,
  MaxLen,      \* bound: of the line
  MaxSteps,    \* bound: of what happens in all
  Risks        \* the defects that are let happen

\* Newlines: a newline right after one that ends a full row moves the cursor by
\* no row in virtual_render().  Prompt: the reader's set_prompt() changes the
\* prompt before it clears the old one.  Rapid: what is written, drawn or moved over
\* a skipped refresh trusts the picture that was not drawn.  Cursor: a character
\* typed at the end of the line leaves _oldPos before it.  Hints: a refresh that
\* makes up for a skipped one takes the place of the one that shows the hints, and
\* repaint() forgets the selected hint when hints have a delay.
Defects == {"newlines", "prompt", "rapid", "cursor", "hints"}
Avoids(defect) == defect \notin Risks

ASSUME RenderingAssumption ==
  /\ Height \in Nat \ {0} /\ Widths \subseteq Nat \ {0}
  /\ Characters \cup {Newline, " "} \subseteq Glyphs
  /\ \A text \in Prompts \cup Preloads \cup Messages : text \in Seq(Glyphs)
  /\ \A preload \in Preloads : Len(preload) <= MaxLen
  /\ OptionVals \subseteq [hinter : BOOLEAN, hintDelay : BOOLEAN, indentMultiline : BOOLEAN]
  /\ {MaxHintRows, MaxLen, MaxSteps} \subseteq Nat /\ Risks \subseteq Defects
  /\ \A c \in BoundedSeq(Glyphs, MaxLen) : Hints(c) \in Seq(Seq(Glyphs))

VARIABLES
  ui,      \* what drawing reads and writes: the fields of ReplxxImpl, with
           \* extra, indent, rowOffset and columns of the prompt, and the terminal
  options, \* one of OptionVals
  delay,   \* read_char() waits with a timeout
  phase,   \* "editing", or "done" between two calls of input()
  above,   \* record: what must be above the prompt, a row each
  steps    \* what has happened so far

vars == <<ui, options, delay, phase, above, steps>>

-----------------------------------------------------------------------------
(* Where text ends up.                                                      *)

Cells(text) == [i \in DOMAIN text |-> Plain(text[i])]
Chars(cells) == [i \in DOMAIN cells |-> cells[i].c]

\* virtual_render: where the cursor is after text that starts in column x.
VirtualRender(text, x, columns, indent) ==
  LET Advanced(at, c) ==
        IF c = Newline THEN [at EXCEPT !.x = indent, !.y = IF at.wrapped THEN @ ELSE @ + 1]
        ELSE LET full == at.x + 1 >= columns
             IN [x |-> IF full THEN 0 ELSE at.x + 1, y |-> IF full THEN at.y + 1 ELSE at.y,
                 wrapped |-> full]
      after[i \in 0..Len(text)] ==
        IF i = 0 THEN [x |-> x, y |-> 0, wrapped |-> FALSE] ELSE Advanced(after[i - 1], text[i])
  IN after[Len(text)]

MultilineIndent(s) == IF options.indentMultiline THEN s.indent ELSE 0

\* The cursor at position p of the line, and at the end of what is displayed.
CursorAt(s, p) == VirtualRender(SubSeq(s.data, 1, p), s.indent, s.columns, MultilineIndent(s))
EndOfDisplay(s) == VirtualRender(Chars(s.display), s.indent, s.columns, 0)

\* Prompt::set_text
SetText(s, text) ==
  LET end == VirtualRender(text, 0, s.term.columns, 0)
  IN [s EXCEPT !.prompt = text, !.columns = s.term.columns, !.indent = end.x, !.extra = end.y,
               !.rowOffset = @ - s.extra + end.y]

WritePrompt(s) == [s EXCEPT !.term = Written(@, Cells(s.prompt))]

-----------------------------------------------------------------------------
(* The line's cells and the hints'.                                         *)

Opening == {"(", "["}
Closing == {")", "]"}
Partner == [c \in Opening \cup Closing |->
              CASE c = "(" -> ")" [] c = ")" -> "(" [] c = "[" -> "]" [] c = "]" -> "["]

NoParen == [index |-> 0, error |-> FALSE]

\* matching_paren: the scan from position p counts the parentheses of the kind
\* it finds there, and apart from them those of other kinds.
MatchingParen(d, p) ==
  LET here == d[p + 1]
      step == IF here \in Opening THEN 1 ELSE -1
      pair == {here, Partner[here]}
      Change(c) == IF c \in Opening THEN 1 ELSE IF c \in Closing THEN -1 ELSE 0
      Count(S, i) == \* of the characters between the cursor and i, both included
        LET span == IF step = 1 THEN SubSeq(d, p + 1, i) ELSE SubSeq(d, i, p + 1)
        IN FoldLeft(LAMBDA n, c : IF c \in S THEN n + Change(c) ELSE n, 0, span)
      found == {i \in DOMAIN d : /\ IF step = 1 THEN i > p + 1 ELSE i < p + 1
                                 /\ Count(pair, i) = 0}
      nearest == CHOOSE i \in found : \A j \in found : step * (j - i) >= 0
  IN IF p >= Len(d) THEN NoParen
     ELSE IF here \notin Opening \cup Closing \/ found = {} THEN NoParen
     ELSE [index |-> nearest,
           error |-> Count((Opening \cup Closing) \ pair, nearest) # 0]

Highlighted(d, p) ==
  LET pi == MatchingParen(d, p)
  IN [i \in DOMAIN d |->
        [c |-> d[i], mark |-> IF i # pi.index THEN "" ELSE IF pi.error THEN "error" ELSE "match"]]

\* render(char32_t)
RenderChar(s, cell) ==
  IF cell.c = Newline
  THEN [s EXCEPT !.display = @ \o <<cell>> \o Blanks(MultilineIndent(s)),
                 !.hasNewlines = TRUE]
  ELSE [s EXCEPT !.display = Append(@, cell)]

\* What render(char32_t) makes of the characters, one after the other
Rendered(s) ==
  LET cells == Highlighted(s.data, s.pos)
      shown[i \in 0..Len(cells)] ==
        IF i = 0 THEN [s EXCEPT !.display = <<>>, !.hasNewlines = FALSE]
        ELSE RenderChar(shown[i - 1], cells[i])
  IN shown[Len(cells)]

\* render(HINT_ACTION)
Render(s, action) ==
  IF action = "TRIM" THEN [s EXCEPT !.display = SubSeq(@, 1, s.inputLength), !.modified = FALSE]
  ELSE IF action = "SKIP" THEN s
  ELSE [Rendered(s) EXCEPT !.inputLength = Len(Rendered(s).display), !.modified = FALSE]

ContextLength(d) ==
  LET breaks == {i \in DOMAIN d : d[i] \in WordBreaks}
  IN Len(d) - (IF breaks = {} THEN 0 ELSE CHOOSE i \in breaks : \A j \in breaks : j <= i)

Context(d) == SubSeq(d, Len(d) - ContextLength(d) + 1, Len(d))
HintCells(text) == [i \in DOMAIN text |-> [c |-> text[i], mark |-> "hint"]]

\* The column in which the context starts, when the line is one row.
HintColumn(s) ==
  LET newlines == {i \in DOMAIN s.data : s.data[i] = Newline}
      start == IF newlines = {} THEN 0 ELSE CHOOSE i \in newlines : \A j \in newlines : j <= i
  IN Len(s.data) - start - ContextLength(s.data)
     + (IF options.indentMultiline \/ start = 0 THEN s.indent ELSE 0)

\* What is written behind the line...
InlineHint(s) ==
  LET hints == Hints(Context(s.data))
      context == ContextLength(s.data)
  IN IF Len(hints) = 1 THEN HintCells(SubSeq(hints[1], context + 1, Len(hints[1])))
     ELSE IF Len(hints) = 0 \/ MaxHintRows = 0 \/ s.selection = -1 THEN <<>>
     ELSE LET hint == hints[s.selection + 1]
          IN HintCells(SubSeq(hint, context + 1, Lower(Len(hint), s.columns - HintColumn(s))))

\* ... and in the rows below it: the hints that follow the selected one, in a
\* circle that goes through the context itself.
HintRows(s) ==
  LET hints == Hints(Context(s.data))
      count == Len(hints)
      Text(row) ==
        LET no == row + s.selection + 1
        IN IF no = count THEN Context(s.data)
           ELSE hints[((IF no > count THEN no - 1 ELSE no) % count) + 1]
      Row(row) ==
        Cropped(Blanks(HintColumn(s)) \o HintCells(Text(row)), s.columns)
  IN IF count <= 1 THEN <<>> ELSE [row \in 1..Lower(count, MaxHintRows) |-> Row(row - 1)]

\* handle_hints
HandleHints(s, action) ==
  LET count == Len(Hints(Context(s.data)))
      Wrapped(n) == IF n < -1 THEN count - 1 ELSE IF n >= count THEN -1 ELSE n
      chosen == [s EXCEPT !.selection =
                   LET n == IF action = "REGENERATE" THEN -1 ELSE @
                   IN IF count > 1 /\ MaxHintRows > 0 THEN Wrapped(n) ELSE n]
      below == HintRows(chosen)
      rows == FlattenSeq([i \in DOMAIN below |-> <<Plain(Newline)>> \o below[i]])
  IN IF ~options.hinter THEN s
     ELSE IF options.hintDelay /\ action # "REPAINT" THEN [s EXCEPT !.selection = -1]
     ELSE IF action \in {"SKIP", "TRIM"} \/ s.pos # Len(s.data) THEN s
     ELSE [chosen EXCEPT !.display = @ \o InlineHint(chosen) \o rows]

-----------------------------------------------------------------------------
(* Drawing.                                                                 *)

\* The cursor is taken to be rowOffset rows below the prompt's first.
Draw(s) ==
  LET cursor == CursorAt(s, s.pos)
      end == EndOfDisplay(s)
      start == JumpCursor(s.term, s.indent, s.extra - s.rowOffset)
      line == SubSeq(s.display, 1, s.inputLength)
      hints == SubSeq(s.display, s.inputLength + 1, Len(s.display))
      written == IF s.hasNewlines THEN Written(ClearToEnd(start), s.display)
                 ELSE Written(ClearToEnd(Written(start, line)), hints)
      wraps == end.x = 0 /\ end.y > 0 /\ s.data # <<>> /\ s.data[Len(s.data)] # Newline
  IN [s EXCEPT !.term = JumpCursor(IF wraps THEN Feed(written) ELSE written,
                                   cursor.x, cursor.y - end.y),
               !.rowOffset = s.extra + cursor.y, !.oldPos = s.pos, !.moveCursor = FALSE]

RefreshLine(s, action, rapid) ==
  IF rapid THEN [s EXCEPT !.skipped = TRUE]
  ELSE Draw(HandleHints(Render([s EXCEPT !.skipped = FALSE], action), action))

\* Wrong: the rows of the prompt are forgotten.
MoveInLine(s) ==
  LET cursor == CursorAt(s, s.pos)
  IN [s EXCEPT !.term = JumpCursor(@, cursor.x, cursor.y - (s.rowOffset - s.extra)),
               !.rowOffset = cursor.y, !.oldPos = s.pos, !.moveCursor = FALSE]

MoveCursor(s) ==
  LET cursor == CursorAt(s, s.pos)
  IN [s EXCEPT !.term = JumpCursor(@, cursor.x, cursor.y - (s.rowOffset - s.extra)),
               !.rowOffset = s.extra + cursor.y, !.oldPos = s.pos, !.moveCursor = FALSE]

ClearSelf(s) == [s EXCEPT !.term = ClearToEnd(JumpCursor(@, 0, -s.rowOffset))]

Repaint(s, rapid) ==
  LET down == [i \in 1..(s.rowOffset - s.extra) |-> Plain(Newline)]
      prompted == WritePrompt(s)
  IN RefreshLine([prompted EXCEPT !.term = Written(@, down)], "SKIP", rapid)

\* What get_input_line() does after a handler.
Loop(s, rapid) ==
  IF s.modified THEN RefreshLine(s, "REGENERATE", rapid)
  ELSE IF s.moveCursor THEN MoveCursor(s) ELSE s

-----------------------------------------------------------------------------
(* The handlers.                                                            *)

Inserted(s, c) ==
  [s EXCEPT !.data = SubSeq(@, 1, s.pos) \o <<c>> \o SubSeq(@, s.pos + 1, Len(@)),
            !.oldPos = s.pos, !.pos = @ + 1]

\* A character that was put in need only be written where the cursor is.
Trivial(s) ==
  /\ s.pos = Len(s.data) /\ ~s.modified /\ ~options.hinter
  /\ CursorAt(s, s.pos).y = 0

\* insert_character
InsertCharacter(s, c, rapid) ==
  LET added == Inserted(s, c)
      shown == RenderChar(added, Plain(c))
  IN IF rapid THEN [added EXCEPT !.skipped = TRUE]
     ELSE IF Trivial(added) THEN [shown EXCEPT !.inputLength = Len(shown.display),
                                        !.term = Put(@, Plain(c))]
     ELSE RefreshLine(added, "REGENERATE", FALSE)

\* Wrong: the highlighting and the hints are left as they are.
MovedCursorOnly(s, p) == [s EXCEPT !.pos = p, !.moveCursor = p # s.oldPos, !.modified = FALSE]

\* action(), for the handlers that move the cursor
MovedCursor(s, p) ==
  LET ParenAt(q) == q < Len(s.data) /\ s.data[q + 1] \in Opening \cup Closing
      ends == {p, s.oldPos}
  IN [s EXCEPT !.pos = p, !.moveCursor = p # s.oldPos,
               !.modified = /\ p # s.oldPos
                            /\ Len(s.data) \in ends \/ \E q \in ends : ParenAt(q)]

-----------------------------------------------------------------------------

Blanked(s) == [s EXCEPT !.data = <<>>, !.pos = 0, !.selection = -1, !.display = <<>>,
                        !.inputLength = 0]

\* The start of input() and of get_input_line()
Started(s, prompt, preload, rapid) ==
  LET cleared == Blanked(SetText(s, prompt))
      prompted == WritePrompt([cleared EXCEPT !.data = preload, !.pos = Len(preload)])
      ready == [prompted EXCEPT !.rowOffset = prompted.extra]
  IN IF preload = <<>> THEN ready ELSE RefreshLine(ready, "REGENERATE", rapid)

\* The picture that must be on the screen is small enough, and none of the
\* defects to be avoided has part in it.
FullThenNewlines(s) ==
  \E i \in 1..(Len(s.data) - 1) :
    /\ s.data[i] = Newline /\ s.data[i + 1] = Newline
    /\ i > 1 /\ s.data[i - 1] # Newline /\ CursorAt(s, i - 1).x = 0

Admitted(s) ==
  /\ EndOfDisplay(s).y + s.extra < Height /\ CursorAt(s, Len(s.data)).y + s.extra < Height
  /\ Avoids("newlines") => ~FullThenNewlines(s)

\* Wrong: only a skipped refresh makes it wait with a time-out.
WaitsForRefresh(s) ==
  /\ phase = "editing" /\ steps < MaxSteps /\ Admitted(s)
  /\ ui' = s /\ delay' = s.skipped /\ steps' = steps + 1
  /\ UNCHANGED <<options, phase>>

\* A handler has left the fields as s, and read_char() waits again.
Waits(s) ==
  /\ phase = "editing" /\ steps < MaxSteps /\ Admitted(s)
  /\ ui' = s /\ delay' = (s.skipped \/ options.hintDelay) /\ steps' = steps + 1
  /\ UNCHANGED <<options, phase>>

\* The same, when the handler is one that has a binding and the loop looks at
\* what it leaves.
Handled(s) == \E again \in BOOLEAN : (again => s.modified) /\ Waits(Loop(s, again))

\* Whether the cursor may be moved in the picture, a character written behind it,
\* and the picture repainted.
Reliable == Avoids("rapid") => ~ui.skipped
Repaintable ==
  /\ Reliable
  /\ Avoids("hints") => ~(options.hintDelay /\ ui.selection # -1)

Type(c) ==
  \E rapid \in BOOLEAN :
    /\ Len(ui.data) < MaxLen
    /\ Reliable \/ rapid \/ ~Trivial(Inserted(ui, c))
    /\ Waits(InsertCharacter(ui, c, rapid)) /\ UNCHANGED above

NewLine ==
  \E rapid \in BOOLEAN :
    /\ Len(ui.data) < MaxLen
    /\ Handled(InsertCharacter(ui, Newline, rapid)) /\ UNCHANGED above

Backspace ==
  \E rapid \in BOOLEAN :
    LET erased == [ui EXCEPT !.pos = @ - 1,
                             !.data = SubSeq(@, 1, ui.pos - 1) \o SubSeq(@, ui.pos + 1, Len(@))]
    IN /\ ui.pos > 0
       /\ Handled(RefreshLine(erased, "REGENERATE", rapid)) /\ UNCHANGED above

\* The handlers that move the cursor differ in where to.
Move(p) ==
  /\ Reliable \/ MovedCursor(ui, p).modified
  /\ Avoids("cursor") => p # ui.oldPos \/ p = ui.pos
  /\ Handled(MovedCursor(ui, p)) /\ UNCHANGED above

\* kill_to_end_of_line, of those that want a refresh
KillToEnd ==
  LET newlines == {i \in (ui.pos + 1)..Len(ui.data) : ui.data[i] = Newline}
      to == IF ui.hasNewlines /\ newlines # {} /\ ui.pos + 1 \notin newlines
            THEN (CHOOSE i \in newlines : \A j \in newlines : i <= j) - 1 ELSE Len(ui.data)
      killed == [ui EXCEPT !.data = SubSeq(@, 1, ui.pos) \o SubSeq(@, to + 1, Len(@)),
                           !.modified = TRUE]
  IN Handled(killed) /\ UNCHANGED above

\* history_move
Recall(entry) ==
  \E rapid \in BOOLEAN :
    LET recalled == [ui EXCEPT !.data = entry, !.pos = Len(entry)]
        refreshed == RefreshLine(recalled, "REGENERATE", rapid)
    IN Handled(MovedCursor(refreshed, Len(entry))) /\ UNCHANGED above

HintMove(by) ==
  \E rapid \in BOOLEAN :
    /\ options.hinter
    /\ Handled(RefreshLine([ui EXCEPT !.selection = @ + by], "REPAINT", rapid))
    /\ UNCHANGED above

\* clear_screen, which resets the terminal
ClearScreen ==
  \E rapid \in BOOLEAN :
    LET prompted == WritePrompt([ui EXCEPT !.term = Fresh(@.columns)])
        ready == [prompted EXCEPT !.rowOffset = prompted.extra]
    IN /\ Handled(RefreshLine(ready, "REGENERATE", rapid))
       /\ above' = <<>>

\* set_prompt by a handler
SetPrompt(text) ==
  \E rapid \in BOOLEAN :
    LET changed == SetText(ui, text)
    IN /\ Avoids("prompt") => changed.extra = ui.extra
       /\ Repaintable
       /\ Handled(Repaint(ClearSelf(changed), rapid))
       /\ UNCHANGED above

\* A handler that invokes CLEAR_SELF, prints and invokes REPAINT
HandlerPrints(message) ==
  \E rapid \in BOOLEAN :
    LET cleared == ClearSelf(ui)
        printed == [cleared EXCEPT !.term = Written(@, Cells(Append(message, Newline)))]
    IN /\ Repaintable
       /\ Handled(Repaint(printed, rapid))
       /\ above' = Append(above, Cells(message))

-----------------------------------------------------------------------------
(* What happens while read_char() waits.                                    *)

TimeOut ==
  /\ phase = "editing" /\ delay /\ delay' = FALSE
  /\ Avoids("hints") => ~(ui.skipped /\ options.hintDelay)
  /\ ui' = RefreshLine(ui, IF ui.skipped THEN "REGENERATE" ELSE "REPAINT", FALSE)
  /\ Admitted(ui')
  /\ UNCHANGED <<options, phase, above, steps>>

During(s) ==
  /\ phase = "editing" /\ steps < MaxSteps /\ Admitted(s)
  /\ ui' = s /\ steps' = steps + 1
  /\ UNCHANGED <<options, delay, phase>>

\* The window has a new size, the library is told and asks for it.
Resize(columns) ==
  \E rapid \in BOOLEAN :
    LET resized == [ui EXCEPT !.term = Resized(@, columns), !.columns = columns]
    IN /\ columns # ui.columns
       /\ Avoids("rapid") => ~ui.skipped /\ (rapid => delay)
       /\ During(RefreshLine(resized, "REPAINT", rapid))
       /\ above' = [i \in DOMAIN above |-> Cropped(above[i], columns)]

\* Wrong: the prompt is updated before the old one is cleared.
MessagePromptFirst(messages, prompt) ==
  LET updated == ClearSelf(IF prompt = <<>> THEN ui ELSE SetText(ui, prompt))
      Line(message) == Cells(Append(message, Newline))
      printed == [updated EXCEPT !.term =
                    Written(@, FlattenSeq([i \in DOMAIN messages |-> Line(messages[i])]))]
  IN /\ messages # <<>> \/ prompt # <<>>
     /\ Repaintable
     /\ During(Repaint(printed, FALSE))
     /\ above' = above \o [i \in DOMAIN messages |-> Cells(messages[i])]

\* A message of another thread, or a prompt of its (an empty sequence: none)
Message(messages, prompt) ==
  LET cleared == ClearSelf(ui)
      updated == IF prompt = <<>> THEN cleared ELSE SetText(cleared, prompt)
      Line(message) == Cells(Append(message, Newline))
      printed == [updated EXCEPT !.term =
                    Written(@, FlattenSeq([i \in DOMAIN messages |-> Line(messages[i])]))]
  IN /\ messages # <<>> \/ prompt # <<>>
     /\ Repaintable
     /\ During(Repaint(printed, FALSE))
     /\ above' = above \o [i \in DOMAIN messages |-> Cells(messages[i])]

-----------------------------------------------------------------------------
(* The picture that must be on the screen, defined without the cursor's      *)
(* positions: the lines are cut into rows.                                   *)

Cut(line, columns) ==
  [i \in 1..Upper(1, (Len(line) + columns - 1) \div columns) |->
     SubSeq(line, (i - 1) * columns + 1, Lower(i * columns, Len(line)))]

Lines(cells) ==
  FoldLeft(LAMBDA lines, cell :
             IF cell.c = Newline THEN Append(lines, <<>>)
             ELSE [lines EXCEPT ![Len(lines)] = Append(@, cell)], << <<>> >>, cells)

\* The lines of the prompt and of some cells of data, those after the first of
\* data indented as the option says.
PromptLines(s) == Lines(Cells(s.prompt))
PictureLines(s, cells) ==
  LET lines == Lines(Cells(s.prompt) \o cells)
      n == Len(PromptLines(s))
      indent == [i \in 1..(IF options.indentMultiline THEN Len(PromptLines(s)[n]) ELSE 0) |-> Blank]
  IN [i \in DOMAIN lines |-> IF i > n THEN indent \o lines[i] ELSE lines[i]]

PictureRows(lines, columns) == FlattenSeq([i \in DOMAIN lines |-> Cut(lines[i], columns)])

\* Without hints, and with the row the cursor goes to after a full one.
CommittedRows(s) ==
  LET lines == PictureLines(s, Cells(s.data))
      full == Len(Last(lines)) > 0 /\ Len(Last(lines)) % s.columns = 0
  IN PictureRows(lines, s.columns) \o (IF full THEN << <<>> >> ELSE <<>>)

Picture(s) ==
  LET hinted == options.hinter /\ s.pos = Len(s.data)
      cells == Highlighted(s.data, s.pos) \o (IF hinted THEN InlineHint(s) ELSE <<>>)
  IN PictureRows(PictureLines(s, cells), s.columns) \o (IF hinted THEN HintRows(s) ELSE <<>>)

PictureCursor(s) ==
  LET lines == PictureLines(s, Cells(SubSeq(s.data, 1, s.pos)))
      before == PictureRows(Front(lines), s.columns)
  IN [x |-> Len(Last(lines)) % s.columns, y |-> Len(before) + Len(Last(lines)) \div s.columns]

-----------------------------------------------------------------------------
(* The end of a line and the start of the next.                             *)

Commit ==
  LET action == IF ui.skipped THEN "REGENERATE" ELSE "TRIM"
      final == RefreshLine([ui EXCEPT !.pos = Len(ui.data)], action, FALSE)
  IN /\ phase = "editing" /\ steps < MaxSteps /\ Admitted(final)
     /\ Avoids("rapid") => ~(ui.skipped /\ options.hinter)
     /\ ui' = [final EXCEPT !.term = Feed(@)]
     /\ phase' = "done" /\ delay' = FALSE /\ steps' = steps + 1
     /\ above' = above \o CommittedRows(ui)
     /\ UNCHANGED options

NextInput(prompt, preload) ==
  \E rapid \in BOOLEAN :
    LET s == Started(ui, prompt, preload, rapid)
    IN /\ phase = "done" /\ phase' = "editing" /\ Admitted(s)
       /\ ui' = s /\ delay' = (s.skipped \/ options.hintDelay)
       /\ UNCHANGED <<options, above, steps>>

Unused(columns) ==
  [term |-> Fresh(columns), data |-> <<>>, pos |-> 0, oldPos |-> 0, display |-> <<>>,
   inputLength |-> 0, hasNewlines |-> FALSE, selection |-> -1, prompt |-> <<>>,
   columns |-> columns, extra |-> 0, indent |-> 0, rowOffset |-> 0, modified |-> FALSE,
   moveCursor |-> FALSE, skipped |-> FALSE]

Init ==
  /\ options \in OptionVals
  /\ ui \in {Unused(columns) : columns \in Widths}
  /\ delay = FALSE /\ phase = "done" /\ above = <<>> /\ steps = 0

Next ==
  \/ \E c \in Characters : Type(c)
  \/ NewLine \/ Backspace \/ KillToEnd \/ ClearScreen \/ TimeOut \/ Commit
  \/ \E p \in 0..Len(ui.data) : Move(p)
  \/ \E entry \in Preloads : Recall(entry)
  \/ \E by \in {-1, 1} : HintMove(by)
  \/ \E text \in Prompts : SetPrompt(text)
  \/ \E message \in Messages : HandlerPrints(message)
  \/ \E columns \in Widths : Resize(columns)
  \/ \E messages \in {<<>>} \cup Messages \X Messages, prompt \in {<<>>} \cup Prompts :
       Message(messages, prompt)
  \/ \E prompt \in Prompts, preload \in Preloads : NextInput(prompt, preload)

Spec == Init /\ [][Next]_vars

-----------------------------------------------------------------------------

\* The types, and that rowOffset counts rows: the cursor is never taken to be
\* above the last line of the prompt.
TypeOK ==
  /\ {delay, ui.modified, ui.moveCursor, ui.skipped, ui.hasNewlines} \subseteq BOOLEAN
  /\ options \in OptionVals /\ phase \in {"editing", "done"} /\ steps \in 0..MaxSteps
  /\ ui.pos \in 0..Len(ui.data) /\ Len(ui.data) <= MaxLen
  /\ ui.inputLength \in 0..Len(ui.display)
  /\ ui.rowOffset \in ui.extra..(Height - 1)
  /\ ui.columns = ui.term.columns
  /\ ui.term.y >= ui.term.top /\ ui.term.y < ui.term.top + Height

\* When read_char() waits without a timeout, the screen below the output shows
\* the prompt, the line and its hints, cut into rows as the terminal does, with
\* the cursor in its place and nothing left of earlier pictures.  It is about
\* refresh_line(), that draws from a row offset over what is there, and about
\* the ways around it: the trivial case of insert_character(), move_cursor(),
\* skipped refreshes, repaint() and changes of the prompt and the width.
ScreenShowsLine ==
  (phase = "editing" /\ ~delay) =>
    /\ Shows(ui.term, Len(above), Picture(ui))
    /\ [x |-> ui.term.x, y |-> ui.term.y - Len(above)] = PictureCursor(ui)

\* After the hint delay, when the user has stopped typing, the hints there are
\* for the line are displayed.  replxx.hxx says so of set_hint_delay().
HintsShown ==
  (phase = "editing" /\ ~delay /\ options.hinter /\ ui.pos = Len(ui.data)) =>
    (InlineHint(ui) # <<>> \/ HintRows(ui) # <<>> => Len(ui.display) > ui.inputLength)

\* What has been printed and the lines that were entered stay as they are above
\* the prompt, in order and without gaps: no drawing goes to a row above it.
OutputKept ==
  /\ Len(above) <= Len(ui.term.rows)
  /\ \A i \in DOMAIN above, x \in 0..(ui.columns - 1) :
       CellIn(ui.term.rows, i, x).c = CellIn(above, i, x).c

=============================================================================
