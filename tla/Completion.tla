----------------------------- MODULE Completion -----------------------------
(***************************************************************************)
(* Completion: do_complete_line(), which extends the word at the cursor or  *)
(* lists what it may become, page by page; complete_next and                *)
(* complete_previous, which go through the completions in the line itself;  *)
(* and the selected hint, that do_complete_line() takes for the selected    *)
(* completion.  A handler that asks a question reads the keys itself.       *)
(*                                                                         *)
(* Characters are code points.  Refreshing the line leaves one trace here:  *)
(* handle_hints() forgets the selected hint, though only when the cursor is *)
(* at the end.  No refresh is skipped, hints have no delay.                 *)
(***************************************************************************)
EXTENDS Integers, SequencesExt

CONSTANTS
  Words,       \* what the completer and the hinter know, in their order
  Characters,  \* what may be typed
  Preloads,    \* what the line starts with
  WordBreaks,
  OptionVals,  \* records of options, see AllOptions
  Sizes,       \* of the terminal: records of columns and rows.  In one row the list
               \* would pause at once and, when a page is asked for, never again.
  MaxLen,      \* bound: of the line
  Risks        \* the defects that are let happen

\* Selection: a selected hint makes do_complete_line() take one completion, and
\* complete_next goes on from the length of that one.  Stale: a selected hint
\* stays when the cursor leaves the end of the line, and completions stay when a
\* handler sets the state of the line.
Defects == {"selection", "stale"}
Avoids(defect) == defect \notin Risks

AllOptions ==
  [ignoreCase : BOOLEAN, immediate : BOOLEAN, doubleTab : BOOLEAN, completeOnEmpty : BOOLEAN,
   cutoff : Nat]

ASSUME CompletionAssumption ==
  /\ Words \in Seq(Seq(Nat)) /\ Characters \cup WordBreaks \subseteq Nat
  /\ Preloads \subseteq Seq(Nat) /\ \A text \in Preloads : Len(text) <= MaxLen
  /\ OptionVals \subseteq AllOptions /\ Sizes \subseteq [columns : Nat, rows : Nat \ {0, 1}]
  /\ MaxLen \in Nat /\ Risks \subseteq Defects

VARIABLES
  line,    \* data, pos, completions, selection, contextLength and hintSelection
  phase,   \* "editing", or what do_complete_line() is doing: "second_tab",
           \* "asking", "listing", "paused"
  row, pauseRow, \* of the list
  options, size, \* chosen at the start
  \* The rest records what happened, for the properties.
  origin,  \* the line when its completions were got, extended; else empty
  listed,  \* the numbers of the completions printed
  onPage   \* rows printed since the list or its page began

vars == <<line, phase, row, pauseRow, options, size, origin, listed, onPage>>

-----------------------------------------------------------------------------

\* towlower and iswupper
Lower(c) == IF c \in 65..90 THEN c + 32 ELSE c
LowerAll(text) == [i \in DOMAIN text |-> Lower(text[i])]
Same(text, other, ignoreCase) ==
  text = other \/ (ignoreCase /\ LowerAll(text) = LowerAll(other))

\* context_length
ContextLength(d, p) ==
  LET breaks == {i \in 1..p : d[i] \in WordBreaks}
  IN p - Max(breaks \cup {0})
Context(d, p) == SubSeq(d, p - ContextLength(d, p) + 1, p)

\* The callbacks: the words that start with the context.
Matches(word, context) ==
  Len(word) >= Len(context) /\ Same(SubSeq(word, 1, Len(context)), context, options.ignoreCase)
CallCompleter(d, p) ==
  LET found[n \in 0..Len(Words)] ==
        IF n = 0 THEN <<>>
        ELSE IF Matches(Words[n], Context(d, p)) THEN Append(found[n - 1], Words[n])
        ELSE found[n - 1]
  IN found[Len(Words)]
CallHinter(d, p) == CallCompleter(d, p)

\* longest_common_prefix
CommonPrefixLength(words, ignoreCase) ==
  Max({n \in 0..Len(words[1]) :
         \A i \in DOMAIN words :
           /\ n <= Len(words[i])
           /\ Same(SubSeq(words[i], 1, n), SubSeq(words[1], 1, n), ignoreCase)})

\* UnicodeString's <
Less(text, other) ==
  \E n \in 0..Len(text) :
    /\ n < Len(other) /\ SubSeq(text, 1, n) = SubSeq(other, 1, n)
    /\ n < Len(text) => text[n + 1] < other[n + 1]
Least(words) ==
  LET least[n \in 1..Len(words)] ==
        IF n > 1 /\ ~Less(words[n], least[n - 1]) THEN least[n - 1] ELSE words[n]
  IN least[Len(words)]

\* Wrong: the cursor stays in front of the text.
ReplacedBehind(s, n, text) ==
  [s EXCEPT !.data = SubSeq(@, 1, s.pos - n) \o text \o SubSeq(@, s.pos + 1, Len(@)),
            !.pos = @ - n]

\* s with text in place of the n characters before the cursor
Replaced(s, n, text) ==
  [s EXCEPT !.data = SubSeq(@, 1, s.pos - n) \o text \o SubSeq(@, s.pos + 1, Len(@)),
            !.pos = @ - n + Len(text)]

\* What refresh_line() does to the selected hint, with the cursor at the end and where
\* it is
AtEnd(s) == [s EXCEPT !.hintSelection = -1]
Refreshed(s) == IF s.pos = Len(s.data) THEN AtEnd(s) ELSE s

Started(text) ==
  [data |-> text, pos |-> Len(text), completions |-> <<>>, selection |-> -1,
   contextLength |-> 0, hintSelection |-> -1]

Empty == Started(<<>>)

Reset(s) == [s EXCEPT !.completions = <<>>, !.selection = -1, !.contextLength = 0]

-----------------------------------------------------------------------------
(* do_complete_line                                                         *)

Called(s) ==
  [s EXCEPT !.completions = CallCompleter(s.data, s.pos), !.selection = -1,
            !.contextLength = ContextLength(s.data, s.pos)]

\* How many of the completions are considered, and from which on.
ChosenByHint(s) == Len(s.completions) > 1 /\ s.hintSelection # -1
Considered(s) ==
  IF ChosenByHint(s) THEN <<s.completions[s.hintSelection + 1]>> ELSE s.completions

\* The case is minded when there is a capital in the last characters of the
\* line, as many as the context has.
MindsCase(s) ==
  LET tail == SubSeq(s.data, Len(s.data) - s.contextLength + 1, Len(s.data))
  IN ~options.ignoreCase \/ tail # LowerAll(tail)

CommonLength(s) ==
  IF Len(Considered(s)) = 1 THEN Len(Considered(s)[1])
  ELSE CommonPrefixLength(s.completions, ~MindsCase(s))

Extends(s) ==
  /\ s.completions # <<>>
  /\ Len(Considered(s)) = 1 \/ CommonLength(s) > s.contextLength

Extended(s) ==
  LET candidate == IF options.ignoreCase /\ s.hintSelection = -1 THEN Least(Considered(s))
                   ELSE Considered(s)[1]
      prefix == SubSeq(candidate, 1, CommonLength(s))
      text == IF options.ignoreCase /\ Len(Considered(s)) > 1 THEN LowerAll(prefix) ELSE prefix
  IN Refreshed([Replaced(s, s.contextLength, text) EXCEPT !.contextLength = CommonLength(s)])

Attempted(s) == IF Extends(Called(s)) THEN Extended(Called(s)) ELSE Called(s)

-----------------------------------------------------------------------------
(* Going through the completions in the line.                               *)

TailOf(s, n) ==
  LET word == s.completions[n + 1] IN SubSeq(word, s.contextLength + 1, Len(word))

\* The next selection: the circle goes through -1, the line as it was.
Neighbour(s, step) ==
  LET n == s.selection + step
  IN IF n >= Len(s.completions) THEN -1 ELSE IF n = -2 THEN Len(s.completions) - 1 ELSE n

\* Wrong: what was typed of the old completion goes with it.
SelectedErasing(s, n) ==
  LET old == IF s.selection = -1 THEN s
             ELSE Replaced(s, Len(s.completions[s.selection + 1]), <<>>)
      new == IF n = -1 THEN old ELSE Replaced(old, 0, TailOf(s, n))
  IN Refreshed([new EXCEPT !.selection = n])

Selected(s, n) ==
  LET old == IF s.selection = -1 THEN s ELSE Replaced(s, Len(TailOf(s, s.selection)), <<>>)
      new == IF n = -1 THEN old ELSE Replaced(old, 0, TailOf(s, n))
  IN Refreshed([new EXCEPT !.selection = n])

\* Bound: every word fits in place of the context.
HasRoom ==
  \A word \in Range(Words) :
    Len(line.data) - ContextLength(line.data, line.pos) + Len(word) <= MaxLen

CompletionAllowed == options.completeOnEmpty \/ line.pos > 0

\* complete: with step 1 COMPLETE_NEXT, with -1 COMPLETE_PREVIOUS
Complete(step) ==
  LET first == line.completions = <<>>
      got == IF first /\ CompletionAllowed THEN Attempted(line) ELSE line
      partial == first /\ ~options.immediate /\ Len(got.data) > Len(line.data)
      chosen == IF got.completions = <<>> THEN -1 ELSE Neighbour(got, step)
  IN /\ phase = "editing" /\ HasRoom
     /\ Avoids("selection") => ~(first /\ line.hintSelection # -1)
     /\ line' = IF partial THEN got ELSE Selected(got, chosen)
     /\ origin' = IF got.completions = <<>> THEN Empty ELSE IF first THEN got ELSE origin
     /\ UNCHANGED <<phase, row, pauseRow, options, size, listed, onPage>>

-----------------------------------------------------------------------------
(* COMPLETE_LINE, and the list of completions.                              *)

Columns ==
  LET longest == Max({Len(word) : word \in Range(line.completions)})
  IN Max({size.columns \div (longest + 2), 1})

\* Wrong: the last row is forgotten when it is not full.
RowCountOfFull == Len(line.completions) \div Columns

RowCount == (Len(line.completions) + Columns - 1) \div Columns

PageRows == size.rows - 1

ToList ==
  /\ phase' = "listing" /\ row' = 0 /\ pauseRow' = PageRows
  /\ listed' = <<>> /\ onPage' = 0

\* The question is asked below the line, which is drawn with the cursor at its end.
ToQuestion(s) ==
  IF Len(s.completions) > options.cutoff
  THEN /\ phase' = "asking" /\ line' = AtEnd(s)
       /\ UNCHANGED <<row, pauseRow, listed, onPage>>
  ELSE ToList /\ line' = s

CompleteLine ==
  LET called == Called(line)
  IN /\ phase = "editing" /\ CompletionAllowed /\ HasRoom
     /\ IF called.completions = <<>> \/ Extends(called)
        THEN /\ line' = Reset(Attempted(line))
             /\ UNCHANGED <<phase, row, pauseRow, listed, onPage>>
        ELSE IF options.doubleTab
             THEN /\ phase' = "second_tab" /\ line' = called
                  /\ UNCHANGED <<row, pauseRow, listed, onPage>>
             ELSE ToQuestion(called)
     /\ origin' = Empty
     /\ UNCHANGED <<options, size>>

\* The prompt and the line are drawn anew below the list, action() resets.
Finish ==
  /\ phase' = "editing" /\ line' = Reset(Refreshed(line))
  /\ row' = 0 /\ pauseRow' = 0 /\ listed' = <<>> /\ onPage' = 0
  /\ UNCHANGED <<options, size, origin>>

SecondTab ==
  /\ phase = "second_tab" /\ ToQuestion(line)
  /\ UNCHANGED <<options, size, origin>>

\* Any other key is left to the main loop.
OtherKey ==
  /\ phase = "second_tab" /\ phase' = "editing" /\ line' = Reset(line)
  /\ UNCHANGED <<row, pauseRow, options, size, origin, listed, onPage>>

\* y, or n or ^C
AnswerYes ==
  /\ phase = "asking" /\ ToList
  /\ UNCHANGED <<line, options, size, origin>>
AnswerNo == phase = "asking" /\ Finish

\* The completions that are printed in a row: one in each column that is long
\* enough, and no column is longer than one on its left.
InRow(r) ==
  LET Index(column) == column * RowCount + r
      there == {column \in 0..(Columns - 1) : Index(column) < Len(line.completions)}
  IN [i \in 1..Cardinality(there) |-> Index(i - 1)]

PrintRow(nextPause, printed) ==
  /\ listed' = listed \o InRow(row) /\ row' = row + 1 /\ onPage' = printed
  /\ pauseRow' = nextPause /\ phase' = "listing"
  /\ UNCHANGED <<line, options, size, origin>>

NextRow ==
  /\ phase = "listing" /\ row < RowCount /\ row # pauseRow
  /\ PrintRow(pauseRow, onPage + 1)

Pause ==
  /\ phase = "listing" /\ row < RowCount /\ row = pauseRow /\ phase' = "paused"
  /\ UNCHANGED <<line, row, pauseRow, options, size, origin, listed, onPage>>

\* Space or y goes on by a page, Enter by a row, n, q or ^C ends the list.
NextPage == phase = "paused" /\ PrintRow(pauseRow + PageRows, 1)
OneMore == phase = "paused" /\ PrintRow(pauseRow + 1, onPage)
StopList == phase = "paused" /\ Finish

EndOfList == phase = "listing" /\ row = RowCount /\ Finish

-----------------------------------------------------------------------------
(* The rest of the keys.                                                    *)

Edited(s) ==
  /\ phase = "editing" /\ Len(s.data) <= MaxLen /\ line' = s
  /\ origin' = IF s.completions = <<>> THEN Empty ELSE origin
  /\ UNCHANGED <<phase, row, pauseRow, options, size, listed, onPage>>

Type(c) == Edited(Reset(Refreshed(Replaced(line, 0, <<c>>))))
Backspace == line.pos > 0 /\ Edited(Reset(Refreshed(Replaced(line, 1, <<>>))))

\* The line is refreshed when the cursor leaves the end or comes to it.
MoveTo(p) ==
  /\ Avoids("stale") => line.hintSelection = -1
  /\ Edited(Reset(Refreshed([line EXCEPT !.pos = p])))

\* hint_move: with no hints shown to choose from the number only counts on.
HintMove(step) ==
  LET count == Len(CallHinter(line.data, line.pos))
      n == line.hintSelection + step
      shown == line.pos = Len(line.data) /\ count > 1
      chosen == IF n < -1 THEN count - 1 ELSE IF n >= count THEN -1 ELSE n
  IN /\ Avoids("stale") => shown
     /\ Edited(Reset([line EXCEPT !.hintSelection = IF shown THEN chosen ELSE n]))

\* set_state() by a handler of a key of its own
SetState(text, p) ==
  /\ Avoids("stale") => line.completions = <<>>
  /\ Edited([line EXCEPT !.data = text, !.pos = p, !.hintSelection = -1])

Init ==
  /\ options \in OptionVals /\ size \in Sizes
  /\ \E text \in Preloads : line = Started(text)
  /\ phase = "editing" /\ row = 0 /\ pauseRow = 0 /\ origin = Empty
  /\ listed = <<>> /\ onPage = 0

Next ==
  \/ \E step \in {-1, 1} : Complete(step) \/ HintMove(step)
  \/ CompleteLine \/ SecondTab \/ OtherKey \/ AnswerYes \/ AnswerNo
  \/ NextRow \/ Pause \/ NextPage \/ OneMore \/ StopList \/ EndOfList
  \/ \E c \in Characters : Type(c)
  \/ Backspace
  \/ \E p \in 0..Len(line.data) : MoveTo(p)
  \/ \E text \in Preloads : \E p \in 0..Len(text) : SetState(text, p)

Spec == Init /\ [][Next]_vars

-----------------------------------------------------------------------------

\* The types, and the selections and the rows are within what they number.
TypeOK ==
  /\ phase \in {"editing", "second_tab", "asking", "listing", "paused"}
  /\ line.pos \in 0..Len(line.data) /\ Len(line.data) <= MaxLen
  /\ line.selection \in -1..(Len(line.completions) - 1)
  /\ line.completions # <<>> => line.contextLength \in 0..line.pos
  /\ line.hintSelection \in -1..(Len(Words) - 1)
  /\ phase \in {"listing", "paused"} => row \in 0..RowCount
  /\ options \in OptionVals /\ size \in Sizes

\* Going through the completions changes the word before the cursor and nothing
\* else: while one is selected, what stands between the beginning of the context and
\* the cursor is that completion, whatever was extended and selected before, and when
\* none is it is what it was at first.  complete() puts behind the context the part of
\* the completion behind the context's length, and takes out as much as it put in.
CyclingExact ==
  (phase = "editing" /\ line.completions # <<>>) =>
    /\ line.pos >= origin.pos
    /\ SubSeq(line.data, 1, origin.pos) = SubSeq(origin.data, 1, origin.pos)
    /\ SubSeq(line.data, line.pos + 1, Len(line.data)) =
       SubSeq(origin.data, origin.pos + 1, Len(origin.data))
    /\ IF line.selection = -1 THEN line.pos = origin.pos
       ELSE Same(SubSeq(line.data, origin.pos - origin.contextLength + 1, line.pos),
                 line.completions[line.selection + 1], options.ignoreCase)

\* The list shows each completion once: none is printed twice, and at its end none
\* is left out, whatever the grid they are arranged in.  It waits for a key before
\* a row leaves the screen: of its rows, all but the one with the question fit.
ListedOnce ==
  /\ IsInjective(listed)
  /\ (phase = "listing" /\ row = RowCount) => Range(listed) = 0..(Len(line.completions) - 1)
  /\ phase \in {"listing", "paused"} => onPage <= size.rows - 1

=============================================================================
