----------------------------- MODULE LineEditor -----------------------------
(***************************************************************************)
(* The line being edited and the key handlers that change it: _data, _pos  *)
(* and what one handler leaves for the next (lastAction, _lastYankSize,    *)
(* whether meta-. is being repeated, _hasNewlines).  The kill ring is      *)
(* RecentKills, which KillRing implements.  The history is reduced to the  *)
(* line that was recalled from it, see module History for the rest.        *)
(*                                                                         *)
(* pos is the number of characters left of the cursor, as in the code;     *)
(* data[pos + 1] is the character under it.  Each handler is a whole       *)
(* action(): the handler, the user's modify callback, and the resets.      *)
(* The callback may put another line in place.  A refresh may be skipped,  *)
(* and then _hasNewlines still tells of an older line.                     *)
(***************************************************************************)
EXTENDS Integers, Sequences, FiniteSetsExt

CONSTANTS
  Chars,           \* the characters of a line
  Newline,         \* the newline
  Spaces,          \* isspace()
  WordBreaks,      \* is_word_break_character<false>
  SubwordBreaks,   \* is_word_break_character<true>
  Upper, Lower,    \* towupper, towlower: functions on Chars
  Capacity,        \* texts the kill ring remembers
  Entries,         \* the older lines of the history
  Others,          \* lines and texts from the user's callbacks and from pastes
  NoLine,          \* no line
  Indentation,     \* columns of the prompt
  IndentMultiline, \* whether the lines after the first are indented as well
  MaxLen,          \* bound: length of the line
  MaxText,         \* bound: length of a text in the kill ring
  Risks            \* what is done besides plain use, see below

\* "search_edited": an incremental search that finds nothing is left in a recalled
\* line that was edited.
\* "state_without_cursor": set_state() of a text that is shorter than where the
\* cursor is, without a cursor.
\* "change_after_yank": an incremental search, a completion or the modify callback
\* changes the line between a yank and the meta-Y or meta-. that takes it back.
ASSUME LineAssumption ==
  /\ Newline \in Chars
  /\ Spaces \subseteq Chars /\ WordBreaks \subseteq Chars
  /\ SubwordBreaks \subseteq Chars
  /\ Upper \in [Chars -> Chars] /\ Lower \in [Chars -> Chars]
  /\ Entries \cup Others \subseteq Seq(Chars) /\ NoLine \notin Seq(Chars)
  /\ Capacity \in Nat \ {0}
  /\ Indentation \in Nat /\ MaxLen \in Nat /\ MaxText \in Nat
  /\ IndentMultiline \in BOOLEAN
  /\ Risks \subseteq {"search_edited", "state_without_cursor", "change_after_yank"}

VARIABLES
  phase,        \* is an input() in progress?
  data,         \* _data
  pos,          \* _pos
  hasNewlines,  \* _hasNewlines
  recalled,     \* the history entry that the line was recalled from, or NoLine
  argYank,      \* _yankPos # _entries.end(): meta-. was the last key
  lastYankSize, \* _lastYankSize
  taken,        \* the text that the last ctrl-Y, meta-Y or meta-. inserted
  whole,        \* the line as it was before the kills just made, or NoLine
  recent, n, cursor, lastAction, inserted  \* the kill ring

Ring == INSTANCE RecentKills

ring == <<recent, n, cursor, lastAction, inserted>>
yanks == <<argYank, lastYankSize, taken>>
vars == <<phase, data, pos, hasNewlines, recalled, yanks, whole, ring>>

TypeOK ==
  /\ phase \in {"idle", "input"}
  /\ data \in Seq(Chars) /\ pos \in Int
  /\ hasNewlines \in BOOLEAN /\ argYank \in BOOLEAN
  /\ recalled \in Seq(Chars) \cup {NoLine} /\ whole \in Seq(Chars) \cup {NoLine}
  /\ lastYankSize \in Nat /\ taken \in Seq(Chars)
  /\ n \in 0..Capacity /\ recent \in [1..n -> Seq(Chars)]
  /\ cursor \in 1..Capacity /\ (n > 0 => cursor <= n)
  /\ lastAction \in {"other", "kill", "yank"}

Init ==
  /\ Ring!Init
  /\ phase = "idle" /\ data = <<>> /\ pos = 0 /\ hasNewlines = FALSE
  /\ recalled = NoLine /\ whole = NoLine
  /\ argYank = FALSE /\ lastYankSize = 0 /\ taken = <<>>

-----------------------------------------------------------------------------
(* Positions.                                                               *)

Before(d, p) == SubSeq(d, 1, p)
Rest(d, p) == SubSeq(d, p + 1, Len(d))
\* insert() and erase() of UnicodeString
Inserted(d, p, text) == Before(d, p) \o text \o Rest(d, p)
Erased(d, from, to) == Before(d, from) \o Rest(d, to)

\* prev_newline_position, next_newline_position: -1 if there is none.
NewlinesAt(d) == {i \in 0..(Len(d) - 1) : d[i + 1] = Newline}
PrevNewline(d, p) == Max({i \in NewlinesAt(d) : i <= p} \cup {-1})
NextNewline(d, p) ==
  LET ahead == {i \in NewlinesAt(d) : i >= p}
  IN IF ahead = {} THEN -1 ELSE Min(ahead)

\* From p to the left until the next character there is in S, and to the right.
LeftUntil(d, p, S) == Max({k \in 0..p : k = 0 \/ d[k] \in S})
RightUntil(d, p, S) == Min({k \in p..Len(d) : k = Len(d) \/ d[k + 1] \in S})

\* The loops of the handlers for words: over the breaks, then over the word.
WordLeft(d, p, breaks) == LeftUntil(d, LeftUntil(d, p, Chars \ breaks), breaks)
WordStart(d, p, breaks) == RightUntil(d, p, Chars \ breaks)
WordRight(d, p, breaks) == RightUntil(d, WordStart(d, p, breaks), breaks)

\* Where the line with the cursor begins; a newline belongs to the line it ends.
LineStart(d, p) ==
  LET onNewline == p > 0 /\ p < Len(d) /\ d[p + 1] = Newline
  IN PrevNewline(d, IF onNewline THEN p - 1 ELSE p) + 1

\* ctrl-A and ctrl-E, when repeated, go on to the whole input.
Home(repeats) ==
  IF ~hasNewlines \/ (repeats /\ LineStart(data, pos) = pos) THEN 0
  ELSE LineStart(data, pos)
EndOfLine(repeats) ==
  LET next == NextNewline(data, pos)
  IN IF ~hasNewlines \/ next < 0 \/ (repeats /\ next = pos) THEN Len(data) ELSE next

Smaller(a, b) == IF a < b THEN a ELSE b
Larger(a, b) == IF a > b THEN a ELSE b

\* The cursor is on a newline at the beginning of the input.
OnFirstNewline(d, p) == p = 0 /\ 0 \in NewlinesAt(d)

\* In place of a position: prev_newline_position(-1), which its assertion forbids.
AssertFails == -2

\* Wrong: the prompt before the first line is left out.
UpFromUnshifted(d, p) ==
  LET here == PrevNewline(d, p)
      above == IF here = p THEN PrevNewline(d, p - 1) ELSE here
      start == IF above > 0 THEN PrevNewline(d, above - 1) + 1 ELSE 0
  IN IF OnFirstNewline(d, p) THEN AssertFails
     ELSE IF above < 0 THEN -1 ELSE start + Smaller(p - above - 1, above - start)

\* line_previous, line_next: where Up and Down go; -1 if there is no such line.
UpFrom(d, p) ==
  LET here == PrevNewline(d, p)
      above == IF here = p THEN PrevNewline(d, p - 1) ELSE here
      start == IF above > 0 THEN PrevNewline(d, above - 1) + 1 ELSE 0
      shift == IF ~IndentMultiline /\ start = 0 THEN Indentation ELSE 0
      column == Smaller(p - above - 1, (above - start) + shift)
  IN IF OnFirstNewline(d, p) THEN AssertFails
     ELSE IF above < 0 THEN -1 ELSE start + Larger(column - shift, 0)

DownFrom(d, p) ==
  LET ends == NextNewline(d, p)
      below == NextNewline(d, ends + 1)
      length == (IF below < 0 THEN Len(d) ELSE below) - (ends + 1)
      here == PrevNewline(d, p)
      start == (IF here # p THEN here
                ELSE IF p > 0 THEN PrevNewline(d, p - 1) ELSE -1) + 1
      shift == IF ~IndentMultiline /\ start = 0 THEN Indentation ELSE 0
  IN IF ends < 0 THEN -1 ELSE ends + 1 + Smaller(p - start + shift, length)

-----------------------------------------------------------------------------
(* What every handler ends with.                                            *)

\* refresh_line in the handler, which has made the line d, and after the callback;
\* each may be skipped.
Drawn(d) == hasNewlines' \in {hasNewlines, NewlinesAt(d) # {}, NewlinesAt(data') # {}}

\* The line becomes d with the cursor at p, or what the modify callback makes of it.
\* A line put together by kills stays whole only without the callback.
Becomes(d, p, unkilled) ==
  /\ Len(d) <= MaxLen
  /\ \/ data' = d /\ pos' = p /\ whole' = unkilled
     \/ /\ ~(lastAction' = "yank" \/ argYank') \/ "change_after_yank" \in Risks
        /\ data' \in Others /\ pos' \in 0..Len(data') /\ whole' = NoLine
  /\ Drawn(d)

\* Handlers whose trait is RESET_KILL_ACTION; all but meta-. forget its position.
Other(d, p) ==
  /\ Ring!Key("other")
  /\ argYank' = FALSE /\ taken' = <<>> /\ UNCHANGED lastYankSize
  /\ Becomes(d, p, NoLine)

\* Handlers that leave lastAction alone.
Neutral(d, p) ==
  /\ UNCHANGED <<ring, lastYankSize, taken>>
  /\ argYank' = FALSE
  /\ Becomes(d, p, IF d = data /\ p = pos THEN whole ELSE NoLine)

-----------------------------------------------------------------------------
(* Inserting, deleting, moving, changing.                                   *)

\* insert_character; in overwrite mode the character under the cursor goes.
InsertCharacter(c, overwrite) ==
  /\ Other(Erased(Inserted(data, pos, <<c>>), pos + 1,
                  IF overwrite /\ pos < Len(data) THEN pos + 2 ELSE pos + 1),
           pos + 1)
  /\ UNCHANGED recalled

\* verbatim_insert, bracketed_paste
InsertText(text) ==
  /\ Other(Inserted(data, pos, text), pos + Len(text))
  /\ UNCHANGED recalled

DeleteCharacter ==
  /\ Other(IF pos < Len(data) THEN Erased(data, pos, pos + 1) ELSE data, pos)
  /\ UNCHANGED recalled

\* send_eof in a line that is not empty: not a RESET_KILL_ACTION.
SendEof ==
  /\ data # <<>>
  /\ Neutral(IF pos < Len(data) THEN Erased(data, pos, pos + 1) ELSE data, pos)
  /\ UNCHANGED recalled

BackspaceCharacter ==
  /\ IF pos > 0 THEN Other(Erased(data, pos - 1, pos), pos - 1) ELSE Other(data, pos)
  /\ UNCHANGED recalled

\* The handlers that only move the cursor; line_previous and line_next are among
\* them when there is a line to go to, history_first and history_last when there
\* are several lines.  Where the assertion fails, the program ends in a build that
\* has it; without it line_previous goes on to the history, as in Recall.
Vertical ==
  IF hasNewlines
    THEN {p \in {UpFrom(data, pos), DownFrom(data, pos), 0, Len(data)} : p >= 0}
    ELSE {}
Moves ==
  {IF pos > 0 THEN pos - 1 ELSE pos, IF pos < Len(data) THEN pos + 1 ELSE pos}
    \cup {Home(repeats) : repeats \in BOOLEAN}
    \cup {EndOfLine(repeats) : repeats \in BOOLEAN}
    \cup {WordLeft(data, pos, breaks) : breaks \in {WordBreaks, SubwordBreaks}}
    \cup {WordRight(data, pos, breaks) : breaks \in {WordBreaks, SubwordBreaks}}
    \cup Vertical
MoveCursor ==
  /\ \E p \in Moves : Other(data, p)
  /\ UNCHANGED recalled

\* capitalize_word, lowercase_word, uppercase_word
ChangeCase(first, rest, breaks) ==
  LET from == WordStart(data, pos, breaks)
      to == WordRight(data, pos, breaks)
  IN /\ pos < Len(data)
     /\ Other([i \in 1..Len(data) |->
                 IF i = from + 1 /\ i <= to THEN first[data[i]]
                 ELSE IF i \in (from + 1)..to THEN rest[data[i]] ELSE data[i]],
              to)
     /\ UNCHANGED recalled

TransposeCharacters ==
  /\ pos > 0 /\ Len(data) > 1
  /\ LET left == IF pos = Len(data) THEN pos - 1 ELSE pos
     IN Other([data EXCEPT ![left] = data[left + 1], ![left + 1] = data[left]],
              IF pos = Len(data) THEN pos ELSE pos + 1)
  /\ UNCHANGED recalled

-----------------------------------------------------------------------------
(* Killing and yanking.                                                     *)

\* Wrong: the text joins at the other end; the cursor stays where it was.
KillRangeTurned(from, to, forward) ==
  /\ to - from <= MaxText
  /\ argYank' = FALSE /\ taken' = <<>> /\ UNCHANGED <<recalled, lastYankSize>>
  /\ IF from = to THEN Ring!Key("kill")
                  ELSE Ring!Kill(SubSeq(data, from + 1, to), ~forward)
  /\ Becomes(Erased(data, from, to), from,
             IF lastAction = "kill" THEN whole ELSE IF from = to THEN NoLine ELSE data)
KillRangeStays(from, to, forward) ==
  /\ to - from <= MaxText
  /\ argYank' = FALSE /\ taken' = <<>> /\ UNCHANGED <<recalled, lastYankSize>>
  /\ IF from = to THEN Ring!Key("kill")
                  ELSE Ring!Kill(SubSeq(data, from + 1, to), forward)
  /\ Becomes(Erased(data, from, to), pos,
             IF lastAction = "kill" THEN whole ELSE IF from = to THEN NoLine ELSE data)

\* A kill handler takes the text from one position to the other; action() sets
\* lastAction though there was nothing to take.
KillRange(from, to, forward) ==
  /\ to - from <= MaxText
  /\ argYank' = FALSE /\ taken' = <<>> /\ UNCHANGED <<recalled, lastYankSize>>
  /\ IF from = to THEN Ring!Key("kill")
                  ELSE Ring!Kill(SubSeq(data, from + 1, to), forward)
  /\ Becomes(Erased(data, from, to), from,
             IF lastAction = "kill" THEN whole ELSE IF from = to THEN NoLine ELSE data)

\* kill_word_to_left, kill_to_whitespace_to_left; kill_word_to_right
KillWordToLeft(breaks) == KillRange(WordLeft(data, pos, breaks), pos, FALSE)
KillWordToRight(breaks) == KillRange(pos, WordRight(data, pos, breaks), TRUE)
KillToEndOfLine == KillRange(pos, EndOfLine(TRUE), TRUE)
KillToBeginningOfLine ==
  KillRange(IF pos = 0 THEN 0 ELSE Home(TRUE), pos, FALSE)

\* yank; with an empty ring it beeps.
Yank ==
  /\ argYank' = FALSE
  /\ IF n = 0
       THEN UNCHANGED <<ring, lastYankSize, taken>> /\ Becomes(data, pos, whole)
       ELSE /\ Ring!Yank
            /\ taken' = inserted' /\ lastYankSize' = Len(inserted')
            /\ Becomes(Inserted(data, pos, inserted'), pos + Len(inserted'), NoLine)
  /\ UNCHANGED recalled

\* Wrong: the size of the first yank is taken back every time; the size is what the
\* line grew by.
TakeBackFirst(text, size) ==
  LET base == pos - size
  IN /\ base >= 0
     /\ taken' = text /\ UNCHANGED lastYankSize
     /\ Becomes(Inserted(Erased(data, base, pos), base, text), base + Len(text), NoLine)
TakeBackGrown(text, size) ==
  LET base == pos - size
  IN /\ base >= 0
     /\ taken' = text /\ lastYankSize' = Len(text) - size
     /\ Becomes(Inserted(Erased(data, base, pos), base, text), base + Len(text), NoLine)

\* What was yanked last gives way to text.  (Before position 0 it is undefined.)
TakeBack(text, size) ==
  LET base == pos - size
  IN /\ base >= 0
     /\ taken' = text /\ lastYankSize' = Len(text)
     /\ Becomes(Inserted(Erased(data, base, pos), base, text), base + Len(text), NoLine)

\* yank_cycle, right after a yank; any other time it beeps.
YankCycle ==
  /\ argYank' = FALSE
  /\ IF lastAction # "yank"
       THEN UNCHANGED <<ring, lastYankSize, taken>> /\ Becomes(data, pos, whole)
       ELSE Ring!YankPop /\ TakeBack(inserted', lastYankSize)
  /\ UNCHANGED recalled

\* The last word of a line.
LastArg(line) ==
  LET to == LeftUntil(line, Len(line), Chars \ Spaces)
  IN SubSeq(line, LeftUntil(line, to, Spaces) + 1, to)

\* Wrong: the size is not reset by the first one.
YankLastArgKeeping(entry) ==
  /\ argYank' = TRUE
  /\ UNCHANGED <<ring, recalled>>
  /\ TakeBack(LastArg(entry), lastYankSize)

\* yank_last_arg: the last word of an older entry, in place of the one before when
\* it is repeated.  Without an older entry it does nothing.
YankLastArg(entry) ==
  /\ argYank' = TRUE
  /\ UNCHANGED <<ring, recalled>>
  /\ TakeBack(LastArg(entry), IF argYank THEN lastYankSize ELSE 0)

-----------------------------------------------------------------------------
(* Lines from the history, completion, the beginning and the end.           *)

\* The handlers that go to another entry, or restore this one: history_move,
\* history_jump, history_restore, common_prefix_search.  Up and Down come here
\* when there is no line to go to.  The last entry is the line itself, here one of
\* Others.
Recall(line) ==
  /\ recalled' = IF line \in Entries THEN line ELSE NoLine
  /\ Other(line, Len(line))

\* One that finds no other entry; history_move has stored the line all the same.
RecallNothing ==
  /\ recalled' \in {recalled, IF recalled = NoLine THEN NoLine ELSE data}
  /\ Other(data, pos)

MayChange == ~(lastAction = "yank" \/ argYank) \/ "change_after_yank" \in Risks

\* incremental_history_search that found line, left with the cursor at p, or that
\* was cancelled or left before it searched.
SearchFinds(line, p) ==
  /\ MayChange
  /\ line # <<>> /\ p \in 0..Len(line)
  /\ recalled' \in {line, NoLine}
  /\ Neutral(line, p)
SearchCancelled ==
  /\ Neutral(data, pos)
  /\ UNCHANGED recalled

\* One that found nothing: it is left in the entry where it began, as it was
\* recalled, with the cursor where it was in the line as it is.
SearchFails ==
  LET active == IF recalled = NoLine THEN data ELSE recalled
  IN /\ MayChange
     /\ pos <= Len(active) \/ "search_edited" \in Risks
     /\ active # <<>>
     /\ Neutral(active, pos)
     /\ UNCHANGED recalled

\* do_complete_line: the word before the cursor gives way to a completion.
CompleteLine(text) ==
  LET from == LeftUntil(data, pos, WordBreaks)
  IN /\ MayChange
     /\ Neutral(Inserted(Erased(data, from, pos), from, text), from + Len(text))
     /\ UNCHANGED recalled

\* The keys that change nothing, clear_screen and toggle_overwrite_mode, and the
\* time-out that draws a skipped refresh.
OtherKey ==
  /\ Neutral(data, pos)
  /\ UNCHANGED recalled

\* set_state, called from a user's key handler, for which there is no action(); with
\* p = -1 no cursor is given.
SetState(line, p) ==
  /\ MayChange
  /\ p >= 0 \/ pos <= Len(line) \/ "state_without_cursor" \in Risks
  /\ data' = line /\ pos' = IF p >= 0 THEN Smaller(p, Len(line)) ELSE pos
  /\ whole' = NoLine /\ Drawn(line)
  /\ UNCHANGED <<recalled, yanks, ring>>

\* input: clear, preload_puffer, get_input_line.
Start(line) ==
  /\ phase = "idle" /\ phase' = "input"
  /\ Ring!Key("other")
  /\ data' = line /\ pos' = Len(line)
  /\ IF line = <<>> THEN UNCHANGED hasNewlines ELSE Drawn(line)
  /\ recalled' = NoLine /\ whole' = NoLine /\ argYank' = FALSE /\ taken' = <<>>
  /\ UNCHANGED lastYankSize

\* commit_line, abort_line
Finish ==
  /\ phase = "input" /\ phase' = "idle"
  /\ Other(data, Len(data))
  /\ recalled' = NoLine

Edits ==
  \/ \E c \in Chars, overwrite \in BOOLEAN : InsertCharacter(c, overwrite)
  \/ \E text \in Others : InsertText(text)
  \/ DeleteCharacter \/ SendEof \/ BackspaceCharacter
  \/ MoveCursor \/ TransposeCharacters
  \/ \E breaks \in {WordBreaks, SubwordBreaks} :
       \/ ChangeCase(Upper, Lower, breaks)
       \/ ChangeCase(Lower, Lower, breaks) \/ ChangeCase(Upper, Upper, breaks)

Kills ==
  \/ \E breaks \in {WordBreaks, SubwordBreaks, Spaces} : KillWordToLeft(breaks)
  \/ \E breaks \in {WordBreaks, SubwordBreaks} : KillWordToRight(breaks)
  \/ KillToEndOfLine \/ KillToBeginningOfLine

Yanks == Yank \/ YankCycle \/ (\E entry \in Entries : YankLastArg(entry))

Recalls ==
  \/ \E line \in Entries \cup Others : Recall(line)
  \/ RecallNothing
  \/ \E line \in Entries, p \in 0..MaxLen : SearchFinds(line, p)
  \/ SearchCancelled \/ SearchFails
  \/ \E text \in Others : CompleteLine(text)
  \/ \E line \in Others, p \in -1..MaxLen : SetState(line, p)

Next ==
  \/ \E line \in Others \cup {<<>>} : Start(line)
  \/ /\ phase = "input" /\ UNCHANGED phase
     /\ Edits \/ Kills \/ Yanks \/ Recalls \/ OtherKey
  \/ Finish

Spec == Init /\ [][Next]_vars

-----------------------------------------------------------------------------
\* The cursor is in the line: what the comment of _pos says.  Half of the handlers
\* replace the line or subtract a length from the cursor.
PosInLine == pos \in 0..Len(data)

\* Kills without another key between them, in either direction, join to the text
\* that was there: ctrl-Y gives back the line as it was before the first of them.
YankRestores ==
  whole # NoLine =>
    /\ lastAction = "kill" /\ n > 0
    /\ Inserted(data, pos, recent[cursor]) = whole

\* What the next meta-Y, or the next repeated meta-., takes back from before the
\* cursor is the text that was put there, whatever keys came in between.
YankedIsThere ==
  phase = "input" /\ (lastAction = "yank" \/ argYank) =>
    /\ lastYankSize <= pos
    /\ SubSeq(data, pos - lastYankSize + 1, pos) = taken

\* ctrl-Y, meta-Y and meta-. take nothing from the line but what the one just before
\* put there.
OnlyYankedGoes ==
  [][Yanks /\ (lastAction' = "yank" \/ argYank') =>
       Erased(data', pos' - Len(taken'), pos')
         \in {data, Erased(data, pos - Len(taken), pos)}]_vars

\* Rows and columns as the user sees them.
RowOf(d, p) == Cardinality({i \in NewlinesAt(d) : i < p})
ColumnOf(d, p) ==
  LET above == {i \in NewlinesAt(d) : i < p}
      shift == IF above = {} /\ ~IndentMultiline THEN Indentation ELSE 0
  IN p - (IF above = {} THEN 0 ELSE Max(above) + 1) + shift
\* The position of a row that is nearest to a column, from the left if it can be.
Nearest(d, row, column) ==
  LET there == {q \in 0..Len(d) : RowOf(d, q) = row}
      before == {q \in there : ColumnOf(d, q) <= column}
  IN IF there = {} THEN -1 ELSE IF before = {} THEN Min(there) ELSE Max(before)

\* Up and Down in an input of several lines go to the row above and below, and to
\* the same column of the screen there; if the row is too short, to its end.  (Not
\* Up from a newline at the beginning of the input, where an assertion fails.)
VerticalKeepsColumn ==
  /\ ~OnFirstNewline(data, pos) =>
       UpFrom(data, pos) = Nearest(data, RowOf(data, pos) - 1, ColumnOf(data, pos))
  /\ DownFrom(data, pos) = Nearest(data, RowOf(data, pos) + 1, ColumnOf(data, pos))

\* Home and End go to the ends of the row of the cursor.  (Not from a newline at
\* the beginning of the input, where Home goes behind it.)
RowEnds ==
  (hasNewlines \/ NewlinesAt(data) = {}) /\ ~OnFirstNewline(data, pos) =>
    LET row == {q \in 0..Len(data) : RowOf(data, q) = RowOf(data, pos)}
    IN Home(FALSE) = Min(row) /\ EndOfLine(FALSE) = Max(row)

\* The keys that move by rows go where the rows on the screen say, Up and Home with
\* the exception of that position.
RowKeys == phase = "input" => VerticalKeepsColumn /\ RowEnds
=============================================================================
