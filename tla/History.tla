------------------------------ MODULE History ------------------------------
(***************************************************************************)
(* class History and the key handlers that walk it.  The list of entries   *)
(* is a std::list and four kinds of iterators stay pointed into it across  *)
(* insertions and erasures: _current, _previous, _yankPos and the values   *)
(* of _locations.  Each entry has the text it was added with and a         *)
(* scratch, the line as the user left it when it was last recalled.        *)
(* Entry::text() gives the scratch.                                        *)
(*                                                                         *)
(* The variable history is the object.  An iterator is the position of the *)
(* entry it points to, and every erasure moves it along; End is            *)
(* _entries.end() and, in locations, no iterator at all; Dangling is an    *)
(* iterator whose entry was erased.  A line is one of a small set.  During *)
(* an input() the last entry is the line being edited, when it was last    *)
(* looked at.  Erasing or reading through a dangling iterator is undefined *)
(* and not modelled further: the steps that would are not enabled.         *)
(***************************************************************************)
EXTENDS Integers, Sequences, FiniteSets

CONSTANTS
  Lines,      \* the texts of lines
  Empty,      \* the empty one
  NoLine,     \* no text
  MaxEntries, \* bound: the largest size set or loaded
  Repeatable, MaxRepeated, \* bounds: the lines, and the largest size, while
                           \* the history may hold duplicates
  UniqueVals, \* values of set_unique_history() that are used
  Risks       \* what the user and the program do besides plain use, see below

\* "edit_recalled": recalled lines are edited while the history is unique.
\* "down_on_nothing": Down right after a line was accepted from an empty history.
\* "unique_any_time": set_unique_history() between a line and the next.  It erases
\* the duplicates under _current and _previous.
ASSUME HistoryAssumption ==
  /\ Empty \in Lines /\ NoLine \notin Lines
  /\ MaxEntries \in Nat \ {0} /\ MaxRepeated \in 1..MaxEntries
  /\ Empty \in Repeatable /\ Repeatable \subseteq Lines
  /\ UniqueVals \subseteq BOOLEAN /\ UniqueVals # {}
  /\ Risks \subseteq {"edit_recalled", "down_on_nothing", "unique_any_time"}

VARIABLES
  history,  \* the History object
  data,     \* _data, the line being edited, and after it the accepted line
  phase,    \* idle, input, search, found, accepted, aborted, added
  before,   \* the entries when the input() began
  typed,    \* the texts that took the place of the last entry during it
  follow    \* the text that comes after the accepted one

vars == <<history, data, phase, before, typed, follow>>

End == 0
Dangling == -1

Entry(line) == [text |-> line, scratch |-> line]
Last(h) == Len(h.entries)
Positions(h) == 1..Len(h.entries)
Text(h, i) == h.entries[i].scratch

TypeOK ==
  /\ history \in [entries : Seq([text : Lines, scratch : Lines]),
                  locations : [Lines -> Int], maxSize : Nat,
                  current : Int, previous : Int, yankPos : Int,
                  recallMostRecent : BOOLEAN, unique : BOOLEAN]
  /\ history.yankPos \in Positions(history) \cup {End}
  /\ {history.current, history.previous}
       \cup {history.locations[line] : line \in Lines}
       \subseteq Positions(history) \cup {End, Dangling}
  /\ data \in Lines /\ typed \subseteq Lines
  /\ before \in Seq([text : Lines, scratch : Lines])
  /\ phase \in {"idle", "input", "search", "found",
                "accepted", "aborted", "added"}
  /\ follow \in Lines \cup {NoLine}

\* Bounds: the lines and the sizes that are used.
LinesUsed == IF history.unique THEN Lines ELSE Repeatable
SizesUsed == IF history.unique THEN 1..MaxEntries ELSE 1..MaxRepeated

NoLocations == [line \in Lines |-> End]

Init ==
  /\ \E unique \in UniqueVals :
       history = [entries |-> <<>>, locations |-> NoLocations,
                  maxSize |-> IF unique THEN MaxEntries ELSE MaxRepeated, current |-> End, previous |-> End,
                  yankPos |-> End, recallMostRecent |-> FALSE, unique |-> unique]
  /\ data = Empty /\ phase = "idle"
  /\ before = <<>> /\ typed = {} /\ follow = NoLine

-----------------------------------------------------------------------------
(* The operations of History.                                               *)

\* Only the entries at the positions S are left; the iterators follow.
Keep(h, S) ==
  LET rank(i) == Cardinality({j \in S : j <= i})
      moved(p) == IF p \in S THEN rank(p) ELSE IF p = End THEN End ELSE Dangling
  IN [h EXCEPT
        !.entries = [k \in 1..Cardinality(S) |->
                       h.entries[CHOOSE i \in S : rank(i) = k]],
        !.locations = [line \in Lines |-> moved(h.locations[line])],
        !.current = moved(@), !.previous = moved(@), !.yankPos = moved(@)]

\* Wrong: _previous stays on an entry that is gone.
EraseUnderPrevious(h, i) ==
  LET left == Keep(h, Positions(h) \ {i})
      next == IF h.current # i THEN left.current ELSE IF i = Last(h) THEN End ELSE i
  IN [left EXCEPT !.locations[Text(h, i)] = End, !.yankPos = End,
                  !.current = IF next = End THEN Last(left) ELSE next]

\* Wrong: _current goes back where it has to go on.
EraseBackwards(h, i) ==
  LET left == Keep(h, Positions(h) \ {i})
      next == IF h.current # i THEN left.current ELSE i - 1
      current == IF next = End THEN Last(left) ELSE next
  IN [left EXCEPT !.locations[Text(h, i)] = End, !.yankPos = End,
                  !.current = current, !.previous = current]

\* erase: _current moves on to the next entry, or back from the end; _previous
\* goes where _current is.  The location is looked up by the scratch.
Erase(h, i) ==
  LET left == Keep(h, Positions(h) \ {i})
      next == IF h.current # i THEN left.current ELSE IF i = Last(h) THEN End ELSE i
      current == IF next = End THEN Last(left) ELSE next
  IN [left EXCEPT !.locations[Text(h, i)] = End, !.yankPos = End,
                  !.current = current, !.previous = current]

\* Wrong: one entry too many stays.
TrimLoosely(h) ==
  LET erased[n \in 0..Last(h)] == IF n = 0 THEN h ELSE Erase(erased[n - 1], 1)
  IN IF Last(h) > h.maxSize + 1 THEN erased[Last(h) - h.maxSize - 1] ELSE h

\* trim_to_max_size: the oldest entries go first.
TrimToMaxSize(h) ==
  LET erased[n \in 0..Last(h)] == IF n = 0 THEN h ELSE Erase(erased[n - 1], 1)
  IN IF Last(h) > h.maxSize THEN erased[Last(h) - h.maxSize] ELSE h

\* Erasing through a dangling location is undefined.
Defined(h, line) == h.unique => h.locations[line] # Dangling

RemoveDuplicate(h, line) ==
  IF h.unique /\ h.locations[line] # End THEN Erase(h, h.locations[line]) ELSE h

\* remove_duplicates: of the entries with one text the last stays; no iterator
\* but the locations is looked after.
RemoveDuplicates(h) ==
  IF ~h.unique THEN h
  ELSE LET kept == Keep(h, {i \in Positions(h) : \A j \in Positions(h) :
                              j > i => h.entries[j].text # h.entries[i].text})
       IN [kept EXCEPT
             !.entries = [i \in Positions(kept) |-> Entry(kept.entries[i].text)],
             !.locations = [line \in Lines |->
                IF \E i \in Positions(kept) : kept.entries[i].text = line
                  THEN CHOOSE i \in Positions(kept) : kept.entries[i].text = line
                  ELSE End]]

\* _locations.insert: an iterator that is there already is not replaced.
Located(h, line, i) ==
  IF h.locations[line] = End THEN [h EXCEPT !.locations[line] = i] ELSE h

\* Wrong: the older entry with that text stays.
AddTwice(h, line) ==
  IF h.entries # <<>> /\ Text(h, Last(h)) = line
    THEN [h EXCEPT !.entries[Last(h)] = Entry(line)]
    ELSE LET room == TrimToMaxSize(h)
             last == Last(room) + 1
         IN [Located(room, line, last) EXCEPT
               !.entries = Append(@, Entry(line)), !.yankPos = End,
               !.current = IF @ = End THEN last ELSE @]

\* add: room is made for maxSize entries before there is one more.
Add(h, line) ==
  IF h.entries # <<>> /\ Text(h, Last(h)) = line
    THEN [h EXCEPT !.entries[Last(h)] = Entry(line)]
    ELSE LET room == TrimToMaxSize(RemoveDuplicate(h, line))
             last == Last(room) + 1
         IN [Located(room, line, last) EXCEPT
               !.entries = Append(@, Entry(line)), !.yankPos = End,
               !.current = IF @ = End THEN last ELSE @]

Clear(h) ==
  [Keep(h, {}) EXCEPT !.locations = NoLocations, !.current = End,
                      !.recallMostRecent = FALSE]

\* load: clear, do_load, sort, remove_duplicates, trim_to_max_size.
Load(h, lines) ==
  LET read == [Clear(h) EXCEPT !.entries = [i \in DOMAIN lines |-> Entry(lines[i])]]
      fit == TrimToMaxSize(RemoveDuplicates(read))
  IN [fit EXCEPT !.current = Last(fit), !.previous = Last(fit), !.yankPos = End]

\* update_last: the last entry becomes the line; its older duplicate goes.
WithoutLast(h) ==
  IF h.unique THEN [h EXCEPT !.locations[Text(h, Last(h))] = End] ELSE h
UpdateLast(h, line) ==
  LET alone == RemoveDuplicate(WithoutLast(h), line)
      known == IF h.unique THEN Located(alone, line, Last(alone)) ELSE alone
  IN [known EXCEPT !.entries[Last(known)] = Entry(line)]

\* Wrong: the entry the user looks at goes, not the last one.
DropCurrent(h) ==
  Erase([h EXCEPT !.entries[h.current].scratch = h.entries[h.current].text],
        h.current)

DropLast(h) ==
  Erase([h EXCEPT !.entries[h.current].scratch = h.entries[h.current].text],
        Last(h))

IsLast(h) == h.current = Last(h)
SetScratch(h, line) == [h EXCEPT !.entries[h.current].scratch = line]
CommitIndex(h) == [h EXCEPT !.previous = h.current, !.recallMostRecent = TRUE]
ResetYank(h) == [h EXCEPT !.yankPos = End]

\* Whether Down goes to _previous.
Recalls(h, up) == h.recallMostRecent /\ ~up

\* move: where _current goes; it stays at both ends of the list.
Moved(h, up) ==
  IF Recalls(h, up) THEN h.previous
  ELSE IF up THEN IF h.current = 1 THEN 1 ELSE h.current - 1
  ELSE IF h.current = Last(h) THEN Last(h) ELSE h.current + 1

Move(h, up) == [h EXCEPT !.current = Moved(h, up), !.recallMostRecent = FALSE]

\* Wrong: the end is not looked at.
NextYankUnchecked(h) == h.yankPos - 1

\* Wrong: back to the newest entry, which is the line itself.
NextYankFromLast(h) ==
  IF h.yankPos \in {1, End} THEN Last(h) ELSE h.yankPos - 1

\* next_yank_position: one entry older, and from the oldest back to the newest
\* but one.
NextYankPosition(h) ==
  IF h.yankPos \in {1, End} THEN Last(h) - 1 ELSE h.yankPos - 1

-----------------------------------------------------------------------------
(* The program, between two inputs.                                         *)

Between == phase \notin {"input", "search", "found"}

HistoryAdd(line) ==
  /\ Between /\ Defined(history, line)
  /\ history' = Add(history, line)
  /\ LET again == phase = "accepted" /\ line = data IN
       /\ phase' = IF again THEN "added" ELSE "idle"
       /\ follow' = IF again THEN follow ELSE NoLine
  /\ before' = <<>> /\ typed' = {}
  /\ UNCHANGED data

\* The calls after which there is nothing to follow.
Call(h) ==
  /\ Between
  /\ history' = h
  /\ phase' = "idle" /\ follow' = NoLine /\ before' = <<>> /\ typed' = {}
  /\ UNCHANGED data

HistoryClear == Call(Clear(history))

HistoryLoad(lines) == Call(Load(history, lines))

SetMaxHistorySize(size) ==
  Call(TrimToMaxSize([history EXCEPT !.maxSize = size]))

Texts(h) == UNION {{h.entries[i].text, Text(h, i)} : i \in Positions(h)}

SetUniqueHistory(val) ==
  /\ "unique_any_time" \in Risks \/ ~history.recallMostRecent
  /\ ~val => (history.maxSize <= MaxRepeated /\ Texts(history) \subseteq Repeatable)
  /\ Call(RemoveDuplicates([history EXCEPT !.unique = val]))

\* input, get_input_line: the line, empty or preloaded, is the last entry.
Start(line) ==
  /\ Between /\ Defined(history, line)
  /\ history' = LET h == Add(history, line) IN [h EXCEPT !.current = Last(h)]
  /\ data' = line /\ phase' = "input"
  /\ before' = history.entries /\ typed' = {line}
  /\ follow' = IF phase = "added" THEN follow ELSE NoLine

-----------------------------------------------------------------------------
(* The keys.  action() resets the yank iterator after all but yank_last_arg. *)

\* The handlers that look at the history first store the line in it.
Stored == IF IsLast(history) THEN UpdateLast(history, data) ELSE history
CanStore == IsLast(history) => Defined(WithoutLast(history), data)
NowTyped == typed' = IF IsLast(history) THEN typed \cup {data} ELSE typed

\* What changes the line: most handlers, of which action() knows that they do;
\* verbatim_insert and the modify callback, after which Down still goes to
\* _previous; set_state() from a key handler of the program, outside action().
EditLine(line) ==
  /\ phase = "input"
  /\ "edit_recalled" \in Risks \/ ~history.unique \/ IsLast(history)
  /\ data' = line
  /\ \/ history' = ResetYank([history EXCEPT !.recallMostRecent = FALSE])
     \/ history' = ResetYank(history)
     \/ history' = history
  /\ follow' = NoLine
  /\ UNCHANGED <<phase, before, typed>>

\* The handlers that move the cursor, and those that find nothing to do.
OtherKey ==
  /\ phase = "input"
  /\ history' = ResetYank(history)
  /\ follow' = NoLine
  /\ UNCHANGED <<data, phase, before, typed>>

\* history_move: Up and Down, in a line without newlines.
HistoryMove(up) ==
  /\ phase = "input" /\ CanStore
  /\ LET kept == SetScratch(Stored, data)
         moves == Recalls(kept, up) \/ Moved(kept, up) # kept.current
     IN /\ Recalls(kept, up) =>
             kept.previous # End \/ "down_on_nothing" \in Risks
        /\ kept.previous = Dangling => ~Recalls(kept, up)
        /\ history' = ResetYank(Move(kept, up))
        /\ IF ~moves THEN UNCHANGED data
           ELSE IF history'.current = End THEN data' \in LinesUsed
           ELSE data' = Text(history', history'.current)
  /\ NowTyped
  /\ follow' = NoLine
  /\ UNCHANGED <<phase, before>>

\* history_jump: to the first or the last entry.
HistoryJump(first) ==
  /\ phase = "input" /\ CanStore
  /\ LET kept == SetScratch(Stored, data)
         to == IF first THEN 1 ELSE Last(kept)
     IN /\ history' = ResetYank([kept EXCEPT !.current = to,
                                             !.recallMostRecent = FALSE])
        /\ data' = Text(kept, to)
  /\ NowTyped
  /\ follow' = NoLine
  /\ UNCHANGED <<phase, before>>

\* history_restore_current, history_restore: recalled lines as they were added,
\* one or all of them.
HistoryRestore(which) ==
  /\ phase = "input"
  /\ LET fresh == [i \in Positions(history) |->
                     IF i \in which THEN Entry(history.entries[i].text)
                                    ELSE history.entries[i]]
     IN /\ history' = ResetYank([history EXCEPT !.entries = fresh])
        /\ data' = IF IsLast(history) THEN data ELSE fresh[history.current].scratch
  /\ follow' = NoLine
  /\ UNCHANGED <<phase, before, typed>>

RestoreCurrent == ~IsLast(history) /\ HistoryRestore({history.current})
RestoreAll == HistoryRestore(Positions(history))

\* common_prefix_search: the nearest entry, around the list, of those whose line
\* has the prefix.
CommonPrefixSearch(back, having) ==
  LET away(i) == (IF back THEN history.current - i ELSE i - history.current)
                   % Last(history)
      found == {i \in Positions(history) \ {history.current} :
                  Text(history, i) \in having}
  IN /\ phase = "input" /\ found # {}
     /\ \E i \in found :
          /\ \A j \in found : away(i) <= away(j)
          /\ history' = ResetYank(CommitIndex([history EXCEPT !.current = i]))
          /\ data' = Text(history, i)
     /\ follow' = NoLine
     /\ UNCHANGED <<phase, before, typed>>

\* yank_last_arg: a word of an older entry gets into the line.
YankLastArg ==
  /\ phase = "input" /\ Last(history) >= 2
  /\ "edit_recalled" \in Risks \/ ~history.unique \/ IsLast(history)
  /\ data' \in LinesUsed
  /\ history' = [history EXCEPT !.yankPos = NextYankPosition(history),
                                !.recallMostRecent = FALSE]
  /\ follow' = NoLine
  /\ UNCHANGED <<phase, before, typed>>

\* incremental_history_search: the position is saved, the search walks.
SearchBegin ==
  /\ phase = "input" /\ CanStore
  /\ history' = [Stored EXCEPT !.previous = Stored.current]
  /\ phase' = "search"
  /\ NowTyped
  /\ follow' = NoLine
  /\ UNCHANGED <<data, before>>

\* A key of the search: the lines that now hold the searched text are looked for
\* from the current one on, or, after a letter was taken back, from the saved one.
\* The current line may hold it where it was not looked for yet.  A search that
\* fails, or has no text to look for, goes back to the saved position.
SearchFind(up, having, takenBack) ==
  LET from == IF takenBack THEN history.previous ELSE history.current
      ahead == {i \in Positions(history) :
                  Text(history, i) \in having /\ IF up THEN i < from ELSE i > from}
  IN /\ phase \in {"search", "found"} /\ phase' = "found"
     /\ \/ /\ Text(history, from) \in having
           /\ \E moved \in BOOLEAN :
                history' = [history EXCEPT !.current = from,
                                           !.recallMostRecent = @ /\ (up \/ ~moved)]
        \/ \E i \in ahead :
             /\ \A j \in ahead : IF up THEN j <= i ELSE i <= j
             /\ history' = [history EXCEPT !.current = i, !.recallMostRecent = FALSE]
        \/ /\ ahead = {}
           /\ \E looked \in BOOLEAN :
                /\ having # {} => looked
                /\ history' = [history EXCEPT !.current = history.previous,
                                              !.recallMostRecent = @ /\ ~looked]
     /\ UNCHANGED <<data, before, typed, follow>>

\* The line found is taken over, when one was looked for and it is not empty.
SearchAccept ==
  /\ phase \in {"search", "found"} /\ phase' = "input"
  /\ IF phase = "search" \/ Text(history, history.current) = Empty
       THEN history' = ResetYank(history) /\ UNCHANGED data
       ELSE /\ history' = ResetYank(CommitIndex(history))
            /\ data' = Text(history, history.current)
  /\ UNCHANGED <<before, typed, follow>>

SearchCancel ==
  /\ phase \in {"search", "found"} /\ phase' = "input"
  /\ history' = ResetYank([history EXCEPT !.current = history.previous])
  /\ UNCHANGED <<data, before, typed, follow>>

\* The entry after the current one, when the line is that one as it was recalled and
\* the entry after it is not the line being edited.
AfterCurrent ==
  IF history.current + 1 < Last(history)
       /\ data = history.entries[history.current].text
    THEN history.entries[history.current + 1].text ELSE NoLine

\* commit_line
CommitLine ==
  /\ phase = "input" /\ phase' = "accepted"
  /\ history' = ResetYank(DropLast(CommitIndex(history)))
  /\ follow' = AfterCurrent
  /\ UNCHANGED <<data, before, typed>>

\* abort_line, and send_eof on an empty line
AbortLine ==
  /\ phase = "input" /\ phase' = "aborted"
  /\ history' = [DropLast(history) EXCEPT !.recallMostRecent = FALSE]
  /\ follow' = NoLine
  /\ UNCHANGED <<data, before, typed>>

Program ==
  \/ \E line \in LinesUsed : HistoryAdd(line)
  \/ \E n \in SizesUsed \cup {0} : \E lines \in [1..n -> LinesUsed \ {Empty}] :
       HistoryLoad(lines)
  \/ \E size \in SizesUsed : SetMaxHistorySize(size)
  \/ \E val \in UniqueVals : SetUniqueHistory(val)
  \/ HistoryClear

Keys ==
  \/ \E line \in LinesUsed : EditLine(line)
  \/ \E up \in BOOLEAN : HistoryMove(up) \/ HistoryJump(up)
  \/ RestoreCurrent \/ RestoreAll \/ YankLastArg \/ OtherKey
  \/ \E back \in BOOLEAN, having \in SUBSET LinesUsed :
       CommonPrefixSearch(back, having)
  \/ \E up, takenBack \in BOOLEAN, having \in SUBSET (LinesUsed \ {Empty}) :
       SearchFind(up, having, takenBack)
  \/ SearchBegin \/ SearchAccept \/ SearchCancel

Next ==
  \/ Program \/ (\E line \in LinesUsed : Start(line))
  \/ Keys \/ CommitLine \/ AbortLine

Spec == Init /\ [][Next]_vars

-----------------------------------------------------------------------------
\* No iterator that will be read through dangles or is at the end: during an
\* input() _current is an entry, and _previous, where Down goes after an accepted
\* line and a cancelled search goes back to, is one or is known to be none.
CurrentIsEntry == ~Between => history.current \in Positions(history)
PreviousIsEntry ==
  phase \in {"search", "found"} \/ (~Between /\ history.recallMostRecent) =>
    history.previous \in Positions(history) \cup {End}
IteratorsAreEntries == CurrentIsEntry /\ PreviousIsEntry

\* In a unique history the locations lead to every entry by its text and to
\* nothing else: the next duplicate will be found, and nothing is erased twice.
LocationsExact ==
  history.unique =>
    \A line \in Lines, i \in Positions(history) \cup {Dangling} :
      history.locations[line] = i
        <=> i # Dangling /\ history.entries[i].text = line

\* The list never grows past the maximum by more than the line being edited.
\* (Between two inputs it keeps that one too many: see the README.)
SizeBounded == Len(history.entries) <= history.maxSize + 1

\* meta-. never offers the line being edited to itself.
YankedIsOlder == phase = "input" => history.yankPos # Last(history)

\* An input() takes nothing from the history but duplicates of what the line was
\* when it was stored, and the oldest entry when there were too many; it adds
\* nothing and changes neither a text nor the order.  A duplicate is told by the
\* text of an entry or by its scratch.
HistoryKept ==
  phase \in {"accepted", "aborted"} =>
    \E kept \in SUBSET (1..Len(before)) :
      /\ \A i \in (1..Len(before)) \ kept :
           \/ {before[i].text, before[i].scratch} \cap typed # {}
           \/ i = 1 /\ Len(before) > history.maxSize
      /\ Cardinality(kept) = Len(history.entries)
      /\ \A i \in kept :
           history.entries[Cardinality({j \in kept : j <= i})].text = before[i].text

\* A program that adds each accepted line: when a recalled line is accepted as
\* it was, Down in the next input() knows where to go on.  In a unique history
\* it goes to the line that came after it, though the accepted one was erased and
\* added anew at the end.  In one with duplicates the accepted entry stays where it
\* was and Down recalls it once more, or, when it was the oldest of too many, the
\* one after it.
DownFollowsAccepted ==
  phase = "input" /\ follow # NoLine =>
    LET accepted == before[Len(before)].text
        recalled == history.entries[history.previous].text
        goesOn == history.recallMostRecent /\ history.previous \in Positions(history)
    IN IF history.unique
         THEN (\E i \in 1..(Last(history) - 1) : history.entries[i].text = follow)
                => goesOn /\ recalled = follow
         ELSE /\ goesOn
              /\ recalled = accepted \/ (history.previous = 1 /\ recalled = follow)
=============================================================================
