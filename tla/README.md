# replxx in TLA+

replxx is a readline replacement: one thread sits in `Replxx::input()` and edits
a line, other threads may print, change the prompt and emulate keys meanwhile.
The program's own logic is in `src/src/replxx_impl.cxx`, `history.cxx`,
`killring.hxx`, `terminal.cxx`, `escape.cxx`, `conversion.cxx`, `prompt.cxx` and
`util.cxx`; the rest is tables and forwarding.

## Inventory

| part | state | operations | what it talks to |
|---|---|---|---|
| event loop and asynchronous calls (`input`, `read_char`, `finalize_input`, `print`, `set_prompt`, `emulate_key_press`, `Terminal::wait_for_input`, `notify_event`) | `_mutex`, `_currentThread`, `_keyPresses`, `_messages`, `_asyncPrompt`, `_updatePrompt`, `_refreshSkipped`, the interrupt pipe | the calls of other threads, the wait of the reader, the flush at the end of an input | every other part runs inside it, as a key handler |
| kill ring (`KillRing`, `yank`, `yank_cycle`, the kill handlers) | the ring, `indexToSlot`, `size`, `index`, `lastAction` | kill, yank, meta-Y | the line; `action()` sets `lastAction` |
| history list (`History`, the history handlers) | `_entries`, `_locations`, `_current`, `_previous`, `_yankPos`, `_recallMostRecent`, `_unique`, `_maxSize` | add, load, clear, resize, recall, restore, search, accept, abort | the line; the line being edited is the last entry |
| history file (`save`, `sync`, `load`, `FileLock`) | the file, its lock file, the list while two lists are merged | save, sync, load | other processes |
| line editor (the other handlers) | `_data`, `_pos`, `_prefix`, `_hasNewlines`, `_lastYankSize`, `_overwrite` | insert, delete, move, kill, yank, change case, move between lines | kill ring, history, completion |
| incremental search | its own text, prompt and reading of keys | ctrl-R, ctrl-S | history, event loop |
| completion and hints (`do_complete_line`, `complete`, `handle_hints`) | `_completions`, `_completionSelection`, `_completionContextLength`, `_hintSelection`, `_hint` | Tab, the keys that cycle, the hint keys | user callbacks, line, event loop |
| rendering and prompt (`refresh_line`, `render`, `matching_paren`, `repaint`, `Prompt`, `util.cxx`) | `_display`, `_oldPos`, `_moveCursor`, `_lineModified`, the row of the cursor, prompt geometry | refresh, move the cursor, repaint | terminal, line, hints |
| terminal input and modes (`read_unicode_character`, `Terminal::read_char`, `read_verbatim`, `bracketed_paste`) | a static buffer of bytes, raw mode, bracketed paste | read a character, read verbatim, enable, disable, suspend | the operating system |
| key decoding (`escape.cxx`) | the modifiers seen so far, which are a global | one routine per table | terminal input |
| Unicode conversion (`conversion.cxx`, `ConvertUTF`, `wcwidth`) | the locale | UTF-8 to code points and back | every text that comes in or goes out |
| wrappers (`replxx.cxx`), Windows console | none | forwarding | |

What is hard here, part by part (each hazard with its line is in `PROJECT.json`):

* *Event loop.* A call changes shared state and wakes the reader through a pipe of
  limited capacity, holding the mutex while the pipe is full.  A byte in the pipe
  and the thing it announces can get apart: the queue of keys is also looked at
  without a byte.  `finalize_input` lets go of the mutex around each write, a write
  may throw, and the catch block runs `finalize_input` again.  A refresh may be
  skipped and must be made up for by a time-out.  It is correct when no wake-up is
  lost, every message is written once and in order, every key is handled once and
  in order, a prompt is applied to the input it was set for, and none of that has
  to wait for the user to type, unless a key was begun or a handler reads the
  terminal by itself.
* *Kill ring.* Texts stay in place and an index array is rotated; kills join while
  `lastAction` says so, whatever else moved `index`.  It is correct when it behaves
  as the list of the last kills.
* *History.* Four kinds of iterators survive erasures; `erase()` finds the location
  of an entry by its scratch; the line itself is in the list during an input.  It is
  correct when no iterator dangles when it is used, an input costs no entry, the
  locations lead to every entry, and Down continues after an accepted entry.
* *History file.* Several processes, a lock file that is removed, a file that is
  truncated and written anew, a merge that swaps the list and may return early.  It
  is correct when a save is one step to everybody else, nobody's entries get lost in
  it, and its caller gets its own list back.
* *Line editor.* `_pos` must stay within the line though several operations
  subtract a size remembered from an earlier one.  A yank must take back what was
  yanked, and kills in a row must add up to what was there.
* *Completion.* What was inserted last is remembered as a selection and a context
  length, hints and completions have a selection each, and lists of completions read
  keys themselves.  It is correct when cycling changes the word at the cursor and
  nothing else, and the list has every completion once.
* *Rendering.* The library has no picture of the screen: it knows on which row the
  cursor is, counts wrapped rows ahead of time, and has four ways to avoid drawing
  everything.  It is correct when the screen shows prompt, line and hints, whatever
  was there before, and leaves alone what is above.
* *Terminal input, key decoding, Unicode.* Characters and keys arrive byte by byte,
  both decoders keep state from one call to the next, and three readers (keys, paste,
  verbatim) divide one stream.  They are correct when a character or key means what
  its own bytes say and a text comes back as it was sent.
* *Incremental search.* A nested loop that reads keys itself and hands the last one
  back to the outer loop.

## Modules

| module | what it is |
|---|---|
| `EventLoop` | the channel between the reader and the other threads |
| `RecentKills` | abstract specification: the list of the last kills |
| `KillRing` | the ring of slots, which implements `RecentKills` |
| `History` | the history list and every handler that walks it |
| `SharedHistory` | abstract specification: saving, synchronizing and loading as one step each |
| `HistoryFile` | the steps of a save, the lock file, crashes; implements `SharedHistory` |
| `LineEditor` | the line, the cursor and the key handlers, with `INSTANCE RecentKills` as its kill ring |
| `Completion` | the completions of the word at the cursor, their cycle and their list |
| `Screen` | a terminal: what is written where |
| `Rendering` | everything that draws, on a `Screen` |
| `Unicode` | UTF-8 to code points and back |
| `TerminalInput` | from bytes to characters, keys and pasted text; extends `Unicode` |
| `MC...` | the instances for TLC: symmetry, texts, words and options of the runs |
| `...Proofs` | theorems about `EventLoop`, `KillRing`, `History`, `HistoryFile`, `LineEditor`, `Completion`, `TerminalInput` with `Unicode`, `Rendering` |

Several modules have a constant `Risks`.  It names uses of the library, or parts of
it, that break a property of the module in the code as it is; the passing runs leave
them out with `Risks = {}`.  What each breaks is under Findings.

### EventLoop

`lock` is the holder of `_mutex` across the blocking `write()` of
`Terminal::notify_event`; every other critical section has no blocking call and is
one step, taken when `lock = NoThread`.  `current` is "`_currentThread` is set".  A
message and an emulated key are a pair of caller and number, a typed byte carries no
identity (`tty` counts them).  `asyncPrompt` and `prompt` are `"latest"` when they
are the last prompt anybody asked for.  `pc` is where the reader is: in `read_char`
before its loop (`read`), in `select` (`wait`), at the branch for messages
(`message`), behind the loop (`got`), in the blocking read of the terminal
(`block`), in the middle of a character or an escape sequence (`partial`), in a
handler (`handle`), in a handler that reads the terminal by itself (`raw`), before the
newline of `input()` (`finish`), and in `finalize_input` at the head of its loop
(`finalize`), before and after the write of a message (`flush`, `flushed`).
`escaped` is an exception that left `input()`.  `tpc` is where a caller is: idle,
before its byte (`k`, `m`), or about to write to the terminal itself (`write`).

`emulate_key_press`, `print` and `set_prompt` are `EmulateKeyPress`, `PrintMessage`
and `SetPrompt`, then `Notify` or `DirectWrite`; `read_char` is `ReadQueued`,
`ReadWait`, `TimedOut`, the `Wake...` actions, `ShowMessages`, `GotQueued`,
`GotNone` and `ReadTyped`; a key handler is what it does to the channel
(`HandlerEdits`, `HandlerEmulates`, `HandlerSetsPrompt`, `HandlerReads` and `ReadRaw`,
`HandlerReturns`, `HandlerEndsLine`); `finalize_input` is `Finalize`, `FlushWrite`,
`FlushPop`; writes that throw are `ShowMessagesFails`, `WriteFails`, `FlushFails`.
`TakeByte` is a blocking `read()` of the terminal (`terminal.cxx:313`): it waits for a
byte and looks at nothing else.  Once a character or a sequence has begun,
`Terminal::read_char` reads on, and `verbatim_insert` (`replxx_impl.cxx:2065`) and
`bracketed_paste` (line 2401) read from inside a handler; which byte ends a key or a
paste is chosen freely.

Left out: the loops inside the incremental search and the completion that call
`read_char` again from a handler; the end of the terminal input, taken for the end
of a line; a window-change signal whose `write()` meets a full pipe; the first
`read_from_stdin` path, which has no event loop; suspend, a user's callback that does
not return, and a terminal that takes no output.  Whether a refresh comes too soon
after the one before and is skipped is a free choice.

### KillRing

`theRing` holds `size` texts, `indexToSlot` the slot behind each position,
`index` the position meta-Y has reached, `lastAction` what `action()` left of the
last key.  `KillMore`, `KillNew`, `KillOldest` are the branches of `kill()`.  A kill
handler that finds nothing to kill is `KillNothing`: it still leaves
`lastAction = "kill"`.  The code's `index` is `index` minus one.
`RecentKills` keeps the list of texts, newest first, and how far meta-Y went back.

### History

`history` is the object, one record with a field per member.  An iterator is the
position of the entry it points to: erasing moves it along, or makes it `Dangling`.
`End` is `_entries.end()`, and in `locations` the absence of a key.  An entry has
its text and its scratch (`Entry::text()` gives the scratch).  Each method is an
operator from one history to the next (`Erase`, `Add`, `UpdateLast`, `DropLast`,
`Move`, ...), each handler one action that calls what the handler calls in its
order, the trailing resets of `action()` included.  `data` is the line.

`before`, `typed` and `follow` are history variables: the entries when the input
began, the texts stored in place of the last entry, and the text after the accepted
one, whether the history is unique or not.  `EditLine` is any handler that changes
the line: most forget the accepted line (`HISTORY_RECALL_MOST_RECENT`), a verbatim
insert, a modify callback and `set_state()` do not.

Lines are elements of a small set; which of them have a prefix or hold a searched
text is chosen freely, so the searches may find any entry.  Erasing or reading
through a dangling iterator is undefined, and the step that would is not enabled;
the invariants say that no such state is reached.  Left out: a maximum size of 0,
history calls from a handler during an input, an input that ends by the end of the
file, by an exception or by a user's handler without `drop_last`, and Up and Down
inside a line of several lines (`OtherKey`).

`Risks`: editing a recalled line of a unique history (`edit_recalled`), Down after a
line was accepted from an empty history (`down_on_nothing`), and
`set_unique_history(true)` between an accepted line and the next
(`unique_any_time`).

### HistoryFile

`file` is a list of lines, each a timestamp or a text; a text is a sequence of
characters, three of which a file cannot hold as they are (the newline, ETB, which
stands for it, and the carriage return), and one of which stands for a whole
timestamp.  `LinesOf` and `Parsed` are the conversions of `save(ostream)` and
`do_load`.  `entries` is `_entries` per process, `Merge` what `do_load`, `sort`,
`remove_duplicates` and `trim_to_max_size` make of list and file together.

A save is eight steps, because another process may come in between any two of
them: `SaveBegin` (umask, opening or creating the lock file), `Lock`,
`ReadAndMerge`, `OpenFile` (which truncates) or `OpenFails`, `WriteEntry` per
entry, `SaveDone`, and the two halves of `~FileLock`, `Unlock` and `Unlink`.
`path` is the lock file that has the name, `fd` the one that each process has open:
they differ once somebody removed the name.  `HistoryLoad` takes no lock.  `Crash`
may come at any point, loses the process's list and lock, and may leave an entry
written by half.

`SharedHistory` has the file and the lists of the processes, and one step for each
of add, save, load and crash.  The refinement mapping counts a file as written from
the moment it is truncated (`InFile`), and the list of a saving process as what it
was before that and as what the save will leave after it (`Seen`).

Left out: the iterators of the list, but for whether they point into it (`History`
has them), and scratches, which every save and load resets.

### LineEditor

`data` and `pos` are `_data` and `_pos`: `pos` characters are left of the cursor.
`lastYankSize`, `hasNewlines` are the members of these names, `argYank` is
"`_yankPos` is not at the end", that is, the last key was meta-. .  The kill ring is
an instance of `RecentKills`, which `KillRing` is proved to implement.  Of the
history only the entry matters that the line was recalled from (`recalled`); what
the list does is in `History`.

A handler is a whole `action()`: it makes a line and a position, the modify callback
may replace both, a refresh may be skipped and leave `hasNewlines` behind
(`Becomes`, `Drawn`), and the traits reset `lastAction` and the position of meta-.
(`Other`, `Neutral`).  The kill handlers compute a range and share `KillRange`; the
handlers that only move share `MoveCursor`; those that take another line from the
history share `Recall` and `RecallNothing`; the incremental search is what it leaves
behind (`SearchFinds`, `SearchCancelled`, `SearchFails`), Tab is what it puts into
the line (`CompleteLine`).  `set_state()` is called by a user's own handler, which
has no `action()` around it.

Up where the cursor is on a newline at the beginning of the input gives `AssertFails`:
`line_previous` calls `prev_newline_position(-1)` there, which its assertion forbids.
What a build without assertions does, going on to the history, is among the other
actions.

`taken` and `whole` are history variables: the text that the last yank inserted, and
the line as it was before the kills just made.

`Risks`: a search that fails in an edited recalled line (`search_edited`),
`set_state()` of a shorter text without a cursor position (`state_without_cursor`),
and a change between a yank and the meta-Y that takes it back
(`change_after_yank`).  Left out: suspend, a callback that gives a negative
position, the cleaning of the preloaded text, and which line the history gives (any
line of a small set).

### Completion

`line` is the record of what completing reads and writes: `_data`, `_pos`,
`_completions`, `_completionSelection`, `_completionContextLength` and
`_hintSelection`.  Completions and hints are the words that start with the context,
in the order of `Words`.  `options` are `set_complete_on_empty`,
`set_double_tab_completion`, `set_immediate_completion`, `set_ignore_case` and
`set_completion_count_cutoff`.

`do_complete_line` is `Called` (the callback), `Extended` (the longest common prefix,
or the one candidate) and the list; `complete` is `Complete(step)`, which goes
around the completions and the line as it was; `HintMove` is the choice of a hint.
The list is a machine of its own: the second tab (`SecondTab`, `OtherKey`), the
question (`AnswerYes`, `AnswerNo`), rows that are printed one by one (`NextRow`) and
the key at the end of a page (`Pause`, `NextPage`, `OneMore`, `StopList`).  `origin`
(the line when cycling began), `listed` and `onPage` are history variables.

`Risks`: cycling with a selected hint (`selection`) and selections that outlive
what they number (`stale`).

### Screen and Rendering

`Screen` is a terminal with rows that scroll away: a character is put at the cursor,
the one after the last column wraps, the cursor jumps and stays on the screen, the
rest is cleared.

In `Rendering`, `ui` is the record of the members that drawing reads and writes,
with the terminal in it.  `rowOffset` is `_prompt._cursorRowOffset`, the row the
cursor is believed to be in.  `RefreshLine`, `Render`, `HandleHints`, `Draw`,
`MoveCursor`, `Repaint`, `ClearSelf`, `SetText`, `VirtualRender`, `MatchingParen`
are the functions of these names, each from one `ui` to the next.  An action is a
handler with the refresh it asks for and what `get_input_line` does behind it
(`Handled`: refresh when the line was modified, else move the cursor), or something
that `read_char` does while it waits (`TimeOut`, `Resize`, `Message`).  A refresh
may come less than a millisecond after the last one and be skipped: which do is
chosen freely (`rapid`), and `delay` says that `read_char` waits with a time-out.

`above` is a history variable, what must be above the prompt.  The picture that must
be on the screen is defined apart from the code's bookkeeping: `PictureRows` cuts
the lines of prompt and text into pieces of the terminal's width.

The characters there are (`Glyphs`), the widths, the prompts, what is typed, recalled
and printed and the hinter are constants.  `MaxLen` bounds the line where a character
is typed; an action whose picture does not fit on the screen is left out (`Admitted`).

`Risks`: two newlines behind a full row (`newlines`), a handler that sets a prompt
with another number of lines (`prompt`), writing, moving or repainting over a skipped refresh
(`rapid`), `_oldPos` behind a character typed at the end (`cursor`), and hints with
a delay, or a selected hint, across a skipped refresh or a repaint (`hints`).

### Unicode and TerminalInput

`Unicode` has `copyString8to32` and `copyString32to8` with what ConvertUTF calls
illegal.  In `TerminalInput` a user types *units* (a key, a character, a paste, an
unknown sequence, a broken byte), `input` has their bytes, and the terminal may hang
up at any byte (`HangUp`).  `utf8` is the static buffer of
`read_unicode_character` (`Reader`).  `prefix` is the dispatch table in use, as the
characters that led to it; the tables of `escape.cxx` are the set `Sequences` of
what they accept, and `mods` is the global `thisKeyMetaCtrl`.  `mode` says who
reads: the main loop, `bracketed_paste` or `verbatim_insert`, whose `read_verbatim`
stops wherever it finds no byte (`VerbatimEmpty`).  `typed`, `dueKeys`, `dueText`
and `foreign` record what should come out; `keys` and `text` are what does.  A
character that is typed is one of Unicode with its bytes, or a byte that no
character begins with (`Characters`).

## Runs

| run | question | bounds |
|---|---|---|
| `event_loop_safety` | is every wake-up, message, key and prompt accounted for? | 2 threads, one call of each kind per caller, 1 typed byte at a time, 2 failing writes, pipe of 2 bytes; any number of inputs |
| `event_loop_live` | is a prompt applied and a message shown though nobody types, unless a key, a verbatim insert or a paste was begun and is never ended? | 2 threads, one `print` and one `set_prompt` each, one resize, a hint delay, handlers that set the prompt; fairness |
| `event_loop_stale_key` | the same with one emulated key | finding |
| `kill_ring` | does the ring implement the list of recent kills? | 3 slots, 2 characters, texts of up to 2 |
| `history` | do iterators, locations and entries survive every order of calls? | 3 lines and the empty one, sizes 1 to 3; while duplicates are allowed 1 line and the empty one, sizes 1 and 2; any number of inputs |
| `history_file` | is a save one step to everybody else, and does it give back what it took? | 2 processes, one of them unique, lists of 2, 2 adds, 2 saves, 1 crash or unwritable file, any number of loads |
| `line_editor_kills` | does the cursor stay in the line, ctrl-Y undo a series of kills, meta-Y find what was yanked, and Up, Down, Home, End follow the screen, but for Up and Home on a newline at the beginning? | lines of up to 4 characters, one of them the newline, 2 kills of up to 2 characters |
| `line_editor_lines` | with lines from the history: does a yank take back only a yank? | lines of up to 3 characters, 1 kill, 2 entries in the history |
| `completion` | does cycling change the word alone, and is each completion listed once? | 5 words, lines of up to 5 characters, lists of 1 and 2 columns on screens of 2 and 3 rows, three sets of options |
| `rendering` | is what should be on the screen there, and what is above untouched? | screen of 5 rows and 4 or 5 columns, 2 prompts, lines of up to 5 characters, any 3 events in a row |
| `terminal_input` | is every character, key and pasted text decoded as it was sent? | any 3 of 19 units, cut anywhere by the end of the terminal |
| `terminal_input_line_feed` | the same for a pasted line feed | finding |

Why the bounds are enough.  *Event loop*: a second thread is needed for calls that
come in between one call and its byte, a pipe of two bytes fills up with two
callers, a second failure is needed for the catch block's own `finalize_input`, and
the counters bound calls, not inputs: the reader starts as many inputs as it likes,
so a call may fall anywhere into one or between two.  The live run has a pipe of 5
bytes, one for each call and signal, so that it does not say anything about a full
one: with two bytes `PrintedGetsShown` fails, because a caller blocked in `write()`
keeps the mutex that the reader waits for before it reads the pipe again (the hazard at
`replxx_impl.cxx:715`, which no property covers).  *Kill ring*: three slots
wrap and recycle after the fourth kill, and joined kills reach length 2.
*History*: a size of 3 plus the line is a list of 4, which tells the first, the
last, their neighbours and an entry between them apart; one text more than the list
holds makes both duplicates and evictions happen.  Duplicates need two lines and two
places only, and `set_unique_history` leads from one regime to the other.
*History file*: two saves, a load and a crash reach every pair of steps; texts with
each special character, a list as long as the file and an entry that both have make
merging drop, sort and trim.  A third save would reach the defect under Findings.
*Line editor*: four characters make up to five rows, rows of every length up to
three below a prompt of one column, and every place of the cursor in them; two
kills of different length are what meta-Y needs, and two characters what a kill
needs to join to another.  Subwords have no breaks but the ends of the line, so
that the handlers for words and subwords differ.  *Completion*: five words give
lists of one, two and more candidates, a common prefix longer than the context and
words that differ in case; the five words make a grid with a short last
column, and lists of three and five rows do not fit on the screens.  *Rendering*: a line of five characters
is two or three rows on both widths, full rows occur with the cursor on either side
of their end, a line below a prompt of two lines and two rows of hints fill the
screen of five, and scrolling begins with the next event; three events are a skipped refresh, what comes over it
and what is drawn next.  *Terminal input*: what decoders keep from one call is
cleared or used in the next, so three units are one that leaves something, one that
meets it and one behind it; the units cover one, two, three and four bytes, each
depth of the tables and each modifier.

Deadlock checking is off where nothing may be left to do: for the event loop, where
the reader waits for a user who may never type, for the terminal input, which ends,
and for rendering, where the events are counted.  Everywhere else it is on.

*Fairness.*  `LiveSpec` says that the reader goes on inside `read_char` and
`finalize_input` where it can, that a handler returns, and that a thread that owes a
byte or a write goes on.  Each is one thread running its own code; no fair mutex is
assumed, because every thread makes finitely many calls.  Nobody has to type, to call
or to resize.  In `block`, `partial` and `raw` the reader can go on only when a byte
was typed, so fairness does not take it out of there.  The return of a handler is
strongly fair, because a handler may go in and out of `raw` as often as the user types,
and comes to its end all the same.  A reader that is in the middle of a key, a verbatim
insert or a paste when the user stops typing does not look at the pipe
(`terminal.cxx:313`, `replxx_impl.cxx:2065`); both properties except it by name
(`StuckInKey`), and a lone Escape is enough to be there.  The read in `block` is not
excepted: the reader comes there without a byte only by the stale byte of an emulated
key, which is the first finding.

## Findings

* *A prompt is not applied until the user types* (`event_loop_stale_key`).  A key
  taken from the queue before the wait leaves its byte in the pipe; a later wait
  takes the byte for a key, finds the queue empty and blocks in the read of the
  terminal, where the pipe is not looked at.
* *A pasted line feed empties the line* (`terminal_input_line_feed`).
  `bracketed_paste` knows the key codes of Enter and Tab but not of ctrl-J, which is
  what the reader makes of a line feed.  The key code stays in the line, is not a
  code point, and the conversion of the whole line gives nothing.

Found on the way, without a run of its own.  Those with a value for a constant can be
seen by giving it to the run's configuration:

* *History*, `Risks = {"edit_recalled"}`: `LocationsExact` fails in eight states, a
  unique history holds a text twice.  `erase()` and `add()` look at the scratch of an
  entry where its text is meant.  `Risks = {"down_on_nothing"}`:
  `IteratorsAreEntries` fails in five.  Every accepted line arms the special
  meaning of Down, also one accepted from an empty history, and Down then reads past
  the end.
* In a history that is not unique, Down after an accepted entry recalls that entry once
  more, because it stays where it was and `_current` is on it; `history.hxx:67-74` says
  that Down "shall jump to the line one after previously accepted from history", which
  is so where `add()` takes the accepted entry out, in a unique history or because it is
  the oldest of too many.  `DownFollowsAccepted` says what happens in each case.
* After an input the list keeps one entry more than the maximum, because `add()`
  makes room before it appends (`SizeBounded` allows for it).
* *History file*, `MaxSaves = 3`, `MaxFaults = 0`: `SharedSpec` fails in 18 states.
  `~FileLock` unlocks and then removes the name: one process may wait for the lock of
  the file whose name goes, the next creates another and locks that, and both save
  at once.  A save that cannot open the file leaves its program the merged list and a
  changed umask (`SaveRestores` is about saves that succeed), nobody looks at what
  `lockf` returns, and a history that is not unique is doubled by each
  synchronization.
* *Line editor*, `Risks = {"search_edited"}` and `{"state_without_cursor"}`:
  `PosInLine` fails.  A search that finds nothing in a recalled line that was edited
  brings back the entry as it was recalled and the cursor as it was in the edited
  line; the next key inserts or erases beyond the end.  With `{"change_after_yank"}`
  meta-Y takes back text that was never yanked (`YankedIsThere`).
* A kill handler with nothing to kill makes the next kill join an older text, and a
  kill that joins leaves `index` where meta-Y put it, so that ctrl-Y may give another
  text than the one just killed (`whole` begins with a kill that found something).
* Up at position 0 of an input that begins with a newline calls
  `prev_newline_position( -1 )` (`replxx_impl.cxx:1886`), against its own assertion that
  `pos_ >= 0` (line 1844): a build with assertions ends there, one without gets -1 and
  recalls from the history, as it should.  Home there moves the cursor behind the
  newline.  `RowKeys` leaves that position out for both keys.
* *Completion*, `Risks = {"selection"}`: `CyclingExact` fails in three states, because
  `do_complete_line` takes the chosen hint and `complete` begins at the first
  completion as if that were in the line.  `{"stale"}`: a hint selection that was
  counted on where no hints are shown, or a text put in by a handler, leaves a
  selection that numbers nothing.  With `set_ignore_case` the case of the context is
  looked up in the last characters of the line, also when the cursor is elsewhere.
  A key pressed after the first tab is queued behind keys emulated meanwhile.
* *Rendering*, `Risks = {"hints"}`: `HintsShown` fails, the time-out that makes up for a
  skipped refresh uses up the delay of the hints.  `{"rapid"}`, `{"cursor"}`,
  `{"prompt"}`: `ScreenShowsLine` fails until the next complete refresh, with
  `{"prompt"}` also rows above the prompt are drawn over.  One case of `{"rapid"}` takes
  seven keys, more than the run has: two characters are erased within a millisecond of
  the last drawing, then two are typed at the end of the line, later than that but
  before `read_char` has timed out (a modify callback of a millisecond is enough).
  `insert_character` writes them where the cursor is, behind the erased ones; at the
  edge of the screen the terminal wraps, and the next refresh draws the line one row
  below its prompt.  `{"newlines"}`, with a preload of a full row and two newlines:
  `virtual_render` counts a row less than the terminal shows.
* *Rendering*, with constants other than the run's.  With prompts whose last lines
  differ in length, on a screen that the prompt and the line just fill, another thread's
  prompt breaks `ScreenShowsLine`, and the next message `OutputKept`: `repaint` goes
  down as many rows as the line had below the old prompt, which may be one more than it
  has below the new one, and the first row of the prompt scrolls away (the run's prompts
  end alike).  A hint behind a newline that just fills its row leaves the cursor a row
  too high: `refresh_line` writes the newline for a full row only when the line does not
  end with one.  A hinter that has hints for an empty line has them shown only after the
  first key: `get_input_line` draws at the start only a line that is not empty.
* The loops of the incremental search, of the question before the list of completions
  and of its pages never end at the end of the terminal input.  `read_verbatim` sets
  `O_NONBLOCK` on a standard input that others may share.

## Proofs

For every value of the constants under the modules' assumptions.  Where a theorem has
`ASSUME Plain` it is about the uses that the passing runs explore, those in which no
defect listed under Findings can occur; `Plain` says which elements of `Risks` are
assumed away.

* `EventLoopProofs`.  The inductive invariant `IInv` has seven parts.  `TypeOK`.
  `ControlInv`: the reader flushes only a queue that is not empty, `_currentThread`
  is set exactly while an input is in progress, nothing is left behind.
  `MessageWakesReader` and `KeyWakesReader`: the wake-ups, which need `ControlInv`,
  because a call that finds no input in progress writes no byte and must then not be
  able to leave a message.  `RefreshInv`: a skipped key refresh is remembered in
  `_refreshSkipped` or scheduled; `SkippedRefreshIsScheduled` alone is not inductive,
  for outside the wait nothing else ties the stale screen to a time-out.
  `KeysExact`: the queue holds, in order, the keys of each caller that no handler has
  had.  `OutputInv`: the same for messages, over screen and queue together; it is
  inductive only with the facts that no number is ahead of its thread's calls, that a
  thread about to write for itself has nothing in the queue (`WritersWaitForNobody`),
  and that an exception leaves the input announced, so that nobody writes past the
  queue the catch block has yet to flush (`EscapeAnnounced`).  From `IInv`: `Typing`,
  `NoLostWakeUp` (of messages and prompts while the reader is in its loop; a key queued
  before the input, or by the reader, has no byte and needs none), `NoLostKeyWakeUp`,
  `NoMessageLost`, `NoKeyLost`,
  `InputLeavesNothing`, `RefreshScheduled`.  `LatestPromptWins` assumes that key
  handlers set no prompt: one that does is overridden by an older update of another
  thread that is still pending (`replxx_impl.cxx:729`).
* `KillRingProofs`.  `Inv` is `TypeOK` and `SlotsDistinct`: without the latter a
  recycled slot could show up at two positions.  From it `Typing`, `RingSound`, and
  `Refinement`: each branch of `kill()` is a kill of the abstract list.
* `HistoryProofs`, with `Plain`.  First what `erase()` does to positions
  (`KeepAllBut`): every iterator moves along, or dangles if it was there.  The
  invariant of the object is `Tidy`: iterators at entries, at the end or dangling
  (`Sound`); in a unique history scratches are texts (`Fresh`) and locations lead to
  exactly the entries (`Known`), because `erase()` looks for the location by the
  scratch; and what a recalled line leaves for the next input does not dangle
  (`Firm`).  One lemma per method says that it keeps `Tidy` (adding, updating and
  dropping the last entry, trimming, removing duplicates, sorting in a load).
  `IInv` adds where each phase of an input has its iterators.  From it `Typing`,
  `NothingDangles`, `LocationsStayExact`, `SizeStaysBounded`, `YankingSkipsTheLine`.
  `InputTakesNothingElse` needs `KInv`: during an input the entries below the line
  are `Left` of those before it, namely those of some set of positions, in their
  order (`Rank`), the others being duplicates or the oldest.  `DownGoesOn` needs
  `FInv`: what the object `Remembers` from the acceptance of a recalled line to the
  next input, through the erasure of the entry that Down has to go on from, or, with
  duplicates, that `_previous` is on the accepted entry (`Repeats`) or on the first one
  after that was trimmed.
* `HistoryFileProofs`.  What is written and read back is the
  longer part.  `NotBlank`, `Storable`, `Parsed` and `Distinct` pick elements of a
  list by their positions; the k-th picked is the one of rank k (`PickedIs`), and two
  selections whose positions correspond in order agree as far as the correspondence
  goes (`PickedFollow`).  In the lines of a list a text follows its own timestamp, so
  that what is found there is the entry, its newlines hidden and brought back
  (`FoundInLines`, `HiddenIsGiven`).  Hence `BeginningRead`: the first lines, also an
  odd number of them, give the oldest of the entries.  `Typing` needs `Bounded`: the
  list that a save keeps aside may become the list again.  `SavesRestore` follows from
  `Restored`, which says where in a save umask, iterators and list are put back.
  `Refinement` assumes `Orderly`: no lock file is created while another is in use.  It
  needs `Locking` (all saves then use one file, and only the holder of its lock is
  past it) and `Writing` (who has merged has merged what is in the file still; who
  writes has made the file the first lines of its list).  `Locking` is where `Orderly`
  is used, and it must be: without it the refinement fails, see Findings.  The run
  makes two saves, explores every order of their steps without the assumption and finds
  no failure; it takes a third save.
* `LineEditorProofs`.  `IInv` is `TypeOK` and `PosInLine`, inductive as they stand
  once the two risks that break the second are assumed away (`Plain`).  The proof
  follows the handlers: what each helper returns is a position of the line
  (`WordRange`, `HomeRange`, `UpRange`, `DownRange`), inserting and erasing change
  the length by what they should, and `Other`, `Neutral` and `TakeBack` then keep the
  invariant for whatever line and position a handler makes.  From it `CursorInLine`
  and `Typing`.  `KillsAreGivenBack` needs `WholeIs`: the kills in a row are all at the
  front of the ring, where inserting at the cursor undoes them, and a kill on either
  side of the cursor keeps that.  `YankedStays` and `NothingElseGoes` follow the size
  of the last yank through the handlers that leave it; they assume `Undisturbed`,
  that no handler of the user's changes the line between a yank and its meta-Y.
  `RowKeys` (which leaves out Up and Home on a newline at the beginning of the input)
  holds in every state with the cursor in the line, so
  `RowKeysExact` needs only that part of `IInv` above; the work is in the operators.
  A row is known by the newlines above it, counted; `RowIs` makes it the interval from
  `RowStart` to `RowEnd`, which are what `prev_newline_position` and
  `next_newline_position` find (`SearchesFind`), with the cursor on a newline or not.
  Then the arithmetic of `move_one_line_up` and `move_one_line_down` with its shift for
  the prompt is the position nearest to the column (`NearestInRow`, `UpIs`, `DownIs`),
  for any indentation.
* `TerminalInputProofs`, with `Unicode`.  First the conversion: `Shape` says what a legal
  sequence looks like (`LegalIs`), what is encoded is legal and gives the character back
  (`EncodedIsDecoded`), and the beginning of one, or a byte that none begins with, gives
  nothing (`NotConverted`).  `CharactersExact` compares what was read with what was typed
  and does not say what the reader has in its hands, so it is not inductive.  `ReaderInv`
  adds three things: the bytes under way are those of the typed characters, from the
  place the reader has come to (`Sound`, `Arriving`); the bytes kept are the beginning of
  the character that is being read, or begin with a broken byte (`KeptInv`); and a
  character that is sure to be read never meets broken bytes (`SureInv`).  `ReaderOutcome`
  is the core: each byte completes its character, is kept as more of it, or belongs to a
  character that is lost and was not sure to be read.  For typing, `Leads` says of table
  and modifiers what makes each modifier be added once: a modifier other than Meta is
  set only behind a semicolon, and a table has one (`TablesAreNear`, from
  `TablesAreGood`: in every sequence of `escape.cxx` the semicolon stands before the
  modifier and the final character).
* `CompletionProofs`, with `Plain`.  While completions are gone through, the line is
  `Cycled`: the one their search left (`origin`) with the rest of the selected
  completion put in at its cursor.  `CyclingExact` compares the word only, so it does
  not say what the next step takes out; `Cycled` does, with `Anchored` (each
  completion goes on from the context), and putting in and taking out are each
  other's inverse (`Spliced`).  While the list is shown, `Listing` says that what is
  printed are the numbers of the first rows of the grid (`Shown`) and how far the
  pause is.  That rows and columns have a place for each completion, and one only, is
  arithmetic with `\div` and `%` (`RowsAreEnough`, `PlaceIs`, `PlacesAreApart`).  From
  these `Typing`, `OnlyTheWordChanges`, `EachIsListedOnce`.

* `RenderingProofs`.  `RowInv`, for typing, is `TypeOK` with the types of all members
  (`IsUi`) and `_cursorRowOffset` not above the prompt's last row and on the screen.
  Between two steps of a handler only `RowKnown` holds: the row is on the screen, or it
  is that of some position of the line; the line fits (`Admitted`), and no position is
  below its end because text only makes `virtual_render` go down (`RenderGrows`), so it
  is on the screen when the handler returns (`RowFits`).  One lemma says what each
  drawing makes of `ui` (`RenderShowsLine`, `HintsKeepLine`, `DrawKeepsLine`,
  `RefreshIs`, `MoveCursorIs`, `RepaintIs`), one per action that it keeps `RowInv`.
  `Typing` assumes away the risk `prompt`, which breaks it in the code.  `HintInv` says
  that a skipped refresh is awaited, and that the hints that are `Wanted` are displayed
  where neither it nor a delay is; a step that skips, moves the cursor or repaints
  without hints keeps it only because it is awaited, or because what it left was
  `Fine` before.  `HintsAreShown` assumes that none of the risks happens and that an
  empty line has no hints, see Findings.

*Induction.*  The library's induction theorems take an operator as a parameter and
cannot be used here, but well-foundedness of the natural numbers can be had as a
fact about sets: `LeastNatural`, and from it `Successors` (a set with 0 and the
successor of each of its elements has all natural numbers).  Ranks, greatest elements
and the recursive functions of `Completion` are reasoned about that way.

Only model-checked: the liveness properties (fairness and `ENABLED` are out of the
prover's reach); `KeysExact` and `TextRoundTrips`, which compare with the keys and texts
that the constant `Units` gives for its characters, by hand for each; `ScreenShowsLine`
and `OutputKept`, see the plan.

## Not modelled

* The wrappers of `replxx.cxx` and the headers forward; the Windows console and its
  emulation of escape sequences are code of another platform.
* Raw mode, `IOModeGuard` and suspend: they call the operating system and restore
  one saved mode.
* The incremental search's own text, prompt and reading of keys, with the rendering
  of its prompt and of a wrapped line that is left.
* On the screen: wide, combining and control characters and the table of their
  widths, colours other than those of hints and parentheses, a prompt line as wide
  as the screen, a line taller than the screen, a screen of one row, a terminal that
  wraps rows anew when it is resized, and what terminals do differently when the
  rest of the screen is cleared from behind the last column.
* Locales of 8 bits and the string classes.
* A maximum history size of 0, for which `History` reads entries that are not there,
  and `set_preload_buffer`'s cleaning of the text.
* A disk that fills up while the history is written, and `lockf` interrupted by a
  signal.

## Plan

1. *done*: every module above; the theorems above.
2. `ScreenShowsLine` and `OutputKept` as theorems.  They would need that `virtual_render`
   and the terminal put every text in the same places, and that this is the picture
   cut into rows: two inductions over texts.  The first is false for texts listed under
   Findings, and `OutputKept` needs the second as well, because what a line leaves above
   the next prompt is that picture.  Neither holds for all values of the constants:
   prompts have to end alike and to be narrower than the screen in every line, messages
   to fit in a row, and hints to be texts of one line that do not end a row exactly
   behind a newline.  Where nothing of that happens they are as the run shows them.
