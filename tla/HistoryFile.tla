---------------------------- MODULE HistoryFile ----------------------------
(***************************************************************************)
(* History::save(), load() and FileLock: processes that keep their history *)
(* in one file.  A save locks the lock file, merges its list with the file, *)
(* writes the file anew, unlocks and removes the lock file; a process may   *)
(* crash between any two of these steps and start again with an empty list. *)
(*                                                                         *)
(* A text is a sequence of characters, among them the newline, the carriage *)
(* return and ETB; Stamp stands for a whole timestamp line.  The file is a  *)
(* sequence of lines: timestamps and texts.  Scratches are left out, every  *)
(* save and load resets them.  Of the lists' iterators only whether they    *)
(* point into the list is modelled, of the umask whether it is the          *)
(* process's own.                                                          *)
(***************************************************************************)
EXTENDS Integers, SequencesExt

CONSTANTS
  Procs,       \* the processes
  UniqueProcs, \* those whose history is unique
  Characters,  \* of texts
  Newline, ETB, CR, Stamp, \* the special ones
  Texts,       \* what is added to histories
  Files,       \* what the file may hold at first: sequences of texts
  MaxSize,     \* the maximum size of the histories
  MaxTime,     \* bound: of the timestamps
  MaxAdds,     \* bound: of calls of add() in all
  MaxSaves,    \* bound: of calls of save() in all
  MaxFaults    \* bound: of crashes, and of files that cannot be written, in all

ASSUME HistoryFileAssumption ==
  /\ UniqueProcs \subseteq Procs
  /\ {Newline, ETB, CR, Stamp} \subseteq Characters
  /\ Newline # ETB /\ CR \notin {Newline, ETB} /\ Stamp \notin {Newline, ETB, CR}
  /\ Texts \subseteq Seq(Characters)
  /\ Files \subseteq Seq(Seq(Characters))
  /\ {MaxSize, MaxTime, MaxAdds, MaxSaves, MaxFaults} \subseteq Nat

VARIABLES
  file,     \* its lines
  path,     \* the lock file that has the name, or NoFile
  inodes,   \* lock files that were created
  clock,    \* the time, as long as timestamps differ
  entries,  \* for each process, History::_entries
  original, \* the list when its last save() began, which save() keeps aside
  sync,     \* whether that save() is a history_sync()
  pc,       \* where in save() it is
  fd,       \* the lock file it has open, or NoFile
  holders,  \* the processes that hold the lock of their lock file
  wrote,    \* entries written so far
  umask,    \* for each process, whether it is its own or save()'s
  oldUmask, \* what save() found
  result,   \* what save() will return
  iters,    \* whether _current and _previous point into the list
  adds, saves, faults \* counters for the bounds

vars == <<file, path, inodes, clock, entries, original, sync, pc, fd, holders,
          wrote, umask, oldUmask, result, iters, adds, saves, faults>>

status == <<umask, oldUmask, result, iters>>

NoFile == 0
Times == 0..MaxTime

-----------------------------------------------------------------------------
(* The file: conversion of entries to lines and back.                       *)

\* The elements of s at the positions in S, in their order.
Picked(s, S) ==
  LET rank(i) == Cardinality({j \in S : j <= i})
  IN [k \in 1..Cardinality(S) |-> s[CHOOSE i \in S : rank(i) = k]]

StampLine(time) == [time |-> time, text |-> <<Stamp>>]
TextLine(text) == [time |-> 0, text |-> text]
Entry(time, text) == [when |-> time, text |-> text]

\* std::replace
Replaced(text, from, to) ==
  [i \in DOMAIN text |-> IF text[i] = from THEN to ELSE text[i]]

\* save(ostream): entries without text are not written, newlines are hidden.
NotBlank(list) == Picked(list, {i \in DOMAIN list : list[i].text # <<>>})
LinesOf(list) ==
  LET some == NotBlank(list)
  IN [i \in 1..(2 * Len(some)) |->
        IF i % 2 = 1 THEN StampLine(some[(i + 1) \div 2].when)
                     ELSE TextLine(Replaced(some[i \div 2].text, Newline, ETB))]

\* A line up to its first carriage return.
UpToCR(text) ==
  LET ends == {i \in DOMAIN text : text[i] = CR}
  IN IF ends = {} THEN text ELSE SubSeq(text, 1, Min(ends) - 1)

IsText(entry) == entry.text \notin {<<>>, <<Stamp>>}

\* do_load: the time of a text is that of the last timestamp above it, also of one
\* that was meant to be a text.
Parsed(lines) ==
  LET stamps(i) == {j \in 1..(i - 1) : UpToCR(lines[j].text) = <<Stamp>>}
      when(i) == IF stamps(i) = {} THEN 0 ELSE lines[Max(stamps(i))].time
      found == [i \in DOMAIN lines |->
                  Entry(when(i), Replaced(UpToCR(lines[i].text), ETB, Newline))]
  IN Picked(found, {i \in DOMAIN lines : IsText(found[i])})

\* The entries of a list that a file can hold, as it gives them back.
Storable(list) ==
  LET given == [i \in DOMAIN list |->
                  Entry(list[i].when, UpToCR(Replaced(list[i].text, ETB, Newline)))]
  IN Picked(given, {i \in DOMAIN list : IsText(given[i])})

-----------------------------------------------------------------------------
(* The list.                                                                *)

\* sort: stable, by time.
Sorted(list) ==
  LET rank(i) == Cardinality({j \in DOMAIN list :
                   list[j].when < list[i].when \/ (list[j].when = list[i].when /\ j <= i)})
  IN [k \in DOMAIN list |-> list[CHOOSE i \in DOMAIN list : rank(i) = k]]

\* remove_duplicates: of the entries with one text the last stays.
Distinct(list) ==
  Picked(list, {i \in DOMAIN list :
                  \A j \in DOMAIN list : j > i => list[j].text # list[i].text})

\* trim_to_max_size: the newest ones stay.
Trimmed(list) ==
  IF Len(list) > MaxSize THEN SubSeq(list, Len(list) - MaxSize + 1, Len(list))
                         ELSE list

\* Wrong: the list gets as long as both.
MergeUntrimmed(p, list, read) ==
  LET sorted == Sorted(list \o read)
  IN IF p \in UniqueProcs THEN Distinct(sorted) ELSE sorted

\* do_load behind the list, sort, remove_duplicates, trim_to_max_size.
Merge(p, list, read) ==
  LET sorted == Sorted(list \o read)
  IN Trimmed(IF p \in UniqueProcs THEN Distinct(sorted) ELSE sorted)

-----------------------------------------------------------------------------
Init ==
  /\ \E texts \in Files : file = [i \in DOMAIN texts |-> TextLine(texts[i])]
  /\ path = NoFile /\ inodes = 0 /\ clock = 0
  /\ entries = [p \in Procs |-> <<>>] /\ original = [p \in Procs |-> <<>>]
  /\ sync = [p \in Procs |-> FALSE] /\ pc = [p \in Procs |-> "idle"]
  /\ fd = [p \in Procs |-> NoFile] /\ holders = {}
  /\ wrote = [p \in Procs |-> 0]
  /\ umask = [p \in Procs |-> "own"] /\ oldUmask = [p \in Procs |-> "own"]
  /\ result = [p \in Procs |-> FALSE] /\ iters = [p \in Procs |-> "valid"]
  /\ adds = 0 /\ saves = 0 /\ faults = 0

At(p, from, to) == pc[p] = from /\ pc' = [pc EXCEPT ![p] = to]

\* add: a text that is the newest entry already gets the time of now.
HistoryAdd(p, text) ==
  /\ pc[p] = "idle" /\ adds < MaxAdds /\ adds' = adds + 1
  /\ clock' \in {clock, clock + 1} \cap Times
  /\ LET list == entries[p]
         older == IF list # <<>> /\ Last(list).text = text THEN Front(list)
                  ELSE Trimmed(IF p \in UniqueProcs
                                THEN Picked(list, {i \in DOMAIN list : list[i].text # text})
                                ELSE list)
     IN entries' = [entries EXCEPT ![p] = Append(older, Entry(clock', text))]
  /\ UNCHANGED <<file, path, inodes, original, sync, pc, fd, holders, wrote, status,
                 saves, faults>>

\* load: no lock is taken.
HistoryLoad(p) ==
  /\ pc[p] = "idle"
  /\ entries' = [entries EXCEPT ![p] = Merge(p, <<>>, Parsed(file))]
  /\ iters' = [iters EXCEPT ![p] = "valid"]
  /\ UNCHANGED <<file, path, inodes, clock, original, sync, pc, fd, holders, wrote,
                 umask, oldUmask, result, adds, saves, faults>>

\* save: the umask is changed and the lock file opened, created if need be.
SaveBegin(p, toSync) ==
  /\ At(p, "idle", "lock") /\ saves < MaxSaves /\ saves' = saves + 1
  /\ sync' = [sync EXCEPT ![p] = toSync]
  /\ original' = [original EXCEPT ![p] = entries[p]]
  /\ oldUmask' = [oldUmask EXCEPT ![p] = umask[p]]
  /\ umask' = [umask EXCEPT ![p] = "private"]
  /\ inodes' = IF path = NoFile THEN inodes + 1 ELSE inodes
  /\ path' = IF path = NoFile THEN inodes' ELSE path
  /\ fd' = [fd EXCEPT ![p] = path']
  /\ UNCHANGED <<file, clock, entries, holders, wrote, result, iters, adds,
                 faults>>

\* Wrong: lockf is asked not to wait, and nobody looks at what it says.
LockAtOnce(p) ==
  /\ At(p, "lock", "read")
  /\ holders' = holders \cup {p}
  /\ UNCHANGED <<file, path, inodes, clock, entries, original, sync, fd, wrote,
                 status, adds, saves, faults>>

\* lockf waits for the holder of the same file.
Lock(p) ==
  /\ At(p, "lock", "read")
  /\ \A q \in holders : fd[q] # fd[p]
  /\ holders' = holders \cup {p}
  /\ UNCHANGED <<file, path, inodes, clock, entries, original, sync, fd, wrote,
                 status, adds, saves, faults>>

\* The list, or a copy of it, takes up the file.
ReadAndMerge(p) ==
  /\ At(p, "read", "open")
  /\ entries' = [entries EXCEPT ![p] = Merge(p, @, Parsed(file))]
  /\ iters' = [iters EXCEPT ![p] = "dangling"]
  /\ UNCHANGED <<file, path, inodes, clock, original, sync, fd, holders, wrote,
                 umask, oldUmask, result, adds, saves, faults>>

\* The constructor of ofstream truncates the file.
OpenFile(p) ==
  /\ At(p, "open", "write")
  /\ file' = <<>>
  /\ umask' = [umask EXCEPT ![p] = oldUmask[p]]
  /\ UNCHANGED <<path, inodes, clock, entries, original, sync, fd, holders, wrote,
                 oldUmask, result, iters, adds, saves, faults>>

\* The early return: neither umask nor list nor iterators are looked after.
OpenFails(p) ==
  /\ At(p, "open", "unlock") /\ faults < MaxFaults /\ faults' = faults + 1
  /\ UNCHANGED <<file, path, inodes, clock, entries, original, sync, fd, holders,
                 wrote, status, adds, saves>>

\* An entry is two lines and is flushed.  A writer goes on where it was in the
\* file, whatever others made of it.
WriteEntry(p) ==
  /\ pc[p] = "write" /\ wrote[p] < Len(NotBlank(entries[p]))
  /\ wrote' = [wrote EXCEPT ![p] = @ + 1]
  /\ LET mine == SubSeq(LinesOf(entries[p]), 1, 2 * wrote'[p])
     IN file' = mine \o SubSeq(file, Len(mine) + 1, Len(file))
  /\ UNCHANGED <<path, inodes, clock, entries, original, sync, pc, fd, holders,
                 status, adds, saves, faults>>

\* Wrong: the merged list is kept in any case.
LeftMerged(p) == entries[p]

\* The list that save() leaves: the merged one only for a history_sync().
Left(p) == IF sync[p] THEN entries[p] ELSE original[p]

SaveDone(p) ==
  /\ At(p, "write", "unlock") /\ wrote[p] = Len(NotBlank(entries[p]))
  /\ entries' = [entries EXCEPT ![p] = Left(p)]
  /\ result' = [result EXCEPT ![p] = TRUE]
  /\ iters' = [iters EXCEPT ![p] = "valid"]
  /\ UNCHANGED <<file, path, inodes, clock, original, sync, fd, holders, wrote,
                 umask, oldUmask, adds, saves, faults>>

\* ~FileLock, first half
Unlock(p) ==
  /\ At(p, "unlock", "unlink")
  /\ holders' = holders \ {p}
  /\ UNCHANGED <<file, path, inodes, clock, entries, original, sync, fd, wrote,
                 status, adds, saves, faults>>

\* Nothing is left of the call.
Closed(p) ==
  /\ fd' = [fd EXCEPT ![p] = NoFile]
  /\ original' = [original EXCEPT ![p] = <<>>]
  /\ sync' = [sync EXCEPT ![p] = FALSE] /\ wrote' = [wrote EXCEPT ![p] = 0]
  /\ oldUmask' = [oldUmask EXCEPT ![p] = "own"]
  /\ result' = [result EXCEPT ![p] = FALSE]

\* Its second half removes whatever has the name of the lock file now.
Unlink(p) ==
  /\ At(p, "unlink", "idle")
  /\ path' = NoFile
  /\ Closed(p)
  /\ UNCHANGED <<file, inodes, clock, entries, holders, umask, iters, adds, saves,
                 faults>>

\* The system closes the files of a process that dies.  An entry that was being
\* written may be there by half.
Crash(p) ==
  /\ faults < MaxFaults /\ faults' = faults + 1
  /\ pc' = [pc EXCEPT ![p] = "idle"]
  /\ holders' = holders \ {p}
  /\ Closed(p)
  /\ entries' = [entries EXCEPT ![p] = <<>>]
  /\ umask' = [umask EXCEPT ![p] = "own"] /\ iters' = [iters EXCEPT ![p] = "valid"]
  /\ \/ UNCHANGED file
     \/ /\ pc[p] = "write" /\ wrote[p] < Len(NotBlank(entries[p]))
        /\ file' = Append(file, LinesOf(entries[p])[2 * wrote[p] + 1])
  /\ UNCHANGED <<path, inodes, clock, adds, saves>>

Saving(p) ==
  \/ Lock(p) \/ ReadAndMerge(p) \/ OpenFile(p) \/ OpenFails(p) \/ WriteEntry(p)
  \/ SaveDone(p) \/ Unlock(p) \/ Unlink(p)

Next ==
  \E p \in Procs :
    \/ (\E text \in Texts : HistoryAdd(p, text)) \/ HistoryLoad(p)
    \/ (\E toSync \in BOOLEAN : SaveBegin(p, toSync))
    \/ Saving(p) \/ Crash(p)

Spec == Init /\ [][Next]_vars

-----------------------------------------------------------------------------
Lists == Seq([when : Times, text : Seq(Characters)])

TypeOK ==
  /\ file \in Seq([time : Times, text : Seq(Characters)])
  /\ inodes \in 0..MaxSaves /\ path \in 0..inodes /\ clock \in Times
  /\ entries \in [Procs -> Lists] /\ original \in [Procs -> Lists]
  /\ \A p \in Procs : Len(entries[p]) <= MaxSize + 1
  /\ pc \in [Procs -> {"idle", "lock", "read", "open", "write", "unlock", "unlink"}]
  /\ sync \in [Procs -> BOOLEAN] /\ result \in [Procs -> BOOLEAN]
  /\ fd \in [Procs -> 0..inodes] /\ holders \subseteq Procs
  /\ wrote \in [Procs -> 0..MaxSize]
  /\ {umask, oldUmask} \subseteq [Procs -> {"own", "private"}]
  /\ iters \in [Procs -> {"valid", "dangling"}]
  /\ adds \in 0..MaxAdds /\ saves \in 0..MaxSaves /\ faults \in 0..MaxFaults

\* To the other processes a save is one step, taken when the file is truncated:
\* from then on the file counts as written.  Until the save returns, its own
\* program has the list as it was, or as the save will leave it.
InFile ==
  IF \E p \in Procs : pc[p] = "write"
    THEN Storable(entries[CHOOSE p \in Procs : pc[p] = "write"])
    ELSE Parsed(file)
Seen(p) ==
  IF pc[p] \in {"lock", "read", "open"} THEN original[p]
  ELSE IF pc[p] = "write" THEN Left(p)
  ELSE entries[p]

Shared == INSTANCE SharedHistory WITH
  Entries <- [when : Times, text : Seq(Characters)],
  stored <- InFile, list <- [p \in Procs |-> Seen(p)]

\* Processes that save, synchronize and load as they like see what they would see
\* if each call were one step: nobody's entries are lost between the reading and
\* the writing of another, whoever crashes, and what is read back from the file is
\* what was put there, but for texts a file cannot hold.
SharedSpec == Shared!Spec

\* A save that returns true leaves the umask as it was, the iterators in the list
\* and, when it is not a history_sync(), the list as it was.
SaveRestores ==
  [][\A p \in Procs : Unlink(p) /\ result[p] =>
       /\ umask[p] = oldUmask[p] /\ iters[p] = "valid"
       /\ sync[p] \/ entries[p] = original[p]]_vars
=============================================================================
