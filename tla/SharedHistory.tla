--------------------------- MODULE SharedHistory ---------------------------
(* What saving, synchronizing and loading promise to processes that share a *)
(* history file: each is one step on the file and on the list of its        *)
(* process.  A load that comes while another process saves may find less    *)
(* than the whole file, and a crash may leave less, but always its oldest   *)
(* entries.                                                                 *)
EXTENDS Sequences, Naturals

CONSTANTS
  Procs,        \* the processes, each with a list of its own
  Entries,      \* the entries of lists and files
  Merge(_,_,_), \* of a process, its list and the file's: the merged list
  Storable(_)   \* the entries of a list that a file can hold

VARIABLES
  stored, \* the entries in the file
  list    \* for each process, its list

Oldest(s) == {SubSeq(s, 1, n) : n \in 0..Len(s)}
Elements(s) == {s[i] : i \in DOMAIN s}

Init ==
  /\ stored \in Seq(Entries)
  /\ list = [p \in Procs |-> <<>>]

\* One entry more, at the end; others may go.
Add(p) ==
  /\ UNCHANGED stored
  /\ list'[p] \in Seq(Entries) \ {<<>>}
  /\ Elements(SubSeq(list'[p], 1, Len(list'[p]) - 1)) \subseteq Elements(list[p])
  /\ list' = [list EXCEPT ![p] = list'[p]]

\* The file gets the merged list, and so does the process when it synchronizes.
\* A save that cannot write leaves its process the merged list in any case.
Save(p) ==
  LET merged == Merge(p, list[p], stored) IN
    \/ /\ stored' = Storable(merged)
       /\ list' \in {list, [list EXCEPT ![p] = merged]}
    \/ /\ UNCHANGED stored
       /\ list' = [list EXCEPT ![p] = merged]

Load(p) ==
  /\ UNCHANGED stored
  /\ \E part \in Oldest(stored) : list' = [list EXCEPT ![p] = Merge(p, <<>>, part)]

Crash(p) ==
  /\ list' = [list EXCEPT ![p] = <<>>]
  /\ stored' \in Oldest(stored)

Next == \E p \in Procs : Add(p) \/ Save(p) \/ Load(p) \/ Crash(p)

Spec == Init /\ [][Next]_<<stored, list>>
=============================================================================
