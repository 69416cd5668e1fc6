---------------------------- MODULE RecentKills ----------------------------
(***************************************************************************)
(* What the kill ring promises to the key handlers, without its slots: the *)
(* last Capacity killed texts, the newest first, and a cursor on the text  *)
(* that ctrl-Y inserts.  Kills with no other key between them grow the     *)
(* newest text; meta-Y moves the cursor to the next older text.            *)
(***************************************************************************)
EXTENDS Integers, Sequences

CONSTANTS
  Chars,      \* the characters of the line
  Capacity,   \* texts the ring remembers
  MaxText     \* bound: length of a text in the ring

VARIABLES
  recent,     \* the killed texts, newest first: a function on 1..n
  n,          \* how many there are
  cursor,     \* the one that ctrl-Y inserts
  lastAction, \* what the last key did: "other", "kill" or "yank"
  inserted    \* the text that the last key took from the ring, or <<>>

vars == <<recent, n, cursor, lastAction, inserted>>

\* The texts that one key can kill.
Killable == UNION {[1..len -> Chars] : len \in 1..MaxText}

\* A killed text joins the one that the kill just before it left in the ring.
Joined(old, text, forward) == IF forward THEN old \o text ELSE text \o old

Init ==
  /\ n = 0 /\ recent = [i \in 1..0 |-> <<>>] /\ cursor = 1
  /\ lastAction = "other" /\ inserted = <<>>

Kill(text, forward) ==
  /\ lastAction' = "kill" /\ inserted' = <<>>
  /\ IF lastAction = "kill" /\ n > 0
       THEN /\ Len(recent[1]) + Len(text) <= MaxText
            /\ recent' = [recent EXCEPT ![1] = Joined(@, text, forward)]
            /\ UNCHANGED <<n, cursor>>
       ELSE /\ n' = IF n < Capacity THEN n + 1 ELSE n
            /\ recent' = [i \in 1..n' |-> IF i = 1 THEN text ELSE recent[i - 1]]
            /\ cursor' = 1

Yank ==
  /\ n > 0
  /\ lastAction' = "yank" /\ inserted' = recent[cursor]
  /\ UNCHANGED <<recent, n, cursor>>

YankPop ==
  /\ lastAction = "yank" /\ n > 0
  /\ cursor' = IF cursor = n THEN 1 ELSE cursor + 1
  /\ inserted' = recent[cursor']
  /\ UNCHANGED <<recent, n, lastAction>>

\* A key that inserts nothing from the ring; one that kills may find nothing.
Key(kind) ==
  /\ lastAction' = kind /\ inserted' = <<>>
  /\ UNCHANGED <<recent, n, cursor>>

Next ==
  \/ \E text \in Killable, forward \in BOOLEAN : Kill(text, forward)
  \/ Yank \/ YankPop \/ Key("kill") \/ Key("other")

Spec == Init /\ [][Next]_vars
=============================================================================
