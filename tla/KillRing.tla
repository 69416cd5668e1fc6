------------------------------ MODULE KillRing ------------------------------
(***************************************************************************)
(* killring.hxx, driven by the key handlers of the line editor: a ring of  *)
(* slots that are never moved, and indexToSlot, which orders them from the *)
(* newest to the oldest.  Slots and positions count from 1 here, from 0 in *)
(* the code.                                                               *)
(***************************************************************************)
EXTENDS Integers, Sequences

CONSTANTS Chars, Capacity, MaxText

ASSUME CapacityAssumption == Capacity \in Nat \ {0} /\ MaxText \in Nat

VARIABLES
  size,        \* texts in the ring
  index,       \* the position that yank() gives
  indexToSlot, \* position -> slot, newest first
  theRing,     \* slot -> text
  lastAction,  \* what the last key did
  inserted     \* the text that the last key took from the ring, or <<>>

ringVars == <<size, index, indexToSlot, theRing>>
vars == <<ringVars, lastAction, inserted>>

Text == Seq(Chars)
\* The texts that one key can kill, kept short by the bound.
Killable == UNION {[1..len -> Chars] : len \in 1..MaxText}

TypeOK ==
  /\ size \in 0..Capacity
  /\ index \in 1..Capacity /\ (size > 0 => index <= size)
  /\ indexToSlot \in [1..size -> 1..size]
  /\ theRing \in [1..size -> Text]
  /\ lastAction \in {"other", "kill", "yank"}
  /\ inserted \in Text

Init ==
  /\ size = 0 /\ index = 1
  /\ indexToSlot = [i \in 1..0 |-> 1] /\ theRing = [s \in 1..0 |-> <<>>]
  /\ lastAction = "other" /\ inserted = <<>>

-----------------------------------------------------------------------------
(* kill() of a text that is not empty, in its three cases.                  *)

\* Wrong: the slot is overwritten where it has to grow.
JoinedOver(old, text, forward) == text

Joined(old, text, forward) == IF forward THEN old \o text ELSE text \o old

\* The last key killed too: its slot grows, index stays where it is.
KillMore(text, forward) ==
  /\ lastAction = "kill" /\ size > 0
  /\ LET slot == indexToSlot[1] IN
       /\ Len(theRing[slot]) + Len(text) <= MaxText
       /\ theRing' = [theRing EXCEPT ![slot] = Joined(@, text, forward)]
  /\ UNCHANGED <<size, index, indexToSlot>>

\* Wrong: nothing looks at the capacity.
KillNewAlways(text) ==
  /\ ~(lastAction = "kill" /\ size > 0)
  /\ size' = size + 1
  /\ indexToSlot' =
       [i \in 1..(size + 1) |-> IF i = 1 THEN size + 1 ELSE indexToSlot[i - 1]]
  /\ theRing' =
       [s \in 1..(size + 1) |-> IF s = size + 1 THEN text ELSE theRing[s]]
  /\ index' = 1

\* A new slot at the end of the ring becomes the newest.
KillNew(text) ==
  /\ ~(lastAction = "kill" /\ size > 0) /\ size < Capacity
  /\ size' = size + 1
  /\ indexToSlot' =
       [i \in 1..(size + 1) |-> IF i = 1 THEN size + 1 ELSE indexToSlot[i - 1]]
  /\ theRing' =
       [s \in 1..(size + 1) |-> IF s = size + 1 THEN text ELSE theRing[s]]
  /\ index' = 1

\* Wrong: the newest slot is overwritten, not the oldest.
RecycledNewest == indexToSlot[1]

Recycled == indexToSlot[Capacity]

\* The oldest slot is overwritten and becomes the newest.
KillOldest(text) ==
  /\ lastAction # "kill" /\ size = Capacity
  /\ theRing' = [theRing EXCEPT ![Recycled] = text]
  /\ indexToSlot' =
       [i \in 1..Capacity |-> IF i = 1 THEN Recycled ELSE indexToSlot[i - 1]]
  /\ index' = 1
  /\ UNCHANGED size

-----------------------------------------------------------------------------
(* The keys.                                                                *)

\* A kill handler with something to kill, in either direction; action() then
\* sets lastAction.
Kill(text, forward) ==
  /\ KillMore(text, forward) \/ KillNew(text) \/ KillOldest(text)
  /\ lastAction' = "kill" /\ inserted' = <<>>

\* A kill handler with the cursor at the end of what it kills: kill() returns
\* at once or is not called, action() sets lastAction all the same.
KillNothing ==
  /\ lastAction' = "kill" /\ inserted' = <<>>
  /\ UNCHANGED ringVars

\* ctrl-Y; with an empty ring the key beeps and changes nothing.
Yank ==
  /\ size > 0
  /\ inserted' = theRing[indexToSlot[index]]
  /\ lastAction' = "yank"
  /\ UNCHANGED ringVars

\* yankPop: ++ index, back to the first position after the last.
NextIndex == IF index + 1 > size THEN 1 ELSE index + 1

\* meta-Y, only right after a yank; any other time the key beeps.
YankCycle ==
  /\ lastAction = "yank" /\ size > 0
  /\ index' = NextIndex
  /\ inserted' = theRing[indexToSlot[index']]
  /\ UNCHANGED <<size, indexToSlot, theRing, lastAction>>

\* The keys that reset lastAction (most do), and the start of a new line.
OtherKey ==
  /\ lastAction' = "other" /\ inserted' = <<>>
  /\ UNCHANGED ringVars

Next ==
  \/ \E text \in Killable, forward \in BOOLEAN : Kill(text, forward)
  \/ KillNothing \/ Yank \/ YankCycle \/ OtherKey

Spec == Init /\ [][Next]_vars

-----------------------------------------------------------------------------
\* The slots behind the positions are all different: no text is reachable twice
\* and none is unreachable, whatever was recycled.
SlotsDistinct ==
  \A i, j \in 1..size : indexToSlot[i] = indexToSlot[j] => i = j

\* The ring implements the list of recent kills: recycling a slot in place and
\* shifting indexToSlot is the same as pushing in front and dropping the oldest.
Recent ==
  INSTANCE RecentKills WITH
    recent <- [i \in 1..size |-> theRing[indexToSlot[i]]],
    n <- size, cursor <- index
RecentSpec == Recent!Spec
=============================================================================
