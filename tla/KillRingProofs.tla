--------------------------- MODULE KillRingProofs ---------------------------
(***************************************************************************)
(* For every set of characters, capacity and length of texts: the slots    *)
(* stay a permutation, and the ring implements the list of recent kills.   *)
(***************************************************************************)
EXTENDS KillRing, SequenceTheorems, TLAPS

\* What one key kills is a text.
LEMMA KillableIsText == ASSUME NEW text \in Killable PROVE text \in Text
<1>1. PICK len \in 1..MaxText : text \in [1..len -> Chars]
  BY DEF Killable
<1>2. len \in Nat
  BY <1>1, CapacityAssumption
<1> QED BY <1>1, <1>2, SeqDef DEF Text

\* Joining two texts in either order gives a text.
LEMMA JoinedIsText ==
  ASSUME NEW old \in Text, NEW text \in Text, NEW forward \in BOOLEAN
  PROVE  Joined(old, text, forward) \in Text
BY ConcatProperties DEF Joined, Text

-----------------------------------------------------------------------------
Inv == TypeOK /\ SlotsDistinct

\* No characters are a text.
LEMMA EmptyIsText == <<>> \in Text
BY EmptySeq DEF Text

\* The invariant holds for an empty ring.
LEMMA InitHolds == Init => Inv
BY CapacityAssumption, EmptyIsText DEF Init, Inv, TypeOK, SlotsDistinct

\* A kill keeps the invariant, in each of its three branches.
LEMMA KillKeeps ==
  ASSUME Inv, NEW text \in Killable, NEW forward \in BOOLEAN, Kill(text, forward)
  PROVE  Inv'
<1> USE CapacityAssumption
<1>1. text \in Text
  BY KillableIsText
<1>2. lastAction' = "kill" /\ inserted' \in Text
  BY <1>1, EmptyIsText DEF Kill
<1>3. CASE KillMore(text, forward)
  <2> DEFINE slot == indexToSlot[1]
  <2>1. slot \in 1..size
    BY <1>3 DEF KillMore, Inv, TypeOK
  <2>2. Joined(theRing[slot], text, forward) \in Text
    BY <2>1, <1>1, JoinedIsText DEF Inv, TypeOK
  <2>3. theRing' = [theRing EXCEPT ![slot] = Joined(theRing[slot], text, forward)]
    BY <1>3 DEF KillMore
  <2>4. theRing' \in [1..size -> Text]
    BY <2>1, <2>2, <2>3 DEF Inv, TypeOK
  <2> QED BY <2>4, <1>2, <1>3 DEF KillMore, Inv, TypeOK, SlotsDistinct
<1>4. CASE KillNew(text)
  <2>1. size \in Nat /\ size + 1 \in 1..Capacity /\ size' = size + 1 /\ index' = 1
    BY <1>4 DEF KillNew, Inv, TypeOK
  <2>2. indexToSlot' \in [1..size' -> 1..size']
    BY <1>4, <2>1 DEF KillNew, Inv, TypeOK
  <2>3. theRing' \in [1..size' -> Text]
    BY <1>1, <1>4, <2>1 DEF KillNew, Inv, TypeOK
  <2>4. SlotsDistinct'
    BY <1>4, <2>1 DEF KillNew, Inv, TypeOK, SlotsDistinct
  <2>5. size' \in 0..Capacity /\ index' \in 1..Capacity /\ index' <= size'
    BY <2>1
  <2> QED BY <1>2, <2>2, <2>3, <2>4, <2>5 DEF Inv, TypeOK
<1>5. CASE KillOldest(text)
  <2>1. size = Capacity /\ size' = size /\ Recycled \in 1..size /\ index' = 1
    BY <1>5 DEF KillOldest, Inv, TypeOK, Recycled
  <2>2. theRing' \in [1..size' -> Text]
    BY <1>1, <1>5, <2>1 DEF KillOldest, Inv, TypeOK
  <2>3. /\ size \in Nat /\ indexToSlot \in [1..size -> 1..size]
        /\ Recycled = indexToSlot[size]
        /\ indexToSlot' = [i \in 1..size |-> IF i = 1 THEN Recycled ELSE indexToSlot[i - 1]]
    BY <1>5, <2>1 DEF KillOldest, Inv, TypeOK, Recycled
  <2>4. \A i \in 1..size : i # 1 => i - 1 \in 1..size /\ i - 1 # size
    BY <2>3
  <2>5. indexToSlot' \in [1..size' -> 1..size']
    <3> HIDE DEF Recycled
    <3> QED BY <2>1, <2>3, <2>4
  <2>6. SlotsDistinct'
    <3>1. SUFFICES ASSUME NEW i \in 1..size, NEW j \in 1..size, i # j
                   PROVE  indexToSlot'[i] # indexToSlot'[j]
      BY <2>1 DEF SlotsDistinct
    <3>2. \A k, l \in 1..size : k # l => indexToSlot[k] # indexToSlot[l]
      BY DEF Inv, SlotsDistinct
    <3>3. size \in 1..size /\ (i # 1 => i - 1 \in 1..size /\ i - 1 # size)
                           /\ (j # 1 => j - 1 \in 1..size /\ j - 1 # size)
      BY <2>3, <2>4
    <3>4. CASE i = 1
      BY <2>3, <3>1, <3>2, <3>3, <3>4
    <3>5. CASE j = 1
      BY <2>3, <3>1, <3>2, <3>3, <3>5
    <3>6. CASE i # 1 /\ j # 1
      <4>1. i - 1 # j - 1
        BY <3>1
      <4> QED BY <2>3, <3>2, <3>3, <3>6, <4>1
    <3> QED BY <3>4, <3>5, <3>6
  <2>7. size' \in 0..Capacity /\ index' \in 1..Capacity /\ index' <= size'
    BY <2>1
  <2> QED BY <1>2, <2>2, <2>5, <2>6, <2>7 DEF Inv, TypeOK
<1> QED BY <1>3, <1>4, <1>5 DEF Kill

\* Every key keeps the invariant.
LEMMA StepKeeps == Inv /\ [Next]_vars => Inv'
<1> SUFFICES ASSUME Inv, [Next]_vars PROVE Inv'
  OBVIOUS
<1> USE CapacityAssumption
<1>1. ASSUME NEW text \in Killable, NEW forward \in BOOLEAN, Kill(text, forward)
      PROVE  Inv'
  BY <1>1, KillKeeps
<1>2. CASE KillNothing \/ OtherKey
  <2>1. lastAction' \in {"other", "kill", "yank"}
          /\ inserted' \in Text /\ UNCHANGED ringVars
    BY <1>2, EmptyIsText DEF KillNothing, OtherKey
  <2> QED BY <2>1 DEF ringVars, Inv, TypeOK, SlotsDistinct
<1>3. CASE Yank
  <2>1. theRing[indexToSlot[index]] \in Text
    BY <1>3 DEF Yank, Inv, TypeOK
  <2>2. lastAction' \in {"other", "kill", "yank"}
          /\ inserted' \in Text /\ UNCHANGED ringVars
    BY <1>3, <2>1, EmptyIsText DEF Yank
  <2> QED BY <2>2 DEF ringVars, Inv, TypeOK, SlotsDistinct
<1>4. CASE YankCycle
  <2>1. size \in 1..Capacity /\ index' \in 1..size
    BY <1>4 DEF YankCycle, NextIndex, Inv, TypeOK
  <2>2. theRing[indexToSlot[index']] \in Text
    BY <2>1 DEF Inv, TypeOK
  <2>3. inserted' \in Text
          /\ UNCHANGED <<size, indexToSlot, theRing, lastAction>>
    BY <1>4, <2>2, EmptyIsText DEF YankCycle
  <2>4. index' \in 1..Capacity /\ index' <= size
    BY <2>1
  <2> QED BY <2>3, <2>4 DEF Inv, TypeOK, SlotsDistinct
<1>5. CASE UNCHANGED vars
  BY <1>5 DEF vars, ringVars, Inv, TypeOK, SlotsDistinct
<1> QED BY <1>1, <1>2, <1>3, <1>4, <1>5 DEF Next

\* The inductive invariant holds.
LEMMA Invariance == Spec => []Inv
BY InitHolds, StepKeeps, PTL DEF Spec

\* The positions lead to slots that were written, and the cursor is on one of them
\* when there is one, for every capacity.
THEOREM Typing == Spec => []TypeOK
<1>1. Inv => TypeOK
  BY DEF Inv
<1> QED BY <1>1, Invariance, PTL

\* No slot is reached from two positions, so no text of the ring is lost behind
\* another.
THEOREM RingSound == Spec => []SlotsDistinct
<1>1. Inv => SlotsDistinct
  BY DEF Inv
<1> QED BY <1>1, Invariance, PTL

-----------------------------------------------------------------------------
(* The refinement: recent[i] is theRing[indexToSlot[i]].                    *)

recent == [i \in 1..size |-> theRing[indexToSlot[i]]]

\* An empty ring is an empty list of recent kills.
LEMMA InitRefined == Init => Recent!Init
BY DEF Init, Recent!Init

\* A kill of the ring is a kill of the list.
LEMMA KillRefined ==
  ASSUME Inv, NEW text \in Killable, NEW forward \in BOOLEAN, Kill(text, forward)
  PROVE  Recent!Kill(text, forward)
<1> USE CapacityAssumption
<1>1. lastAction' = "kill" /\ inserted' = <<>>
  BY DEF Kill
<1>2. CASE KillMore(text, forward)
  <2> DEFINE slot == indexToSlot[1]
  <2>1. slot \in 1..size /\ size > 0 /\ lastAction = "kill" /\ 1 \in 1..size
    BY <1>2 DEF KillMore, Inv, TypeOK
  <2>2. recent[1] = theRing[slot]
    BY <2>1 DEF recent
  <2>3. theRing' = [theRing EXCEPT ![slot] = Joined(theRing[slot], text, forward)]
    BY <1>2 DEF KillMore
  <2>4. \A i \in 1..size : i # 1 => indexToSlot[i] # slot
    BY <2>1 DEF Inv, SlotsDistinct
  <2>5. recent' = [recent EXCEPT ![1] = Recent!Joined(recent[1], text, forward)]
    BY <1>2, <2>1, <2>2, <2>3, <2>4
       DEF KillMore, Inv, TypeOK, recent, Joined, Recent!Joined
  <2>6. Len(recent[1]) + Len(text) <= MaxText
    BY <1>2, <2>2 DEF KillMore
  <2> QED BY <1>1, <1>2, <2>1, <2>5, <2>6 DEF KillMore, Recent!Kill, recent
<1>3. CASE KillNew(text)
  <2>1. size \in Nat /\ size < Capacity /\ size' = size + 1 /\ index' = 1
        /\ ~(lastAction = "kill" /\ size > 0)
    BY <1>3 DEF KillNew, Inv, TypeOK
  <2>2. \A i \in 1..(size + 1) :
          recent'[i] = IF i = 1 THEN text ELSE recent[i - 1]
    BY <1>3, <2>1 DEF KillNew, Inv, TypeOK, recent
  <2>3. recent' = [i \in 1..size' |-> IF i = 1 THEN text ELSE recent[i - 1]]
    BY <2>1, <2>2 DEF recent
  <2> QED BY <1>1, <2>1, <2>3 DEF Recent!Kill, recent
<1>4. CASE KillOldest(text)
  <2>1. size = Capacity /\ size' = size /\ Recycled \in 1..size /\ index' = 1
        /\ lastAction # "kill"
    BY <1>4 DEF KillOldest, Inv, TypeOK, Recycled
  <2>2. \A i \in 1..size : i # 1 =>
          indexToSlot[i - 1] \in 1..size /\ indexToSlot[i - 1] # Recycled
    BY <2>1 DEF Inv, TypeOK, SlotsDistinct, Recycled
  <2>3. \A i \in 1..size : recent'[i] = IF i = 1 THEN text ELSE recent[i - 1]
    <3>1. /\ theRing' = [theRing EXCEPT ![Recycled] = text]
          /\ indexToSlot' = [i \in 1..size |->
                               IF i = 1 THEN Recycled ELSE indexToSlot[i - 1]]
      BY <1>4, <2>1 DEF KillOldest
    <3>2. theRing \in [1..size -> Text] /\ size \in Nat
      BY DEF Inv, TypeOK
    <3>3. ASSUME NEW i \in 1..size
          PROVE  /\ recent'[i] = theRing'[indexToSlot'[i]]
                 /\ i # 1 => recent[i - 1] = theRing[indexToSlot[i - 1]]
      <4>1. i # 1 => i - 1 \in 1..size
        BY <3>2
      <4> QED BY <2>1, <4>1 DEF recent
    <3> HIDE DEF recent
    <3> QED BY <2>1, <2>2, <3>1, <3>2, <3>3
  <2>4. recent' = [i \in 1..size' |-> IF i = 1 THEN text ELSE recent[i - 1]]
    BY <2>1, <2>3 DEF recent
  <2> QED BY <1>1, <2>1, <2>4 DEF Recent!Kill, recent
<1> QED BY <1>2, <1>3, <1>4 DEF Kill

\* Every key of the ring is a key of the list or leaves it as it is.
LEMMA StepRefined == Inv /\ [Next]_vars => [Recent!Next]_(Recent!vars)
<1> SUFFICES ASSUME Inv, [Next]_vars PROVE [Recent!Next]_(Recent!vars)
  OBVIOUS
<1> USE CapacityAssumption
<1>1. ASSUME NEW text \in Killable, NEW forward \in BOOLEAN, Kill(text, forward)
      PROVE  Recent!Next
  BY <1>1, KillRefined DEF Recent!Next, Recent!Killable, Killable
<1>2. CASE KillNothing
  BY <1>2 DEF KillNothing, ringVars, Recent!Next, Recent!Key
<1>3. CASE OtherKey
  BY <1>3 DEF OtherKey, ringVars, Recent!Next, Recent!Key
<1>4. CASE Yank
  <2>1. index \in 1..size
    BY <1>4 DEF Yank, Inv, TypeOK
  <2>2. inserted' = recent[index]
    BY <1>4, <2>1 DEF Yank, recent
  <2>3. Recent!Yank
    BY <1>4, <2>2 DEF Yank, ringVars, Recent!Yank, recent
  <2> QED BY <2>3 DEF Recent!Next
<1>5. CASE YankCycle
  <2>1. size \in Nat /\ index \in 1..size /\ index' \in 1..size
        /\ index' = IF index = size THEN 1 ELSE index + 1
    BY <1>5 DEF YankCycle, NextIndex, Inv, TypeOK
  <2>2. inserted' = recent[index']
    BY <1>5, <2>1 DEF YankCycle, recent
  <2>3. recent' = recent
    BY <1>5 DEF YankCycle, recent
  <2>4. Recent!YankPop
    BY <1>5, <2>1, <2>2, <2>3 DEF YankCycle, Recent!YankPop, recent
  <2> QED BY <2>4 DEF Recent!Next
<1>6. CASE UNCHANGED vars
  BY <1>6 DEF vars, ringVars, Recent!vars
<1> QED BY <1>1, <1>2, <1>3, <1>4, <1>5, <1>6 DEF Next

\* The ring of slots implements the list of the last Capacity kills, for every
\* capacity: what ctrl-Y and meta-Y insert is what the list says.
THEOREM Refinement == Spec => RecentSpec
<1> QED BY Invariance, InitRefined, StepRefined, PTL DEF Spec, RecentSpec, Recent!Spec
=============================================================================
