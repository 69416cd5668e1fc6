-------------------------- MODULE LineEditorProofs --------------------------
(***************************************************************************)
(* The cursor is in the line, the yank counters agree with it, and killing  *)
(* and yanking are each other's inverse, for every set of characters and    *)
(* breaks, every history and callback, every capacity of the kill ring and  *)
(* every bound.                                                             *)
(***************************************************************************)
EXTENDS LineEditor, FiniteSetTheorems, SequenceTheorems, WellFoundedInduction, TLAPS

-----------------------------------------------------------------------------
(* The least and the greatest of a bounded set of integers.                 *)

\* A set of natural numbers has a least element.
LEMMA LeastNatural ==
  ASSUME NEW T, T \subseteq Nat, T # {}
  PROVE  \E x \in T : \A y \in T : x <= y
<1>1. PICK x \in T : \A y \in T : ~ (<<y, x>> \in OpToRel(<, Nat))
  BY NatLessThanWellFounded, WFMin
<1>2. \A y \in T : ~ (y < x)
  BY <1>1 DEF OpToRel
<1> QED BY <1>2, SMT

\* Max is the greatest element of a set that is bounded above.
LEMMA MaxIsGreatest ==
  ASSUME NEW S, S \subseteq Int, S # {}, NEW b \in Int, \A x \in S : x <= b
  PROVE  Max(S) \in S /\ \A x \in S : Max(S) >= x
<1> DEFINE T == {b - x : x \in S}
<1>1. \A x \in S : b - x \in Nat
  OBVIOUS
<1>2. PICK t \in T : \A u \in T : t <= u
  <2>1. T \subseteq Nat /\ T # {}
    BY <1>1
  <2> HIDE DEF T
  <2> QED BY <2>1, LeastNatural
<1>3. PICK m \in S : t = b - m
  BY <1>2
<1>4. ASSUME NEW x \in S PROVE m >= x
  <2>1. b - x \in T
    OBVIOUS
  <2>2. b - m <= b - x
    BY <2>1, <1>2, <1>3
  <2> QED BY <2>2
<1> QED BY <1>3, <1>4 DEF Max

\* Min is the least element of a set that is bounded below.
LEMMA MinIsLeast ==
  ASSUME NEW S, S \subseteq Int, S # {}, NEW b \in Int, \A x \in S : x >= b
  PROVE  Min(S) \in S /\ \A x \in S : Min(S) <= x
<1> DEFINE T == {x - b : x \in S}
<1>1. \A x \in S : x - b \in Nat
  OBVIOUS
<1>2. PICK t \in T : \A u \in T : t <= u
  <2>1. T \subseteq Nat /\ T # {}
    BY <1>1
  <2> HIDE DEF T
  <2> QED BY <2>1, LeastNatural
<1>3. PICK m \in S : t = m - b
  BY <1>2
<1>4. ASSUME NEW x \in S PROVE m <= x
  <2>1. x - b \in T
    OBVIOUS
  <2>2. m - b <= x - b
    BY <2>1, <1>2, <1>3
  <2> QED BY <2>2
<1> QED BY <1>3, <1>4 DEF Min

-----------------------------------------------------------------------------
(* Positions and lines.                                                     *)

\* The line before and from a position.
LEMMA Halves ==
  ASSUME NEW d \in Seq(Chars), NEW p \in 0..Len(d)
  PROVE  /\ Before(d, p) \in Seq(Chars) /\ Len(Before(d, p)) = p
         /\ Rest(d, p) \in Seq(Chars) /\ Len(Rest(d, p)) = Len(d) - p
<1>1. Len(d) \in Nat /\ \A i \in 1..Len(d) : d[i] \in Chars
  OBVIOUS
<1>2. Before(d, p) \in Seq(Chars) /\ Len(Before(d, p)) = p
  BY <1>1, SubSeqProperties DEF Before
<1>3. Rest(d, p) \in Seq(Chars) /\ Len(Rest(d, p)) = Len(d) - p
  BY <1>1, SubSeqProperties DEF Rest
<1> QED BY <1>2, <1>3

\* What inserting does to the length of a line.
LEMMA InsertedLength ==
  ASSUME NEW d \in Seq(Chars), NEW p \in 0..Len(d), NEW text \in Seq(Chars)
  PROVE  /\ Inserted(d, p, text) \in Seq(Chars)
         /\ Len(Inserted(d, p, text)) = Len(d) + Len(text)
<1>1. /\ Before(d, p) \in Seq(Chars) /\ Len(Before(d, p)) = p
      /\ Rest(d, p) \in Seq(Chars) /\ Len(Rest(d, p)) = Len(d) - p
  BY Halves
<1>2. /\ Before(d, p) \o text \in Seq(Chars)
      /\ Len(Before(d, p) \o text) = Len(Before(d, p)) + Len(text)
  BY <1>1, ConcatProperties
<1>3. /\ (Before(d, p) \o text) \o Rest(d, p) \in Seq(Chars)
      /\ Len((Before(d, p) \o text) \o Rest(d, p))
           = Len(Before(d, p) \o text) + Len(Rest(d, p))
  BY <1>1, <1>2, ConcatProperties
<1> QED BY <1>1, <1>2, <1>3 DEF Inserted

\* What erasing does to the length of a line.
LEMMA ErasedLength ==
  ASSUME NEW d \in Seq(Chars), NEW from \in 0..Len(d), NEW to \in from..Len(d)
  PROVE  /\ Erased(d, from, to) \in Seq(Chars)
         /\ Len(Erased(d, from, to)) = Len(d) - (to - from)
<1>1. to \in 0..Len(d)
  OBVIOUS
<1>2. Before(d, from) \in Seq(Chars) /\ Len(Before(d, from)) = from
  BY Halves
<1>3. Rest(d, to) \in Seq(Chars) /\ Len(Rest(d, to)) = Len(d) - to
  BY <1>1, Halves
<1>4. /\ Before(d, from) \o Rest(d, to) \in Seq(Chars)
      /\ Len(Before(d, from) \o Rest(d, to)) = Len(Before(d, from)) + Len(Rest(d, to))
  BY <1>2, <1>3, ConcatProperties
<1> QED BY <1>2, <1>3, <1>4 DEF Erased

-----------------------------------------------------------------------------
(* Inserting and erasing undo each other.                                   *)

\* The two halves of a line put together.
LEMMA TwoParts ==
  ASSUME NEW a \in Seq(Chars), NEW b \in Seq(Chars)
  PROVE  Before(a \o b, Len(a)) = a /\ Rest(a \o b, Len(a)) = b
BY DEF Before, Rest

\* Concatenation of three texts does not depend on the order.
LEMMA Regroup ==
  ASSUME NEW a \in Seq(Chars), NEW b \in Seq(Chars), NEW c \in Seq(Chars)
  PROVE  (a \o b) \o c = a \o (b \o c)
OBVIOUS

\* Inserting between two halves.
LEMMA InsertParts ==
  ASSUME NEW a \in Seq(Chars), NEW b \in Seq(Chars), NEW t \in Seq(Chars)
  PROVE  Inserted(a \o b, Len(a), t) = (a \o t) \o b
BY TwoParts DEF Inserted

\* What stands between two positions, and the line without it.
LEMMA EraseParts ==
  ASSUME NEW a \in Seq(Chars), NEW m \in Seq(Chars), NEW b \in Seq(Chars)
  PROVE  /\ Erased((a \o m) \o b, Len(a), Len(a) + Len(m)) = a \o b
         /\ SubSeq((a \o m) \o b, Len(a) + 1, Len(a) + Len(m)) = m
<1>a. a \o m \in Seq(Chars) /\ m \o b \in Seq(Chars)
  BY ConcatProperties
<1>1. PICK am \in Seq(Chars) : am = a \o m
  BY <1>a
<1>2. PICK mb \in Seq(Chars) : mb = m \o b
  BY <1>a
<1>3. (a \o m) \o b = a \o mb
  BY <1>2
<1>4. Len(am) = Len(a) + Len(m)
  BY <1>1
<1>5. Before(a \o mb, Len(a)) = a
  BY TwoParts
<1>6. Rest(am \o b, Len(am)) = b
  BY TwoParts
<1>7. Erased((a \o m) \o b, Len(a), Len(a) + Len(m)) = a \o b
  BY <1>1, <1>3, <1>4, <1>5, <1>6 DEF Erased
<1>8. SubSeq(am \o b, Len(a) + 1, Len(am)) = m
  BY <1>1
<1> QED BY <1>1, <1>4, <1>7, <1>8

\* Two positions cut a line in three.
LEMMA ThreeCut ==
  ASSUME NEW d \in Seq(Chars), NEW p \in 0..Len(d), NEW q \in p..Len(d)
  PROVE  \E a, m, b \in Seq(Chars) :
           d = (a \o m) \o b /\ Len(a) = p /\ Len(a) + Len(m) = q
<1> DEFINE a == SubSeq(d, 1, p)
           m == SubSeq(d, p + 1, q)
           b == SubSeq(d, q + 1, Len(d))
<1>1. Len(d) \in Nat /\ \A i \in 1..Len(d) : d[i] \in Chars
  BY ElementOfSeq
<1>2. a \in Seq(Chars) /\ Len(a) = p
  BY <1>1, SubSeqProperties
<1>3. m \in Seq(Chars) /\ Len(m) = q - p
  BY <1>1, SubSeqProperties
<1>4. b \in Seq(Chars)
  BY <1>1, SubSeqProperties
<1>5. (a \o m) \o b = d
  <2>1. /\ 1 \in 1..(Len(d) + 1) /\ p \in (1 - 1)..Len(d) /\ q \in p..Len(d)
        /\ q \in (1 - 1)..Len(d) /\ Len(d) \in q..Len(d)
    BY <1>1
  <2>2. a \o m = SubSeq(d, 1, q)
    BY <2>1, ConcatAdjacentSubSeq, Zenon
  <2>3. SubSeq(d, 1, q) \o b = SubSeq(d, 1, Len(d))
    BY <2>1, ConcatAdjacentSubSeq, Zenon
  <2> QED BY <2>2, <2>3, SubSeqFull
<1>6. Len(a) + Len(m) = q
  BY <1>1, <1>2, <1>3
<1> HIDE DEF a, m, b
<1> QED BY <1>2, <1>3, <1>4, <1>5, <1>6, Zenon

\* A position cuts a line in two, and nothing stands between it and itself.
LEMMA TwoCut ==
  ASSUME NEW d \in Seq(Chars), NEW p \in 0..Len(d)
  PROVE  /\ \E a, b \in Seq(Chars) : d = a \o b /\ Len(a) = p
         /\ Erased(d, p, p) = d
<1>1. p \in p..Len(d)
  OBVIOUS
<1>2. PICK a, m, b \in Seq(Chars) : d = (a \o m) \o b /\ Len(a) = p /\ Len(a) + Len(m) = p
  BY <1>1, ThreeCut, Zenon
<1>3. Erased((a \o m) \o b, Len(a), Len(a) + Len(m)) = a \o b
  BY EraseParts
<1>4. m = <<>>
  BY <1>2
<1>5. d = a \o b
  BY <1>2, <1>4
<1> QED BY <1>2, <1>3, <1>5

\* A text that was inserted stands there, and erasing it gives the line back.
LEMMA InsertedThere ==
  ASSUME NEW d \in Seq(Chars), NEW p \in 0..Len(d)
  PROVE  \A t \in Seq(Chars) :
           /\ Erased(Inserted(d, p, t), p, p + Len(t)) = d
           /\ SubSeq(Inserted(d, p, t), p + 1, p + Len(t)) = t
<1>1. PICK a, b \in Seq(Chars) : d = a \o b /\ Len(a) = p
  BY TwoCut
<1>2. TAKE t \in Seq(Chars)
<1>3. Inserted(a \o b, Len(a), t) = (a \o t) \o b
  BY InsertParts
<1>4. /\ Erased((a \o t) \o b, Len(a), Len(a) + Len(t)) = a \o b
      /\ SubSeq((a \o t) \o b, Len(a) + 1, Len(a) + Len(t)) = t
  BY EraseParts
<1> QED BY <1>1, <1>3, <1>4

\* A text that was erased gives the line back when it is inserted there.
LEMMA ErasedBack ==
  ASSUME NEW d \in Seq(Chars), NEW p \in 0..Len(d), NEW q \in p..Len(d)
  PROVE  Inserted(Erased(d, p, q), p, SubSeq(d, p + 1, q)) = d
<1>2. PICK a, m, b \in Seq(Chars) : d = (a \o m) \o b /\ Len(a) = p /\ Len(a) + Len(m) = q
  BY ThreeCut
<1>3. /\ Erased((a \o m) \o b, Len(a), Len(a) + Len(m)) = a \o b
      /\ SubSeq((a \o m) \o b, Len(a) + 1, Len(a) + Len(m)) = m
  BY EraseParts
<1>4. Inserted(a \o b, Len(a), m) = (a \o m) \o b
  BY InsertParts
<1> QED BY <1>2, <1>3, <1>4
\* A text joined to what was there, on either side.
LEMMA JoinedParts ==
  ASSUME NEW a \in Seq(Chars), NEW m \in Seq(Chars), NEW b \in Seq(Chars), NEW r \in Seq(Chars)
  PROVE  /\ Inserted(a \o b, Len(a), r \o m) = Inserted((a \o m) \o b, Len(a), r)
         /\ Inserted(a \o b, Len(a), m \o r) = Inserted((a \o m) \o b, Len(a) + Len(m), r)
<1>a. /\ r \o m \in Seq(Chars) /\ m \o r \in Seq(Chars)
      /\ m \o b \in Seq(Chars) /\ a \o m \in Seq(Chars) /\ a \o r \in Seq(Chars)
  BY ConcatProperties
<1>1. PICK rm \in Seq(Chars) : rm = r \o m
  BY <1>a
<1>2. PICK mr \in Seq(Chars) : mr = m \o r
  BY <1>a
<1>3. PICK mb \in Seq(Chars) : mb = m \o b
  BY <1>a
<1>4. PICK am \in Seq(Chars) : am = a \o m
  BY <1>a
<1>5. /\ Inserted(a \o b, Len(a), rm) = (a \o rm) \o b
      /\ Inserted(a \o b, Len(a), mr) = (a \o mr) \o b
  BY InsertParts
<1>6. Inserted(a \o mb, Len(a), r) = (a \o r) \o mb
  BY InsertParts
<1>7. Inserted(am \o b, Len(am), r) = (am \o r) \o b
  BY InsertParts
<1>8. a \o mb = am \o b /\ Len(am) = Len(a) + Len(m)
  BY SMTT(30), <1>3, <1>4
<1>9. (a \o rm) \o b = (a \o r) \o mb
  <2>1. PICK ar \in Seq(Chars) : ar = a \o r
    BY <1>a
  <2>2. a \o rm = ar \o m
    BY SMTT(30), <1>1, <2>1
  <2>3. (ar \o m) \o b = ar \o mb
    BY SMTT(30), <1>3
  <2> QED BY <2>1, <2>2, <2>3
<1>10. (a \o mr) \o b = (am \o r) \o b
  BY <1>2, <1>4
<1> QED BY <1>1, <1>2, <1>4, <1>5, <1>6, <1>7, <1>8, <1>9, <1>10

\* Erasing a text and joining it to another, on the side where it was, changes
\* nothing of what the insertion of the other gives.
LEMMA JoinedBack ==
  ASSUME NEW d \in Seq(Chars), NEW p \in 0..Len(d), NEW q \in p..Len(d)
  PROVE  \A r \in Seq(Chars) :
           /\ Inserted(Erased(d, p, q), p, r \o SubSeq(d, p + 1, q)) = Inserted(d, p, r)
           /\ Inserted(Erased(d, p, q), p, SubSeq(d, p + 1, q) \o r) = Inserted(d, q, r)
<1>2. PICK a, m, b \in Seq(Chars) : d = (a \o m) \o b /\ Len(a) = p /\ Len(a) + Len(m) = q
  BY ThreeCut
<1>3. /\ Erased((a \o m) \o b, Len(a), Len(a) + Len(m)) = a \o b
      /\ SubSeq((a \o m) \o b, Len(a) + 1, Len(a) + Len(m)) = m
  BY EraseParts
<1>4. ASSUME NEW r \in Seq(Chars)
      PROVE  /\ Inserted(a \o b, Len(a), r \o m) = Inserted((a \o m) \o b, Len(a), r)
             /\ Inserted(a \o b, Len(a), m \o r) = Inserted((a \o m) \o b, Len(a) + Len(m), r)
  BY JoinedParts
<1> QED BY <1>2, <1>3, <1>4

\* Erasing leaves what stands before it.
LEMMA ErasedAfter ==
  ASSUME NEW d \in Seq(Chars), NEW p \in 0..Len(d), NEW q \in p..Len(d)
  PROVE  \A j \in 1..(p + 1) : SubSeq(Erased(d, p, q), j, p) = SubSeq(d, j, p)
<1>1. PICK a, m, b \in Seq(Chars) : d = (a \o m) \o b /\ Len(a) = p /\ Len(a) + Len(m) = q
  BY ThreeCut
<1>2. Erased((a \o m) \o b, Len(a), Len(a) + Len(m)) = a \o b
  BY EraseParts
<1>3. PICK e \in Seq(Chars) : e = Erased(d, p, q)
  BY ErasedLength
<1>4. \A i \in 1..p : e[i] = d[i]
  BY <1>1, <1>2, <1>3
<1>5. Len(e) >= p
  BY <1>1, <1>2, <1>3
<1> QED BY <1>3, <1>4, <1>5

-----------------------------------------------------------------------------
(* Where the handlers go.                                                   *)

\* A newline to the left is in the line and not to the right of the position.
LEMMA PrevNewlineRange ==
  ASSUME NEW d \in Seq(Chars), NEW p \in Int, p >= -1
  PROVE  PrevNewline(d, p) \in -1..(Len(d) - 1) /\ PrevNewline(d, p) <= p
<1> DEFINE S == {i \in NewlinesAt(d) : i <= p} \cup {-1}
<1>1. S \subseteq Int /\ S # {} /\ \A x \in S : x <= p /\ x \in -1..(Len(d) - 1)
  BY DEF NewlinesAt
<1>2. Max(S) \in S
  <2> HIDE DEF S
  <2> QED BY <1>1, MaxIsGreatest
<1> QED BY <1>1, <1>2 DEF PrevNewline

\* The same from the position before p.
LEMMA PrevNewlineBefore ==
  ASSUME NEW d \in Seq(Chars), NEW p \in Nat
  PROVE  PrevNewline(d, p - 1) \in -1..(Len(d) - 1) /\ PrevNewline(d, p - 1) <= p - 1
<1> DEFINE q == p - 1
<1>1. q \in Int /\ q >= -1
  OBVIOUS
<1> HIDE DEF q
<1>2. PrevNewline(d, q) \in -1..(Len(d) - 1) /\ PrevNewline(d, q) <= q
  BY <1>1, PrevNewlineRange
<1> QED BY <1>2 DEF q

\* What prev_newline_position() finds is a newline.
LEMMA NewlineFound ==
  ASSUME NEW d \in Seq(Chars), NEW p \in Int, p >= -1, PrevNewline(d, p) # -1
  PROVE  PrevNewline(d, p) \in NewlinesAt(d)
<1> DEFINE S == {i \in NewlinesAt(d) : i <= p} \cup {-1}
<1>1. S \subseteq Int /\ S # {} /\ \A x \in S : x <= p
  BY DEF NewlinesAt
<1>2. Max(S) \in S
  <2> HIDE DEF S
  <2> QED BY <1>1, MaxIsGreatest
<1> QED BY <1>2 DEF PrevNewline

\* A newline to the right is in the line and not to the left of the position.
LEMMA NextNewlineRange ==
  ASSUME NEW d \in Seq(Chars), NEW p \in Int
  PROVE  \/ NextNewline(d, p) = -1
         \/ NextNewline(d, p) >= p /\ NextNewline(d, p) \in 0..(Len(d) - 1)
<1> DEFINE S == {i \in NewlinesAt(d) : i >= p}
<1>1. S \subseteq Int /\ \A x \in S : x >= p /\ x \in 0..(Len(d) - 1)
  BY DEF NewlinesAt
<1>2. CASE S = {}
  BY <1>2 DEF NextNewline
<1>3. CASE S # {}
  <2>1. Min(S) \in S
    <3> HIDE DEF S
    <3> QED BY <1>1, <1>3, MinIsLeast
  <2> QED BY <1>1, <1>3, <2>1 DEF NextNewline
<1> QED BY <1>2, <1>3

\* LeftUntil stays to the left.
LEMMA LeftUntilRange ==
  ASSUME NEW d, NEW p \in Nat, NEW S PROVE LeftUntil(d, p, S) \in 0..p
<1> DEFINE T == {k \in 0..p : k = 0 \/ d[k] \in S}
<1>1. T \subseteq Int /\ T # {} /\ p \in Int /\ \A x \in T : x <= p
  OBVIOUS
<1>2. Max(T) \in T
  <2> HIDE DEF T
  <2> QED BY <1>1, MaxIsGreatest
<1> QED BY <1>2 DEF LeftUntil

\* RightUntil stays to the right.
LEMMA RightUntilRange ==
  ASSUME NEW d \in Seq(Chars), NEW p \in 0..Len(d), NEW S
  PROVE  RightUntil(d, p, S) \in p..Len(d)
<1> DEFINE T == {k \in p..Len(d) : k = Len(d) \/ d[k + 1] \in S}
<1>1. T \subseteq Int /\ T # {} /\ p \in Int /\ \A x \in T : x >= p
  OBVIOUS
<1>2. Min(T) \in T
  <2> HIDE DEF T
  <2> QED BY <1>1, MinIsLeast
<1> QED BY <1>2 DEF RightUntil

\* The words around a position.
LEMMA WordRange ==
  ASSUME NEW d \in Seq(Chars), NEW p \in 0..Len(d), NEW breaks
  PROVE  /\ WordLeft(d, p, breaks) \in 0..p
         /\ WordStart(d, p, breaks) \in p..Len(d)
         /\ WordRight(d, p, breaks) \in WordStart(d, p, breaks)..Len(d)
<1>1. WordStart(d, p, breaks) \in p..Len(d)
  BY RightUntilRange DEF WordStart
<1>2. WordRight(d, p, breaks) \in WordStart(d, p, breaks)..Len(d)
  <2> WordStart(d, p, breaks) \in 0..Len(d)
    BY <1>1
  <2> QED BY RightUntilRange DEF WordRight
<1>3. LeftUntil(d, p, Chars \ breaks) \in 0..p
  BY LeftUntilRange
<1>4. WordLeft(d, p, breaks) \in 0..LeftUntil(d, p, Chars \ breaks)
  BY <1>3, LeftUntilRange DEF WordLeft
<1> QED BY <1>1, <1>2, <1>3, <1>4

\* Home and End stay in the line.
LEMMA HomeRange ==
  ASSUME data \in Seq(Chars), pos \in 0..Len(data), NEW repeats \in BOOLEAN
  PROVE  /\ Home(repeats) \in 0..Len(data) /\ (pos > 0 => Home(repeats) <= pos)
         /\ EndOfLine(repeats) \in pos..Len(data)
<1> DEFINE onNewline == pos > 0 /\ pos < Len(data) /\ data[pos + 1] = Newline
           p == IF onNewline THEN pos - 1 ELSE pos
<1>1. p \in Int /\ p >= -1
  OBVIOUS
<1>2. PrevNewline(data, p) \in -1..(Len(data) - 1) /\ PrevNewline(data, p) <= p
  <2> HIDE DEF p
  <2> QED BY <1>1, PrevNewlineRange
<1>3. LineStart(data, pos) = PrevNewline(data, p) + 1
  BY DEF LineStart
<1>4. pos > 0 => LineStart(data, pos) <= pos
  <2> SUFFICES ASSUME pos > 0 PROVE LineStart(data, pos) <= pos
    OBVIOUS
  <2>1. CASE onNewline
    BY <2>1, <1>2, <1>3
  <2>2. CASE ~onNewline /\ PrevNewline(data, pos) # pos
    BY <2>2, <1>2, <1>3
  <2>3. CASE ~onNewline /\ PrevNewline(data, pos) = pos
    <3>1. pos \in NewlinesAt(data)
      BY <2>3, NewlineFound
    <3> QED BY <2>3, <3>1 DEF NewlinesAt
  <2> QED BY <2>1, <2>2, <2>3
<1>5. Home(repeats) \in 0..Len(data) /\ (pos > 0 => Home(repeats) <= pos)
  BY <1>2, <1>3, <1>4 DEF Home
<1>6. EndOfLine(repeats) \in pos..Len(data)
  BY NextNewlineRange DEF EndOfLine
<1> QED BY <1>5, <1>6

\* Up stays in the line.
LEMMA UpRange ==
  ASSUME NEW d \in Seq(Chars), NEW p \in 0..Len(d)
  PROVE  UpFrom(d, p) \in (-1..Len(d)) \cup {AssertFails}
<1> USE LineAssumption
<1> DEFINE here == PrevNewline(d, p)
           above == IF here = p THEN PrevNewline(d, p - 1) ELSE here
           start == IF above > 0 THEN PrevNewline(d, above - 1) + 1 ELSE 0
           shift == IF ~IndentMultiline /\ start = 0 THEN Indentation ELSE 0
           column == Smaller(p - above - 1, (above - start) + shift)
<1>1. UpFrom(d, p) = IF OnFirstNewline(d, p) THEN AssertFails
                     ELSE IF above < 0 THEN -1 ELSE start + Larger(column - shift, 0)
  BY DEF UpFrom
<1>2. above \in -1..(Len(d) - 1) /\ above < p
  <2>1. here \in -1..(Len(d) - 1) /\ here <= p
    BY PrevNewlineRange
  <2>2. PrevNewline(d, p - 1) \in -1..(Len(d) - 1) /\ PrevNewline(d, p - 1) <= p - 1
    <3>1. p \in Nat
      OBVIOUS
    <3> QED BY <3>1, PrevNewlineBefore
  <2>3. CASE here = p
    <3>1. above = PrevNewline(d, p - 1)
      BY <2>3
    <3> QED BY <2>2, <3>1
  <2>4. CASE here # p
    <3>1. above = here
      BY <2>4
    <3> QED BY <2>1, <2>4, <3>1
  <2> QED BY <2>3, <2>4
<1>3. above >= 0 => start \in 0..above
  <2> HIDE DEF above
  <2>1. CASE above > 0
    <3>1. /\ PrevNewline(d, above - 1) \in -1..(Len(d) - 1)
          /\ PrevNewline(d, above - 1) <= above - 1
      <4>1. above \in Nat
        BY <1>2, <2>1
      <4> QED BY <4>1, PrevNewlineBefore
    <3> QED BY <1>2, <2>1, <3>1
  <2>2. CASE ~(above > 0)
    BY <1>2, <2>2
  <2> QED BY <2>1, <2>2
<1>4. shift \in Nat
  OBVIOUS
<1> HIDE DEF above, start, shift
<1> QED BY <1>1, <1>2, <1>3, <1>4 DEF Smaller, Larger

\* Down stays in the line.
LEMMA DownRange ==
  ASSUME NEW d \in Seq(Chars), NEW p \in 0..Len(d)
  PROVE  DownFrom(d, p) \in -1..Len(d)
<1> USE LineAssumption
<1> DEFINE ends == NextNewline(d, p)
           below == NextNewline(d, ends + 1)
           length == (IF below < 0 THEN Len(d) ELSE below) - (ends + 1)
           here == PrevNewline(d, p)
           start == (IF here # p THEN here
                     ELSE IF p > 0 THEN PrevNewline(d, p - 1) ELSE -1) + 1
           shift == IF ~IndentMultiline /\ start = 0 THEN Indentation ELSE 0
<1>1. DownFrom(d, p) = IF ends < 0 THEN -1 ELSE ends + 1 + Smaller(p - start + shift, length)
  BY DEF DownFrom
<1>2. ends = -1 \/ ends \in 0..(Len(d) - 1)
  BY NextNewlineRange
<1>3. ends < 0 \/ (length \in Nat /\ ends + 1 + length <= Len(d))
  <2> HIDE DEF ends
  <2>1. below = -1 \/ (below >= ends + 1 /\ below \in 0..(Len(d) - 1))
    BY <1>2, NextNewlineRange
  <2> HIDE DEF below
  <2> QED BY <1>2, <2>1
<1>4. start \in 0..p
  <2>1. here \in -1..(Len(d) - 1) /\ here <= p
    BY PrevNewlineRange
  <2>2. PrevNewline(d, p - 1) \in -1..(Len(d) - 1) /\ PrevNewline(d, p - 1) <= p - 1
    <3>1. p \in Nat
      OBVIOUS
    <3> QED BY <3>1, PrevNewlineBefore
  <2>3. CASE here # p
    <3>1. start = here + 1
      BY <2>3
    <3> QED BY <2>1, <2>3, <3>1
  <2>4. CASE here = p /\ p > 0
    <3>1. start = PrevNewline(d, p - 1) + 1
      BY <2>4
    <3> QED BY <2>2, <3>1
  <2>5. CASE here = p /\ ~(p > 0)
    <3>1. start = 0
      BY <2>5
    <3> QED BY <3>1
  <2> QED BY <2>3, <2>4, <2>5
<1>5. shift \in Nat
  OBVIOUS
<1> HIDE DEF ends, length, start, shift
<1> QED BY <1>1, <1>2, <1>3, <1>4, <1>5 DEF Smaller

-----------------------------------------------------------------------------
(* The invariant and its parts.                                             *)

LineIn ==
  /\ data \in Seq(Chars) /\ pos \in 0..Len(data)
  /\ hasNewlines \in BOOLEAN /\ whole \in Seq(Chars) \cup {NoLine}
RingIn ==
  /\ n \in 0..Capacity /\ recent \in [1..n -> Seq(Chars)]
  /\ cursor \in 1..Capacity /\ (n > 0 => cursor <= n)
  /\ lastAction \in {"other", "kill", "yank"}
YanksIn == argYank \in BOOLEAN /\ lastYankSize \in Nat /\ taken \in Seq(Chars)
IInv ==
  /\ phase \in {"idle", "input"} /\ recalled \in Seq(Chars) \cup {NoLine}
  /\ LineIn /\ RingIn /\ YanksIn

\* The invariant is the type and the cursor.
LEMMA IInvIs == IInv <=> TypeOK /\ PosInLine
<1>1. data \in Seq(Chars) => Len(data) \in Nat
  OBVIOUS
<1> QED BY <1>1 DEF IInv, LineIn, RingIn, YanksIn, TypeOK, PosInLine

\* The line after a handler and the callback, when the handler is right.
LEMMA BecomesIn ==
  ASSUME LineIn, NEW d \in Seq(Chars), NEW p \in 0..Len(d),
         NEW u \in Seq(Chars) \cup {NoLine}, Becomes(d, p, u)
  PROVE  LineIn'
<1> USE LineAssumption
<1>1. hasNewlines' \in BOOLEAN
  BY DEF LineIn, Becomes, Drawn
<1>2. CASE data' = d /\ pos' = p /\ whole' = u
  BY <1>1, <1>2 DEF LineIn
<1>3. CASE data' \in Others /\ pos' \in 0..Len(data') /\ whole' = NoLine
  BY <1>1, <1>3 DEF LineIn
<1> QED BY <1>2, <1>3 DEF Becomes

\* A key that takes nothing from the kill ring leaves it as it is.
LEMMA KeyIn ==
  ASSUME RingIn, NEW kind \in {"other", "kill"}, Ring!Key(kind)
  PROVE  RingIn'
  BY DEF RingIn, Ring!Key

\* What ring actions leave alone stays a ring.
LEMMA RingKept ==
  ASSUME RingIn, UNCHANGED ring PROVE RingIn'
  BY DEF RingIn, ring

\* A kill leaves a ring.
LEMMA KillIn ==
  ASSUME RingIn, NEW text \in Seq(Chars), NEW forward, Ring!Kill(text, forward)
  PROVE  RingIn'
<1> USE LineAssumption
<1>1. CASE lastAction = "kill" /\ n > 0
  <2>1. recent[1] \in Seq(Chars)
    BY <1>1 DEF RingIn
  <2>2. Ring!Joined(recent[1], text, forward) \in Seq(Chars)
    BY <2>1, ConcatProperties DEF Ring!Joined
  <2>3. /\ recent' = [recent EXCEPT ![1] = Ring!Joined(recent[1], text, forward)]
        /\ n' = n /\ cursor' = cursor /\ lastAction' = "kill"
    BY <1>1 DEF Ring!Kill
  <2> QED BY <2>2, <2>3 DEF RingIn
<1>2. CASE ~(lastAction = "kill" /\ n > 0)
  <2>1. /\ n' = IF n < Capacity THEN n + 1 ELSE n
        /\ recent' = [i \in 1..n' |-> IF i = 1 THEN text ELSE recent[i - 1]]
        /\ cursor' = 1 /\ lastAction' = "kill"
    BY <1>2 DEF Ring!Kill
  <2>2. n' \in 0..Capacity /\ n' <= n + 1
    BY <2>1 DEF RingIn
  <2>3. ASSUME NEW i \in 1..n', i # 1 PROVE recent[i - 1] \in Seq(Chars)
    <3>1. i - 1 \in 1..n
      BY <2>2, <2>3 DEF RingIn
    <3> QED BY <3>1 DEF RingIn
  <2>4. recent' \in [1..n' -> Seq(Chars)]
    BY <2>1, <2>3
  <2> QED BY <2>1, <2>2, <2>4 DEF RingIn
<1> QED BY <1>1, <1>2

\* A yank leaves a ring and gives a text.
LEMMA YankIn ==
  ASSUME RingIn, Ring!Yank
  PROVE  RingIn' /\ inserted' \in Seq(Chars)
  BY DEF RingIn, Ring!Yank

\* A meta-Y leaves a ring and gives a text.
LEMMA YankPopIn ==
  ASSUME RingIn, Ring!YankPop
  PROVE  RingIn' /\ inserted' \in Seq(Chars)
<1>1. cursor' \in 1..n /\ n' = n /\ recent' = recent /\ lastAction' = lastAction
  BY LineAssumption DEF RingIn, Ring!YankPop
<1>2. inserted' = recent[cursor']
  BY DEF Ring!YankPop
<1>3. inserted' \in Seq(Chars)
  BY <1>1, <1>2 DEF RingIn
<1>4. RingIn'
  <2>1. n' \in 0..Capacity /\ recent' \in [1..n' -> Seq(Chars)]
    BY <1>1 DEF RingIn
  <2>2. cursor' \in 1..Capacity /\ cursor' <= n'
    BY <1>1, LineAssumption DEF RingIn
  <2> QED BY <1>1, <2>1, <2>2 DEF RingIn
<1> QED BY <1>3, <1>4

\* What Other and Neutral do to the invariant.
LEMMA OtherIn ==
  ASSUME IInv, NEW d \in Seq(Chars), NEW p \in 0..Len(d), Other(d, p),
         recalled' \in Seq(Chars) \cup {NoLine}, phase' \in {"idle", "input"}
  PROVE  IInv'
<1>1. LineIn'
  BY BecomesIn DEF IInv, Other
<1>2. RingIn'
  BY KeyIn DEF IInv, Other
<1>3. YanksIn'
  <2>1. <<>> \in Seq(Chars)
    OBVIOUS
  <2> QED BY <2>1 DEF IInv, Other, YanksIn
<1> QED BY <1>1, <1>2, <1>3 DEF IInv

\* The same for the handlers that leave lastAction alone.
LEMMA NeutralIn ==
  ASSUME IInv, NEW d \in Seq(Chars), NEW p \in 0..Len(d), Neutral(d, p),
         recalled' \in Seq(Chars) \cup {NoLine}, phase' \in {"idle", "input"}
  PROVE  IInv'
<1>1. LineIn'
  <2>1. (IF d = data /\ p = pos THEN whole ELSE NoLine) \in Seq(Chars) \cup {NoLine}
    BY DEF IInv, LineIn
  <2> QED BY <2>1, BecomesIn DEF IInv, Neutral
<1>2. RingIn'
  BY RingKept DEF IInv, Neutral
<1>3. YanksIn'
  BY DEF IInv, Neutral, YanksIn
<1> QED BY <1>1, <1>2, <1>3 DEF IInv

-----------------------------------------------------------------------------
(* The handlers that insert, delete, move and change.                       *)

\* A function on the positions of a line is a line of the same length.
LEMMA LineOf ==
  ASSUME NEW len \in Nat, NEW f \in [1..len -> Chars]
  PROVE  f \in Seq(Chars) /\ Len(f) = len
  OBVIOUS

\* A typed character, in both modes, keeps the invariant.
LEMMA InsertCharacterIn ==
  ASSUME IInv, UNCHANGED phase, NEW c \in Chars, NEW overwrite \in BOOLEAN,
         InsertCharacter(c, overwrite)
  PROVE  IInv'
<1> DEFINE longer == Inserted(data, pos, <<c>>)
           to == IF overwrite /\ pos < Len(data) THEN pos + 2 ELSE pos + 1
<1>1. data \in Seq(Chars) /\ Len(data) \in Nat /\ pos \in 0..Len(data)
  BY DEF IInv, LineIn
<1>2. <<c>> \in Seq(Chars) /\ Len(<<c>>) = 1
  OBVIOUS
<1>3. longer \in Seq(Chars) /\ Len(longer) = Len(data) + 1
  BY <1>1, <1>2, InsertedLength
<1>4. Other(Erased(longer, pos + 1, to), pos + 1) /\ recalled' = recalled
  BY DEF InsertCharacter
<1> HIDE DEF longer
<1>5. pos + 1 \in 0..Len(longer) /\ to \in (pos + 1)..Len(longer)
  BY <1>1, <1>3
<1>6. /\ Erased(longer, pos + 1, to) \in Seq(Chars)
      /\ Len(Erased(longer, pos + 1, to)) = Len(longer) - (to - (pos + 1))
  <2> HIDE DEF to
  <2> QED BY <1>3, <1>5, ErasedLength
<1>7. pos + 1 \in 0..Len(Erased(longer, pos + 1, to))
  BY <1>1, <1>3, <1>5, <1>6
<1> HIDE DEF to
<1> QED BY <1>4, <1>6, <1>7, OtherIn DEF IInv

\* So do a pasted text and a verbatim character.
LEMMA InsertTextIn ==
  ASSUME IInv, UNCHANGED phase, NEW text \in Seq(Chars), InsertText(text)
  PROVE  IInv'
<1>1. data \in Seq(Chars) /\ Len(data) \in Nat /\ pos \in 0..Len(data) /\ Len(text) \in Nat
  BY DEF IInv, LineIn
<1>2. /\ Inserted(data, pos, text) \in Seq(Chars)
      /\ Len(Inserted(data, pos, text)) = Len(data) + Len(text)
  BY <1>1, InsertedLength
<1>3. pos + Len(text) \in 0..Len(Inserted(data, pos, text))
  BY <1>1, <1>2
<1> QED BY <1>2, <1>3, OtherIn DEF InsertText, IInv

\* The line without the character under the cursor, if there is one.
LEMMA WithoutCharacter ==
  ASSUME NEW d \in Seq(Chars), NEW p \in 0..Len(d)
  PROVE  LET e == IF p < Len(d) THEN Erased(d, p, p + 1) ELSE d
         IN e \in Seq(Chars) /\ p \in 0..Len(e)
<1>1. CASE p < Len(d)
  <2>1. p + 1 \in p..Len(d) /\ Len(d) \in Nat
    BY <1>1
  <2>2. /\ Erased(d, p, p + 1) \in Seq(Chars)
        /\ Len(Erased(d, p, p + 1)) = Len(d) - ((p + 1) - p)
    BY <2>1, ErasedLength
  <2> QED BY <1>1, <2>1, <2>2
<1>2. CASE ~(p < Len(d))
  BY <1>2
<1> QED BY <1>1, <1>2

\* Delete keeps the invariant.
LEMMA DeleteIn ==
  ASSUME IInv, UNCHANGED phase, DeleteCharacter PROVE IInv'
<1> DEFINE e == IF pos < Len(data) THEN Erased(data, pos, pos + 1) ELSE data
<1>1. e \in Seq(Chars) /\ pos \in 0..Len(e)
  BY WithoutCharacter DEF IInv, LineIn
<1>2. Other(e, pos) /\ recalled' = recalled
  BY DEF DeleteCharacter
<1> HIDE DEF e
<1> QED BY <1>1, <1>2, OtherIn DEF IInv

\* Ctrl-D keeps it.
LEMMA SendEofIn ==
  ASSUME IInv, UNCHANGED phase, SendEof PROVE IInv'
<1> DEFINE e == IF pos < Len(data) THEN Erased(data, pos, pos + 1) ELSE data
<1>1. e \in Seq(Chars) /\ pos \in 0..Len(e)
  BY WithoutCharacter DEF IInv, LineIn
<1>2. Neutral(e, pos) /\ recalled' = recalled
  BY DEF SendEof
<1> HIDE DEF e
<1> QED BY <1>1, <1>2, NeutralIn DEF IInv

\* Backspace keeps it.
LEMMA BackspaceIn ==
  ASSUME IInv, UNCHANGED phase, BackspaceCharacter PROVE IInv'
<1>1. data \in Seq(Chars) /\ Len(data) \in Nat /\ pos \in 0..Len(data)
  BY DEF IInv, LineIn
<1>2. CASE pos > 0
  <2>1. pos - 1 \in 0..Len(data) /\ pos \in (pos - 1)..Len(data)
    BY <1>1, <1>2
  <2>2. /\ Erased(data, pos - 1, pos) \in Seq(Chars)
        /\ Len(Erased(data, pos - 1, pos)) = Len(data) - (pos - (pos - 1))
    BY <1>1, <2>1, ErasedLength
  <2>3. pos - 1 \in 0..Len(Erased(data, pos - 1, pos))
    BY <1>1, <1>2, <2>2
  <2> QED BY <1>2, <2>2, <2>3, OtherIn DEF BackspaceCharacter, IInv
<1>3. CASE ~(pos > 0)
  BY <1>1, <1>3, OtherIn DEF BackspaceCharacter, IInv
<1> QED BY <1>2, <1>3

\* Every handler that only moves the cursor keeps it in the line.
LEMMA MoveCursorIn ==
  ASSUME IInv, UNCHANGED phase, MoveCursor PROVE IInv'
<1>1. data \in Seq(Chars) /\ Len(data) \in Nat /\ pos \in 0..Len(data)
  BY DEF IInv, LineIn
<1>2. PICK p \in Moves : Other(data, p)
  BY DEF MoveCursor
<1>3. p \in 0..Len(data)
  <2>1. CASE p \in {IF pos > 0 THEN pos - 1 ELSE pos,
                    IF pos < Len(data) THEN pos + 1 ELSE pos}
    BY <1>1, <2>1
  <2>2. CASE \E repeats \in BOOLEAN : p = Home(repeats) \/ p = EndOfLine(repeats)
    <3>1. PICK repeats \in BOOLEAN : p = Home(repeats) \/ p = EndOfLine(repeats)
      BY <2>2
    <3>2. Home(repeats) \in 0..Len(data) /\ EndOfLine(repeats) \in pos..Len(data)
      BY <1>1, HomeRange
    <3> QED BY <1>1, <3>1, <3>2
  <2>3. CASE \E breaks \in {WordBreaks, SubwordBreaks} :
               p = WordLeft(data, pos, breaks) \/ p = WordRight(data, pos, breaks)
    <3>1. PICK breaks \in {WordBreaks, SubwordBreaks} :
                 p = WordLeft(data, pos, breaks) \/ p = WordRight(data, pos, breaks)
      BY <2>3
    <3>2. /\ WordLeft(data, pos, breaks) \in 0..pos
          /\ WordStart(data, pos, breaks) \in pos..Len(data)
          /\ WordRight(data, pos, breaks) \in WordStart(data, pos, breaks)..Len(data)
      BY <1>1, WordRange
    <3> QED BY <1>1, <3>1, <3>2
  <2>4. CASE p \in Vertical
    <3>1. /\ UpFrom(data, pos) \in (-1..Len(data)) \cup {AssertFails}
          /\ DownFrom(data, pos) \in -1..Len(data)
      BY <1>1, UpRange, DownRange
    <3>2. p \in {UpFrom(data, pos), DownFrom(data, pos), 0, Len(data)} /\ p >= 0
      BY <2>4 DEF Vertical
    <3> QED BY <1>1, <3>1, <3>2 DEF AssertFails
  <2> QED BY <1>2, <2>1, <2>2, <2>3, <2>4 DEF Moves
<1> QED BY <1>1, <1>2, <1>3, OtherIn DEF MoveCursor, IInv

\* The three handlers that change the case of a word keep the length.
LEMMA ChangeCaseIn ==
  ASSUME IInv, UNCHANGED phase, NEW first \in [Chars -> Chars],
         NEW rest \in [Chars -> Chars], NEW breaks, ChangeCase(first, rest, breaks)
  PROVE  IInv'
<1> DEFINE from == WordStart(data, pos, breaks)
           to == WordRight(data, pos, breaks)
           e == [i \in 1..Len(data) |->
                   IF i = from + 1 /\ i <= to THEN first[data[i]]
                   ELSE IF i \in (from + 1)..to THEN rest[data[i]] ELSE data[i]]
<1>1. data \in Seq(Chars) /\ Len(data) \in Nat /\ pos \in 0..Len(data)
  BY DEF IInv, LineIn
<1>2. from \in pos..Len(data) /\ to \in from..Len(data)
  BY <1>1, WordRange
<1>3. to \in 0..Len(data)
  BY <1>1, <1>2
<1>4. Other(e, to) /\ recalled' = recalled
  BY DEF ChangeCase
<1> HIDE DEF from, to
<1>5. e \in [1..Len(data) -> Chars]
  <2>1. \A i \in 1..Len(data) : data[i] \in Chars
    BY <1>1
  <2> QED BY <2>1
<1> HIDE DEF e
<1>6. e \in Seq(Chars) /\ Len(e) = Len(data)
  BY <1>1, <1>5, LineOf
<1> QED BY <1>3, <1>4, <1>6, OtherIn DEF IInv

\* Ctrl-T keeps the length.
LEMMA TransposeIn ==
  ASSUME IInv, UNCHANGED phase, TransposeCharacters PROVE IInv'
<1> DEFINE left == IF pos = Len(data) THEN pos - 1 ELSE pos
           e == [data EXCEPT ![left] = data[left + 1], ![left + 1] = data[left]]
           p == IF pos = Len(data) THEN pos ELSE pos + 1
<1>1. data \in Seq(Chars) /\ Len(data) \in Nat /\ pos \in 0..Len(data)
  BY DEF IInv, LineIn
<1>2. pos > 0 /\ Len(data) > 1 /\ Other(e, p) /\ recalled' = recalled
  BY DEF TransposeCharacters
<1>3. left \in 1..Len(data) /\ left + 1 \in 1..Len(data) /\ p \in 0..Len(data)
  BY <1>1, <1>2
<1> HIDE DEF left, p
<1>4. e \in [1..Len(data) -> Chars]
  <2>1. data \in [1..Len(data) -> Chars]
    BY <1>1
  <2>2. data[left] \in Chars /\ data[left + 1] \in Chars
    BY <1>3, <2>1
  <2> QED BY <2>1, <2>2
<1> HIDE DEF e
<1>5. e \in Seq(Chars) /\ Len(e) = Len(data)
  BY <1>1, <1>4, LineOf
<1> QED BY <1>2, <1>3, <1>5, OtherIn DEF IInv

-----------------------------------------------------------------------------
(* Killing and yanking.                                                     *)

\* A kill handler keeps the invariant, whatever part of the line it takes.
LEMMA KillRangeIn ==
  ASSUME IInv, UNCHANGED phase, NEW from \in 0..Len(data), NEW to \in from..Len(data),
         NEW forward, KillRange(from, to, forward)
  PROVE  IInv'
<1>1. data \in Seq(Chars) /\ Len(data) \in Nat
  BY DEF IInv, LineIn
<1>2. /\ Erased(data, from, to) \in Seq(Chars)
      /\ Len(Erased(data, from, to)) = Len(data) - (to - from)
  BY <1>1, ErasedLength
<1>3. from \in 0..Len(Erased(data, from, to))
  BY <1>1, <1>2
<1>4. LineIn'
  <2> DEFINE u == IF lastAction = "kill" THEN whole ELSE IF from = to THEN NoLine ELSE data
  <2>1. u \in Seq(Chars) \cup {NoLine}
    BY <1>1 DEF IInv, LineIn
  <2>2. Becomes(Erased(data, from, to), from, u)
    BY DEF KillRange
  <2> HIDE DEF u
  <2> QED BY <1>2, <1>3, <2>1, <2>2, BecomesIn DEF IInv
<1>5. RingIn'
  <2>1. CASE from = to
    <3>1. Ring!Key("kill")
      BY <2>1 DEF KillRange
    <3> QED BY <3>1, KeyIn DEF IInv
  <2>2. CASE from # to
    <3>1. \A i \in (from + 1)..to : data[i] \in Chars
      BY <1>1
    <3>2. SubSeq(data, from + 1, to) \in Seq(Chars)
      BY <1>1, <3>1, SubSeqProperties
    <3>3. Ring!Kill(SubSeq(data, from + 1, to), forward)
      BY <2>2 DEF KillRange
    <3> QED BY <3>2, <3>3, KillIn DEF IInv
  <2> QED BY <2>1, <2>2
<1>6. YanksIn' /\ recalled' = recalled
  <2>1. <<>> \in Seq(Chars)
    OBVIOUS
  <2> QED BY <2>1 DEF KillRange, IInv, YanksIn
<1> QED BY <1>4, <1>5, <1>6 DEF IInv

\* What the four kinds of kill handlers take is part of the line.
LEMMA KillsIn ==
  ASSUME IInv, UNCHANGED phase, Kills PROVE IInv'
<1>1. data \in Seq(Chars) /\ Len(data) \in Nat /\ pos \in 0..Len(data)
  BY DEF IInv, LineIn
<1>2. CASE \E breaks \in {WordBreaks, SubwordBreaks, Spaces} : KillWordToLeft(breaks)
  <2>1. PICK breaks \in {WordBreaks, SubwordBreaks, Spaces} : KillWordToLeft(breaks)
    BY <1>2
  <2>2. WordLeft(data, pos, breaks) \in 0..pos
    BY <1>1, WordRange
  <2>3. /\ WordLeft(data, pos, breaks) \in 0..Len(data)
        /\ pos \in WordLeft(data, pos, breaks)..Len(data)
    BY <1>1, <2>2
  <2> QED BY <2>1, <2>3, KillRangeIn DEF KillWordToLeft
<1>3. CASE \E breaks \in {WordBreaks, SubwordBreaks} : KillWordToRight(breaks)
  <2>1. PICK breaks \in {WordBreaks, SubwordBreaks} : KillWordToRight(breaks)
    BY <1>3
  <2>2. /\ WordStart(data, pos, breaks) \in pos..Len(data)
        /\ WordRight(data, pos, breaks) \in WordStart(data, pos, breaks)..Len(data)
    BY <1>1, WordRange
  <2>3. WordRight(data, pos, breaks) \in pos..Len(data)
    BY <1>1, <2>2
  <2> QED BY <1>1, <2>1, <2>3, KillRangeIn DEF KillWordToRight
<1>4. CASE KillToEndOfLine
  <2>1. EndOfLine(TRUE) \in pos..Len(data)
    BY <1>1, HomeRange
  <2> QED BY <1>1, <1>4, <2>1, KillRangeIn DEF KillToEndOfLine
<1>5. CASE KillToBeginningOfLine
  <2> DEFINE home == Home(TRUE)
             from == IF pos = 0 THEN 0 ELSE home
  <2>1. home \in 0..Len(data) /\ (pos > 0 => home <= pos)
    BY <1>1, HomeRange
  <2>2. from \in 0..Len(data) /\ pos \in from..Len(data)
    <3> HIDE DEF home
    <3> QED BY <1>1, <2>1
  <2>3. KillRange(from, pos, FALSE)
    BY <1>5 DEF KillToBeginningOfLine
  <2> HIDE DEF from
  <2> QED BY <2>2, <2>3, KillRangeIn
<1> QED BY <1>2, <1>3, <1>4, <1>5 DEF Kills

\* Ctrl-Y keeps the invariant.
LEMMA YankKeyIn ==
  ASSUME IInv, UNCHANGED phase, Yank PROVE IInv'
<1>1. data \in Seq(Chars) /\ Len(data) \in Nat /\ pos \in 0..Len(data)
  BY DEF IInv, LineIn
<1>2. argYank' = FALSE /\ recalled' = recalled
  BY DEF Yank
<1>3. CASE n = 0
  <2>1. UNCHANGED <<ring, lastYankSize, taken>> /\ Becomes(data, pos, whole)
    BY <1>3 DEF Yank
  <2>2. LineIn'
    BY <1>1, <2>1, BecomesIn DEF IInv, LineIn
  <2>3. RingIn'
    BY <2>1, RingKept DEF IInv
  <2> QED BY <1>2, <2>1, <2>2, <2>3 DEF IInv, YanksIn
<1>4. CASE n # 0
  <2>1. /\ Ring!Yank /\ taken' = inserted' /\ lastYankSize' = Len(inserted')
        /\ Becomes(Inserted(data, pos, inserted'), pos + Len(inserted'), NoLine)
    BY <1>4 DEF Yank
  <2>2. RingIn' /\ inserted' \in Seq(Chars)
    BY <2>1, YankIn DEF IInv
  <2>3. Len(inserted') \in Nat
    BY <2>2
  <2>4. /\ Inserted(data, pos, inserted') \in Seq(Chars)
        /\ Len(Inserted(data, pos, inserted')) = Len(data) + Len(inserted')
    BY <1>1, <2>2, InsertedLength
  <2>5. pos + Len(inserted') \in 0..Len(Inserted(data, pos, inserted'))
    BY <1>1, <2>3, <2>4
  <2>6. LineIn'
    BY <2>1, <2>4, <2>5, BecomesIn DEF IInv
  <2>7. YanksIn'
    BY <1>2, <2>1, <2>2, <2>3 DEF YanksIn
  <2> QED BY <1>2, <2>2, <2>6, <2>7 DEF IInv
<1> QED BY <1>3, <1>4

\* Taking back what is before the cursor leaves the cursor in the line.
LEMMA TakeBackIn ==
  ASSUME LineIn, argYank' \in BOOLEAN, NEW text \in Seq(Chars), NEW size \in Nat,
         TakeBack(text, size)
  PROVE  LineIn' /\ YanksIn'
<1> DEFINE base == pos - size
           less == Erased(data, base, pos)
<1>1. data \in Seq(Chars) /\ Len(data) \in Nat /\ pos \in 0..Len(data) /\ Len(text) \in Nat
  BY DEF LineIn
<1>2. /\ base >= 0 /\ taken' = text /\ lastYankSize' = Len(text)
      /\ Becomes(Inserted(less, base, text), base + Len(text), NoLine)
  BY DEF TakeBack
<1>3. base \in 0..Len(data) /\ pos \in base..Len(data)
  BY <1>1, <1>2
<1> HIDE DEF base
<1>4. less \in Seq(Chars) /\ Len(less) = Len(data) - (pos - base)
  BY <1>1, <1>3, ErasedLength
<1> HIDE DEF less
<1>5. base \in 0..Len(less)
  BY <1>1, <1>3, <1>4
<1>6. /\ Inserted(less, base, text) \in Seq(Chars)
      /\ Len(Inserted(less, base, text)) = Len(less) + Len(text)
  BY <1>4, <1>5, InsertedLength
<1>7. base + Len(text) \in 0..Len(Inserted(less, base, text))
  BY <1>1, <1>4, <1>5, <1>6
<1>8. LineIn'
  BY <1>2, <1>6, <1>7, BecomesIn
<1>9. YanksIn'
  BY <1>1, <1>2 DEF YanksIn
<1> QED BY <1>8, <1>9

\* Meta-Y keeps the invariant.
LEMMA YankCycleIn ==
  ASSUME IInv, UNCHANGED phase, YankCycle PROVE IInv'
<1>1. data \in Seq(Chars) /\ Len(data) \in Nat /\ pos \in 0..Len(data)
  BY DEF IInv, LineIn
<1>2. argYank' = FALSE /\ recalled' = recalled
  BY DEF YankCycle
<1>3. CASE lastAction # "yank"
  <2>1. UNCHANGED <<ring, lastYankSize, taken>> /\ Becomes(data, pos, whole)
    BY <1>3 DEF YankCycle
  <2>2. LineIn'
    BY <1>1, <2>1, BecomesIn DEF IInv, LineIn
  <2>3. RingIn'
    BY <2>1, RingKept DEF IInv
  <2> QED BY <1>2, <2>1, <2>2, <2>3 DEF IInv, YanksIn
<1>4. CASE lastAction = "yank"
  <2>1. Ring!YankPop /\ TakeBack(inserted', lastYankSize)
    BY <1>4 DEF YankCycle
  <2>2. RingIn' /\ inserted' \in Seq(Chars)
    BY <2>1, YankPopIn DEF IInv
  <2>3. LineIn' /\ YanksIn'
    BY <1>2, <2>1, <2>2, TakeBackIn DEF IInv, YanksIn
  <2> QED BY <1>2, <2>2, <2>3 DEF IInv
<1> QED BY <1>3, <1>4

\* The last word of a line is a text.
LEMMA LastArgIn ==
  ASSUME NEW line \in Seq(Chars) PROVE LastArg(line) \in Seq(Chars)
<1> DEFINE to == LeftUntil(line, Len(line), Chars \ Spaces)
           from == LeftUntil(line, to, Spaces)
<1>1. Len(line) \in Nat
  OBVIOUS
<1>2. to \in 0..Len(line)
  BY <1>1, LeftUntilRange
<1>3. from \in 0..to
  <2> HIDE DEF to
  <2> QED BY <1>2, LeftUntilRange
<1>4. LastArg(line) = SubSeq(line, from + 1, to)
  BY DEF LastArg
<1> HIDE DEF from, to
<1>5. \A i \in (from + 1)..to : line[i] \in Chars
  BY <1>2, <1>3
<1> QED BY <1>2, <1>3, <1>4, <1>5, SubSeqProperties

\* Meta-. keeps the invariant.
LEMMA YankLastArgIn ==
  ASSUME IInv, UNCHANGED phase, NEW entry \in Seq(Chars), YankLastArg(entry)
  PROVE  IInv'
<1>1. LastArg(entry) \in Seq(Chars)
  BY LastArgIn
<1>2. argYank' = TRUE /\ recalled' = recalled /\ UNCHANGED ring
  BY DEF YankLastArg
<1>3. TakeBack(LastArg(entry), IF argYank THEN lastYankSize ELSE 0)
  BY DEF YankLastArg
<1>4. (IF argYank THEN lastYankSize ELSE 0) \in Nat
  BY DEF IInv, YanksIn
<1>5. LineIn' /\ YanksIn'
  <2>1. argYank' \in BOOLEAN
    BY <1>2
  <2> QED BY <1>1, <1>3, <1>4, <2>1, TakeBackIn DEF IInv
<1>6. RingIn'
  BY <1>2, RingKept DEF IInv
<1> QED BY <1>2, <1>5, <1>6 DEF IInv

-----------------------------------------------------------------------------
(* Lines from the history and from the user's code, the beginning, the end. *)

\* The two risks that are known to leave the cursor behind the line.
Plain == Risks \cap {"search_edited", "state_without_cursor"} = {}

\* A recalled line, a search and a completion keep the cursor in the line; and so
\* does set_state() that is given a cursor, however far it is.
LEMMA RecallsIn ==
  ASSUME IInv, UNCHANGED phase, Plain, Recalls PROVE IInv'
<1> USE LineAssumption
<1>1. /\ data \in Seq(Chars) /\ Len(data) \in Nat /\ pos \in 0..Len(data)
      /\ recalled \in Seq(Chars) \cup {NoLine} /\ phase' \in {"idle", "input"}
  BY DEF IInv, LineIn
<1>2. CASE \E line \in Entries \cup Others : Recall(line)
  <2>1. PICK line \in Entries \cup Others : Recall(line)
    BY <1>2
  <2>2. line \in Seq(Chars) /\ Len(line) \in 0..Len(line)
    OBVIOUS
  <2>3. recalled' \in Seq(Chars) \cup {NoLine} /\ Other(line, Len(line))
    BY <2>1, <2>2 DEF Recall
  <2> QED BY <1>1, <2>2, <2>3, OtherIn
<1>3. CASE RecallNothing
  <2>1. recalled' \in Seq(Chars) \cup {NoLine} /\ Other(data, pos)
    BY <1>1, <1>3 DEF RecallNothing
  <2> QED BY <1>1, <2>1, OtherIn
<1>4. CASE \E line \in Entries, p \in 0..MaxLen : SearchFinds(line, p)
  <2>1. PICK line \in Entries, p \in 0..MaxLen : SearchFinds(line, p)
    BY <1>4
  <2>2. line \in Seq(Chars)
    OBVIOUS
  <2>3. p \in 0..Len(line) /\ recalled' \in {line, NoLine} /\ Neutral(line, p)
    BY <2>1 DEF SearchFinds
  <2> QED BY <1>1, <2>2, <2>3, NeutralIn
<1>5. CASE SearchCancelled
  <2>1. recalled' = recalled /\ Neutral(data, pos)
    BY <1>5 DEF SearchCancelled
  <2> QED BY <1>1, <2>1, NeutralIn
<1>6. CASE SearchFails
  <2> DEFINE active == IF recalled = NoLine THEN data ELSE recalled
  <2>1. active \in Seq(Chars)
    BY <1>1
  <2>2. recalled' = recalled /\ Neutral(active, pos) /\ pos <= Len(active)
    BY <1>6 DEF SearchFails, Plain
  <2> HIDE DEF active
  <2>3. pos \in 0..Len(active)
    BY <1>1, <2>1, <2>2
  <2> QED BY <1>1, <2>1, <2>2, <2>3, NeutralIn
<1>7. CASE \E text \in Others : CompleteLine(text)
  <2>1. PICK text \in Others : CompleteLine(text)
    BY <1>7
  <2> DEFINE from == LeftUntil(data, pos, WordBreaks)
             less == Erased(data, from, pos)
  <2>2. recalled' = recalled /\ Neutral(Inserted(less, from, text), from + Len(text))
    BY <2>1 DEF CompleteLine
  <2>3. from \in 0..pos
    BY <1>1, LeftUntilRange
  <2> HIDE DEF from
  <2>4. from \in 0..Len(data) /\ pos \in from..Len(data)
    BY <1>1, <2>3
  <2>5. less \in Seq(Chars) /\ Len(less) = Len(data) - (pos - from)
    BY <1>1, <2>4, ErasedLength
  <2> HIDE DEF less
  <2>6. text \in Seq(Chars) /\ Len(text) \in Nat /\ from \in 0..Len(less)
    BY <1>1, <2>3, <2>5
  <2>7. /\ Inserted(less, from, text) \in Seq(Chars)
        /\ Len(Inserted(less, from, text)) = Len(less) + Len(text)
    BY <2>5, <2>6, InsertedLength
  <2>8. from + Len(text) \in 0..Len(Inserted(less, from, text))
    BY <1>1, <2>3, <2>5, <2>6, <2>7
  <2> QED BY <1>1, <2>2, <2>7, <2>8, NeutralIn
<1>8. CASE \E line \in Others, p \in -1..MaxLen : SetState(line, p)
  <2>1. PICK line \in Others, p \in -1..MaxLen : SetState(line, p)
    BY <1>8
  <2>2. line \in Seq(Chars) /\ Len(line) \in Nat
    OBVIOUS
  <2>3. /\ data' = line /\ pos' = IF p >= 0 THEN Smaller(p, Len(line)) ELSE pos
        /\ p >= 0 \/ pos <= Len(line)
        /\ whole' = NoLine /\ Drawn(line) /\ UNCHANGED <<recalled, yanks, ring>>
    BY <2>1 DEF SetState, Plain
  <2>4. pos' \in 0..Len(line)
    BY <1>1, <2>2, <2>3 DEF Smaller
  <2>5. LineIn'
    <3>1. hasNewlines' \in BOOLEAN
      BY <2>3 DEF Drawn, IInv, LineIn
    <3> QED BY <2>2, <2>3, <2>4, <3>1 DEF LineIn
  <2>6. RingIn'
    BY <2>3, RingKept DEF IInv
  <2> QED BY <1>1, <2>3, <2>5, <2>6 DEF IInv, YanksIn, yanks
<1> QED BY <1>2, <1>3, <1>4, <1>5, <1>6, <1>7, <1>8 DEF Recalls

\* A new input() starts with the cursor at the end of the preloaded text.
LEMMA StartIn ==
  ASSUME IInv, NEW line \in Others \cup {<<>>}, Start(line) PROVE IInv'
<1>1. line \in Seq(Chars) /\ Len(line) \in 0..Len(line) /\ <<>> \in Seq(Chars)
  <2>1. <<>> \in Seq(Chars)
    BY EmptySeq
  <2>2. line \in Seq(Chars)
    BY <2>1, LineAssumption
  <2>3. Len(line) \in Nat
    BY <2>2, LenProperties
  <2> QED BY <2>1, <2>2, <2>3
<1>2. /\ data' = line /\ pos' = Len(line) /\ whole' = NoLine /\ recalled' = NoLine
      /\ phase' = "input"
  BY DEF Start
<1>3. hasNewlines' \in BOOLEAN
  BY DEF Start, Drawn, IInv, LineIn
<1>4. LineIn'
  BY <1>1, <1>2, <1>3 DEF LineIn
<1>5. RingIn'
  BY KeyIn DEF Start, IInv
<1>6. YanksIn'
  BY <1>1 DEF Start, IInv, YanksIn
<1> QED BY <1>2, <1>4, <1>5, <1>6 DEF IInv

\* The invariant holds before the first input().
LEMMA InitIn == ASSUME Init PROVE IInv
<1>1. <<>> \in Seq(Chars) /\ Len(<<>>) = 0
  BY EmptySeq
<1>2. LineIn /\ YanksIn
  <2>1. data \in Seq(Chars) /\ taken \in Seq(Chars) /\ Len(data) = 0
    BY <1>1 DEF Init
  <2>2. pos = 0 /\ hasNewlines = FALSE /\ argYank = FALSE /\ lastYankSize = 0 /\ whole = NoLine
    BY DEF Init
  <2>3. pos \in 0..Len(data)
    BY <2>1, <2>2
  <2>4. LineIn
    BY <2>1, <2>2, <2>3 DEF LineIn
  <2> QED BY <2>1, <2>2, <2>4 DEF YanksIn
<1>3. RingIn
  BY LineAssumption DEF Init, Ring!Init, RingIn
<1> QED BY <1>2, <1>3 DEF Init, IInv

\* What is done to the line in one call of a handler keeps the invariant.
LEMMA NextIn == ASSUME IInv, Plain, [Next]_vars PROVE IInv'
<1> USE LineAssumption
<1>1. CASE \E line \in Others \cup {<<>>} : Start(line)
  BY <1>1, StartIn
<1>2. CASE Finish
  <2>1. Len(data) \in 0..Len(data) /\ data \in Seq(Chars)
    BY DEF IInv, LineIn
  <2> QED BY <1>2, <2>1, OtherIn DEF Finish
<1>3. CASE UNCHANGED phase /\ Edits
  <2>1. CASE \E c \in Chars, overwrite \in BOOLEAN : InsertCharacter(c, overwrite)
    BY <1>3, <2>1, InsertCharacterIn
  <2>2. CASE \E text \in Others : InsertText(text)
    BY <1>3, <2>2, InsertTextIn
  <2>3. CASE \E breaks \in {WordBreaks, SubwordBreaks} :
               \/ ChangeCase(Upper, Lower, breaks)
               \/ ChangeCase(Lower, Lower, breaks) \/ ChangeCase(Upper, Upper, breaks)
    BY <1>3, <2>3, ChangeCaseIn
  <2> QED BY <1>3, <2>1, <2>2, <2>3, DeleteIn, SendEofIn, BackspaceIn, MoveCursorIn,
             TransposeIn DEF Edits
<1>4. CASE UNCHANGED phase /\ Kills
  BY <1>4, KillsIn
<1>5. CASE UNCHANGED phase /\ Yanks
  BY <1>5, YankKeyIn, YankCycleIn, YankLastArgIn DEF Yanks
<1>6. CASE UNCHANGED phase /\ Recalls
  BY <1>6, RecallsIn
<1>7. CASE UNCHANGED phase /\ OtherKey
  BY <1>7, NeutralIn DEF OtherKey, IInv, LineIn
<1>8. CASE UNCHANGED vars
  BY <1>8 DEF vars, yanks, ring, IInv, LineIn, RingIn, YanksIn
<1> QED BY <1>1, <1>2, <1>3, <1>4, <1>5, <1>6, <1>7, <1>8 DEF Next

\* The inductive invariant holds in plain use.
LEMMA AlwaysIn == ASSUME Plain PROVE Spec => []IInv
<1>1. Init => IInv
  BY InitIn
<1>2. IInv /\ [Next]_vars => IInv'
  BY NextIn
<1> QED BY <1>1, <1>2, PTL DEF Spec

\* In plain use the cursor is in the line, after any sequence of handlers, for
\* every size of the ring and whatever the modify callback puts in place.  "Plain"
\* leaves out two of the risks: what an incremental search does that finds nothing
\* in an edited line, which a run shows to break this, and set_state() without a
\* cursor.
THEOREM CursorInLine == ASSUME Plain PROVE Spec => []PosInLine
<1>1. IInv => PosInLine
  BY IInvIs
<1> QED BY <1>1, AlwaysIn, PTL

\* Every variable keeps its type: no handler reads outside of the line or of the
\* kill ring in plain use.
THEOREM Typing == ASSUME Plain PROVE Spec => []TypeOK
<1>1. IInv => TypeOK
  BY IInvIs
<1> QED BY <1>1, AlwaysIn, PTL

-----------------------------------------------------------------------------
(* Kills, and the line that a yank after them gives back.                   *)

\* A line that is whole was put together by kills that left their text, all of
\* it, at the front of the ring with the cursor on it.
WholeIs ==
  whole # NoLine =>
    /\ lastAction = "kill" /\ n > 0 /\ cursor = 1
    /\ Inserted(data, pos, recent[1]) = whole

\* A kill handler that takes the text on one side of the cursor.
LEMMA KillRangeWhole ==
  ASSUME IInv, WholeIs, NEW from \in 0..Len(data), NEW to \in from..Len(data),
         NEW forward \in BOOLEAN, KillRange(from, to, forward),
         IF forward THEN from = pos ELSE to = pos
  PROVE  WholeIs'
<1> DEFINE text == SubSeq(data, from + 1, to)
           less == Erased(data, from, to)
           u == IF lastAction = "kill" THEN whole ELSE IF from = to THEN NoLine ELSE data
<1>1. data \in Seq(Chars) /\ n \in Nat /\ recent \in [1..n -> Seq(Chars)]
  BY LineAssumption DEF IInv, LineIn, RingIn
<1>2. lastAction' = "kill"
  BY DEF KillRange, Ring!Key, Ring!Kill
<1>3. CASE whole' = NoLine
  BY <1>3 DEF WholeIs
<1>4. CASE data' = less /\ pos' = from /\ whole' = u
  <2>1. CASE from = to
    <3>1. UNCHANGED <<recent, n, cursor>>
      BY <2>1 DEF KillRange, Ring!Key
    <3>2. less = data /\ from = pos
      BY <1>1, <2>1, TwoCut
    <3>3. CASE lastAction = "kill"
      BY <1>2, <1>4, <3>1, <3>2, <3>3 DEF WholeIs
    <3>4. CASE lastAction # "kill"
      BY <1>4, <2>1, <3>4 DEF WholeIs
    <3> QED BY <3>3, <3>4
  <2>2. CASE from # to /\ lastAction = "kill" /\ n > 0
    <3>1. Ring!Kill(text, forward)
      BY <2>2 DEF KillRange
    <3>2. /\ recent' = [recent EXCEPT ![1] = Ring!Joined(recent[1], text, forward)]
          /\ n' = n /\ cursor' = cursor
      BY <2>2, <3>1 DEF Ring!Kill
    <3>3. recent[1] \in Seq(Chars) /\ recent'[1] = Ring!Joined(recent[1], text, forward)
      BY <1>1, <2>2, <3>2
    <3>4. /\ Inserted(less, from, recent[1] \o text) = Inserted(data, from, recent[1])
          /\ Inserted(less, from, text \o recent[1]) = Inserted(data, to, recent[1])
      BY <1>1, <3>3, JoinedBack
    <3>5. Inserted(less, from, recent'[1]) = Inserted(data, pos, recent[1])
      BY <3>3, <3>4 DEF Ring!Joined
    <3> HIDE DEF text, less
    <3> QED BY <1>2, <1>4, <2>2, <3>2, <3>5 DEF WholeIs
  <2>3. CASE from # to /\ lastAction = "kill" /\ ~(n > 0)
    BY <1>4, <2>3 DEF WholeIs
  <2>4. CASE from # to /\ lastAction # "kill"
    <3>1. Ring!Kill(text, forward)
      BY <2>4 DEF KillRange
    <3>2. /\ n' = IF n < Capacity THEN n + 1 ELSE n
          /\ recent' = [i \in 1..n' |-> IF i = 1 THEN text ELSE recent[i - 1]]
          /\ cursor' = 1
      BY <2>4, <3>1 DEF Ring!Kill
    <3>3. n' > 0 /\ n' \in Nat
      BY <1>1, <3>2, LineAssumption
    <3>4. recent'[1] = text
      BY <3>2, <3>3
    <3>5. Inserted(less, from, text) = data
      BY <1>1, ErasedBack
    <3>6. whole' = data
      BY <1>4, <2>4
    <3> HIDE DEF text, less
    <3> QED BY <1>2, <1>4, <3>2, <3>3, <3>4, <3>5, <3>6 DEF WholeIs
  <2> QED BY <2>1, <2>2, <2>3, <2>4
<1> QED BY <1>3, <1>4 DEF KillRange, Becomes

\* The four kinds of kill handlers, each on its side of the cursor.
LEMMA KillsWhole ==
  ASSUME IInv, WholeIs, Kills PROVE WholeIs'
<1>1. data \in Seq(Chars) /\ Len(data) \in Nat /\ pos \in 0..Len(data)
  BY DEF IInv, LineIn
<1>2. CASE \E breaks \in {WordBreaks, SubwordBreaks, Spaces} : KillWordToLeft(breaks)
  <2>1. PICK breaks \in {WordBreaks, SubwordBreaks, Spaces} : KillWordToLeft(breaks)
    BY <1>2
  <2>2. WordLeft(data, pos, breaks) \in 0..pos
    BY <1>1, WordRange
  <2>3. /\ WordLeft(data, pos, breaks) \in 0..Len(data)
        /\ pos \in WordLeft(data, pos, breaks)..Len(data)
    BY <1>1, <2>2
  <2> QED BY <2>1, <2>3, KillRangeWhole DEF KillWordToLeft
<1>3. CASE \E breaks \in {WordBreaks, SubwordBreaks} : KillWordToRight(breaks)
  <2>1. PICK breaks \in {WordBreaks, SubwordBreaks} : KillWordToRight(breaks)
    BY <1>3
  <2>2. /\ WordStart(data, pos, breaks) \in pos..Len(data)
        /\ WordRight(data, pos, breaks) \in WordStart(data, pos, breaks)..Len(data)
    BY <1>1, WordRange
  <2>3. WordRight(data, pos, breaks) \in pos..Len(data)
    BY <1>1, <2>2
  <2> QED BY <1>1, <2>1, <2>3, KillRangeWhole DEF KillWordToRight
<1>4. CASE KillToEndOfLine
  <2>1. EndOfLine(TRUE) \in pos..Len(data)
    BY <1>1, HomeRange
  <2> QED BY <1>1, <1>4, <2>1, KillRangeWhole DEF KillToEndOfLine
<1>5. CASE KillToBeginningOfLine
  <2> DEFINE home == Home(TRUE)
             from == IF pos = 0 THEN 0 ELSE home
  <2>1. home \in 0..Len(data) /\ (pos > 0 => home <= pos)
    BY <1>1, HomeRange
  <2>2. from \in 0..Len(data) /\ pos \in from..Len(data)
    <3> HIDE DEF home
    <3> QED BY <1>1, <2>1
  <2>3. KillRange(from, pos, FALSE)
    BY <1>5 DEF KillToBeginningOfLine
  <2> HIDE DEF from
  <2> QED BY <2>2, <2>3, KillRangeWhole
<1> QED BY <1>2, <1>3, <1>4, <1>5 DEF Kills

\* The handlers that reset lastAction, and those that leave it but change the
\* line, end what the kills began.
LEMMA OtherWhole ==
  ASSUME NEW d, NEW p, Other(d, p) PROVE WholeIs'
BY DEF Other, Becomes, WholeIs

\* A handler that leaves lastAction alone keeps the line whole only where it is.
LEMMA NeutralWhole ==
  ASSUME WholeIs, NEW d, NEW p, Neutral(d, p) PROVE WholeIs'
<1>1. UNCHANGED <<recent, n, cursor, lastAction>>
  BY DEF Neutral, ring
<1>2. CASE whole' = NoLine
  BY <1>2 DEF WholeIs
<1>3. CASE data' = d /\ pos' = p /\ whole' = IF d = data /\ p = pos THEN whole ELSE NoLine
  BY <1>1, <1>3 DEF WholeIs
<1> QED BY <1>2, <1>3 DEF Neutral, Becomes

\* Ctrl-Y, meta-Y and meta-. keep a line whole only when they beep.
LEMMA YanksWhole ==
  ASSUME WholeIs, Yanks PROVE WholeIs'
<1>1. ASSUME UNCHANGED ring, Becomes(data, pos, whole) PROVE WholeIs'
  BY <1>1 DEF Becomes, WholeIs, ring
<1>2. ASSUME NEW text, NEW size, TakeBack(text, size) PROVE WholeIs'
  BY <1>2 DEF TakeBack, Becomes, WholeIs
<1>3. CASE Yank
  BY <1>1, <1>3 DEF Yank, Becomes, WholeIs
<1>4. CASE YankCycle
  BY <1>1, <1>2, <1>4 DEF YankCycle
<1>5. CASE \E entry \in Entries : YankLastArg(entry)
  BY <1>2, <1>5 DEF YankLastArg
<1> QED BY <1>3, <1>4, <1>5 DEF Yanks

\* Every step keeps it.
LEMMA NextWhole == ASSUME IInv, WholeIs, [Next]_vars PROVE WholeIs'
<1>1. CASE \E line \in Others \cup {<<>>} : Start(line)
  BY <1>1 DEF Start, WholeIs
<1>2. CASE Finish
  BY <1>2, OtherWhole DEF Finish
<1>3. CASE Edits
  BY <1>3, OtherWhole, NeutralWhole
     DEF Edits, InsertCharacter, InsertText, DeleteCharacter, SendEof,
         BackspaceCharacter, MoveCursor, TransposeCharacters, ChangeCase
<1>4. CASE Kills
  BY <1>4, KillsWhole
<1>5. CASE Yanks
  BY <1>5, YanksWhole
<1>6. CASE Recalls
  <2>1. CASE \E line \in Others, p \in -1..MaxLen : SetState(line, p)
    BY <2>1 DEF SetState, WholeIs
  <2> QED BY <1>6, <2>1, OtherWhole, NeutralWhole
          DEF Recalls, Recall, RecallNothing, SearchFinds, SearchCancelled, SearchFails,
              CompleteLine
<1>7. CASE OtherKey
  BY <1>7, NeutralWhole DEF OtherKey
<1>8. CASE UNCHANGED vars
  BY <1>8 DEF vars, ring, WholeIs
<1> QED BY <1>1, <1>2, <1>3, <1>4, <1>5, <1>6, <1>7, <1>8 DEF Next

\* After any number of kills in either direction, also some that found nothing to
\* kill, ctrl-Y gives back the line as it was before the first of them, for every
\* line and every size of the ring.
THEOREM KillsAreGivenBack == ASSUME Plain PROVE Spec => []YankRestores
<1>1. Init => WholeIs
  BY DEF Init, WholeIs
<1>2. IInv /\ WholeIs /\ [Next]_vars => WholeIs'
  BY NextWhole
<1>3. WholeIs => YankRestores
  BY DEF WholeIs, YankRestores
<1> QED BY <1>1, <1>2, <1>3, AlwaysIn, PTL DEF Spec

-----------------------------------------------------------------------------
(* Yanks, and what the next meta-Y or meta-. takes back.                    *)

\* Nothing but the handlers changes the line between a yank and the key that
\* takes it back.
Undisturbed == Plain /\ "change_after_yank" \notin Risks

\* Keys after which there is nothing to take back.
LEMMA NothingYanked ==
  ASSUME lastAction' # "yank", argYank' = FALSE PROVE YankedIsThere'
BY DEF YankedIsThere

\* Keys that reset lastAction are among them.
LEMMA OtherYanked ==
  ASSUME NEW d, NEW p, Other(d, p) PROVE YankedIsThere'
BY NothingYanked DEF Other, Ring!Key

\* A yanked text stays before the cursor if all before the cursor stays.
LEMMA StaysThere ==
  ASSUME IInv, YankedIsThere, Undisturbed, phase = "input", argYank' = FALSE,
         UNCHANGED <<ring, lastYankSize, taken>>,
         NEW d \in Seq(Chars), NEW p, NEW u, Becomes(d, p, u),
         lastAction = "yank" =>
           p = pos /\ \A j \in 1..(pos + 1) : SubSeq(d, j, pos) = SubSeq(data, j, pos)
  PROVE  YankedIsThere'
<1>1. lastAction' = lastAction /\ lastYankSize' = lastYankSize /\ taken' = taken
  BY DEF ring
<1>2. CASE lastAction # "yank"
  BY <1>1, <1>2, NothingYanked
<1>3. CASE lastAction = "yank"
  <2>1. data' = d /\ pos' = p /\ p = pos
    BY <1>1, <1>3 DEF Becomes, Undisturbed
  <2>2. lastYankSize <= pos /\ SubSeq(data, pos - lastYankSize + 1, pos) = taken
    BY <1>3 DEF YankedIsThere
  <2>3. lastYankSize \in Nat /\ pos \in Nat
    BY DEF IInv, YanksIn, LineIn
  <2>4. pos - lastYankSize + 1 \in 1..(pos + 1)
    BY <2>2, <2>3
  <2>5. SubSeq(d, pos - lastYankSize + 1, pos) = taken
    BY <1>3, <2>2, <2>4
  <2> QED BY <1>1, <2>1, <2>2, <2>5 DEF YankedIsThere
<1> QED BY <1>2, <1>3

\* Handlers that leave lastAction alone, when they change the line only in front
\* of nothing that was yanked.
LEMMA NeutralYanked ==
  ASSUME IInv, YankedIsThere, Undisturbed, phase = "input",
         NEW d \in Seq(Chars), NEW p, Neutral(d, p),
         lastAction = "yank" =>
           p = pos /\ \A j \in 1..(pos + 1) : SubSeq(d, j, pos) = SubSeq(data, j, pos)
  PROVE  YankedIsThere'
<1> DEFINE u == IF d = data /\ p = pos THEN whole ELSE NoLine
<1>1. UNCHANGED <<ring, lastYankSize, taken>> /\ argYank' = FALSE /\ Becomes(d, p, u)
  BY DEF Neutral
<1> HIDE DEF u
<1> QED BY <1>1, StaysThere

\* The size that is remembered is the length of the text that is there.
LEMMA YankedLength ==
  ASSUME IInv, YankedIsThere, phase = "input", lastAction = "yank" \/ argYank
  PROVE  Len(taken) = lastYankSize /\ lastYankSize \in 0..pos
<1>1. /\ data \in Seq(Chars) /\ Len(data) \in Nat /\ pos \in 0..Len(data)
      /\ lastYankSize \in Nat
  BY DEF IInv, LineIn, YanksIn
<1>2. lastYankSize <= pos /\ SubSeq(data, pos - lastYankSize + 1, pos) = taken
  BY DEF YankedIsThere
<1>3. PICK m \in Int : m = pos - lastYankSize + 1
  BY <1>1
<1>4. \A i \in m..pos : data[i] \in Chars
  BY <1>1, <1>2, <1>3
<1>5. Len(SubSeq(data, m, pos)) = IF m <= pos THEN pos - m + 1 ELSE 0
  BY <1>1, <1>4, <1>3, SubSeqProperties
<1> QED BY <1>1, <1>2, <1>3, <1>5

\* What a yank puts in place stands before the cursor, and taking it back would
\* give what was there before, or what is left when the text before it goes.
LEMMA TakeBackYanked ==
  ASSUME LineIn, Undisturbed, lastAction' = "yank" \/ argYank',
         NEW text \in Seq(Chars), NEW size \in Nat, TakeBack(text, size)
  PROVE  /\ YankedIsThere'
         /\ Erased(data', pos' - Len(taken'), pos') = Erased(data, pos - size, pos)
<1> DEFINE base == pos - size
           less == Erased(data, base, pos)
<1>1. data \in Seq(Chars) /\ Len(data) \in Nat /\ pos \in 0..Len(data) /\ Len(text) \in Nat
  BY DEF LineIn
<1>2. /\ base >= 0 /\ taken' = text /\ lastYankSize' = Len(text)
      /\ data' = Inserted(less, base, text) /\ pos' = base + Len(text)
  BY DEF TakeBack, Becomes, Undisturbed
<1>3. base \in 0..Len(data) /\ pos \in base..Len(data)
  BY <1>1, <1>2
<1>4. less = Erased(data, pos - size, pos)
  OBVIOUS
<1> HIDE DEF base
<1>5. less \in Seq(Chars) /\ Len(less) = Len(data) - (pos - base)
  BY <1>1, <1>3, ErasedLength
<1> HIDE DEF less
<1>6. base \in 0..Len(less)
  BY <1>1, <1>3, <1>5
<1>7. /\ Erased(Inserted(less, base, text), base, base + Len(text)) = less
      /\ SubSeq(Inserted(less, base, text), base + 1, base + Len(text)) = text
  BY <1>5, <1>6, InsertedThere
<1>8. pos' - Len(taken') = base /\ lastYankSize' <= pos' /\ pos' - lastYankSize' + 1 = base + 1
  BY <1>1, <1>2, <1>6
<1> QED BY <1>2, <1>4, <1>7, <1>8 DEF YankedIsThere

\* Ctrl-Y of a text of the ring takes nothing away.
LEMMA YankKeyYanked ==
  ASSUME IInv, Undisturbed, n # 0, Yank
  PROVE  /\ YankedIsThere'
         /\ Erased(data', pos' - Len(taken'), pos') = data
<1>1. data \in Seq(Chars) /\ Len(data) \in Nat /\ pos \in 0..Len(data)
  BY DEF IInv, LineIn
<1>2. /\ Ring!Yank /\ taken' = inserted' /\ lastYankSize' = Len(inserted')
      /\ Becomes(Inserted(data, pos, inserted'), pos + Len(inserted'), NoLine)
  BY DEF Yank
<1>3. inserted' \in Seq(Chars)
  BY <1>2, YankIn DEF IInv
<1>4. PICK text \in Seq(Chars) : text = inserted'
  BY <1>3
<1>5. data' = Inserted(data, pos, text) /\ pos' = pos + Len(text)
  BY <1>2, <1>4 DEF Becomes, Undisturbed, Ring!Yank
<1>6. /\ Erased(Inserted(data, pos, text), pos, pos + Len(text)) = data
      /\ SubSeq(Inserted(data, pos, text), pos + 1, pos + Len(text)) = text
  BY <1>1, InsertedThere
<1>7. Len(text) \in Nat /\ taken' = text /\ lastYankSize' = Len(text)
  BY <1>2, <1>4
<1>8. /\ pos' - Len(taken') = pos /\ lastYankSize' <= pos'
      /\ pos' - lastYankSize' + 1 = pos + 1
  BY <1>1, <1>5, <1>7
<1> QED BY <1>5, <1>6, <1>7, <1>8 DEF YankedIsThere

\* Meta-Y after a yank takes back the text of that yank, no more and no less.
LEMMA YankCycleYanked ==
  ASSUME IInv, YankedIsThere, Undisturbed, phase = "input", lastAction = "yank", YankCycle
  PROVE  /\ YankedIsThere'
         /\ Erased(data', pos' - Len(taken'), pos') = Erased(data, pos - Len(taken), pos)
<1>1. Ring!YankPop /\ TakeBack(inserted', lastYankSize)
  BY DEF YankCycle
<1>2. inserted' \in Seq(Chars) /\ lastAction' = "yank"
  BY <1>1, YankPopIn DEF IInv, Ring!YankPop
<1>3. Len(taken) = lastYankSize /\ lastYankSize \in Nat
  BY YankedLength
<1>4. PICK size \in Nat : size = lastYankSize
  BY <1>3
<1>5. PICK text \in Seq(Chars) : text = inserted'
  BY <1>2
<1>6. TakeBack(text, size)
  BY <1>1, <1>4, <1>5
<1> QED BY <1>2, <1>3, <1>4, <1>6, TakeBackYanked DEF IInv

\* Meta-. takes back the word of the meta-. before it, or nothing.
LEMMA YankLastArgYanked ==
  ASSUME IInv, YankedIsThere, Undisturbed, phase = "input",
         NEW entry \in Seq(Chars), YankLastArg(entry)
  PROVE  /\ YankedIsThere'
         /\ Erased(data', pos' - Len(taken'), pos')
              \in {data, Erased(data, pos - Len(taken), pos)}
<1>1. argYank' = TRUE /\ LastArg(entry) \in Seq(Chars)
  BY LastArgIn DEF YankLastArg
<1>2. PICK text \in Seq(Chars) : text = LastArg(entry)
  BY <1>1
<1>3. CASE argYank
  <2>1. Len(taken) = lastYankSize /\ lastYankSize \in Nat
    BY <1>3, YankedLength
  <2>2. PICK size \in Nat : size = lastYankSize
    BY <2>1
  <2>3. TakeBack(text, size)
    BY <1>2, <1>3, <2>2 DEF YankLastArg
  <2> QED BY <1>1, <2>1, <2>2, <2>3, TakeBackYanked DEF IInv
<1>4. CASE ~argYank
  <2>1. TakeBack(text, 0)
    BY <1>2, <1>4 DEF YankLastArg
  <2>2. YankedIsThere' /\ Erased(data', pos' - Len(taken'), pos') = Erased(data, pos - 0, pos)
    BY <1>1, <2>1, TakeBackYanked DEF IInv
  <2>3. data \in Seq(Chars) /\ pos \in 0..Len(data)
    BY DEF IInv, LineIn
  <2>4. Erased(data, pos - 0, pos) = data
    BY <2>3, TwoCut
  <2> QED BY <2>2, <2>4
<1> QED BY <1>3, <1>4

\* The three keys together.
LEMMA YanksYanked ==
  ASSUME IInv, YankedIsThere, Undisturbed, phase = "input", Yanks
  PROVE  /\ YankedIsThere'
         /\ lastAction' = "yank" \/ argYank' =>
              Erased(data', pos' - Len(taken'), pos')
                \in {data, Erased(data, pos - Len(taken), pos)}
<1> USE LineAssumption
<1>1. CASE Yank /\ n = 0
  <2>1. /\ UNCHANGED <<ring, lastYankSize, taken>> /\ Becomes(data, pos, whole)
        /\ argYank' = FALSE
    BY <1>1 DEF Yank
  <2>2. YankedIsThere'
    BY <2>1, StaysThere DEF IInv, LineIn
  <2>3. lastAction' = "yank" => data' = data /\ pos' = pos /\ taken' = taken
    BY <2>1 DEF Becomes, Undisturbed
  <2> QED BY <2>1, <2>2, <2>3
<1>2. CASE Yank /\ n # 0
  BY <1>2, YankKeyYanked
<1>3. CASE YankCycle /\ lastAction # "yank"
  <2>1. lastAction' # "yank" /\ argYank' = FALSE
    BY <1>3 DEF YankCycle, ring
  <2> QED BY <2>1, NothingYanked
<1>4. CASE YankCycle /\ lastAction = "yank"
  BY <1>4, YankCycleYanked
<1>5. CASE \E entry \in Entries : YankLastArg(entry)
  BY <1>5, YankLastArgYanked
<1> QED BY <1>1, <1>2, <1>3, <1>4, <1>5 DEF Yanks

\* Every step leaves the yanked text where the next key looks for it.
LEMMA NextYanked ==
  ASSUME IInv, YankedIsThere, Undisturbed, [Next]_vars PROVE YankedIsThere'
<1>1. CASE \E line \in Others \cup {<<>>} : Start(line)
  BY <1>1, NothingYanked DEF Start, Ring!Key
<1>2. CASE Finish
  BY <1>2, OtherYanked DEF Finish
<1>3. CASE phase = "input" /\ Edits
  <2>1. CASE SendEof
    <3> DEFINE e == IF pos < Len(data) THEN Erased(data, pos, pos + 1) ELSE data
    <3>1. data \in Seq(Chars) /\ Len(data) \in Nat /\ pos \in 0..Len(data)
      BY DEF IInv, LineIn
    <3>2. e \in Seq(Chars) /\ pos \in 0..Len(e)
      BY <3>1, WithoutCharacter
    <3>3. Neutral(e, pos)
      BY <2>1 DEF SendEof
    <3>4. \A j \in 1..(pos + 1) : SubSeq(e, j, pos) = SubSeq(data, j, pos)
      <4>1. CASE pos < Len(data)
        <5>1. pos + 1 \in pos..Len(data)
          BY <3>1, <4>1
        <5>2. \A j \in 1..(pos + 1) :
                SubSeq(Erased(data, pos, pos + 1), j, pos) = SubSeq(data, j, pos)
          BY <3>1, <5>1, ErasedAfter
        <5> QED BY <4>1, <5>2
      <4>2. CASE ~(pos < Len(data))
        BY <4>2
      <4> QED BY <4>1, <4>2
    <3> HIDE DEF e
    <3> QED BY <1>3, <3>2, <3>3, <3>4, NeutralYanked
  <2> QED BY <1>3, <2>1, OtherYanked
          DEF Edits, InsertCharacter, InsertText, DeleteCharacter,
              BackspaceCharacter, MoveCursor, TransposeCharacters, ChangeCase
<1>4. CASE Kills
  <2>1. lastAction' = "kill" /\ argYank' = FALSE
    BY <1>4 DEF Kills, KillWordToLeft, KillWordToRight, KillToEndOfLine,
                KillToBeginningOfLine, KillRange, Ring!Key, Ring!Kill
  <2> QED BY <2>1, NothingYanked
<1>5. CASE phase = "input" /\ Yanks
  BY <1>5, YanksYanked
<1>6. CASE phase = "input" /\ Recalls
  <2>1. CASE SearchCancelled
    BY <1>6, <2>1, NeutralYanked DEF SearchCancelled, IInv, LineIn
  <2>2. CASE MayChange /\ \E d, p : Neutral(d, p)
    <3>1. lastAction' # "yank" /\ argYank' = FALSE
      BY <2>2 DEF MayChange, Undisturbed, Neutral, ring
    <3> QED BY <3>1, NothingYanked
  <2>3. CASE \E line \in Others, p \in -1..MaxLen : SetState(line, p)
    <3>1. lastAction' # "yank" /\ argYank' = FALSE
      BY <2>3 DEF SetState, MayChange, Undisturbed, IInv, YanksIn, ring, yanks
    <3> QED BY <3>1, NothingYanked
  <2> QED BY <1>6, <2>1, <2>2, <2>3, OtherYanked
          DEF Recalls, Recall, RecallNothing, SearchFinds, SearchFails, CompleteLine
<1>7. CASE phase = "input" /\ OtherKey
  BY <1>7, NeutralYanked DEF OtherKey, IInv, LineIn
<1>8. CASE UNCHANGED vars
  BY <1>8 DEF vars, yanks, ring, YankedIsThere
<1> QED BY <1>1, <1>2, <1>3, <1>4, <1>5, <1>6, <1>7, <1>8 DEF Next

\* Before the first input() there is nothing to take back.
LEMMA InitYanked == ASSUME Init PROVE YankedIsThere
BY DEF Init, YankedIsThere

\* Wherever the cursor went between a yank and the meta-Y or meta-. that follows it,
\* what is before the cursor then is the yanked text: the kind of the last key and
\* _lastYankSize never fall out of step with the line.
\* "Undisturbed" leaves out a search, a completion or a callback that changes the
\* line in between, which nothing in the code prevents.
THEOREM YankedStays == ASSUME Undisturbed PROVE Spec => []YankedIsThere
<1>1. Plain
  BY DEF Undisturbed
<1>2. Spec => []IInv
  BY <1>1, AlwaysIn
<1>3. Init => YankedIsThere
  BY InitYanked
<1>4. IInv /\ YankedIsThere /\ [Next]_vars => YankedIsThere'
  BY NextYanked
<1> QED BY <1>2, <1>3, <1>4, PTL DEF Spec

\* A yank key takes nothing from the line but what the one just before put there.
THEOREM NothingElseGoes == ASSUME Undisturbed PROVE Spec => OnlyYankedGoes
<1>1. Plain
  BY DEF Undisturbed
<1>2. Spec => []IInv
  BY <1>1, AlwaysIn
<1>3. Spec => []YankedIsThere
  BY YankedStays
<1>4. IInv /\ YankedIsThere /\ [Next]_vars =>
        [Yanks /\ (lastAction' = "yank" \/ argYank') =>
           Erased(data', pos' - Len(taken'), pos')
             \in {data, Erased(data, pos - Len(taken), pos)}]_vars
  <2> SUFFICES ASSUME IInv, YankedIsThere, Next, Yanks, lastAction' = "yank" \/ argYank'
               PROVE  Erased(data', pos' - Len(taken'), pos')
                        \in {data, Erased(data, pos - Len(taken), pos)}
    BY DEF vars
  <2>1. phase = "input"
    BY DEF Next, Start, Finish, Ring!Key
  <2> QED BY <2>1, YanksYanked
<1> QED BY <1>2, <1>3, <1>4, PTL DEF Spec, OnlyYankedGoes

-----------------------------------------------------------------------------
(* Rows.  The row of a position is known by the newlines above it.           *)

Above(d, p) == {i \in NewlinesAt(d) : i < p}
Ahead(d, p) == {i \in NewlinesAt(d) : i >= p}
RowStart(d, p) == IF Above(d, p) = {} THEN 0 ELSE Max(Above(d, p)) + 1
RowEnd(d, p) == IF Ahead(d, p) = {} THEN Len(d) ELSE Min(Ahead(d, p))
Shift(d, p) == IF Above(d, p) = {} /\ ~IndentMultiline THEN Indentation ELSE 0

\* A greatest element is the Max.
LEMMA MaxOf ==
  ASSUME NEW S, S \subseteq Int, NEW m \in S, \A x \in S : x <= m
  PROVE  Max(S) = m
<1>1. Max(S) \in S /\ \A x \in S : Max(S) >= x
  BY MaxIsGreatest
<1>2. PICK k \in S : k = Max(S) /\ k >= m
  BY <1>1
<1>3. k <= m /\ k \in Int /\ m \in Int
  OBVIOUS
<1> QED BY <1>2, <1>3

\* A least element is the Min.
LEMMA MinOf ==
  ASSUME NEW S, S \subseteq Int, NEW m \in S, \A x \in S : x >= m
  PROVE  Min(S) = m
<1>1. Min(S) \in S /\ \A x \in S : Min(S) <= x
  BY MinIsLeast
<1>2. PICK k \in S : k = Min(S) /\ k <= m
  BY <1>1
<1>3. k >= m /\ k \in Int /\ m \in Int
  OBVIOUS
<1> QED BY <1>2, <1>3

\* The newlines of a line are finitely many positions in it.
LEMMA Newlines ==
  ASSUME NEW d \in Seq(Chars)
  PROVE  /\ Len(d) \in Nat /\ NewlinesAt(d) \subseteq Int
         /\ \A i \in NewlinesAt(d) : 0 <= i /\ i < Len(d)
         /\ IsFiniteSet(NewlinesAt(d))
<1>1. Len(d) \in Nat /\ NewlinesAt(d) \subseteq 0..(Len(d) - 1)
  BY DEF NewlinesAt
<1>2. IsFiniteSet(0..(Len(d) - 1))
  <2>1. PICK l \in Int : l = Len(d) - 1
    BY <1>1
  <2> QED BY <2>1, FS_Interval
<1>3. IsFiniteSet(NewlinesAt(d))
  BY <1>1, <1>2, FS_Subset
<1> QED BY <1>1, <1>3

\* Where the row of a position begins.
LEMMA StartIs ==
  ASSUME NEW d \in Seq(Chars), NEW p \in Nat
  PROVE  /\ RowStart(d, p) \in 0..p
         /\ \A i \in NewlinesAt(d) : i < p => i < RowStart(d, p)
         /\ RowStart(d, p) > 0 =>
              RowStart(d, p) - 1 \in Above(d, p) /\ Max(Above(d, p)) = RowStart(d, p) - 1
         /\ RowStart(d, p) = 0 <=> Above(d, p) = {}
<1>1. Above(d, p) \subseteq Int /\ \A i \in Above(d, p) : 0 <= i /\ i < p
  BY Newlines DEF Above
<1>2. \A i \in NewlinesAt(d) : i < p => i \in Above(d, p)
  BY DEF Above
<1>3. CASE Above(d, p) = {}
  BY <1>2, <1>3 DEF RowStart
<1>4. CASE Above(d, p) # {}
  <2>1. Max(Above(d, p)) \in Above(d, p) /\ \A x \in Above(d, p) : Max(Above(d, p)) >= x
    <3>1. \A x \in Above(d, p) : x <= p
      BY <1>1
    <3> QED BY <1>1, <1>4, <3>1, MaxIsGreatest
  <2>2. PICK m \in Above(d, p) : m = Max(Above(d, p)) /\ \A x \in Above(d, p) : m >= x
    BY <2>1
  <2>3. RowStart(d, p) = m + 1 /\ m \in Int /\ 0 <= m /\ m < p
    BY <1>1, <1>4, <2>2 DEF RowStart
  <2>4. \A i \in NewlinesAt(d) : i < p => i < m + 1
    BY <1>1, <1>2, <2>2
  <2> QED BY <1>4, <2>2, <2>3, <2>4
<1> QED BY <1>3, <1>4

\* And where it ends.
LEMMA EndIs ==
  ASSUME NEW d \in Seq(Chars), NEW p \in 0..Len(d)
  PROVE  /\ RowEnd(d, p) \in p..Len(d)
         /\ \A i \in NewlinesAt(d) : i >= p => i >= RowEnd(d, p)
         /\ RowEnd(d, p) < Len(d) => RowEnd(d, p) \in NewlinesAt(d)
         /\ Ahead(d, p) # {} => RowEnd(d, p) \in NewlinesAt(d)
<1>1. Ahead(d, p) \subseteq Int /\ Len(d) \in Nat
      /\ \A i \in Ahead(d, p) : p <= i /\ i < Len(d) /\ i \in NewlinesAt(d)
  BY Newlines DEF Ahead
<1>2. \A i \in NewlinesAt(d) : i >= p => i \in Ahead(d, p)
  BY DEF Ahead
<1>3. CASE Ahead(d, p) = {}
  BY <1>1, <1>2, <1>3 DEF RowEnd
<1>4. CASE Ahead(d, p) # {}
  <2>1. Min(Ahead(d, p)) \in Ahead(d, p) /\ \A x \in Ahead(d, p) : Min(Ahead(d, p)) <= x
    <3>1. p \in Int /\ \A x \in Ahead(d, p) : x >= p
      BY <1>1
    <3> QED BY <1>1, <1>4, <3>1, MinIsLeast
  <2>2. PICK m \in Ahead(d, p) : m = Min(Ahead(d, p)) /\ \A x \in Ahead(d, p) : m <= x
    BY <2>1
  <2>3. RowEnd(d, p) = m /\ m \in Int /\ p <= m /\ m < Len(d) /\ m \in NewlinesAt(d)
    BY <1>1, <1>4, <2>2 DEF RowEnd
  <2>4. \A i \in NewlinesAt(d) : i >= p => i >= m
    BY <1>1, <1>2, <2>2
  <2> QED BY <1>1, <1>4, <2>3, <2>4
<1> QED BY <1>3, <1>4

\* The number of newlines above tells which they are.
LEMMA SameAbove ==
  ASSUME NEW d \in Seq(Chars), NEW p \in Nat, NEW q \in Nat, RowOf(d, p) = RowOf(d, q)
  PROVE  Above(d, p) = Above(d, q)
<1>1. IsFiniteSet(Above(d, p)) /\ IsFiniteSet(Above(d, q))
  BY Newlines, FS_Subset DEF Above
<1>2. Cardinality(Above(d, p)) = Cardinality(Above(d, q))
  BY DEF RowOf, Above
<1>3. NewlinesAt(d) \subseteq Int
  BY Newlines
<1>4. CASE p <= q
  <2>1. Above(d, p) \subseteq Above(d, q)
    BY <1>3, <1>4 DEF Above
  <2> QED BY <1>1, <1>2, <2>1, FS_Subset
<1>5. CASE q <= p
  <2>1. Above(d, q) \subseteq Above(d, p)
    BY <1>3, <1>5 DEF Above
  <2> QED BY <1>1, <1>2, <2>1, FS_Subset
<1> QED BY <1>4, <1>5

\* The positions of a row are those from its start to its end.
LEMMA RowIs ==
  ASSUME NEW d \in Seq(Chars), NEW p \in 0..Len(d), NEW q \in 0..Len(d)
  PROVE  /\ RowOf(d, q) = RowOf(d, p) <=> RowStart(d, p) <= q /\ q <= RowEnd(d, p)
         /\ RowOf(d, q) = RowOf(d, p) => Above(d, q) = Above(d, p)
<1>1. NewlinesAt(d) \subseteq Int /\ p \in Nat /\ q \in Nat /\ Len(d) \in Nat
  BY Newlines
<1>2. /\ RowStart(d, p) \in 0..p
      /\ \A i \in NewlinesAt(d) : i < p => i < RowStart(d, p)
      /\ RowStart(d, p) > 0 => RowStart(d, p) - 1 \in Above(d, p)
  BY <1>1, StartIs
<1>3. /\ RowEnd(d, p) \in p..Len(d)
      /\ \A i \in NewlinesAt(d) : i >= p => i >= RowEnd(d, p)
      /\ RowEnd(d, p) < Len(d) => RowEnd(d, p) \in NewlinesAt(d)
  BY EndIs
<1>4. RowOf(d, q) = RowOf(d, p) => Above(d, q) = Above(d, p)
  BY <1>1, SameAbove
<1>5. ASSUME Above(d, q) = Above(d, p) PROVE RowStart(d, p) <= q /\ q <= RowEnd(d, p)
  <2>1. \A i \in NewlinesAt(d) : i < q <=> i < p
    BY <1>5 DEF Above
  <2>2. RowStart(d, p) > 0 => RowStart(d, p) - 1 < q
    BY <1>2, <1>5 DEF Above
  <2>3. ~(RowEnd(d, p) < q)
    BY <1>1, <1>3, <2>1
  <2> QED BY <1>1, <1>2, <1>3, <2>2, <2>3
<1>6. ASSUME RowStart(d, p) <= q, q <= RowEnd(d, p) PROVE RowOf(d, q) = RowOf(d, p)
  <2>1. \A i \in NewlinesAt(d) : i < q <=> i < p
    BY <1>1, <1>2, <1>3, <1>6
  <2>2. {i \in NewlinesAt(d) : i < q} = {i \in NewlinesAt(d) : i < p}
    BY <2>1
  <2> QED BY <2>2 DEF RowOf
<1> QED BY <1>4, <1>5, <1>6
-----------------------------------------------------------------------------
(* Columns.                                                                  *)

\* The column counts from the start of the row, in the first row from the prompt.
LEMMA ColumnIs ==
  ASSUME NEW d \in Seq(Chars), NEW p \in Nat
  PROVE  ColumnOf(d, p) = p - RowStart(d, p) + Shift(d, p) /\ Shift(d, p) \in Nat
BY LineAssumption DEF ColumnOf, RowStart, Shift, Above

\* The position of a row nearest to a column, by the ends of the row.
LEMMA NearestInRow ==
  ASSUME NEW d \in Seq(Chars), NEW r \in 0..Len(d), NEW row, row = RowOf(d, r), NEW c \in Int
  PROVE  Nearest(d, row, c)
           = RowStart(d, r) + Smaller(Larger(c - Shift(d, r), 0), RowEnd(d, r) - RowStart(d, r))
<1> DEFINE there == {q \in 0..Len(d) : RowOf(d, q) = row}
           before == {q \in there : ColumnOf(d, q) <= c}
<1>1. PICK s \in Nat, e \in Nat, sh \in Nat :
        /\ s = RowStart(d, r) /\ e = RowEnd(d, r) /\ sh = Shift(d, r)
        /\ s <= r /\ r <= e /\ e <= Len(d)
  <2>1. r \in Nat /\ Len(d) \in Nat
    BY Newlines
  <2>2. RowStart(d, r) \in 0..r
    BY <2>1, StartIs
  <2>3. RowEnd(d, r) \in r..Len(d)
    BY EndIs
  <2>4. Shift(d, r) \in Nat
    BY <2>1, ColumnIs
  <2> QED BY <2>1, <2>2, <2>3, <2>4
<1>2. there = s..e
  <2>1. \A q \in 0..Len(d) : RowOf(d, q) = row <=> s <= q /\ q <= e
    BY <1>1, RowIs
  <2>2. Len(d) \in Nat
    BY Newlines
  <2> QED BY <1>1, <2>1, <2>2
<1>3. ASSUME NEW q \in s..e PROVE ColumnOf(d, q) = q - s + sh
  <2>1. q \in 0..Len(d) /\ q \in Nat /\ RowOf(d, q) = row
    BY <1>2, <1>3
  <2>2. Above(d, q) = Above(d, r)
    BY <2>1, RowIs
  <2>3. ColumnOf(d, q) = q - RowStart(d, q) + Shift(d, q)
    BY <2>1, ColumnIs
  <2> QED BY <1>1, <2>2, <2>3 DEF RowStart, Shift
<1>4. Nearest(d, row, c) = IF there = {} THEN -1 ELSE IF before = {} THEN Min(there) ELSE Max(before)
  BY DEF Nearest
<1> HIDE DEF there
<1>5. there # {} /\ s \in there
  BY <1>1, <1>2
<1>6. before = {q \in s..e : q - s + sh <= c}
  BY <1>2, <1>3
<1> HIDE DEF before
<1>7. CASE c < sh
  <2>1. before = {}
    BY <1>6, <1>7
  <2>2. Min(there) = s
    <3>1. there \subseteq Int /\ \A x \in there : x >= s
      BY <1>2
    <3> QED BY <1>5, <3>1, MinOf
  <2>3. s + Smaller(Larger(c - sh, 0), e - s) = s
    BY <1>1, <1>7 DEF Smaller, Larger
  <2> QED BY <1>1, <1>4, <1>5, <2>1, <2>2, <2>3
<1>8. CASE c >= sh
  <2>1. PICK w \in Nat, l \in Nat : w = c - sh /\ l = e - s /\ c = w + sh /\ e = s + l
    <3>1. PICK w \in Nat : w = c - sh /\ c = w + sh
      <4>1. c - sh \in Nat
        BY <1>1, <1>8
      <4>2. \A w \in Nat : w = c - sh => c = w + sh
        BY <1>1
      <4> QED BY <4>1, <4>2
    <3>2. PICK l \in Nat : l = e - s /\ e = s + l
      <4>1. e - s \in Nat
        BY <1>1
      <4>2. \A l \in Nat : l = e - s => e = s + l
        BY <1>1
      <4> QED BY <4>1, <4>2
    <3> QED BY <3>1, <3>2
  <2>2. PICK k \in Nat : k = Smaller(w, l) /\ k <= w /\ k <= l /\ (k = w \/ k = l)
    BY DEF Smaller
  <2>3. PICK m \in Nat : m = s + k
    BY <1>1
  <2>4. m \in s..e /\ m - s + sh <= c
    <3>1. s <= m /\ m <= s + l /\ m - s = k
      BY <2>2, <2>3
    <3> QED BY <2>1, <2>2, <3>1
  <2>5. m \in before /\ before \subseteq Int
    BY <1>6, <2>4
  <2>6. ASSUME NEW x \in before PROVE x <= m
    <3>1. x \in s..e /\ x - s + sh <= w + sh
      BY <1>6, <2>1
    <3>2. x \in Int /\ x <= s + l
      BY <2>1, <3>1
    <3>3. x <= s + w
      BY <3>1, <3>2
    <3> QED BY <2>2, <2>3, <3>2, <3>3
  <2>7. Max(before) = m
    BY <2>5, <2>6, MaxOf
  <2>8. Larger(c - sh, 0) = w
    BY <1>8, <2>1 DEF Larger
  <2>9. RowStart(d, r) + Smaller(Larger(c - Shift(d, r), 0), RowEnd(d, r) - RowStart(d, r)) = m
    BY <1>1, <2>1, <2>2, <2>3, <2>8
  <2> QED BY <1>4, <1>5, <2>5, <2>7, <2>9
<1> QED BY <1>7, <1>8

\* A row that no position is in.
LEMMA NoRow ==
  ASSUME NEW d, NEW row, \A q \in 0..Len(d) : RowOf(d, q) # row, NEW c
  PROVE  Nearest(d, row, c) = -1
BY DEF Nearest

-----------------------------------------------------------------------------
(* The rows above and below.                                                 *)

\* The number of the row of a position.
LEMMA RowOfIs ==
  ASSUME NEW d \in Seq(Chars), NEW p \in Nat
  PROVE  IsFiniteSet(Above(d, p)) /\ RowOf(d, p) = Cardinality(Above(d, p)) /\ RowOf(d, p) \in Nat
<1>1. IsFiniteSet(Above(d, p))
  BY Newlines, FS_Subset DEF Above
<1>2. RowOf(d, p) = Cardinality(Above(d, p))
  BY DEF RowOf, Above
<1> QED BY <1>1, <1>2, FS_CardinalityType

\* The newline at the end of the row above is in that row, and ends it.
LEMMA RowAbove ==
  ASSUME NEW d \in Seq(Chars), NEW p \in 0..Len(d), NEW a \in Int, a = RowStart(d, p) - 1, a >= 0
  PROVE  /\ a \in NewlinesAt(d) /\ a < p /\ a \in 0..Len(d)
         /\ RowOf(d, a) = RowOf(d, p) - 1 /\ RowEnd(d, a) = a
<1>1. p \in Nat /\ Len(d) \in Nat /\ NewlinesAt(d) \subseteq Int
      /\ \A i \in NewlinesAt(d) : 0 <= i /\ i < Len(d)
  BY Newlines
<1>2. a \in Above(d, p) /\ \A i \in NewlinesAt(d) : i < p => i < a + 1
  <2>1. \A i \in NewlinesAt(d) : i < p => i < RowStart(d, p)
    BY <1>1, StartIs
  <2>2. RowStart(d, p) \in 0..p /\ (RowStart(d, p) > 0 => RowStart(d, p) - 1 \in Above(d, p))
    BY <1>1, StartIs
  <2>3. RowStart(d, p) = a + 1 /\ RowStart(d, p) > 0
    BY <2>2
  <2> QED BY <2>1, <2>2, <2>3
<1>3. a \in NewlinesAt(d) /\ a < p /\ a \in 0..Len(d) /\ a \in Nat
  BY <1>1, <1>2 DEF Above
<1>4. Above(d, a) = Above(d, p) \ {a}
  <2>1. \A i \in NewlinesAt(d) : i < a <=> i < p /\ i # a
    BY <1>1, <1>2, <1>3
  <2> QED BY <2>1 DEF Above
<1>5. RowOf(d, a) = RowOf(d, p) - 1
  <2>1. IsFiniteSet(Above(d, p)) /\ RowOf(d, p) = Cardinality(Above(d, p))
    BY <1>1, RowOfIs
  <2>2. Cardinality(Above(d, p) \ {a}) = Cardinality(Above(d, p)) - 1
    BY <1>2, <2>1, FS_RemoveElement
  <2>3. RowOf(d, a) = Cardinality(Above(d, a))
    BY <1>3, RowOfIs
  <2> QED BY <1>4, <2>1, <2>2, <2>3
<1>6. RowEnd(d, a) = a
  <2>1. RowEnd(d, a) \in a..Len(d) /\ \A i \in NewlinesAt(d) : i >= a => i >= RowEnd(d, a)
    BY <1>3, EndIs
  <2>2. PICK x \in Int : x = RowEnd(d, a) /\ a <= x /\ x <= a
    BY <1>1, <1>3, <2>1
  <2> QED BY <2>2
<1> QED BY <1>3, <1>5, <1>6

\* Behind the newline that ends a row the row below begins.
LEMMA RowBelow ==
  ASSUME NEW d \in Seq(Chars), NEW p \in 0..Len(d), NEW b \in Int, b = RowEnd(d, p), b \in NewlinesAt(d)
  PROVE  /\ b + 1 \in 0..Len(d) /\ RowOf(d, b + 1) = RowOf(d, p) + 1
         /\ RowStart(d, b + 1) = b + 1 /\ Shift(d, b + 1) = 0
<1>1. p \in Nat /\ Len(d) \in Nat /\ NewlinesAt(d) \subseteq Int
      /\ \A i \in NewlinesAt(d) : 0 <= i /\ i < Len(d)
  BY Newlines
<1>2. b \in p..Len(d) /\ \A i \in NewlinesAt(d) : i >= p => i >= b
  BY EndIs
<1>3. PICK q \in 0..Len(d) : q = b + 1 /\ q \in Nat
  BY <1>1
<1>4. Above(d, q) = Above(d, p) \cup {b} /\ b \notin Above(d, p)
  <2>1. \A i \in NewlinesAt(d) : i < q <=> i < p \/ i = b
    BY <1>1, <1>2, <1>3
  <2>2. ~(b < p)
    BY <1>1, <1>2
  <2> QED BY <2>1, <2>2 DEF Above
<1>5. RowOf(d, q) = RowOf(d, p) + 1
  <2>1. IsFiniteSet(Above(d, p)) /\ RowOf(d, p) = Cardinality(Above(d, p))
    BY <1>1, RowOfIs
  <2>2. Cardinality(Above(d, p) \cup {b}) = Cardinality(Above(d, p)) + 1
    BY <1>4, <2>1, FS_AddElement
  <2>3. RowOf(d, q) = Cardinality(Above(d, q))
    BY <1>3, RowOfIs
  <2> QED BY <1>4, <2>1, <2>2, <2>3
<1>6. RowStart(d, q) = q
  <2>1. RowStart(d, q) \in 0..q /\ \A i \in NewlinesAt(d) : i < q => i < RowStart(d, q)
    BY <1>3, StartIs
  <2>2. b < RowStart(d, q)
    BY <1>3, <2>1
  <2> QED BY <1>3, <2>1, <2>2
<1>7. Shift(d, q) = 0
  BY <1>4 DEF Shift
<1> QED BY <1>3, <1>5, <1>6, <1>7

\* Nothing is above the first row, nor below the last.
LEMMA NoMoreRows ==
  ASSUME NEW d \in Seq(Chars), NEW p \in 0..Len(d), NEW q \in 0..Len(d)
  PROVE  /\ RowStart(d, p) = 0 => RowOf(d, q) # RowOf(d, p) - 1
         /\ Ahead(d, p) = {} => RowOf(d, q) # RowOf(d, p) + 1
<1>1. p \in Nat /\ q \in Nat /\ NewlinesAt(d) \subseteq Int
  BY Newlines
<1>2. /\ RowOf(d, q) \in Nat /\ RowOf(d, p) \in Nat
      /\ RowOf(d, p) = Cardinality(Above(d, p)) /\ RowOf(d, q) = Cardinality(Above(d, q))
      /\ IsFiniteSet(Above(d, p)) /\ IsFiniteSet(Above(d, q))
  BY <1>1, RowOfIs
<1>3. ASSUME RowStart(d, p) = 0 PROVE RowOf(d, q) # RowOf(d, p) - 1
  <2>1. Above(d, p) = {}
    BY <1>1, <1>3, StartIs
  <2>2. RowOf(d, p) = 0
    BY <1>2, <2>1, FS_EmptySet
  <2> QED BY <1>2, <2>2
<1>4. ASSUME Ahead(d, p) = {} PROVE RowOf(d, q) # RowOf(d, p) + 1
  <2>1. Above(d, q) \subseteq Above(d, p)
    BY <1>1, <1>4 DEF Above, Ahead
  <2>2. RowOf(d, q) <= RowOf(d, p)
    BY <1>2, <2>1, FS_Subset
  <2> QED BY <1>2, <2>2
<1> QED BY <1>3, <1>4
-----------------------------------------------------------------------------
(* What the handlers compute.                                                *)

\* The searches for newlines find the ends of rows.
LEMMA SearchesFind ==
  ASSUME NEW d \in Seq(Chars), NEW p \in 0..Len(d)
  PROVE  /\ PrevNewline(d, p - 1) = RowStart(d, p) - 1
         /\ PrevNewline(d, p) = IF p \in NewlinesAt(d) THEN p ELSE RowStart(d, p) - 1
         /\ NextNewline(d, p) = IF Ahead(d, p) = {} THEN -1 ELSE RowEnd(d, p)
<1>1. p \in Nat /\ Len(d) \in Nat /\ NewlinesAt(d) \subseteq Int
      /\ \A i \in NewlinesAt(d) : 0 <= i /\ i < Len(d)
  BY Newlines
<1>2. PICK s \in Nat : /\ s = RowStart(d, p) /\ s <= p /\ \A i \in NewlinesAt(d) : i < p => i < s
                       /\ s > 0 => s - 1 \in NewlinesAt(d)
  <2>1. RowStart(d, p) \in 0..p /\ \A i \in NewlinesAt(d) : i < p => i < RowStart(d, p)
    BY <1>1, StartIs
  <2>2. RowStart(d, p) > 0 => RowStart(d, p) - 1 \in NewlinesAt(d)
    BY <1>1, StartIs DEF Above
  <2> QED BY <1>1, <2>1, <2>2
<1>3. PrevNewline(d, p - 1) = s - 1
  <2> DEFINE S == {i \in NewlinesAt(d) : i <= p - 1} \cup {-1}
  <2>1. S \subseteq Int /\ s - 1 \in S /\ \A x \in S : x <= s - 1
    <3>1. \A i \in NewlinesAt(d) : i <= p - 1 <=> i < p
      BY <1>1
    <3>2. \A x \in S : x <= s - 1
      BY <1>1, <1>2, <3>1
    <3>3. s - 1 \in S
      BY <1>1, <1>2
    <3> QED BY <1>1, <3>2, <3>3
  <2> HIDE DEF S
  <2>2. Max(S) = s - 1
    BY <2>1, MaxOf
  <2> QED BY <2>2 DEF PrevNewline, S
<1>4. PrevNewline(d, p) = IF p \in NewlinesAt(d) THEN p ELSE s - 1
  <2>1. ASSUME p \in NewlinesAt(d) PROVE PrevNewline(d, p) = p
    <3> DEFINE S == {i \in NewlinesAt(d) : i <= p} \cup {-1}
    <3>1. S \subseteq Int /\ p \in S /\ \A x \in S : x <= p
      BY <1>1, <2>1
    <3> HIDE DEF S
    <3>2. Max(S) = p
      BY <3>1, MaxOf
    <3> QED BY <3>2 DEF PrevNewline, S
  <2>2. ASSUME p \notin NewlinesAt(d) PROVE PrevNewline(d, p) = s - 1
    <3>1. \A i \in NewlinesAt(d) : i <= p <=> i <= p - 1
      BY <1>1, <2>2
    <3>2. {i \in NewlinesAt(d) : i <= p} = {i \in NewlinesAt(d) : i <= p - 1}
      BY <3>1
    <3>3. PrevNewline(d, p) = PrevNewline(d, p - 1)
      BY <3>2 DEF PrevNewline
    <3> QED BY <1>3, <3>3
  <2> QED BY <2>1, <2>2
<1>6. NextNewline(d, p) = IF Ahead(d, p) = {} THEN -1 ELSE RowEnd(d, p)
  BY DEF NextNewline, Ahead, RowEnd
<1> QED BY <1>2, <1>3, <1>4, <1>6

\* Up goes to the same column of the row above.
LEMMA UpIs ==
  ASSUME NEW d \in Seq(Chars), NEW p \in 0..Len(d), ~OnFirstNewline(d, p)
  PROVE  UpFrom(d, p) = Nearest(d, RowOf(d, p) - 1, ColumnOf(d, p))
<1> DEFINE here == PrevNewline(d, p)
           above == IF here = p THEN PrevNewline(d, p - 1) ELSE here
           start == IF above > 0 THEN PrevNewline(d, above - 1) + 1 ELSE 0
           shift == IF ~IndentMultiline /\ start = 0 THEN Indentation ELSE 0
           column == Smaller(p - above - 1, (above - start) + shift)
<1>1. UpFrom(d, p) = IF above < 0 THEN -1 ELSE start + Larger(column - shift, 0)
  BY DEF UpFrom
<1>2. PICK s \in Nat : s = RowStart(d, p) /\ s <= p /\ p \in Nat
  <2>1. p \in Nat
    OBVIOUS
  <2>2. RowStart(d, p) \in 0..p
    BY <2>1, StartIs
  <2> QED BY <2>1, <2>2
<1>3. above = s - 1
  BY <1>2, SearchesFind
<1> HIDE DEF here, above, start, shift, column
<1>4. CASE s = 0
  <2>1. \A q \in 0..Len(d) : RowOf(d, q) # RowOf(d, p) - 1
    BY <1>2, <1>4, NoMoreRows
  <2>2. Nearest(d, RowOf(d, p) - 1, ColumnOf(d, p)) = -1
    BY <2>1, NoRow
  <2> QED BY <1>1, <1>3, <1>4, <2>2
<1>5. CASE s > 0
  <2>1. PICK a \in Nat : a = s - 1 /\ a = above
    BY <1>2, <1>3, <1>5
  <2>2. a \in NewlinesAt(d) /\ a \in 0..Len(d) /\ RowOf(d, a) = RowOf(d, p) - 1 /\ RowEnd(d, a) = a
    BY <1>2, <2>1, RowAbove
  <2>3. PICK t \in Nat : t = RowStart(d, a) /\ t <= a
    <3>1. RowStart(d, a) \in 0..a
      BY StartIs
    <3> QED BY <3>1
  <2>4. start = t
    <3>1. PrevNewline(d, a - 1) = t - 1
      BY <2>2, <2>3, SearchesFind
    <3>2. a > 0 => start = t
      BY <2>1, <2>3, <3>1 DEF start
    <3>3. ~(a > 0) => start = 0 /\ t = 0
      BY <2>1, <2>3 DEF start
    <3> QED BY <3>2, <3>3
  <2>5. PICK sh \in Nat : sh = Shift(d, a) /\ sh = shift
    <3>1. Above(d, a) = {} <=> t = 0
      BY <2>3, StartIs
    <3> QED BY <2>3, <2>4, <3>1, LineAssumption DEF shift, Shift
  <2>6. ColumnOf(d, p) = p - s
    <3>1. Shift(d, p) = 0
      <4>1. Above(d, p) # {}
        BY <1>2, <1>5, StartIs
      <4> QED BY <4>1 DEF Shift
    <3> QED BY <1>2, <3>1, ColumnIs
  <2>7. PICK c \in Nat : c = p - s /\ c = p - a - 1
    BY <1>2, <2>1
  <2>8. Nearest(d, RowOf(d, p) - 1, ColumnOf(d, p)) = t + Smaller(Larger(c - sh, 0), a - t)
    <3>1. Nearest(d, RowOf(d, a), c)
            = RowStart(d, a) + Smaller(Larger(c - Shift(d, a), 0), RowEnd(d, a) - RowStart(d, a))
      BY <2>2, NearestInRow
    <3> QED BY <2>2, <2>3, <2>5, <2>6, <2>7, <3>1
  <2>9. UpFrom(d, p) = t + Larger(Smaller(c, (a - t) + sh) - sh, 0)
    <3>1. column = Smaller(c, (a - t) + sh)
      BY <2>1, <2>4, <2>5, <2>7 DEF column
    <3> QED BY <1>1, <2>1, <2>4, <2>5, <3>1
  <2>10. Larger(Smaller(c, (a - t) + sh) - sh, 0) = Smaller(Larger(c - sh, 0), a - t)
    <3>1. PICK l \in Nat : l = a - t
      BY <2>3
    <3>2. Larger(Smaller(c, l + sh) - sh, 0) = Smaller(Larger(c - sh, 0), l)
      BY DEF Smaller, Larger
    <3> QED BY <3>1, <3>2
  <2> QED BY <2>8, <2>9, <2>10
<1> QED BY <1>2, <1>4, <1>5

\* Down goes to the same column of the row below.
LEMMA DownIs ==
  ASSUME NEW d \in Seq(Chars), NEW p \in 0..Len(d)
  PROVE  DownFrom(d, p) = Nearest(d, RowOf(d, p) + 1, ColumnOf(d, p))
<1> DEFINE ends == NextNewline(d, p)
           below == NextNewline(d, ends + 1)
           length == (IF below < 0 THEN Len(d) ELSE below) - (ends + 1)
           here == PrevNewline(d, p)
           start == (IF here # p THEN here
                     ELSE IF p > 0 THEN PrevNewline(d, p - 1) ELSE -1) + 1
           shift == IF ~IndentMultiline /\ start = 0 THEN Indentation ELSE 0
<1>1. DownFrom(d, p) = IF ends < 0 THEN -1 ELSE ends + 1 + Smaller(p - start + shift, length)
  BY DEF DownFrom
<1>2. PICK s \in Nat : s = RowStart(d, p) /\ s <= p /\ p \in Nat
  <2>1. p \in Nat
    OBVIOUS
  <2>2. RowStart(d, p) \in 0..p
    BY <2>1, StartIs
  <2> QED BY <2>1, <2>2
<1>3. start = s
  <2>1. p > 0 => PrevNewline(d, p - 1) = s - 1
    BY <1>2, SearchesFind
  <2>2. here = IF p \in NewlinesAt(d) THEN p ELSE s - 1
    BY <1>2, SearchesFind
  <2> QED BY <1>2, <2>1, <2>2
<1>4. ends = IF Ahead(d, p) = {} THEN -1 ELSE RowEnd(d, p)
  BY SearchesFind
<1> HIDE DEF ends, below, length, here, start, shift
<1>5. CASE Ahead(d, p) = {}
  <2>1. \A q \in 0..Len(d) : RowOf(d, q) # RowOf(d, p) + 1
    BY <1>5, NoMoreRows
  <2>2. Nearest(d, RowOf(d, p) + 1, ColumnOf(d, p)) = -1
    BY <2>1, NoRow
  <2> QED BY <1>1, <1>4, <1>5, <2>2
<1>6. CASE Ahead(d, p) # {}
  <2>1. PICK b \in Nat : b = ends /\ b = RowEnd(d, p) /\ b \in NewlinesAt(d)
    <3>1. RowEnd(d, p) \in NewlinesAt(d) /\ RowEnd(d, p) \in p..Len(d)
      BY <1>6, EndIs
    <3>2. RowEnd(d, p) \in Nat
      BY <3>1, Newlines
    <3> QED BY <1>4, <1>6, <3>1, <3>2
  <2>2. PICK q \in 0..Len(d) : /\ q = b + 1 /\ RowOf(d, q) = RowOf(d, p) + 1
                               /\ RowStart(d, q) = q /\ Shift(d, q) = 0 /\ q \in Nat
    BY <2>1, RowBelow
  <2>3. PICK l \in Nat : l = RowEnd(d, q) - q /\ l = length
    <3>1. RowEnd(d, q) \in q..Len(d)
      BY EndIs
    <3>2. below = IF Ahead(d, q) = {} THEN -1 ELSE RowEnd(d, q)
      BY <2>1, <2>2, SearchesFind DEF below
    <3>3. Ahead(d, q) = {} => RowEnd(d, q) = Len(d)
      BY DEF RowEnd
    <3>4. (IF below < 0 THEN Len(d) ELSE below) = RowEnd(d, q)
      BY <2>2, <3>1, <3>2, <3>3
    <3>5. length = RowEnd(d, q) - q
      BY <2>1, <2>2, <3>4 DEF length
    <3>6. RowEnd(d, q) - q \in Nat
      BY <2>2, <3>1, Newlines
    <3> QED BY <3>5, <3>6
  <2>4. PICK c \in Nat : c = ColumnOf(d, p) /\ c = p - start + shift
    <3>1. Above(d, p) = {} <=> s = 0
      BY <1>2, StartIs
    <3>2. shift = Shift(d, p)
      BY <1>3, <3>1 DEF shift, Shift
    <3>3. ColumnOf(d, p) = p - s + Shift(d, p) /\ Shift(d, p) \in Nat
      BY <1>2, ColumnIs
    <3> QED BY <1>2, <1>3, <3>2, <3>3
  <2>5. Nearest(d, RowOf(d, p) + 1, c) = q + Smaller(Larger(c - 0, 0), l)
    <3>1. Nearest(d, RowOf(d, q), c)
            = RowStart(d, q) + Smaller(Larger(c - Shift(d, q), 0), RowEnd(d, q) - RowStart(d, q))
      BY NearestInRow
    <3> QED BY <2>2, <2>3, <3>1
  <2>6. Larger(c - 0, 0) = c
    BY DEF Larger
  <2>7. DownFrom(d, p) = q + Smaller(c, l)
    BY <1>1, <2>1, <2>2, <2>3, <2>4
  <2> QED BY <2>4, <2>5, <2>6, <2>7
<1> QED BY <1>5, <1>6
-----------------------------------------------------------------------------
(* Home and End.                                                             *)

\* Where Home goes: to the beginning of the row.
LEMMA LineStartIs ==
  ASSUME NEW d \in Seq(Chars), NEW p \in 0..Len(d), ~OnFirstNewline(d, p)
  PROVE  LineStart(d, p) = RowStart(d, p)
<1> DEFINE onNewline == p > 0 /\ p < Len(d) /\ d[p + 1] = Newline
<1>1. LineStart(d, p) = PrevNewline(d, IF onNewline THEN p - 1 ELSE p) + 1
  BY DEF LineStart
<1>2. onNewline <=> p \in NewlinesAt(d)
  BY DEF NewlinesAt, OnFirstNewline
<1> HIDE DEF onNewline
<1>3. PICK s \in Nat : s = RowStart(d, p)
  <2>1. p \in Nat
    OBVIOUS
  <2>2. RowStart(d, p) \in 0..p
    BY <2>1, StartIs
  <2> QED BY <2>2
<1>4. onNewline => PrevNewline(d, p - 1) = s - 1
  BY <1>3, SearchesFind
<1>5. ~onNewline => PrevNewline(d, p) = s - 1
  BY <1>2, <1>3, SearchesFind
<1>6. LineStart(d, p) = (s - 1) + 1
  BY <1>1, <1>4, <1>5
<1> QED BY <1>3, <1>6

\* A line without a newline is one row.
LEMMA OneRow ==
  ASSUME NEW d \in Seq(Chars), NEW p \in 0..Len(d), NewlinesAt(d) = {}
  PROVE  RowStart(d, p) = 0 /\ RowEnd(d, p) = Len(d)
BY DEF RowStart, RowEnd, Above, Ahead

\* Home goes to the beginning of the row, End to its end.
LEMMA EndsAre ==
  ASSUME data \in Seq(Chars), pos \in 0..Len(data)
  PROVE  RowEnds
<1> SUFFICES ASSUME hasNewlines \/ NewlinesAt(data) = {}, ~OnFirstNewline(data, pos)
             PROVE  LET row == {q \in 0..Len(data) : RowOf(data, q) = RowOf(data, pos)}
                    IN Home(FALSE) = Min(row) /\ EndOfLine(FALSE) = Max(row)
  BY DEF RowEnds
<1> DEFINE row == {q \in 0..Len(data) : RowOf(data, q) = RowOf(data, pos)}
<1>1. PICK s \in Nat, e \in Nat : s = RowStart(data, pos) /\ e = RowEnd(data, pos)
                                  /\ s <= pos /\ pos <= e /\ e <= Len(data)
  <2>1. pos \in Nat /\ Len(data) \in Nat
    BY Newlines
  <2>2. RowStart(data, pos) \in 0..pos /\ RowEnd(data, pos) \in pos..Len(data)
    BY <2>1, StartIs, EndIs
  <2> QED BY <2>1, <2>2
<1>2. row = s..e
  <2>1. \A q \in 0..Len(data) : q \in row <=> s <= q /\ q <= e
    BY <1>1, RowIs
  <2>2. Len(data) \in Nat
    BY Newlines
  <2> QED BY <1>1, <2>1, <2>2
<1> HIDE DEF row
<1>3. Min(row) = s
  <2>1. row \subseteq Int /\ s \in row /\ \A x \in row : x >= s
    BY <1>1, <1>2
  <2> QED BY <2>1, MinOf
<1>4. Max(row) = e
  <2>1. row \subseteq Int /\ e \in row /\ \A x \in row : x <= e
    BY <1>1, <1>2
  <2> QED BY <2>1, MaxOf
<1>5. Home(FALSE) = s
  <2>1. LineStart(data, pos) = s
    BY <1>1, LineStartIs
  <2>2. ~hasNewlines => s = 0
    BY <1>1, OneRow
  <2> QED BY <2>1, <2>2 DEF Home
<1>6. EndOfLine(FALSE) = e
  <2>1. ~hasNewlines => e = Len(data)
    BY <1>1, OneRow
  <2>2. NextNewline(data, pos) = IF Ahead(data, pos) = {} THEN -1 ELSE e
    BY <1>1, SearchesFind
  <2>3. Ahead(data, pos) = {} => e = Len(data)
    BY <1>1 DEF RowEnd
  <2>4. CASE Ahead(data, pos) = {}
    BY <2>2, <2>3, <2>4 DEF EndOfLine
  <2>5. CASE Ahead(data, pos) # {}
    <3>1. NextNewline(data, pos) = e /\ ~(e < 0)
      BY <1>1, <2>2, <2>5
    <3> QED BY <2>1, <3>1 DEF EndOfLine
  <2> QED BY <2>4, <2>5
<1> QED BY <1>3, <1>4, <1>5, <1>6 DEF row

\* The keys that move by rows go where the rows on the screen say: Up and Down to
\* the same column of the next row, or to its end, Home and End to the ends of
\* the row of the cursor, whatever the line, the cursor and the indentation; but for
\* Up and Home where the cursor is on a newline at the beginning of the input.
THEOREM RowKeysExact == ASSUME Plain PROVE Spec => []RowKeys
<1>1. IInv => RowKeys
  <2> SUFFICES ASSUME IInv PROVE VerticalKeepsColumn /\ RowEnds
    BY DEF RowKeys
  <2>1. data \in Seq(Chars) /\ pos \in 0..Len(data)
    BY DEF IInv, LineIn
  <2>2. VerticalKeepsColumn
    BY <2>1, UpIs, DownIs DEF VerticalKeepsColumn
  <2> QED BY <2>1, <2>2, EndsAre
<1> QED BY <1>1, AlwaysIn, PTL
=============================================================================
