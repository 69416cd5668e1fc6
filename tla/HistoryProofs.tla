--------------------------- MODULE HistoryProofs ---------------------------
(***************************************************************************)
(* The list of entries and the iterators into it, for every set of lines   *)
(* and every bound, when the history is used plainly.  Erasing an entry is  *)
(* put in terms of positions; from what it does the invariant of the object *)
(* follows, operation by operation, and from that what an input() leaves of *)
(* the history and where Down goes after a recalled line was accepted.      *)
(***************************************************************************)
EXTENDS History, FiniteSetTheorems, SequenceTheorems, WellFoundedInduction, TLAPS

-----------------------------------------------------------------------------
(* Ranks: the position of an element among those that are kept.             *)

Rank(S, i) == Cardinality({j \in S : j <= i})
Nth(S, k) == CHOOSE i \in S : Rank(S, i) = k

\* The ranks of a finite set of positions number it in its order.
LEMMA Ranks ==
  ASSUME NEW N \in Nat, NEW S \in SUBSET (1..N)
  PROVE  /\ IsFiniteSet(S) /\ Cardinality(S) \in 0..N
         /\ \A i \in S : Rank(S, i) \in 1..Cardinality(S)
         /\ \A i, j \in S : i < j => Rank(S, i) < Rank(S, j)
         /\ \A k \in 1..Cardinality(S) : \E i \in S : Rank(S, i) = k
<1>1. IsFiniteSet(1..N) /\ Cardinality(1..N) = N
  BY FS_Interval
<1>2. IsFiniteSet(S) /\ Cardinality(S) \in Nat /\ Cardinality(S) <= N
  BY <1>1, FS_Subset, FS_CardinalityType
<1>3. \A i \in Int : {j \in S : j <= i} \in SUBSET S
  OBVIOUS
<1>4. \A i \in Int : IsFiniteSet({j \in S : j <= i}) /\ Rank(S, i) \in Nat
                       /\ Rank(S, i) <= Cardinality(S)
  BY <1>2, <1>3, FS_Subset, FS_CardinalityType DEF Rank
<1>5. ASSUME NEW i \in S, NEW j \in S, i < j PROVE Rank(S, i) < Rank(S, j)
  <2> DEFINE T == {m \in S : m <= i}
             U == {m \in S : m <= j}
  <2>1. IsFiniteSet(T) /\ IsFiniteSet(U)
    BY <1>4
  <2>2. T \subseteq U /\ j \in U /\ j \notin T
    <3>1. i \in Int /\ j \in Int /\ \A m \in S : m \in Int
      OBVIOUS
    <3>2. j \in U /\ j \notin T
      BY <1>5, <3>1
    <3>3. ASSUME NEW m \in T PROVE m \in U
      BY <1>5, <3>1, <3>3
    <3> QED BY <3>2, <3>3
  <2> HIDE DEF T, U
  <2>3. Cardinality(T) <= Cardinality(U) /\ Cardinality(T) # Cardinality(U)
    BY <2>1, <2>2, FS_Subset
  <2>4. Cardinality(T) \in Nat /\ Cardinality(U) \in Nat
    BY <2>1, FS_CardinalityType
  <2>5. Cardinality(T) < Cardinality(U)
    BY <2>3, <2>4
  <2> QED BY <2>5 DEF Rank, T, U
<1>6. ASSUME NEW i \in S PROVE Rank(S, i) \in 1..Cardinality(S)
  <2> DEFINE T == {j \in S : j <= i}
  <2>1. i \in T /\ i \in Int
    OBVIOUS
  <2>2. IsFiniteSet(T) /\ Rank(S, i) = Cardinality(T)
    BY <1>4, <2>1 DEF Rank
  <2> HIDE DEF T
  <2>3. Cardinality(T) # 0
    BY <2>1, <2>2, FS_EmptySet
  <2>4. Rank(S, i) \in Nat /\ Rank(S, i) <= Cardinality(S)
    BY <1>4, <2>1
  <2> QED BY <1>2, <2>2, <2>3, <2>4
<1>7. \A k \in 1..Cardinality(S) : \E i \in S : Rank(S, i) = k
  <2> DEFINE T == 1..Cardinality(S)
             f == [i \in S |-> Rank(S, i)]
  <2>1. f \in [S -> T]
    BY <1>6
  <2>2. \A i, j \in S : f[i] = f[j] => i = j
    <3> SUFFICES ASSUME NEW i \in S, NEW j \in S, i # j PROVE f[i] # f[j]
      OBVIOUS
    <3>1. f[i] = Rank(S, i) /\ f[j] = Rank(S, j) /\ f[i] \in Int /\ f[j] \in Int
      BY <1>2, <1>6
    <3>2. i < j \/ j < i
      OBVIOUS
    <3> HIDE DEF f
    <3> QED BY <3>1, <3>2, <1>5
  <2>3. IsFiniteSet(T) /\ Cardinality(T) = Cardinality(S)
    BY <1>2, FS_Interval
  <2> HIDE DEF f
  <2>4. f \in Injection(S, T)
    BY <2>1, <2>2 DEF Injection, IsInjective
  <2>5. f \in Surjection(S, T)
    BY <2>3, <2>4, FS_Injection
  <2>6. \A k \in T : \E i \in S : f[i] = k
    BY <2>5 DEF Surjection
  <2> QED BY <2>6 DEF f
<1> QED BY <1>2, <1>5, <1>6, <1>7

\* The element with a rank is the only one.
LEMMA NthIs ==
  ASSUME NEW N \in Nat, NEW S \in SUBSET (1..N)
  PROVE  /\ \A k \in 1..Cardinality(S) : Nth(S, k) \in S /\ Rank(S, Nth(S, k)) = k
         /\ \A i \in S : Nth(S, Rank(S, i)) = i
<1>1. /\ \A k \in 1..Cardinality(S) : \E i \in S : Rank(S, i) = k
      /\ \A i, j \in S : i < j => Rank(S, i) < Rank(S, j)
      /\ \A i \in S : Rank(S, i) \in 1..Cardinality(S)
      /\ Cardinality(S) \in Nat
  BY Ranks
<1>2. ASSUME NEW k \in 1..Cardinality(S) PROVE Nth(S, k) \in S /\ Rank(S, Nth(S, k)) = k
  BY <1>1 DEF Nth
<1>3. ASSUME NEW i \in S PROVE Nth(S, Rank(S, i)) = i
  <2>1. Nth(S, Rank(S, i)) \in S /\ Rank(S, Nth(S, Rank(S, i))) = Rank(S, i)
    BY <1>1, <1>2
  <2>2. PICK j \in S : j = Nth(S, Rank(S, i))
    BY <2>1
  <2>3. ~(j < i) /\ ~(i < j)
    BY <1>1, <2>1, <2>2
  <2> QED BY <2>2, <2>3
<1> QED BY <1>2, <1>3

\* When one position is taken out, those behind it move up by one.
LEMMA RankAllBut ==
  ASSUME NEW N \in Nat, NEW i \in 1..N
  PROVE  LET S == (1..N) \ {i}
         IN /\ Cardinality(S) = N - 1
            /\ \A j \in S : Rank(S, j) = IF j < i THEN j ELSE j - 1
            /\ \A k \in 1..(N - 1) : Nth(S, k) = IF k < i THEN k ELSE k + 1
<1> DEFINE S == (1..N) \ {i}
<1>1. Cardinality(S) = N - 1
  <2>1. IsFiniteSet(1..N) /\ Cardinality(1..N) = N
    BY FS_Interval
  <2> QED BY <2>1, FS_RemoveElement
<1>2. ASSUME NEW j \in S PROVE Rank(S, j) = IF j < i THEN j ELSE j - 1
  <2>1. IsFiniteSet(1..j) /\ Cardinality(1..j) = j
    BY FS_Interval
  <2>2. CASE j < i
    <3>1. {m \in S : m <= j} = 1..j
      BY <2>2
    <3> QED BY <2>1, <2>2, <3>1 DEF Rank
  <2>3. CASE ~(j < i)
    <3>1. {m \in S : m <= j} = (1..j) \ {i}
      BY <2>3
    <3>2. i \in 1..j
      BY <2>3
    <3>3. Cardinality((1..j) \ {i}) = j - 1
      BY <2>1, <3>2, FS_RemoveElement
    <3> QED BY <2>3, <3>1, <3>3 DEF Rank
  <2> QED BY <2>2, <2>3
<1>3. ASSUME NEW k \in 1..(N - 1) PROVE Nth(S, k) = IF k < i THEN k ELSE k + 1
  <2>1. \A j \in S : Nth(S, Rank(S, j)) = j
    BY NthIs
  <2>2. CASE k < i
    <3>1. k \in S /\ Rank(S, k) = k
      BY <1>2, <2>2
    <3> QED BY <2>1, <2>2, <3>1
  <2>3. CASE ~(k < i)
    <3>1. PICK j \in S : j = k + 1
      BY <2>3
    <3>2. Rank(S, j) = k
      BY <1>2, <2>3, <3>1
    <3> QED BY <2>1, <2>3, <3>1, <3>2
  <2> QED BY <2>2, <2>3
<1> QED BY <1>1, <1>2, <1>3

-----------------------------------------------------------------------------
(* The object and what an erasure does to it.                               *)

EntryType == [text : Lines, scratch : Lines]
Object ==
  [entries : Seq(EntryType), locations : [Lines -> Int], maxSize : Nat,
   current : Int, previous : Int, yankPos : Int, recallMostRecent : BOOLEAN, unique : BOOLEAN]

\* The object with other entries and iterators.
LEMMA ObjectWith ==
  ASSUME NEW h \in Object, NEW e \in Seq(EntryType), NEW l \in [Lines -> Int],
         NEW c \in Int, NEW p \in Int, NEW y \in Int
  PROVE  [h EXCEPT !.entries = e, !.locations = l, !.current = c, !.previous = p,
                   !.yankPos = y] \in Object
BY DEF Object

\* Every iterator is at an entry, or at the end, or dangles.
Sound(h) ==
  /\ h \in Object
  /\ \A line \in Lines : h.locations[line] \in Dangling..Last(h)
  /\ h.current \in Dangling..Last(h) /\ h.previous \in Dangling..Last(h)
  /\ h.yankPos \in Dangling..Last(h)

\* Where an iterator at p goes when the entry at i is erased.
Follow(p, i) == IF p = i THEN Dangling ELSE IF p > i THEN p - 1 ELSE p

\* Taking out one entry, in terms of positions.
LEMMA KeepAllBut ==
  ASSUME NEW h, Sound(h), NEW i \in Positions(h)
  PROVE  LET g == Keep(h, Positions(h) \ {i})
         IN /\ g.entries = [k \in 1..(Last(h) - 1) |-> h.entries[IF k < i THEN k ELSE k + 1]]
            /\ g.locations = [line \in Lines |-> Follow(h.locations[line], i)]
            /\ g.current = Follow(h.current, i) /\ g.previous = Follow(h.previous, i)
            /\ g.maxSize = h.maxSize /\ g.recallMostRecent = h.recallMostRecent
            /\ g.unique = h.unique
            /\ g \in Object
<1> DEFINE N == Last(h)
           S == Positions(h) \ {i}
           moved(p) == IF p \in S THEN Rank(S, p) ELSE IF p = End THEN End ELSE Dangling
           entries == [k \in 1..Cardinality(S) |-> h.entries[Nth(S, k)]]
           g == Keep(h, S)
<1>1. h \in Object /\ N \in Nat /\ S = (1..N) \ {i} /\ i \in 1..N
  <2>1. h.entries \in Seq(EntryType)
    BY DEF Sound, Object
  <2> QED BY <2>1 DEF Sound, Last, Positions
<1>2. g = [h EXCEPT !.entries = entries,
                    !.locations = [line \in Lines |-> moved(h.locations[line])],
                    !.current = moved(@), !.previous = moved(@), !.yankPos = moved(@)]
  BY DEF Keep, Rank, Nth
<1>3. /\ Cardinality(S) = N - 1
      /\ \A j \in S : Rank(S, j) = IF j < i THEN j ELSE j - 1
      /\ \A k \in 1..(N - 1) : Nth(S, k) = IF k < i THEN k ELSE k + 1
  <2> HIDE DEF N, S
  <2>1. LET T == (1..N) \ {i}
        IN /\ Cardinality(T) = N - 1
           /\ \A j \in T : Rank(T, j) = IF j < i THEN j ELSE j - 1
           /\ \A k \in 1..(N - 1) : Nth(T, k) = IF k < i THEN k ELSE k + 1
    BY <1>1, RankAllBut
  <2> QED BY <1>1, <2>1
<1>4. ASSUME NEW p \in Dangling..N PROVE moved(p) = Follow(p, i)
  <2>1. p \in S <=> p \in 1..N /\ p # i
    BY <1>1
  <2> HIDE DEF S
  <2> QED BY <1>1, <1>3, <2>1 DEF Follow, Dangling, End
<1>5. entries = [k \in 1..(N - 1) |-> h.entries[IF k < i THEN k ELSE k + 1]]
  BY <1>3
<1>6. entries \in Seq(EntryType)
  <2>1. \A k \in 1..(N - 1) : (IF k < i THEN k ELSE k + 1) \in 1..N
    BY <1>1
  <2>2. \A k \in 1..N : h.entries[k] \in EntryType
    BY DEF Sound, Object, Last
  <2>3. N - 1 \in Nat
    BY <1>1
  <2> HIDE DEF N
  <2>4. entries \in [1..(N - 1) -> EntryType]
    BY <1>5, <2>1, <2>2
  <2> QED BY ZenonT(30), <2>3, <2>4, SeqDef
<1>7. \A p \in Dangling..N : moved(p) \in Int
  BY <1>1, <1>4 DEF Follow, Dangling
<1> HIDE DEF moved, entries, S, N
<1>8. h.locations \in [Lines -> Int] /\ \A line \in Lines : moved(h.locations[line]) \in Int
  BY <1>1, <1>7 DEF Sound, Object, N
<1>9. moved(h.current) \in Int /\ moved(h.previous) \in Int /\ moved(h.yankPos) \in Int
  BY <1>7 DEF Sound, N
<1>10. g \in Object
  <2>1. g = [h EXCEPT !.entries = entries,
                      !.locations = [line \in Lines |-> moved(h.locations[line])],
                      !.current = moved(h.current), !.previous = moved(h.previous),
                      !.yankPos = moved(h.yankPos)]
    BY <1>1, <1>2 DEF Object
  <2>2. [line \in Lines |-> moved(h.locations[line])] \in [Lines -> Int]
    BY <1>8
  <2> HIDE DEF g
  <2> QED BY <1>1, <1>6, <1>9, <2>1, <2>2, ObjectWith
<1>11. /\ g.entries = entries
      /\ g.locations = [line \in Lines |-> moved(h.locations[line])]
      /\ g.current = moved(h.current) /\ g.previous = moved(h.previous)
      /\ g.maxSize = h.maxSize /\ g.recallMostRecent = h.recallMostRecent
      /\ g.unique = h.unique
  BY <1>1, <1>2 DEF Object
<1> QED BY <1>4, <1>5, <1>10, <1>11 DEF Sound, N, S

\* Where _current is after the entry at i was erased.
CurrentAfter(h, i) ==
  LET next == IF h.current # i THEN Follow(h.current, i) ELSE IF i = Last(h) THEN End ELSE i
  IN IF next = End THEN Last(h) - 1 ELSE next

\* erase() in terms of positions.
LEMMA EraseGives ==
  ASSUME NEW h, Sound(h), NEW i \in Positions(h)
  PROVE  LET g == Erase(h, i)
         IN /\ Sound(g) /\ Last(g) = Last(h) - 1
            /\ g.entries = [k \in 1..(Last(h) - 1) |-> h.entries[IF k < i THEN k ELSE k + 1]]
            /\ \A line \in Lines :
                 g.locations[line] =
                   IF line = Text(h, i) THEN End ELSE Follow(h.locations[line], i)
            /\ g.current = CurrentAfter(h, i) /\ g.previous = g.current /\ g.yankPos = End
            /\ g.maxSize = h.maxSize /\ g.recallMostRecent = h.recallMostRecent
            /\ g.unique = h.unique
<1> DEFINE left == Keep(h, Positions(h) \ {i})
           next == IF h.current # i THEN left.current ELSE IF i = Last(h) THEN End ELSE i
           current == IF next = End THEN Last(left) ELSE next
           g == Erase(h, i)
<1>1. /\ left.entries = [k \in 1..(Last(h) - 1) |-> h.entries[IF k < i THEN k ELSE k + 1]]
      /\ left.locations = [line \in Lines |-> Follow(h.locations[line], i)]
      /\ left.current = Follow(h.current, i) /\ left.previous = Follow(h.previous, i)
      /\ left.maxSize = h.maxSize /\ left.recallMostRecent = h.recallMostRecent
      /\ left.unique = h.unique
      /\ left \in Object
  BY KeepAllBut
<1>2. Last(h) \in Nat /\ i \in 1..Last(h) /\ h.entries[i] \in EntryType
  <2>1. h.entries \in Seq(EntryType)
    BY DEF Sound, Object
  <2> QED BY <2>1 DEF Last, Positions
<1>3. Last(left) = Last(h) - 1
  <2>1. Last(h) - 1 \in Nat
    BY <1>2
  <2>2. left.entries \in Seq(EntryType)
    BY <1>1 DEF Object
  <2>3. DOMAIN left.entries = 1..(Last(h) - 1) /\ DOMAIN left.entries = 1..Len(left.entries)
    BY <1>1, <2>2
  <2>4. Len(left.entries) \in Nat
    BY <2>2
  <2> QED BY <2>1, <2>3, <2>4 DEF Last
<1>4. Text(h, i) \in Lines
  BY <1>2 DEF Text, EntryType
<1>5. current = CurrentAfter(h, i)
  BY <1>1, <1>3 DEF CurrentAfter
<1>6. h.current \in Dangling..Last(h) /\ current \in Dangling..(Last(h) - 1)
  <2>1. h.current \in Dangling..Last(h)
    BY DEF Sound
  <2> HIDE DEF current
  <2> QED BY <1>2, <1>5, <2>1 DEF CurrentAfter, Follow, Dangling, End
<1>7. g = [left EXCEPT !.locations[Text(h, i)] = End, !.yankPos = End,
                       !.current = current, !.previous = current]
  BY DEF Erase
<1> HIDE DEF left, next, current
<1>8. current \in Int /\ End \in Int
  BY <1>2, <1>6 DEF Dangling, End
<1>9. /\ g \in Object /\ g.entries = left.entries
      /\ g.locations = [left.locations EXCEPT ![Text(h, i)] = End]
      /\ g.current = current /\ g.previous = current /\ g.yankPos = End
      /\ g.maxSize = left.maxSize /\ g.recallMostRecent = left.recallMostRecent
      /\ g.unique = left.unique
  <2>1. left.locations \in [Lines -> Int] /\ left.entries \in Seq(EntryType)
    BY <1>1 DEF Object
  <2>2. PICK l \in [Lines -> Int] : l = [left.locations EXCEPT ![Text(h, i)] = End]
    BY <1>8, <2>1
  <2>3. g = [left EXCEPT !.entries = left.entries, !.locations = l, !.current = current,
                         !.previous = current, !.yankPos = End]
    BY <1>1, <1>7, <2>2 DEF Object
  <2> HIDE DEF g
  <2>4. g \in Object
    BY <1>1, <1>8, <2>1, <2>3, ObjectWith
  <2> QED BY <1>1, <2>2, <2>3, <2>4 DEF Object
<1>10. \A line \in Lines :
         g.locations[line] = IF line = Text(h, i) THEN End ELSE Follow(h.locations[line], i)
  BY <1>1, <1>4, <1>9
<1>11. \A line \in Lines : g.locations[line] \in Dangling..(Last(h) - 1)
  <2>1. \A line \in Lines : h.locations[line] \in Dangling..Last(h)
    BY DEF Sound
  <2>2. \A p \in Dangling..Last(h) : Follow(p, i) \in Dangling..(Last(h) - 1)
    BY <1>2 DEF Follow, Dangling
  <2>3. End \in Dangling..(Last(h) - 1)
    BY <1>2 DEF Dangling, End
  <2> QED BY <1>10, <2>1, <2>2, <2>3
<1>12. Last(g) = Last(h) - 1
  BY <1>3, <1>9 DEF Last
<1>13. Sound(g)
  <2>1. End \in Dangling..(Last(h) - 1)
    BY <1>2 DEF Dangling, End
  <2> QED BY <1>6, <1>9, <1>11, <1>12, <2>1 DEF Sound
<1> HIDE DEF g
<1> QED BY <1>1, <1>5, <1>9, <1>10, <1>12, <1>13 DEF g

\* The number of entries is a natural number.
LEMMA LastIs ==
  ASSUME NEW h \in Object
  PROVE  /\ Last(h) \in Nat /\ h.entries \in [1..Last(h) -> EntryType]
         /\ DOMAIN h.entries = 1..Last(h) /\ Positions(h) = 1..Last(h)
<1>1. h.entries \in Seq(EntryType)
  BY DEF Object
<1> QED BY <1>1 DEF Last, Positions

\* What it leaves alone, and the yank iterator.
LEMMA EraseRest ==
  ASSUME NEW h, Sound(h), NEW i \in Positions(h)
  PROVE  /\ Erase(h, i) \in Object /\ Sound(Erase(h, i))
         /\ Erase(h, i).yankPos = End
         /\ Erase(h, i).maxSize = h.maxSize /\ Erase(h, i).unique = h.unique
         /\ Erase(h, i).recallMostRecent = h.recallMostRecent
<1>1. /\ Sound(Erase(h, i)) /\ Erase(h, i).yankPos = End
      /\ Erase(h, i).maxSize = h.maxSize /\ Erase(h, i).unique = h.unique
      /\ Erase(h, i).recallMostRecent = h.recallMostRecent
  BY EraseGives
<1> QED BY <1>1 DEF Sound

\* A line that has no location gets none.
LEMMA EraseNoLocation ==
  ASSUME NEW h, Sound(h), NEW i \in Positions(h), NEW line \in Lines,
         h.locations[line] = End
  PROVE  Erase(h, i).locations[line] = End
<1>1. \A other \in Lines :
        Erase(h, i).locations[other] =
          IF other = Text(h, i) THEN End ELSE Follow(h.locations[other], i)
  BY ZenonT(30), EraseGives
<1>2. i \in 1..Last(h)
  BY LastIs DEF Sound
<1> QED BY <1>1, <1>2 DEF Follow, End

-----------------------------------------------------------------------------
(* Trimming: erasing from the front, one by one.                            *)

\* A set of natural numbers has a least element.
LEMMA LeastNatural ==
  ASSUME NEW T, T \subseteq Nat, T # {}
  PROVE  \E x \in T : \A y \in T : x <= y
<1>1. PICK x \in T : \A y \in T : ~ (<<y, x>> \in OpToRel(<, Nat))
  BY NatLessThanWellFounded, WFMin
<1>2. \A y \in T : ~ (y < x)
  BY <1>1 DEF OpToRel
<1> QED BY <1>2, SMT

\* A set with 0 that has the successor of each number in it has all of them.
LEMMA Successors ==
  ASSUME NEW P, 0 \in P, \A n \in Nat : n \in P => n + 1 \in P
  PROVE  Nat \subseteq P
<1> SUFFICES ASSUME Nat \ P # {} PROVE FALSE
  OBVIOUS
<1>1. PICK x \in Nat \ P : \A y \in Nat \ P : x <= y
  BY LeastNatural
<1>2. x # 0
  OBVIOUS
<1>3. x - 1 \in Nat /\ x - 1 \in P
  BY <1>1, <1>2
<1> QED BY <1>3

\* The function that trim_to_max_size() stands for is there.
LEMMA ErasedExists ==
  ASSUME NEW h
  PROVE  \A n \in Nat : \E f : f = [k \in 0..n |-> IF k = 0 THEN h ELSE Erase(f[k - 1], 1)]
<1> DEFINE Is(f, n) == f = [k \in 0..n |-> IF k = 0 THEN h ELSE Erase(f[k - 1], 1)]
           P == {n \in Nat : \E f : Is(f, n)}
<1>1. 0 \in P
  <2> DEFINE f == [k \in 0..0 |-> h]
  <2>1. Is(f, 0)
    OBVIOUS
  <2> QED BY <2>1
<1>2. ASSUME NEW n \in Nat, n \in P PROVE n + 1 \in P
  <2>1. PICK f : Is(f, n)
    BY <1>2
  <2> DEFINE g == [k \in 0..(n + 1) |-> IF k = n + 1 THEN Erase(f[n], 1) ELSE f[k]]
  <2>2. \A k \in 0..(n + 1) : g[k] = IF k = 0 THEN h ELSE Erase(g[k - 1], 1)
    BY <2>1
  <2>3. g = [k \in 0..(n + 1) |-> g[k]]
    OBVIOUS
  <2> HIDE DEF g
  <2>4. Is(g, n + 1)
    BY <2>2, <2>3
  <2> QED BY <2>4
<1> HIDE DEF P
<1>3. Nat \subseteq P
  BY <1>1, <1>2, Successors
<1> QED BY <1>3 DEF P

\* What every erasure of the oldest entry keeps, trimming keeps.
LEMMA TrimKeeps ==
  ASSUME NEW P, NEW h \in P,
         \A g \in P : Sound(g) /\ g.maxSize = h.maxSize
                        /\ (1 \in Positions(g) => Erase(g, 1) \in P)
  PROVE  /\ TrimToMaxSize(h) \in P
         /\ Last(TrimToMaxSize(h)) = IF Last(h) > h.maxSize THEN h.maxSize ELSE Last(h)
<1> DEFINE N == Last(h)
           erased[n \in 0..N] == IF n = 0 THEN h ELSE Erase(erased[n - 1], 1)
<1>1. N \in Nat /\ h.maxSize \in Nat
  BY DEF Sound, Object, Last
<1>2. TrimToMaxSize(h) = IF N > h.maxSize THEN erased[N - h.maxSize] ELSE h
  BY DEF TrimToMaxSize
<1>3. erased = [n \in 0..N |-> IF n = 0 THEN h ELSE Erase(erased[n - 1], 1)]
  <2>1. \E f : f = [k \in 0..N |-> IF k = 0 THEN h ELSE Erase(f[k - 1], 1)]
    BY <1>1, ErasedExists
  <2> QED BY <2>1
<1> HIDE DEF erased
<1> DEFINE R == {n \in Nat : n <= N => erased[n] \in P /\ Last(erased[n]) = N - n}
<1>4. 0 \in R
  BY <1>1, <1>3
<1>5. ASSUME NEW n \in Nat, n \in R PROVE n + 1 \in R
  <2> SUFFICES ASSUME n + 1 <= N
               PROVE  erased[n + 1] \in P /\ Last(erased[n + 1]) = N - (n + 1)
    OBVIOUS
  <2>1. erased[n] \in P /\ Last(erased[n]) = N - n
    BY <1>1, <1>5
  <2>2. erased[n + 1] = Erase(erased[n], 1)
    BY <1>1, <1>3
  <2>3. 1 \in Positions(erased[n])
    BY <1>1, <2>1 DEF Positions, Last
  <2>4. Last(Erase(erased[n], 1)) = N - n - 1
    BY ZenonT(30), <2>1, <2>3, EraseGives
  <2> QED BY <2>1, <2>2, <2>3, <2>4, <1>1
<1> HIDE DEF R
<1>6. Nat \subseteq R
  BY <1>4, <1>5, Successors
<1>7. CASE N > h.maxSize
  <2>1. N - h.maxSize \in Nat /\ N - h.maxSize <= N
    BY <1>1, <1>7
  <2>2. erased[N - h.maxSize] \in P /\ Last(erased[N - h.maxSize]) = N - (N - h.maxSize)
    BY <1>6, <2>1 DEF R
  <2> QED BY <1>1, <1>2, <1>7, <2>2
<1>8. CASE ~(N > h.maxSize)
  BY <1>1, <1>2, <1>8
<1> QED BY <1>7, <1>8

-----------------------------------------------------------------------------
(* What holds of the object between any two operations.                     *)

\* The scratches are the texts, as in a unique history that is used plainly.
Fresh(h) == \A i \in Positions(h) : h.entries[i].scratch = h.entries[i].text

\* The locations lead to the first m entries by their text and nowhere else.
Known(h, m) ==
  \A line \in Lines :
    /\ h.locations[line] \in 0..m
    /\ \A i \in 1..m : h.locations[line] = i <=> h.entries[i].text = line

\* No iterator that a recalled line leaves for the next input() dangles.
Firm(h) == h.current \in 0..Last(h) /\ h.previous \in 0..Last(h)

Tidy(h) ==
  /\ Sound(h)
  /\ h.unique => Fresh(h) /\ Known(h, Last(h))
  /\ h.recallMostRecent => Firm(h)

\* Erasing one of the known entries leaves the others known, and no location
\* appears.
LEMMA EraseKnown ==
  ASSUME NEW h, Sound(h), NEW i \in Positions(h), Fresh(h),
         NEW m \in i..Last(h), Known(h, m)
  PROVE  /\ Fresh(Erase(h, i)) /\ Known(Erase(h, i), m - 1)
         /\ Erase(h, i).locations[h.entries[i].text] = End
<1> DEFINE N == Last(h)
           g == Erase(h, i)
           source(k) == IF k < i THEN k ELSE k + 1
<1>1. N \in Nat /\ i \in 1..N /\ \A k \in 1..N : h.entries[k] \in EntryType
  BY LastIs DEF Sound
<1>2. /\ Last(g) = N - 1 /\ g \in Object
      /\ g.entries = [k \in 1..(N - 1) |-> h.entries[source(k)]]
      /\ \A line \in Lines :
           g.locations[line] = IF line = Text(h, i) THEN End ELSE Follow(h.locations[line], i)
  BY EraseGives DEF Sound
<1> HIDE DEF g
<1>3. \A k \in 1..(N - 1) : source(k) \in 1..N /\ source(k) # i /\ g.entries[k] = h.entries[source(k)]
  BY <1>1, <1>2
<1>4. Text(h, i) = h.entries[i].text /\ Text(h, i) \in Lines
  BY <1>1 DEF Text, Fresh, EntryType
<1>5. Fresh(g)
  <2>1. \A k \in 1..N : h.entries[k].scratch = h.entries[k].text
    BY <1>1, LastIs DEF Fresh, Sound
  <2>2. Positions(g) = 1..(N - 1)
    BY <1>2, LastIs
  <2> HIDE DEF source
  <2> QED BY <1>3, <2>1, <2>2 DEF Fresh
<1>6. ASSUME NEW line \in Lines
      PROVE  /\ g.locations[line] \in 0..(m - 1)
             /\ \A k \in 1..(m - 1) : g.locations[line] = k <=> g.entries[k].text = line
  <2>1. /\ h.locations[line] \in 0..m
        /\ \A j \in 1..m : h.locations[line] = j <=> h.entries[j].text = line
    BY DEF Known
  <2>2. i \in 1..m /\ m \in 1..N
    BY <1>1
  <2>3. CASE line = Text(h, i)
    <3>1. g.locations[line] = 0
      BY <1>2, <2>3 DEF End
    <3>2. h.locations[line] = i
      BY <1>4, <2>1, <2>2, <2>3
    <3>3. ASSUME NEW k \in 1..(m - 1) PROVE g.entries[k].text # line
      <4>1. source(k) \in 1..m /\ source(k) # i /\ k \in 1..(N - 1)
        BY <1>1, <2>2
      <4> HIDE DEF source
      <4> QED BY <1>3, <2>1, <3>2, <4>1
    <3> QED BY <2>2, <3>1, <3>3
  <2>4. CASE line # Text(h, i)
    <3>1. g.locations[line] = Follow(h.locations[line], i)
      BY <1>2, <2>4
    <3>2. h.locations[line] # i
      BY <1>4, <2>1, <2>2, <2>4
    <3>3. g.locations[line] \in 0..(m - 1)
      BY <2>1, <2>2, <3>1, <3>2 DEF Follow
    <3>4. ASSUME NEW k \in 1..(m - 1)
          PROVE  g.locations[line] = k <=> g.entries[k].text = line
      <4>1. source(k) \in 1..m /\ source(k) # i /\ k \in 1..(N - 1)
        BY <1>1, <2>2
      <4>2. g.locations[line] = k <=> h.locations[line] = source(k)
        BY <2>1, <2>2, <3>1, <3>2 DEF Follow
      <4> HIDE DEF source
      <4> QED BY <1>3, <2>1, <4>1, <4>2
    <3> QED BY <3>3, <3>4
  <2> QED BY <2>3, <2>4
<1>7. Known(g, m - 1)
  BY <1>6 DEF Known
<1>8. g.locations[h.entries[i].text] = End
  BY <1>2, <1>4
<1> QED BY <1>5, <1>7, <1>8 DEF g

\* An erasure leaves no iterator dangling that did not.
LEMMA EraseFirm ==
  ASSUME NEW h, Sound(h), NEW i \in Positions(h), h.current \in 0..Last(h)
  PROVE  /\ Firm(Erase(h, i))
         /\ h.current # 0 /\ Last(h) > 1 => Erase(h, i).current \in 1..(Last(h) - 1)
<1>1. Last(h) \in Nat /\ i \in 1..Last(h)
  BY LastIs DEF Sound
<1>2. /\ Erase(h, i).current = CurrentAfter(h, i) /\ Last(Erase(h, i)) = Last(h) - 1
      /\ Erase(h, i).previous = Erase(h, i).current
  BY EraseGives
<1>3. /\ CurrentAfter(h, i) \in 0..(Last(h) - 1)
      /\ h.current # 0 /\ Last(h) > 1 => CurrentAfter(h, i) \in 1..(Last(h) - 1)
  BY <1>1 DEF CurrentAfter, Follow, Dangling, End
<1> QED BY <1>2, <1>3 DEF Firm

\* An erasure keeps what holds between operations.
LEMMA EraseTidy ==
  ASSUME NEW h, Tidy(h), NEW i \in Positions(h)
  PROVE  Tidy(Erase(h, i))
<1>1. Sound(h) /\ Last(h) \in Nat /\ i \in 1..Last(h)
  BY LastIs DEF Tidy, Sound
<1>2. /\ Sound(Erase(h, i)) /\ Last(Erase(h, i)) = Last(h) - 1
      /\ Erase(h, i).recallMostRecent = h.recallMostRecent /\ Erase(h, i).unique = h.unique
  BY <1>1, EraseGives
<1>3. h.unique => Fresh(Erase(h, i)) /\ Known(Erase(h, i), Last(h) - 1)
  <2>1. Last(h) \in i..Last(h)
    BY <1>1
  <2> QED BY <1>1, <2>1, EraseKnown DEF Tidy
<1>4. h.recallMostRecent => Firm(Erase(h, i))
  BY <1>1, EraseFirm DEF Tidy, Firm
<1> QED BY <1>2, <1>3, <1>4 DEF Tidy

-----------------------------------------------------------------------------
(* add()                                                                    *)

\* What remove_duplicate() does: nothing, as there is no such entry, or it erases
\* the one entry that is known by that text.
LEMMA DuplicateIs ==
  ASSUME NEW h, NEW m, NEW line \in Lines, h.unique => Known(h, m)
  PROVE  \/ RemoveDuplicate(h, line) = h /\ (h.unique => h.locations[line] = End)
         \/ /\ h.unique
            /\ \E i \in 1..m : h.entries[i].text = line /\ RemoveDuplicate(h, line) = Erase(h, i)
<1>1. CASE h.unique /\ h.locations[line] # End
  <2>1. h.locations[line] \in 0..m /\ \A i \in 1..m : h.locations[line] = i => h.entries[i].text = line
    BY <1>1 DEF Known
  <2>2. PICK i \in 1..m : h.locations[line] = i
    BY <1>1, <2>1 DEF End
  <2> QED BY <1>1, <2>1, <2>2 DEF RemoveDuplicate
<1>2. CASE ~(h.unique /\ h.locations[line] # End)
  BY <1>2 DEF RemoveDuplicate
<1> QED BY <1>1, <1>2

\* An entry made of a line.
LEMMA EntryIs ==
  ASSUME NEW line \in Lines
  PROVE  /\ Entry(line) \in EntryType
         /\ Entry(line).text = line /\ Entry(line).scratch = line
BY DEF Entry, EntryType

\* Locating a line that is not located.
LEMMA LocatedIs ==
  ASSUME NEW h \in Object, NEW line \in Lines, NEW i \in Int
  PROVE  LET g == Located(h, line, i)
         IN /\ g \in Object /\ g.entries = h.entries /\ g.maxSize = h.maxSize
            /\ g.current = h.current /\ g.previous = h.previous /\ g.yankPos = h.yankPos
            /\ g.recallMostRecent = h.recallMostRecent /\ g.unique = h.unique
            /\ \A other \in Lines :
                 g.locations[other] = IF other = line /\ h.locations[line] = End
                                        THEN i ELSE h.locations[other]
<1>1. CASE h.locations[line] = End
  <2>1. h.locations \in [Lines -> Int]
    BY DEF Object
  <2>2. PICK l \in [Lines -> Int] : l = [h.locations EXCEPT ![line] = i]
    BY <2>1
  <2>3. Located(h, line, i) = [h EXCEPT !.locations = l]
    BY <1>1, <2>2 DEF Located, Object
  <2> QED BY <1>1, <2>1, <2>2, <2>3 DEF Object
<1>2. CASE h.locations[line] # End
  BY <1>2 DEF Located
<1> QED BY <1>1, <1>2

\* Putting another entry in place of the last one.
LEMMA LastReplaced ==
  ASSUME NEW h \in Object, Last(h) > 0, NEW e \in EntryType
  PROVE  LET g == [h EXCEPT !.entries[Last(h)] = e]
         IN /\ g \in Object /\ Last(g) = Last(h) /\ g.maxSize = h.maxSize
            /\ g.current = h.current /\ g.previous = h.previous /\ g.yankPos = h.yankPos
            /\ g.recallMostRecent = h.recallMostRecent /\ g.unique = h.unique
            /\ g.locations = h.locations
            /\ \A i \in 1..Last(h) : g.entries[i] = IF i = Last(h) THEN e ELSE h.entries[i]
<1>1. h.entries \in Seq(EntryType) /\ Last(h) \in 1..Len(h.entries)
  BY LastIs DEF Object, Last
<1>2. PICK s \in Seq(EntryType) : s = [h.entries EXCEPT ![Last(h)] = e]
  <2>1. [h.entries EXCEPT ![Last(h)] = e] \in Seq(EntryType)
    BY <1>1
  <2> QED BY <2>1
<1>3. Len(s) = Len(h.entries)
  BY <1>1, <1>2
<1>4. \A i \in 1..Last(h) : s[i] = IF i = Last(h) THEN e ELSE h.entries[i]
  BY <1>1, <1>2 DEF Last
<1>5. [h EXCEPT !.entries[Last(h)] = e] = [h EXCEPT !.entries = s]
  BY <1>2 DEF Object
<1> QED BY <1>3, <1>4, <1>5 DEF Object, Last

\* Making room for a line in place of its duplicate.
LEMMA RoomIs ==
  ASSUME NEW h, Tidy(h), h.yankPos = End, NEW line \in Lines
  PROVE  LET room == TrimToMaxSize(RemoveDuplicate(h, line))
         IN /\ Tidy(room) /\ room.yankPos = End
            /\ room.maxSize = h.maxSize /\ room.unique = h.unique
            /\ room.recallMostRecent = h.recallMostRecent
            /\ h.unique => room.locations[line] = End
            /\ Last(room) <= h.maxSize
<1> DEFINE P == {g \in Object : /\ Tidy(g) /\ g.yankPos = End /\ g.maxSize = h.maxSize
                                /\ g.unique = h.unique
                                /\ g.recallMostRecent = h.recallMostRecent
                                /\ h.unique => g.locations[line] = End}
           g == RemoveDuplicate(h, line)
<1>1. Sound(h) /\ h \in Object /\ Last(h) \in Nat /\ Positions(h) = 1..Last(h)
  BY LastIs DEF Tidy, Sound
<1>2. g \in P
  <2>1. \/ g = h /\ (h.unique => h.locations[line] = End)
        \/ /\ h.unique
           /\ \E i \in 1..Last(h) : h.entries[i].text = line /\ g = Erase(h, i)
    BY DuplicateIs DEF Tidy
  <2>2. CASE g = h /\ (h.unique => h.locations[line] = End)
    BY <1>1, <2>2
  <2>3. CASE h.unique /\ \E i \in 1..Last(h) : h.entries[i].text = line /\ g = Erase(h, i)
    <3>1. PICK i \in 1..Last(h) : h.entries[i].text = line /\ g = Erase(h, i)
      BY <2>3
    <3>2. i \in Positions(h) /\ Last(h) \in i..Last(h) /\ Fresh(h) /\ Known(h, Last(h))
      BY <1>1, <2>3 DEF Tidy
    <3>3. Tidy(g) /\ g.locations[line] = End
      BY <1>1, <3>1, <3>2, EraseTidy, EraseKnown
    <3>4. /\ g.yankPos = End /\ g.maxSize = h.maxSize /\ g.unique = h.unique
          /\ g.recallMostRecent = h.recallMostRecent /\ g \in Object
      BY <1>1, <3>1, <3>2, EraseRest
    <3>5. h.unique => g.locations[line] = End
      BY <3>3
    <3> HIDE DEF g
    <3> QED BY <3>3, <3>4, <3>5
  <2> QED BY <2>1, <2>2, <2>3
<1>3. ASSUME NEW f \in P, 1 \in Positions(f) PROVE Erase(f, 1) \in P
  <2>1. Sound(f) /\ Tidy(f)
    BY DEF Tidy
  <2>2. Tidy(Erase(f, 1))
    BY <1>3, <2>1, EraseTidy
  <2>3. /\ Erase(f, 1) \in Object /\ Erase(f, 1).yankPos = End
        /\ Erase(f, 1).maxSize = f.maxSize /\ Erase(f, 1).unique = f.unique
        /\ Erase(f, 1).recallMostRecent = f.recallMostRecent
    BY <1>3, <2>1, EraseRest
  <2>4. h.unique => Erase(f, 1).locations[line] = End
    BY <1>3, <2>1, EraseNoLocation
  <2> QED BY <2>2, <2>3, <2>4
<1>4. \A f \in P : Sound(f) /\ f.maxSize = g.maxSize
  BY <1>2 DEF Tidy
<1>5. \A f \in P : Tidy(f) /\ f.yankPos = End /\ f.maxSize = h.maxSize /\ f.unique = h.unique
                     /\ f.recallMostRecent = h.recallMostRecent /\ Sound(f)
                     /\ (h.unique => f.locations[line] = End)
  BY DEF Tidy
<1>6. h.maxSize \in Nat
  BY <1>1 DEF Object
<1> HIDE DEF P, g
<1>7. /\ TrimToMaxSize(g) \in P
      /\ Last(TrimToMaxSize(g)) = IF Last(g) > g.maxSize THEN g.maxSize ELSE Last(g)
  BY <1>2, <1>3, <1>4, TrimKeeps
<1>8. Last(g) \in Nat /\ g.maxSize = h.maxSize
  BY <1>2, <1>5, LastIs DEF Sound
<1> QED BY <1>5, <1>6, <1>7, <1>8 DEF g

\* One more entry at the end of the list, located when its text was not.
Appended(room, line) ==
  [Located(room, line, Last(room) + 1) EXCEPT
     !.entries = Append(@, Entry(line)), !.yankPos = End,
     !.current = IF @ = End THEN Last(room) + 1 ELSE @]

\* Appending in terms of positions.
LEMMA AppendedIs ==
  ASSUME NEW room \in Object, NEW line \in Lines
  PROVE  LET g == Appended(room, line)
             N == Last(room)
         IN /\ g \in Object /\ Last(g) = N + 1 /\ g.yankPos = End
            /\ \A i \in 1..N : g.entries[i] = room.entries[i]
            /\ g.entries[N + 1] = Entry(line)
            /\ g.current = IF room.current = End THEN N + 1 ELSE room.current
            /\ g.previous = room.previous /\ g.maxSize = room.maxSize
            /\ g.recallMostRecent = room.recallMostRecent /\ g.unique = room.unique
            /\ \A other \in Lines :
                 g.locations[other] = IF other = line /\ room.locations[line] = End
                                        THEN N + 1 ELSE room.locations[other]
<1> DEFINE N == Last(room)
           l == Located(room, line, N + 1)
           g == Appended(room, line)
<1>1. N \in Nat /\ room.entries \in Seq(EntryType) /\ N = Len(room.entries)
  BY LastIs DEF Object, Last
<1>2. PICK last \in Int : last = N + 1
  BY <1>1
<1>3. /\ l \in Object /\ l.entries = room.entries /\ l.maxSize = room.maxSize
      /\ l.current = room.current /\ l.previous = room.previous
      /\ l.recallMostRecent = room.recallMostRecent /\ l.unique = room.unique
      /\ \A other \in Lines :
           l.locations[other] = IF other = line /\ room.locations[line] = End
                                  THEN last ELSE room.locations[other]
  BY <1>2, LocatedIs
<1>4. PICK s \in Seq(EntryType) : s = Append(room.entries, Entry(line))
  <2>1. Append(room.entries, Entry(line)) \in Seq(EntryType)
    BY <1>1, EntryIs, AppendProperties
  <2> QED BY <2>1
<1>5. /\ Len(s) = N + 1 /\ s[N + 1] = Entry(line)
      /\ \A i \in 1..N : s[i] = room.entries[i]
  BY <1>1, <1>4, EntryIs
<1>6. PICK c \in Int : c = IF room.current = End THEN last ELSE room.current
  BY <1>2 DEF Object
<1>7. g = [l EXCEPT !.entries = s, !.locations = l.locations, !.current = c,
                    !.previous = l.previous, !.yankPos = End]
  <2>1. g = [l EXCEPT !.entries = Append(l.entries, Entry(line)), !.yankPos = End,
                      !.current = IF l.current = End THEN last ELSE l.current]
    BY <1>2, <1>3 DEF Appended, Object
  <2> HIDE DEF l, g
  <2> QED BY <1>3, <1>4, <1>6, <2>1 DEF Object
<1> HIDE DEF l, g
<1>8. g \in Object
  <2>1. l.locations \in [Lines -> Int] /\ l.previous \in Int /\ End \in Int
    BY <1>3 DEF Object, End
  <2> QED BY <1>3, <1>7, <2>1, ObjectWith
<1>9. /\ g.entries = s /\ g.locations = l.locations /\ g.current = c /\ g.yankPos = End
      /\ g.previous = l.previous /\ g.maxSize = l.maxSize
      /\ g.recallMostRecent = l.recallMostRecent /\ g.unique = l.unique
  BY <1>3, <1>7 DEF Object
<1>10. Last(g) = N + 1
  BY <1>5, <1>9 DEF Last
<1> HIDE DEF N
<1> QED BY <1>2, <1>3, <1>5, <1>6, <1>8, <1>9, <1>10 DEF g, N

\* add() in its two cases.
LEMMA AddIs ==
  ASSUME NEW h, NEW line
  PROVE  Add(h, line) = IF h.entries # <<>> /\ Text(h, Last(h)) = line
                          THEN [h EXCEPT !.entries[Last(h)] = Entry(line)]
                          ELSE Appended(TrimToMaxSize(RemoveDuplicate(h, line)), line)
BY DEF Add, Appended

\* Appending a line that is not known keeps what holds between operations.
LEMMA AppendedTidy ==
  ASSUME NEW room, Tidy(room), NEW line \in Lines, room.unique => room.locations[line] = End
  PROVE  Tidy(Appended(room, line))
<1> DEFINE N == Last(room)
           g == Appended(room, line)
<1>1. room \in Object /\ Sound(room) /\ N \in Nat
  BY LastIs DEF Tidy, Sound
<1>2. /\ g \in Object /\ Last(g) = N + 1 /\ g.yankPos = End
      /\ \A i \in 1..N : g.entries[i] = room.entries[i]
      /\ g.entries[N + 1] = Entry(line)
      /\ g.current = IF room.current = End THEN N + 1 ELSE room.current
      /\ g.previous = room.previous
      /\ g.recallMostRecent = room.recallMostRecent /\ g.unique = room.unique
      /\ \A other \in Lines :
           g.locations[other] = IF other = line /\ room.locations[line] = End
                                  THEN N + 1 ELSE room.locations[other]
  BY <1>1, AppendedIs
<1> HIDE DEF g
<1>3. Sound(g)
  <2>1. \A other \in Lines : room.locations[other] \in Dangling..N
    BY <1>1 DEF Sound
  <2>2. \A other \in Lines : g.locations[other] \in Dangling..(N + 1)
    BY <1>1, <1>2, <2>1 DEF Dangling
  <2>3. room.current \in Dangling..N /\ room.previous \in Dangling..N
    BY <1>1 DEF Sound
  <2>4. /\ g.current \in Dangling..(N + 1) /\ g.previous \in Dangling..(N + 1)
        /\ g.yankPos \in Dangling..(N + 1)
    BY <1>1, <1>2, <2>3 DEF Dangling, End
  <2> QED BY <1>2, <2>2, <2>4 DEF Sound
<1>4. ASSUME room.unique PROVE Fresh(g) /\ Known(g, N + 1)
  <2>1. Fresh(room) /\ Known(room, N) /\ room.locations[line] = 0
    BY <1>4 DEF Tidy, End
  <2>2. Fresh(g)
    <3>1. \A i \in 1..N : room.entries[i].scratch = room.entries[i].text
      BY <1>1, <2>1, LastIs DEF Fresh
    <3>2. Positions(g) = 1..(N + 1)
      BY <1>2, LastIs
    <3>3. Entry(line).scratch = Entry(line).text
      BY EntryIs
    <3>4. ASSUME NEW i \in 1..(N + 1) PROVE g.entries[i].scratch = g.entries[i].text
      <4>1. i = N + 1 \/ i \in 1..N
        BY <1>1
      <4> QED BY <1>2, <3>1, <3>3, <4>1
    <3> QED BY <3>2, <3>4 DEF Fresh
  <2>3. ASSUME NEW other \in Lines
        PROVE  /\ g.locations[other] \in 0..(N + 1)
               /\ \A i \in 1..(N + 1) : g.locations[other] = i <=> g.entries[i].text = other
    <3>1. /\ room.locations[other] \in 0..N
          /\ \A i \in 1..N : room.locations[other] = i <=> room.entries[i].text = other
      BY <2>1 DEF Known
    <3>2. g.entries[N + 1].text = line
      BY <1>2, EntryIs
    <3>3. g.locations[other] = IF other = line THEN N + 1 ELSE room.locations[other]
      BY <1>2, <2>1 DEF End
    <3>4. ASSUME NEW i \in 1..(N + 1)
          PROVE  g.locations[other] = i <=> g.entries[i].text = other
      <4>1. CASE i = N + 1
        BY <1>1, <3>1, <3>2, <3>3, <4>1
      <4>2. CASE i # N + 1
        <5>1. i \in 1..N /\ g.entries[i] = room.entries[i]
          BY <1>1, <1>2, <4>2
        <5>2. CASE other = line
          BY <1>1, <2>1, <3>1, <3>3, <5>1, <5>2
        <5>3. CASE other # line
          BY <3>1, <3>3, <5>1, <5>3
        <5> QED BY <5>2, <5>3
      <4> QED BY <4>1, <4>2
    <3> QED BY <1>1, <3>1, <3>3, <3>4
  <2> QED BY <2>2, <2>3 DEF Known
<1>5. room.recallMostRecent => Firm(g)
  BY <1>1, <1>2 DEF Tidy, Firm, End
<1> QED BY <1>2, <1>3, <1>4, <1>5 DEF Tidy, g

\* Putting the same text in place of a last entry that has it as its scratch.
LEMMA SameLastTidy ==
  ASSUME NEW h, Tidy(h), Last(h) > 0, NEW line \in Lines, Text(h, Last(h)) = line
  PROVE  Tidy([h EXCEPT !.entries[Last(h)] = Entry(line)])
<1> DEFINE N == Last(h)
           g == [h EXCEPT !.entries[N] = Entry(line)]
<1>1. h \in Object /\ Sound(h) /\ N \in Nat /\ N > 0 /\ Entry(line) \in EntryType
  BY LastIs, EntryIs DEF Tidy, Sound
<1>2. /\ g \in Object /\ Last(g) = N /\ g.locations = h.locations
      /\ g.current = h.current /\ g.previous = h.previous /\ g.yankPos = h.yankPos
      /\ g.recallMostRecent = h.recallMostRecent /\ g.unique = h.unique
      /\ \A i \in 1..N : g.entries[i] = IF i = N THEN Entry(line) ELSE h.entries[i]
  BY <1>1, LastReplaced
<1> HIDE DEF g
<1>3. Sound(g)
  BY <1>1, <1>2 DEF Sound
<1>4. ASSUME h.unique PROVE Fresh(g) /\ Known(g, N)
  <2>1. /\ \A i \in 1..N : h.entries[i].scratch = h.entries[i].text
        /\ Known(h, N) /\ Positions(g) = 1..N
    BY <1>1, <1>2, <1>4, LastIs DEF Tidy, Fresh
  <2>2. h.entries[N].text = line
    BY <1>1, <2>1 DEF Text
  <2>3. \A i \in 1..N : g.entries[i].text = h.entries[i].text
                          /\ g.entries[i].scratch = g.entries[i].text
    BY <1>2, <2>1, <2>2, EntryIs
  <2> QED BY <1>2, <2>1, <2>3 DEF Fresh, Known
<1>5. h.recallMostRecent => Firm(g)
  BY <1>2 DEF Tidy, Firm
<1> QED BY <1>2, <1>3, <1>4, <1>5 DEF Tidy, g

\* add() keeps what holds between operations, and the last entry is the line.
LEMMA AddTidy ==
  ASSUME NEW h, Tidy(h), h.yankPos = End, Last(h) <= h.maxSize + 1, NEW line \in Lines
  PROVE  LET g == Add(h, line)
         IN /\ Tidy(g) /\ g.yankPos = End /\ Last(g) \in 1..(h.maxSize + 1)
            /\ g.maxSize = h.maxSize /\ g.unique = h.unique
            /\ g.recallMostRecent = h.recallMostRecent
            /\ g.entries[Last(g)] = Entry(line)
<1> DEFINE room == TrimToMaxSize(RemoveDuplicate(h, line))
<1>1. h \in Object /\ Sound(h) /\ Last(h) \in Nat /\ h.maxSize \in Nat
  BY LastIs DEF Tidy, Sound, Object
<1>2. CASE h.entries # <<>> /\ Text(h, Last(h)) = line
  <2>1. Last(h) > 0
    <3>1. h.entries \in Seq(EntryType)
      BY <1>1 DEF Object
    <3> QED BY <1>2, <3>1 DEF Last
  <2> DEFINE g == [h EXCEPT !.entries[Last(h)] = Entry(line)]
  <2>2. Add(h, line) = g
    BY <1>2, AddIs
  <2>3. Tidy(g)
    BY <1>2, <2>1, SameLastTidy
  <2>4. /\ Last(g) = Last(h) /\ g.maxSize = h.maxSize /\ g.yankPos = h.yankPos
        /\ g.recallMostRecent = h.recallMostRecent /\ g.unique = h.unique
        /\ \A i \in 1..Last(h) : i = Last(h) => g.entries[i] = Entry(line)
    BY <1>1, <2>1, EntryIs, LastReplaced
  <2> HIDE DEF g
  <2> QED BY <1>1, <2>1, <2>2, <2>3, <2>4
<1>3. CASE ~(h.entries # <<>> /\ Text(h, Last(h)) = line)
  <2>1. Add(h, line) = Appended(room, line)
    BY <1>3, AddIs
  <2>2. /\ Tidy(room) /\ room.maxSize = h.maxSize /\ room.unique = h.unique
        /\ room.recallMostRecent = h.recallMostRecent
        /\ h.unique => room.locations[line] = End
        /\ Last(room) <= h.maxSize
    BY RoomIs
  <2> HIDE DEF room
  <2>3. Tidy(Appended(room, line))
    BY <2>2, AppendedTidy
  <2>4. room \in Object /\ Last(room) \in Nat
    BY <2>2, LastIs DEF Tidy, Sound
  <2>5. LET g == Appended(room, line)
        IN /\ Last(g) = Last(room) + 1 /\ g.yankPos = End
           /\ g.entries[Last(room) + 1] = Entry(line)
           /\ g.maxSize = room.maxSize
           /\ g.recallMostRecent = room.recallMostRecent /\ g.unique = room.unique
    BY <2>4, AppendedIs
  <2> QED BY <1>1, <2>1, <2>2, <2>3, <2>4, <2>5
<1> QED BY <1>2, <1>3

-----------------------------------------------------------------------------
(* update_last()                                                            *)

\* The object with no location for a text.
LEMMA UnlocatedIs ==
  ASSUME NEW h \in Object, NEW line \in Lines
  PROVE  LET g == [h EXCEPT !.locations[line] = End]
         IN /\ g \in Object /\ g.entries = h.entries /\ g.maxSize = h.maxSize
            /\ g.current = h.current /\ g.previous = h.previous /\ g.yankPos = h.yankPos
            /\ g.recallMostRecent = h.recallMostRecent /\ g.unique = h.unique
            /\ \A other \in Lines :
                 g.locations[other] = IF other = line THEN End ELSE h.locations[other]
<1>1. h.locations \in [Lines -> Int] /\ End \in Int
  BY DEF Object, End
<1>2. PICK l \in [Lines -> Int] : l = [h.locations EXCEPT ![line] = End]
  BY <1>1
<1>3. [h EXCEPT !.locations[line] = End] = [h EXCEPT !.locations = l]
  BY <1>2 DEF Object
<1> QED BY <1>1, <1>2, <1>3 DEF Object

\* The last entry is forgotten, the others stay known.
LEMMA WithoutLastIs ==
  ASSUME NEW h, Tidy(h), Last(h) > 0, h.unique
  PROVE  LET w == WithoutLast(h)
         IN /\ Sound(w) /\ Fresh(w) /\ Known(w, Last(h) - 1) /\ Last(w) = Last(h)
            /\ w.entries = h.entries /\ w.maxSize = h.maxSize /\ w.unique
            /\ w.current = h.current /\ w.previous = h.previous /\ w.yankPos = h.yankPos
            /\ w.recallMostRecent = h.recallMostRecent
<1> DEFINE N == Last(h)
           w == WithoutLast(h)
<1>1. h \in Object /\ Sound(h) /\ Fresh(h) /\ Known(h, N) /\ N \in Nat /\ N > 0
  BY LastIs DEF Tidy, Sound
<1>2. \A i \in 1..N : h.entries[i].text = h.entries[i].scratch /\ h.entries[i].text \in Lines
  BY <1>1, LastIs DEF Fresh, EntryType
<1>3. PICK line \in Lines : line = h.entries[N].text /\ line = Text(h, N)
  BY <1>1, <1>2 DEF Text
<1>4. w = [h EXCEPT !.locations[line] = End]
  BY <1>3 DEF WithoutLast
<1>5. /\ w \in Object /\ w.entries = h.entries /\ w.maxSize = h.maxSize
      /\ w.current = h.current /\ w.previous = h.previous /\ w.yankPos = h.yankPos
      /\ w.recallMostRecent = h.recallMostRecent /\ w.unique = h.unique
      /\ \A other \in Lines :
           w.locations[other] = IF other = line THEN End ELSE h.locations[other]
  <2>1. LET g == [h EXCEPT !.locations[line] = End]
        IN /\ g \in Object /\ g.entries = h.entries /\ g.maxSize = h.maxSize
           /\ g.current = h.current /\ g.previous = h.previous /\ g.yankPos = h.yankPos
           /\ g.recallMostRecent = h.recallMostRecent /\ g.unique = h.unique
           /\ \A other \in Lines :
                g.locations[other] = IF other = line THEN End ELSE h.locations[other]
    BY <1>1, UnlocatedIs
  <2> HIDE DEF w
  <2> QED BY <1>4, <2>1
<1> HIDE DEF w
<1>6. Last(w) = N /\ Positions(w) = 1..N /\ Positions(h) = 1..N
  BY <1>1, <1>5, LastIs DEF Last
<1>7. Sound(w)
  <2>1. \A other \in Lines : w.locations[other] \in Dangling..N
    BY <1>1, <1>5 DEF Sound, End, Dangling
  <2> QED BY <1>1, <1>5, <1>6, <2>1 DEF Sound
<1>8. Known(w, N - 1)
  <2>1. ASSUME NEW other \in Lines
        PROVE  /\ w.locations[other] \in 0..(N - 1)
               /\ \A i \in 1..(N - 1) : w.locations[other] = i <=> w.entries[i].text = other
    <3>1. /\ h.locations[other] \in 0..N
          /\ \A i \in 1..N : h.locations[other] = i <=> h.entries[i].text = other
      BY <1>1 DEF Known
    <3>4. N \in 1..N
      BY <1>1
    <3>2. CASE other = line
      <4>1. w.locations[other] = 0
        BY <1>5, <3>2 DEF End
      <4>2. h.locations[other] = N
        BY <1>3, <3>1, <3>2, <3>4
      <4> QED BY <1>1, <1>5, <3>1, <4>1, <4>2
    <3>3. CASE other # line
      <4>1. w.locations[other] = h.locations[other]
        BY <1>5, <3>3
      <4>2. h.locations[other] # N
        BY <1>3, <3>1, <3>3, <3>4
      <4> QED BY <1>1, <1>5, <3>1, <4>1, <4>2
    <3> QED BY <3>2, <3>3
  <2> QED BY <2>1 DEF Known
<1>9. Fresh(w)
  BY <1>2, <1>5, <1>6 DEF Fresh
<1> QED BY <1>5, <1>6, <1>7, <1>8, <1>9 DEF w

\* The duplicate of the line goes; what is left is known but for the last entry.
LEMMA AloneIs ==
  ASSUME NEW h, Tidy(h), Last(h) > 0, h.current = Last(h), h.unique, NEW line \in Lines
  PROVE  LET alone == RemoveDuplicate(WithoutLast(h), line)
         IN /\ Sound(alone) /\ Fresh(alone) /\ Known(alone, Last(alone) - 1)
            /\ alone.locations[line] = End /\ Last(alone) \in 1..Last(h)
            /\ alone.current = Last(alone) /\ alone.unique
            /\ alone.previous \in {h.previous, alone.current}
            /\ alone.yankPos = End \/ (alone.yankPos = h.yankPos /\ Last(alone) = Last(h))
            /\ alone.previous = h.previous => Last(alone) = Last(h) \/ alone.previous = alone.current
            /\ alone.maxSize = h.maxSize /\ alone.recallMostRecent = h.recallMostRecent
<1> DEFINE N == Last(h)
           w == WithoutLast(h)
           alone == RemoveDuplicate(w, line)
<1>1. /\ Sound(w) /\ Fresh(w) /\ Known(w, N - 1) /\ Last(w) = N
      /\ w.entries = h.entries /\ w.maxSize = h.maxSize /\ w.unique
      /\ w.current = h.current /\ w.previous = h.previous /\ w.yankPos = h.yankPos
      /\ w.recallMostRecent = h.recallMostRecent
  BY WithoutLastIs
<1> HIDE DEF w
<1>2. N \in Nat /\ N > 0 /\ Positions(w) = 1..N
  BY <1>1, LastIs DEF Sound
<1>3. \/ alone = w /\ w.locations[line] = End
      \/ \E i \in 1..(N - 1) : w.entries[i].text = line /\ alone = Erase(w, i)
  BY <1>1, DuplicateIs
<1>4. CASE alone = w /\ w.locations[line] = End
  BY <1>1, <1>2, <1>4 DEF w
<1>5. CASE \E i \in 1..(N - 1) : w.entries[i].text = line /\ alone = Erase(w, i)
  <2>1. PICK i \in 1..(N - 1) : w.entries[i].text = line /\ alone = Erase(w, i)
    BY <1>5
  <2>2. i \in Positions(w) /\ N - 1 \in i..Last(w)
    BY <1>1, <1>2
  <2> HIDE DEF alone
  <2>3. Fresh(alone) /\ Known(alone, N - 2) /\ alone.locations[line] = End
    <3>1. Known(Erase(w, i), N - 1 - 1) /\ Fresh(Erase(w, i))
          /\ Erase(w, i).locations[w.entries[i].text] = End
      BY <1>1, <2>2, EraseKnown
    <3>2. N - 1 - 1 = N - 2
      BY <1>2
    <3> QED BY <2>1, <3>1, <3>2
  <2>4. /\ Sound(alone) /\ alone.yankPos = End /\ alone.maxSize = w.maxSize
        /\ alone.unique = w.unique /\ alone.recallMostRecent = w.recallMostRecent
    BY <1>1, <2>1, <2>2, EraseRest
  <2>5. alone.current = CurrentAfter(w, i) /\ alone.previous = alone.current /\ Last(alone) = N - 1
    <3>1. LET g == Erase(w, i)
          IN g.current = CurrentAfter(w, i) /\ g.previous = g.current /\ Last(g) = Last(w) - 1
      BY ZenonT(30), <1>1, <2>2, EraseGives
    <3> QED BY <1>1, <2>1, <3>1
  <2>6. alone.current = N - 1
    BY <1>1, <1>2, <2>5 DEF CurrentAfter, Follow, End
  <2>7. N - 1 - 1 = N - 2 /\ N - 1 \in 1..N
    BY <1>2
  <2> QED BY <1>1, <2>3, <2>4, <2>5, <2>6, <2>7 DEF w, alone
<1> QED BY <1>3, <1>4, <1>5

\* update_last() keeps what holds between operations; the last entry is the line
\* and _current stays on it.
LEMMA UpdateLastTidy ==
  ASSUME NEW h, Tidy(h), Last(h) > 0, h.current = Last(h), NEW line \in Lines
  PROVE  LET g == UpdateLast(h, line)
         IN /\ Tidy(g) /\ Last(g) \in 1..Last(h) /\ g.current = Last(g)
            /\ g.entries[Last(g)] = Entry(line)
            /\ g.maxSize = h.maxSize /\ g.unique = h.unique
            /\ g.recallMostRecent = h.recallMostRecent
            /\ g.yankPos = End \/ (g.yankPos = h.yankPos /\ Last(g) = Last(h))
<1> DEFINE N == Last(h)
           alone == RemoveDuplicate(WithoutLast(h), line)
           M == Last(alone)
           known == IF h.unique THEN Located(alone, line, M) ELSE alone
           g == UpdateLast(h, line)
<1>1. h \in Object /\ Sound(h) /\ N \in Nat /\ N > 0 /\ Entry(line) \in EntryType
  BY LastIs, EntryIs DEF Tidy, Sound
<1>2. g = [known EXCEPT !.entries[Last(known)] = Entry(line)]
  BY DEF UpdateLast
<1>3. CASE ~h.unique
  <2>1. known = h
    BY <1>3 DEF WithoutLast, RemoveDuplicate
  <2> HIDE DEF known, g, N
  <2>2. /\ g \in Object /\ Last(g) = N /\ g.maxSize = h.maxSize
        /\ g.current = h.current /\ g.previous = h.previous /\ g.yankPos = h.yankPos
        /\ g.recallMostRecent = h.recallMostRecent /\ g.unique = h.unique
        /\ g.locations = h.locations
        /\ \A i \in 1..N : g.entries[i] = IF i = N THEN Entry(line) ELSE h.entries[i]
    <3>1. LET f == [h EXCEPT !.entries[Last(h)] = Entry(line)]
          IN /\ f \in Object /\ Last(f) = Last(h) /\ f.maxSize = h.maxSize
             /\ f.current = h.current /\ f.previous = h.previous /\ f.yankPos = h.yankPos
             /\ f.recallMostRecent = h.recallMostRecent /\ f.unique = h.unique
             /\ f.locations = h.locations
             /\ \A i \in 1..Last(h) :
                  f.entries[i] = IF i = Last(h) THEN Entry(line) ELSE h.entries[i]
      BY <1>1, LastReplaced DEF N
    <3> QED BY <1>2, <2>1, <3>1 DEF N
  <2>3. Sound(g)
    BY <1>1, <2>2 DEF Sound, N
  <2>4. h.recallMostRecent => Firm(g)
    BY <2>2 DEF Tidy, Firm, N
  <2>5. Tidy(g) /\ N \in 1..N /\ g.entries[N] = Entry(line)
    BY <1>1, <1>3, <2>2, <2>3, <2>4 DEF Tidy
  <2> QED BY <2>2, <2>5 DEF N, g
<1>4. CASE h.unique
  <2>1. /\ Sound(alone) /\ Fresh(alone) /\ Known(alone, M - 1)
        /\ alone.locations[line] = End /\ M \in 1..N
        /\ alone.current = M /\ alone.unique
        /\ alone.previous \in {h.previous, alone.current}
        /\ alone.previous = h.previous => M = N \/ alone.previous = alone.current
        /\ alone.yankPos = End \/ (alone.yankPos = h.yankPos /\ M = N)
        /\ alone.maxSize = h.maxSize /\ alone.recallMostRecent = h.recallMostRecent
    BY <1>4, AloneIs
  <2> HIDE DEF alone
  <2>2. alone \in Object /\ M \in Int /\ known = Located(alone, line, M) /\ Positions(alone) = 1..M
    BY <1>4, <2>1, LastIs DEF Sound
  <2> HIDE DEF M
  <2>3. /\ known \in Object /\ known.entries = alone.entries /\ known.maxSize = alone.maxSize
        /\ known.current = M /\ known.previous = alone.previous
        /\ known.yankPos = alone.yankPos
        /\ known.recallMostRecent = alone.recallMostRecent /\ known.unique
        /\ \A other \in Lines :
             known.locations[other] = IF other = line THEN M ELSE alone.locations[other]
    <3>1. LET f == Located(alone, line, M)
          IN /\ f \in Object /\ f.entries = alone.entries /\ f.maxSize = alone.maxSize
             /\ f.current = alone.current /\ f.previous = alone.previous
             /\ f.yankPos = alone.yankPos
             /\ f.recallMostRecent = alone.recallMostRecent /\ f.unique = alone.unique
             /\ \A other \in Lines :
                  f.locations[other] = IF other = line /\ alone.locations[line] = End
                                         THEN M ELSE alone.locations[other]
      BY <2>2, LocatedIs
    <3> HIDE DEF known
    <3> QED BY <2>1, <2>2, <3>1
  <2> HIDE DEF known
  <2>4. Last(known) = M /\ M > 0
    BY <2>1, <2>3 DEF Last, M
  <2>5. /\ g \in Object /\ Last(g) = M /\ g.maxSize = h.maxSize
        /\ g.current = M /\ g.previous = alone.previous /\ g.yankPos = alone.yankPos
        /\ g.recallMostRecent = h.recallMostRecent /\ g.unique
        /\ g.locations = known.locations
        /\ \A i \in 1..M : g.entries[i] = IF i = M THEN Entry(line) ELSE alone.entries[i]
    <3>1. LET f == [known EXCEPT !.entries[Last(known)] = Entry(line)]
          IN /\ f \in Object /\ Last(f) = Last(known) /\ f.maxSize = known.maxSize
             /\ f.current = known.current /\ f.previous = known.previous
             /\ f.yankPos = known.yankPos
             /\ f.recallMostRecent = known.recallMostRecent /\ f.unique = known.unique
             /\ f.locations = known.locations
             /\ \A i \in 1..Last(known) :
                  f.entries[i] = IF i = Last(known) THEN Entry(line) ELSE known.entries[i]
      BY <1>1, <2>3, <2>4, LastReplaced
    <3> HIDE DEF g
    <3> QED BY <1>2, <2>1, <2>3, <2>4, <3>1
  <2> HIDE DEF g
  <2>6. Known(g, M)
    <3>1. ASSUME NEW other \in Lines
          PROVE  /\ g.locations[other] \in 0..M
                 /\ \A i \in 1..M : g.locations[other] = i <=> g.entries[i].text = other
      <4>1. /\ alone.locations[other] \in 0..(M - 1) /\ alone.locations[line] = 0
            /\ \A i \in 1..(M - 1) :
                 /\ alone.locations[other] = i <=> alone.entries[i].text = other
                 /\ alone.locations[line] = i <=> alone.entries[i].text = line
        BY <2>1 DEF Known, End
      <4>2. g.locations[other] = IF other = line THEN M ELSE alone.locations[other]
        BY <2>3, <2>5
      <4>3. g.entries[M].text = line
        BY <2>1, <2>5, EntryIs
      <4>4. ASSUME NEW i \in 1..M PROVE g.locations[other] = i <=> g.entries[i].text = other
        <5>1. CASE i = M
          BY <2>1, <4>1, <4>2, <4>3, <5>1
        <5>2. CASE i # M
          <6>1. i \in 1..(M - 1) /\ g.entries[i] = alone.entries[i]
            BY <2>1, <2>5, <5>2
          <6> QED BY <2>1, <4>1, <4>2, <5>2, <6>1
        <5> QED BY <5>1, <5>2
      <4> QED BY <2>1, <4>1, <4>2, <4>4
    <3> QED BY <3>1 DEF Known
  <2>7. Fresh(g)
    <3>1. \A i \in 1..M : alone.entries[i].scratch = alone.entries[i].text
      BY <2>1, <2>2 DEF Fresh
    <3>2. Positions(g) = 1..M
      BY <2>5, LastIs
    <3> QED BY <2>5, <3>1, <3>2, EntryIs DEF Fresh
  <2>8. Sound(g)
    <3>1. \A other \in Lines : g.locations[other] \in Dangling..M
      BY <2>1, <2>6 DEF Known, Dangling
    <3>2. alone.previous \in Dangling..M /\ alone.yankPos \in Dangling..M /\ M \in Dangling..M
      BY <2>1 DEF Sound, M, Dangling
    <3> QED BY <2>5, <3>1, <3>2 DEF Sound
  <2>9. h.recallMostRecent => Firm(g)
    <3>1. h.recallMostRecent => h.previous \in 0..N
      BY DEF Tidy, Firm
    <3> QED BY <2>1, <2>5, <3>1 DEF Firm
  <2>10. Tidy(g) /\ g.entries[M] = Entry(line)
    BY <2>1, <2>5, <2>6, <2>7, <2>8, <2>9 DEF Tidy
  <2> QED BY <1>4, <2>1, <2>5, <2>10 DEF g
<1> QED BY <1>3, <1>4

-----------------------------------------------------------------------------
(* The other operations.                                                    *)

\* Scratches may change where the texts stay, in a unique history to the texts.
LEMMA EntriesReplaced ==
  ASSUME NEW h, Tidy(h), NEW g \in Object, Last(g) = Last(h),
         \A i \in 1..Last(h) : g.entries[i].text = h.entries[i].text,
         h.unique => \A i \in 1..Last(h) : g.entries[i].scratch = g.entries[i].text,
         g.locations = h.locations, g.current = h.current, g.previous = h.previous,
         g.yankPos = h.yankPos, g.unique = h.unique,
         g.recallMostRecent = h.recallMostRecent
  PROVE  Tidy(g)
<1>1. Sound(h) /\ Positions(g) = 1..Last(h)
  BY LastIs DEF Tidy
<1>2. Sound(g)
  BY <1>1 DEF Sound
<1>3. h.unique => Fresh(g) /\ Known(g, Last(h))
  BY <1>1 DEF Tidy, Fresh, Known
<1>4. h.recallMostRecent => Firm(g)
  BY DEF Tidy, Firm
<1> QED BY <1>2, <1>3, <1>4 DEF Tidy

\* The iterators may go to any entry, or to the end.
LEMMA IteratorsMoved ==
  ASSUME NEW h, Tidy(h), NEW g \in Object, g.entries = h.entries,
         g.locations = h.locations, g.unique = h.unique,
         g.current \in Dangling..Last(h), g.previous \in Dangling..Last(h),
         g.yankPos \in Dangling..Last(h),
         g.recallMostRecent => g.current # Dangling /\ g.previous # Dangling
  PROVE  Tidy(g) /\ Last(g) = Last(h)
<1>1. Last(g) = Last(h) /\ Positions(g) = Positions(h) /\ Last(h) \in Nat
  BY LastIs DEF Last, Positions, Tidy, Sound
<1>2. Sound(g)
  BY <1>1 DEF Sound, Tidy
<1>3. h.unique => Fresh(g) /\ Known(g, Last(h))
  BY <1>1 DEF Tidy, Fresh, Known
<1>4. g.recallMostRecent => Firm(g)
  BY <1>1 DEF Firm, Dangling
<1> QED BY <1>1, <1>2, <1>3, <1>4 DEF Tidy

\* Trimming keeps what holds between operations.
LEMMA TrimTidy ==
  ASSUME NEW h, Tidy(h), h.yankPos = End
  PROVE  LET g == TrimToMaxSize(h)
         IN /\ Tidy(g) /\ g.yankPos = End /\ g.maxSize = h.maxSize /\ g.unique = h.unique
            /\ g.recallMostRecent = h.recallMostRecent /\ Last(g) <= h.maxSize
<1> DEFINE P == {g \in Object : /\ Tidy(g) /\ g.yankPos = End /\ g.maxSize = h.maxSize
                                /\ g.unique = h.unique
                                /\ g.recallMostRecent = h.recallMostRecent}
<1>1. h \in P /\ Last(h) \in Nat /\ h.maxSize \in Nat
  BY LastIs DEF Tidy, Sound, Object
<1>2. ASSUME NEW f \in P, 1 \in Positions(f) PROVE Erase(f, 1) \in P
  <2>1. Sound(f) /\ Tidy(f)
    BY DEF Tidy
  <2>2. Tidy(Erase(f, 1))
    BY <1>2, <2>1, EraseTidy
  <2>3. /\ Erase(f, 1) \in Object /\ Erase(f, 1).yankPos = End
        /\ Erase(f, 1).maxSize = f.maxSize /\ Erase(f, 1).unique = f.unique
        /\ Erase(f, 1).recallMostRecent = f.recallMostRecent
    BY <1>2, <2>1, EraseRest
  <2> QED BY <2>2, <2>3
<1>3. \A f \in P : /\ Tidy(f) /\ f.yankPos = End /\ f.maxSize = h.maxSize
                   /\ f.unique = h.unique /\ f.recallMostRecent = h.recallMostRecent
                   /\ Sound(f)
  BY DEF Tidy
<1> HIDE DEF P
<1>4. /\ TrimToMaxSize(h) \in P
      /\ Last(TrimToMaxSize(h)) = IF Last(h) > h.maxSize THEN h.maxSize ELSE Last(h)
  BY <1>1, <1>2, <1>3, TrimKeeps
<1> QED BY <1>1, <1>3, <1>4

\* Keeping some entries, in terms of positions.
LEMMA KeepIs ==
  ASSUME NEW h, Sound(h), NEW S \in SUBSET Positions(h), h.yankPos = End
  PROVE  LET g == Keep(h, S)
         IN /\ Sound(g) /\ Last(g) = Cardinality(S) /\ Last(g) <= Last(h)
            /\ \A k \in 1..Cardinality(S) : g.entries[k] = h.entries[Nth(S, k)]
            /\ g.yankPos = End /\ g.maxSize = h.maxSize /\ g.unique = h.unique
            /\ g.recallMostRecent = h.recallMostRecent
<1> DEFINE N == Last(h)
           C == Cardinality(S)
           moved(p) == IF p \in S THEN Rank(S, p) ELSE IF p = End THEN End ELSE Dangling
           entries == [k \in 1..C |-> h.entries[Nth(S, k)]]
           g == Keep(h, S)
<1>1. /\ h \in Object /\ N \in Nat /\ S \in SUBSET (1..N)
      /\ \A i \in 1..N : h.entries[i] \in EntryType
  BY LastIs DEF Sound
<1>2. g = [h EXCEPT !.entries = entries,
                    !.locations = [line \in Lines |-> moved(h.locations[line])],
                    !.current = moved(h.current), !.previous = moved(h.previous),
                    !.yankPos = moved(h.yankPos)]
  BY <1>1 DEF Keep, Rank, Nth, Object
<1>3. C \in 0..N /\ \A i \in S : Rank(S, i) \in 1..C
  BY <1>1, Ranks
<1>4. \A k \in 1..C : Nth(S, k) \in S
  BY <1>1, NthIs
<1>5. \A p : moved(p) \in Dangling..C
  BY <1>3 DEF Dangling, End
<1>6. moved(End) = End
  BY <1>1 DEF End
<1> HIDE DEF C, moved
<1>7. entries \in Seq(EntryType) /\ Len(entries) = C
  <2>1. entries \in [1..C -> EntryType]
    BY <1>1, <1>4
  <2> HIDE DEF entries
  <2> QED BY <1>3, <2>1, SeqDef
<1>8. PICK l \in [Lines -> Int] : l = [line \in Lines |-> moved(h.locations[line])]
  <2>1. \A p : moved(p) \in Int
    BY <1>5 DEF Dangling
  <2>2. [line \in Lines |-> moved(h.locations[line])] \in [Lines -> Int]
    BY <2>1
  <2> QED BY <2>2
<1>9. moved(h.current) \in Int /\ moved(h.previous) \in Int /\ moved(h.yankPos) \in Int
  BY <1>5 DEF Dangling
<1> HIDE DEF entries, g
<1>10. g \in Object
  BY <1>1, <1>2, <1>7, <1>8, <1>9, ObjectWith
<1>11. /\ g.entries = entries /\ g.locations = l
       /\ g.current = moved(h.current) /\ g.previous = moved(h.previous)
       /\ g.yankPos = moved(h.yankPos)
       /\ g.maxSize = h.maxSize /\ g.unique = h.unique
       /\ g.recallMostRecent = h.recallMostRecent
  BY <1>1, <1>2, <1>8 DEF Object
<1>12. Last(g) = C
  BY <1>7, <1>11 DEF Last
<1>13. Sound(g)
  <2>1. \A line \in Lines : g.locations[line] \in Dangling..C
    BY <1>5, <1>8, <1>11
  <2> QED BY <1>5, <1>10, <1>11, <1>12, <2>1 DEF Sound
<1>14. Last(g) <= N /\ g.yankPos = End
  BY <1>1, <1>3, <1>6, <1>11, <1>12
<1>15. \A k \in 1..C : g.entries[k] = h.entries[Nth(S, k)]
  BY <1>11 DEF entries
<1> QED BY <1>11, <1>12, <1>13, <1>14, <1>15 DEF g, C

\* clear() leaves nothing, and with it nothing to be wrong.
LEMMA ClearTidy ==
  ASSUME NEW h, Sound(h), h.yankPos = End
  PROVE  LET g == Clear(h)
         IN /\ Tidy(g) /\ Last(g) = 0 /\ g.yankPos = End /\ g.maxSize = h.maxSize
            /\ g.unique = h.unique /\ ~g.recallMostRecent
<1> DEFINE none == Keep(h, {})
           g == Clear(h)
<1>1. /\ Sound(none) /\ Last(none) = Cardinality({})
      /\ none.yankPos = End /\ none.maxSize = h.maxSize /\ none.unique = h.unique
  <2>1. {} \in SUBSET Positions(h)
    OBVIOUS
  <2>2. LET f == Keep(h, {})
        IN /\ Sound(f) /\ Last(f) = Cardinality({})
           /\ f.yankPos = End /\ f.maxSize = h.maxSize /\ f.unique = h.unique
    BY <2>1, KeepIs
  <2> QED BY <2>2
<1>2. Cardinality({}) = 0
  BY FS_EmptySet
<1>3. g = [none EXCEPT !.locations = NoLocations, !.current = End, !.recallMostRecent = FALSE]
  BY DEF Clear
<1> HIDE DEF none, g
<1>4. none \in Object /\ NoLocations \in [Lines -> Int] /\ End \in Int
  BY <1>1 DEF Sound, NoLocations, End
<1>5. /\ g \in Object /\ g.entries = none.entries /\ g.locations = NoLocations
      /\ g.current = End /\ g.previous = none.previous /\ g.yankPos = none.yankPos
      /\ g.maxSize = none.maxSize /\ g.unique = none.unique /\ ~g.recallMostRecent
  BY <1>3, <1>4 DEF Object
<1>6. Last(g) = 0 /\ Last(none) = 0 /\ Positions(g) = 1..0
  BY <1>1, <1>2, <1>5, LastIs DEF Last
<1>7. Sound(g)
  <2>1. \A line \in Lines : g.locations[line] = 0
    BY <1>5 DEF NoLocations, End
  <2> QED BY <1>1, <1>5, <1>6, <2>1 DEF Sound, Dangling, End
<1>8. Fresh(g) /\ Known(g, 0)
  BY <1>5, <1>6 DEF Fresh, Known, NoLocations, End
<1> QED BY <1>1, <1>5, <1>6, <1>7, <1>8 DEF Tidy, g

\* The last entry of each text.
Newest(h) == {i \in Positions(h) : \A j \in Positions(h) :
                j > i => h.entries[j].text # h.entries[i].text}

\* remove_duplicates() makes all of it exact, whatever the locations were.
LEMMA UniqueTidy ==
  ASSUME NEW h, Sound(h), h.yankPos = End, ~h.recallMostRecent
  PROVE  LET g == RemoveDuplicates(h)
         IN /\ Tidy(g) /\ Last(g) <= Last(h) /\ g.yankPos = End /\ g.maxSize = h.maxSize
            /\ g.unique = h.unique /\ ~g.recallMostRecent
<1> DEFINE g == RemoveDuplicates(h)
           kept == Keep(h, Newest(h))
           C == Cardinality(Newest(h))
<1>1. h \in Object /\ Last(h) \in Nat /\ Positions(h) = 1..Last(h)
  BY LastIs DEF Sound
<1>2. CASE ~h.unique
  <2>1. g = h
    BY <1>2 DEF RemoveDuplicates
  <2>2. Tidy(h) /\ Last(h) <= Last(h)
    BY <1>1, <1>2 DEF Tidy
  <2> QED BY <2>1, <2>2, Zenon
<1>3. CASE h.unique
  <2>1. /\ Sound(kept) /\ Last(kept) = C /\ Last(kept) <= Last(h)
        /\ \A k \in 1..C : kept.entries[k] = h.entries[Nth(Newest(h), k)]
        /\ kept.yankPos = End /\ kept.maxSize = h.maxSize /\ kept.unique = h.unique
        /\ kept.recallMostRecent = h.recallMostRecent
    <3>1. Newest(h) \in SUBSET Positions(h)
      BY DEF Newest
    <3>2. LET f == Keep(h, Newest(h))
          IN /\ Sound(f) /\ Last(f) = C /\ Last(f) <= Last(h)
             /\ \A k \in 1..C : f.entries[k] = h.entries[Nth(Newest(h), k)]
             /\ f.yankPos = End /\ f.maxSize = h.maxSize /\ f.unique = h.unique
             /\ f.recallMostRecent = h.recallMostRecent
      BY <3>1, KeepIs
    <3> QED BY <3>2
  <2> DEFINE entries == [i \in Positions(kept) |-> Entry(kept.entries[i].text)]
             locations == [line \in Lines |->
                IF \E i \in Positions(kept) : kept.entries[i].text = line
                  THEN CHOOSE i \in Positions(kept) : kept.entries[i].text = line
                  ELSE End]
  <2>2. g = [kept EXCEPT !.entries = entries, !.locations = locations]
    BY <1>3 DEF RemoveDuplicates, Newest
  <2> HIDE DEF kept
  <2>3. /\ kept \in Object /\ C \in Nat /\ Positions(kept) = 1..C
        /\ \A i \in 1..C : kept.entries[i] \in EntryType
    BY <2>1, LastIs DEF Sound
  <2>4. ASSUME NEW i \in 1..C, NEW j \in 1..C, i # j
        PROVE  kept.entries[i].text # kept.entries[j].text
    <3>1. \A k \in 1..C : Nth(Newest(h), k) \in Newest(h) /\ Rank(Newest(h), Nth(Newest(h), k)) = k
      <4>1. Newest(h) \in SUBSET (1..Last(h))
        BY <1>1 DEF Newest
      <4> QED BY <1>1, <4>1, NthIs
    <3>2. PICK a \in Newest(h) : a = Nth(Newest(h), i) /\ Rank(Newest(h), a) = i
      BY <3>1
    <3>3. PICK b \in Newest(h) : b = Nth(Newest(h), j) /\ Rank(Newest(h), b) = j
      BY <3>1
    <3>4. a # b /\ a \in 1..Last(h) /\ b \in 1..Last(h)
      BY <1>1, <2>4, <3>2, <3>3 DEF Newest
    <3>5. h.entries[a].text # h.entries[b].text
      <4>1. CASE a < b
        BY <1>1, <3>4, <4>1 DEF Newest
      <4>2. CASE b < a
        BY <1>1, <3>4, <4>2 DEF Newest
      <4> QED BY <3>4, <4>1, <4>2
    <3> QED BY <2>1, <3>2, <3>3, <3>5
  <2>5. PICK s \in [1..C -> EntryType] : s = entries
    <3>1. \A i \in 1..C : Entry(kept.entries[i].text) \in EntryType
      BY <2>3, EntryIs DEF EntryType
    <3>2. entries \in [1..C -> EntryType]
      BY <2>3, <3>1
    <3> QED BY <3>2
  <2>6. \A i \in 1..C : s[i].text = kept.entries[i].text /\ s[i].scratch = s[i].text
    BY <2>3, <2>5, EntryIs DEF EntryType
  <2>7. /\ \A line \in Lines : locations[line] \in 0..C
        /\ \A line \in Lines, i \in 1..C : locations[line] = i <=> s[i].text = line
    <3> SUFFICES ASSUME NEW line \in Lines
                 PROVE  /\ locations[line] \in 0..C
                        /\ \A i \in 1..C : locations[line] = i <=> s[i].text = line
      OBVIOUS
    <3>1. CASE \E i \in 1..C : kept.entries[i].text = line
      <4>1. PICK i \in 1..C : i = locations[line] /\ kept.entries[i].text = line
        BY <2>3, <3>1
      <4> HIDE DEF locations
      <4> QED BY <2>3, <2>4, <2>6, <4>1
    <3>2. CASE ~\E i \in 1..C : kept.entries[i].text = line
      <4>1. locations[line] = 0
        BY <2>3, <3>2 DEF End
      <4> HIDE DEF locations
      <4> QED BY <2>3, <2>6, <3>2, <4>1
    <3> QED BY <3>1, <3>2
  <2>8. PICK l \in [Lines -> Int] : l = locations
    <3>1. \A line \in Lines : locations[line] \in Int
      <4> HIDE DEF locations
      <4> QED BY <2>3, <2>7
    <3>2. locations \in [Lines -> Int]
      BY <3>1
    <3> QED BY <3>2
  <2> HIDE DEF locations, g
  <2>9. s \in Seq(EntryType) /\ Len(s) = C
    BY <2>3, SeqDef
  <2> HIDE DEF entries
  <2>10. g = [kept EXCEPT !.entries = s, !.locations = l]
    BY <2>2, <2>5, <2>8
  <2>11. /\ g \in Object /\ g.entries = s /\ g.locations = l
         /\ g.current = kept.current /\ g.previous = kept.previous /\ g.yankPos = End
         /\ g.maxSize = h.maxSize /\ g.unique = h.unique
         /\ g.recallMostRecent = h.recallMostRecent
    BY <2>1, <2>3, <2>9, <2>10 DEF Object
  <2>12. Last(g) = C /\ Positions(g) = 1..C
    BY <2>9, <2>11, LastIs DEF Last
  <2>13. Sound(g)
    <3>1. \A line \in Lines : g.locations[line] \in Dangling..C
      BY <2>3, <2>7, <2>8, <2>11 DEF Dangling
    <3> QED BY <2>1, <2>3, <2>11, <2>12, <3>1 DEF Sound, End, Dangling
  <2>14. Fresh(g) /\ Known(g, C)
    BY <2>6, <2>7, <2>8, <2>11, <2>12 DEF Fresh, Known
  <2>15. Tidy(g)
    BY <2>11, <2>12, <2>13, <2>14 DEF Tidy
  <2> QED BY <2>1, <2>11, <2>12, <2>15 DEF g
<1> QED BY <1>2, <1>3

\* load() leaves what holds between operations.
LEMMA LoadTidy ==
  ASSUME NEW h, Sound(h), h.yankPos = End, NEW n \in Nat, NEW lines \in [1..n -> Lines]
  PROVE  LET g == Load(h, lines)
         IN /\ Tidy(g) /\ Last(g) <= g.maxSize /\ g.yankPos = End /\ ~g.recallMostRecent
<1> DEFINE empty == Clear(h)
           entries == [i \in DOMAIN lines |-> Entry(lines[i])]
           read == [empty EXCEPT !.entries = entries]
           alone == RemoveDuplicates(read)
           fit == TrimToMaxSize(alone)
           g == Load(h, lines)
<1>1. /\ Tidy(empty) /\ Last(empty) = 0 /\ empty.yankPos = End /\ empty.maxSize = h.maxSize
      /\ empty.unique = h.unique /\ ~empty.recallMostRecent
  BY ClearTidy
<1>2. g = [fit EXCEPT !.current = Last(fit), !.previous = Last(fit), !.yankPos = End]
  BY DEF Load
<1> HIDE DEF empty
<1>3. entries \in Seq(EntryType) /\ Len(entries) = n
  <2>1. entries \in [1..n -> EntryType]
    BY EntryIs
  <2> HIDE DEF entries
  <2> QED BY <2>1, SeqDef
<1> HIDE DEF entries
<1>4. Sound(read) /\ read.yankPos = End /\ ~read.recallMostRecent
  <2>1. empty \in Object /\ Sound(empty)
    BY <1>1 DEF Tidy, Sound
  <2>2. /\ read \in Object /\ read.entries = entries /\ read.locations = empty.locations
        /\ read.current = empty.current /\ read.previous = empty.previous
        /\ read.yankPos = empty.yankPos
        /\ read.recallMostRecent = empty.recallMostRecent
    BY <1>3, <2>1 DEF Object
  <2> HIDE DEF read
  <2>3. Last(read) = n
    BY <1>3, <2>2 DEF Last
  <2>4. \A p \in Dangling..0 : p \in Dangling..n
    BY DEF Dangling
  <2> QED BY <1>1, <2>1, <2>2, <2>3, <2>4 DEF Sound
<1> HIDE DEF read
<1>5. Tidy(alone) /\ alone.yankPos = End /\ ~alone.recallMostRecent
  BY <1>4, UniqueTidy
<1> HIDE DEF alone
<1>6. Tidy(fit) /\ fit.yankPos = End /\ ~fit.recallMostRecent /\ Last(fit) <= fit.maxSize
  BY <1>5, TrimTidy
<1> HIDE DEF fit
<1>7. fit \in Object /\ Last(fit) \in Dangling..Last(fit) /\ End \in Dangling..Last(fit)
  BY <1>6, LastIs DEF Tidy, Sound, Dangling, End
<1>8. g = [fit EXCEPT !.current = Last(fit), !.previous = Last(fit), !.yankPos = End,
                      !.recallMostRecent = FALSE]
  BY <1>2, <1>6, <1>7 DEF Object
<1> HIDE DEF g
<1>9. /\ Tidy(g) /\ Last(g) = Last(fit) /\ g.yankPos = End /\ g.maxSize = fit.maxSize
      /\ ~g.recallMostRecent
  <2>1. /\ g \in Object /\ g.entries = fit.entries /\ g.locations = fit.locations
        /\ g.current = Last(fit) /\ g.previous = Last(fit) /\ g.yankPos = End
        /\ g.maxSize = fit.maxSize /\ g.unique = fit.unique /\ ~g.recallMostRecent
    <3>1. Last(fit) \in Int /\ End \in Int
      BY <1>7, LastIs DEF End
    <3> QED BY <1>7, <1>8, <3>1 DEF Object
  <2> QED BY <1>6, <1>7, <2>1, IteratorsMoved
<1> QED BY <1>6, <1>9 DEF g

\* The line as it is now is put into the current entry.
LEMMA SetScratchTidy ==
  ASSUME NEW h, Tidy(h), h.current \in 1..Last(h), NEW line \in Lines,
         h.unique => h.entries[h.current].text = line
  PROVE  LET g == SetScratch(h, line)
         IN /\ Tidy(g) /\ Last(g) = Last(h) /\ g.locations = h.locations
            /\ \A i \in 1..Last(h) :
                 /\ g.entries[i].text = h.entries[i].text
                 /\ g.entries[i].scratch = IF i = h.current THEN line ELSE h.entries[i].scratch
            /\ g.current = h.current /\ g.previous = h.previous /\ g.yankPos = h.yankPos
            /\ g.maxSize = h.maxSize /\ g.unique = h.unique
            /\ g.recallMostRecent = h.recallMostRecent
<1> DEFINE g == SetScratch(h, line)
           entries == [i \in 1..Last(h) |->
                         IF i = h.current THEN [text |-> h.entries[i].text, scratch |-> line]
                                          ELSE h.entries[i]]
<1>1. /\ h \in Object /\ Last(h) \in Nat /\ Positions(h) = 1..Last(h)
      /\ h.entries \in [1..Last(h) -> EntryType]
  BY LastIs DEF Tidy, Sound
<1>2. entries \in [1..Last(h) -> EntryType]
  BY <1>1 DEF EntryType
<1>3. g = [h EXCEPT !.entries = entries]
  <2>1. PICK e \in EntryType : e = h.entries[h.current]
    BY <1>1
  <2>2. [e EXCEPT !.scratch = line] = [text |-> e.text, scratch |-> line]
    BY DEF EntryType
  <2>3. PICK f \in EntryType : f = [e EXCEPT !.scratch = line]
    BY <2>2 DEF EntryType
  <2>4. [h.entries EXCEPT ![h.current] = f] = entries
    BY <1>1, <2>1, <2>2, <2>3
  <2>5. g = [h EXCEPT !.entries = [h.entries EXCEPT ![h.current] = f]]
    BY <1>1, <2>1, <2>3 DEF SetScratch, Object
  <2> QED BY <2>4, <2>5
<1>4. /\ \A i \in 1..Last(h) :
           /\ entries[i].text = h.entries[i].text
           /\ entries[i].scratch = IF i = h.current THEN line ELSE h.entries[i].scratch
  BY <1>1
<1>5. h.unique => \A i \in 1..Last(h) : entries[i].scratch = entries[i].text
  BY <1>1, <1>4 DEF Tidy, Fresh
<1> HIDE DEF g, entries
<1>6. /\ Tidy(g) /\ Last(g) = Last(h) /\ g.entries = entries /\ g.locations = h.locations
      /\ g.current = h.current /\ g.previous = h.previous /\ g.yankPos = h.yankPos
      /\ g.maxSize = h.maxSize /\ g.unique = h.unique
      /\ g.recallMostRecent = h.recallMostRecent
  <2>1. entries \in Seq(EntryType) /\ Len(entries) = Last(h)
    BY <1>1, <1>2, SeqDef
  <2>2. /\ g \in Object /\ g.entries = entries /\ g.locations = h.locations
        /\ g.current = h.current /\ g.previous = h.previous /\ g.yankPos = h.yankPos
        /\ g.maxSize = h.maxSize /\ g.unique = h.unique
        /\ g.recallMostRecent = h.recallMostRecent
    BY <1>1, <1>3, <2>1 DEF Object
  <2>3. Last(g) = Last(h)
    BY <2>1, <2>2 DEF Last
  <2>4. Tidy(g)
    BY <1>4, <1>5, <2>2, <2>3, EntriesReplaced
  <2> QED BY <2>2, <2>3, <2>4
<1> QED BY <1>4, <1>6 DEF g

\* drop_last() takes the line that was edited out.
LEMMA DropLastTidy ==
  ASSUME NEW h, Tidy(h), h.current \in 1..Last(h)
  PROVE  LET g == DropLast(h)
         IN /\ Tidy(g) /\ Last(g) = Last(h) - 1 /\ g.yankPos = End
            /\ \A i \in 1..(Last(h) - 1) : g.entries[i].text = h.entries[i].text
            /\ g.maxSize = h.maxSize /\ g.unique = h.unique
            /\ g.recallMostRecent = h.recallMostRecent
<1>1. h \in Object /\ Last(h) \in Nat /\ h.entries \in [1..Last(h) -> EntryType]
  BY LastIs DEF Tidy, Sound
<1>2. PICK line \in Lines : line = h.entries[h.current].text
  BY <1>1 DEF EntryType
<1>3. DropLast(h) = Erase(SetScratch(h, line), Last(h))
  BY <1>2 DEF DropLast, SetScratch
<1>4. PICK f : f = SetScratch(h, line)
  OBVIOUS
<1>5. /\ Tidy(f) /\ Last(f) = Last(h) /\ f.maxSize = h.maxSize /\ f.unique = h.unique
      /\ f.recallMostRecent = h.recallMostRecent
      /\ \A i \in 1..Last(h) : f.entries[i].text = h.entries[i].text
  BY <1>2, <1>4, SetScratchTidy
<1>6. Sound(f) /\ Last(f) \in Positions(f)
  BY <1>1, <1>5, LastIs DEF Tidy, Sound
<1>7. Tidy(Erase(f, Last(f)))
  BY <1>5, <1>6, EraseTidy
<1>8. LET g == Erase(f, Last(f))
      IN /\ Last(g) = Last(f) - 1
         /\ g.entries = [k \in 1..(Last(f) - 1) |-> f.entries[IF k < Last(f) THEN k ELSE k + 1]]
         /\ g.yankPos = End /\ g.maxSize = f.maxSize /\ g.unique = f.unique
         /\ g.recallMostRecent = f.recallMostRecent
  BY <1>6, EraseGives
<1>9. \A i \in 1..(Last(h) - 1) : i < Last(f) /\ i \in 1..Last(h)
  BY <1>1, <1>5
<1> QED BY <1>3, <1>4, <1>5, <1>7, <1>8, <1>9

-----------------------------------------------------------------------------
(* The inductive invariant.                                                 *)

\* Recalled lines of a unique history are not edited, Down is not pressed right
\* after a line was accepted from an empty history, and set_unique_history() is not
\* called while a recalled line is remembered.
Plain == Risks = {}

Phases == {"idle", "input", "search", "found", "accepted", "aborted", "added"}

Typed ==
  /\ data \in Lines /\ typed \subseteq Lines /\ before \in Seq(EntryType)
  /\ phase \in Phases /\ follow \in Lines \cup {NoLine}

\* A recalled line of a unique history is the text of the entry it came from, and
\* the search begins at that entry.
LineIsRecalled ==
  /\ history.unique /\ phase = "input" /\ history.current # Last(history) =>
       data = Text(history, history.current)
  /\ history.unique /\ phase \in {"search", "found"} /\ history.previous # Last(history) =>
       data = Text(history, history.previous)

\* A search that has found nothing is where it began.
SearchIsSomewhere ==
  /\ phase = "search" => history.current = history.previous
  /\ phase = "found" => \/ history.current = history.previous
                        \/ Text(history, history.current) # Empty

IInv ==
  /\ Typed
  /\ Tidy(history) /\ Last(history) <= history.maxSize + 1
  /\ Between => history.yankPos = End
  /\ ~Between => history.current \in 1..Last(history)
  /\ history.yankPos \in 0..Last(history)
  /\ phase = "input" => history.yankPos # Last(history)
  /\ phase \in {"search", "found"} => history.previous \in 1..Last(history)
  /\ LineIsRecalled /\ SearchIsSomewhere

\* What is there to be shown of a step that goes on with the line.
LEMMA InputGoesOn ==
  ASSUME Typed', phase' = "input", Tidy(history)', (Last(history) <= history.maxSize + 1)',
         (history.yankPos \in 0..(Last(history) - 1))',
         (history.current \in 1..Last(history))',
         (history.unique /\ history.current # Last(history) =>
            data = Text(history, history.current))'
  PROVE  IInv'
<1>1. Last(history') \in Nat
  BY LastIs DEF Tidy, Sound
<1>2. history'.yankPos \in 0..Last(history') /\ history'.yankPos # Last(history')
  BY <1>1
<1> QED BY <1>2 DEF IInv, LineIsRecalled, SearchIsSomewhere, Between

\* What is there to be shown of a step between two lines.
LEMMA BetweenGoesOn ==
  ASSUME Typed', Between', Tidy(history)', (Last(history) <= history.maxSize + 1)',
         (history.yankPos = End)'
  PROVE  IInv'
<1>1. Last(history') \in Nat
  BY LastIs DEF Tidy, Sound
<1>2. history'.yankPos \in 0..Last(history')
  BY <1>1 DEF End
<1> QED BY <1>2 DEF IInv, LineIsRecalled, SearchIsSomewhere, Between

\* The texts used are lines.
LEMMA UsedAreLines == LinesUsed \subseteq Lines
BY HistoryAssumption DEF LinesUsed

\* The history is what it is between two operations.
LEMMA HistoryIs ==
  ASSUME IInv
  PROVE  /\ history \in Object /\ Sound(history) /\ Tidy(history)
         /\ Last(history) \in Nat /\ history.maxSize \in Nat
         /\ Positions(history) = 1..Last(history)
         /\ history.entries \in [1..Last(history) -> EntryType]
         /\ \A i \in 1..Last(history) : Text(history, i) \in Lines
         /\ Last(history) <= history.maxSize + 1
<1>1. history \in Object /\ Sound(history) /\ Tidy(history)
  BY DEF IInv, Tidy, Sound
<1>2. /\ Last(history) \in Nat /\ Positions(history) = 1..Last(history)
      /\ history.entries \in [1..Last(history) -> EntryType]
  BY <1>1, LastIs
<1>3. \A i \in 1..Last(history) : Text(history, i) \in Lines
  BY <1>2 DEF Text, EntryType
<1>4. history.maxSize \in Nat
  BY <1>1 DEF Object
<1> QED BY <1>1, <1>2, <1>3, <1>4 DEF IInv

\* The initial states.
LEMMA InitIInv == Init => IInv
<1> SUFFICES ASSUME Init PROVE IInv
  OBVIOUS
<1>1. PICK unique \in BOOLEAN :
        history = [entries |-> <<>>, locations |-> NoLocations,
                   maxSize |-> IF unique THEN MaxEntries ELSE MaxRepeated,
                   current |-> End, previous |-> End,
                   yankPos |-> End, recallMostRecent |-> FALSE, unique |-> unique]
  <2>1. \A unique \in UniqueVals : unique \in BOOLEAN
    BY HistoryAssumption
  <2> QED BY <2>1 DEF Init
<1>2. NoLocations \in [Lines -> Int] /\ \A line \in Lines : NoLocations[line] = 0
  BY DEF NoLocations, End
<1>3. /\ history \in Object /\ history.entries = <<>> /\ history.locations = NoLocations
      /\ history.current = 0 /\ history.previous = 0 /\ history.yankPos = 0
      /\ ~history.recallMostRecent
  <2>1. (IF unique THEN MaxEntries ELSE MaxRepeated) \in Nat
    BY HistoryAssumption
  <2> QED BY <1>1, <1>2, <2>1 DEF Object, End
<1>4. Last(history) = 0 /\ Positions(history) = 1..0 /\ history.maxSize \in Nat
  BY <1>3 DEF Last, Positions, Object
<1>5. Sound(history)
  BY <1>2, <1>3, <1>4 DEF Sound, Dangling
<1>6. Fresh(history) /\ Known(history, 0)
  <2>1. \A i : i \notin 1..0
    OBVIOUS
  <2>2. Fresh(history)
    BY <1>4, <2>1 DEF Fresh
  <2> QED BY <1>2, <1>3, <2>1, <2>2 DEF Known
<1>7. Tidy(history)
  BY <1>3, <1>4, <1>5, <1>6 DEF Tidy
<1>8. Typed
  BY HistoryAssumption DEF Init, Typed, Phases
<1>9. /\ Last(history) <= history.maxSize + 1 /\ history.yankPos = End /\ phase = "idle"
      /\ history.yankPos \in 0..Last(history)
  BY <1>3, <1>4 DEF Init, End
<1> QED BY <1>7, <1>8, <1>9 DEF IInv, LineIsRecalled, SearchIsSomewhere, Between

-----------------------------------------------------------------------------
(* Every action keeps it.  First the calls between two lines.               *)

\* history_add()
LEMMA HistoryAddIInv ==
  ASSUME IInv, NEW line \in LinesUsed, HistoryAdd(line)
  PROVE  IInv'
<1>1. Between /\ history' = Add(history, line) /\ line \in Lines
  BY UsedAreLines DEF HistoryAdd
<1>2. Tidy(history) /\ history.yankPos = End /\ Last(history) <= history.maxSize + 1
  BY <1>1 DEF IInv
<1>3. /\ Tidy(history') /\ history'.yankPos = End /\ history'.maxSize = history.maxSize
      /\ Last(history') \in 1..(history.maxSize + 1)
  BY <1>1, <1>2, AddTidy
<1>4. Typed' /\ Between'
  BY DEF HistoryAdd, IInv, Typed, Phases, Between
<1> QED BY <1>3, <1>4, BetweenGoesOn

\* The calls that only change the history.
LEMMA CallIInv ==
  ASSUME IInv, NEW h, Call(h), Tidy(h), h.yankPos = End, Last(h) <= h.maxSize + 1
  PROVE  IInv'
<1>1. history' = h /\ Typed' /\ Between'
  BY DEF Call, IInv, Typed, Phases, Between
<1> QED BY <1>1, BetweenGoesOn

\* history_clear(), history_load(), set_max_history_size()
LEMMA ProgramIInv ==
  ASSUME IInv, Plain, Program
  PROVE  IInv'
<1>1. /\ history \in Object /\ Sound(history) /\ Tidy(history)
      /\ Last(history) \in Nat /\ history.maxSize \in Nat
      /\ Last(history) <= history.maxSize + 1
  BY HistoryIs
<1>2. CASE \E line \in LinesUsed : HistoryAdd(line)
  BY <1>2, HistoryAddIInv
<1>3. ASSUME NEW n \in SizesUsed \cup {0}, NEW lines \in [1..n -> LinesUsed \ {Empty}],
             HistoryLoad(lines)
      PROVE  IInv'
  <2>1. history.yankPos = End
    BY <1>3 DEF HistoryLoad, Call, IInv
  <2>2. n \in Nat /\ lines \in [1..n -> Lines]
    BY HistoryAssumption, UsedAreLines DEF SizesUsed
  <2>3. PICK g : g = Load(history, lines)
    OBVIOUS
  <2>4. Tidy(g) /\ Last(g) <= g.maxSize /\ g.yankPos = End
    BY <1>1, <2>1, <2>2, <2>3, LoadTidy
  <2>5. Last(g) <= g.maxSize + 1
    <3>1. Last(g) \in Nat /\ g.maxSize \in Nat
      BY <2>4, LastIs DEF Tidy, Sound, Object
    <3> QED BY <2>4, <3>1
  <2> QED BY <1>3, <2>3, <2>4, <2>5, CallIInv DEF HistoryLoad
<1>4. ASSUME NEW size \in SizesUsed, SetMaxHistorySize(size) PROVE IInv'
  <2>1. history.yankPos = End
    BY <1>4 DEF SetMaxHistorySize, Call, IInv
  <2>2. size \in Nat
    BY HistoryAssumption DEF SizesUsed
  <2>3. PICK h : h = [history EXCEPT !.maxSize = size]
    OBVIOUS
  <2>4. /\ h \in Object /\ h.entries = history.entries /\ h.locations = history.locations
        /\ h.current = history.current /\ h.previous = history.previous
        /\ h.yankPos = history.yankPos /\ h.unique = history.unique
        /\ h.recallMostRecent = history.recallMostRecent
    BY <1>1, <2>2, <2>3 DEF Object
  <2>5. Tidy(h)
    BY <1>1, <2>4, IteratorsMoved DEF Sound, Tidy, Firm, Dangling
  <2>6. PICK g : g = TrimToMaxSize(h)
    OBVIOUS
  <2>7. Tidy(g) /\ g.yankPos = End /\ g.maxSize = h.maxSize /\ Last(g) <= h.maxSize
    BY <2>1, <2>4, <2>5, <2>6, TrimTidy
  <2>8. Last(g) <= g.maxSize + 1
    <3>1. Last(g) \in Nat /\ g.maxSize \in Nat
      BY <2>7, LastIs DEF Tidy, Sound, Object
    <3> QED BY <2>7, <3>1
  <2> QED BY <1>4, <2>3, <2>6, <2>7, <2>8, CallIInv DEF SetMaxHistorySize
<1>5. ASSUME NEW val \in UniqueVals, SetUniqueHistory(val) PROVE IInv'
  <2>1. history.yankPos = End /\ ~history.recallMostRecent
    BY <1>5 DEF SetUniqueHistory, Call, IInv, Plain
  <2>2. val \in BOOLEAN
    BY HistoryAssumption
  <2>3. PICK h : h = [history EXCEPT !.unique = val]
    OBVIOUS
  <2>4. /\ h \in Object /\ h.entries = history.entries /\ h.locations = history.locations
        /\ h.current = history.current /\ h.previous = history.previous
        /\ h.yankPos = history.yankPos /\ h.maxSize = history.maxSize
        /\ h.recallMostRecent = history.recallMostRecent
    BY <1>1, <2>2, <2>3 DEF Object
  <2>5. Sound(h) /\ Last(h) = Last(history)
    BY <1>1, <2>4 DEF Sound, Last
  <2>6. PICK g : g = RemoveDuplicates(h)
    OBVIOUS
  <2>7. Tidy(g) /\ g.yankPos = End /\ g.maxSize = h.maxSize /\ Last(g) <= Last(h)
    BY <2>1, <2>4, <2>5, <2>6, UniqueTidy
  <2>8. Last(g) <= g.maxSize + 1
    <3>1. Last(g) \in Nat /\ g.maxSize \in Nat
      BY <2>7, LastIs DEF Tidy, Sound, Object
    <3> QED BY <1>1, <2>4, <2>5, <2>7, <3>1
  <2> QED BY <1>5, <2>3, <2>6, <2>7, <2>8, CallIInv DEF SetUniqueHistory
<1>6. CASE HistoryClear
  <2>1. history.yankPos = End
    BY <1>6 DEF HistoryClear, Call, IInv
  <2>2. PICK g : g = Clear(history)
    OBVIOUS
  <2>3. Tidy(g) /\ Last(g) = 0 /\ g.yankPos = End /\ g.maxSize = history.maxSize
    BY <1>1, <2>1, <2>2, ClearTidy
  <2>4. Last(g) <= g.maxSize + 1
    BY <1>1, <2>3
  <2> QED BY <1>6, <2>2, <2>3, <2>4, CallIInv DEF HistoryClear
<1> QED BY <1>2, <1>3, <1>4, <1>5, <1>6 DEF Program

-----------------------------------------------------------------------------
(* The keys.                                                                *)

\* What input() begins with.
LEMMA StartIInv ==
  ASSUME IInv, NEW line \in LinesUsed, Start(line)
  PROVE  IInv'
<1>1. PICK h : h = Add(history, line)
  OBVIOUS
<1>2. Between /\ history' = [h EXCEPT !.current = Last(h)] /\ line \in Lines
  BY <1>1, UsedAreLines DEF Start
<1>3. Tidy(history) /\ history.yankPos = End /\ Last(history) <= history.maxSize + 1
  BY <1>2 DEF IInv
<1>4. /\ Tidy(h) /\ h.yankPos = End /\ h.maxSize = history.maxSize
      /\ Last(h) \in 1..(history.maxSize + 1)
  BY <1>1, <1>2, <1>3, AddTidy
<1>5. h \in Object /\ Last(h) \in Nat /\ history.maxSize \in Nat
  BY <1>3, <1>4, LastIs DEF Tidy, Sound, Object
<1>6. /\ history' \in Object /\ history'.entries = h.entries
      /\ history'.locations = h.locations /\ history'.current = Last(h)
      /\ history'.previous = h.previous /\ history'.yankPos = h.yankPos
      /\ history'.maxSize = h.maxSize /\ history'.unique = h.unique
      /\ history'.recallMostRecent = h.recallMostRecent
  BY SMTT(30), <1>2, <1>5 DEF Object
<1>7. Tidy(history') /\ Last(history') = Last(h)
  BY <1>4, <1>5, <1>6, IteratorsMoved DEF Tidy, Sound, Firm, Dangling
<1>8. Typed' /\ phase' = "input"
  <2>1. history.entries \in Seq(EntryType)
    BY <1>3 DEF Tidy, Sound, Object
  <2> QED BY <1>2, <2>1 DEF Start, IInv, Typed, Phases
<1>9. history'.yankPos \in 0..(Last(h) - 1) /\ history'.current \in 1..Last(h)
  BY <1>4, <1>5, <1>6 DEF End
<1>10. Last(history') <= history'.maxSize + 1
  BY <1>4, <1>5, <1>6, <1>7
<1> QED BY <1>6, <1>7, <1>8, <1>9, <1>10, InputGoesOn

\* The line as it was stored in the history, and then put into the current entry.
LEMMA StoredIs ==
  ASSUME IInv, phase = "input"
  PROVE  /\ Tidy(Stored) /\ Last(Stored) \in 1..Last(history)
         /\ Stored.current \in 1..Last(Stored)
         /\ Stored.current = Last(Stored) <=> history.current = Last(history)
         /\ Stored.maxSize = history.maxSize /\ Stored.unique = history.unique
         /\ Stored.recallMostRecent = history.recallMostRecent
         /\ Stored.unique => Stored.entries[Stored.current].text = data
         /\ Stored.yankPos \in 0..Last(Stored)
<1>1. /\ Tidy(history) /\ Last(history) \in Nat /\ history.current \in 1..Last(history)
      /\ data \in Lines /\ history.yankPos \in 0..Last(history)
  BY HistoryIs DEF IInv, Between, Typed
<1>2. CASE history.current = Last(history)
  <2>1. PICK g : g = UpdateLast(history, data)
    OBVIOUS
  <2>2. Stored = g
    BY <1>2, <2>1 DEF Stored, IsLast
  <2>3. /\ Tidy(g) /\ Last(g) \in 1..Last(history) /\ g.current = Last(g)
        /\ g.entries[Last(g)] = Entry(data)
        /\ g.maxSize = history.maxSize /\ g.unique = history.unique
        /\ g.recallMostRecent = history.recallMostRecent
        /\ g.yankPos = End \/ (g.yankPos = history.yankPos /\ Last(g) = Last(history))
    BY <1>1, <1>2, <2>1, UpdateLastTidy
  <2>4. g.yankPos \in 0..Last(g)
    BY <1>1, <2>3 DEF End
  <2> QED BY <1>1, <1>2, <2>2, <2>3, <2>4, EntryIs
<1>3. CASE history.current # Last(history)
  <2>1. Stored = history
    BY <1>3 DEF Stored, IsLast
  <2>2. history.unique => history.entries[history.current].text = data
    <3>1. history.unique => data = history.entries[history.current].scratch
      BY <1>3 DEF IInv, LineIsRecalled, Text
    <3>2. history.current \in Positions(history)
      BY <1>1, HistoryIs
    <3> QED BY <1>1, <3>1, <3>2 DEF Tidy, Fresh
  <2>3. Last(history) \in 1..Last(history)
    BY <1>1
  <2> QED BY <1>1, <1>3, <2>1, <2>2, <2>3
<1> QED BY <1>2, <1>3

\* What history_move() and history_jump() walk through.
LEMMA KeptIs ==
  ASSUME IInv, phase = "input"
  PROVE  LET kept == SetScratch(Stored, data)
         IN /\ Tidy(kept) /\ kept \in Object /\ Last(kept) \in 1..Last(history)
            /\ Last(kept) = Last(Stored)
            /\ \A i \in 1..Last(kept) : kept.entries[i].text = Stored.entries[i].text
            /\ kept.current = Stored.current /\ kept.current \in 1..Last(kept)
            /\ kept.maxSize = history.maxSize /\ kept.unique = history.unique
            /\ kept.recallMostRecent = history.recallMostRecent
            /\ Text(kept, kept.current) = data
            /\ \A i \in 1..Last(kept) : Text(kept, i) \in Lines
<1>1. PICK h : h = Stored
  OBVIOUS
<1>2. /\ Tidy(h) /\ Last(h) \in 1..Last(history) /\ h.current \in 1..Last(h)
      /\ h.maxSize = history.maxSize /\ h.unique = history.unique
      /\ h.recallMostRecent = history.recallMostRecent
      /\ h.unique => h.entries[h.current].text = data
  BY <1>1, StoredIs
<1>3. PICK g : g = SetScratch(h, data)
  OBVIOUS
<1>4. data \in Lines
  BY DEF IInv, Typed
<1>5. /\ Tidy(g) /\ Last(g) = Last(h)
      /\ \A i \in 1..Last(h) :
           /\ g.entries[i].text = h.entries[i].text
           /\ g.entries[i].scratch = IF i = h.current THEN data ELSE h.entries[i].scratch
      /\ g.current = h.current /\ g.maxSize = h.maxSize /\ g.unique = h.unique
      /\ g.recallMostRecent = h.recallMostRecent
  BY <1>2, <1>3, <1>4, SetScratchTidy
<1>6. g \in Object /\ \A i \in 1..Last(g) : Text(g, i) \in Lines
  <2>1. g \in Object
    BY <1>5 DEF Tidy, Sound
  <2> QED BY <2>1, LastIs DEF Text, EntryType
<1>7. Text(g, g.current) = data
  BY <1>2, <1>5 DEF Text
<1> QED BY <1>1, <1>2, <1>3, <1>5, <1>6, <1>7

\* Going to an entry, whence the next line is recalled or not.
LEMMA GoIInv ==
  ASSUME IInv, NEW kept, Tidy(kept), Last(kept) \in 1..Last(history),
         kept.maxSize = history.maxSize, NEW to \in 1..Last(kept), NEW p \in Int,
         p \in Dangling..Last(kept), NEW r \in BOOLEAN, r => p # Dangling,
         history' = [kept EXCEPT !.current = to, !.previous = p, !.yankPos = End,
                                 !.recallMostRecent = r],
         Typed', phase' = "input",
         kept.unique /\ to # Last(kept) => data' = Text(kept, to)
  PROVE  IInv'
<1>1. /\ kept \in Object /\ Last(kept) \in Nat /\ Last(history) \in Nat
      /\ history.maxSize \in Nat /\ Last(history) <= history.maxSize + 1
  BY LastIs, HistoryIs DEF Tidy, Sound
<1>2. to \in Int /\ End \in Int
  BY DEF End
<1>3. /\ history' \in Object /\ history'.entries = kept.entries
      /\ history'.locations = kept.locations /\ history'.current = to
      /\ history'.previous = p /\ history'.yankPos = End
      /\ history'.maxSize = kept.maxSize /\ history'.unique = kept.unique
      /\ history'.recallMostRecent = r
  BY <1>1, <1>2 DEF Object
<1>4. to \in Dangling..Last(kept) /\ End \in Dangling..Last(kept) /\ to # Dangling
  BY <1>1 DEF Dangling, End
<1>5. Tidy(history') /\ Last(history') = Last(kept)
  BY <1>1, <1>3, <1>4, IteratorsMoved
<1>6. /\ Last(history') <= history'.maxSize + 1
      /\ history'.yankPos \in 0..(Last(history') - 1)
      /\ history'.current \in 1..Last(history')
  BY <1>1, <1>3, <1>5 DEF End
<1>7. history'.unique /\ history'.current # Last(history') =>
        data' = Text(history', history'.current)
  BY <1>3, <1>5 DEF Text
<1> QED BY <1>5, <1>6, <1>7, InputGoesOn

\* The keys that leave the user at the same entry.
LEMMA StayIInv ==
  ASSUME IInv, phase = "input", NEW r \in BOOLEAN, r => history.recallMostRecent,
         history' = [history EXCEPT !.yankPos = End, !.recallMostRecent = r],
         Typed', phase' = "input",
         history.unique /\ ~IsLast(history) => data' = data
  PROVE  IInv'
<1>1. history.current \in 1..Last(history)
  BY DEF IInv, Between
<1>2. history \in Object /\ Tidy(history) /\ Sound(history) /\ Last(history) \in Nat
  BY HistoryIs
<1>3. history' = [history EXCEPT !.current = history.current, !.previous = history.previous,
                                 !.yankPos = End, !.recallMostRecent = r]
  BY <1>2 DEF Object
<1>4. /\ history.previous \in Int /\ history.previous \in Dangling..Last(history)
      /\ r => history.previous # Dangling
  BY <1>2 DEF Sound, Tidy, Firm, Dangling
<1>5. history.unique /\ history.current # Last(history) => data' = Text(history, history.current)
  BY DEF IInv, LineIsRecalled, IsLast
<1>6. Last(history) \in 1..Last(history)
  BY <1>1, <1>2
<1>7. PICK to \in 1..Last(history), p \in Int :
        to = history.current /\ p = history.previous
  BY <1>1, <1>4
<1>8. history' = [history EXCEPT !.current = to, !.previous = p, !.yankPos = End,
                                 !.recallMostRecent = r]
  BY <1>3, <1>7
<1>9. /\ p \in Dangling..Last(history)
      /\ r => p # Dangling
      /\ history.unique /\ to # Last(history) => data' = Text(history, to)
  BY <1>4, <1>5, <1>7
<1> QED BY <1>2, <1>6, <1>8, <1>9, GoIInv

\* What changes the line, remembering the accepted one or not, through action() or not.
LEMMA EditLineIInv ==
  ASSUME IInv, Plain, NEW line \in LinesUsed, EditLine(line)
  PROVE  IInv'
<1>1. history \in Object /\ history.recallMostRecent \in BOOLEAN
  BY HistoryIs DEF Object
<1>2. Typed' /\ phase = "input" /\ phase' = "input"
  BY UsedAreLines DEF EditLine, IInv, Typed, Phases
<1>3. history.unique => IsLast(history)
  BY DEF EditLine, Plain
<1>4. CASE history' = ResetYank([history EXCEPT !.recallMostRecent = FALSE])
  <2>1. history' = [history EXCEPT !.yankPos = End, !.recallMostRecent = FALSE]
    BY <1>1, <1>4 DEF ResetYank, Object
  <2> QED BY <1>2, <1>3, <2>1, StayIInv
<1>5. CASE history' = ResetYank(history)
  <2>1. history' = [history EXCEPT !.yankPos = End,
                                   !.recallMostRecent = history.recallMostRecent]
    BY <1>1, <1>5 DEF ResetYank, Object
  <2> QED BY <1>1, <1>2, <1>3, <2>1, StayIInv
<1>6. CASE history' = history
  <2>1. /\ Tidy(history) /\ Last(history) <= history.maxSize + 1
        /\ Last(history) \in Nat /\ history.current \in 1..Last(history)
    BY <1>2, HistoryIs DEF IInv, Between
  <2>2. history.yankPos \in 0..Last(history) /\ history.yankPos # Last(history)
    BY <1>2 DEF IInv
  <2>3. history.yankPos \in 0..(Last(history) - 1)
    BY <2>1, <2>2
  <2>4. ~(history.unique /\ history.current # Last(history))
    BY <1>3 DEF IsLast
  <2> QED BY <1>2, <1>6, <2>1, <2>3, <2>4, InputGoesOn
<1> QED BY <1>4, <1>5, <1>6 DEF EditLine

\* The handlers that do not.
LEMMA OtherKeyIInv ==
  ASSUME IInv, OtherKey
  PROVE  IInv'
<1>1. history \in Object /\ history.recallMostRecent \in BOOLEAN
  BY HistoryIs DEF Object
<1>2. history' = [history EXCEPT !.yankPos = End,
                                 !.recallMostRecent = history.recallMostRecent]
  BY <1>1 DEF OtherKey, ResetYank, Object
<1>3. Typed' /\ phase = "input" /\ phase' = "input" /\ data' = data
  BY DEF OtherKey, IInv, Typed, Phases
<1> QED BY <1>1, <1>2, <1>3, StayIInv

\* history_move()
LEMMA HistoryMoveIInv ==
  ASSUME IInv, Plain, NEW up \in BOOLEAN, HistoryMove(up)
  PROVE  IInv'
<1> DEFINE kept == SetScratch(Stored, data)
           to == Moved(kept, up)
<1>1. phase = "input" /\ phase' = "input"
  BY DEF HistoryMove
<1>2. /\ Tidy(kept) /\ kept \in Object /\ Last(kept) \in 1..Last(history)
      /\ kept.current \in 1..Last(kept) /\ kept.maxSize = history.maxSize
      /\ Text(kept, kept.current) = data
      /\ \A i \in 1..Last(kept) : Text(kept, i) \in Lines
  BY <1>1, KeptIs
<1>3. /\ Recalls(kept, up) => kept.previous # End /\ kept.previous # Dangling
      /\ history' = ResetYank(Move(kept, up))
      /\ IF ~(Recalls(kept, up) \/ to # kept.current) THEN data' = data
         ELSE IF history'.current = End THEN data' \in LinesUsed
         ELSE data' = Text(history', history'.current)
  BY DEF HistoryMove, Plain
<1> HIDE DEF kept
<1>4. to \in 1..Last(kept)
  <2>1. CASE Recalls(kept, up)
    <3>1. kept.recallMostRecent /\ kept.previous # 0
      BY <1>3, <2>1 DEF Recalls, End
    <3>2. kept.previous \in 1..Last(kept)
      <4>1. Firm(kept) /\ Last(kept) \in Nat
        BY <1>2, <3>1, LastIs DEF Tidy
      <4> QED BY <3>1, <4>1 DEF Firm
    <3> QED BY <2>1, <3>2 DEF Moved
  <2>2. CASE ~Recalls(kept, up)
    BY <1>2, <2>2, HistoryIs DEF Moved
  <2> QED BY <2>1, <2>2
<1> HIDE DEF to
<1>5. kept.previous \in Int /\ kept.previous \in Dangling..Last(kept)
  BY <1>2 DEF Tidy, Sound, Object
<1>6. history' = [kept EXCEPT !.current = to, !.previous = kept.previous, !.yankPos = End,
                              !.recallMostRecent = FALSE]
  BY <1>2, <1>3 DEF ResetYank, Move, Object, to
<1>7. history'.current = to /\ to # End /\ history'.entries = kept.entries
  BY <1>2, <1>4, <1>6 DEF Object, End
<1>8. data' = Text(kept, to)
  BY <1>2, <1>3, <1>7 DEF Text
<1>9. Typed'
  BY <1>2, <1>4, <1>8 DEF HistoryMove, NowTyped, IInv, Typed, Phases
<1> QED BY <1>1, <1>2, <1>4, <1>5, <1>6, <1>8, <1>9, GoIInv

\* history_jump()
LEMMA HistoryJumpIInv ==
  ASSUME IInv, NEW first \in BOOLEAN, HistoryJump(first)
  PROVE  IInv'
<1> DEFINE kept == SetScratch(Stored, data)
           to == IF first THEN 1 ELSE Last(kept)
<1>1. phase = "input" /\ phase' = "input"
  BY DEF HistoryJump
<1>2. /\ Tidy(kept) /\ kept \in Object /\ Last(kept) \in 1..Last(history)
      /\ kept.maxSize = history.maxSize
      /\ \A i \in 1..Last(kept) : Text(kept, i) \in Lines
  BY <1>1, KeptIs
<1>3. /\ history' = ResetYank([kept EXCEPT !.current = to, !.recallMostRecent = FALSE])
      /\ data' = Text(kept, to)
  BY DEF HistoryJump
<1> HIDE DEF kept
<1>4. to \in 1..Last(kept)
  BY <1>2, HistoryIs
<1> HIDE DEF to
<1>5. kept.previous \in Int /\ kept.previous \in Dangling..Last(kept)
  BY <1>2 DEF Tidy, Sound, Object
<1>6. history' = [kept EXCEPT !.current = to, !.previous = kept.previous, !.yankPos = End,
                              !.recallMostRecent = FALSE]
  BY <1>2, <1>3 DEF ResetYank, Object
<1>7. Typed'
  BY <1>2, <1>3, <1>4 DEF HistoryJump, NowTyped, IInv, Typed, Phases
<1> QED BY <1>1, <1>2, <1>3, <1>4, <1>5, <1>6, <1>7, GoIInv

\* common_prefix_search()
LEMMA CommonPrefixSearchIInv ==
  ASSUME IInv, NEW back \in BOOLEAN, NEW having \in SUBSET LinesUsed,
         CommonPrefixSearch(back, having)
  PROVE  IInv'
<1>1. PICK i \in Positions(history) :
        /\ history' = ResetYank(CommitIndex([history EXCEPT !.current = i]))
        /\ data' = Text(history, i)
  BY DEF CommonPrefixSearch
<1>2. /\ history \in Object /\ Tidy(history) /\ Last(history) \in Nat
      /\ i \in 1..Last(history) /\ Text(history, i) \in Lines
  BY <1>1, HistoryIs
<1>3. history' = [history EXCEPT !.current = i, !.previous = i, !.yankPos = End,
                                 !.recallMostRecent = TRUE]
  BY <1>1, <1>2 DEF ResetYank, CommitIndex, Object
<1>4. Typed' /\ phase = "input" /\ phase' = "input"
  BY <1>1, <1>2 DEF CommonPrefixSearch, IInv, Typed, Phases
<1>5. i \in Int /\ i \in Dangling..Last(history) /\ i # Dangling
  BY <1>2 DEF Dangling
<1>6. Last(history) \in 1..Last(history)
  BY <1>2
<1> QED BY <1>1, <1>2, <1>3, <1>4, <1>5, <1>6, GoIInv

\* history_restore_current() and history_restore()
LEMMA HistoryRestoreIInv ==
  ASSUME IInv, NEW which \in SUBSET Positions(history), HistoryRestore(which),
         history.current \in which \/ IsLast(history)
  PROVE  IInv'
<1> DEFINE fresh == [i \in Positions(history) |->
                       IF i \in which THEN Entry(history.entries[i].text)
                                      ELSE history.entries[i]]
<1>1. /\ phase = "input" /\ phase' = "input"
      /\ history' = ResetYank([history EXCEPT !.entries = fresh])
      /\ data' = IF IsLast(history) THEN data ELSE fresh[history.current].scratch
  BY DEF HistoryRestore
<1>2. /\ history \in Object /\ Tidy(history) /\ Last(history) \in Nat
      /\ Positions(history) = 1..Last(history)
      /\ history.entries \in [1..Last(history) -> EntryType]
      /\ history.current \in 1..Last(history)
      /\ Last(history) <= history.maxSize + 1
  BY <1>1, HistoryIs DEF IInv, Between
<1>3. /\ fresh \in [1..Last(history) -> EntryType]
      /\ \A i \in 1..Last(history) :
           /\ fresh[i].text = history.entries[i].text
           /\ i \in which => fresh[i].scratch = fresh[i].text
           /\ i \notin which => fresh[i] = history.entries[i]
  <2>1. \A i \in 1..Last(history) :
          /\ Entry(history.entries[i].text) \in EntryType
          /\ Entry(history.entries[i].text).text = history.entries[i].text
          /\ Entry(history.entries[i].text).scratch = history.entries[i].text
    BY <1>2, EntryIs DEF EntryType
  <2> QED BY <1>2, <2>1
<1> HIDE DEF fresh
<1>4. fresh \in Seq(EntryType) /\ Len(fresh) = Last(history)
  BY <1>2, <1>3, SeqDef
<1>5. PICK g : g = [history EXCEPT !.entries = fresh]
  OBVIOUS
<1>6. /\ g \in Object /\ g.entries = fresh /\ g.locations = history.locations
      /\ g.current = history.current /\ g.previous = history.previous
      /\ g.yankPos = history.yankPos /\ g.maxSize = history.maxSize
      /\ g.unique = history.unique /\ g.recallMostRecent = history.recallMostRecent
  BY <1>2, <1>4, <1>5 DEF Object
<1>7. Last(g) = Last(history)
  BY <1>4, <1>6 DEF Last
<1>8. Tidy(g)
  <2>1. ASSUME history.unique, NEW i \in 1..Last(history)
        PROVE  fresh[i].scratch = fresh[i].text
    BY <1>2, <1>3, <2>1 DEF Tidy, Fresh
  <2> QED BY <1>2, <1>3, <1>6, <1>7, <2>1, EntriesReplaced
<1>9. PICK to \in 1..Last(g), p \in Int, r \in BOOLEAN :
        to = g.current /\ p = g.previous /\ r = g.recallMostRecent
  BY <1>2, <1>6, <1>7 DEF Object
<1>10. history' = [g EXCEPT !.current = to, !.previous = p, !.yankPos = End,
                            !.recallMostRecent = r]
  BY <1>1, <1>5, <1>6, <1>9 DEF ResetYank, Object
<1>11. /\ p \in Dangling..Last(g)
       /\ r => p # Dangling
  BY <1>8, <1>9 DEF Tidy, Sound, Firm, Dangling
<1>12. Last(g) \in 1..Last(history) /\ data \in Lines
  BY <1>2, <1>7 DEF IInv, Typed
<1>13. to # Last(g) => data' = Text(g, to) /\ data' \in Lines
  <2>1. ASSUME to # Last(g) PROVE data' = fresh[to].scratch
    BY <1>1, <1>6, <1>7, <1>9, <2>1 DEF IsLast
  <2> QED BY <1>3, <1>6, <1>7, <2>1 DEF Text, EntryType
<1>14. to = Last(g) => data' = data
  BY <1>1, <1>6, <1>7, <1>9 DEF IsLast
<1>15. Typed'
  BY <1>12, <1>13, <1>14 DEF HistoryRestore, IInv, Typed, Phases
<1>16. g.unique /\ to # Last(g) => data' = Text(g, to)
  BY <1>13
<1>17. g.maxSize = history.maxSize /\ phase' = "input"
  BY <1>1, <1>6
<1> QED BY <1>8, <1>10, <1>11, <1>12, <1>15, <1>16, <1>17, GoIInv

\* yank_last_arg()
LEMMA YankLastArgIInv ==
  ASSUME IInv, Plain, YankLastArg
  PROVE  IInv'
<1>1. /\ history \in Object /\ Tidy(history) /\ Sound(history) /\ Last(history) \in Nat
      /\ history.current \in 1..Last(history) /\ phase = "input" /\ phase' = "input"
      /\ Last(history) >= 2 /\ history.yankPos \in 0..(Last(history) - 1)
      /\ Last(history) <= history.maxSize + 1
  BY HistoryIs DEF YankLastArg, IInv, Between
<1>2. PICK y \in 1..(Last(history) - 1) : y = NextYankPosition(history)
  BY <1>1 DEF NextYankPosition, End
<1>3. history' = [history EXCEPT !.yankPos = y, !.recallMostRecent = FALSE]
  BY <1>2 DEF YankLastArg
<1>4. /\ history' \in Object /\ history'.entries = history.entries
      /\ history'.locations = history.locations
      /\ history'.current = history.current /\ history'.previous = history.previous
      /\ history'.yankPos = y /\ history'.maxSize = history.maxSize
      /\ history'.unique = history.unique /\ ~history'.recallMostRecent
  <2>1. y \in Int
    BY <1>1
  <2> QED BY <1>1, <1>3, <2>1 DEF Object
<1>5. Tidy(history') /\ Last(history') = Last(history)
  <2>1. y \in Dangling..Last(history)
    BY <1>1 DEF Dangling
  <2> QED BY <1>1, <1>4, <2>1, IteratorsMoved DEF Sound
<1>6. Typed'
  BY UsedAreLines DEF YankLastArg, IInv, Typed, Phases
<1>7. history.unique => history.current = Last(history)
  BY DEF YankLastArg, Plain, IsLast
<1>8. history'.yankPos \in 0..(Last(history') - 1)
  BY <1>1, <1>4, <1>5
<1> QED BY <1>1, <1>4, <1>5, <1>6, <1>7, <1>8, InputGoesOn

\* What is there to be shown of a step that goes on with the search.
LEMMA SearchGoesOn ==
  ASSUME Typed', phase' \in {"search", "found"}, Tidy(history)',
         (Last(history) <= history.maxSize + 1)',
         (history.current \in 1..Last(history))', (history.previous \in 1..Last(history))',
         (history.unique /\ history.previous # Last(history) =>
            data = Text(history, history.previous))',
         SearchIsSomewhere', (history.yankPos \in 0..Last(history))'
  PROVE  IInv'
BY DEF IInv, LineIsRecalled, Between

\* incremental_history_search() begins
LEMMA SearchBeginIInv ==
  ASSUME IInv, SearchBegin
  PROVE  IInv'
<1>1. PICK h : h = Stored
  OBVIOUS
<1>2. /\ phase = "input" /\ phase' = "search" /\ data' = data
      /\ history' = [h EXCEPT !.previous = h.current]
  BY <1>1 DEF SearchBegin
<1>3. /\ Tidy(h) /\ Last(h) \in 1..Last(history) /\ h.current \in 1..Last(h)
      /\ h.maxSize = history.maxSize /\ h.unique = history.unique
      /\ h.unique => h.entries[h.current].text = data
      /\ h.yankPos \in 0..Last(h)
  BY <1>1, <1>2, StoredIs
<1>4. /\ h \in Object /\ Sound(h) /\ Last(h) \in Nat /\ Last(history) \in Nat
      /\ Last(history) <= history.maxSize + 1 /\ history.maxSize \in Nat
  BY <1>3, LastIs, HistoryIs DEF Tidy, Sound
<1>5. /\ history' \in Object /\ history'.entries = h.entries
      /\ history'.locations = h.locations
      /\ history'.current = h.current /\ history'.previous = h.current
      /\ history'.yankPos = h.yankPos /\ history'.maxSize = h.maxSize
      /\ history'.unique = h.unique /\ history'.recallMostRecent = h.recallMostRecent
  BY <1>2, <1>4 DEF Object
<1>6. Tidy(history') /\ Last(history') = Last(h)
  <2>1. h.current \in Dangling..Last(h) /\ h.current # Dangling
    BY <1>3, <1>4 DEF Dangling
  <2> QED BY <1>3, <1>4, <1>5, <2>1, IteratorsMoved DEF Sound
<1>7. Typed'
  BY DEF SearchBegin, NowTyped, IInv, Typed, Phases
<1>8. h.unique => data = Text(h, h.current)
  <2>1. h.current \in Positions(h)
    BY <1>3, <1>4, LastIs
  <2> QED BY <1>3, <2>1 DEF Tidy, Fresh, Text
<1>9. SearchIsSomewhere'
  BY <1>2, <1>5 DEF SearchIsSomewhere
<1>10. Last(history') <= history'.maxSize + 1
  BY <1>3, <1>4, <1>5, <1>6
<1>11. history'.unique => data' = Text(history', history'.previous)
  BY <1>2, <1>5, <1>8 DEF Text
<1> QED BY <1>2, <1>3, <1>5, <1>6, <1>7, <1>9, <1>10, <1>11, SearchGoesOn

\* A key of the search.
LEMMA SearchFindIInv ==
  ASSUME IInv, NEW up \in BOOLEAN, NEW takenBack \in BOOLEAN,
         NEW having \in SUBSET (LinesUsed \ {Empty}), SearchFind(up, having, takenBack)
  PROVE  IInv'
<1>1. /\ phase \in {"search", "found"} /\ phase' = "found" /\ data' = data
      /\ history.current \in 1..Last(history) /\ history.previous \in 1..Last(history)
  BY DEF SearchFind, IInv, Between
<1>2. /\ history \in Object /\ Tidy(history) /\ Sound(history) /\ Last(history) \in Nat
      /\ Positions(history) = 1..Last(history)
      /\ Last(history) <= history.maxSize + 1 /\ history.yankPos \in 0..Last(history)
  BY HistoryIs DEF IInv
<1>3. PICK to \in 1..Last(history), r \in BOOLEAN :
        /\ history' = [history EXCEPT !.current = to, !.recallMostRecent = r]
        /\ r => history.recallMostRecent
        /\ to = history.previous \/ Text(history, to) # Empty
  <2> DEFINE from == IF takenBack THEN history.previous ELSE history.current
             ahead == {i \in Positions(history) :
                         Text(history, i) \in having /\ IF up THEN i < from ELSE i > from}
  <2>1. from \in 1..Last(history) /\ history.recallMostRecent \in BOOLEAN
    BY <1>1, <1>2 DEF Object
  <2>2. CASE /\ Text(history, from) \in having
             /\ \E moved \in BOOLEAN :
                  history' = [history EXCEPT !.current = from,
                                !.recallMostRecent = @ /\ (up \/ ~moved)]
    <3>1. PICK moved \in BOOLEAN :
            history' = [history EXCEPT !.current = from,
                          !.recallMostRecent = history.recallMostRecent /\ (up \/ ~moved)]
      BY <2>2
    <3>2. PICK r \in BOOLEAN : r = (history.recallMostRecent /\ (up \/ ~moved))
      OBVIOUS
    <3> HIDE DEF from
    <3> QED BY <2>1, <2>2, <3>1, <3>2
  <2>3. CASE \E i \in ahead :
               history' = [history EXCEPT !.current = i, !.recallMostRecent = FALSE]
    <3>1. PICK i \in ahead :
            history' = [history EXCEPT !.current = i, !.recallMostRecent = FALSE]
      BY <2>3
    <3>2. i \in 1..Last(history) /\ Text(history, i) # Empty
      BY <1>2
    <3> QED BY <3>1, <3>2
  <2>4. CASE \E looked \in BOOLEAN :
               history' = [history EXCEPT !.current = history.previous,
                                          !.recallMostRecent = @ /\ ~looked]
    <3>1. PICK looked \in BOOLEAN :
            history' = [history EXCEPT !.current = history.previous,
                          !.recallMostRecent = history.recallMostRecent /\ ~looked]
      BY <2>4
    <3>2. PICK r \in BOOLEAN : r = (history.recallMostRecent /\ ~looked)
      OBVIOUS
    <3> QED BY <1>1, <3>1, <3>2
  <2>5. \/ /\ Text(history, from) \in having
           /\ \E moved \in BOOLEAN :
                history' = [history EXCEPT !.current = from,
                              !.recallMostRecent = @ /\ (up \/ ~moved)]
        \/ \E i \in ahead :
             history' = [history EXCEPT !.current = i, !.recallMostRecent = FALSE]
        \/ \E looked \in BOOLEAN :
             history' = [history EXCEPT !.current = history.previous,
                                        !.recallMostRecent = @ /\ ~looked]
    BY DEF SearchFind
  <2> QED BY <2>2, <2>3, <2>4, <2>5
<1>4. /\ history' \in Object /\ history'.entries = history.entries
      /\ history'.locations = history.locations
      /\ history'.current = to /\ history'.previous = history.previous
      /\ history'.yankPos = history.yankPos /\ history'.maxSize = history.maxSize
      /\ history'.unique = history.unique /\ history'.recallMostRecent = r
  <2>1. to \in Int
    BY <1>2
  <2> QED BY <1>2, <1>3, <2>1 DEF Object
<1>5. Tidy(history') /\ Last(history') = Last(history)
  <2>1. to \in Dangling..Last(history) /\ to # Dangling
        /\ history.previous \in Dangling..Last(history) /\ history.previous # Dangling
    BY <1>1, <1>2 DEF Dangling
  <2> QED BY <1>2, <1>4, <2>1, IteratorsMoved DEF Sound
<1>6. Typed'
  BY DEF SearchFind, IInv, Typed, Phases
<1>7. SearchIsSomewhere'
  BY <1>1, <1>3, <1>4 DEF SearchIsSomewhere, Text
<1>8. history'.unique /\ history'.previous # Last(history') =>
        data' = Text(history', history'.previous)
  BY <1>1, <1>4, <1>5 DEF IInv, LineIsRecalled, Text
<1>9. Last(history') <= history'.maxSize + 1 /\ history'.yankPos \in 0..Last(history')
  BY <1>2, <1>4, <1>5
<1> QED BY <1>1, <1>4, <1>5, <1>6, <1>7, <1>8, <1>9, SearchGoesOn

\* The line found is taken over, or not.
LEMMA SearchAcceptIInv ==
  ASSUME IInv, SearchAccept
  PROVE  IInv'
<1>1. /\ phase \in {"search", "found"} /\ phase' = "input"
      /\ history.current \in 1..Last(history) /\ history.previous \in 1..Last(history)
      /\ history \in Object /\ Tidy(history) /\ Last(history) \in Nat
      /\ \A i \in 1..Last(history) : Text(history, i) \in Lines
  BY HistoryIs DEF SearchAccept, IInv, Between
<1>2. Last(history) \in 1..Last(history) /\ data \in Lines
  BY <1>1 DEF IInv, Typed
<1>3. PICK to \in 1..Last(history) : to = history.current
  BY <1>1
<1>4. CASE phase = "search" \/ Text(history, history.current) = Empty
  <2>1. history' = ResetYank(history) /\ data' = data
    BY <1>4 DEF SearchAccept
  <2>2. history.current = history.previous
    BY <1>1, <1>4 DEF IInv, SearchIsSomewhere
  <2>3. history.unique /\ to # Last(history) => data' = Text(history, to)
    BY <1>1, <1>3, <2>1, <2>2 DEF IInv, LineIsRecalled
  <2>4. PICK p \in Int, r \in BOOLEAN :
          p = history.previous /\ r = history.recallMostRecent
    BY <1>1 DEF Object
  <2>5. history' = [history EXCEPT !.current = to, !.previous = p, !.yankPos = End,
                                   !.recallMostRecent = r]
    BY <1>1, <1>3, <2>1, <2>4 DEF ResetYank, Object
  <2>6. p \in Dangling..Last(history) /\ p # Dangling
    BY <1>1, <2>4 DEF Dangling
  <2>7. Typed'
    BY <2>1 DEF SearchAccept, IInv, Typed, Phases
  <2> QED BY <1>1, <1>2, <2>3, <2>5, <2>6, <2>7, GoIInv
<1>5. CASE ~(phase = "search" \/ Text(history, history.current) = Empty)
  <2>1. /\ history' = ResetYank(CommitIndex(history))
        /\ data' = Text(history, to)
    BY <1>3, <1>5 DEF SearchAccept
  <2>2. history' = [history EXCEPT !.current = to, !.previous = to, !.yankPos = End,
                                   !.recallMostRecent = TRUE]
    BY <1>1, <1>3, <2>1 DEF ResetYank, CommitIndex, Object
  <2>3. to \in Int /\ to \in Dangling..Last(history) /\ to # Dangling
    BY <1>1 DEF Dangling
  <2>4. Typed'
    BY <1>1, <2>1 DEF SearchAccept, IInv, Typed, Phases
  <2> QED BY <1>1, <1>2, <2>1, <2>2, <2>3, <2>4, GoIInv
<1> QED BY <1>4, <1>5

\* A cancelled search goes back.
LEMMA SearchCancelIInv ==
  ASSUME IInv, SearchCancel
  PROVE  IInv'
<1>1. /\ phase \in {"search", "found"} /\ phase' = "input" /\ data' = data
      /\ history.previous \in 1..Last(history)
      /\ history \in Object /\ Tidy(history) /\ Last(history) \in Nat
      /\ history' = ResetYank([history EXCEPT !.current = history.previous])
  BY HistoryIs DEF SearchCancel, IInv
<1>2. Last(history) \in 1..Last(history) /\ data \in Lines
  BY <1>1 DEF IInv, Typed
<1>3. PICK to \in 1..Last(history), r \in BOOLEAN :
        to = history.previous /\ r = history.recallMostRecent
  BY <1>1 DEF Object
<1>4. history' = [history EXCEPT !.current = to, !.previous = to, !.yankPos = End,
                                 !.recallMostRecent = r]
  BY <1>1, <1>3 DEF ResetYank, Object
<1>5. history.unique /\ to # Last(history) => data' = Text(history, to)
  BY <1>1, <1>3 DEF IInv, LineIsRecalled
<1>6. to \in Int /\ to \in Dangling..Last(history) /\ to # Dangling
  BY <1>1 DEF Dangling
<1>7. Typed'
  BY DEF SearchCancel, IInv, Typed, Phases
<1> QED BY <1>1, <1>2, <1>4, <1>5, <1>6, <1>7, GoIInv

\* commit_line() remembers the recalled entry, the line goes.
LEMMA CommitLineIInv ==
  ASSUME IInv, CommitLine
  PROVE  IInv'
<1>1. /\ phase = "input" /\ phase' = "accepted"
      /\ history' = ResetYank(DropLast(CommitIndex(history)))
      /\ history.current \in 1..Last(history)
      /\ history \in Object /\ Tidy(history) /\ Last(history) \in Nat
      /\ history.maxSize \in Nat /\ Last(history) <= history.maxSize + 1
  BY HistoryIs DEF CommitLine, IInv, Between
<1>2. PICK h : h = CommitIndex(history)
  OBVIOUS
<1>3. /\ h \in Object /\ h.entries = history.entries /\ h.locations = history.locations
      /\ h.current = history.current /\ h.previous = history.current
      /\ h.yankPos = history.yankPos /\ h.maxSize = history.maxSize
      /\ h.unique = history.unique
  BY <1>1, <1>2 DEF CommitIndex, Object
<1>4. Tidy(h) /\ Last(h) = Last(history)
  <2>1. h.current \in Dangling..Last(history) /\ h.current # Dangling
    BY <1>1, <1>3 DEF Dangling
  <2>2. h.yankPos \in Dangling..Last(history)
    BY <1>1, <1>3 DEF Tidy, Sound
  <2> QED BY <1>1, <1>3, <2>1, <2>2, IteratorsMoved
<1>5. PICK g : g = DropLast(h)
  OBVIOUS
<1>6. /\ Tidy(g) /\ Last(g) = Last(history) - 1 /\ g.yankPos = End
      /\ g.maxSize = history.maxSize
  BY <1>1, <1>3, <1>4, <1>5, DropLastTidy
<1>7. history' = g
  <2>1. history' = ResetYank(g) /\ g \in Object
    BY <1>1, <1>2, <1>5, <1>6 DEF Tidy, Sound
  <2> QED BY <1>6, <2>1 DEF ResetYank, Object
<1>8. AfterCurrent \in Lines \cup {NoLine}
  <2>1. ASSUME history.current + 1 < Last(history)
        PROVE  history.entries[history.current + 1].text \in Lines
    <3>1. history.current + 1 \in 1..Last(history)
      BY <1>1, <2>1
    <3>2. history.entries[history.current + 1] \in EntryType
      BY <3>1, HistoryIs
    <3> QED BY <3>2 DEF EntryType
  <2> QED BY <2>1 DEF AfterCurrent
<1>9. Typed' /\ Between'
  BY <1>1, <1>8 DEF CommitLine, IInv, Typed, Phases, Between
<1>10. Last(g) <= g.maxSize + 1
  BY <1>1, <1>6
<1> QED BY <1>6, <1>7, <1>9, <1>10, BetweenGoesOn

\* abort_line() forgets that a line was recalled.
LEMMA AbortLineIInv ==
  ASSUME IInv, AbortLine
  PROVE  IInv'
<1>1. /\ phase = "input" /\ phase' = "aborted"
      /\ history' = [DropLast(history) EXCEPT !.recallMostRecent = FALSE]
      /\ history.current \in 1..Last(history)
      /\ Tidy(history) /\ Last(history) \in Nat
      /\ history.maxSize \in Nat /\ Last(history) <= history.maxSize + 1
  BY HistoryIs DEF AbortLine, IInv, Between
<1>2. PICK g : g = DropLast(history)
  OBVIOUS
<1>3. /\ Tidy(g) /\ Last(g) = Last(history) - 1 /\ g.yankPos = End
      /\ g.maxSize = history.maxSize
  BY <1>1, <1>2, DropLastTidy
<1>4. g \in Object /\ Sound(g)
  BY <1>3 DEF Tidy, Sound
<1>5. /\ history' \in Object /\ history'.entries = g.entries
      /\ history'.locations = g.locations
      /\ history'.current = g.current /\ history'.previous = g.previous
      /\ history'.yankPos = g.yankPos /\ history'.maxSize = g.maxSize
      /\ history'.unique = g.unique /\ ~history'.recallMostRecent
  BY <1>1, <1>2, <1>4 DEF Object
<1>6. Tidy(history') /\ Last(history') = Last(g)
  BY <1>3, <1>4, <1>5, IteratorsMoved DEF Sound
<1>7. Typed' /\ Between'
  BY <1>1 DEF AbortLine, IInv, Typed, Phases, Between
<1>8. Last(history') <= history'.maxSize + 1
  BY <1>1, <1>3, <1>5, <1>6
<1> QED BY <1>3, <1>5, <1>6, <1>7, <1>8, BetweenGoesOn

\* Every step keeps the invariant.
LEMMA NextIInv ==
  ASSUME Plain, IInv, [Next]_vars
  PROVE  IInv'
<1>1. CASE Program
  BY <1>1, ProgramIInv
<1>2. CASE \E line \in LinesUsed : Start(line)
  BY <1>2, StartIInv
<1>3. CASE Keys
  <2>1. CASE \E line \in LinesUsed : EditLine(line)
    BY <2>1, EditLineIInv
  <2>2. CASE \E up \in BOOLEAN : HistoryMove(up) \/ HistoryJump(up)
    BY <2>2, HistoryMoveIInv, HistoryJumpIInv
  <2>3. CASE RestoreCurrent
    <3>1. phase = "input" /\ HistoryRestore({history.current})
      BY <2>3 DEF RestoreCurrent, HistoryRestore
    <3>2. history.current \in Positions(history)
      BY <3>1, HistoryIs DEF IInv, Between
    <3> QED BY <3>1, <3>2, HistoryRestoreIInv
  <2>4. CASE RestoreAll
    <3>1. phase = "input" /\ HistoryRestore(Positions(history))
      BY <2>4 DEF RestoreAll, HistoryRestore
    <3>2. history.current \in Positions(history)
      BY <3>1, HistoryIs DEF IInv, Between
    <3> QED BY <3>1, <3>2, HistoryRestoreIInv
  <2>5. CASE YankLastArg
    BY <2>5, YankLastArgIInv
  <2>6. CASE OtherKey
    BY <2>6, OtherKeyIInv
  <2>7. CASE \E back \in BOOLEAN, having \in SUBSET LinesUsed : CommonPrefixSearch(back, having)
    BY <2>7, CommonPrefixSearchIInv
  <2>8. CASE \E up, takenBack \in BOOLEAN, having \in SUBSET (LinesUsed \ {Empty}) :
               SearchFind(up, having, takenBack)
    BY <2>8, SearchFindIInv
  <2>9. CASE SearchBegin
    BY <2>9, SearchBeginIInv
  <2>10. CASE SearchAccept
    BY <2>10, SearchAcceptIInv
  <2>11. CASE SearchCancel
    BY <2>11, SearchCancelIInv
  <2> QED BY <1>3, <2>1, <2>2, <2>3, <2>4, <2>5, <2>6, <2>7, <2>8, <2>9, <2>10, <2>11 DEF Keys
<1>4. CASE CommitLine
  BY <1>4, CommitLineIInv
<1>5. CASE AbortLine
  BY <1>5, AbortLineIInv
<1>6. CASE UNCHANGED vars
  BY <1>6 DEF vars, IInv, Typed, Between, LineIsRecalled, SearchIsSomewhere
<1> QED BY <1>1, <1>2, <1>3, <1>4, <1>5, <1>6 DEF Next

\* The inductive invariant holds always.
LEMMA Inductive ==
  ASSUME Plain
  PROVE  Spec => []IInv
<1>1. Init => IInv
  BY InitIInv
<1>2. IInv /\ [Next]_vars => IInv'
  BY NextIInv
<1> QED BY <1>1, <1>2, PTL DEF Spec

-----------------------------------------------------------------------------
(* What a reader of the code should know of.                                *)

\* Type correctness: History and the handlers never give an iterator, a text or a
\* phase another value than those named in TypeOK.
THEOREM Typing ==
  ASSUME Plain
  PROVE  Spec => []TypeOK
<1>1. IInv => TypeOK
  <2> SUFFICES ASSUME IInv PROVE TypeOK
    OBVIOUS
  <2>1. /\ history \in Object /\ Sound(history) /\ Last(history) \in Nat
        /\ Positions(history) = 1..Last(history)
    BY HistoryIs
  <2>2. \A p \in Dangling..Last(history) : p \in Positions(history) \cup {End, Dangling}
    BY <2>1 DEF Dangling, End
  <2>3. history.yankPos \in Positions(history) \cup {End}
    BY <2>1 DEF IInv, End
  <2>4. {history.current, history.previous} \cup {history.locations[line] : line \in Lines}
          \subseteq Positions(history) \cup {End, Dangling}
    BY <2>1, <2>2 DEF Sound
  <2> QED BY <2>1, <2>3, <2>4 DEF TypeOK, IInv, Typed, Phases, Object, EntryType
<1> QED BY <1>1, Inductive, PTL

\* During an input() _current is at an entry, and _previous is where Down and a
\* cancelled search look for one: no handler reads through an iterator that erase()
\* left behind.
THEOREM NothingDangles ==
  ASSUME Plain
  PROVE  Spec => []IteratorsAreEntries
<1>1. IInv => IteratorsAreEntries
  <2> SUFFICES ASSUME IInv PROVE CurrentIsEntry /\ PreviousIsEntry
    BY DEF IteratorsAreEntries
  <2>1. Positions(history) = 1..Last(history) /\ Last(history) \in Nat /\ Tidy(history)
    BY HistoryIs
  <2>2. \A p \in 0..Last(history) : p \in Positions(history) \cup {End}
    BY <2>1 DEF End
  <2>3. phase \in {"search", "found"} => history.previous \in Positions(history)
    BY <2>1 DEF IInv
  <2>4. history.recallMostRecent => history.previous \in Positions(history) \cup {End}
    BY <2>1, <2>2 DEF Tidy, Firm
  <2> QED BY <2>1, <2>3, <2>4 DEF IInv, CurrentIsEntry, PreviousIsEntry
<1> QED BY <1>1, Inductive, PTL

\* In a unique history _locations leads to every entry by its text and nowhere else,
\* after whatever add(), update_last(), erase(), load() and trim_to_max_size() did.
THEOREM LocationsStayExact ==
  ASSUME Plain
  PROVE  Spec => []LocationsExact
<1>1. IInv => LocationsExact
  <2> SUFFICES ASSUME IInv, history.unique,
                      NEW line \in Lines, NEW i \in Positions(history) \cup {Dangling}
               PROVE  history.locations[line] = i
                        <=> i # Dangling /\ history.entries[i].text = line
    BY DEF LocationsExact
  <2>1. /\ Positions(history) = 1..Last(history) /\ Last(history) \in Nat
        /\ history.locations[line] \in 0..Last(history)
        /\ \A j \in 1..Last(history) :
             history.locations[line] = j <=> history.entries[j].text = line
    BY HistoryIs DEF Tidy, Known
  <2>2. CASE i = Dangling
    BY <2>1, <2>2 DEF Dangling
  <2>3. CASE i # Dangling
    BY <2>1, <2>3
  <2> QED BY <2>2, <2>3
<1> QED BY <1>1, Inductive, PTL

\* However lines are added, loaded, edited and dropped, and whatever maximum is set,
\* the list has at most one entry more than it: add() makes room before.
THEOREM SizeStaysBounded ==
  ASSUME Plain
  PROVE  Spec => []SizeBounded
<1>1. IInv => SizeBounded
  BY DEF IInv, SizeBounded, Last
<1> QED BY <1>1, Inductive, PTL

\* next_yank_position() never comes to the line that is being edited.
THEOREM YankingSkipsTheLine ==
  ASSUME Plain
  PROVE  Spec => []YankedIsOlder
<1>1. IInv => YankedIsOlder
  BY DEF IInv, YankedIsOlder
<1> QED BY <1>1, Inductive, PTL

-----------------------------------------------------------------------------
(* What is left of the entries that an input() found.                       *)

\* When one element is taken out, the ranks behind it go down by one.
LEMMA RankRemoved ==
  ASSUME NEW N \in Nat, NEW S \in SUBSET (1..N), NEW x \in S
  PROVE  /\ Cardinality(S \ {x}) = Cardinality(S) - 1
         /\ \A y \in S \ {x} :
              Rank(S \ {x}, y) = IF Rank(S, y) < Rank(S, x) THEN Rank(S, y) ELSE Rank(S, y) - 1
<1>1. /\ IsFiniteSet(S) /\ Cardinality(S) \in Nat
      /\ \A y \in S : Rank(S, y) \in 1..Cardinality(S)
      /\ \A y, z \in S : y < z => Rank(S, y) < Rank(S, z)
  BY Ranks
<1>2. Cardinality(S \ {x}) = Cardinality(S) - 1
  BY <1>1, FS_RemoveElement
<1>3. ASSUME NEW y \in S \ {x}
      PROVE  Rank(S \ {x}, y) = IF Rank(S, y) < Rank(S, x) THEN Rank(S, y) ELSE Rank(S, y) - 1
  <2>1. CASE y < x
    <3>1. {j \in S \ {x} : j <= y} = {j \in S : j <= y}
      BY <2>1
    <3>2. Rank(S, y) < Rank(S, x)
      BY <1>1, <2>1
    <3> QED BY <3>1, <3>2 DEF Rank
  <2>2. CASE x < y
    <3> DEFINE T == {j \in S : j <= y}
    <3>1. {j \in S \ {x} : j <= y} = T \ {x} /\ x \in T
      BY <2>2
    <3>2. IsFiniteSet(T)
      <4>1. T \in SUBSET S
        OBVIOUS
      <4> QED BY <1>1, <4>1, FS_Subset
    <3> HIDE DEF T
    <3>3. Cardinality(T \ {x}) = Cardinality(T) - 1
      BY <3>1, <3>2, FS_RemoveElement
    <3>4. Rank(S \ {x}, y) = Rank(S, y) - 1
      BY <3>1, <3>3 DEF Rank, T
    <3>5. ~(Rank(S, y) < Rank(S, x))
      <4>1. PICK a \in Nat, b \in Nat : a = Rank(S, x) /\ b = Rank(S, y)
        BY <1>1
      <4>2. a < b
        BY <1>1, <2>2, <4>1
      <4> QED BY <4>1, <4>2
    <3> QED BY <3>4, <3>5
  <2>3. y < x \/ x < y
    OBVIOUS
  <2> QED BY <2>1, <2>2, <2>3
<1> QED BY <1>2, <1>3

\* An entry b[i] that was found may be gone: the line was its text or its scratch
\* when it was stored, or it was the oldest of too many.
Gone(b, t, m, i) == {b[i].text, b[i].scratch} \cap t # {} \/ (i = 1 /\ Len(b) > m)

\* The first n entries of h are what is left of b.
LeftBy(kept, b, t, m, h, n) ==
  /\ \A i \in (1..Len(b)) \ kept : Gone(b, t, m, i)
  /\ Cardinality(kept) = n
  /\ \A i \in kept : h.entries[Rank(kept, i)].text = b[i].text
Left(b, t, m, h, n) == \E kept \in SUBSET (1..Len(b)) : LeftBy(kept, b, t, m, h, n)

\* Where the texts stay, so does what is left; and more may be gone when more was
\* typed.
LEMMA LeftStays ==
  ASSUME NEW b \in Seq(EntryType), NEW t, NEW m, NEW h, NEW n, Left(b, t, m, h, n),
         NEW u, t \subseteq u, NEW g, \A k \in 1..n : g.entries[k].text = h.entries[k].text
  PROVE  Left(b, u, m, g, n)
<1>1. PICK kept \in SUBSET (1..Len(b)) : LeftBy(kept, b, t, m, h, n)
  BY DEF Left
<1>2. \A i \in kept : Rank(kept, i) \in 1..n
  <2>1. Len(b) \in Nat
    OBVIOUS
  <2> QED BY <1>1, <2>1, Ranks DEF LeftBy
<1>3. LeftBy(kept, b, u, m, g, n)
  BY <1>1, <1>2 DEF LeftBy, Gone
<1> QED BY <1>3 DEF Left

\* When an entry goes that may be gone, the others are left.
LEMMA LeftWithout ==
  ASSUME NEW b \in Seq(EntryType), NEW t, NEW m, NEW h, NEW n \in Nat, Left(b, t, m, h, n),
         NEW r \in 1..n, NEW u, t \subseteq u, NEW g,
         \A i \in 1..Len(b) : b[i].text = h.entries[r].text => Gone(b, u, m, i),
         \A k \in 1..(n - 1) :
           g.entries[k].text = h.entries[IF k < r THEN k ELSE k + 1].text
  PROVE  Left(b, u, m, g, n - 1)
<1>1. PICK kept \in SUBSET (1..Len(b)) : LeftBy(kept, b, t, m, h, n)
  BY DEF Left
<1>2. /\ Len(b) \in Nat
      /\ \A i \in kept : Rank(kept, i) \in 1..n
      /\ \A k \in 1..n : \E i \in kept : Rank(kept, i) = k
      /\ \A i, j \in kept : i < j => Rank(kept, i) < Rank(kept, j)
  <2>1. Len(b) \in Nat
    OBVIOUS
  <2> QED BY <1>1, <2>1, Ranks DEF LeftBy
<1>3. PICK x \in kept : Rank(kept, x) = r
  BY <1>2
<1> DEFINE rest == kept \ {x}
<1>4. /\ Cardinality(rest) = n - 1
      /\ \A y \in rest :
           Rank(rest, y) = IF Rank(kept, y) < r THEN Rank(kept, y) ELSE Rank(kept, y) - 1
  BY <1>1, <1>2, <1>3, RankRemoved DEF LeftBy
<1>5. rest \in SUBSET (1..Len(b)) /\ x \notin rest
  OBVIOUS
<1>6. \A y \in rest : y \in kept
  OBVIOUS
<1>7. \A i \in (1..Len(b)) \ rest : i = x \/ i \in (1..Len(b)) \ kept
  OBVIOUS
<1> HIDE DEF rest
<1>8. ASSUME NEW y \in rest PROVE g.entries[Rank(rest, y)].text = b[y].text
  <2>1. PICK k \in 1..n : k = Rank(kept, y)
    BY <1>2, <1>6
  <2>2. k # r
    <3>1. x \in Int /\ y \in Int /\ x # y /\ y \in kept
      BY <1>5, <1>6
    <3>2. CASE x < y
      <4>1. Rank(kept, x) < Rank(kept, y)
        BY <1>2, <3>1, <3>2
      <4> QED BY <1>3, <2>1, <4>1
    <3>3. CASE y < x
      <4>1. Rank(kept, y) < Rank(kept, x)
        BY <1>2, <3>1, <3>3
      <4> QED BY <1>3, <2>1, <4>1
    <3> QED BY <3>1, <3>2, <3>3
  <2>3. h.entries[k].text = b[y].text
    BY <1>1, <1>6, <2>1 DEF LeftBy
  <2>4. CASE k < r
    <3>1. Rank(rest, y) = k /\ k \in 1..(n - 1)
      BY <1>4, <2>1, <2>4
    <3> QED BY <2>3, <2>4, <3>1
  <2>5. CASE r < k
    <3>1. Rank(rest, y) = k - 1 /\ k - 1 \in 1..(n - 1) /\ ~(k - 1 < r) /\ (k - 1) + 1 = k
      <4>1. ~(k < r)
        BY <2>5
      <4> QED BY <1>4, <2>1, <2>5, <4>1
    <3> QED BY <2>3, <3>1
  <2> QED BY <2>2, <2>4, <2>5
<1>9. \A i \in (1..Len(b)) \ rest : Gone(b, u, m, i)
  <2>1. h.entries[r].text = b[x].text
    BY <1>1, <1>3 DEF LeftBy
  <2>2. Gone(b, u, m, x)
    BY <2>1
  <2>3. \A i \in (1..Len(b)) \ kept : Gone(b, u, m, i)
    BY <1>1 DEF LeftBy, Gone
  <2> QED BY <1>7, <2>2, <2>3
<1>10. LeftBy(rest, b, u, m, g, n - 1)
  BY <1>4, <1>8, <1>9 DEF LeftBy
<1> QED BY <1>10, <1>5 DEF Left

\* At first everything is left.
LEMMA AllLeft ==
  ASSUME NEW h \in Object, NEW t, NEW m
  PROVE  Left(h.entries, t, m, h, Last(h))
<1> DEFINE N == Last(h)
<1>1. N \in Nat /\ Len(h.entries) = N
  BY LastIs DEF Last
<1>2. Cardinality(1..N) = N
  BY <1>1, FS_Interval
<1>3. ASSUME NEW i \in 1..N PROVE Rank(1..N, i) = i
  <2>1. {j \in 1..N : j <= i} = 1..i
    BY <1>1
  <2>2. Cardinality(1..i) = i
    BY FS_Interval
  <2> QED BY <2>1, <2>2 DEF Rank
<1>4. LeftBy(1..N, h.entries, t, m, h, N)
  BY <1>1, <1>2, <1>3 DEF LeftBy
<1> QED BY <1>1, <1>4 DEF Left

\* What update_last() does to the texts before the last entry.
LEMMA UpdateLastTexts ==
  ASSUME NEW h, Tidy(h), Last(h) > 0, h.current = Last(h), NEW line \in Lines
  PROVE  LET g == UpdateLast(h, line)
         IN \/ /\ Last(g) = Last(h)
               /\ \A k \in 1..(Last(h) - 1) : g.entries[k].text = h.entries[k].text
            \/ \E i \in 1..(Last(h) - 1) :
                 /\ h.entries[i].text = line /\ Last(g) = Last(h) - 1
                 /\ \A k \in 1..(Last(h) - 2) :
                      g.entries[k].text = h.entries[IF k < i THEN k ELSE k + 1].text
<1> DEFINE N == Last(h)
           alone == RemoveDuplicate(WithoutLast(h), line)
           known == IF h.unique THEN Located(alone, line, Last(alone)) ELSE alone
           g == UpdateLast(h, line)
<1>1. h \in Object /\ N \in Nat /\ N > 0 /\ Entry(line) \in EntryType
  BY LastIs, EntryIs DEF Tidy, Sound
<1>2. g = [known EXCEPT !.entries[Last(known)] = Entry(line)]
  BY DEF UpdateLast
<1>3. /\ known \in Object /\ Last(known) > 0 /\ known.entries = alone.entries
      /\ \/ Last(known) = N /\ alone.entries = h.entries
         \/ \E i \in 1..(N - 1) :
              /\ h.entries[i].text = line /\ Last(known) = N - 1
              /\ \A k \in 1..(N - 1) : alone.entries[k] = h.entries[IF k < i THEN k ELSE k + 1]
  <2>1. CASE ~h.unique
    <3>1. known = h /\ alone = h
      BY <2>1 DEF WithoutLast, RemoveDuplicate
    <3> HIDE DEF known, alone
    <3> QED BY <1>1, <3>1
  <2>2. CASE h.unique
    <3> DEFINE w == WithoutLast(h)
    <3>1. /\ Sound(w) /\ Known(w, N - 1) /\ Last(w) = N /\ w.entries = h.entries /\ w.unique
      BY <2>2, WithoutLastIs
    <3>2. \/ alone = w
          \/ \E i \in 1..(N - 1) : w.entries[i].text = line /\ alone = Erase(w, i)
      <4> HIDE DEF w
      <4>1. \/ RemoveDuplicate(w, line) = w
            \/ \E i \in 1..(N - 1) :
                 w.entries[i].text = line /\ RemoveDuplicate(w, line) = Erase(w, i)
        BY <3>1, DuplicateIs
      <4> QED BY <4>1 DEF w
    <3>3. Sound(alone) /\ Last(alone) \in 1..N
      BY <2>2, AloneIs
    <3> HIDE DEF w, alone
    <3>4. alone \in Object /\ Last(alone) \in Int
      BY <3>3, LastIs DEF Sound
    <3>5. known \in Object /\ known.entries = alone.entries
      <4>1. LET f == Located(alone, line, Last(alone))
            IN f \in Object /\ f.entries = alone.entries
        BY <3>4, LocatedIs
      <4> QED BY <2>2, <4>1
    <3> HIDE DEF known
    <3>6. Last(known) = Last(alone) /\ Last(known) > 0
      BY <3>3, <3>4, <3>5 DEF Last
    <3>7. CASE alone = w
      BY <3>1, <3>5, <3>6, <3>7
    <3>8. CASE \E i \in 1..(N - 1) : w.entries[i].text = line /\ alone = Erase(w, i)
      <4>1. PICK i \in 1..(N - 1) : w.entries[i].text = line /\ alone = Erase(w, i)
        BY <3>8
      <4>2. i \in Positions(w)
        BY <1>1, <3>1, LastIs DEF Sound
      <4>3. LET f == Erase(w, i)
            IN /\ Last(f) = Last(w) - 1
               /\ f.entries = [k \in 1..(Last(w) - 1) |-> w.entries[IF k < i THEN k ELSE k + 1]]
        BY <3>1, <4>2, EraseGives
      <4>4. /\ Last(alone) = N - 1
            /\ \A k \in 1..(N - 1) : alone.entries[k] = h.entries[IF k < i THEN k ELSE k + 1]
        BY <3>1, <4>1, <4>3
      <4> QED BY <3>1, <3>5, <3>6, <4>1, <4>4
    <3> QED BY <3>2, <3>7, <3>8
  <2> QED BY <2>1, <2>2
<1> HIDE DEF known, alone
<1>4. /\ Last(g) = Last(known)
      /\ \A i \in 1..Last(known) :
           g.entries[i] = IF i = Last(known) THEN Entry(line) ELSE known.entries[i]
  <2>1. LET f == [known EXCEPT !.entries[Last(known)] = Entry(line)]
        IN /\ Last(f) = Last(known)
           /\ \A i \in 1..Last(known) :
                f.entries[i] = IF i = Last(known) THEN Entry(line) ELSE known.entries[i]
    BY <1>1, <1>3, LastReplaced
  <2> HIDE DEF g
  <2> QED BY <1>2, <2>1
<1> HIDE DEF g
<1>5. CASE Last(known) = N /\ alone.entries = h.entries
  <2>1. \A k \in 1..(N - 1) : k \in 1..N /\ k # N
    BY <1>1
  <2> QED BY <1>3, <1>4, <1>5, <2>1 DEF g
<1>6. CASE \E i \in 1..(N - 1) :
             /\ h.entries[i].text = line /\ Last(known) = N - 1
             /\ \A k \in 1..(N - 1) : alone.entries[k] = h.entries[IF k < i THEN k ELSE k + 1]
  <2>1. PICK i \in 1..(N - 1) :
             /\ h.entries[i].text = line /\ Last(known) = N - 1
             /\ \A k \in 1..(N - 1) : alone.entries[k] = h.entries[IF k < i THEN k ELSE k + 1]
    BY <1>6
  <2>2. \A k \in 1..(N - 2) : k \in 1..(N - 1) /\ k # N - 1
    BY <1>1
  <2>3. \A k \in 1..(N - 2) : g.entries[k].text = h.entries[IF k < i THEN k ELSE k + 1].text
    BY <1>3, <1>4, <2>1, <2>2
  <2> QED BY <1>4, <2>1, <2>3 DEF g
<1> QED BY <1>3, <1>5, <1>6

\* Trimming one entry too many takes the oldest one.
LEMMA TrimOne ==
  ASSUME NEW h, Sound(h), Last(h) <= h.maxSize + 1
  PROVE  TrimToMaxSize(h) = IF Last(h) > h.maxSize THEN Erase(h, 1) ELSE h
<1> DEFINE N == Last(h)
           erased[n \in 0..N] == IF n = 0 THEN h ELSE Erase(erased[n - 1], 1)
<1>1. N \in Nat /\ h.maxSize \in Nat
  BY DEF Sound, Object, Last
<1>2. TrimToMaxSize(h) = IF N > h.maxSize THEN erased[N - h.maxSize] ELSE h
  BY DEF TrimToMaxSize
<1>3. erased = [n \in 0..N |-> IF n = 0 THEN h ELSE Erase(erased[n - 1], 1)]
  <2>1. \E f : f = [k \in 0..N |-> IF k = 0 THEN h ELSE Erase(f[k - 1], 1)]
    BY ZenonT(30), <1>1, ErasedExists
  <2> QED BY <2>1
<1> HIDE DEF erased
<1>4. ASSUME N > h.maxSize PROVE erased[N - h.maxSize] = Erase(h, 1)
  <2>1. N - h.maxSize = 1 /\ 0 \in 0..N /\ 1 \in 0..N
    BY <1>1, <1>4
  <2>2. erased[0] = h
    BY <1>3, <2>1
  <2>3. erased[1] = Erase(erased[0], 1)
    BY <1>3, <2>1
  <2> QED BY <2>1, <2>2, <2>3
<1> QED BY <1>2, <1>4

\* One entry of all goes.
LEMMA AllButOneLeft ==
  ASSUME NEW h \in Object, NEW t, NEW m, NEW r \in 1..Last(h), Gone(h.entries, t, m, r),
         NEW g, \A k \in 1..(Last(h) - 1) :
                  g.entries[k].text = h.entries[IF k < r THEN k ELSE k + 1].text
  PROVE  Left(h.entries, t, m, g, Last(h) - 1)
<1> DEFINE N == Last(h)
           S == (1..N) \ {r}
<1>1. N \in Nat /\ Len(h.entries) = N
  BY LastIs DEF Last
<1>2. Cardinality(S) = N - 1 /\ \A j \in S : Rank(S, j) = IF j < r THEN j ELSE j - 1
  BY <1>1, RankAllBut
<1>3. /\ S \in SUBSET (1..N)
      /\ \A i \in S : i \in 1..N /\ i # r
      /\ \A i \in (1..N) \ S : i = r
  OBVIOUS
<1> HIDE DEF S
<1>4. ASSUME NEW i \in S PROVE g.entries[Rank(S, i)].text = h.entries[i].text
  <2>1. i \in 1..N /\ i # r /\ r \in 1..N
    BY <1>3
  <2>2. CASE i < r
    <3>1. Rank(S, i) = i
      BY <1>2, <2>2
    <3>2. i \in 1..(N - 1)
      BY <1>1, <2>1, <2>2
    <3> QED BY <2>2, <3>1, <3>2
  <2>3. CASE ~(i < r)
    <3>1. Rank(S, i) = i - 1
      BY <1>2, <2>3
    <3>2. i - 1 \in 1..(N - 1) /\ ~(i - 1 < r) /\ (i - 1) + 1 = i
      BY <1>1, <2>1, <2>3
    <3> QED BY <3>1, <3>2
  <2> QED BY <2>2, <2>3
<1>5. LeftBy(S, h.entries, t, m, g, N - 1)
  BY <1>1, <1>2, <1>3, <1>4 DEF LeftBy
<1> QED BY <1>1, <1>3, <1>5 DEF Left

\* add() puts the line behind what is left.
LEMMA AddLeft ==
  ASSUME NEW h, Tidy(h), h.yankPos = End, Last(h) <= h.maxSize + 1, NEW line \in Lines
  PROVE  Left(h.entries, {line}, h.maxSize, Add(h, line), Last(Add(h, line)) - 1)
<1> DEFINE dup == RemoveDuplicate(h, line)
           room == TrimToMaxSize(dup)
           N == Last(h)
           m == h.maxSize
<1>1. /\ h \in Object /\ Sound(h) /\ N \in Nat /\ m \in Nat
      /\ h.entries \in [1..N -> EntryType] /\ Positions(h) = 1..N
  BY LastIs DEF Tidy, Sound, Object
<1>2. CASE h.entries # <<>> /\ Text(h, N) = line
  <2>1. N > 0
    <3>1. h.entries \in Seq(EntryType)
      BY <1>1 DEF Object
    <3> QED BY <1>2, <3>1 DEF Last
  <2> DEFINE g == [h EXCEPT !.entries[N] = Entry(line)]
  <2>2. Add(h, line) = g
    BY <1>2, AddIs
  <2>3. /\ Last(g) = N
        /\ \A i \in 1..N : g.entries[i] = IF i = N THEN Entry(line) ELSE h.entries[i]
    BY <1>1, <2>1, EntryIs, LastReplaced
  <2> HIDE DEF g
  <2>4. N \in 1..N /\ Gone(h.entries, {line}, m, N)
    BY <1>1, <1>2, <2>1 DEF Gone, Text
  <2>5. \A k \in 1..(N - 1) : g.entries[k].text = h.entries[IF k < N THEN k ELSE k + 1].text
    <3>1. \A k \in 1..(N - 1) : k \in 1..N /\ k # N /\ k < N
      BY <1>1
    <3> QED BY <2>3, <3>1
  <2>6. Left(h.entries, {line}, m, g, N - 1)
    BY <1>1, <2>4, <2>5, AllButOneLeft
  <2> QED BY <2>2, <2>3, <2>6
<1>3. CASE ~(h.entries # <<>> /\ Text(h, N) = line)
  <2>1. Add(h, line) = Appended(room, line)
    BY <1>3, AddIs
  <2>2. \/ dup = h
        \/ \E i \in 1..N : h.entries[i].text = line /\ dup = Erase(h, i)
    BY DuplicateIs DEF Tidy
  <2>3. room \in Object /\ Left(h.entries, {line}, m, room, Last(room))
    <3>1. CASE dup = h
      <4>1. room = IF N > m THEN Erase(h, 1) ELSE h
        BY <1>1, <3>1, TrimOne
      <4>2. CASE N > m
        <5>1. room = Erase(h, 1) /\ 1 \in 1..N /\ Gone(h.entries, {line}, m, 1)
          <6>1. Len(h.entries) = N
            BY DEF Last
          <6> QED BY <1>1, <4>1, <4>2, <6>1 DEF Gone
        <5>2. LET f == Erase(h, 1)
              IN /\ Sound(f) /\ Last(f) = N - 1
                 /\ f.entries = [k \in 1..(N - 1) |-> h.entries[IF k < 1 THEN k ELSE k + 1]]
          BY <1>1, <5>1, EraseGives
        <5>3. /\ Sound(room) /\ Last(room) = N - 1
              /\ \A k \in 1..(N - 1) :
                   room.entries[k].text = h.entries[IF k < 1 THEN k ELSE k + 1].text
          BY <5>1, <5>2
        <5>4. Left(h.entries, {line}, m, room, N - 1)
          <6> HIDE DEF room
          <6> QED BY <1>1, <5>1, <5>3, AllButOneLeft
        <5> QED BY <5>3, <5>4 DEF Sound
      <4>3. CASE ~(N > m)
        <5>1. room = h
          BY <4>1, <4>3
        <5> QED BY <1>1, <5>1, AllLeft
      <4> QED BY <4>2, <4>3
    <3>2. CASE \E i \in 1..N : h.entries[i].text = line /\ dup = Erase(h, i)
      <4>1. PICK i \in 1..N : h.entries[i].text = line /\ dup = Erase(h, i)
        BY <3>2
      <4>2. LET f == Erase(h, i)
            IN /\ Sound(f) /\ Last(f) = N - 1 /\ f.maxSize = m
               /\ f.entries = [k \in 1..(N - 1) |-> h.entries[IF k < i THEN k ELSE k + 1]]
        BY <1>1, EraseGives
      <4>3. /\ Sound(dup) /\ Last(dup) = N - 1 /\ dup.maxSize = m
            /\ \A k \in 1..(N - 1) :
                 dup.entries[k].text = h.entries[IF k < i THEN k ELSE k + 1].text
        BY <4>1, <4>2
      <4> HIDE DEF dup
      <4>4. room = dup
        <5>1. Last(dup) <= dup.maxSize + 1 /\ ~(Last(dup) > dup.maxSize)
          BY <1>1, <4>3
        <5> QED BY <4>3, <5>1, TrimOne
      <4>5. Gone(h.entries, {line}, m, i)
        BY <4>1 DEF Gone
      <4>6. Left(h.entries, {line}, m, dup, N - 1)
        BY <1>1, <4>3, <4>5, AllButOneLeft
      <4> QED BY <4>3, <4>4, <4>6 DEF Sound
    <3> QED BY <2>2, <3>1, <3>2
  <2> HIDE DEF room
  <2>4. LET g == Appended(room, line)
        IN /\ Last(g) = Last(room) + 1
           /\ \A i \in 1..Last(room) : g.entries[i] = room.entries[i]
    BY <2>3, AppendedIs
  <2>5. PICK g : g = Appended(room, line)
    OBVIOUS
  <2>6. /\ Last(g) - 1 = Last(room)
        /\ \A i \in 1..Last(room) : g.entries[i].text = room.entries[i].text
    <3>1. Last(room) \in Nat
      BY <2>3, LastIs
    <3> QED BY <2>4, <2>5, <3>1
  <2>7. Left(h.entries, {line}, m, g, Last(room))
    <3>1. h.entries \in Seq(EntryType)
      BY <1>1 DEF Object
    <3> QED BY <2>3, <2>6, <3>1, LeftStays
  <2> QED BY <2>1, <2>5, <2>6, <2>7
<1> QED BY <1>2, <1>3

\* What is left, during an input() and after it.
KInv ==
  /\ ~Between => Left(before, typed, history.maxSize, history, Last(history) - 1)
  /\ phase \in {"accepted", "aborted"} =>
       Left(before, typed, history.maxSize, history, Last(history))

\* The keys that leave the texts alone.
LEMMA TextsStay ==
  ASSUME IInv, KInv, ~Between, before' = before, typed' = typed,
         phase' \in {"input", "search", "found"},
         history'.maxSize = history.maxSize, Last(history') = Last(history),
         \A k \in 1..Last(history) : history'.entries[k].text = history.entries[k].text
  PROVE  KInv'
<1>1. /\ before \in Seq(EntryType) /\ Last(history) \in Nat
      /\ Left(before, typed, history.maxSize, history, Last(history) - 1)
  BY HistoryIs DEF IInv, Typed, KInv
<1>2. \A k \in 1..(Last(history) - 1) :
        history'.entries[k].text = history.entries[k].text
  BY <1>1
<1>3. Left(before, typed, history.maxSize, history', Last(history) - 1)
  BY <1>1, <1>2, LeftStays
<1> QED BY <1>3 DEF KInv, Between

\* The keys that leave the entries alone.
LEMMA EntriesStay ==
  ASSUME IInv, KInv, ~Between, before' = before, typed' = typed,
         phase' \in {"input", "search", "found"},
         history'.maxSize = history.maxSize, history'.entries = history.entries
  PROVE  KInv'
BY TextsStay DEF Last

\* The keys that store the line first.
LEMMA StoredLeft ==
  ASSUME IInv, KInv, phase = "input", NowTyped, before' = before,
         phase' \in {"input", "search", "found"},
         history'.maxSize = history.maxSize, Last(history') = Last(Stored),
         \A k \in 1..Last(Stored) : history'.entries[k].text = Stored.entries[k].text
  PROVE  KInv'
<1> DEFINE N == Last(history)
<1>1. /\ before \in Seq(EntryType) /\ N \in Nat /\ Tidy(history)
      /\ history.current \in 1..N /\ data \in Lines
      /\ Left(before, typed, history.maxSize, history, N - 1)
  BY HistoryIs DEF IInv, Typed, KInv, Between
<1>2. CASE IsLast(history)
  <2>1. PICK g : g = UpdateLast(history, data)
    OBVIOUS
  <2>2. Stored = g /\ history.current = N /\ typed' = typed \cup {data}
    BY <1>2, <2>1 DEF Stored, IsLast, NowTyped
  <2>3. \/ /\ Last(g) = N
           /\ \A k \in 1..(N - 1) : g.entries[k].text = history.entries[k].text
        \/ \E i \in 1..(N - 1) :
             /\ history.entries[i].text = data /\ Last(g) = N - 1
             /\ \A k \in 1..(N - 2) :
                  g.entries[k].text = history.entries[IF k < i THEN k ELSE k + 1].text
    BY <1>1, <2>1, <2>2, UpdateLastTexts
  <2>4. CASE /\ Last(g) = N
             /\ \A k \in 1..(N - 1) : g.entries[k].text = history.entries[k].text
    <3>1. \A k \in 1..(N - 1) : history'.entries[k].text = history.entries[k].text
      BY <1>1, <2>2, <2>4
    <3>2. typed \subseteq typed'
      BY <2>2
    <3>3. Left(before, typed', history.maxSize, history', N - 1)
      BY <1>1, <3>1, <3>2, LeftStays
    <3> QED BY <2>2, <2>4, <3>3 DEF KInv, Between
  <2>5. CASE \E i \in 1..(N - 1) :
               /\ history.entries[i].text = data /\ Last(g) = N - 1
               /\ \A k \in 1..(N - 2) :
                    g.entries[k].text = history.entries[IF k < i THEN k ELSE k + 1].text
    <3>1. PICK i \in 1..(N - 1) :
               /\ history.entries[i].text = data /\ Last(g) = N - 1
               /\ \A k \in 1..(N - 2) :
                    g.entries[k].text = history.entries[IF k < i THEN k ELSE k + 1].text
      BY <2>5
    <3>2. PICK n \in Nat : n = N - 1 /\ n - 1 = N - 2 /\ i \in 1..n
      BY <1>1
    <3>3. \A k \in 1..(n - 1) :
            history'.entries[k].text = history.entries[IF k < i THEN k ELSE k + 1].text
      BY <1>1, <2>2, <3>1, <3>2
    <3>4. \A j \in 1..Len(before) : before[j].text = history.entries[i].text =>
            Gone(before, typed', history.maxSize, j)
      BY <2>2, <3>1 DEF Gone
    <3>5. typed \subseteq typed' /\ Left(before, typed, history.maxSize, history, n)
      BY <1>1, <2>2, <3>2
    <3>6. Left(before, typed', history.maxSize, history', n - 1)
      <4>b. PICK b \in Seq(EntryType) : b = before
        BY <1>1
      <4>1. PICK t, u, m, h, f :
              /\ b = before /\ t = typed /\ u = typed' /\ m = history.maxSize
              /\ h = history /\ f = history'
        BY <4>b
      <4>2. /\ \A k \in 1..(n - 1) : f.entries[k].text = h.entries[IF k < i THEN k ELSE k + 1].text
            /\ \A j \in 1..Len(b) : b[j].text = h.entries[i].text => Gone(b, u, m, j)
            /\ t \subseteq u /\ Left(b, t, m, h, n)
        BY <3>3, <3>4, <3>5, <4>1, <4>b
      <4>3. Left(b, u, m, f, n - 1)
        BY <3>2, <4>2, LeftWithout
      <4> QED BY <4>1, <4>3
    <3> QED BY <2>2, <3>1, <3>2, <3>6 DEF KInv, Between
  <2> QED BY <2>3, <2>4, <2>5
<1>3. CASE ~IsLast(history)
  <2>1. Stored = history /\ typed' = typed
    BY <1>3 DEF Stored, NowTyped
  <2> QED BY <2>1, TextsStay DEF Between
<1> QED BY <1>2, <1>3

\* Every step keeps it.
LEMMA NextKInv ==
  ASSUME Plain, IInv, KInv, [Next]_vars
  PROVE  KInv'
<1> USE DEF KInv
<1>0. history \in Object /\ Tidy(history) /\ Last(history) \in Nat
  BY HistoryIs
<1>1. CASE Program
  <2>1. Between' /\ phase' \notin {"accepted", "aborted"}
    BY <1>1 DEF Program, HistoryAdd, HistoryLoad, SetMaxHistorySize, SetUniqueHistory,
                HistoryClear, Call, Between
  <2> QED BY <2>1
<1>2. ASSUME NEW line \in LinesUsed, Start(line) PROVE KInv'
  <2>1. PICK h : h = Add(history, line)
    OBVIOUS
  <2>2. /\ Between /\ history' = [h EXCEPT !.current = Last(h)] /\ phase' = "input"
        /\ before' = history.entries /\ typed' = {line} /\ line \in Lines
    BY <1>2, <2>1, UsedAreLines DEF Start
  <2>3. Tidy(history) /\ history.yankPos = End /\ Last(history) <= history.maxSize + 1
    BY <2>2 DEF IInv
  <2>4. Left(history.entries, {line}, history.maxSize, h, Last(h) - 1)
    BY <2>1, <2>2, <2>3, AddLeft
  <2>5. Tidy(h) /\ h.maxSize = history.maxSize
    BY <2>1, <2>2, <2>3, AddTidy
  <2>6. history'.entries = h.entries /\ history'.maxSize = history.maxSize
        /\ Last(history') = Last(h)
    BY <2>2, <2>5 DEF Tidy, Sound, Object, Last
  <2>7. Left(history.entries, {line}, history.maxSize, history', Last(h) - 1)
    <3>1. history.entries \in Seq(EntryType)
      BY <1>0 DEF Object
    <3> QED BY <2>4, <2>6, <3>1, LeftStays
  <2> QED BY <2>2, <2>6, <2>7 DEF Between
<1>3. ASSUME NEW line \in LinesUsed, EditLine(line) PROVE KInv'
  BY <1>0, <1>3, EntriesStay DEF EditLine, ResetYank, Object, Between
<1>4. ASSUME NEW up \in BOOLEAN, HistoryMove(up) PROVE KInv'
  <2>1. PICK kept : kept = SetScratch(Stored, data)
    OBVIOUS
  <2>2. phase = "input"
    BY <1>4 DEF HistoryMove
  <2>3. /\ kept \in Object /\ Last(kept) = Last(Stored) /\ kept.maxSize = history.maxSize
        /\ \A i \in 1..Last(kept) : kept.entries[i].text = Stored.entries[i].text
    BY <2>1, <2>2, KeptIs
  <2>4. /\ history' = ResetYank(Move(kept, up)) /\ NowTyped /\ before' = before
        /\ phase' = phase
    BY <1>4, <2>1 DEF HistoryMove
  <2>5. history'.entries = kept.entries /\ history'.maxSize = kept.maxSize
    BY <2>3, <2>4 DEF ResetYank, Move, Object
  <2>6. Last(history') = Last(kept)
    BY <2>5 DEF Last
  <2> QED BY <2>2, <2>3, <2>4, <2>5, <2>6, StoredLeft
<1>5. ASSUME NEW first \in BOOLEAN, HistoryJump(first) PROVE KInv'
  <2>1. PICK kept : kept = SetScratch(Stored, data)
    OBVIOUS
  <2>2. phase = "input"
    BY <1>5 DEF HistoryJump
  <2>3. /\ kept \in Object /\ Last(kept) = Last(Stored) /\ kept.maxSize = history.maxSize
        /\ \A i \in 1..Last(kept) : kept.entries[i].text = Stored.entries[i].text
    BY <2>1, <2>2, KeptIs
  <2>4. /\ \E to : history' = ResetYank([kept EXCEPT !.current = to,
                                                     !.recallMostRecent = FALSE])
        /\ NowTyped /\ before' = before /\ phase' = phase
    BY <1>5, <2>1 DEF HistoryJump
  <2>5. history'.entries = kept.entries /\ history'.maxSize = kept.maxSize
    BY <2>3, <2>4 DEF ResetYank, Object
  <2>6. Last(history') = Last(kept)
    BY <2>5 DEF Last
  <2> QED BY <2>2, <2>3, <2>4, <2>5, <2>6, StoredLeft
<1>6. ASSUME NEW which \in SUBSET Positions(history), HistoryRestore(which) PROVE KInv'
  <2>1. PICK fresh : fresh = [i \in Positions(history) |->
                               IF i \in which THEN Entry(history.entries[i].text)
                                              ELSE history.entries[i]]
    OBVIOUS
  <2>2. /\ phase = "input" /\ phase' = phase /\ before' = before /\ typed' = typed
        /\ history' = ResetYank([history EXCEPT !.entries = fresh])
    BY <1>6, <2>1 DEF HistoryRestore
  <2>3. history'.entries = fresh /\ history'.maxSize = history.maxSize
    BY <1>0, <2>2 DEF ResetYank, Object
  <2>4. Positions(history) = 1..Last(history)
    BY HistoryIs
  <2>5. \A i \in 1..Last(history) : fresh[i].text = history.entries[i].text
    BY <2>1, <2>4 DEF Entry
  <2>6. Last(history') = Last(history)
    <3>1. \A i \in 1..Last(history) : history.entries[i] \in EntryType
                                         /\ Entry(history.entries[i].text) \in EntryType
      BY HistoryIs, EntryIs DEF EntryType
    <3>2. fresh \in [1..Last(history) -> EntryType]
      BY <2>1, <2>4, <3>1
    <3>3. Len(fresh) = Last(history)
      BY <1>0, <3>2, SeqDef
    <3> QED BY <2>3, <3>3 DEF Last
  <2> QED BY <2>2, <2>3, <2>5, <2>6, TextsStay DEF Between
<1>7. ASSUME YankLastArg PROVE KInv'
  BY <1>0, <1>7, EntriesStay DEF YankLastArg, Object, Between
<1>8. ASSUME OtherKey PROVE KInv'
  BY <1>0, <1>8, EntriesStay DEF OtherKey, ResetYank, Object, Between
<1>9. ASSUME NEW back \in BOOLEAN, NEW having \in SUBSET LinesUsed,
             CommonPrefixSearch(back, having)
      PROVE  KInv'
  BY <1>0, <1>9, EntriesStay DEF CommonPrefixSearch, ResetYank, CommitIndex, Object, Between
<1>10. CASE SearchBegin
  <2>1. PICK h : h = Stored
    OBVIOUS
  <2>2. /\ phase = "input" /\ phase' = "search" /\ before' = before /\ NowTyped
        /\ history' = [h EXCEPT !.previous = h.current]
    BY <1>10, <2>1 DEF SearchBegin
  <2>3. h \in Object /\ h.maxSize = history.maxSize
    BY <2>1, <2>2, StoredIs DEF Tidy, Sound
  <2>4. history'.entries = h.entries /\ history'.maxSize = h.maxSize
    BY <2>2, <2>3 DEF Object
  <2>5. Last(history') = Last(h)
    BY <2>4 DEF Last
  <2> QED BY <2>1, <2>2, <2>3, <2>4, <2>5, StoredLeft
<1>11. ASSUME NEW up \in BOOLEAN, NEW takenBack \in BOOLEAN,
              NEW having \in SUBSET (LinesUsed \ {Empty}), SearchFind(up, having, takenBack)
       PROVE  KInv'
  <2>1. /\ ~Between /\ phase' = "found" /\ before' = before /\ typed' = typed
        /\ \E to, r : history' = [history EXCEPT !.current = to, !.recallMostRecent = r]
    BY <1>11 DEF SearchFind, Between
  <2>2. history'.entries = history.entries /\ history'.maxSize = history.maxSize
    BY <1>0, <2>1 DEF Object
  <2> QED BY <2>1, <2>2, EntriesStay
<1>12. CASE SearchAccept
  <2>1. /\ ~Between /\ phase' = "input" /\ before' = before /\ typed' = typed
        /\ history' = ResetYank(history) \/ history' = ResetYank(CommitIndex(history))
    BY <1>12 DEF SearchAccept, Between
  <2>2. history'.entries = history.entries /\ history'.maxSize = history.maxSize
    BY <1>0, <2>1 DEF ResetYank, CommitIndex, Object
  <2> QED BY <2>1, <2>2, EntriesStay
<1>13. CASE SearchCancel
  BY <1>0, <1>13, EntriesStay DEF SearchCancel, ResetYank, Object, Between
<1>14. CASE CommitLine
  <2>1. PICK h, g : h = CommitIndex(history) /\ g = DropLast(h)
    OBVIOUS
  <2>2. /\ phase = "input" /\ phase' = "accepted" /\ before' = before /\ typed' = typed
        /\ history' = ResetYank(g)
    BY <1>14, <2>1 DEF CommitLine
  <2>3. /\ h \in Object /\ h.entries = history.entries /\ h.locations = history.locations
        /\ h.current = history.current /\ h.previous = history.current
        /\ h.yankPos = history.yankPos /\ h.maxSize = history.maxSize
        /\ h.unique = history.unique
    BY <1>0, <2>1 DEF CommitIndex, Object
  <2>4. history.current \in 1..Last(history) /\ Last(h) = Last(history)
    BY <2>2, <2>3 DEF IInv, Between, Last
  <2>5. Tidy(h)
    <3>1. history.current \in Dangling..Last(history) /\ history.current # Dangling
      BY <1>0, <2>4 DEF Dangling
    <3>2. history.yankPos \in Dangling..Last(history)
      BY <1>0 DEF Tidy, Sound
    <3> QED BY <1>0, <2>3, <3>1, <3>2, IteratorsMoved
  <2>6. /\ Tidy(g) /\ Last(g) = Last(h) - 1 /\ g.maxSize = h.maxSize
        /\ \A i \in 1..(Last(h) - 1) : g.entries[i].text = h.entries[i].text
    BY <2>1, <2>3, <2>4, <2>5, DropLastTidy
  <2>7. history'.entries = g.entries /\ history'.maxSize = g.maxSize
    BY <2>2, <2>6 DEF ResetYank, Tidy, Sound, Object
  <2>8. Last(history') = Last(history) - 1
    BY <2>4, <2>6, <2>7 DEF Last
  <2>9. before \in Seq(EntryType)
    BY DEF IInv, Typed
  <2>10. Left(before, typed, history.maxSize, history', Last(history) - 1)
    BY <2>2, <2>3, <2>4, <2>6, <2>7, <2>9, LeftStays DEF Between
  <2> QED BY <2>2, <2>3, <2>6, <2>7, <2>8, <2>10 DEF Between
<1>15. CASE AbortLine
  <2>1. PICK g : g = DropLast(history)
    OBVIOUS
  <2>2. /\ phase = "input" /\ phase' = "aborted" /\ before' = before /\ typed' = typed
        /\ history' = [g EXCEPT !.recallMostRecent = FALSE]
    BY <1>15, <2>1 DEF AbortLine
  <2>3. history.current \in 1..Last(history)
    BY <2>2 DEF IInv, Between
  <2>4. /\ Tidy(g) /\ Last(g) = Last(history) - 1 /\ g.maxSize = history.maxSize
        /\ \A i \in 1..(Last(history) - 1) : g.entries[i].text = history.entries[i].text
    BY <1>0, <2>1, <2>3, DropLastTidy
  <2>5. history'.entries = g.entries /\ history'.maxSize = g.maxSize
    BY <2>2, <2>4 DEF Tidy, Sound, Object
  <2>6. Last(history') = Last(history) - 1
    BY <2>4, <2>5 DEF Last
  <2>7. before \in Seq(EntryType)
    BY DEF IInv, Typed
  <2>8. Left(before, typed, history.maxSize, history', Last(history) - 1)
    BY <2>2, <2>4, <2>5, <2>7, LeftStays DEF Between
  <2> QED BY <2>2, <2>4, <2>5, <2>6, <2>8 DEF Between
<1>16. CASE UNCHANGED vars
  BY <1>16 DEF vars, Between
<1>17. RestoreCurrent \/ RestoreAll =>
         \E which \in SUBSET Positions(history) : HistoryRestore(which)
  <2>1. phase = "input" => history.current \in Positions(history)
    BY HistoryIs DEF IInv, Between
  <2> QED BY <2>1 DEF RestoreCurrent, RestoreAll, HistoryRestore
<1>18. CASE Keys
  BY <1>3, <1>4, <1>5, <1>6, <1>7, <1>8, <1>9, <1>10, <1>11, <1>12, <1>13, <1>17, <1>18 DEF Keys
<1> QED BY <1>1, <1>2, <1>14, <1>15, <1>16, <1>18 DEF Next

\* An input() takes nothing from the history but duplicates of what the line was when
\* it was stored, and the oldest entry when there were too many: what erase(),
\* update_last() and trim_to_max_size() leave are the entries that were there, with
\* their texts and in their order.
THEOREM InputTakesNothingElse ==
  ASSUME Plain
  PROVE  Spec => []HistoryKept
<1>1. Init => KInv
  BY DEF Init, KInv, Between
<1>2. IInv /\ KInv /\ [Next]_vars => KInv'
  BY NextKInv
<1>3. IInv /\ KInv => HistoryKept
  <2> SUFFICES ASSUME IInv, KInv, phase \in {"accepted", "aborted"}
               PROVE  \E kept \in SUBSET (1..Len(before)) :
                        /\ \A i \in (1..Len(before)) \ kept :
                             \/ {before[i].text, before[i].scratch} \cap typed # {}
                             \/ i = 1 /\ Len(before) > history.maxSize
                        /\ Cardinality(kept) = Len(history.entries)
                        /\ \A i \in kept :
                             history.entries[Cardinality({j \in kept : j <= i})].text
                               = before[i].text
    BY DEF HistoryKept
  <2> QED BY DEF KInv, Left, LeftBy, Gone, Rank, Last
<1> QED BY <1>1, <1>2, <1>3, Inductive, PTL DEF Spec
-----------------------------------------------------------------------------
(* What Down goes to after a recalled line was accepted.                    *)

\* The object remembers the entry with that line, behind which there is another,
\* and there is room for a line that is edited.
Remembers(h, line) ==
  /\ Tidy(h) /\ h.unique /\ h.recallMostRecent /\ Last(h) <= h.maxSize
  /\ h.previous = h.current /\ h.current \in 1..(Last(h) - 1)
  /\ h.entries[h.current].text = line

\* add() of an object that remembers: nothing has to be trimmed.
LEMMA AddRemembering ==
  ASSUME NEW h, NEW old, Remembers(h, old), NEW line \in Lines
  PROVE  \/ /\ h.entries[Last(h)].text = line
            /\ Add(h, line) = [h EXCEPT !.entries[Last(h)] = Entry(line)]
         \/ h.locations[line] = End /\ Add(h, line) = Appended(h, line)
         \/ \E i \in 1..(Last(h) - 1) :
              h.entries[i].text = line /\ Add(h, line) = Appended(Erase(h, i), line)
<1>1. /\ Tidy(h) /\ Sound(h) /\ h \in Object /\ Last(h) \in Nat /\ Last(h) > 0
      /\ Positions(h) = 1..Last(h) /\ h.maxSize \in Nat /\ Last(h) <= h.maxSize
      /\ Fresh(h) /\ Known(h, Last(h))
  BY LastIs DEF Remembers, Tidy, Sound, Object
<1>2. Text(h, Last(h)) = h.entries[Last(h)].text
  BY <1>1 DEF Fresh, Text
<1>3. CASE h.entries # <<>> /\ Text(h, Last(h)) = line
  BY <1>2, <1>3, AddIs
<1>4. CASE ~(h.entries # <<>> /\ Text(h, Last(h)) = line)
  <2>1. Add(h, line) = Appended(TrimToMaxSize(RemoveDuplicate(h, line)), line)
    BY <1>4, AddIs
  <2>2. \/ RemoveDuplicate(h, line) = h /\ h.locations[line] = End
        \/ \E i \in 1..Last(h) : h.entries[i].text = line /\ RemoveDuplicate(h, line) = Erase(h, i)
    BY <1>1, DuplicateIs DEF Remembers
  <2>3. CASE RemoveDuplicate(h, line) = h /\ h.locations[line] = End
    <3>1. TrimToMaxSize(h) = h
      BY <1>1, TrimOne
    <3> QED BY <2>1, <2>3, <3>1
  <2>4. ASSUME NEW i \in 1..Last(h), h.entries[i].text = line,
               RemoveDuplicate(h, line) = Erase(h, i)
        PROVE  i \in 1..(Last(h) - 1) /\ Add(h, line) = Appended(Erase(h, i), line)
    <3>1. PICK g : g = Erase(h, i)
      OBVIOUS
    <3>2. Sound(g) /\ Last(g) = Last(h) - 1 /\ g.maxSize = h.maxSize
      BY <1>1, <3>1, EraseGives
    <3>3. TrimToMaxSize(g) = g
      BY <1>1, <3>2, TrimOne
    <3>4. h.entries # <<>>
      BY <1>1 DEF Last
    <3>5. i # Last(h)
      BY <1>2, <1>4, <2>4, <3>4
    <3> QED BY <1>1, <2>1, <2>4, <3>1, <3>3, <3>5
  <2> QED BY <2>2, <2>3, <2>4
<1> QED BY <1>3, <1>4

\* What becomes of the remembered entry when another one is erased, and what comes
\* into its place when it is erased itself.
LEMMA EraseRemembering ==
  ASSUME NEW h, NEW line, Remembers(h, line), NEW i \in 1..(Last(h) - 1)
  PROVE  LET g == Erase(h, i)
         IN /\ g \in Object /\ Last(g) = Last(h) - 1 /\ g.unique /\ g.recallMostRecent
            /\ g.previous = g.current /\ g.current \in 1..Last(g)
            /\ g.maxSize = h.maxSize
            /\ IF i = h.current THEN g.current = i /\ g.entries[i] = h.entries[i + 1]
                                ELSE g.entries[g.current].text = line
<1>1. /\ Tidy(h) /\ Sound(h) /\ h \in Object /\ Last(h) \in Nat /\ i \in Positions(h)
      /\ h.current \in 1..(Last(h) - 1)
  <2>1. Tidy(h) /\ h.current \in 1..(Last(h) - 1)
    BY DEF Remembers
  <2> QED BY <2>1, LastIs DEF Tidy, Sound
<1>2. PICK g : g = Erase(h, i)
  OBVIOUS
<1>3. /\ Sound(g) /\ Last(g) = Last(h) - 1
      /\ g.entries = [k \in 1..(Last(h) - 1) |-> h.entries[IF k < i THEN k ELSE k + 1]]
      /\ g.current = CurrentAfter(h, i) /\ g.previous = g.current
      /\ g.maxSize = h.maxSize /\ g.recallMostRecent = h.recallMostRecent
      /\ g.unique = h.unique
  BY <1>1, <1>2, EraseGives
<1>4. /\ g.current = IF i = h.current THEN i ELSE IF h.current > i THEN h.current - 1 ELSE h.current
      /\ g.current \in 1..Last(g)
  BY <1>1, <1>3 DEF CurrentAfter, Follow, End, Dangling
<1>5. CASE i = h.current
  BY <1>1, <1>2, <1>3, <1>4, <1>5 DEF Sound, Remembers
<1>6. CASE i # h.current
  <2>1. (IF g.current < i THEN g.current ELSE g.current + 1) = h.current
    BY <1>1, <1>4, <1>6
  <2>2. g.entries[g.current] = h.entries[h.current]
    BY <1>3, <1>4, <2>1
  <2> QED BY <1>2, <1>3, <1>4, <1>6, <2>2 DEF Sound, Remembers
<1> QED BY <1>5, <1>6

\* The recalled line is added anew: what came after it is remembered in its place.
LEMMA RememberedAnew ==
  ASSUME NEW h, NEW line \in Lines, Remembers(h, line), Tidy(Add(h, line))
  PROVE  Remembers(Add(h, line), h.entries[h.current + 1].text)
<1>1. /\ Tidy(h) /\ h \in Object /\ Last(h) \in Nat /\ h.current \in 1..(Last(h) - 1)
      /\ h.entries[h.current].text = line /\ h.maxSize \in Nat /\ Last(h) <= h.maxSize
  <2>1. Tidy(h) /\ h.current \in 1..(Last(h) - 1) /\ h.entries[h.current].text = line
        /\ Last(h) <= h.maxSize
    BY DEF Remembers
  <2> QED BY <2>1, LastIs DEF Tidy, Sound, Object
<1>2. \A i \in 1..Last(h) : h.entries[i].text = line => i = h.current
  BY <1>1 DEF Remembers, Tidy, Known
<1>3. h.locations[line] = h.current
  BY <1>1 DEF Remembers, Tidy, Known
<1>4. PICK i \in 1..(Last(h) - 1) :
        h.entries[i].text = line /\ Add(h, line) = Appended(Erase(h, i), line)
  <2>1. Last(h) \in 1..Last(h) /\ Last(h) # h.current /\ h.locations[line] # End
    BY <1>1, <1>3 DEF End
  <2> QED BY <1>2, <2>1, AddRemembering
<1>5. i = h.current
  BY <1>1, <1>2, <1>4
<1>6. PICK room : room = Erase(h, i)
  OBVIOUS
<1>7. /\ room \in Object /\ Last(room) = Last(h) - 1 /\ room.unique /\ room.recallMostRecent
      /\ room.previous = room.current /\ room.maxSize = h.maxSize
      /\ room.current = i /\ room.entries[i] = h.entries[i + 1]
  BY <1>5, <1>6, EraseRemembering
<1>8. PICK g : g = Add(h, line)
  OBVIOUS
<1>9. /\ Last(g) = Last(room) + 1
      /\ \A k \in 1..Last(room) : g.entries[k] = room.entries[k]
      /\ g.current = IF room.current = End THEN Last(room) + 1 ELSE room.current
      /\ g.previous = room.previous /\ g.maxSize = room.maxSize
      /\ g.recallMostRecent = room.recallMostRecent /\ g.unique = room.unique
  <2>1. g = Appended(room, line)
    BY <1>4, <1>6, <1>8
  <2> QED BY ZenonT(30), <1>7, <2>1, AppendedIs
<1>10. Last(g) = Last(h) /\ g.current = i /\ g.entries[i] = h.entries[i + 1]
  BY <1>1, <1>7, <1>9 DEF End
<1> QED BY <1>1, <1>5, <1>7, <1>8, <1>9, <1>10 DEF Remembers
\* The line of the next input() is added: what was remembered is there to go down to,
\* unless it was the duplicate of that line.
LEMMA RememberedStays ==
  ASSUME NEW h, NEW next, Remembers(h, next), NEW line \in Lines, Tidy(Add(h, line))
  PROVE  LET g == Add(h, line)
         IN (\E i \in 1..(Last(g) - 1) : g.entries[i].text = next) =>
              /\ g.recallMostRecent /\ g.previous \in 1..Last(g)
              /\ g.entries[g.previous].text = next
<1>1. /\ Tidy(h) /\ h \in Object /\ Last(h) \in Nat /\ h.current \in 1..(Last(h) - 1)
      /\ h.entries[h.current].text = next /\ h.previous = h.current /\ h.recallMostRecent
      /\ Known(h, Last(h))
  <2>1. Tidy(h) /\ h.current \in 1..(Last(h) - 1) /\ h.entries[h.current].text = next
        /\ h.previous = h.current /\ h.recallMostRecent /\ Known(h, Last(h))
    BY DEF Remembers, Tidy
  <2> QED BY <2>1, LastIs DEF Tidy, Sound
<1>2. PICK g : g = Add(h, line)
  OBVIOUS
<1>3. CASE g = [h EXCEPT !.entries[Last(h)] = Entry(line)]
  <2>1. Last(h) > 0 /\ Entry(line) \in EntryType
    BY <1>1, EntryIs
  <2>2. /\ Last(g) = Last(h) /\ g.previous = h.previous
        /\ g.recallMostRecent = h.recallMostRecent
        /\ \A i \in 1..Last(h) : g.entries[i] = IF i = Last(h) THEN Entry(line) ELSE h.entries[i]
    BY <1>1, <1>3, <2>1, LastReplaced
  <2>3. g.previous \in 1..Last(g) /\ g.entries[g.previous] = h.entries[h.current]
    BY <1>1, <2>2
  <2> QED BY <1>1, <1>2, <2>2, <2>3
<1>4. CASE g = Appended(h, line)
  <2>1. /\ Last(g) = Last(h) + 1 /\ \A i \in 1..Last(h) : g.entries[i] = h.entries[i]
        /\ g.previous = h.previous /\ g.recallMostRecent = h.recallMostRecent
    <3>1. PICK room \in Object : room = h
      BY <1>1
    <3>2. /\ Last(Appended(room, line)) = Last(room) + 1
          /\ \A i \in 1..Last(room) : Appended(room, line).entries[i] = room.entries[i]
          /\ Appended(room, line).previous = room.previous
          /\ Appended(room, line).recallMostRecent = room.recallMostRecent
      BY ZenonT(30), AppendedIs
    <3> QED BY <1>4, <3>1, <3>2
  <2>2. g.previous \in 1..Last(g) /\ g.entries[g.previous] = h.entries[h.current]
    BY <1>1, <2>1
  <2> QED BY <1>1, <1>2, <2>1, <2>2
<1>5. ASSUME NEW i \in 1..(Last(h) - 1), h.entries[i].text = line,
             g = Appended(Erase(h, i), line)
      PROVE  (\E k \in 1..(Last(g) - 1) : g.entries[k].text = next) =>
               /\ g.recallMostRecent /\ g.previous \in 1..Last(g)
               /\ g.entries[g.previous].text = next
  <2>1. PICK room \in Object : room = Erase(h, i)
    <3>1. Erase(h, i) \in Object
      BY EraseRemembering
    <3> QED BY <3>1
  <2>2. /\ Last(room) = Last(h) - 1 /\ room.recallMostRecent
        /\ room.previous = room.current /\ room.current \in 1..Last(room)
        /\ IF i = h.current THEN TRUE ELSE room.entries[room.current].text = next
    BY <2>1, EraseRemembering
  <2>3. g = Appended(room, line)
    BY <1>5, <2>1
  <2>4. /\ Last(g) = Last(room) + 1
        /\ \A k \in 1..Last(room) : g.entries[k] = room.entries[k]
        /\ g.entries[Last(room) + 1] = Entry(line)
        /\ g.previous = room.previous /\ g.recallMostRecent = room.recallMostRecent
    <3>1. PICK new : new = Appended(room, line)
      OBVIOUS
    <3>2. /\ Last(new) = Last(room) + 1
          /\ \A k \in 1..Last(room) : new.entries[k] = room.entries[k]
          /\ new.entries[Last(room) + 1] = Entry(line)
          /\ new.previous = room.previous /\ new.recallMostRecent = room.recallMostRecent
      BY <3>1, AppendedIs
    <3> QED BY <2>3, <3>1, <3>2
  <2>5. g.previous \in 1..Last(g) /\ g.entries[g.previous] = room.entries[room.current]
    BY <1>1, <2>2, <2>4
  <2>6. CASE i # h.current
    BY <2>2, <2>4, <2>5, <2>6
  <2>7. CASE i = h.current
    <3>1. next = line /\ g.entries[Last(g)].text = line /\ g.unique /\ Last(g) \in Nat
      <4>1. g.unique = room.unique /\ room.unique = h.unique
        <5>1. Sound(h) /\ i \in Positions(h)
          BY <1>1, LastIs DEF Tidy
        <5> QED BY ZenonT(30), <2>1, <2>2, <2>3, <5>1, EraseGives, AppendedIs
      <4>2. h.unique
        BY DEF Remembers
      <4>3. next = line
        BY <1>1, <1>5, <2>7
      <4>4. Last(g) = Last(h) /\ Last(g) = Last(room) + 1
        BY <1>1, <2>2, <2>4
      <4>5. g.entries[Last(g)] = Entry(line)
        BY <2>4, <4>4
      <4> QED BY <1>1, <4>1, <4>2, <4>3, <4>4, <4>5, EntryIs
    <3>2. Known(g, Last(g))
      BY <1>2, <3>1 DEF Tidy
    <3>3. \A k \in 1..Last(g) : g.entries[k].text = line => k = Last(g)
      <4>1. Last(g) \in 1..Last(g)
        BY <1>1, <2>2, <2>4
      <4> QED BY <3>1, <3>2, <4>1 DEF Known
    <3>4. \A k \in 1..(Last(g) - 1) : k \in 1..Last(g) /\ k # Last(g)
      BY <3>1
    <3> QED BY <3>1, <3>3, <3>4
  <2> QED BY <2>6, <2>7
<1>6. \/ g = [h EXCEPT !.entries[Last(h)] = Entry(line)]
      \/ g = Appended(h, line)
      \/ \E i \in 1..(Last(h) - 1) :
           h.entries[i].text = line /\ g = Appended(Erase(h, i), line)
  BY <1>2, AddRemembering
<1> QED BY <1>2, <1>3, <1>4, <1>5, <1>6

\* The line that was edited goes: the iterators stay on the recalled entry.
LEMMA DropLastCurrent ==
  ASSUME NEW h, Tidy(h), h.current \in 1..(Last(h) - 1)
  PROVE  DropLast(h).current = h.current /\ DropLast(h).previous = h.current
<1>1. h \in Object /\ Last(h) \in Nat /\ h.entries \in [1..Last(h) -> EntryType]
  BY LastIs DEF Tidy, Sound
<1>2. h.current \in 1..Last(h)
  BY <1>1
<1>3. PICK line \in Lines : line = h.entries[h.current].text
  BY <1>1, <1>2 DEF EntryType
<1>4. DropLast(h) = Erase(SetScratch(h, line), Last(h))
  BY <1>3 DEF DropLast, SetScratch
<1>5. PICK f : f = SetScratch(h, line)
  OBVIOUS
<1>6. Tidy(f) /\ Last(f) = Last(h) /\ f.current = h.current
  BY <1>2, <1>3, <1>5, SetScratchTidy
<1>7. Sound(f) /\ Last(f) \in Positions(f)
  BY <1>1, <1>2, <1>6, LastIs DEF Tidy, Sound
<1>8. LET g == Erase(f, Last(f)) IN g.current = CurrentAfter(f, Last(f)) /\ g.previous = g.current
  BY <1>7, EraseGives
<1>9. CurrentAfter(f, Last(f)) = h.current
  BY <1>1, <1>6 DEF CurrentAfter, Follow, End
<1> QED BY <1>4, <1>5, <1>6, <1>8, <1>9

\* With duplicates: the object remembers the entry with that line, and the line behind.
Accepts(h, line, next) ==
  /\ Tidy(h) /\ ~h.unique /\ h.recallMostRecent /\ Last(h) <= h.maxSize
  /\ h.previous = h.current /\ h.current \in 1..(Last(h) - 1)
  /\ h.entries[h.current].text = line /\ h.entries[h.current + 1].text = next

\* And once the line was added again, or put in place of a last entry that reads so.
Repeats(h, next) ==
  /\ Tidy(h) /\ ~h.unique /\ h.recallMostRecent /\ Last(h) <= h.maxSize + 1
  /\ h.previous = h.current /\ h.current \in 1..(Last(h) - 1)
  /\ h.entries[h.current].text = h.entries[Last(h)].text
  /\ h.entries[h.current + 1].text \in {next, h.entries[Last(h)].text}

\* add() of a history with duplicates takes away nothing but the oldest entry.
LEMMA AddAlike ==
  ASSUME NEW h, Tidy(h), ~h.unique, Last(h) \in 1..(h.maxSize + 1), NEW line \in Lines
  PROVE  \/ Add(h, line) = [h EXCEPT !.entries[Last(h)] = Entry(line)]
         \/ Last(h) <= h.maxSize /\ Add(h, line) = Appended(h, line)
         \/ Last(h) > h.maxSize /\ Add(h, line) = Appended(Erase(h, 1), line)
<1>1. Sound(h) /\ h \in Object /\ Last(h) \in Nat /\ h.maxSize \in Nat
  BY LastIs DEF Tidy, Sound, Object
<1>2. RemoveDuplicate(h, line) = h
  BY DEF RemoveDuplicate
<1>3. TrimToMaxSize(h) = IF Last(h) > h.maxSize THEN Erase(h, 1) ELSE h
  BY <1>1, TrimOne
<1> QED BY <1>1, <1>2, <1>3, AddIs

\* The line is put in place of the last entry or behind it.
PutLast(g, h, line) ==
  \/ g = [h EXCEPT !.entries[Last(h)] = Entry(line)]
  \/ g = Appended(h, line)

\* An entry that is not the last stays where it is when add() has nothing to trim.
LEMMA AddInPlace ==
  ASSUME NEW h \in Object, NEW line \in Lines, NEW g, Last(h) > 0, PutLast(g, h, line)
  PROVE  /\ Last(g) \in Last(h)..(Last(h) + 1)
         /\ \A i \in 1..(Last(h) - 1) : g.entries[i] = h.entries[i]
         /\ Last(g) = Last(h) \/ g.entries[Last(h)] = h.entries[Last(h)]
         /\ g.entries[Last(g)] = Entry(line)
         /\ g.current = IF h.current = End /\ Last(g) # Last(h) THEN Last(g) ELSE h.current
         /\ g.previous = h.previous /\ g.maxSize = h.maxSize
         /\ g.recallMostRecent = h.recallMostRecent /\ g.unique = h.unique
<1>1. Last(h) \in Nat
  BY LastIs
<1>2. CASE g = [h EXCEPT !.entries[Last(h)] = Entry(line)]
  <2>1. /\ Last(g) = Last(h) /\ g.current = h.current /\ g.previous = h.previous
        /\ g.maxSize = h.maxSize /\ g.unique = h.unique
        /\ g.recallMostRecent = h.recallMostRecent
        /\ \A i \in 1..Last(h) : g.entries[i] = IF i = Last(h) THEN Entry(line) ELSE h.entries[i]
    BY <1>2, EntryIs, LastReplaced
  <2> QED BY <1>1, <2>1
<1>3. CASE g = Appended(h, line)
  <2>1. /\ Last(g) = Last(h) + 1 /\ g.previous = h.previous
        /\ g.current = IF h.current = End THEN Last(h) + 1 ELSE h.current
        /\ g.maxSize = h.maxSize /\ g.unique = h.unique
        /\ g.recallMostRecent = h.recallMostRecent
        /\ \A i \in 1..Last(h) : g.entries[i] = h.entries[i]
        /\ g.entries[Last(h) + 1] = Entry(line)
    BY <1>3, AppendedIs
  <2> QED BY <1>1, <2>1
<1> QED BY <1>2, <1>3 DEF PutLast

\* The accepted line is added again: its entry stays the one that is remembered.
LEMMA AcceptedRepeats ==
  ASSUME NEW h, NEW line \in Lines, NEW next, Accepts(h, line, next), h.yankPos = End
  PROVE  Repeats(Add(h, line), next)
<1>1. /\ Tidy(h) /\ h \in Object /\ Last(h) \in Nat /\ h.maxSize \in Nat
      /\ Last(h) <= h.maxSize /\ h.current \in 1..(Last(h) - 1) /\ ~h.unique
      /\ h.recallMostRecent /\ h.previous = h.current
      /\ h.entries[h.current].text = line /\ h.entries[h.current + 1].text = next
  <2>1. Tidy(h) /\ h.current \in 1..(Last(h) - 1) /\ Last(h) <= h.maxSize /\ ~h.unique
        /\ h.recallMostRecent /\ h.previous = h.current
        /\ h.entries[h.current].text = line /\ h.entries[h.current + 1].text = next
    BY DEF Accepts
  <2> QED BY <2>1, LastIs DEF Tidy, Sound, Object
<1>2. PICK g : g = Add(h, line)
  OBVIOUS
<1>3. Last(h) \in 1..(h.maxSize + 1) /\ Last(h) > 0 /\ Last(h) <= h.maxSize + 1
  BY <1>1
<1>4. Tidy(g)
  BY <1>1, <1>2, <1>3, AddTidy
<1>5. PutLast(g, h, line)
  BY <1>1, <1>2, <1>3, AddAlike DEF PutLast
<1>6. /\ Last(g) \in Last(h)..(Last(h) + 1)
      /\ \A i \in 1..(Last(h) - 1) : g.entries[i] = h.entries[i]
      /\ Last(g) = Last(h) \/ g.entries[Last(h)] = h.entries[Last(h)]
      /\ g.entries[Last(g)] = Entry(line)
      /\ g.current = IF h.current = End /\ Last(g) # Last(h) THEN Last(g) ELSE h.current
      /\ g.previous = h.previous /\ g.maxSize = h.maxSize
      /\ g.recallMostRecent = h.recallMostRecent /\ g.unique = h.unique
  <2>1. h \in Object /\ Last(h) > 0
    BY <1>1, <1>3
  <2> QED BY <1>5, <2>1, AddInPlace
<1>7. g.current = h.current /\ g.current \in 1..(Last(g) - 1) /\ Last(g) <= g.maxSize + 1
  BY <1>1, <1>6 DEF End
<1>8. g.entries[Last(g)].text = line
  BY <1>6, EntryIs
<1>9. g.entries[g.current].text = line
  BY <1>1, <1>6, <1>7
<1>10. g.entries[g.current + 1].text \in {next, line}
  <2>1. CASE h.current + 1 \in 1..(Last(h) - 1)
    BY <1>1, <1>6, <1>7, <2>1
  <2>2. CASE h.current + 1 = Last(h)
    BY <1>1, <1>6, <1>7, <1>8, <2>2
  <2> QED BY <1>1, <2>1, <2>2
<1> QED BY <1>1, <1>2, <1>4, <1>6, <1>7, <1>8, <1>9, <1>10 DEF Repeats

\* The line of the next input() is added: the remembered entry is there to go down to,
\* or, when it was the oldest of too many, the one behind it.
LEMMA RepeatedStays ==
  ASSUME NEW h, NEW next, Repeats(h, next), NEW line \in Lines
  PROVE  LET g == Add(h, line)
             accepted == h.entries[Last(h)].text
         IN /\ g.recallMostRecent /\ g.previous \in 1..Last(g)
            /\ \/ g.entries[g.previous].text = accepted
               \/ g.previous = 1 /\ g.entries[g.previous].text = next
<1>1. /\ Tidy(h) /\ Sound(h) /\ h \in Object /\ Last(h) \in Nat /\ h.maxSize \in Nat
      /\ Last(h) <= h.maxSize + 1 /\ h.current \in 1..(Last(h) - 1) /\ ~h.unique
      /\ h.recallMostRecent /\ h.previous = h.current
      /\ Positions(h) = 1..Last(h)
  <2>1. Tidy(h) /\ h.current \in 1..(Last(h) - 1) /\ Last(h) <= h.maxSize + 1 /\ ~h.unique
        /\ h.recallMostRecent /\ h.previous = h.current
    BY DEF Repeats
  <2> QED BY <2>1, LastIs DEF Tidy, Sound, Object
<1>2. PICK accepted : accepted = h.entries[Last(h)].text
  OBVIOUS
<1>3. /\ h.entries[h.current].text = accepted
      /\ h.entries[h.current + 1].text \in {next, accepted}
  BY <1>2 DEF Repeats
<1>4. PICK g : g = Add(h, line)
  OBVIOUS
<1>5. Last(h) \in 1..(h.maxSize + 1) /\ Last(h) > 0
  BY <1>1
<1>6. CASE PutLast(g, h, line)
  <2>1. /\ Last(g) \in Last(h)..(Last(h) + 1)
        /\ \A i \in 1..(Last(h) - 1) : g.entries[i] = h.entries[i]
        /\ g.previous = h.previous /\ g.recallMostRecent = h.recallMostRecent
    BY <1>1, <1>5, <1>6, AddInPlace
  <2>2. g.previous \in 1..Last(g) /\ g.entries[g.previous].text = accepted
    BY <1>1, <1>3, <2>1
  <2> QED BY <1>1, <1>2, <1>4, <2>1, <2>2
<1>7. CASE g = Appended(Erase(h, 1), line)
  <2>1. PICK room : room = Erase(h, 1)
    OBVIOUS
  <2>2. 1 \in Positions(h)
    BY <1>1
  <2>3. /\ Sound(room) /\ Last(room) = Last(h) - 1
        /\ room.entries = [k \in 1..(Last(h) - 1) |-> h.entries[IF k < 1 THEN k ELSE k + 1]]
        /\ room.current = CurrentAfter(h, 1) /\ room.previous = room.current
        /\ room.recallMostRecent = h.recallMostRecent
    BY <1>1, <2>1, <2>2, EraseGives
  <2>4. /\ room.current = IF h.current = 1 THEN 1 ELSE h.current - 1
        /\ room.current \in 1..Last(room)
    BY <1>1, <2>3 DEF CurrentAfter, Follow, End, Dangling
  <2>5. room.entries[room.current] = h.entries[IF h.current = 1 THEN 2 ELSE h.current]
    <3>1. /\ room.current \in 1..(Last(h) - 1) /\ ~(room.current < 1)
          /\ room.current + 1 = IF h.current = 1 THEN 2 ELSE h.current
      BY <1>1, <2>3, <2>4
    <3>2. room.entries[room.current]
            = h.entries[IF room.current < 1 THEN room.current ELSE room.current + 1]
      BY <2>3, <3>1
    <3> QED BY <3>1, <3>2
  <2>6. \/ room.entries[room.current].text = accepted
        \/ room.current = 1 /\ room.entries[room.current].text = next
    BY <1>1, <1>3, <2>4, <2>5
  <2>7. /\ room \in Object /\ g = Appended(room, line) /\ PutLast(g, room, line)
        /\ Last(room) \in Nat /\ Last(room) > 0
    BY <1>1, <1>7, <2>1, <2>3, <2>4, LastIs DEF Sound, PutLast
  <2>8. /\ Last(g) \in Last(room)..(Last(room) + 1)
        /\ \A i \in 1..(Last(room) - 1) : g.entries[i] = room.entries[i]
        /\ Last(g) = Last(room) \/ g.entries[Last(room)] = room.entries[Last(room)]
        /\ g.previous = room.previous /\ g.recallMostRecent = room.recallMostRecent
    BY <2>7, AddInPlace
  <2>9. Last(g) = Last(room) + 1
    <3>1. PICK r \in Object : r = room
      BY <2>7
    <3>2. Last(Appended(r, line)) = Last(r) + 1
      BY ZenonT(30), AppendedIs
    <3> QED BY <2>7, <3>1, <3>2
  <2>10. g.previous \in 1..Last(g) /\ g.entries[g.previous] = room.entries[room.current]
    <3>1. g.previous = room.current /\ room.current \in 1..Last(room)
      BY <2>3, <2>4, <2>8
    <3>2. g.entries[Last(room)] = room.entries[Last(room)]
      BY <2>7, <2>8, <2>9
    <3>3. room.current = Last(room) \/ room.current \in 1..(Last(room) - 1)
      BY <2>7, <3>1
    <3> QED BY <2>7, <2>8, <2>9, <3>1, <3>2, <3>3
  <2> QED BY <1>1, <1>2, <1>4, <2>3, <2>4, <2>6, <2>8, <2>10
<1> QED BY <1>1, <1>4, <1>5, <1>6, <1>7, AddAlike DEF PutLast

\* From the acceptance of a recalled line to the next input(): in a unique history the
\* entry that was recalled, and once it is added anew the entry that came after it, is
\* remembered; with duplicates it is the entry that was recalled throughout.
FInv ==
  /\ follow # NoLine => phase \in {"input", "accepted", "added"}
  /\ phase = "accepted" /\ follow # NoLine =>
       \/ /\ Remembers(history, data)
          /\ history.entries[history.current + 1].text = follow
       \/ Accepts(history, data, follow)
  /\ phase = "added" /\ follow # NoLine =>
       Remembers(history, follow) \/ Repeats(history, follow)
  /\ DownFollowsAccepted

\* With nothing to follow there is nothing to be shown.
LEMMA NothingFollows ==
  ASSUME follow' = NoLine
  PROVE  FInv'
BY DEF FInv, DownFollowsAccepted

\* Every step keeps it.
LEMMA NextFInv ==
  ASSUME Plain, IInv, FInv, [Next]_vars
  PROVE  FInv'
<1>0. /\ history \in Object /\ Tidy(history) /\ Last(history) \in Nat /\ IInv'
      /\ Tidy(history')
  <2>1. IInv'
    BY NextIInv
  <2> QED BY <2>1, HistoryIs DEF IInv
<1>1. CASE Program
  <2>1. ASSUME NEW line \in LinesUsed, HistoryAdd(line) PROVE FInv'
    <3>1. history' = Add(history, line) /\ line \in Lines
      BY <2>1, UsedAreLines DEF HistoryAdd
    <3>2. CASE phase = "accepted" /\ line = data /\ follow # NoLine
      <4>1. phase' = "added" /\ follow' = follow
        BY <2>1, <3>2 DEF HistoryAdd
      <4>2. CASE /\ Remembers(history, line)
                 /\ history.entries[history.current + 1].text = follow
        <5>1. Remembers(history', follow)
          BY <1>0, <3>1, <4>2, RememberedAnew
        <5> QED BY <4>1, <5>1 DEF FInv, DownFollowsAccepted
      <4>3. CASE Accepts(history, line, follow)
        <5>1. history.yankPos = End
          BY <3>2 DEF IInv, Between
        <5>2. Repeats(history', follow)
          BY <3>1, <4>3, <5>1, AcceptedRepeats
        <5> QED BY <4>1, <5>2 DEF FInv, DownFollowsAccepted
      <4> QED BY <3>2, <4>2, <4>3 DEF FInv
    <3>3. CASE ~(phase = "accepted" /\ line = data /\ follow # NoLine)
      BY <2>1, <3>3, NothingFollows DEF HistoryAdd
    <3> QED BY <3>2, <3>3
  <2> QED BY <1>1, <2>1, NothingFollows DEF Program, HistoryLoad, SetMaxHistorySize,
                SetUniqueHistory, HistoryClear, Call
<1>2. ASSUME NEW line \in LinesUsed, Start(line) PROVE FInv'
  <2>1. PICK h : h = Add(history, line)
    OBVIOUS
  <2>2. /\ Between /\ history' = [h EXCEPT !.current = Last(h)] /\ phase' = "input"
        /\ follow' = IF phase = "added" THEN follow ELSE NoLine
        /\ line \in Lines
    BY <1>2, <2>1, UsedAreLines DEF Start
  <2>3. CASE phase = "added" /\ follow # NoLine
    <3>1. follow' = follow /\ before' = history.entries /\ Last(history) = Len(before')
      BY <1>2, <2>2, <2>3 DEF Start, Last
    <3>2. Tidy(h) /\ h.unique = history.unique
      <4>1. Tidy(history) /\ history.yankPos = End /\ Last(history) <= history.maxSize + 1
        BY <2>2 DEF IInv
      <4> QED BY <2>1, <2>2, <4>1, AddTidy
    <3>3. /\ history'.entries = h.entries /\ history'.previous = h.previous
          /\ history'.recallMostRecent = h.recallMostRecent /\ Last(history') = Last(h)
          /\ Positions(history') = 1..Last(h) /\ history'.unique = h.unique
      BY <2>2, <3>2, LastIs DEF Tidy, Sound, Object, Last, Positions
    <3>4. CASE Remembers(history, follow)
      <4>1. (\E i \in 1..(Last(h) - 1) : h.entries[i].text = follow) =>
               /\ h.recallMostRecent /\ h.previous \in 1..Last(h)
               /\ h.entries[h.previous].text = follow
        BY <2>1, <2>2, <3>2, <3>4, RememberedStays
      <4>2. history'.unique
        BY <3>2, <3>3, <3>4 DEF Remembers
      <4>3. DownFollowsAccepted'
        BY <3>1, <3>3, <4>1, <4>2 DEF DownFollowsAccepted
      <4> QED BY <2>2, <4>3 DEF FInv
    <3>5. CASE Repeats(history, follow)
      <4>1. /\ h.recallMostRecent /\ h.previous \in 1..Last(h)
            /\ \/ h.entries[h.previous].text = history.entries[Last(history)].text
               \/ h.previous = 1 /\ h.entries[h.previous].text = follow
        BY <2>1, <2>2, <3>5, RepeatedStays
      <4>2. ~history'.unique
        BY <3>2, <3>3, <3>5 DEF Repeats
      <4>3. DownFollowsAccepted'
        BY <3>1, <3>3, <4>1, <4>2 DEF DownFollowsAccepted
      <4> QED BY <2>2, <4>3 DEF FInv
    <3> QED BY <2>3, <3>4, <3>5 DEF FInv
  <2>4. CASE ~(phase = "added" /\ follow # NoLine)
    BY <2>2, <2>4, NothingFollows
  <2> QED BY <2>3, <2>4
<1>3. CASE Keys
  <2>1. CASE SearchAccept \/ SearchCancel \/ \E up, takenBack \in BOOLEAN,
               having \in SUBSET (LinesUsed \ {Empty}) : SearchFind(up, having, takenBack)
    <3>1. phase \in {"search", "found"} /\ follow' = follow
      BY <2>1 DEF SearchAccept, SearchCancel, SearchFind
    <3>2. follow = NoLine
      BY <3>1 DEF FInv
    <3> QED BY <3>1, <3>2, NothingFollows
  <2>2. CASE ~(SearchAccept \/ SearchCancel \/ \E up, takenBack \in BOOLEAN,
                 having \in SUBSET (LinesUsed \ {Empty}) : SearchFind(up, having, takenBack))
    BY <1>3, <2>2, NothingFollows
       DEF Keys, EditLine, HistoryMove, HistoryJump, RestoreCurrent, RestoreAll, HistoryRestore,
           YankLastArg, OtherKey, CommonPrefixSearch, SearchBegin
  <2> QED BY <2>1, <2>2
<1>4. CASE CommitLine
  <2>1. PICK h, g : h = CommitIndex(history) /\ g = DropLast(h)
    OBVIOUS
  <2>2. /\ phase = "input" /\ phase' = "accepted" /\ data' = data
        /\ history' = ResetYank(g) /\ follow' = AfterCurrent
    BY <1>4, <2>1 DEF CommitLine
  <2>3. CASE follow' = NoLine
    BY <2>3, NothingFollows
  <2>4. CASE follow' # NoLine
    <3>1. /\ history.current + 1 < Last(history)
          /\ data = history.entries[history.current].text
          /\ follow' = history.entries[history.current + 1].text
          /\ history.current \in 1..Last(history)
          /\ Last(history) <= history.maxSize + 1 /\ history.maxSize \in Nat
      BY <2>2, <2>4, HistoryIs DEF AfterCurrent, IInv, Between
    <3>2. /\ h \in Object /\ h.entries = history.entries /\ h.locations = history.locations
          /\ h.current = history.current /\ h.previous = history.current
          /\ h.yankPos = history.yankPos /\ h.maxSize = history.maxSize
          /\ h.unique = history.unique /\ h.recallMostRecent
      BY <1>0, <2>1 DEF CommitIndex, Object
    <3>3. /\ h.current \in 1..(Last(h) - 1) /\ h.current \in 1..Last(h)
          /\ Last(h) = Last(history)
      BY <1>0, <3>1, <3>2 DEF Last
    <3>4. Tidy(h)
      <4>1. history.current \in Dangling..Last(history) /\ history.current # Dangling
        BY <1>0, <3>1 DEF Dangling
      <4>2. history.yankPos \in Dangling..Last(history)
        BY <1>0 DEF Tidy, Sound
      <4> QED BY <1>0, <3>2, <4>1, <4>2, IteratorsMoved
    <3>5. /\ Tidy(g) /\ Last(g) = Last(h) - 1 /\ g.maxSize = h.maxSize
          /\ g.unique = h.unique /\ g.recallMostRecent = h.recallMostRecent
          /\ \A i \in 1..(Last(h) - 1) : g.entries[i].text = h.entries[i].text
      BY <2>1, <3>3, <3>4, DropLastTidy
    <3>6. g.current = h.current /\ g.previous = h.current
      BY <2>1, <3>3, <3>4, DropLastCurrent
    <3>7. /\ history'.entries = g.entries /\ history'.current = g.current
          /\ history'.previous = g.previous /\ history'.maxSize = g.maxSize
          /\ history'.unique = g.unique /\ history'.recallMostRecent = g.recallMostRecent
          /\ Last(history') = Last(g)
      BY <2>2, <3>5 DEF ResetYank, Tidy, Sound, Object, Last
    <3>8. /\ history.current \in 1..(Last(h) - 1) /\ history.current + 1 \in 1..(Last(h) - 1)
          /\ history.current \in 1..(Last(g) - 1) /\ Last(g) <= history.maxSize
      BY <1>0, <3>1, <3>3, <3>5
    <3>9. history'.entries[history'.current + 1].text = follow'
      BY <3>1, <3>2, <3>5, <3>6, <3>7, <3>8
    <3>10. CASE history.unique
      <4>1. Remembers(history', data)
        BY <1>0, <3>1, <3>2, <3>5, <3>6, <3>7, <3>8, <3>10 DEF Remembers
      <4> QED BY <2>2, <3>9, <4>1 DEF FInv, DownFollowsAccepted
    <3>11. CASE ~history.unique
      <4>1. Accepts(history', data, follow')
        BY <1>0, <3>1, <3>2, <3>5, <3>6, <3>7, <3>8, <3>9, <3>11 DEF Accepts
      <4> QED BY <2>2, <4>1 DEF FInv, DownFollowsAccepted
    <3> QED BY <3>10, <3>11
  <2> QED BY <2>3, <2>4
<1>5. CASE AbortLine
  BY <1>5, NothingFollows DEF AbortLine
<1>6. CASE UNCHANGED vars
  BY <1>6 DEF vars, FInv, DownFollowsAccepted
<1> QED BY <1>1, <1>2, <1>3, <1>4, <1>5, <1>6 DEF Next

\* A program that adds each accepted line, when a recalled line is accepted as it was.
\* In a unique history Down in the next input() goes to the line that came after it:
\* erase() leaves _current and _previous on the entry behind the one that add() takes
\* out, and what the next line of input takes out or adds does not lead them astray.
\* In a history with duplicates Down recalls the accepted line once more, or, when its
\* entry was the oldest and had to go, the line that came after it.
THEOREM DownGoesOn ==
  ASSUME Plain
  PROVE  Spec => []DownFollowsAccepted
<1>1. Init => FInv
  BY DEF Init, FInv, DownFollowsAccepted
<1>2. IInv /\ FInv /\ [Next]_vars => FInv'
  BY NextFInv
<1>3. FInv => DownFollowsAccepted
  BY DEF FInv
<1> QED BY <1>1, <1>2, <1>3, Inductive, PTL DEF Spec
=============================================================================
