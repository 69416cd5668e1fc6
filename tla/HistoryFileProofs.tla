------------------------- MODULE HistoryFileProofs -------------------------
(***************************************************************************)
(* Saving a history to a file that several processes share, for any number *)
(* of processes, texts and bounds.  First what the operators of the model   *)
(* compute: which entries are picked from a list, that sorting, trimming    *)
(* and merging give lists, and that what is read back from the first lines  *)
(* of a file is the beginning of what was put there.  Then that every list  *)
(* and the file stay well formed, that a save that succeeds leaves its      *)
(* program what it took, and that, as long as no lock file is created while *)
(* another is in use, a save is one step to everybody else (SharedHistory). *)
(***************************************************************************)
EXTENDS HistoryFile, FiniteSetTheorems, SequenceTheorems, WellFoundedInduction, TLAPS

-----------------------------------------------------------------------------
(* Places: how many elements of a set of positions come before another, by a *)
(* weight and, where the weights are the same, by the position.             *)

Before(w, S, i) == {j \in S : w[j] < w[i] \/ (w[j] = w[i] /\ j <= i)}
Place(w, S, i) == Cardinality(Before(w, S, i))

\* The places of a finite set of positions number it.
LEMMA Places ==
  ASSUME NEW N \in Nat, NEW S \in SUBSET (1..N), NEW w \in [1..N -> Int]
  PROVE  /\ IsFiniteSet(S) /\ Cardinality(S) \in 0..N
         /\ \A i \in S : Place(w, S, i) \in 1..Cardinality(S)
         /\ \A i, j \in S : w[i] < w[j] \/ (w[i] = w[j] /\ i < j) => Place(w, S, i) < Place(w, S, j)
         /\ \A k \in 1..Cardinality(S) : \E i \in S : Place(w, S, i) = k
<1>1. IsFiniteSet(1..N) /\ Cardinality(1..N) = N
  BY FS_Interval
<1>2. IsFiniteSet(S) /\ Cardinality(S) \in Nat /\ Cardinality(S) <= N
  <2>1. IsFiniteSet(S) /\ Cardinality(S) <= Cardinality(1..N)
    BY <1>1, FS_Subset
  <2>2. Cardinality(S) \in Nat
    BY <2>1, FS_CardinalityType
  <2> QED BY <1>1, <2>1, <2>2
<1>3. \A i \in S : Before(w, S, i) \in SUBSET S
  BY DEF Before
<1>4. \A i \in S : IsFiniteSet(Before(w, S, i)) /\ Place(w, S, i) \in Nat
                       /\ Place(w, S, i) <= Cardinality(S)
  BY <1>2, <1>3, FS_Subset, FS_CardinalityType DEF Place
<1>5. ASSUME NEW i \in S, NEW j \in S, w[i] < w[j] \/ (w[i] = w[j] /\ i < j)
      PROVE  Place(w, S, i) < Place(w, S, j)
  <2> DEFINE T == Before(w, S, i)
             U == Before(w, S, j)
  <2>1. IsFiniteSet(T) /\ IsFiniteSet(U)
    BY <1>4
  <2>2. T \subseteq U /\ j \in U /\ j \notin T
    <3>1. i \in Int /\ j \in Int /\ w[i] \in Int /\ w[j] \in Int
      OBVIOUS
    <3>2. j \in U /\ j \notin T
      BY <1>5, <3>1 DEF Before
    <3>3. ASSUME NEW m \in T PROVE m \in U
      <4>1. m \in S /\ m \in Int /\ w[m] \in Int /\ (w[m] < w[i] \/ (w[m] = w[i] /\ m <= i))
        BY <3>3 DEF Before
      <4>2. w[m] < w[j] \/ (w[m] = w[j] /\ m <= j)
        BY <1>5, <3>1, <4>1
      <4> QED BY <4>1, <4>2 DEF Before
    <3> QED BY <3>2, <3>3
  <2> HIDE DEF T, U
  <2>3. Cardinality(T) <= Cardinality(U) /\ Cardinality(T) # Cardinality(U)
    BY <2>1, <2>2, FS_Subset
  <2>4. Cardinality(T) \in Nat /\ Cardinality(U) \in Nat
    BY <2>1, FS_CardinalityType
  <2>5. Cardinality(T) < Cardinality(U)
    BY <2>3, <2>4
  <2> QED BY <2>5 DEF Place, T, U
<1>6. ASSUME NEW i \in S PROVE Place(w, S, i) \in 1..Cardinality(S)
  <2> DEFINE T == Before(w, S, i)
  <2>1. i \in T
    BY DEF Before
  <2>2. IsFiniteSet(T) /\ Place(w, S, i) = Cardinality(T)
    BY <1>4 DEF Place
  <2> HIDE DEF T
  <2>3. Cardinality(T) # 0
    BY <2>1, <2>2, FS_EmptySet
  <2>4. Place(w, S, i) \in Nat /\ Place(w, S, i) <= Cardinality(S)
    BY <1>4
  <2> QED BY <1>2, <2>2, <2>3, <2>4
<1>7. \A k \in 1..Cardinality(S) : \E i \in S : Place(w, S, i) = k
  <2> DEFINE T == 1..Cardinality(S)
             f == [i \in S |-> Place(w, S, i)]
  <2>1. f \in [S -> T]
    BY <1>6
  <2>2. \A i, j \in S : f[i] = f[j] => i = j
    <3> SUFFICES ASSUME NEW i \in S, NEW j \in S, i # j PROVE f[i] # f[j]
      OBVIOUS
    <3>1. f[i] = Place(w, S, i) /\ f[j] = Place(w, S, j) /\ f[i] \in Int /\ f[j] \in Int
      BY <1>2, <1>6
    <3>2. \/ w[i] < w[j] \/ (w[i] = w[j] /\ i < j)
          \/ w[j] < w[i] \/ (w[j] = w[i] /\ j < i)
      OBVIOUS
    <3> HIDE DEF f
    <3> QED BY <3>1, <3>2, <1>5
  <2>3. IsFiniteSet(T) /\ Cardinality(T) = Cardinality(S)
    BY <1>2, FS_Interval
  <2> HIDE DEF f
  <2>4. f \in Injection(S, T)
    BY <2>1, <2>2 DEF Injection, IsInjective
  <2>5. f \in Surjection(S, T)
    BY <2>3, <2>4, FS_Injection
  <2>6. \A k \in T : \E i \in S : f[i] = k
    BY <2>5 DEF Surjection
  <2> QED BY <2>6 DEF f
<1> QED BY <1>2, <1>5, <1>6, <1>7

\* Without weights.
Rank(S, i) == Cardinality({j \in S : j <= i})

\* The ranks number the positions in S.
LEMMA Ranks ==
  ASSUME NEW N \in Nat, NEW S \in SUBSET (1..N)
  PROVE  /\ IsFiniteSet(S) /\ Cardinality(S) \in 0..N
         /\ \A i \in S : Rank(S, i) \in 1..Cardinality(S)
         /\ \A i, j \in S : i < j => Rank(S, i) < Rank(S, j)
         /\ \A k \in 1..Cardinality(S) : \E i \in S : Rank(S, i) = k
<1> DEFINE w == [i \in 1..N |-> 0]
<1>1. w \in [1..N -> Int] /\ \A i, j \in S : w[i] = w[j] /\ w[i] \in Int
  OBVIOUS
<1>2. ASSUME NEW i \in S PROVE Place(w, S, i) = Rank(S, i)
  <2>1. \A j \in S : w[j] = w[i] /\ ~(w[j] < w[i])
    OBVIOUS
  <2> HIDE DEF w
  <2>2. Before(w, S, i) = {j \in S : j <= i}
    BY <2>1 DEF Before
  <2> QED BY <2>2 DEF Place, Rank
<1> HIDE DEF w
<1>3. /\ IsFiniteSet(S) /\ Cardinality(S) \in 0..N
      /\ \A i \in S : Place(w, S, i) \in 1..Cardinality(S)
      /\ \A i, j \in S : w[i] < w[j] \/ (w[i] = w[j] /\ i < j) => Place(w, S, i) < Place(w, S, j)
      /\ \A k \in 1..Cardinality(S) : \E i \in S : Place(w, S, i) = k
  BY <1>1, Places
<1> QED BY <1>1, <1>2, <1>3

\* The element with a rank is the only one.
LEMMA RankOnce ==
  ASSUME NEW N \in Nat, NEW S \in SUBSET (1..N), NEW i \in S, NEW j \in S,
         Rank(S, i) = Rank(S, j)
  PROVE  i = j
<1>1. /\ Cardinality(S) \in 0..N
      /\ \A x \in S : Rank(S, x) \in 1..Cardinality(S)
      /\ \A x, y \in S : x < y => Rank(S, x) < Rank(S, y)
  BY Ranks
<1>2. i \in Int /\ j \in Int /\ Rank(S, i) \in Int /\ Rank(S, j) \in Int
  BY <1>1
<1>3. ~(i < j) /\ ~(j < i)
  BY <1>1, <1>2
<1> QED BY <1>2, <1>3

\* r has the elements of s at S, by rank and by position.
HasPicked(r, s, S) ==
  /\ Len(r) = Cardinality(S) /\ DOMAIN r = 1..Cardinality(S)
  /\ \A i \in S : Rank(S, i) \in 1..Cardinality(S) /\ r[Rank(S, i)] = s[i]
  /\ \A k \in 1..Cardinality(S) : \E i \in S : Rank(S, i) = k /\ r[k] = s[i]

\* Picked does so.
LEMMA PickedIs ==
  ASSUME NEW N \in Nat, NEW S \in SUBSET (1..N), NEW s
  PROVE  HasPicked(Picked(s, S), s, S)
<1>1. /\ Cardinality(S) \in Nat /\ Cardinality(S) \in 0..N
      /\ \A i \in S : Rank(S, i) \in 1..Cardinality(S)
      /\ \A k \in 1..Cardinality(S) : \E i \in S : Rank(S, i) = k
  BY Ranks
<1>2. Picked(s, S) = [k \in 1..Cardinality(S) |-> s[CHOOSE i \in S : Rank(S, i) = k]]
  BY DEF Picked, Rank
<1>3. Len(Picked(s, S)) = Cardinality(S) /\ DOMAIN Picked(s, S) = 1..Cardinality(S)
  BY <1>1, <1>2
<1>4. ASSUME NEW i \in S PROVE Picked(s, S)[Rank(S, i)] = s[i]
  <2> DEFINE m == CHOOSE x \in S : Rank(S, x) = Rank(S, i)
  <2>1. m \in S /\ Rank(S, m) = Rank(S, i)
    OBVIOUS
  <2> HIDE DEF m
  <2>2. m = i
    BY <2>1, RankOnce
  <2>3. Picked(s, S)[Rank(S, i)] = s[m]
    BY <1>1, <1>2 DEF m
  <2> QED BY <2>2, <2>3
<1>5. ASSUME NEW k \in 1..Cardinality(S)
      PROVE  \E i \in S : Rank(S, i) = k /\ Picked(s, S)[k] = s[i]
  BY <1>1, <1>4
<1> QED BY <1>1, <1>3, <1>4, <1>5 DEF HasPicked

\* What is picked from a sequence.
LEMMA PickedFrom ==
  ASSUME NEW X, NEW N \in Nat, NEW S \in SUBSET (1..N), NEW s, \A i \in S : s[i] \in X
  PROVE  Picked(s, S) \in Seq(X) /\ Len(Picked(s, S)) <= N
<1>1. /\ Len(Picked(s, S)) = Cardinality(S) /\ Cardinality(S) \in 0..N
      /\ \A k \in 1..Cardinality(S) : \E i \in S : Rank(S, i) = k /\ Picked(s, S)[k] = s[i]
  <2>1. HasPicked(Picked(s, S), s, S)
    BY PickedIs
  <2>2. Cardinality(S) \in 0..N
    BY Ranks
  <2> QED BY <2>1, <2>2 DEF HasPicked
<1>2. Picked(s, S) = [k \in 1..Cardinality(S) |-> Picked(s, S)[k]]
  BY <1>1 DEF Picked
<1>3. \A k \in 1..Cardinality(S) : Picked(s, S)[k] \in X
  BY <1>1
<1>4. Picked(s, S) \in [1..Cardinality(S) -> X]
  BY <1>2, <1>3
<1> QED BY <1>1, <1>4, SeqDef
-----------------------------------------------------------------------------
(* Texts, as they are hidden in a file and given back.                      *)

\* A set of natural numbers has a least element.
LEMMA LeastNatural ==
  ASSUME NEW T, T \subseteq Nat, T # {}
  PROVE  \E x \in T : \A y \in T : x <= y
<1>1. PICK x \in T : \A y \in T : ~ (<<y, x>> \in OpToRel(<, Nat))
  BY NatLessThanWellFounded, WFMin
<1>2. \A y \in T : ~ (y < x)
  BY <1>1 DEF OpToRel
<1> QED BY <1>2, SMT

\* Replacing keeps the length.
LEMMA ReplacedIs ==
  ASSUME NEW t \in Seq(Characters), NEW from, NEW to \in Characters
  PROVE  /\ Replaced(t, from, to) \in Seq(Characters)
         /\ Len(Replaced(t, from, to)) = Len(t)
         /\ \A i \in 1..Len(t) : Replaced(t, from, to)[i] = IF t[i] = from THEN to ELSE t[i]
BY DEF Replaced

\* The places of the carriage returns.
Ends(t) == {i \in DOMAIN t : t[i] = CR}

\* A text is cut at a place that depends on its carriage returns only.
LEMMA CutAt ==
  ASSUME NEW t \in Seq(Characters), NEW u \in Seq(Characters), Len(t) = Len(u), Ends(t) = Ends(u)
  PROVE  \E n \in 0..Len(t) : UpToCR(t) = SubSeq(t, 1, n) /\ UpToCR(u) = SubSeq(u, 1, n)
<1>1. CASE Ends(t) = {}
  <2>1. UpToCR(t) = t /\ UpToCR(u) = u
    BY <1>1 DEF UpToCR, Ends
  <2>2. t = SubSeq(t, 1, Len(t)) /\ u = SubSeq(u, 1, Len(u)) /\ Len(t) \in 0..Len(t)
    OBVIOUS
  <2> QED BY <2>1, <2>2
<1>2. CASE Ends(t) # {}
  <2>1. Ends(t) \subseteq Nat /\ \A i \in Ends(t) : i \in 1..Len(t)
    BY DEF Ends
  <2>2. \E x \in Ends(t) : \A y \in Ends(t) : x <= y
    BY <1>2, <2>1, LeastNatural
  <2>3. Min(Ends(t)) \in Ends(t)
    BY <2>2 DEF Min
  <2>4. PICK m \in 1..Len(t) : m = Min(Ends(t))
    BY <2>1, <2>3
  <2>5. m - 1 \in 0..Len(t)
    BY <2>4
  <2>6. UpToCR(t) = SubSeq(t, 1, m - 1)
    BY <1>2, <2>4 DEF UpToCR, Ends
  <2>7. UpToCR(u) = SubSeq(u, 1, m - 1)
    BY <1>2, <2>4 DEF UpToCR, Ends
  <2> QED BY <2>5, <2>6, <2>7
<1> QED BY <1>1, <1>2

\* What is cut off is a text.
LEMMA CutIsText ==
  ASSUME NEW t \in Seq(Characters)
  PROVE  UpToCR(t) \in Seq(Characters)
<1>1. PICK n \in 0..Len(t) : UpToCR(t) = SubSeq(t, 1, n)
  BY CutAt
<1>2. SubSeq(t, 1, n) \in Seq(Characters)
  OBVIOUS
<1> QED BY <1>1, <1>2

\* Beginnings of texts that agree.
LEMMA BeginningsEqual ==
  ASSUME NEW t \in Seq(Characters), NEW u \in Seq(Characters), Len(t) = Len(u),
         \A i \in 1..Len(t) : t[i] = u[i]
  PROVE  t = u
BY SeqEqual

\* A text whose newlines were hidden is read as it would be given back.
LEMMA HiddenIsGiven ==
  ASSUME NEW t \in Seq(Characters)
  PROVE  Replaced(UpToCR(Replaced(t, Newline, ETB)), ETB, Newline)
           = UpToCR(Replaced(t, ETB, Newline))
<1>1. /\ Newline \in Characters /\ ETB \in Characters /\ CR # Newline /\ CR # ETB
      /\ Newline # ETB
  BY HistoryFileAssumption
<1>2. PICK r \in Seq(Characters) :
        /\ r = Replaced(t, Newline, ETB) /\ Len(r) = Len(t)
        /\ \A i \in 1..Len(t) : r[i] = IF t[i] = Newline THEN ETB ELSE t[i]
  BY <1>1, ReplacedIs
<1>3. PICK g \in Seq(Characters) :
        /\ g = Replaced(t, ETB, Newline) /\ Len(g) = Len(t)
        /\ \A i \in 1..Len(t) : g[i] = IF t[i] = ETB THEN Newline ELSE t[i]
  BY <1>1, ReplacedIs
<1>4. Ends(r) = Ends(g)
  <2>1. DOMAIN r = 1..Len(t) /\ DOMAIN g = 1..Len(t)
    BY <1>2, <1>3
  <2>2. \A i \in 1..Len(t) : r[i] = CR <=> g[i] = CR
    BY <1>1, <1>2, <1>3
  <2> QED BY <2>1, <2>2 DEF Ends
<1>5. PICK n \in 0..Len(r) : UpToCR(r) = SubSeq(r, 1, n) /\ UpToCR(g) = SubSeq(g, 1, n)
  <2>1. Len(r) = Len(g)
    BY <1>2, <1>3
  <2> QED BY <1>4, <2>1, CutAt
<1>6. /\ SubSeq(r, 1, n) \in Seq(Characters) /\ Len(SubSeq(r, 1, n)) = n
      /\ \A i \in 1..n : SubSeq(r, 1, n)[i] = r[i]
  BY <1>5
<1>7. /\ SubSeq(g, 1, n) \in Seq(Characters) /\ Len(SubSeq(g, 1, n)) = n
      /\ \A i \in 1..n : SubSeq(g, 1, n)[i] = g[i]
  BY <1>2, <1>3, <1>5
<1>8. PICK b \in Seq(Characters) :
        /\ b = Replaced(SubSeq(r, 1, n), ETB, Newline) /\ Len(b) = n
        /\ \A i \in 1..n : b[i] = IF r[i] = ETB THEN Newline ELSE r[i]
  <2>1. PICK c \in Seq(Characters) : c = SubSeq(r, 1, n) /\ Len(c) = n /\ \A i \in 1..n : c[i] = r[i]
    BY <1>6
  <2>2. /\ Replaced(c, ETB, Newline) \in Seq(Characters)
        /\ Len(Replaced(c, ETB, Newline)) = Len(c)
        /\ \A i \in 1..Len(c) :
             Replaced(c, ETB, Newline)[i] = IF c[i] = ETB THEN Newline ELSE c[i]
    BY <1>1, ReplacedIs
  <2> QED BY <2>1, <2>2
<1>9. \A i \in 1..n : i \in 1..Len(t)
  BY <1>2, <1>5
<1>10. \A i \in 1..n : b[i] = g[i]
  BY <1>1, <1>2, <1>3, <1>8, <1>9
<1>11. b = SubSeq(g, 1, n)
  BY <1>7, <1>8, <1>10, BeginningsEqual
<1> QED BY <1>2, <1>3, <1>5, <1>8, <1>11

\* A timestamp is one after all of this, and no text.
LEMMA StampStays ==
  /\ <<Stamp>> \in Seq(Characters) /\ UpToCR(<<Stamp>>) = <<Stamp>>
  /\ Replaced(<<Stamp>>, ETB, Newline) = <<Stamp>>
<1>1. Stamp \in Characters /\ Stamp # CR /\ Stamp # ETB /\ Newline \in Characters
  BY HistoryFileAssumption
<1>2. <<Stamp>> \in Seq(Characters) /\ Len(<<Stamp>>) = 1 /\ <<Stamp>>[1] = Stamp
  BY <1>1
<1>3. UpToCR(<<Stamp>>) = <<Stamp>>
  <2>1. {i \in DOMAIN <<Stamp>> : <<Stamp>>[i] = CR} = {}
    BY <1>1, <1>2
  <2> QED BY <2>1 DEF UpToCR
<1>4. Replaced(<<Stamp>>, ETB, Newline) = <<Stamp>>
  <2>1. \A i \in DOMAIN <<Stamp>> : <<Stamp>>[i] = Stamp
    BY <1>2
  <2>2. Replaced(<<Stamp>>, ETB, Newline) = [i \in DOMAIN <<Stamp>> |-> <<Stamp>>[i]]
    BY <1>1, <2>1 DEF Replaced
  <2> QED BY <1>2, <2>2
<1> QED BY <1>2, <1>3, <1>4
-----------------------------------------------------------------------------
(* Lists.                                                                   *)

Entries == [when : Times, text : Seq(Characters)]
Lines == [time : Times, text : Seq(Characters)]

\* An entry has a time that is a number.
LEMMA EntryIs ==
  /\ \A e \in Entries : e.when \in Times /\ e.when \in Int /\ e.text \in Seq(Characters)
  /\ \A t \in Times, x \in Seq(Characters) :
       Entry(t, x) \in Entries /\ Entry(t, x).when = t /\ Entry(t, x).text = x
<1>1. Times \subseteq Int
  BY HistoryFileAssumption DEF Times
<1> QED BY <1>1 DEF Entries, Entry

\* Picking from a list gives a list.
LEMMA PickedList ==
  ASSUME NEW list \in Seq(Entries), NEW S \in SUBSET DOMAIN list
  PROVE  Picked(list, S) \in Seq(Entries) /\ Len(Picked(list, S)) <= Len(list)
<1>1. Len(list) \in Nat /\ DOMAIN list = 1..Len(list) /\ \A i \in 1..Len(list) : list[i] \in Entries
  OBVIOUS
<1>2. S \in SUBSET (1..Len(list)) /\ \A i \in S : list[i] \in Entries
  BY <1>1
<1> QED BY <1>1, <1>2, PickedFrom

\* A sorted list has a place for each entry, and is a list as long.
LEMMA SortedList ==
  ASSUME NEW list \in Seq(Entries)
  PROVE  Sorted(list) \in Seq(Entries) /\ Len(Sorted(list)) = Len(list)
<1> DEFINE N == Len(list)
           w == [i \in 1..N |-> list[i].when]
<1>1. N \in Nat /\ DOMAIN list = 1..N /\ \A i \in 1..N : list[i] \in Entries
  OBVIOUS
<1>2. w \in [1..N -> Int] /\ \A i \in 1..N : w[i] = list[i].when
  BY <1>1, EntryIs
<1>3. \A i \in 1..N : Place(w, 1..N, i) = Cardinality({j \in DOMAIN list :
                   list[j].when < list[i].when \/ (list[j].when = list[i].when /\ j <= i)})
  BY <1>1, <1>2 DEF Place, Before
<1>4. Cardinality(1..N) = N /\ 1..N \in SUBSET (1..N)
  <2>1. PICK n \in Nat : n = N
    BY <1>1
  <2>2. Cardinality(1..n) = n
    BY FS_Interval
  <2> QED BY <2>1, <2>2
<1> HIDE DEF w
<1>5. \A k \in 1..N : \E i \in 1..N : Place(w, 1..N, i) = k
  <2>1. \A k \in 1..Cardinality(1..N) : \E i \in 1..N : Place(w, 1..N, i) = k
    BY <1>1, <1>2, <1>4, Places
  <2> QED BY <1>4, <2>1
<1> DEFINE at(k) == CHOOSE i \in DOMAIN list :
                      Cardinality({j \in DOMAIN list :
                        list[j].when < list[i].when \/ (list[j].when = list[i].when /\ j <= i)}) = k
<1>6. \A k \in 1..N : at(k) \in 1..N
  <2> SUFFICES ASSUME NEW k \in 1..N PROVE at(k) \in 1..N
    OBVIOUS
  <2>1. PICK i \in DOMAIN list : Cardinality({j \in DOMAIN list :
           list[j].when < list[i].when \/ (list[j].when = list[i].when /\ j <= i)}) = k
    BY <1>1, <1>3, <1>5
  <2>2. at(k) \in DOMAIN list
    BY <2>1
  <2> HIDE DEF at
  <2> QED BY <1>1, <2>2
<1>7. Sorted(list) = [k \in 1..N |-> list[at(k)]]
  BY <1>1 DEF Sorted
<1> HIDE DEF at
<1>8. Sorted(list) \in [1..N -> Entries]
  BY <1>1, <1>6, <1>7
<1> QED BY <1>1, <1>8, SeqDef

\* The newest of a list are a list that is not too long.
LEMMA TrimmedList ==
  ASSUME NEW list \in Seq(Entries)
  PROVE  Trimmed(list) \in Seq(Entries) /\ Len(Trimmed(list)) <= MaxSize
<1>1. MaxSize \in Nat /\ Len(list) \in Nat
  BY HistoryFileAssumption
<1>2. CASE Len(list) > MaxSize
  <2>1. PICK m \in 1..(Len(list) + 1) : m = Len(list) - MaxSize + 1 /\ Len(list) - m + 1 = MaxSize
    BY <1>1, <1>2
  <2>2. SubSeq(list, m, Len(list)) \in Seq(Entries)
        /\ Len(SubSeq(list, m, Len(list))) = Len(list) - m + 1
    BY <1>1, SubSeqProperties
  <2> QED BY <1>1, <1>2, <2>1, <2>2 DEF Trimmed
<1>3. CASE ~(Len(list) > MaxSize)
  BY <1>1, <1>3 DEF Trimmed
<1> QED BY <1>2, <1>3

\* What a merge gives.
LEMMA MergeList ==
  ASSUME NEW p, NEW list \in Seq(Entries), NEW read \in Seq(Entries)
  PROVE  Merge(p, list, read) \in Seq(Entries) /\ Len(Merge(p, list, read)) <= MaxSize
<1>1. PICK s \in Seq(Entries) : s = Sorted(list \o read)
  <2>1. list \o read \in Seq(Entries)
    OBVIOUS
  <2> QED BY <2>1, SortedList
<1>2. Distinct(s) \in Seq(Entries)
  BY PickedList DEF Distinct
<1>3. PICK m \in Seq(Entries) : m = IF p \in UniqueProcs THEN Distinct(s) ELSE s
  BY <1>2
<1>4. Merge(p, list, read) = Trimmed(m)
  BY <1>1, <1>3 DEF Merge
<1> QED BY <1>4, TrimmedList
-----------------------------------------------------------------------------
(* What is read from a file.                                                *)

\* A set of positions below another that is not empty has a greatest.
LEMMA GreatestBelow ==
  ASSUME NEW n \in Nat, NEW S, S \subseteq 1..n, S # {}
  PROVE  Max(S) \in S /\ \A x \in S : x <= Max(S)
<1> DEFINE T == {n - x : x \in S}
<1>1. T \subseteq Nat /\ T # {}
  <2>1. \A x \in 1..n : n - x \in Nat
    OBVIOUS
  <2> QED BY <2>1
<1>2. \E t \in T : \A u \in T : t <= u
  <2> HIDE DEF T
  <2> QED BY <1>1, LeastNatural
<1>3. PICK m \in S : \A u \in T : n - m <= u
  BY <1>2
<1>4. ASSUME NEW x \in S PROVE x <= m
  <2>1. x \in 1..n /\ m \in 1..n
    OBVIOUS
  <2>2. n - x \in T
    OBVIOUS
  <2>3. n - m <= n - x
    BY <1>3, <2>2
  <2> QED BY <2>1, <2>3
<1>5. m \in S /\ \A x \in S : m >= x
  BY <1>4
<1> QED BY <1>5 DEF Max

\* The parts of Parsed: where the timestamps above a line are, its time, and what is
\* found in it.
Stamps(lines, i) == {j \in 1..(i - 1) : UpToCR(lines[j].text) = <<Stamp>>}
When(lines, i) == IF Stamps(lines, i) = {} THEN 0 ELSE lines[Max(Stamps(lines, i))].time
Found(lines) ==
  [i \in DOMAIN lines |->
     Entry(When(lines, i), Replaced(UpToCR(lines[i].text), ETB, Newline))]

\* Parsed picks the entries among what is found.
LEMMA ParsedIs ==
  ASSUME NEW lines
  PROVE  Parsed(lines) = Picked(Found(lines), {i \in DOMAIN lines : IsText(Found(lines)[i])})
BY DEF Parsed, Found, When, Stamps

\* The time of a line is one, and the text in it a text.
LEMMA FoundIs ==
  ASSUME NEW lines \in Seq(Lines), NEW i \in 1..Len(lines)
  PROVE  /\ Found(lines)[i] \in Entries /\ When(lines, i) \in Times
         /\ Found(lines)[i].when = When(lines, i)
         /\ Found(lines)[i].text = Replaced(UpToCR(lines[i].text), ETB, Newline)
<1>1. /\ Len(lines) \in Nat /\ DOMAIN lines = 1..Len(lines) /\ i \in DOMAIN lines
      /\ \A j \in 1..Len(lines) : lines[j].time \in Times /\ lines[j].text \in Seq(Characters)
  <2>1. /\ Len(lines) \in Nat /\ DOMAIN lines = 1..Len(lines) /\ i \in DOMAIN lines
        /\ \A j \in 1..Len(lines) : lines[j] \in Lines
    OBVIOUS
  <2>2. \A l \in Lines : l.time \in Times /\ l.text \in Seq(Characters)
    BY DEF Lines
  <2> QED BY <2>1, <2>2
<1>2. When(lines, i) \in Times
  <2>1. CASE Stamps(lines, i) = {}
    BY <2>1, HistoryFileAssumption DEF When, Times
  <2>2. CASE Stamps(lines, i) # {}
    <3>1. i - 1 \in Nat /\ Stamps(lines, i) \subseteq 1..(i - 1)
      BY <1>1 DEF Stamps
    <3>2. Max(Stamps(lines, i)) \in Stamps(lines, i)
      BY <2>2, <3>1, GreatestBelow
    <3>3. Max(Stamps(lines, i)) \in 1..Len(lines)
      BY <1>1, <3>1, <3>2
    <3> QED BY <1>1, <2>2, <3>3 DEF When
  <2> QED BY <2>1, <2>2
<1>3. Replaced(UpToCR(lines[i].text), ETB, Newline) \in Seq(Characters)
  <2>1. PICK t \in Seq(Characters) : t = UpToCR(lines[i].text)
    BY <1>1, CutIsText
  <2>2. Newline \in Characters
    BY HistoryFileAssumption
  <2> QED BY <2>1, <2>2, ReplacedIs
<1>4. Found(lines)[i] = Entry(When(lines, i), Replaced(UpToCR(lines[i].text), ETB, Newline))
  BY <1>1 DEF Found
<1> QED BY <1>2, <1>3, <1>4, EntryIs

\* What is read is a list.
LEMMA ParsedList ==
  ASSUME NEW lines \in Seq(Lines)
  PROVE  Parsed(lines) \in Seq(Entries)
<1>1. PICK S \in SUBSET (1..Len(lines)) : S = {i \in DOMAIN lines : IsText(Found(lines)[i])}
  <2>1. DOMAIN lines = 1..Len(lines)
    OBVIOUS
  <2> QED BY <2>1
<1>2. \A i \in S : Found(lines)[i] \in Entries
  BY FoundIs
<1>3. Len(lines) \in Nat
  OBVIOUS
<1>4. Picked(Found(lines), S) \in Seq(Entries)
  BY <1>2, <1>3, PickedFrom
<1> QED BY <1>1, <1>4, ParsedIs

\* Sequences that agree are the same.
LEMMA ListsEqual ==
  ASSUME NEW s \in Seq(Entries), NEW t \in Seq(Entries), Len(s) = Len(t),
         \A i \in 1..Len(s) : s[i] = t[i]
  PROVE  s = t
BY SeqEqual

\* f takes the positions in S to those in T, in their order and leaving none out.
Follows(f, S, T) ==
  /\ f \in [S -> T]
  /\ \A i, j \in S : i < j => f[i] < f[j]
  /\ \A i \in S, y \in T : y <= f[i] => \E j \in S : f[j] = y

\* Then the ranks are the same.
RanksAgree(f, S, T) ==
  /\ \A i \in S : Rank(S, i) = Rank(T, f[i])
  /\ Cardinality(S) <= Cardinality(T)
  /\ (\A y \in T : \E j \in S : f[j] = y) => Cardinality(S) = Cardinality(T)

\* What follows a set of positions has the same ranks.
LEMMA RanksFollow ==
  ASSUME NEW N \in Nat, NEW S \in SUBSET (1..N), NEW M \in Nat, NEW T \in SUBSET (1..M),
         NEW f, Follows(f, S, T)
  PROVE  RanksAgree(f, S, T)
<1>1. IsFiniteSet(S) /\ IsFiniteSet(T)
  BY Ranks
<1>2. \A i \in S : i \in Int /\ f[i] \in T /\ f[i] \in Int
  <2>1. \A i \in S : f[i] \in T
    BY DEF Follows
  <2>2. \A i \in S : i \in Int
    OBVIOUS
  <2>3. \A y \in T : y \in Int
    OBVIOUS
  <2> QED BY <2>1, <2>2, <2>3
<1>3. \A i, j \in S : f[i] = f[j] => i = j
  <2>1. \A i, j \in S : i < j \/ j < i \/ i = j
    OBVIOUS
  <2>2. \A i, j \in S : i < j => f[i] < f[j]
    BY DEF Follows
  <2> QED BY <1>2, <2>1, <2>2
<1>4. \A i, j \in S : j <= i <=> f[j] <= f[i]
  <2>1. \A i, j \in S : i < j => f[i] < f[j]
    BY DEF Follows
  <2> QED BY <1>2, <2>1
<1>5. ASSUME NEW i \in S PROVE Rank(S, i) = Rank(T, f[i])
  <2> DEFINE A == {j \in S : j <= i}
             B == {y \in T : y <= f[i]}
             g == [j \in A |-> f[j]]
  <2>1. A \subseteq S /\ \A j \in A : f[j] \in B
    BY <1>2, <1>4
  <2>2. \A y \in B : \E j \in A : f[j] = y
    BY <1>2, <1>4 DEF Follows
  <2>3. IsFiniteSet(A)
    BY <1>1, <2>1, FS_Subset
  <2>4. Rank(S, i) = Cardinality(A) /\ Rank(T, f[i]) = Cardinality(B)
    BY DEF Rank
  <2> HIDE DEF A, B
  <2>5. g \in [A -> B] /\ \A j \in A : g[j] = f[j]
    BY <2>1
  <2> HIDE DEF g
  <2>6. g \in Bijection(A, B)
    BY <1>3, <2>1, <2>2, <2>5 DEF Bijection, Injection, Surjection, IsInjective
  <2>7. Cardinality(A) = Cardinality(B)
    BY <2>3, <2>6, FS_Bijection DEF ExistsBijection
  <2> QED BY <2>4, <2>7
<1>6. f \in Injection(S, T)
  BY <1>3 DEF Follows, Injection, IsInjective
<1>7. Cardinality(S) <= Cardinality(T)
  BY <1>1, <1>6, FS_Injection
<1>8. ASSUME \A y \in T : \E j \in S : f[j] = y PROVE Cardinality(S) = Cardinality(T)
  <2>1. f \in Bijection(S, T)
    BY <1>6, <1>8 DEF Bijection, Surjection, Injection
  <2> QED BY <1>1, <2>1, FS_Bijection DEF ExistsBijection
<1> QED BY <1>5, <1>7, <1>8 DEF RanksAgree

\* The elements of s at S are those of t at T, as far as f goes.
Matched(f, s, S, t, T) ==
  \E N \in Nat, M \in Nat :
    /\ S \in SUBSET (1..N) /\ T \in SUBSET (1..M) /\ Follows(f, S, T)
    /\ \A i \in S : s[i] \in Entries /\ s[i] = t[f[i]]
    /\ \A y \in T : t[y] \in Entries

Begins(f, s, S, t, T) ==
  /\ \E n \in 0..Len(Picked(t, T)) : Picked(s, S) = SubSeq(Picked(t, T), 1, n)
  /\ (\A y \in T : \E j \in S : f[j] = y) => Picked(s, S) = Picked(t, T)

\* And what is picked is a beginning of the other, or all of it.
LEMMA PickedFollow ==
  ASSUME NEW f, NEW s, NEW S, NEW t, NEW T, Matched(f, s, S, t, T)
  PROVE  Begins(f, s, S, t, T)
<1>0. PICK N \in Nat, M \in Nat :
        /\ S \in SUBSET (1..N) /\ T \in SUBSET (1..M) /\ Follows(f, S, T)
        /\ \A i \in S : s[i] \in Entries /\ s[i] = t[f[i]]
        /\ \A y \in T : t[y] \in Entries
  BY DEF Matched
<1>1. PICK a \in Seq(Entries) : a = Picked(s, S)
  BY <1>0, PickedFrom
<1>2. PICK b \in Seq(Entries) : b = Picked(t, T)
  BY <1>0, PickedFrom
<1>3. /\ Len(a) = Cardinality(S) /\ Cardinality(S) \in Nat
      /\ \A k \in 1..Cardinality(S) : \E i \in S : Rank(S, i) = k /\ a[k] = s[i]
  <2>1. HasPicked(a, s, S)
    BY <1>0, <1>1, PickedIs
  <2>2. Cardinality(S) \in 0..N
    BY <1>0, Ranks
  <2> QED BY <2>1, <2>2 DEF HasPicked
<1>4. /\ Len(b) = Cardinality(T) /\ Cardinality(T) \in Nat
      /\ \A y \in T : b[Rank(T, y)] = t[y]
  <2>1. HasPicked(b, t, T)
    BY <1>0, <1>2, PickedIs
  <2>2. Cardinality(T) \in 0..M
    BY <1>0, Ranks
  <2> QED BY <2>1, <2>2 DEF HasPicked
<1>5. /\ \A i \in S : Rank(S, i) = Rank(T, f[i]) /\ f[i] \in T
      /\ Cardinality(S) <= Cardinality(T)
      /\ (\A y \in T : \E j \in S : f[j] = y) => Cardinality(S) = Cardinality(T)
  <2>1. \A i \in S : f[i] \in T
    BY <1>0, <1>0 DEF Follows
  <2>2. RanksAgree(f, S, T)
    BY <1>0, RanksFollow
  <2> QED BY <2>1, <2>2 DEF RanksAgree
<1>6. ASSUME NEW k \in 1..Len(a) PROVE a[k] = b[k]
  <2>1. PICK i \in S : Rank(S, i) = k /\ a[k] = s[i]
    BY <1>3
  <2>2. b[Rank(T, f[i])] = t[f[i]]
    BY <1>4, <1>5
  <2> QED BY <1>0, <1>5, <2>1, <2>2
<1>7. PICK n \in 0..Len(b) : n = Len(a)
  BY <1>3, <1>4, <1>5
<1>8. /\ SubSeq(b, 1, n) \in Seq(Entries) /\ Len(SubSeq(b, 1, n)) = n
      /\ \A i \in 1..n : SubSeq(b, 1, n)[i] = b[i]
  OBVIOUS
<1>9. a = SubSeq(b, 1, n)
  BY <1>6, <1>7, <1>8, ListsEqual
<1>10. ASSUME \A y \in T : \E j \in S : f[j] = y PROVE a = b
  <2>1. Len(a) = Len(b)
    BY <1>3, <1>4, <1>5, <1>10
  <2> QED BY <1>6, <2>1, ListsEqual
<1> QED BY <1>1, <1>2, <1>9, <1>10 DEF Begins

\* The positions in a set, numbered in their order.
Numbers(at, B) ==
  /\ at \in [1..Cardinality(B) -> B]
  /\ \A k \in 1..Cardinality(B) : Rank(B, at[k]) = k
  /\ \A k, l \in 1..Cardinality(B) : k < l => at[k] < at[l]
  /\ \A y \in B : \E k \in 1..Cardinality(B) : at[k] = y

\* There is such a numbering.
LEMMA Numbering ==
  ASSUME NEW N \in Nat, NEW B \in SUBSET (1..N)
  PROVE  \E at : Numbers(at, B)
<1> DEFINE C == Cardinality(B)
           at == [k \in 1..C |-> CHOOSE y \in B : Rank(B, y) = k]
<1>1. /\ C \in 0..N
      /\ \A i \in B : Rank(B, i) \in 1..C
      /\ \A i, j \in B : i < j => Rank(B, i) < Rank(B, j)
      /\ \A k \in 1..C : \E i \in B : Rank(B, i) = k
  BY Ranks
<1>2. ASSUME NEW k \in 1..C PROVE at[k] \in B /\ Rank(B, at[k]) = k
  <2>1. \E i \in B : Rank(B, i) = k
    BY <1>1
  <2> QED BY <2>1
<1>3. at \in [1..C -> B]
  BY <1>2
<1> HIDE DEF at
<1>4. ASSUME NEW k \in 1..C, NEW l \in 1..C, k < l PROVE at[k] < at[l]
  <2>1. at[k] \in B /\ at[l] \in B /\ Rank(B, at[k]) = k /\ Rank(B, at[l]) = l
    BY <1>2
  <2>2. at[k] \in Int /\ at[l] \in Int /\ k \in Int /\ l \in Int
    <3>1. \A x \in B : x \in Int
      OBVIOUS
    <3>2. \A x \in 1..C : x \in Int
      BY <1>1
    <3> QED BY <2>1, <3>1, <3>2
  <2>3. at[k] # at[l] /\ ~(at[l] < at[k])
    BY <1>1, <1>4, <2>1, <2>2
  <2> QED BY <2>2, <2>3
<1>5. ASSUME NEW y \in B PROVE at[Rank(B, y)] = y /\ Rank(B, y) \in 1..C
  <2>1. Rank(B, y) \in 1..C
    BY <1>1
  <2>2. at[Rank(B, y)] \in B /\ Rank(B, at[Rank(B, y)]) = Rank(B, y)
    BY <1>2, <2>1
  <2> QED BY <2>1, <2>2, RankOnce
<1> QED BY <1>2, <1>3, <1>4, <1>5 DEF Numbers

-----------------------------------------------------------------------------
(* A list is given back as it was stored.                                   *)

\* The positions of entries that are written, and an entry as it is given back.
Written(list) == {i \in DOMAIN list : list[i].text # <<>>}
Given(e) == Entry(e.when, UpToCR(Replaced(e.text, ETB, Newline)))

\* What is given back of an entry is one.
LEMMA GivenIs ==
  ASSUME NEW e \in Entries
  PROVE  Given(e) \in Entries /\ Given(e).when = e.when
         /\ Given(e).text = UpToCR(Replaced(e.text, ETB, Newline))
<1>1. e.when \in Times /\ e.text \in Seq(Characters) /\ Newline \in Characters
  BY EntryIs, HistoryFileAssumption
<1>2. PICK t \in Seq(Characters) : t = Replaced(e.text, ETB, Newline)
  BY <1>1, ReplacedIs
<1>3. PICK u \in Seq(Characters) : u = UpToCR(t)
  BY CutIsText
<1>4. Given(e) = Entry(e.when, u)
  BY <1>2, <1>3 DEF Given
<1> QED BY <1>1, <1>2, <1>3, <1>4, EntryIs

\* No text stays none.
LEMMA NoneStays == UpToCR(Replaced(<<>>, ETB, Newline)) = <<>>
<1>1. Newline \in Characters /\ <<>> \in Seq(Characters) /\ Len(<<>>) = 0
  BY HistoryFileAssumption
<1>2. PICK t \in Seq(Characters) : t = Replaced(<<>>, ETB, Newline) /\ Len(t) = 0
  <2>1. PICK e \in Seq(Characters) : e = <<>> /\ Len(e) = 0
    BY <1>1
  <2>2. Replaced(e, ETB, Newline) \in Seq(Characters) /\ Len(Replaced(e, ETB, Newline)) = Len(e)
    BY <1>1, ReplacedIs
  <2> QED BY <2>1, <2>2
<1>3. Ends(t) = {}
  BY <1>2 DEF Ends
<1>4. UpToCR(t) = t
  BY <1>3 DEF UpToCR, Ends
<1>5. t = <<>>
  BY <1>2
<1> QED BY <1>2, <1>4, <1>5

\* What can be stored of a list, by positions.
LEMMA StorableIs ==
  ASSUME NEW list \in Seq(Entries)
  PROVE  LET given == [i \in 1..Len(list) |-> Given(list[i])]
             T == {i \in 1..Len(list) : IsText(given[i])}
         IN /\ Storable(list) = Picked(given, T)
            /\ \A i \in 1..Len(list) : list[i] \in Entries /\ given[i] \in Entries
            /\ T \in SUBSET (1..Len(list)) /\ T \subseteq Written(list)
            /\ Storable(list) \in Seq(Entries)
<1> DEFINE given == [i \in 1..Len(list) |-> Given(list[i])]
           T == {i \in 1..Len(list) : IsText(given[i])}
<1>1. DOMAIN list = 1..Len(list) /\ Len(list) \in Nat /\ \A i \in 1..Len(list) : list[i] \in Entries
  OBVIOUS
<1>2. \A i \in 1..Len(list) : given[i] \in Entries /\ given[i] = Given(list[i])
  BY <1>1, GivenIs
<1>3. Storable(list) = Picked(given, T)
  BY <1>1 DEF Storable, Given
<1>4. ASSUME NEW i \in T PROVE i \in Written(list)
  <2>1. i \in 1..Len(list) /\ IsText(given[i])
    OBVIOUS
  <2>2. given[i].text # <<>>
    BY <2>1 DEF IsText
  <2>3. given[i].text = UpToCR(Replaced(list[i].text, ETB, Newline))
    BY <1>1, <1>2, <2>1, GivenIs
  <2>4. list[i].text # <<>>
    BY <2>2, <2>3, NoneStays
  <2> QED BY <1>1, <2>1, <2>4 DEF Written
<1>5. T \in SUBSET (1..Len(list)) /\ \A i \in T : given[i] \in Entries
  BY <1>2
<1>6. Picked(given, T) \in Seq(Entries)
  <2> HIDE DEF given, T
  <2> QED BY <1>1, <1>5, PickedFrom
<1> QED BY <1>1, <1>2, <1>3, <1>4, <1>5, <1>6

\* The lines of a list, two for each entry that is written.
LineIs(lines, some) ==
  /\ lines \in Seq(Lines) /\ Len(lines) = 2 * Len(some)
  /\ \A k \in 1..Len(some) :
       /\ lines[2 * k - 1] = StampLine(some[k].when)
       /\ lines[2 * k] = TextLine(Replaced(some[k].text, Newline, ETB))

\* LinesOf gives them.
LEMMA LinesAre ==
  ASSUME NEW list, NEW some \in Seq(Entries), NotBlank(list) = some
  PROVE  LineIs(LinesOf(list), some)
<1> DEFINE C == Len(some)
           line == [i \in 1..(2 * C) |->
                      IF i % 2 = 1 THEN StampLine(some[(i + 1) \div 2].when)
                        ELSE TextLine(Replaced(some[i \div 2].text, Newline, ETB))]
<1>1. C \in Nat /\ \A k \in 1..C : some[k] \in Entries
  OBVIOUS
<1>2. LinesOf(list) = line
  BY DEF LinesOf
<1>3. ASSUME NEW k \in 1..C PROVE StampLine(some[k].when) \in Lines
                                  /\ TextLine(Replaced(some[k].text, Newline, ETB)) \in Lines
  <2>1. some[k].when \in Times /\ some[k].text \in Seq(Characters)
    BY <1>1, EntryIs
  <2>2. PICK t \in Seq(Characters) : t = Replaced(some[k].text, Newline, ETB)
    BY <2>1, ReplacedIs, HistoryFileAssumption
  <2>3. 0 \in Times
    BY HistoryFileAssumption DEF Times
  <2> QED BY <2>1, <2>2, <2>3, StampStays DEF StampLine, TextLine, Lines
<1>4. ASSUME NEW i \in 1..(2 * C)
      PROVE  IF i % 2 = 1 THEN (i + 1) \div 2 \in 1..C ELSE i \div 2 \in 1..C
  <2>1. PICK c \in Nat : c = C
    BY <1>1
  <2>2. PICK j \in 1..(2 * c) : j = i
    BY <2>1
  <2>3. j % 2 = 1 => (j + 1) \div 2 \in 1..c
    OBVIOUS
  <2>4. j % 2 # 1 => j \div 2 \in 1..c
    OBVIOUS
  <2> QED BY <2>1, <2>2, <2>3, <2>4
<1>5. line \in [1..(2 * C) -> Lines]
  BY <1>3, <1>4
<1>6. 2 * C \in Nat
  BY <1>1
<1>7. line \in Seq(Lines) /\ Len(line) = 2 * C
  <2>1. Len(line) = 2 * C
    BY <1>6
  <2> HIDE DEF line
  <2> QED BY <1>5, <1>6, <2>1, SeqDef
<1>8. ASSUME NEW k \in 1..C
      PROVE  /\ line[2 * k - 1] = StampLine(some[k].when)
             /\ line[2 * k] = TextLine(Replaced(some[k].text, Newline, ETB))
  <2>1. /\ 2 * k - 1 \in 1..(2 * C) /\ 2 * k \in 1..(2 * C) /\ (2 * k - 1) % 2 = 1
        /\ (2 * k) % 2 # 1 /\ (2 * k - 1 + 1) \div 2 = k /\ (2 * k) \div 2 = k
    BY <1>1
  <2> QED BY <2>1
<1> HIDE DEF line
<1> QED BY <1>2, <1>7, <1>8 DEF LineIs

\* What is found in the first lines: nothing in the timestamps, the entries in the others.
LEMMA FoundInLines ==
  ASSUME NEW some \in Seq(Entries), NEW lines \in Seq(Lines), NEW all, LineIs(all, some),
         \A i \in 1..Len(lines) : lines[i] = all[i],
         NEW k \in 1..Len(some)
  PROVE  /\ 2 * k - 1 \in 1..Len(lines) => ~IsText(Found(lines)[2 * k - 1])
         /\ 2 * k \in 1..Len(lines) => Found(lines)[2 * k] = Given(some[k])
<1>1. /\ Len(lines) \in Nat /\ some[k] \in Entries /\ k \in Nat /\ k > 0
      /\ some[k].when \in Times /\ some[k].text \in Seq(Characters)
  BY EntryIs
<1>2. /\ all[2 * k - 1] = StampLine(some[k].when)
      /\ all[2 * k] = TextLine(Replaced(some[k].text, Newline, ETB))
  BY DEF LineIs
<1>3. ASSUME 2 * k - 1 \in 1..Len(lines)
      PROVE  /\ UpToCR(lines[2 * k - 1].text) = <<Stamp>>
             /\ lines[2 * k - 1].time = some[k].when
  <2>1. lines[2 * k - 1] = StampLine(some[k].when)
    BY <1>2, <1>3
  <2> QED BY <2>1, StampStays DEF StampLine
<1>4. ASSUME 2 * k - 1 \in 1..Len(lines) PROVE ~IsText(Found(lines)[2 * k - 1])
  <2>1. PICK i \in 1..Len(lines) : i = 2 * k - 1
    BY <1>4
  <2>2. UpToCR(lines[i].text) = <<Stamp>>
    BY <1>3, <1>4, <2>1
  <2>3. Found(lines)[i].text = Replaced(UpToCR(lines[i].text), ETB, Newline)
    BY FoundIs
  <2> QED BY <2>1, <2>2, <2>3, StampStays DEF IsText
<1>5. ASSUME 2 * k \in 1..Len(lines) PROVE Found(lines)[2 * k] = Given(some[k])
  <2>1. PICK i \in 1..Len(lines) : i = 2 * k /\ i - 1 \in 1..Len(lines) /\ i - 1 = 2 * k - 1
    BY <1>1, <1>5
  <2>2. i - 1 \in Stamps(lines, i)
    BY <1>3, <2>1 DEF Stamps
  <2>3. i - 1 \in Nat /\ Stamps(lines, i) \subseteq 1..(i - 1)
    BY <2>1 DEF Stamps
  <2>4. Max(Stamps(lines, i)) \in Stamps(lines, i) /\ i - 1 <= Max(Stamps(lines, i))
    BY <2>2, <2>3, GreatestBelow
  <2>5. Max(Stamps(lines, i)) = i - 1
    BY <2>3, <2>4
  <2>6. When(lines, i) = some[k].when
    BY <1>3, <2>1, <2>2, <2>5 DEF When
  <2>7. lines[i].text = Replaced(some[k].text, Newline, ETB)
    BY <1>2, <2>1 DEF TextLine
  <2>8. Found(lines)[i] = Entry(When(lines, i), Replaced(UpToCR(lines[i].text), ETB, Newline))
    BY DEF Found
  <2>9. Replaced(UpToCR(Replaced(some[k].text, Newline, ETB)), ETB, Newline)
          = UpToCR(Replaced(some[k].text, ETB, Newline))
    BY <1>1, HiddenIsGiven
  <2> QED BY <2>1, <2>6, <2>7, <2>8, <2>9 DEF Given
<1> QED BY <1>4, <1>5

\* Reading the first lines of a list gives the first of the entries that can be
\* stored of it, and reading all of them all.
LEMMA BeginningRead ==
  ASSUME NEW list \in Seq(Entries), NEW m \in 0..Len(LinesOf(list))
  PROVE  /\ \E n \in 0..Len(Storable(list)) :
              Parsed(SubSeq(LinesOf(list), 1, m)) = SubSeq(Storable(list), 1, n)
         /\ m = Len(LinesOf(list)) => Parsed(SubSeq(LinesOf(list), 1, m)) = Storable(list)
<1>1. PICK N \in Nat : N = Len(list) /\ DOMAIN list = 1..N
  OBVIOUS
<1>2. PICK B \in SUBSET (1..N) : B = Written(list)
  BY <1>1 DEF Written
<1>3. PICK some \in Seq(Entries) : some = NotBlank(list) /\ HasPicked(some, list, B)
  <2>1. NotBlank(list) = Picked(list, B)
    BY <1>2 DEF NotBlank, Written
  <2>2. Picked(list, B) \in Seq(Entries)
    BY <1>1, PickedList
  <2>3. HasPicked(Picked(list, B), list, B)
    BY PickedIs
  <2> QED BY <2>1, <2>2, <2>3
<1>4. PICK all \in Seq(Lines) : all = LinesOf(list) /\ LineIs(all, some)
  <2>1. LineIs(LinesOf(list), some)
    BY <1>3, LinesAre
  <2> QED BY <2>1 DEF LineIs
<1>5. PICK C \in Nat : C = Len(some) /\ C = Cardinality(B) /\ Len(all) = 2 * C /\ m \in 0..(2 * C)
  BY <1>3, <1>4 DEF HasPicked, LineIs
<1>6. PICK at : Numbers(at, B)
  BY Numbering
<1>7. \A k \in 1..C : at[k] \in B /\ at[k] \in 1..N /\ some[k] = list[at[k]]
  <2>1. \A k \in 1..C : at[k] \in B /\ Rank(B, at[k]) = k
    BY <1>5, <1>6 DEF Numbers
  <2>2. \A i \in B : some[Rank(B, i)] = list[i]
    BY <1>3 DEF HasPicked
  <2> QED BY <2>1, <2>2
<1>8. PICK lines \in Seq(Lines) :
        lines = SubSeq(all, 1, m) /\ Len(lines) = m /\ \A i \in 1..m : lines[i] = all[i]
  <2>1. PICK c \in Nat : c = 2 * C /\ Len(all) = c /\ m \in 0..c
    BY <1>5
  <2>2. \A i \in 1..c : all[i] \in Lines
    BY <2>1
  <2>3. /\ SubSeq(all, 1, m) \in Seq(Lines) /\ Len(SubSeq(all, 1, m)) = m
        /\ \A i \in 1..m : SubSeq(all, 1, m)[i] = all[i]
    BY <2>1, <2>2
  <2> QED BY <2>3
<1>9. ASSUME NEW k \in 1..C
      PROVE  /\ 2 * k - 1 \in 1..m => ~IsText(Found(lines)[2 * k - 1])
             /\ 2 * k \in 1..m => Found(lines)[2 * k] = Given(some[k])
  BY <1>4, <1>5, <1>8, FoundInLines
<1> DEFINE given == [i \in 1..Len(list) |-> Given(list[i])]
           T == {i \in 1..Len(list) : IsText(given[i])}
           S == {i \in 1..m : IsText(Found(lines)[i])}
           f == [i \in S |-> at[i \div 2]]
<1>10. /\ Storable(list) = Picked(given, T)
       /\ \A i \in 1..N : given[i] \in Entries /\ given[i] = Given(list[i])
       /\ T \in SUBSET (1..N) /\ T \subseteq B
  BY <1>1, <1>2, StorableIs
<1>11. Parsed(lines) = Picked(Found(lines), S)
  <2>1. DOMAIN lines = 1..m
    BY <1>8
  <2> QED BY <2>1, ParsedIs
<1>12. ASSUME NEW i \in S
       PROVE  /\ i \div 2 \in 1..C /\ i = 2 * (i \div 2)
              /\ Found(lines)[i] = given[at[i \div 2]] /\ at[i \div 2] \in T
  <2>1. i \in 1..m /\ i \in Nat /\ IsText(Found(lines)[i])
    OBVIOUS
  <2>2. PICK k \in 1..C : i = 2 * k - 1 \/ i = 2 * k
    <3>1. PICK x \in Nat : x = i /\ x >= 1 /\ x <= 2 * C
      BY <1>5, <2>1
    <3>2. (x + 1) \div 2 \in 1..C
      BY <3>1
    <3>3. x = 2 * ((x + 1) \div 2) - 1 \/ x = 2 * ((x + 1) \div 2)
      BY <3>1
    <3> QED BY <3>1, <3>2, <3>3
  <2>3. i = 2 * k
    BY <1>9, <2>1, <2>2
  <2>4. i \div 2 = k
    BY <2>3
  <2>5. Found(lines)[i] = Given(some[k])
    BY <1>9, <2>1, <2>3
  <2>6. Found(lines)[i] = given[at[k]]
    BY <1>7, <1>10, <2>5
  <2>7. at[k] \in T
    BY <1>1, <1>7, <2>1, <2>6
  <2> QED BY <2>3, <2>4, <2>6, <2>7
<1>13. ASSUME NEW y \in T
       PROVE  \E l \in 1..C : at[l] = y /\ (2 * l <= m => 2 * l \in S /\ (2 * l) \div 2 = l)
  <2>1. y \in B /\ y \in 1..N /\ IsText(given[y])
    BY <1>1, <1>10
  <2>2. PICK l \in 1..C : at[l] = y
    BY <1>5, <1>6, <2>1 DEF Numbers
  <2>3. ASSUME 2 * l <= m PROVE 2 * l \in S /\ (2 * l) \div 2 = l
    <3>1. 2 * l \in 1..m /\ (2 * l) \div 2 = l
      BY <2>3
    <3>2. Found(lines)[2 * l] = given[y]
      BY <1>7, <1>9, <1>10, <2>1, <2>2, <3>1
    <3> QED BY <2>1, <3>1, <3>2
  <2> QED BY <2>2, <2>3
<1>14. S \in SUBSET (1..m) /\ m \in Nat
  BY <1>5
<1>15. /\ \A i \in S : Found(lines)[i] \in Entries
       /\ \A i \in S : Found(lines)[i] = given[f[i]]
       /\ \A y \in T : given[y] \in Entries
  <2>1. \A i \in S : Found(lines)[i] \in Entries
    BY <1>8, FoundIs
  <2>2. \A i \in S : f[i] = at[i \div 2]
    OBVIOUS
  <2>3. \A y \in T : given[y] \in Entries
    BY <1>1, <1>10
  <2> HIDE DEF given, T, S, f
  <2> QED BY <1>12, <2>1, <2>2, <2>3
<1> HIDE DEF given, T
<1>16. Follows(f, S, T)
  <2>1. f \in [S -> T] /\ \A i \in S : f[i] = at[i \div 2]
    BY <1>12
  <2> HIDE DEF S, f
  <2>2. ASSUME NEW i \in S, NEW j \in S, i < j PROVE f[i] < f[j]
    <3>1. PICK k \in 1..C, l \in 1..C : k = i \div 2 /\ l = j \div 2 /\ i = 2 * k /\ j = 2 * l
      BY <1>12
    <3>2. k < l
      BY <2>2, <3>1
    <3>3. at[k] < at[l]
      BY <1>5, <1>6, <3>2 DEF Numbers
    <3> QED BY <2>1, <3>1, <3>3
  <2>3. ASSUME NEW i \in S, NEW y \in T, y <= f[i] PROVE \E j \in S : f[j] = y
    <3>1. PICK k \in 1..C : k = i \div 2 /\ i = 2 * k /\ i \in 1..m
      BY <1>12, <1>14
    <3>2. PICK l \in 1..C : at[l] = y /\ (2 * l <= m => 2 * l \in S /\ (2 * l) \div 2 = l)
      BY <1>13
    <3>3. ~(k < l)
      <4>1. k < l => at[k] < at[l]
        BY <1>5, <1>6 DEF Numbers
      <4>2. at[k] \in Int /\ at[l] \in Int /\ at[l] <= at[k]
        <5>1. at[k] = f[i] /\ at[l] = y
          BY <2>1, <3>1, <3>2
        <5>2. at[k] \in 1..N /\ at[l] \in 1..N
          BY <1>7
        <5> QED BY <2>3, <5>1, <5>2
      <4> QED BY <4>1, <4>2
    <3>4. 2 * l <= m
      BY <1>14, <3>1, <3>3
    <3> QED BY <2>1, <3>2, <3>4
  <2> QED BY <2>1, <2>2, <2>3 DEF Follows
<1>17. ASSUME m = 2 * C, NEW y \in T PROVE \E j \in S : f[j] = y
  <2>1. PICK l \in 1..C : at[l] = y /\ (2 * l <= m => 2 * l \in S /\ (2 * l) \div 2 = l)
    BY <1>13
  <2>2. 2 * l <= m
    BY <1>17
  <2> QED BY <2>1, <2>2
<1> HIDE DEF S, f
<1>18. Begins(f, Found(lines), S, given, T)
  <2>1. \A i \in S : Found(lines)[i] \in Entries /\ Found(lines)[i] = given[f[i]]
    BY <1>15
  <2>2. Matched(f, Found(lines), S, given, T)
    BY <1>10, <1>14, <1>15, <1>16, <2>1 DEF Matched
  <2> QED BY <2>2, PickedFollow
<1>19. /\ \E n \in 0..Len(Storable(list)) : Parsed(lines) = SubSeq(Storable(list), 1, n)
       /\ m = 2 * C => Parsed(lines) = Storable(list)
  BY <1>10, <1>11, <1>17, <1>18 DEF Begins
<1>20. lines = SubSeq(LinesOf(list), 1, m) /\ Len(LinesOf(list)) = 2 * C
  BY <1>4, <1>5, <1>8
<1> QED BY <1>19, <1>20

-----------------------------------------------------------------------------
(* Typing.                                                                  *)

States == {"idle", "lock", "read", "open", "write", "unlock", "unlink"}

\* What a save does with a list needs it to be within bounds, and the list it
\* keeps aside may become the list again.
Bounded ==
  /\ inodes <= saves
  /\ \A p \in Procs : /\ Len(original[p]) <= MaxSize + 1
                      /\ pc[p] \in {"open", "write"} => Len(entries[p]) <= MaxSize

Typed == TypeOK /\ Bounded

\* Lists are sequences of entries.
LEMMA ListsAre ==
  /\ Lists = Seq(Entries)
  /\ MaxSize \in Nat /\ MaxTime \in Nat /\ MaxAdds \in Nat /\ MaxSaves \in Nat /\ MaxFaults \in Nat
  /\ 0 \in Times /\ Times \subseteq Int
BY HistoryFileAssumption DEF Lists, Entries, Times

\* What stays of a list when an entry is added.
Older(p, text, list) ==
  IF list # <<>> /\ Last(list).text = text THEN Front(list)
  ELSE Trimmed(IF p \in UniqueProcs
                 THEN Picked(list, {i \in DOMAIN list : list[i].text # text})
                 ELSE list)

\* A new entry behind what stays of a list.
LEMMA AddedList ==
  ASSUME NEW p \in Procs, NEW text \in Texts, NEW time \in Times, NEW list \in Seq(Entries),
         Len(list) <= MaxSize + 1
  PROVE  /\ Older(p, text, list) \in Seq(Entries) /\ Len(Older(p, text, list)) <= MaxSize
         /\ Append(Older(p, text, list), Entry(time, text)) \in Seq(Entries)
         /\ Len(Append(Older(p, text, list), Entry(time, text))) <= MaxSize + 1
<1> DEFINE older == Older(p, text, list)
<1>1. ASSUME list # <<>> PROVE Front(list) \in Seq(Entries) /\ Len(Front(list)) <= MaxSize
  BY <1>1, ListsAre DEF Front
<1>2. Picked(list, {i \in DOMAIN list : list[i].text # text}) \in Seq(Entries)
  BY PickedList
<1>3. older \in Seq(Entries) /\ Len(older) <= MaxSize
  BY <1>1, <1>2, TrimmedList DEF Older
<1>4. Entry(time, text) \in Entries
  BY EntryIs, HistoryFileAssumption
<1> HIDE DEF older
<1>5. /\ Append(older, Entry(time, text)) \in Seq(Entries)
      /\ Len(Append(older, Entry(time, text))) <= MaxSize + 1
  BY <1>3, <1>4, ListsAre
<1> QED BY <1>3, <1>5 DEF older

\* The entries that are written, and the lines they are written as.
LEMMA NotBlankList ==
  ASSUME NEW list \in Seq(Entries)
  PROVE  /\ NotBlank(list) \in Seq(Entries) /\ Len(NotBlank(list)) \in 0..Len(list)
         /\ LinesOf(list) \in Seq(Lines) /\ Len(LinesOf(list)) = 2 * Len(NotBlank(list))
<1>1. PICK some \in Seq(Entries) : some = NotBlank(list) /\ Len(some) <= Len(list)
  <2>1. {i \in DOMAIN list : list[i].text # <<>>} \in SUBSET DOMAIN list
    OBVIOUS
  <2> QED BY <2>1, PickedList DEF NotBlank
<1>2. LineIs(LinesOf(list), some)
  BY <1>1, LinesAre
<1> QED BY <1>1, <1>2 DEF LineIs

\* The next line of a list that is not written completely.
LEMMA NextLine ==
  ASSUME NEW list \in Seq(Entries), NEW n \in Nat, n < Len(NotBlank(list))
  PROVE  LinesOf(list)[2 * n + 1] \in Lines
<1>1. PICK lines \in Seq(Lines) : lines = LinesOf(list) /\ Len(lines) = 2 * Len(NotBlank(list))
  BY NotBlankList
<1>2. Len(NotBlank(list)) \in Nat
  BY NotBlankList
<1>3. 2 * n + 1 \in 1..Len(lines)
  BY <1>1, <1>2
<1> QED BY <1>1, <1>3

\* The first lines of a list over those of a file.
LEMMA WrittenList ==
  ASSUME NEW list \in Seq(Entries), NEW n \in Nat, n <= Len(NotBlank(list)),
         NEW old \in Seq(Lines), NEW mine, mine = SubSeq(LinesOf(list), 1, 2 * n)
  PROVE  /\ mine \in Seq(Lines) /\ Len(mine) = 2 * n
         /\ mine \o SubSeq(old, Len(mine) + 1, Len(old)) \in Seq(Lines)
         /\ Len(old) <= 2 * n => mine \o SubSeq(old, Len(mine) + 1, Len(old)) = mine
<1>1. PICK lines \in Seq(Lines) : lines = LinesOf(list) /\ Len(lines) = 2 * Len(NotBlank(list))
  BY NotBlankList
<1>2. Len(NotBlank(list)) \in Nat
  BY NotBlankList
<1>3. PICK m \in 0..Len(lines) : m = 2 * n
  BY <1>1, <1>2
<1>4. mine \in Seq(Lines) /\ Len(mine) = m
  BY <1>1, <1>3
<1>5. SubSeq(old, m + 1, Len(old)) \in Seq(Lines)
  BY <1>3
<1>6. ASSUME Len(old) <= m PROVE SubSeq(old, m + 1, Len(old)) = <<>>
  BY <1>3, <1>6
<1>7. PICK rest \in Seq(Lines) : rest = SubSeq(old, m + 1, Len(old))
  BY <1>5
<1>8. mine \o rest \in Seq(Lines) /\ (rest = <<>> => mine \o rest = mine)
  <2>1. mine \o rest \in Seq(Lines)
    BY <1>4
  <2>2. mine \o <<>> = mine
    BY <1>4, ConcatEmptySeq
  <2> QED BY <2>1, <2>2
<1>9. rest = SubSeq(old, Len(mine) + 1, Len(old)) /\ (Len(old) <= 2 * n => rest = <<>>)
  BY <1>3, <1>4, <1>6, <1>7
<1> QED BY <1>3, <1>4, <1>8, <1>9

\* Initially.
LEMMA TypingInit == Init => Typed
<1> SUFFICES ASSUME Init PROVE Typed
  OBVIOUS
<1>1. file \in Seq(Lines)
  <2>1. PICK texts \in Files : file = [i \in DOMAIN texts |-> TextLine(texts[i])]
    BY DEF Init
  <2>2. PICK t \in Seq(Seq(Characters)) : t = texts
    BY <2>1, HistoryFileAssumption
  <2>3. \A i \in 1..Len(t) : TextLine(t[i]) \in Lines
    BY ListsAre DEF TextLine, Lines
  <2> QED BY <2>1, <2>2, <2>3
<1>2. <<>> \in Seq(Entries) /\ Len(<<>>) = 0
  OBVIOUS
<1> QED BY <1>1, <1>2, ListsAre DEF Init, Typed, TypeOK, Bounded, Lines, NoFile

\* Every step keeps the types and the bounds.
LEMMA TypingStep == Typed /\ [Next]_vars => Typed'
<1> SUFFICES ASSUME Typed, [Next]_vars PROVE Typed'
  OBVIOUS
<1> USE ListsAre DEF NoFile
<1>1. /\ file \in Seq(Lines) /\ inodes \in 0..MaxSaves /\ path \in 0..inodes /\ clock \in Times
      /\ entries \in [Procs -> Seq(Entries)] /\ original \in [Procs -> Seq(Entries)]
      /\ \A p \in Procs : Len(entries[p]) <= MaxSize + 1 /\ Len(original[p]) <= MaxSize + 1
      /\ \A p \in Procs : pc[p] \in {"open", "write"} => Len(entries[p]) <= MaxSize
      /\ pc \in [Procs -> States] /\ sync \in [Procs -> BOOLEAN] /\ result \in [Procs -> BOOLEAN]
      /\ fd \in [Procs -> 0..inodes] /\ holders \subseteq Procs /\ wrote \in [Procs -> 0..MaxSize]
      /\ umask \in [Procs -> {"own", "private"}] /\ oldUmask \in [Procs -> {"own", "private"}]
      /\ iters \in [Procs -> {"valid", "dangling"}]
      /\ adds \in 0..MaxAdds /\ saves \in 0..MaxSaves /\ faults \in 0..MaxFaults /\ inodes <= saves
  BY DEF Typed, TypeOK, Bounded, Lines, States
<1>2. ASSUME /\ file' \in Seq(Lines) /\ inodes' \in 0..MaxSaves /\ path' \in 0..inodes'
             /\ clock' \in Times
             /\ entries' \in [Procs -> Seq(Entries)] /\ original' \in [Procs -> Seq(Entries)]
             /\ \A p \in Procs : Len(entries'[p]) <= MaxSize + 1 /\ Len(original'[p]) <= MaxSize + 1
             /\ \A p \in Procs : pc'[p] \in {"open", "write"} => Len(entries'[p]) <= MaxSize
             /\ pc' \in [Procs -> States] /\ sync' \in [Procs -> BOOLEAN]
             /\ result' \in [Procs -> BOOLEAN]
             /\ fd' \in [Procs -> 0..inodes'] /\ holders' \subseteq Procs
             /\ wrote' \in [Procs -> 0..MaxSize]
             /\ umask' \in [Procs -> {"own", "private"}]
             /\ oldUmask' \in [Procs -> {"own", "private"}]
             /\ iters' \in [Procs -> {"valid", "dangling"}]
             /\ adds' \in 0..MaxAdds /\ saves' \in 0..MaxSaves /\ faults' \in 0..MaxFaults
             /\ inodes' <= saves'
      PROVE  Typed'
  BY <1>2 DEF Typed, TypeOK, Bounded, Lines, States
<1>3. Parsed(file) \in Seq(Entries)
  BY <1>1, ParsedList
<1>4. ASSUME NEW p \in Procs, NEW text \in Texts, HistoryAdd(p, text) PROVE Typed'
  <2> DEFINE older == Older(p, text, entries[p])
  <2>1. clock' \in Times
    BY <1>1, <1>4 DEF HistoryAdd
  <2>2. /\ Append(older, Entry(clock', text)) \in Seq(Entries)
        /\ Len(Append(older, Entry(clock', text))) <= MaxSize + 1
    <3>1. PICK list \in Seq(Entries) : list = entries[p] /\ Len(list) <= MaxSize + 1
      BY <1>1
    <3>2. PICK time \in Times : time = clock'
      BY <2>1
    <3> QED BY <3>1, <3>2, AddedList
  <2>3. entries' = [entries EXCEPT ![p] = Append(older, Entry(clock', text))]
    BY <1>4 DEF HistoryAdd, Older
  <2> HIDE DEF older
  <2>4. pc[p] = "idle" /\ adds' \in 0..MaxAdds
    BY <1>1, <1>4 DEF HistoryAdd
  <2>5. UNCHANGED <<file, path, inodes, original, sync, pc, fd, holders, wrote, status,
                    saves, faults>>
    BY <1>4 DEF HistoryAdd
  <2> QED BY <1>1, <1>2, <2>1, <2>2, <2>3, <2>4, <2>5 DEF status
<1>5. ASSUME NEW p \in Procs, HistoryLoad(p) PROVE Typed'
  <2>1. <<>> \in Seq(Entries)
    OBVIOUS
  <2>2. Merge(p, <<>>, Parsed(file)) \in Seq(Entries) /\ Len(Merge(p, <<>>, Parsed(file))) <= MaxSize
    BY <1>3, <2>1, MergeList
  <2> QED BY <1>1, <1>2, <1>5, <2>2 DEF HistoryLoad
<1>6. ASSUME NEW p \in Procs, NEW toSync \in BOOLEAN, SaveBegin(p, toSync) PROVE Typed'
  <2>1. inodes' \in 0..MaxSaves /\ inodes <= inodes' /\ path' \in 0..inodes' /\ inodes' <= saves'
        /\ saves' \in 0..MaxSaves
    BY <1>1, <1>6 DEF SaveBegin
  <2>2. fd' \in [Procs -> 0..inodes'] /\ pc' \in [Procs -> States]
    <3>1. fd' = [fd EXCEPT ![p] = path'] /\ pc' = [pc EXCEPT ![p] = "lock"]
      BY <1>6 DEF SaveBegin, At
    <3>2. pc' \in [Procs -> States]
      BY <1>1, <3>1 DEF States
    <3>3. 0..inodes \subseteq 0..inodes'
      BY <1>1, <2>1
    <3> QED BY <1>1, <2>1, <3>1, <3>2, <3>3
  <2> QED BY <1>1, <1>2, <1>6, <2>1, <2>2 DEF SaveBegin, At, States
<1>7. ASSUME NEW p \in Procs, Lock(p) PROVE Typed'
  BY <1>1, <1>2, <1>7 DEF Lock, At, States, status
<1>8. ASSUME NEW p \in Procs, ReadAndMerge(p) PROVE Typed'
  <2>1. Merge(p, entries[p], Parsed(file)) \in Seq(Entries)
        /\ Len(Merge(p, entries[p], Parsed(file))) <= MaxSize
    BY <1>1, <1>3, MergeList
  <2>2. /\ pc' \in [Procs -> States]
        /\ \A q \in Procs : q # p => pc'[q] = pc[q] /\ entries'[q] = entries[q]
    BY <1>1, <1>8 DEF ReadAndMerge, At, States
  <2>3. /\ entries' \in [Procs -> Seq(Entries)] /\ Len(entries'[p]) <= MaxSize
        /\ iters' \in [Procs -> {"valid", "dangling"}]
    BY <1>1, <1>8, <2>1 DEF ReadAndMerge
  <2>4. \A q \in Procs : /\ Len(entries'[q]) <= MaxSize + 1
                         /\ pc'[q] \in {"open", "write"} => Len(entries'[q]) <= MaxSize
    <3>1. Len(entries'[p]) <= MaxSize + 1
      BY <2>3
    <3> QED BY <1>1, <2>2, <2>3, <3>1
  <2>5. UNCHANGED <<file, path, inodes, clock, original, sync, fd, holders, wrote,
                    umask, oldUmask, result, adds, saves, faults>>
    BY <1>8 DEF ReadAndMerge
  <2> QED BY <1>1, <1>2, <2>2, <2>3, <2>4, <2>5
<1>9. ASSUME NEW p \in Procs, OpenFile(p) PROVE Typed'
  <2>1. <<>> \in Seq(Lines)
    OBVIOUS
  <2> QED BY <1>1, <1>2, <1>9, <2>1 DEF OpenFile, At, States
<1>10. ASSUME NEW p \in Procs, OpenFails(p) PROVE Typed'
  BY <1>1, <1>2, <1>10 DEF OpenFails, At, States, status
<1>12. ASSUME NEW p \in Procs, WriteEntry(p) PROVE Typed'
  <2>1. PICK list \in Seq(Entries), n \in Nat :
          /\ list = entries[p] /\ Len(list) <= MaxSize /\ n = wrote[p] + 1
          /\ n <= Len(NotBlank(list)) /\ Len(NotBlank(list)) \in 0..Len(list)
    BY <1>1, <1>12, NotBlankList DEF WriteEntry
  <2>2. wrote'[p] = n /\ n \in 0..MaxSize /\ wrote' \in [Procs -> 0..MaxSize]
    <3>1. wrote' = [wrote EXCEPT ![p] = wrote[p] + 1]
      BY <1>12 DEF WriteEntry
    <3>2. n \in 0..MaxSize
      BY <1>1, <2>1
    <3> QED BY <1>1, <2>1, <3>1, <3>2
  <2>3. file' \in Seq(Lines)
    <3>1. PICK mine : mine = SubSeq(LinesOf(list), 1, 2 * n)
      OBVIOUS
    <3>2. file' = mine \o SubSeq(file, Len(mine) + 1, Len(file))
      BY <1>12, <2>1, <2>2, <3>1 DEF WriteEntry
    <3> QED BY <1>1, <2>1, <3>1, <3>2, WrittenList
  <2> QED BY <1>1, <1>2, <1>12, <2>2, <2>3 DEF WriteEntry, States, status
<1>13. ASSUME NEW p \in Procs, SaveDone(p) PROVE Typed'
  <2>1. Left(p) \in Seq(Entries) /\ Len(Left(p)) <= MaxSize + 1
    BY <1>1 DEF Left
  <2> QED BY <1>1, <1>2, <1>13, <2>1 DEF SaveDone, At, States
<1>14. ASSUME NEW p \in Procs, Unlock(p) PROVE Typed'
  BY <1>1, <1>2, <1>14 DEF Unlock, At, States, status
<1>15. ASSUME NEW p \in Procs, Closed(p)
       PROVE  /\ fd' \in [Procs -> 0..inodes] /\ original' \in [Procs -> Seq(Entries)]
              /\ \A q \in Procs : Len(original'[q]) <= MaxSize + 1
              /\ sync' \in [Procs -> BOOLEAN] /\ result' \in [Procs -> BOOLEAN]
              /\ wrote' \in [Procs -> 0..MaxSize] /\ oldUmask' \in [Procs -> {"own", "private"}]
  <2>1. <<>> \in Seq(Entries) /\ Len(<<>>) = 0
    OBVIOUS
  <2> QED BY <1>1, <1>15, <2>1 DEF Closed
<1>16. ASSUME NEW p \in Procs, Unlink(p) PROVE Typed'
  <2>1. Closed(p)
    BY <1>16 DEF Unlink
  <2>2. /\ pc' \in [Procs -> States] /\ path' \in 0..inodes
        /\ \A q \in Procs : pc'[q] \in {"open", "write"} => pc[q] \in {"open", "write"}
    BY <1>1, <1>16 DEF Unlink, At, States
  <2>3. UNCHANGED <<file, inodes, clock, entries, holders, umask, iters, adds, saves, faults>>
    BY <1>16 DEF Unlink
  <2> QED BY <1>1, <1>2, <1>15, <2>1, <2>2, <2>3
<1>17. ASSUME NEW p \in Procs, Crash(p) PROVE Typed'
  <2>1. Closed(p) /\ <<>> \in Seq(Entries) /\ Len(<<>>) = 0
    BY <1>17 DEF Crash
  <2>2. file' \in Seq(Lines)
    <3>1. CASE UNCHANGED file
      BY <1>1, <3>1
    <3>2. CASE /\ wrote[p] < Len(NotBlank(entries[p]))
               /\ file' = Append(file, LinesOf(entries[p])[2 * wrote[p] + 1])
      <4>1. PICK list \in Seq(Entries) : list = entries[p]
        BY <1>1
      <4>2. LinesOf(list)[2 * wrote[p] + 1] \in Lines
        BY <1>1, <3>2, <4>1, NextLine
      <4> QED BY <1>1, <3>2, <4>1, <4>2
    <3> QED BY <1>17, <3>1, <3>2 DEF Crash
  <2>3. pc' \in [Procs -> States] /\ \A q \in Procs : q # p => pc'[q] = pc[q]
    BY <1>1, <1>17 DEF Crash, States
  <2>4. pc'[p] = "idle"
    BY <1>1, <1>17 DEF Crash
  <2>5. /\ entries' \in [Procs -> Seq(Entries)]
        /\ \A q \in Procs : Len(entries'[q]) <= MaxSize + 1
        /\ \A q \in Procs : pc'[q] \in {"open", "write"} => Len(entries'[q]) <= MaxSize
    BY <1>1, <1>17, <2>1, <2>3, <2>4 DEF Crash
  <2>6. /\ umask' \in [Procs -> {"own", "private"}] /\ iters' \in [Procs -> {"valid", "dangling"}]
        /\ holders' \subseteq Procs /\ faults' \in 0..MaxFaults
        /\ UNCHANGED <<path, inodes, clock, adds, saves>>
    BY <1>1, <1>17 DEF Crash
  <2> QED BY <1>1, <1>2, <1>15, <2>1, <2>2, <2>3, <2>5, <2>6
<1>18. CASE UNCHANGED vars
  BY <1>1, <1>2, <1>18 DEF vars, status
<1> QED BY <1>4, <1>5, <1>6, <1>7, <1>8, <1>9, <1>10, <1>12, <1>13, <1>14, <1>16, <1>17, <1>18
       DEF Next, Saving

\* In every reachable state the file, the lists and what each save keeps are well formed,
\* however many processes save, load, add and crash.
THEOREM Typing == Spec => []TypeOK
<1>1. Typed => TypeOK
  BY DEF Typed
<1> QED BY <1>1, TypingInit, TypingStep, PTL DEF Spec
-----------------------------------------------------------------------------
(* What a save leaves.                                                      *)

\* The umask is the process's own again when the file is written, and a save that
\* will return true has put everything back and touches nothing more.
Restored ==
  \A p \in Procs :
    /\ pc[p] = "write" => umask[p] = oldUmask[p] /\ ~result[p]
    /\ result[p] => /\ pc[p] \in {"unlock", "unlink"}
                    /\ umask[p] = oldUmask[p] /\ iters[p] = "valid"
                    /\ sync[p] \/ entries[p] = original[p]

\* Every step keeps it so.
LEMMA RestoredStep == Typed /\ Restored /\ [Next]_vars => Restored'
<1> SUFFICES ASSUME Typed, Restored, [Next]_vars PROVE Restored'
  OBVIOUS
<1> USE DEF Restored
<1>1. /\ entries \in [Procs -> Seq(Entries)] /\ original \in [Procs -> Seq(Entries)]
      /\ pc \in [Procs -> States] /\ sync \in [Procs -> BOOLEAN] /\ result \in [Procs -> BOOLEAN]
      /\ umask \in [Procs -> {"own", "private"}] /\ oldUmask \in [Procs -> {"own", "private"}]
      /\ iters \in [Procs -> {"valid", "dangling"}]
  BY ListsAre DEF Typed, TypeOK, States
<1>2. ASSUME NEW p \in Procs, NEW text \in Texts, HistoryAdd(p, text) PROVE Restored'
  <2>1. \A q \in Procs : q # p => entries'[q] = entries[q]
    BY <1>1, <1>2 DEF HistoryAdd
  <2>2. ~result[p] /\ pc[p] = "idle"
    BY <1>2 DEF HistoryAdd
  <2>3. UNCHANGED <<original, sync, pc, status>>
    BY <1>2 DEF HistoryAdd
  <2> QED BY <1>1, <2>1, <2>2, <2>3 DEF status
<1>3. ASSUME NEW p \in Procs, HistoryLoad(p) PROVE Restored'
  BY <1>1, <1>3 DEF HistoryLoad
<1>4. ASSUME NEW p \in Procs, NEW toSync \in BOOLEAN, SaveBegin(p, toSync) PROVE Restored'
  BY <1>1, <1>4 DEF SaveBegin, At
<1>5. ASSUME NEW p \in Procs, Lock(p) PROVE Restored'
  BY <1>1, <1>5 DEF Lock, At, status
<1>6. ASSUME NEW p \in Procs, ReadAndMerge(p) PROVE Restored'
  BY <1>1, <1>6 DEF ReadAndMerge, At
<1>7. ASSUME NEW p \in Procs, OpenFile(p) PROVE Restored'
  BY <1>1, <1>7 DEF OpenFile, At
<1>8. ASSUME NEW p \in Procs, OpenFails(p) PROVE Restored'
  BY <1>1, <1>8 DEF OpenFails, At, status
<1>9. ASSUME NEW p \in Procs, WriteEntry(p) PROVE Restored'
  BY <1>1, <1>9 DEF WriteEntry, status
<1>10. ASSUME NEW p \in Procs, SaveDone(p) PROVE Restored'
  BY <1>1, <1>10 DEF SaveDone, At, Left
<1>11. ASSUME NEW p \in Procs, Unlock(p) PROVE Restored'
  BY <1>1, <1>11 DEF Unlock, At, status
<1>12. ASSUME NEW p \in Procs, Unlink(p) PROVE Restored'
  BY <1>1, <1>12 DEF Unlink, At, Closed
<1>13. ASSUME NEW p \in Procs, Crash(p) PROVE Restored'
  BY <1>1, <1>13 DEF Crash, Closed
<1>14. CASE UNCHANGED vars
  BY <1>14 DEF vars, status
<1> QED BY <1>2, <1>3, <1>4, <1>5, <1>6, <1>7, <1>8, <1>9, <1>10, <1>11, <1>12, <1>13, <1>14
       DEF Next, Saving

\* A save that returns true leaves the umask as it found it, the list's iterators in the
\* list and, unless it is a history_sync(), the list as it was.
THEOREM SavesRestore == Spec => SaveRestores
<1>1. Init => Restored
  BY DEF Init, Restored
<1>2. Restored => [\A p \in Procs : Unlink(p) /\ result[p] =>
                     /\ umask[p] = oldUmask[p] /\ iters[p] = "valid"
                     /\ sync[p] \/ entries[p] = original[p]]_vars
  BY DEF Restored
<1> QED BY <1>1, <1>2, TypingInit, TypingStep, RestoredStep, PTL DEF Spec, SaveRestores
-----------------------------------------------------------------------------
(* The lock.  It keeps two saves apart as long as they lock the same file:   *)
(* Unlink removes the name also of a lock file that others wait for, and who *)
(* begins to save then locks a new one.  Orderly excludes exactly that.      *)

\* A lock file is created only when nobody uses one.
Created ==
  \A p \in Procs, toSync \in BOOLEAN :
    SaveBegin(p, toSync) => path # NoFile \/ \A q \in Procs : fd[q] = NoFile

Orderly == [][Created]_vars

Inside == {"read", "open", "write", "unlock"}

\* All saves use one lock file, and who is inside alone holds its lock.
Locking ==
  /\ \A p \in Procs : /\ pc[p] = "idle" <=> fd[p] = NoFile
                      /\ pc[p] \in Inside <=> p \in holders
                      /\ path # NoFile /\ fd[p] # NoFile => fd[p] = path
  /\ \A p, q \in Procs : fd[p] # NoFile /\ fd[q] # NoFile => fd[p] = fd[q]
  /\ \A p, q \in holders : p = q

\* Every orderly step keeps it so.
LEMMA LockingStep == Typed /\ Locking /\ [Next]_vars /\ [Created]_vars => Locking'
<1> SUFFICES ASSUME Typed, Locking, [Next]_vars, [Created]_vars PROVE Locking'
  OBVIOUS
<1> USE DEF Locking, Inside, NoFile
<1>1. /\ pc \in [Procs -> States] /\ fd \in [Procs -> 0..inodes] /\ holders \subseteq Procs
      /\ inodes \in Nat /\ path \in 0..inodes
  BY ListsAre DEF Typed, TypeOK, States
<1>2. ASSUME UNCHANGED <<path, pc, fd, holders>> PROVE Locking'
  BY <1>2
<1>3. ASSUME NEW p \in Procs, NEW text \in Texts, HistoryAdd(p, text) PROVE Locking'
  BY <1>2, <1>3 DEF HistoryAdd
<1>4. ASSUME NEW p \in Procs, HistoryLoad(p) PROVE Locking'
  BY <1>2, <1>4 DEF HistoryLoad
<1>5. ASSUME NEW p \in Procs, NEW toSync \in BOOLEAN, SaveBegin(p, toSync) PROVE Locking'
  <2>1. path # NoFile \/ \A q \in Procs : fd[q] = NoFile
    <3>1. saves' # saves
      BY <1>5, ListsAre DEF SaveBegin, Typed, TypeOK
    <3> QED BY <1>5, <3>1 DEF Created, vars
  <2>2. path' # NoFile /\ path' \in Nat /\ (path # NoFile => path' = path)
    BY <1>1, <1>5 DEF SaveBegin
  <2>3. fd' = [fd EXCEPT ![p] = path'] /\ pc[p] = "idle" /\ pc' = [pc EXCEPT ![p] = "lock"]
        /\ holders' = holders
    BY <1>5 DEF SaveBegin, At
  <2>4. \A q \in Procs : fd'[q] # NoFile => fd'[q] = path'
    BY <1>1, <2>1, <2>2, <2>3
  <2>5. \A q \in Procs : /\ pc'[q] = "idle" <=> fd'[q] = NoFile
                         /\ pc'[q] \in Inside <=> q \in holders'
    BY <1>1, <2>2, <2>3
  <2> QED BY <2>3, <2>4, <2>5
<1>6. ASSUME NEW p \in Procs, Lock(p) PROVE Locking'
  <2>1. pc[p] = "lock" /\ pc' = [pc EXCEPT ![p] = "read"] /\ holders' = holders \cup {p}
        /\ path' = path /\ fd' = fd
    BY <1>6 DEF Lock, At
  <2>2. holders = {}
    BY <1>1, <1>6, <2>1 DEF Lock
  <2> QED BY <1>1, <2>1, <2>2
<1>7. ASSUME NEW p \in Procs, ReadAndMerge(p) PROVE Locking'
  BY <1>1, <1>7 DEF ReadAndMerge, At
<1>8. ASSUME NEW p \in Procs, OpenFile(p) PROVE Locking'
  BY <1>1, <1>8 DEF OpenFile, At
<1>9. ASSUME NEW p \in Procs, OpenFails(p) PROVE Locking'
  BY <1>1, <1>9 DEF OpenFails, At
<1>10. ASSUME NEW p \in Procs, WriteEntry(p) PROVE Locking'
  BY <1>2, <1>10 DEF WriteEntry
<1>11. ASSUME NEW p \in Procs, SaveDone(p) PROVE Locking'
  BY <1>1, <1>11 DEF SaveDone, At
<1>12. ASSUME NEW p \in Procs, Unlock(p) PROVE Locking'
  BY <1>1, <1>12 DEF Unlock, At
<1>13. ASSUME NEW p \in Procs, Unlink(p) PROVE Locking'
  BY <1>1, <1>13 DEF Unlink, At, Closed
<1>14. ASSUME NEW p \in Procs, Crash(p) PROVE Locking'
  <2>1. /\ pc' = [pc EXCEPT ![p] = "idle"] /\ fd' = [fd EXCEPT ![p] = NoFile]
        /\ holders' = holders \ {p} /\ path' = path
    BY <1>14 DEF Crash, Closed
  <2> QED BY <1>1, <2>1
<1>15. CASE UNCHANGED vars
  BY <1>2, <1>15 DEF vars
<1> QED BY <1>3, <1>4, <1>5, <1>6, <1>7, <1>8, <1>9, <1>10, <1>11, <1>12, <1>13, <1>14, <1>15
       DEF Next, Saving

-----------------------------------------------------------------------------
(* The file, while it is read and written.                                   *)

\* Who has merged has merged what is in the file still, and who writes has made the
\* file the first lines of its list.
Writing ==
  \A p \in Procs :
    /\ pc[p] \in {"lock", "read"} => entries[p] = original[p]
    /\ pc[p] = "open" => entries[p] = Merge(p, original[p], Parsed(file))
    /\ pc[p] \in {"idle", "lock", "read", "open"} => wrote[p] = 0
    /\ pc[p] = "write" => /\ wrote[p] <= Len(NotBlank(entries[p]))
                          /\ file = SubSeq(LinesOf(entries[p]), 1, 2 * wrote[p])

\* Every step keeps it so while the lock keeps the others out.
LEMMA WritingStep == Typed /\ Locking /\ Writing /\ [Next]_vars => Writing'
<1> SUFFICES ASSUME Typed, Locking, Writing, [Next]_vars PROVE Writing'
  OBVIOUS
<1> USE DEF Writing
<1>1. /\ file \in Seq(Lines)
      /\ entries \in [Procs -> Seq(Entries)] /\ original \in [Procs -> Seq(Entries)]
      /\ pc \in [Procs -> States] /\ wrote \in [Procs -> 0..MaxSize]
  BY ListsAre DEF Typed, TypeOK, States, Lines
<1>2. \A p, q \in Procs : pc[p] \in {"open", "write"} /\ pc[q] \in {"open", "write"} => p = q
  BY DEF Locking, Inside
<1>3. ASSUME NEW p \in Procs, NEW text \in Texts, HistoryAdd(p, text) PROVE Writing'
  <2>1. \A q \in Procs : q # p => entries'[q] = entries[q]
    BY <1>1, <1>3 DEF HistoryAdd
  <2>2. pc[p] = "idle" /\ UNCHANGED <<file, original, pc, wrote>>
    BY <1>3 DEF HistoryAdd
  <2> QED BY <1>1, <2>1, <2>2
<1>4. ASSUME NEW p \in Procs, HistoryLoad(p) PROVE Writing'
  BY <1>1, <1>4 DEF HistoryLoad
<1>5. ASSUME NEW p \in Procs, NEW toSync \in BOOLEAN, SaveBegin(p, toSync) PROVE Writing'
  BY <1>1, <1>5 DEF SaveBegin, At
<1>6. ASSUME NEW p \in Procs, Lock(p) PROVE Writing'
  BY <1>1, <1>6 DEF Lock, At
<1>7. ASSUME NEW p \in Procs, ReadAndMerge(p) PROVE Writing'
  BY <1>1, <1>7 DEF ReadAndMerge, At
<1>8. ASSUME NEW p \in Procs, OpenFile(p) PROVE Writing'
  <2>1. /\ pc[p] = "open" /\ pc' = [pc EXCEPT ![p] = "write"] /\ file' = <<>>
        /\ UNCHANGED <<entries, original, wrote>>
    BY <1>8 DEF OpenFile, At
  <2>2. SubSeq(LinesOf(entries[p]), 1, 2 * wrote[p]) = <<>>
    <3>1. wrote[p] = 0
      BY <2>1
    <3> QED BY <3>1
  <2>3. wrote[p] <= Len(NotBlank(entries[p]))
    BY <1>1, <2>1, NotBlankList
  <2> QED BY <1>1, <1>2, <2>1, <2>2, <2>3
<1>9. ASSUME NEW p \in Procs, OpenFails(p) PROVE Writing'
  BY <1>1, <1>9 DEF OpenFails, At
<1>10. ASSUME NEW p \in Procs, WriteEntry(p) PROVE Writing'
  <2>1. /\ pc[p] = "write" /\ wrote[p] < Len(NotBlank(entries[p]))
        /\ wrote' = [wrote EXCEPT ![p] = wrote[p] + 1] /\ UNCHANGED <<entries, original, pc>>
    BY <1>10 DEF WriteEntry
  <2>2. PICK list \in Seq(Entries), n \in Nat :
          /\ list = entries[p] /\ n = wrote[p] + 1 /\ n <= Len(NotBlank(list))
    BY <1>1, <2>1, NotBlankList
  <2>3. wrote'[p] = n
    BY <1>1, <2>1, <2>2
  <2>4. PICK mine : mine = SubSeq(LinesOf(list), 1, 2 * n)
    OBVIOUS
  <2>5. file' = mine \o SubSeq(file, Len(mine) + 1, Len(file))
    BY <1>10, <2>2, <2>3, <2>4 DEF WriteEntry
  <2>6. Len(file) <= 2 * n
    <3>1. PICK k \in Nat : k = wrote[p]
      BY <1>1
    <3>2. k <= Len(NotBlank(list)) /\ file = SubSeq(LinesOf(list), 1, 2 * k)
      BY <2>1, <2>2, <3>1
    <3>3. Len(file) = 2 * k
      BY <1>1, <3>1, <3>2, WrittenList
    <3> QED BY <2>2, <3>1, <3>3
  <2>7. file' = mine
    BY <1>1, <2>2, <2>4, <2>5, <2>6, WrittenList
  <2> QED BY <1>1, <1>2, <2>1, <2>2, <2>3, <2>4, <2>7
<1>11. ASSUME NEW p \in Procs, SaveDone(p) PROVE Writing'
  BY <1>1, <1>11 DEF SaveDone, At
<1>12. ASSUME NEW p \in Procs, Unlock(p) PROVE Writing'
  BY <1>1, <1>12 DEF Unlock, At
<1>13. ASSUME NEW p \in Procs, Unlink(p) PROVE Writing'
  BY <1>1, <1>13 DEF Unlink, At, Closed
<1>14. ASSUME NEW p \in Procs, Crash(p) PROVE Writing'
  <2>1. /\ pc' = [pc EXCEPT ![p] = "idle"] /\ original' = [original EXCEPT ![p] = <<>>]
        /\ wrote' = [wrote EXCEPT ![p] = 0] /\ entries' = [entries EXCEPT ![p] = <<>>]
        /\ file' = file \/ pc[p] = "write"
    BY <1>14 DEF Crash, Closed
  <2> QED BY <1>1, <1>2, <2>1
<1>15. CASE UNCHANGED vars
  BY <1>15 DEF vars
<1> QED BY <1>3, <1>4, <1>5, <1>6, <1>7, <1>8, <1>9, <1>10, <1>11, <1>12, <1>13, <1>14, <1>15
       DEF Next, Saving
-----------------------------------------------------------------------------
(* What the others see of a step.                                            *)

\* What stays of a list when an entry is added was in it.
LEMMA OlderFrom ==
  ASSUME NEW p \in Procs, NEW text \in Texts, NEW list \in Seq(Entries), NEW older,
         older = Older(p, text, list)
  PROVE  \A i \in 1..Len(older) : \E j \in 1..Len(list) : older[i] = list[j]
<1>0. older = IF list # <<>> /\ Last(list).text = text THEN Front(list)
              ELSE Trimmed(IF p \in UniqueProcs
                             THEN Picked(list, {i \in DOMAIN list : list[i].text # text})
                             ELSE list)
  BY DEF Older
<1>1. CASE list # <<>> /\ Last(list).text = text
  <2>1. \A i \in 1..Len(older) : i \in 1..Len(list) /\ older[i] = list[i]
    BY <1>0, <1>1 DEF Front
  <2> QED BY <2>1
<1> DEFINE S == {i \in DOMAIN list : list[i].text # text}
<1>2. ASSUME NEW kept \in Seq(Entries), older = Trimmed(kept)
      PROVE  \A i \in 1..Len(older) : \E j \in 1..Len(kept) : older[i] = kept[j]
  <2>1. CASE ~(Len(kept) > MaxSize)
    <3>1. older = kept
      BY <1>2, <2>1 DEF Trimmed
    <3> QED BY <3>1
  <2>2. CASE Len(kept) > MaxSize
    <3>1. PICK l \in Nat : l = Len(kept)
      OBVIOUS
    <3>2. PICK n \in Nat : n = l - MaxSize /\ n <= l
      <4>1. MaxSize \in Nat
        BY ListsAre
      <4>2. l - MaxSize \in Nat /\ l - MaxSize <= l
        BY <2>2, <3>1, <4>1
      <4> QED BY <4>2
    <3>3. older = SubSeq(kept, n + 1, l)
      BY <1>2, <2>2, <3>1, <3>2 DEF Trimmed
    <3>4. Len(SubSeq(kept, n + 1, l)) = l - n
      BY <3>1, <3>2
    <3>5. \A i \in 1..(l - n) : n + i \in 1..l /\ SubSeq(kept, n + 1, l)[i] = kept[n + i]
      BY <3>1, <3>2
    <3> QED BY <3>1, <3>3, <3>4, <3>5
  <2> QED BY <2>1, <2>2
<1>3. CASE ~(list # <<>> /\ Last(list).text = text) /\ p \notin UniqueProcs
  BY <1>0, <1>2, <1>3
<1>4. CASE ~(list # <<>> /\ Last(list).text = text) /\ p \in UniqueProcs
  <2>1. PICK kept \in Seq(Entries) : kept = Picked(list, S)
    BY PickedList
  <2>2. PICK n \in Nat : n = Len(list) /\ DOMAIN list = 1..n
    OBVIOUS
  <2>3. HasPicked(kept, list, S)
    BY <2>1, <2>2, PickedIs
  <2>4. \A k \in 1..Len(kept) : \E j \in 1..Len(list) : kept[k] = list[j]
    BY <2>2, <2>3 DEF HasPicked
  <2>5. \A i \in 1..Len(older) : \E k \in 1..Len(kept) : older[i] = kept[k]
    BY <1>0, <1>2, <1>4, <2>1
  <2>6. ASSUME NEW i \in 1..Len(older) PROVE \E j \in 1..Len(list) : older[i] = list[j]
    <3>1. PICK k \in 1..Len(kept) : older[i] = kept[k]
      BY <2>5
    <3>2. PICK j \in 1..Len(list) : kept[k] = list[j]
      BY <2>4
    <3> QED BY <3>1, <3>2
  <2> QED BY <2>6
<1> QED BY <1>1, <1>3, <1>4

\* What counts as in the file: what the writer will have written, or what is there.
LEMMA InFileIs ==
  /\ Locking => /\ \A p \in Procs : pc[p] = "write" => InFile = Storable(entries[p])
                /\ (\A p \in Procs : pc[p] # "write") => InFile = Parsed(file)
  /\ Locking' => /\ \A p \in Procs : pc'[p] = "write" => InFile' = Storable(entries'[p])
                 /\ (\A p \in Procs : pc'[p] # "write") => InFile' = Parsed(file')
<1>1. ASSUME Locking, NEW p \in Procs, pc[p] = "write" PROVE InFile = Storable(entries[p])
  <2>1. \A q \in Procs : pc[q] = "write" => q = p
    BY <1>1 DEF Locking, Inside
  <2>2. (CHOOSE q \in Procs : pc[q] = "write") = p
    BY <1>1, <2>1
  <2> QED BY <1>1, <2>2 DEF InFile
<1>2. ASSUME Locking', NEW p \in Procs, pc'[p] = "write" PROVE InFile' = Storable(entries'[p])
  <2>1. \A q \in Procs : pc'[q] = "write" => q = p
    BY <1>2 DEF Locking, Inside
  <2>2. (CHOOSE q \in Procs : pc'[q] = "write") = p
    BY <1>2, <2>1
  <2> QED BY <1>2, <2>2 DEF InFile
<1> QED BY <1>1, <1>2 DEF InFile

\* A beginning and the line after it.
LEMMA NextOfBeginning ==
  ASSUME NEW all \in Seq(Lines), NEW k \in Nat, k < Len(all)
  PROVE  Append(SubSeq(all, 1, k), all[k + 1]) = SubSeq(all, 1, k + 1)
<1> DEFINE a == Append(SubSeq(all, 1, k), all[k + 1])
           b == SubSeq(all, 1, k + 1)
<1>1. /\ SubSeq(all, 1, k) \in Seq(Lines) /\ Len(SubSeq(all, 1, k)) = k
      /\ \A i \in 1..k : SubSeq(all, 1, k)[i] = all[i]
  OBVIOUS
<1>2. a \in Seq(Lines) /\ Len(a) = k + 1 /\ \A i \in 1..k : a[i] = all[i]
  BY <1>1
<1>3. a[k + 1] = all[k + 1]
  BY <1>1
<1>4. b \in Seq(Lines) /\ Len(b) = k + 1 /\ \A i \in 1..(k + 1) : b[i] = all[i]
  OBVIOUS
<1>5. \A i \in 1..Len(a) : a[i] = b[i]
  BY <1>2, <1>3, <1>4
<1> HIDE DEF a, b
<1>6. a = b
  BY <1>2, <1>4, <1>5, SeqEqual
<1> QED BY <1>6 DEF a, b

\* What is read of a file that is being written is the oldest of what counts as in it,
\* and so is what a writer that dies leaves.
LEMMA PartRead ==
  ASSUME NEW list \in Seq(Entries), NEW n \in Nat, NEW lines, NEW next,
         lines = SubSeq(LinesOf(list), 1, 2 * n), n <= Len(NotBlank(list)),
         next = lines \/ (n < Len(NotBlank(list)) /\ next = Append(lines, LinesOf(list)[2 * n + 1]))
  PROVE  Parsed(next) \in Shared!Oldest(Storable(list))
<1>1. PICK all \in Seq(Lines) : all = LinesOf(list) /\ Len(all) = 2 * Len(NotBlank(list))
  BY NotBlankList
<1>2. PICK c \in Nat : c = Len(NotBlank(list)) /\ Len(all) = 2 * c
  BY <1>1, NotBlankList
<1>3. 2 * n \in 0..Len(all) /\ (n < c => 2 * n + 1 \in 0..Len(all))
  BY <1>2
<1>4. \E m \in 0..Len(Storable(list)) : Parsed(lines) = SubSeq(Storable(list), 1, m)
  BY <1>1, <1>3, BeginningRead
<1>5. ASSUME n < c, next = Append(lines, all[2 * n + 1])
      PROVE  \E m \in 0..Len(Storable(list)) : Parsed(next) = SubSeq(Storable(list), 1, m)
  <2>1. PICK k \in 0..Len(all) : k = 2 * n /\ k + 1 \in 0..Len(all)
    BY <1>3, <1>5
  <2>2. lines = SubSeq(all, 1, k) /\ next = Append(lines, all[k + 1])
    BY <1>1, <1>5, <2>1
  <2>3. Append(SubSeq(all, 1, k), all[k + 1]) = SubSeq(all, 1, k + 1)
    <3>1. k \in Nat /\ k < Len(all)
      BY <2>1
    <3> QED BY <3>1, NextOfBeginning
  <2> QED BY <1>1, <2>1, <2>2, <2>3, BeginningRead
<1>6. \E m \in 0..Len(Storable(list)) : Parsed(next) = SubSeq(Storable(list), 1, m)
  BY <1>1, <1>2, <1>4, <1>5
<1> QED BY <1>6 DEF Shared!Oldest

\* What is read of a file that is written completely.
LEMMA AllRead ==
  ASSUME NEW list \in Seq(Entries), NEW n, n = Len(NotBlank(list))
  PROVE  Parsed(SubSeq(LinesOf(list), 1, 2 * n)) = Storable(list)
<1>1. Len(NotBlank(list)) \in Nat /\ Len(LinesOf(list)) = 2 * Len(NotBlank(list))
  BY NotBlankList
<1>2. PICK m \in 0..Len(LinesOf(list)) : m = Len(LinesOf(list)) /\ m = 2 * n
  BY <1>1
<1>3. Parsed(SubSeq(LinesOf(list), 1, m)) = Storable(list)
  BY <1>2, BeginningRead
<1> QED BY <1>2, <1>3
-----------------------------------------------------------------------------
(* The refinement.                                                           *)

View == [p \in Procs |-> Seen(p)]

\* What the file holds are entries.
LEMMA InFileList == Typed /\ Locking => InFile \in Seq(Entries) /\ Parsed(file) \in Seq(Entries)
<1> SUFFICES ASSUME Typed, Locking PROVE InFile \in Seq(Entries) /\ Parsed(file) \in Seq(Entries)
  OBVIOUS
<1>1. file \in Seq(Lines) /\ entries \in [Procs -> Seq(Entries)]
  BY ListsAre DEF Typed, TypeOK, Lines
<1>2. Parsed(file) \in Seq(Entries)
  BY <1>1, ParsedList
<1>3. ASSUME NEW p \in Procs, pc[p] = "write" PROVE InFile \in Seq(Entries)
  <2>1. PICK list \in Seq(Entries) : list = entries[p]
    BY <1>1
  <2>2. InFile = Storable(list)
    BY <1>3, <2>1, InFileIs
  <2> QED BY <2>2, StorableIs
<1> QED BY <1>2, <1>3, InFileIs

\* It starts like the shared history.
LEMMA SharedInit == Init => Shared!Init
<1> SUFFICES ASSUME Init PROVE Shared!Init
  OBVIOUS
<1>1. Typed /\ Locking
  BY TypingInit DEF Init, Locking, Inside
<1>2. InFile \in Seq(Entries)
  BY <1>1, InFileList
<1>3. \A p \in Procs : Seen(p) = <<>>
  BY DEF Init, Seen
<1> QED BY <1>2, <1>3 DEF Shared!Init, Entries

\* What a process that does nothing sees stays.
LEMMA SeenStays ==
  ASSUME NEW q \in Procs, pc'[q] = pc[q], entries'[q] = entries[q], original'[q] = original[q],
         sync'[q] = sync[q]
  PROVE  Seen(q)' = Seen(q)
BY DEF Seen, Left

\* One process sees something new.
LEMMA ViewIs ==
  ASSUME NEW p \in Procs, \A q \in Procs : q # p => Seen(q)' = Seen(q), NEW l, Seen(p)' = l
  PROVE  View' = [View EXCEPT ![p] = l] /\ (l = View[p] => View' = View)
BY DEF View

\* What counts as in the file stays.
LEMMA InFileStays ==
  ASSUME Locking, Locking', file' = file,
         \A q \in Procs : pc'[q] = "write" <=> pc[q] = "write",
         \A q \in Procs : pc[q] = "write" => entries'[q] = entries[q]
  PROVE  InFile' = InFile
<1>1. CASE \A q \in Procs : pc[q] # "write"
  BY <1>1, InFileIs
<1>2. ASSUME NEW q \in Procs, pc[q] = "write" PROVE InFile' = InFile
  BY <1>2, InFileIs
<1> QED BY <1>1, <1>2

\* A list is among its own beginnings.
LEMMA WholeBeginning ==
  ASSUME NEW s \in Seq(Entries)
  PROVE  s \in Shared!Oldest(s)
<1>1. PICK t \in Seq(Entries) : t = SubSeq(s, 1, Len(s)) /\ Len(t) = Len(s)
                               /\ \A i \in 1..Len(s) : t[i] = s[i]
  OBVIOUS
<1>2. s = t
  BY <1>1, ListsEqual
<1>3. s = SubSeq(s, 1, Len(s)) /\ Len(s) \in 0..Len(s)
  BY <1>1, <1>2
<1> QED BY <1>3 DEF Shared!Oldest

\* The list before an entry was appended is what comes before that.
LEMMA FrontOfAppend ==
  ASSUME NEW s \in Seq(Entries), NEW e \in Entries
  PROVE  /\ Append(s, e) \in Seq(Entries) \ {<<>>}
         /\ SubSeq(Append(s, e), 1, Len(Append(s, e)) - 1) = s
<1>1. PICK a \in Seq(Entries) : a = Append(s, e) /\ Len(a) = Len(s) + 1
                               /\ \A i \in 1..Len(s) : a[i] = s[i]
  <2>1. Append(s, e) \in Seq(Entries) /\ Len(Append(s, e)) = Len(s) + 1
    BY AppendProperties
  <2>2. \A i \in 1..Len(s) : Append(s, e)[i] = s[i]
    BY AppendProperties
  <2> QED BY <2>1, <2>2
<1>2. PICK n \in Nat : n = Len(s) /\ Len(a) - 1 = n
  BY <1>1
<1>3. PICK t \in Seq(Entries) : t = SubSeq(a, 1, n) /\ Len(t) = n /\ \A i \in 1..n : t[i] = a[i]
  BY <1>1, <1>2
<1>4. s = t
  BY <1>1, <1>2, <1>3, ListsEqual
<1>5. a # <<>>
  BY <1>1, <1>2
<1> QED BY <1>1, <1>2, <1>3, <1>4, <1>5

\* Each step is one of the shared history, or changes nothing of it.
LEMMA SharedStep ==
  Typed /\ Typed' /\ Locking /\ Locking' /\ Writing /\ Writing' /\ [Next]_vars
    => [Shared!Next]_<<InFile, [p \in Procs |-> Seen(p)]>>
<1> SUFFICES ASSUME Typed, Typed', Locking, Locking', Writing, Writing', [Next]_vars
             PROVE  Shared!Next \/ UNCHANGED <<InFile, View>>
  BY DEF View
<1>1. /\ file \in Seq(Lines)
      /\ entries \in [Procs -> Seq(Entries)] /\ original \in [Procs -> Seq(Entries)]
      /\ pc \in [Procs -> States] /\ wrote \in [Procs -> 0..MaxSize] /\ sync \in [Procs -> BOOLEAN]
  BY ListsAre DEF Typed, TypeOK, States, Lines
<1>2. \A p, q \in Procs : pc[p] \in {"open", "write"} /\ pc[q] \in {"open", "write"} => p = q
  BY DEF Locking, Inside
<1>3. InFile \in Seq(Entries) /\ Parsed(file) \in Seq(Entries)
  BY InFileList
<1>4. \A q \in Procs : View[q] = Seen(q)
  BY DEF View
<1>5. Parsed(file) \in Shared!Oldest(InFile)
  <2>1. CASE \A q \in Procs : pc[q] # "write"
    <3>1. InFile = Parsed(file)
      BY <2>1, InFileIs
    <3>2. PICK s \in Seq(Entries) : s = InFile
      BY <1>3
    <3>3. s \in Shared!Oldest(s)
      BY WholeBeginning
    <3> QED BY <3>1, <3>2, <3>3
  <2>2. ASSUME NEW q \in Procs, pc[q] = "write" PROVE Parsed(file) \in Shared!Oldest(InFile)
    <3>1. PICK list \in Seq(Entries), n \in Nat : list = entries[q] /\ n = wrote[q]
      BY <1>1
    <3>2. n <= Len(NotBlank(list)) /\ file = SubSeq(LinesOf(list), 1, 2 * n)
      BY <2>2, <3>1 DEF Writing
    <3>3. InFile = Storable(list)
      BY <2>2, <3>1, InFileIs
    <3>4. PICK lines : lines = file
      OBVIOUS
    <3>5. Parsed(lines) \in Shared!Oldest(Storable(list))
      BY <3>2, <3>4, PartRead
    <3> QED BY <3>3, <3>4, <3>5
  <2> QED BY <2>1, <2>2
<1>6. ASSUME NEW p \in Procs, NEW text \in Texts, HistoryAdd(p, text)
      PROVE  Shared!Next
  <2> DEFINE older == Older(p, text, entries[p])
  <2>1. /\ pc[p] = "idle" /\ UNCHANGED <<file, pc, original, sync>> /\ clock' \in Times
        /\ entries' = [entries EXCEPT ![p] = Append(older, Entry(clock', text))]
    BY <1>6 DEF HistoryAdd, Older
  <2>2. PICK old \in Seq(Entries) :
          old = older /\ \A i \in 1..Len(old) : \E j \in 1..Len(entries[p]) : old[i] = entries[p][j]
    <3>1. PICK list \in Seq(Entries) : list = entries[p] /\ Len(list) <= MaxSize + 1
      BY <1>1 DEF Typed, TypeOK
    <3>2. PICK o : o = Older(p, text, list)
      OBVIOUS
    <3>3. o \in Seq(Entries)
      <4>1. PICK time \in Times : time = clock'
        BY <2>1
      <4> QED BY <3>1, <3>2, AddedList
    <3>4. \A i \in 1..Len(o) : \E j \in 1..Len(list) : o[i] = list[j]
      BY <3>1, <3>2, OlderFrom
    <3> QED BY <3>1, <3>2, <3>3, <3>4
  <2>3. PICK new \in Entries : new = Entry(clock', text)
    BY <2>1, EntryIs, HistoryFileAssumption
  <2> HIDE DEF older
  <2>4. entries' = [entries EXCEPT ![p] = Append(old, new)]
    BY <2>1, <2>2, <2>3
  <2>5. InFile' = InFile
    BY <1>1, <2>1, <2>4, InFileStays
  <2>6. \A q \in Procs : q # p => Seen(q)' = Seen(q)
    BY <1>1, <2>1, <2>4, SeenStays
  <2>7. Seen(p) = entries[p] /\ Seen(p)' = Append(old, new)
    BY <1>1, <2>1, <2>4 DEF Seen
  <2>8. View' = [View EXCEPT ![p] = Append(old, new)] /\ View'[p] = Append(old, new)
    BY <2>6, <2>7, ViewIs DEF View
  <2>9. /\ Append(old, new) \in Seq(Entries) \ {<<>>}
        /\ SubSeq(Append(old, new), 1, Len(Append(old, new)) - 1) = old
    BY FrontOfAppend
  <2>10. Shared!Elements(old) \subseteq Shared!Elements(View[p])
    <3>1. PICK list \in Seq(Entries) : list = entries[p] /\ list = View[p]
      BY <1>1, <1>4, <2>7
    <3>2. DOMAIN old = 1..Len(old) /\ DOMAIN list = 1..Len(list)
      OBVIOUS
    <3>3. \A i \in DOMAIN old : \E j \in DOMAIN list : old[i] = list[j]
      <4>1. ASSUME NEW i \in DOMAIN old PROVE \E j \in DOMAIN list : old[i] = list[j]
        <5>1. PICK j \in 1..Len(entries[p]) : old[i] = entries[p][j]
          BY <2>2, <3>2
        <5> QED BY <3>1, <3>2, <5>1
      <4> QED BY <4>1
    <3>4. Shared!Elements(old) \subseteq Shared!Elements(list)
      BY <3>3 DEF Shared!Elements
    <3> QED BY <3>1, <3>4
  <2>11. Shared!Add(p)
    BY <2>5, <2>8, <2>9, <2>10 DEF Shared!Add, View, Entries
  <2> QED BY <2>11 DEF Shared!Next
<1>7. ASSUME NEW p \in Procs, HistoryLoad(p) PROVE Shared!Next
  <2>1. /\ pc[p] = "idle" /\ UNCHANGED <<file, pc, original, sync>>
        /\ entries' = [entries EXCEPT ![p] = Merge(p, <<>>, Parsed(file))]
    BY <1>7 DEF HistoryLoad
  <2>2. InFile' = InFile
    BY <1>1, <2>1, InFileStays
  <2>3. \A q \in Procs : q # p => Seen(q)' = Seen(q)
    BY <1>1, <2>1, SeenStays
  <2>4. Seen(p)' = Merge(p, <<>>, Parsed(file))
    BY <1>1, <2>1 DEF Seen
  <2>5. View' = [View EXCEPT ![p] = Merge(p, <<>>, Parsed(file))]
    BY <2>3, <2>4, ViewIs
  <2>6. Shared!Load(p)
    BY <1>5, <2>2, <2>5 DEF Shared!Load, View
  <2> QED BY <2>6 DEF Shared!Next
<1>8. ASSUME NEW p \in Procs, NEW toSync \in BOOLEAN, SaveBegin(p, toSync)
      PROVE  UNCHANGED <<InFile, View>>
  <2>1. /\ pc[p] = "idle" /\ pc' = [pc EXCEPT ![p] = "lock"]
        /\ original' = [original EXCEPT ![p] = entries[p]] /\ sync' = [sync EXCEPT ![p] = toSync]
        /\ UNCHANGED <<file, entries>>
    BY <1>8 DEF SaveBegin, At
  <2>2. InFile' = InFile
    BY <1>1, <2>1, InFileStays
  <2>3. \A q \in Procs : q # p => Seen(q)' = Seen(q)
    BY <1>1, <2>1, SeenStays
  <2>4. Seen(p)' = Seen(p)
    BY <1>1, <2>1 DEF Seen
  <2> QED BY <1>4, <2>2, <2>3, <2>4, ViewIs
<1>9. ASSUME NEW p \in Procs, Lock(p) PROVE UNCHANGED <<InFile, View>>
  <2>1. /\ pc[p] = "lock" /\ pc' = [pc EXCEPT ![p] = "read"]
        /\ UNCHANGED <<file, entries, original, sync>>
    BY <1>9 DEF Lock, At
  <2>2. InFile' = InFile
    BY <1>1, <2>1, InFileStays
  <2>3. \A q \in Procs : q # p => Seen(q)' = Seen(q)
    BY <1>1, <2>1, SeenStays
  <2>4. Seen(p)' = Seen(p)
    BY <1>1, <2>1 DEF Seen
  <2> QED BY <1>4, <2>2, <2>3, <2>4, ViewIs
<1>10. ASSUME NEW p \in Procs, ReadAndMerge(p) PROVE UNCHANGED <<InFile, View>>
  <2>1. /\ pc[p] = "read" /\ pc' = [pc EXCEPT ![p] = "open"]
        /\ UNCHANGED <<file, original, sync>> /\ \A q \in Procs : q # p => entries'[q] = entries[q]
    BY <1>1, <1>10 DEF ReadAndMerge, At
  <2>2. InFile' = InFile
    BY <1>1, <2>1, InFileStays
  <2>3. \A q \in Procs : q # p => Seen(q)' = Seen(q)
    BY <1>1, <2>1, SeenStays
  <2>4. Seen(p)' = Seen(p)
    BY <1>1, <2>1 DEF Seen
  <2> QED BY <1>4, <2>2, <2>3, <2>4, ViewIs
<1>11. ASSUME NEW p \in Procs, OpenFile(p) PROVE Shared!Next
  <2>1. /\ pc[p] = "open" /\ pc' = [pc EXCEPT ![p] = "write"]
        /\ UNCHANGED <<entries, original, sync>>
    BY <1>11 DEF OpenFile, At
  <2>2. Seen(p) = original[p] /\ Seen(p)' = Left(p)
    BY <1>1, <2>1 DEF Seen, Left
  <2>3. \A q \in Procs : q # p => Seen(q)' = Seen(q)
    BY <1>1, <2>1, SeenStays
  <2>4. InFile = Parsed(file)
    BY <1>2, <2>1, InFileIs
  <2>5. InFile' = Storable(entries[p])
    BY <1>1, <2>1, InFileIs
  <2>6. entries[p] = Merge(p, View[p], InFile)
    BY <1>4, <2>1, <2>2, <2>4 DEF Writing
  <2>7. View' = [View EXCEPT ![p] = Left(p)] /\ (Left(p) = View[p] => View' = View)
    BY <2>2, <2>3, ViewIs
  <2>8. Left(p) = entries[p] \/ Left(p) = View[p]
    BY <1>4, <2>2 DEF Left
  <2>9. Shared!Save(p)
    BY <2>5, <2>6, <2>7, <2>8 DEF Shared!Save, View
  <2> QED BY <2>9 DEF Shared!Next
<1>12. ASSUME NEW p \in Procs, OpenFails(p) PROVE Shared!Next
  <2>1. /\ pc[p] = "open" /\ pc' = [pc EXCEPT ![p] = "unlock"]
        /\ UNCHANGED <<file, entries, original, sync>>
    BY <1>12 DEF OpenFails, At
  <2>2. Seen(p) = original[p] /\ Seen(p)' = entries[p]
    BY <1>1, <2>1 DEF Seen
  <2>3. \A q \in Procs : q # p => Seen(q)' = Seen(q)
    BY <1>1, <2>1, SeenStays
  <2>4. InFile = Parsed(file)
    BY <1>2, <2>1, InFileIs
  <2>5. InFile' = InFile
    BY <1>1, <2>1, InFileStays
  <2>6. entries[p] = Merge(p, View[p], InFile)
    BY <1>4, <2>1, <2>2, <2>4 DEF Writing
  <2>7. View' = [View EXCEPT ![p] = entries[p]]
    BY <2>2, <2>3, ViewIs
  <2>8. Shared!Save(p)
    BY <2>5, <2>6, <2>7 DEF Shared!Save, View
  <2> QED BY <2>8 DEF Shared!Next
<1>13. ASSUME NEW p \in Procs, WriteEntry(p) PROVE UNCHANGED <<InFile, View>>
  <2>1. pc[p] = "write" /\ UNCHANGED <<pc, entries, original, sync>>
    BY <1>13 DEF WriteEntry
  <2>2. InFile' = InFile
    BY <2>1, InFileIs
  <2>3. \A q \in Procs : Seen(q)' = Seen(q)
    BY <2>1, SeenStays
  <2> QED BY <2>2, <2>3 DEF View
<1>14. ASSUME NEW p \in Procs, SaveDone(p) PROVE UNCHANGED <<InFile, View>>
  <2>1. /\ pc[p] = "write" /\ pc' = [pc EXCEPT ![p] = "unlock"]
        /\ wrote[p] = Len(NotBlank(entries[p]))
        /\ entries' = [entries EXCEPT ![p] = Left(p)] /\ UNCHANGED <<file, original, sync>>
    BY <1>14 DEF SaveDone, At
  <2>2. \A q \in Procs : q # p => Seen(q)' = Seen(q)
    BY <1>1, <2>1, SeenStays
  <2>3. Seen(p)' = Seen(p)
    BY <1>1, <2>1 DEF Seen
  <2>4. \A q \in Procs : pc'[q] # "write"
    BY <1>1, <1>2, <2>1
  <2>5. InFile' = Parsed(file)
    BY <2>1, <2>4, InFileIs
  <2>6. PICK list \in Seq(Entries), n \in Nat : list = entries[p] /\ n = wrote[p]
    BY <1>1
  <2>7. n = Len(NotBlank(list)) /\ file = SubSeq(LinesOf(list), 1, 2 * n)
    BY <2>1, <2>6 DEF Writing
  <2>8. Parsed(file) = Storable(list)
    BY <2>7, AllRead
  <2>9. InFile' = InFile
    BY <2>1, <2>5, <2>6, <2>8, InFileIs
  <2> QED BY <1>4, <2>2, <2>3, <2>9, ViewIs
<1>15. ASSUME NEW p \in Procs, Unlock(p) PROVE UNCHANGED <<InFile, View>>
  <2>1. /\ pc[p] = "unlock" /\ pc' = [pc EXCEPT ![p] = "unlink"]
        /\ UNCHANGED <<file, entries, original, sync>>
    BY <1>15 DEF Unlock, At
  <2>2. InFile' = InFile
    BY <1>1, <2>1, InFileStays
  <2>3. \A q \in Procs : q # p => Seen(q)' = Seen(q)
    BY <1>1, <2>1, SeenStays
  <2>4. Seen(p)' = Seen(p)
    BY <1>1, <2>1 DEF Seen
  <2> QED BY <1>4, <2>2, <2>3, <2>4, ViewIs
<1>16. ASSUME NEW p \in Procs, Unlink(p) PROVE UNCHANGED <<InFile, View>>
  <2>1. /\ pc[p] = "unlink" /\ pc' = [pc EXCEPT ![p] = "idle"] /\ UNCHANGED <<file, entries>>
        /\ \A q \in Procs : q # p => original'[q] = original[q] /\ sync'[q] = sync[q]
    BY <1>1, <1>16 DEF Unlink, At, Closed
  <2>2. InFile' = InFile
    BY <1>1, <2>1, InFileStays
  <2>3. \A q \in Procs : q # p => Seen(q)' = Seen(q)
    BY <1>1, <2>1, SeenStays
  <2>4. Seen(p)' = Seen(p)
    BY <1>1, <2>1 DEF Seen
  <2> QED BY <1>4, <2>2, <2>3, <2>4, ViewIs
<1>17. ASSUME NEW p \in Procs, Crash(p) PROVE Shared!Next
  <2>1. /\ pc' = [pc EXCEPT ![p] = "idle"] /\ entries' = [entries EXCEPT ![p] = <<>>]
        /\ \A q \in Procs : q # p => original'[q] = original[q] /\ sync'[q] = sync[q]
        /\ file' = file \/ (/\ pc[p] = "write" /\ wrote[p] < Len(NotBlank(entries[p]))
                            /\ file' = Append(file, LinesOf(entries[p])[2 * wrote[p] + 1]))
    BY <1>1, <1>17 DEF Crash, Closed
  <2>2. \A q \in Procs : q # p => Seen(q)' = Seen(q)
    BY <1>1, <2>1, SeenStays
  <2>3. Seen(p)' = <<>>
    BY <1>1, <2>1 DEF Seen
  <2>4. View' = [View EXCEPT ![p] = <<>>]
    BY <2>2, <2>3, ViewIs
  <2>5. InFile' \in Shared!Oldest(InFile)
    <3>1. CASE pc[p] # "write"
      <4>1. InFile' = InFile
        BY <1>1, <2>1, <3>1, InFileStays
      <4>2. PICK s \in Seq(Entries) : s = InFile
        BY <1>3
      <4>3. s \in Shared!Oldest(s)
        BY WholeBeginning
      <4> QED BY <4>1, <4>2, <4>3
    <3>2. CASE pc[p] = "write"
      <4>1. PICK list \in Seq(Entries), n \in Nat : list = entries[p] /\ n = wrote[p]
        BY <1>1
      <4>2. PICK lines, next : lines = file /\ next = file'
        OBVIOUS
      <4>3. n <= Len(NotBlank(list)) /\ lines = SubSeq(LinesOf(list), 1, 2 * n)
        BY <3>2, <4>1, <4>2 DEF Writing
      <4>4. next = lines \/ (/\ n < Len(NotBlank(list))
                             /\ next = Append(lines, LinesOf(list)[2 * n + 1]))
        BY <2>1, <4>1, <4>2
      <4>5. InFile = Storable(list)
        BY <3>2, <4>1, InFileIs
      <4>6. \A q \in Procs : pc'[q] # "write"
        BY <1>1, <1>2, <2>1, <3>2
      <4>7. InFile' = Parsed(next)
        BY <4>2, <4>6, InFileIs
      <4>8. Parsed(next) \in Shared!Oldest(Storable(list))
        BY <4>3, <4>4, PartRead
      <4> QED BY <4>5, <4>7, <4>8
    <3> QED BY <3>1, <3>2
  <2>6. Shared!Crash(p)
    BY <2>4, <2>5 DEF Shared!Crash, View
  <2> QED BY <2>6 DEF Shared!Next
<1>18. CASE UNCHANGED vars
  <2>1. UNCHANGED <<file, pc, entries, original, sync>>
    BY <1>18 DEF vars
  <2>2. InFile' = InFile
    BY <2>1, InFileStays
  <2>3. \A q \in Procs : Seen(q)' = Seen(q)
    BY <2>1, SeenStays
  <2> QED BY <2>2, <2>3 DEF View
<1> QED BY <1>6, <1>7, <1>8, <1>9, <1>10, <1>11, <1>12, <1>13, <1>14, <1>15, <1>16, <1>17, <1>18
       DEF Next, Saving

\* As long as no lock file is created while another one is in use, each save, synchronization
\* and load is one step to all processes, whoever crashes when: nobody's entries are lost
\* between the reading and the writing of another.
THEOREM Refinement == Spec /\ Orderly => SharedSpec
<1>1. Init => Typed /\ Locking /\ Writing /\ Shared!Init
  <2>1. Init => Locking /\ Writing
    BY DEF Init, Locking, Inside, Writing, NoFile
  <2> QED BY <2>1, TypingInit, SharedInit
<1> QED BY <1>1, TypingStep, LockingStep, WritingStep, SharedStep, PTL
        DEF Spec, Orderly, SharedSpec, Shared!Spec

=============================================================================
