-------------------------- MODULE CompletionProofs --------------------------
(***************************************************************************)
(* Completion with any words, options and sizes of the terminal.           *)
(*                                                                         *)
(* The argument has two parts.  While completions are gone through, the    *)
(* line is the one their search left with the rest of the selected         *)
(* completion put in at its cursor (Cycled), and each of them goes on from *)
(* its context (Anchored): putting in and taking out are each other's      *)
(* inverse.  While the list is shown, what is printed are the numbers of   *)
(* the first rows of a grid that has a place for each completion (Shown).  *)
(***************************************************************************)
EXTENDS Completion, FiniteSetTheorems, SequenceTheorems, WellFoundedInduction, TLAPS

-----------------------------------------------------------------------------
(* Numbers.                                                                 *)

\* A set of natural numbers has a least element.
LEMMA LeastNatural ==
  ASSUME NEW T, T \subseteq Nat, T # {}
  PROVE  \E x \in T : \A y \in T : x <= y
<1>1. PICK x \in T : \A y \in T : ~ (<<y, x>> \in OpToRel(<, Nat))
  BY NatLessThanWellFounded, WFMin
<1>2. \A y \in T : ~ (y < x)
  BY <1>1 DEF OpToRel
<1> QED BY <1>2, SMT

\* A set with 0 that has the successor of each number in it has all of them.
LEMMA Successors ==
  ASSUME NEW P, 0 \in P, \A n \in Nat : n \in P => n + 1 \in P
  PROVE  Nat \subseteq P
<1> SUFFICES ASSUME Nat \ P # {} PROVE FALSE
  OBVIOUS
<1>1. PICK x \in Nat \ P : \A y \in Nat \ P : x <= y
  BY LeastNatural
<1>2. x # 0
  OBVIOUS
<1>3. x - 1 \in Nat /\ x - 1 \in P
  BY <1>1, <1>2
<1> QED BY <1>3

\* Max is the greatest element of a set that is bounded above.
LEMMA MaxIsGreatest ==
  ASSUME NEW S, S \subseteq Int, S # {}, NEW b \in Int, \A x \in S : x <= b
  PROVE  Max(S) \in S /\ \A x \in S : Max(S) >= x
<1> DEFINE T == {b - x : x \in S}
<1>1. \A x \in S : b - x \in Nat
  OBVIOUS
<1>2. PICK t \in T : \A u \in T : t <= u
  <2>1. T \subseteq Nat /\ T # {}
    BY <1>1
  <2> HIDE DEF T
  <2> QED BY <2>1, LeastNatural
<1>3. PICK m \in S : t = b - m
  BY <1>2
<1>4. ASSUME NEW x \in S PROVE m >= x
  <2>1. b - x \in T
    OBVIOUS
  <2>2. b - m <= b - x
    BY <2>1, <1>2, <1>3
  <2> QED BY <2>2
<1> QED BY <1>3, <1>4 DEF Max

\* A function that is given by its value for 0 and a step is there.
LEMMA StepsExist ==
  ASSUME NEW M, NEW first \in M, NEW step \in [Nat -> [M -> M]], NEW N \in Nat
  PROVE  \E f \in [0..N -> M] : f[0] = first /\ \A k \in 1..N : f[k] = step[k][f[k - 1]]
<1> DEFINE Is(f, n) == f[0] = first /\ \A k \in 1..n : f[k] = step[k][f[k - 1]]
           P == {n \in Nat : \E f \in [0..n -> M] : Is(f, n)}
<1>1. 0 \in P
  <2> DEFINE f == [k \in 0..0 |-> first]
  <2>1. f \in [0..0 -> M] /\ Is(f, 0)
    OBVIOUS
  <2> QED BY <2>1
<1>2. ASSUME NEW n \in Nat, n \in P PROVE n + 1 \in P
  <2>1. PICK f \in [0..n -> M] : Is(f, n)
    BY <1>2
  <2>2. PICK m \in M : m = step[n + 1][f[n]]
    OBVIOUS
  <2> DEFINE g == [k \in 0..(n + 1) |-> IF k = n + 1 THEN m ELSE f[k]]
  <2>3. g \in [0..(n + 1) -> M]
    BY <2>1
  <2>4. Is(g, n + 1)
    <3>1. g[0] = first
      BY <2>1
    <3>2. ASSUME NEW k \in 1..(n + 1) PROVE g[k] = step[k][g[k - 1]]
      <4>1. g[k - 1] = f[k - 1]
        OBVIOUS
      <4>2. CASE k = n + 1
        <5>1. k - 1 = n /\ g[k] = m
          BY <4>2
        <5>2. g[k - 1] = f[n]
          BY <4>1, <5>1
        <5> HIDE DEF g
        <5> QED BY <2>2, <4>2, <5>1, <5>2
      <4>3. CASE k # n + 1
        <5>1. k \in 1..n /\ g[k] = f[k]
          BY <4>3
        <5> QED BY <2>1, <4>1, <5>1
      <4> QED BY <4>2, <4>3
    <3> QED BY <3>1, <3>2
  <2> HIDE DEF g
  <2>5. n + 1 \in Nat
    OBVIOUS
  <2> QED BY <2>3, <2>4, <2>5
<1> HIDE DEF P
<1>3. Nat \subseteq P
  BY <1>1, <1>2, Successors
<1> QED BY <1>3 DEF P

-----------------------------------------------------------------------------
(* Texts.                                                                   *)

Text == Seq(Nat)

\* Its characters.
LEMMA CharactersAre ==
  ASSUME NEW a \in Text, NEW i \in 1..Len(a)
  PROVE  a[i] \in Nat
BY DEF Text

\* A character as it is compared.
Folded(c, ignoreCase) == IF ignoreCase THEN Lower(c) ELSE c

\* Numbers up to which there are the same numbers are the same.
LEMMA SameBound ==
  ASSUME NEW m \in Nat, NEW n \in Nat, 1..m = 1..n
  PROVE  m = n
<1>1. ASSUME m < n PROVE FALSE
  <2>1. n \in 1..n /\ ~ n \in 1..m
    BY <1>1
  <2> QED BY <2>1
<1>2. ASSUME n < m PROVE FALSE
  <2>1. m \in 1..m /\ ~ m \in 1..n
    BY <1>2
  <2> QED BY <2>1
<1> QED BY <1>1, <1>2

\* Same compares character by character.
LEMMA SameIs ==
  ASSUME NEW a \in Text, NEW b \in Text, NEW ignoreCase \in BOOLEAN
  PROVE  Same(a, b, ignoreCase)
           <=> /\ Len(a) = Len(b)
               /\ \A i \in 1..Len(a) : Folded(a[i], ignoreCase) = Folded(b[i], ignoreCase)
<1>1. /\ DOMAIN a = 1..Len(a) /\ DOMAIN b = 1..Len(b) /\ Len(a) \in Nat /\ Len(b) \in Nat
  BY DEF Text
<1>2. a = b <=> Len(a) = Len(b) /\ \A i \in 1..Len(a) : a[i] = b[i]
  BY SeqEqual DEF Text
<1>3. LowerAll(a) = LowerAll(b)
        <=> Len(a) = Len(b) /\ \A i \in 1..Len(a) : Lower(a[i]) = Lower(b[i])
  <2>1. ASSUME LowerAll(a) = LowerAll(b)
        PROVE  Len(a) = Len(b) /\ \A i \in 1..Len(a) : Lower(a[i]) = Lower(b[i])
    <3>1. 1..Len(a) = 1..Len(b)
      BY <1>1, <2>1 DEF LowerAll
    <3>2. Len(a) = Len(b)
      BY <1>1, <3>1, SameBound
    <3> QED BY <1>1, <2>1, <3>2 DEF LowerAll
  <2>2. ASSUME Len(a) = Len(b), \A i \in 1..Len(a) : Lower(a[i]) = Lower(b[i])
        PROVE  LowerAll(a) = LowerAll(b)
    BY <1>1, <2>2 DEF LowerAll
  <2> QED BY <2>1, <2>2
<1> QED BY <1>2, <1>3 DEF Same, Folded

\* Parts of texts.
LEMMA PartIs ==
  ASSUME NEW a \in Text, NEW m \in 1..(Len(a) + 1), NEW n \in (m - 1)..Len(a)
  PROVE  /\ SubSeq(a, m, n) \in Text /\ Len(SubSeq(a, m, n)) = n - m + 1
         /\ \A i \in 1..(n - m + 1) : SubSeq(a, m, n)[i] = a[m + i - 1]
<1>1. Len(a) \in Nat
  BY DEF Text
<1>2. m \in Int /\ n \in Int /\ n - m + 1 \in Nat
  BY <1>1
<1>3. \A i \in m..n : a[i] \in Nat
  BY <1>1 DEF Text
<1>4. SubSeq(a, m, n) = [i \in 1..(n - m + 1) |-> a[i + m - 1]]
  OBVIOUS
<1>5. \A i \in 1..(n - m + 1) : i + m - 1 \in m..n
  BY <1>2
<1>6. [i \in 1..(n - m + 1) |-> a[i + m - 1]] \in [1..(n - m + 1) -> Nat]
  BY <1>3, <1>5
<1> QED BY <1>2, <1>4, <1>6 DEF Text

\* Texts that are put together.
LEMMA JoinedIs ==
  ASSUME NEW a \in Text, NEW b \in Text
  PROVE  /\ a \o b \in Text /\ Len(a \o b) = Len(a) + Len(b)
         /\ \A i \in 1..Len(a) : (a \o b)[i] = a[i]
         /\ \A i \in 1..Len(b) : (a \o b)[Len(a) + i] = b[i]
BY ConcatProperties DEF Text

\* Three of them.
LEMMA PiecesAre ==
  ASSUME NEW a \in Text, NEW b \in Text, NEW c \in Text
  PROVE  /\ a \o b \o c \in Text /\ Len(a \o b \o c) = Len(a) + Len(b) + Len(c)
         /\ \A i \in 1..Len(a) : (a \o b \o c)[i] = a[i]
         /\ \A i \in 1..Len(b) : (a \o b \o c)[Len(a) + i] = b[i]
         /\ \A i \in 1..Len(c) : (a \o b \o c)[Len(a) + Len(b) + i] = c[i]
<1>1. PICK d \in Text : d = a \o b
  BY JoinedIs
<1>2. /\ Len(d) = Len(a) + Len(b) /\ \A i \in 1..Len(a) : d[i] = a[i]
      /\ \A i \in 1..Len(b) : d[Len(a) + i] = b[i]
  BY <1>1, JoinedIs
<1>3. /\ d \o c \in Text /\ Len(d \o c) = Len(d) + Len(c)
      /\ \A i \in 1..Len(d) : (d \o c)[i] = d[i]
      /\ \A i \in 1..Len(c) : (d \o c)[Len(d) + i] = c[i]
  BY JoinedIs
<1>4. Len(a) \in Nat /\ Len(b) \in Nat /\ Len(c) \in Nat
  BY DEF Text
<1>5. \A i \in 1..Len(a) : i \in 1..Len(d)
  BY <1>2, <1>4
<1>6. \A i \in 1..Len(b) : Len(a) + i \in 1..Len(d)
  BY <1>2, <1>4
<1> QED BY <1>1, <1>2, <1>3, <1>4, <1>5, <1>6
-----------------------------------------------------------------------------
(* The context, and what is found for it.                                   *)

\* The context ends at the cursor.
LEMMA ContextIs ==
  ASSUME NEW d \in Text, NEW p \in 0..Len(d)
  PROVE  /\ ContextLength(d, p) \in 0..p
         /\ Context(d, p) \in Text /\ Len(Context(d, p)) = ContextLength(d, p)
         /\ \A i \in 1..ContextLength(d, p) :
              Context(d, p)[i] = d[p - ContextLength(d, p) + i]
<1> DEFINE breaks == {i \in 1..p : d[i] \in WordBreaks}
           S == breaks \cup {0}
<1>1. Len(d) \in Nat /\ p \in Int
  BY DEF Text
<1>2. \A x \in S : x \in 0..p
  BY <1>1
<1>3. S \subseteq Int /\ S # {} /\ \A x \in S : x <= p
  BY <1>1, <1>2
<1> HIDE DEF S
<1>4. Max(S) \in S
  BY <1>1, <1>3, MaxIsGreatest
<1>5. PICK n \in 0..p : n = ContextLength(d, p)
  <2>1. ContextLength(d, p) = p - Max(S)
    BY DEF ContextLength, S
  <2>2. Max(S) \in 0..p
    BY <1>2, <1>4
  <2> QED BY <1>1, <2>1, <2>2
<1>6. p - n + 1 \in 1..(Len(d) + 1) /\ p \in (p - n + 1 - 1)..Len(d) /\ p - (p - n + 1) + 1 = n
  BY <1>1
<1>7. /\ SubSeq(d, p - n + 1, p) \in Text /\ Len(SubSeq(d, p - n + 1, p)) = n
      /\ \A i \in 1..n : SubSeq(d, p - n + 1, p)[i] = d[p - n + 1 + i - 1]
  BY <1>6, PartIs
<1>8. \A i \in 1..n : p - n + 1 + i - 1 = p - n + i
  BY <1>1
<1> QED BY <1>5, <1>7, <1>8 DEF Context

\* The completer finds some of the words, each of which goes on from the context.
LEMMA CallCompleterIs ==
  ASSUME NEW d, NEW p
  PROVE  /\ CallCompleter(d, p) \in Seq(Text) /\ Len(CallCompleter(d, p)) <= Len(Words)
         /\ \A i \in 1..Len(CallCompleter(d, p)) :
              /\ CallCompleter(d, p)[i] \in Range(Words)
              /\ Matches(CallCompleter(d, p)[i], Context(d, p))
<1> DEFINE c == Context(d, p)
           N == Len(Words)
           e(f, n) == IF n = 0 THEN <<>>
                      ELSE IF Matches(Words[n], c) THEN Append(f[n - 1], Words[n])
                      ELSE f[n - 1]
           found[n \in 0..N] == IF n = 0 THEN <<>>
                      ELSE IF Matches(Words[n], c) THEN Append(found[n - 1], Words[n])
                      ELSE found[n - 1]
           Fits(w) == w \in Range(Words) /\ Matches(w, c)
           M == Seq({w \in Text : Fits(w)})
           step == [k \in Nat |-> [g \in M |-> IF k \in 1..N /\ Matches(Words[k], c)
                                                 THEN Append(g, Words[k]) ELSE g]]
<1>1. N \in Nat /\ \A n \in 1..N : Words[n] \in Text /\ Words[n] \in Range(Words)
  BY CompletionAssumption DEF Text, Range
<1>2. CallCompleter(d, p) = found[N]
  BY DEF CallCompleter
<1>3. <<>> \in M
  OBVIOUS
<1>4. step \in [Nat -> [M -> M]]
  <2>1. ASSUME NEW k \in Nat, NEW g \in M PROVE step[k][g] \in M
    <3>1. CASE k \in 1..N /\ Matches(Words[k], c)
      <4>1. Words[k] \in {w \in Text : Fits(w)}
        BY <1>1, <3>1
      <4>2. Append(g, Words[k]) \in M
        BY <4>1, AppendProperties
      <4> QED BY <3>1, <4>2
    <3>2. CASE ~(k \in 1..N /\ Matches(Words[k], c))
      BY <3>2
    <3> QED BY <3>1, <3>2
  <2> HIDE DEF M
  <2>2. ASSUME NEW k \in Nat PROVE step[k] \in [M -> M]
    BY <2>1
  <2> QED BY <2>2
<1> HIDE DEF M
<1>5. PICK f \in [0..N -> M] : f[0] = <<>> /\ \A k \in 1..N : f[k] = step[k][f[k - 1]]
  <2>0. PICK m : m = M
    OBVIOUS
  <2>1. PICK first \in m : first = <<>>
    BY <1>3, <2>0
  <2>2. PICK n \in Nat : n = N
    BY <1>1
  <2>3. PICK t \in [Nat -> [m -> m]] : t = step
    BY <1>4, <2>0
  <2> HIDE DEF step, N
  <2>4. \E f \in [0..n -> m] : f[0] = first /\ \A k \in 1..n : f[k] = t[k][f[k - 1]]
    BY StepsExist
  <2> QED BY <2>0, <2>1, <2>2, <2>3, <2>4
<1>6. \A k \in 1..N : f[k] = IF Matches(Words[k], c) THEN Append(f[k - 1], Words[k]) ELSE f[k - 1]
  <2>1. ASSUME NEW k \in 1..N
        PROVE  f[k] = IF Matches(Words[k], c) THEN Append(f[k - 1], Words[k]) ELSE f[k - 1]
    <3>1. k - 1 \in 0..N /\ k \in Nat
      BY <1>1
    <3>2. f[k - 1] \in M
      BY <3>1
    <3> QED BY <1>5, <3>1, <3>2
  <2> QED BY <2>1
<1>7. f = [n \in 0..N |-> e(f, n)]
  <2>1. ASSUME NEW n \in 0..N PROVE f[n] = e(f, n)
    <3>1. CASE n = 0
      BY <1>5, <3>1
    <3>2. CASE n # 0
      <4>1. n \in 1..N
        BY <3>2
      <4> QED BY <1>6, <3>2, <4>1
    <3> QED BY <3>1, <3>2
  <2> HIDE DEF e
  <2> QED BY <2>1
<1>8. found = [n \in 0..N |-> e(found, n)]
  <2>1. \E g : g = [n \in 0..N |-> e(g, n)]
    BY <1>7
  <2> QED BY <2>1
<1> HIDE DEF found
<1>9. \A n \in 0..N : found[n] \in M /\ Len(found[n]) <= n
  <2> DEFINE P == {n \in Nat : n <= N => found[n] \in M /\ Len(found[n]) <= n}
  <2>1. 0 \in P
    <3>1. found[0] = <<>>
      BY <1>1, <1>8
    <3> QED BY <1>3, <3>1
  <2>2. ASSUME NEW n \in Nat, n \in P PROVE n + 1 \in P
    <3>1. CASE n + 1 <= N
      <4>1. /\ n + 1 \in 0..N /\ n + 1 # 0 /\ n + 1 - 1 = n /\ n + 1 \in 1..N
            /\ found[n] \in M /\ Len(found[n]) <= n
        BY <1>1, <2>2, <3>1
      <4>2. found[n + 1] = IF Matches(Words[n + 1], c) THEN Append(found[n], Words[n + 1])
                           ELSE found[n]
        <5> HIDE DEF e, N
        <5>1. found[n + 1] = e(found, n + 1)
          BY <1>8, <4>1
        <5> QED BY <4>1, <5>1 DEF e
      <4>3. CASE Matches(Words[n + 1], c)
        <5>1. Words[n + 1] \in {w \in Text : Fits(w)}
          BY <1>1, <4>1, <4>3
        <5>2. /\ Append(found[n], Words[n + 1]) \in M
              /\ Len(Append(found[n], Words[n + 1])) = Len(found[n]) + 1
              /\ Len(found[n]) \in Nat
          BY <4>1, <5>1, AppendProperties DEF M
        <5>3. found[n + 1] \in M /\ Len(found[n + 1]) <= n + 1
          BY <4>1, <4>2, <4>3, <5>2
        <5> QED BY <5>3
      <4>4. CASE ~Matches(Words[n + 1], c)
        <5>1. Len(found[n]) \in Nat
          BY <4>1 DEF M
        <5> QED BY <4>1, <4>2, <4>4, <5>1
      <4> QED BY <4>3, <4>4
    <3>2. CASE ~(n + 1 <= N)
      BY <3>2
    <3> QED BY <3>1, <3>2
  <2> HIDE DEF P
  <2>3. Nat \subseteq P
    BY <2>1, <2>2, Successors
  <2>4. \A n \in 0..N : n \in Nat /\ n <= N
    BY <1>1
  <2> QED BY <2>3, <2>4 DEF P
<1>10. found[N] \in M /\ Len(found[N]) <= N
  BY <1>1, <1>9
<1>11. PICK g : g = found[N]
  OBVIOUS
<1>12. g \in Seq({w \in Text : Fits(w)}) /\ Len(g) <= N
  BY <1>10, <1>11 DEF M
<1>13. g \in Seq(Text) /\ \A i \in 1..Len(g) : g[i] \in {w \in Text : Fits(w)}
  BY <1>12
<1> QED BY <1>2, <1>11, <1>12, <1>13
-----------------------------------------------------------------------------
(* What the completions have in common.                                     *)

\* Characters that are the same are the same when their case is ignored, too, and
\* a character in lower case is the same as the character.
LEMMA FoldedIs ==
  ASSUME NEW b \in Nat, NEW c \in Nat
  PROVE  /\ \A one, other \in BOOLEAN :
              (one => other) /\ Folded(b, one) = Folded(c, one) => Folded(b, other) = Folded(c, other)
         /\ Lower(c) \in Nat /\ Folded(Lower(c), TRUE) = Folded(c, TRUE)
BY DEF Folded, Lower

\* In lower case.
LEMMA LowerAllIs ==
  ASSUME NEW a \in Text
  PROVE  /\ LowerAll(a) \in Text /\ Len(LowerAll(a)) = Len(a)
         /\ \A i \in 1..Len(a) : LowerAll(a)[i] = Lower(a[i])
<1>1. /\ Len(a) \in Nat /\ DOMAIN a = 1..Len(a)
      /\ LowerAll(a) = [i \in 1..Len(a) |-> Lower(a[i])]
  BY DEF Text, LowerAll
<1>2. \A i \in 1..Len(a) : Lower(a[i]) \in Nat
  <2>1. \A c \in Nat : Lower(c) \in Nat
    BY FoldedIs
  <2>2. \A i \in 1..Len(a) : a[i] \in Nat
    BY DEF Text
  <2> QED BY <2>1, <2>2
<1>3. [i \in 1..Len(a) |-> Lower(a[i])] \in [1..Len(a) -> Nat]
  BY <1>2
<1> QED BY <1>1, <1>3 DEF Text

\* Nothing and all of a text.
LEMMA WholeIs ==
  ASSUME NEW a \in Text
  PROVE  SubSeq(a, 1, 0) = <<>> /\ SubSeq(a, 1, Len(a)) = a
BY DEF Text

\* The common prefix is that of all of the words.
LEMMA CommonPrefixIs ==
  ASSUME NEW words \in Seq(Text), words # <<>>, NEW ignoreCase \in BOOLEAN
  PROVE  /\ CommonPrefixLength(words, ignoreCase) \in 0..Len(words[1])
         /\ \A i \in 1..Len(words) :
              /\ CommonPrefixLength(words, ignoreCase) <= Len(words[i])
              /\ \A j \in 1..CommonPrefixLength(words, ignoreCase) :
                   Folded(words[i][j], ignoreCase) = Folded(words[1][j], ignoreCase)
<1> DEFINE Common(n) == \A i \in DOMAIN words :
                          /\ n <= Len(words[i])
                          /\ Same(SubSeq(words[i], 1, n), SubSeq(words[1], 1, n), ignoreCase)
           S == {n \in 0..Len(words[1]) : Common(n)}
<1>1. /\ DOMAIN words = 1..Len(words) /\ 1 \in 1..Len(words)
      /\ \A i \in 1..Len(words) : words[i] \in Text /\ Len(words[i]) \in Nat
  <2>1. \A w \in Text : Len(w) \in Nat
    BY DEF Text
  <2> QED BY <2>1
<1>2. 0 \in S
  <2>1. ASSUME NEW i \in DOMAIN words
        PROVE  Same(SubSeq(words[i], 1, 0), SubSeq(words[1], 1, 0), ignoreCase)
    <3>1. SubSeq(words[i], 1, 0) = <<>> /\ SubSeq(words[1], 1, 0) = <<>>
      BY <1>1, WholeIs
    <3> QED BY <3>1 DEF Same
  <2>2. Common(0)
    BY <1>1, <2>1
  <2> HIDE DEF Common
  <2> QED BY <1>1, <2>2
<1>3. S \subseteq Int /\ \A x \in S : x <= Len(words[1])
  BY <1>1
<1>4. \A n \in S : n \in 0..Len(words[1]) /\ Common(n)
  OBVIOUS
<1> HIDE DEF S
<1>5. Max(S) \in S
  <2>1. PICK b \in Int : b = Len(words[1])
    BY <1>1
  <2> QED BY <1>2, <1>3, <2>1, MaxIsGreatest
<1>6. CommonPrefixLength(words, ignoreCase) = Max(S)
  BY DEF CommonPrefixLength, S
<1>7. PICK n \in 0..Len(words[1]) : n = CommonPrefixLength(words, ignoreCase) /\ Common(n)
  BY <1>4, <1>5, <1>6
<1>8. ASSUME NEW i \in 1..Len(words)
      PROVE  /\ n <= Len(words[i])
             /\ \A j \in 1..n : Folded(words[i][j], ignoreCase) = Folded(words[1][j], ignoreCase)
  <2>1. n <= Len(words[i]) /\ Same(SubSeq(words[i], 1, n), SubSeq(words[1], 1, n), ignoreCase)
    BY <1>1, <1>7
  <2>2. PICK v \in Text, w \in Text : v = words[i] /\ w = words[1]
    BY <1>1
  <2>3. n \in Nat /\ n <= Len(v) /\ n <= Len(w) /\ Len(v) \in Nat /\ Len(w) \in Nat
    BY <1>1, <2>1, <2>2
  <2>4. 1 \in 1..(Len(v) + 1) /\ n \in (1 - 1)..Len(v) /\ n - 1 + 1 = n
    BY <2>3
  <2>5. 1 \in 1..(Len(w) + 1) /\ n \in (1 - 1)..Len(w)
    BY <2>3
  <2>6. /\ SubSeq(v, 1, n) \in Text /\ Len(SubSeq(v, 1, n)) = n
        /\ \A j \in 1..n : SubSeq(v, 1, n)[j] = v[1 + j - 1]
    BY <2>4, PartIs
  <2>7. /\ SubSeq(w, 1, n) \in Text
        /\ \A j \in 1..n : SubSeq(w, 1, n)[j] = w[1 + j - 1]
    BY <2>4, <2>5, PartIs
  <2>8. \A j \in 1..n : Folded(SubSeq(v, 1, n)[j], ignoreCase) = Folded(SubSeq(w, 1, n)[j], ignoreCase)
    <3>1. PICK a \in Text, b \in Text : a = SubSeq(v, 1, n) /\ b = SubSeq(w, 1, n)
      BY <2>6, <2>7
    <3>2. Same(a, b, ignoreCase) /\ Len(a) = n
      BY <2>1, <2>2, <2>6, <3>1
    <3>3. \A j \in 1..Len(a) : Folded(a[j], ignoreCase) = Folded(b[j], ignoreCase)
      BY <3>2, SameIs
    <3> QED BY <3>1, <3>2, <3>3
  <2>9. \A j \in 1..n : 1 + j - 1 = j
    OBVIOUS
  <2> QED BY <2>1, <2>2, <2>6, <2>7, <2>8, <2>9
<1> QED BY <1>7, <1>8

\* The least word is one of the words.
LEMMA LeastIs ==
  ASSUME NEW words
  PROVE  words \in Seq(Text) /\ words # <<>> => \E i \in 1..Len(words) : Least(words) = words[i]
<1>0. SUFFICES ASSUME words \in Seq(Text), words # <<>>
               PROVE  \E i \in 1..Len(words) : Least(words) = words[i]
  OBVIOUS
<1> DEFINE N == Len(words)
           M == {words[i] : i \in 1..N}
           e(f, n) == IF n > 1 /\ ~Less(words[n], f[n - 1]) THEN f[n - 1] ELSE words[n]
           least[n \in 1..N] == IF n > 1 /\ ~Less(words[n], least[n - 1]) THEN least[n - 1]
                                ELSE words[n]
           step == [k \in Nat |-> [w \in M |-> IF k + 1 \in 2..N /\ Less(words[k + 1], w)
                                                 THEN words[k + 1] ELSE w]]
<1>1. N \in Nat /\ 1 \in 1..N
  BY <1>0
<1>2. Least(words) = least[N]
  BY DEF Least
<1>3. step \in [Nat -> [M -> M]]
  <2>1. ASSUME NEW k \in Nat, NEW w \in M PROVE step[k][w] \in M
    BY <1>1
  <2> HIDE DEF M
  <2>2. ASSUME NEW k \in Nat PROVE step[k] \in [M -> M]
    BY <2>1
  <2> QED BY <2>2
<1>4. words[1] \in M /\ \A n \in 1..N : words[n] \in M
  BY <1>1
<1>5. \A w \in M : \E i \in 1..N : w = words[i]
  OBVIOUS
<1> HIDE DEF M
<1>6. PICK f \in [0..(N - 1) -> M] :
        f[0] = words[1] /\ \A k \in 1..(N - 1) : f[k] = step[k][f[k - 1]]
  <2>0. PICK m : m = M
    OBVIOUS
  <2>1. PICK first \in m : first = words[1]
    BY <1>4, <2>0
  <2>2. PICK n \in Nat : n = N - 1
    BY <1>1
  <2>3. PICK t \in [Nat -> [m -> m]] : t = step
    BY <1>3, <2>0
  <2> HIDE DEF step, N, least, e
  <2>4. \E f \in [0..n -> m] : f[0] = first /\ \A k \in 1..n : f[k] = t[k][f[k - 1]]
    BY StepsExist
  <2> QED BY <2>0, <2>1, <2>2, <2>3, <2>4
<1> DEFINE g == [n \in 1..N |-> f[n - 1]]
<1>7. \A n \in 1..N : g[n] \in M
  BY <1>1, <1>6
<1>8. g = [n \in 1..N |-> e(g, n)]
  <2>1. ASSUME NEW n \in 1..N PROVE g[n] = e(g, n)
    <3>1. CASE n = 1
      <4>1. g[n] = words[1]
        BY <1>1, <1>6, <3>1
      <4> HIDE DEF g
      <4> QED BY <3>1, <4>1
    <3>2. CASE n # 1
      <4>1. /\ n - 1 \in 1..(N - 1) /\ n - 1 \in Nat /\ n - 1 - 1 \in 0..(N - 1)
            /\ n - 1 + 1 \in 2..N /\ n - 1 + 1 = n /\ n > 1 /\ n - 1 \in 1..N
        BY <1>1, <3>2
      <4>2. g[n] = f[n - 1] /\ g[n - 1] = f[n - 1 - 1]
        BY <4>1
      <4>3. f[n - 1] = step[n - 1][f[n - 1 - 1]] /\ f[n - 1 - 1] \in M
        BY <1>6, <4>1
      <4>4. f[n - 1] = IF Less(words[n], f[n - 1 - 1]) THEN words[n] ELSE f[n - 1 - 1]
        BY <4>1, <4>3
      <4> HIDE DEF g
      <4> QED BY <4>1, <4>2, <4>4
    <3> QED BY <3>1, <3>2
  <2>2. g = [n \in 1..N |-> g[n]]
    OBVIOUS
  <2> HIDE DEF e, g
  <2> QED BY <2>1, <2>2
<1>9. least = [n \in 1..N |-> e(least, n)]
  <2>1. \E h : h = [n \in 1..N |-> e(h, n)]
    <3> HIDE DEF g, e
    <3> QED BY <1>8
  <2> QED BY <2>1
<1> HIDE DEF least, g
<1>10. \A n \in 1..N : least[n] \in M
  <2> DEFINE P == {n \in Nat : n + 1 <= N => least[n + 1] \in M}
  <2>1. 0 \in P
    <3>1. least[1] = words[1]
      BY <1>1, <1>9
    <3> QED BY <1>4, <3>1
  <2>2. ASSUME NEW n \in Nat, n \in P PROVE n + 1 \in P
    <3>1. CASE n + 1 + 1 <= N
      <4>1. /\ n + 1 + 1 \in 1..N /\ n + 1 + 1 - 1 = n + 1 /\ least[n + 1] \in M
        BY <1>1, <2>2, <3>1
      <4>2. least[n + 1 + 1] = e(least, n + 1 + 1)
        <5> HIDE DEF e, N
        <5> QED BY <1>9, <4>1
      <4>3. least[n + 1 + 1] \in M
        BY <1>4, <4>1, <4>2
      <4> QED BY <4>3
    <3>2. CASE ~(n + 1 + 1 <= N)
      BY <3>2
    <3> QED BY <3>1, <3>2
  <2> HIDE DEF P
  <2>3. Nat \subseteq P
    BY <2>1, <2>2, Successors
  <2>4. ASSUME NEW n \in 1..N PROVE least[n] \in M
    <3>1. n - 1 \in Nat /\ n - 1 + 1 = n /\ n <= N
      BY <1>1
    <3> QED BY <2>3, <3>1 DEF P
  <2> QED BY <2>4
<1>11. least[N] \in M
  BY <1>1, <1>10
<1> QED BY <1>2, <1>5, <1>11
-----------------------------------------------------------------------------
(* The line.                                                                *)

Lines ==
  [data : Text, pos : Nat, completions : Seq(Text), selection : Int,
   contextLength : Nat, hintSelection : Int]

\* A line with its cursor in it.
Well(s) == s \in Lines /\ s.pos <= Len(s.data)

\* The rest of s is that of other.
SameRest(s, other) ==
  /\ s.completions = other.completions /\ s.selection = other.selection
  /\ s.contextLength = other.contextLength

\* The two sides of the cursor.
LEMMA SidesAre ==
  ASSUME NEW d \in Text, NEW l \in Nat, l = Len(d), NEW p \in 0..l
  PROVE  /\ SubSeq(d, 1, p) \in Text /\ Len(SubSeq(d, 1, p)) = p
         /\ \A i \in 1..p : SubSeq(d, 1, p)[i] = d[i]
         /\ SubSeq(d, p + 1, Len(d)) \in Text /\ Len(SubSeq(d, p + 1, Len(d))) = l - p
         /\ \A i \in 1..(l - p) : SubSeq(d, p + 1, Len(d))[i] = d[p + i]
<1>1. PICK m \in Nat : m = p + 1
  OBVIOUS
<1>2. 1 \in 1..(l + 1) /\ p \in (1 - 1)..l /\ p - 1 + 1 = p /\ \A i \in 1..p : 1 + i - 1 = i
  OBVIOUS
<1>3. /\ m \in 1..(l + 1) /\ l \in (m - 1)..l /\ l - m + 1 = l - p
      /\ \A i \in 1..(l - p) : m + i - 1 = p + i
  BY <1>1
<1>4. /\ SubSeq(d, 1, p) \in Text /\ Len(SubSeq(d, 1, p)) = p - 1 + 1
      /\ \A i \in 1..(p - 1 + 1) : SubSeq(d, 1, p)[i] = d[1 + i - 1]
  BY <1>2, PartIs
<1>5. /\ SubSeq(d, m, l) \in Text /\ Len(SubSeq(d, m, l)) = l - m + 1
      /\ \A i \in 1..(l - m + 1) : SubSeq(d, m, l)[i] = d[m + i - 1]
  BY <1>3, PartIs
<1> QED BY <1>1, <1>2, <1>3, <1>4, <1>5

\* A text with another one in place of what is behind q, up to p.
Spliced(d, q, p, text) == SubSeq(d, 1, q) \o text \o SubSeq(d, p + 1, Len(d))

\* What stands in it then.
LEMMA SplicedIs ==
  ASSUME NEW d \in Text, NEW p \in 0..Len(d), NEW q \in 0..p, NEW text \in Text
  PROVE  /\ Spliced(d, q, p, text) \in Text
         /\ Len(Spliced(d, q, p, text)) = Len(d) - p + q + Len(text)
         /\ \A i \in 1..q : Spliced(d, q, p, text)[i] = d[i]
         /\ \A i \in 1..Len(text) : Spliced(d, q, p, text)[q + i] = text[i]
         /\ \A i \in 1..(Len(d) - p) : Spliced(d, q, p, text)[q + Len(text) + i] = d[p + i]
<1>0. PICK l \in Nat, t \in Nat : l = Len(d) /\ t = Len(text)
  BY DEF Text
<1> DEFINE e == Spliced(d, q, p, text)
<1>1. PICK a \in Text : a = SubSeq(d, 1, q) /\ Len(a) = q /\ \A i \in 1..q : a[i] = d[i]
  <2>1. q \in 0..l
    BY <1>0
  <2> QED BY <1>0, <2>1, SidesAre
<1>2. PICK c \in Text : /\ c = SubSeq(d, p + 1, Len(d)) /\ Len(c) = l - p
                        /\ \A i \in 1..(l - p) : c[i] = d[p + i]
  BY <1>0, SidesAre
<1>3. /\ a \o text \o c \in Text /\ Len(a \o text \o c) = Len(a) + Len(text) + Len(c)
      /\ \A i \in 1..Len(a) : (a \o text \o c)[i] = a[i]
      /\ \A i \in 1..Len(text) : (a \o text \o c)[Len(a) + i] = text[i]
      /\ \A i \in 1..Len(c) : (a \o text \o c)[Len(a) + Len(text) + i] = c[i]
  BY PiecesAre
<1>4. e = a \o text \o c
  BY <1>1, <1>2 DEF Spliced
<1> HIDE DEF e
<1>5. q + t + (l - p) = l - p + q + t
  BY <1>0
<1>6. e \in Text /\ Len(e) = l - p + q + t
  BY <1>0, <1>1, <1>2, <1>3, <1>4, <1>5
<1>7. \A i \in 1..q : e[i] = d[i]
  BY <1>0, <1>1, <1>3, <1>4
<1>8. \A i \in 1..t : e[q + i] = text[i]
  BY <1>0, <1>1, <1>3, <1>4
<1>9. \A i \in 1..(l - p) : e[q + t + i] = d[p + i]
  <2>1. \A i \in 1..Len(c) : e[Len(a) + Len(text) + i] = c[i]
    BY <1>3, <1>4
  <2> QED BY <1>0, <1>1, <1>2, <2>1
<1> QED BY <1>0, <1>6, <1>7, <1>8, <1>9 DEF e

\* r is s with the text instead of the n characters before the cursor.
Takes(r, s, n, text) ==
  /\ Well(r) /\ r.pos = s.pos - n + Len(text) /\ SameRest(r, s)
  /\ r.hintSelection = s.hintSelection
  /\ Len(r.data) = Len(s.data) - n + Len(text)
  /\ \A i \in 1..(s.pos - n) : r.data[i] = s.data[i]
  /\ \A i \in 1..Len(text) : r.data[s.pos - n + i] = text[i]
  /\ \A i \in 1..(Len(s.data) - s.pos) : r.data[s.pos - n + Len(text) + i] = s.data[s.pos + i]

\* So it is after they are replaced.
LEMMA ReplacedIs ==
  ASSUME NEW s, Well(s), NEW n \in Nat, n <= s.pos, NEW text \in Text
  PROVE  Takes(Replaced(s, n, text), s, n, text)
<1>1. /\ s \in Lines /\ s.data \in Text /\ s.pos \in Nat /\ s.pos <= Len(s.data)
      /\ Len(s.data) \in Nat /\ Len(text) \in Nat
  BY DEF Well, Lines, Text
<1>2. PICK l \in Nat, p \in Nat, t \in Nat :
        p = s.pos /\ l = Len(s.data) /\ t = Len(text) /\ p \in 0..l
  BY <1>1
<1>3. PICK q \in 0..p : q = p - n
  BY <1>2
<1>4. PICK d \in Text : d = s.data
  BY <1>1
<1>5. PICK e : e = Spliced(d, q, p, text)
  OBVIOUS
<1>6. /\ e \in Text /\ Len(e) = l - p + q + t
      /\ \A i \in 1..q : e[i] = d[i]
      /\ \A i \in 1..t : e[q + i] = text[i]
      /\ \A i \in 1..(l - p) : e[q + t + i] = d[p + i]
  <2>1. l = Len(d) /\ p \in 0..l
    BY <1>2, <1>4
  <2>2. t = Len(text)
    BY <1>2
  <2>3. q \in 0..p
    OBVIOUS
  <2> QED BY <1>5, <2>1, <2>2, <2>3, SplicedIs
<1>7. q + t \in Nat /\ q + t <= l - p + q + t /\ l - p + q + t = l - n + t
  <2>1. n \in Int /\ q = p - n /\ q \in Nat /\ l - p \in Nat
    BY <1>1, <1>2, <1>3
  <2> QED BY <2>1
<1>8. Replaced(s, n, text) = [s EXCEPT !.data = e, !.pos = q + t]
  BY <1>2, <1>3, <1>4, <1>5 DEF Replaced, Spliced
<1>9. PICK r \in Lines :
        /\ r = Replaced(s, n, text) /\ r.data = e /\ r.pos = q + t
        /\ r.completions = s.completions /\ r.selection = s.selection
        /\ r.contextLength = s.contextLength /\ r.hintSelection = s.hintSelection
  BY <1>1, <1>6, <1>7, <1>8 DEF Lines
<1> QED BY <1>2, <1>3, <1>4, <1>6, <1>7, <1>9 DEF Takes, Well, SameRest

\* Refreshing the line changes nothing of it but the selected hint.
LEMMA RefreshedIs ==
  ASSUME NEW s, Well(s)
  PROVE  LET r == Refreshed(s)
         IN /\ Well(r) /\ r.data = s.data /\ r.pos = s.pos /\ SameRest(r, s)
            /\ r.hintSelection = IF s.pos = Len(s.data) THEN -1 ELSE s.hintSelection
BY DEF Well, Lines, Refreshed, AtEnd, SameRest

\* Reset forgets the completions.
LEMMA ResetIs ==
  ASSUME NEW s, Well(s)
  PROVE  LET r == Reset(s)
         IN /\ Well(r) /\ r.data = s.data /\ r.pos = s.pos /\ r.completions = <<>>
            /\ r.selection = -1 /\ r.hintSelection = s.hintSelection
<1>1. <<>> \in Seq(Text) /\ -1 \in Int /\ 0 \in Nat
  BY EmptySeq
<1> QED BY <1>1 DEF Well, Lines, Reset
-----------------------------------------------------------------------------
(* What do_complete_line() makes of the line.                               *)

\* w goes on from the n characters before the cursor of s.
GoesOn(w, s, n) ==
  /\ n <= Len(w)
  /\ \A j \in 1..n : Folded(w[j], options.ignoreCase) = Folded(s.data[s.pos - n + j], options.ignoreCase)

\* The completions of s are words that go on from its context.
Anchored(s) ==
  /\ Well(s) /\ s.contextLength <= s.pos
  /\ \A i \in 1..Len(s.completions) :
       s.completions[i] \in Range(Words) /\ GoesOn(s.completions[i], s, s.contextLength)

\* Every word fits in place of the n characters.
Room(s, n) == \A w \in Range(Words) : Len(s.data) - n + Len(w) <= MaxLen

\* The options say whether the case is ignored.
LEMMA OptionsAre ==
  ASSUME options \in OptionVals
  PROVE  options.ignoreCase \in BOOLEAN
BY CompletionAssumption DEF AllOptions

\* The words are texts.
LEMMA WordsAre ==
  ASSUME NEW w \in Range(Words)
  PROVE  w \in Text /\ Len(w) \in Nat
BY CompletionAssumption DEF Range, Text

\* The completer's words go on from the context.
LEMMA CalledIs ==
  ASSUME NEW s, Well(s), options \in OptionVals
  PROVE  LET c == Called(s)
         IN /\ Anchored(c) /\ c.data = s.data /\ c.pos = s.pos /\ c.hintSelection = s.hintSelection
            /\ c.selection = -1 /\ c.contextLength = ContextLength(s.data, s.pos)
            /\ c.completions = CallCompleter(s.data, s.pos)
<1>1. /\ s \in Lines /\ s.data \in Text /\ s.pos \in Nat /\ s.pos <= Len(s.data)
      /\ Len(s.data) \in Nat
  BY DEF Well, Lines, Text
<1>2. PICK d \in Text, p \in 0..Len(s.data) : d = s.data /\ p = s.pos
  BY <1>1
<1>3. PICK n \in 0..p : n = ContextLength(d, p)
  BY <1>2, ContextIs
<1>4. PICK context \in Text :
        /\ context = Context(d, p) /\ Len(context) = n
        /\ \A i \in 1..n : context[i] = d[p - n + i]
  BY <1>2, <1>3, ContextIs
<1>5. PICK found \in Seq(Text) :
        /\ found = CallCompleter(d, p)
        /\ \A i \in 1..Len(found) : found[i] \in Range(Words) /\ Matches(found[i], context)
  BY <1>4, CallCompleterIs
<1>6. Called(s) = [s EXCEPT !.completions = found, !.selection = -1, !.contextLength = n]
  BY <1>2, <1>3, <1>5 DEF Called
<1>7. PICK c \in Lines :
        /\ c = Called(s) /\ c.data = d /\ c.pos = p /\ c.hintSelection = s.hintSelection
        /\ c.selection = -1 /\ c.contextLength = n /\ c.completions = found
  <2>1. n \in Nat /\ -1 \in Int
    BY <1>1, <1>2
  <2> QED BY <1>1, <1>2, <1>6, <2>1 DEF Lines
<1>8. ASSUME NEW i \in 1..Len(found) PROVE GoesOn(found[i], c, n)
  <2>1. PICK w \in Text : w = found[i] /\ w \in Range(Words) /\ Matches(w, context)
    BY <1>5, WordsAre
  <2>2. n <= Len(w) /\ Same(SubSeq(w, 1, n), context, options.ignoreCase) /\ Len(w) \in Nat
    BY <1>4, <2>1, WordsAre DEF Matches
  <2>3. n \in 0..Len(w)
    BY <2>2
  <2>4. PICK a \in Text : a = SubSeq(w, 1, n) /\ Len(a) = n /\ \A j \in 1..n : a[j] = w[j]
    BY <2>2, <2>3, SidesAre
  <2>5. \A j \in 1..n : Folded(a[j], options.ignoreCase) = Folded(context[j], options.ignoreCase)
    <3>1. PICK ignoreCase \in BOOLEAN : ignoreCase = options.ignoreCase
      BY OptionsAre
    <3>2. Same(a, context, ignoreCase)
      BY <2>2, <2>4, <3>1
    <3>3. \A j \in 1..Len(a) : Folded(a[j], ignoreCase) = Folded(context[j], ignoreCase)
      BY <3>2, SameIs
    <3> QED BY <2>4, <3>1, <3>3
  <2> QED BY <1>2, <1>4, <1>7, <2>1, <2>2, <2>4, <2>5 DEF GoesOn
<1>9. Well(c)
  BY <1>1, <1>2, <1>7 DEF Well
<1>10. Anchored(c)
  BY <1>5, <1>7, <1>8, <1>9 DEF Anchored
<1> QED BY <1>2, <1>3, <1>5, <1>7, <1>10
\* The text begins like w.
Begins(text, w) ==
  /\ Len(text) <= Len(w)
  /\ \A j \in 1..Len(text) : Folded(w[j], options.ignoreCase) = Folded(text[j], options.ignoreCase)

\* A text begins like itself.
LEMMA BeginsItself ==
  ASSUME NEW w \in Text
  PROVE  Begins(w, w)
<1>1. Len(w) \in Nat
  BY DEF Text
<1> QED BY <1>1 DEF Begins

\* When there is one word to consider it is the text.
LEMMA OneText ==
  ASSUME NEW c, Anchored(c), options \in OptionVals, c.completions # <<>>,
         c.hintSelection \in -1..(Len(c.completions) - 1), Len(Considered(c)) = 1
  PROVE  \E k \in 1..Len(c.completions) :
           /\ Considered(c) = <<c.completions[k]>>
           /\ c.hintSelection = -1 => \A i \in 1..Len(c.completions) : i = k
<1>1. c.completions \in Seq(Text) /\ Len(c.completions) \in Nat
  BY DEF Anchored, Well, Lines
<1>2. CASE ChosenByHint(c)
  BY <1>1, <1>2 DEF ChosenByHint, Considered
<1>3. CASE ~ChosenByHint(c)
  <2>1. Len(c.completions) = 1 /\ Considered(c) = c.completions
    BY <1>3 DEF Considered
  <2>2. c.completions = <<c.completions[1]>>
    BY <1>1, <2>1
  <2>3. 1 \in 1..Len(c.completions) /\ \A i \in 1..Len(c.completions) : i = 1
    BY <2>1
  <2> QED BY <2>1, <2>2, <2>3
<1> QED BY <1>2, <1>3

\* Otherwise all of the completions are considered.
LEMMA ManyTexts ==
  ASSUME NEW c, Len(Considered(c)) # 1
  PROVE  Considered(c) = c.completions
BY DEF Considered

\* What the word is extended to, the text that all of the completions begin with.
LEMMA ExtendedIs ==
  ASSUME NEW c, Anchored(c), options \in OptionVals, Extends(c),
         c.hintSelection \in -1..(Len(c.completions) - 1)
  PROVE  \E text \in Text :
           /\ Extended(c) =
                Refreshed([Replaced(c, c.contextLength, text) EXCEPT !.contextLength = Len(text)])
           /\ \E w \in Range(Words) : Len(text) <= Len(w)
           /\ c.hintSelection = -1 =>
                \A i \in 1..Len(c.completions) : Begins(text, c.completions[i])
<1>1. /\ c.completions \in Seq(Text) /\ Len(c.completions) \in Nat /\ c.completions # <<>>
      /\ \A i \in 1..Len(c.completions) :
           c.completions[i] \in Range(Words) /\ c.completions[i] \in Text
  BY DEF Anchored, Well, Lines, Extends
<1> DEFINE candidate == IF options.ignoreCase /\ c.hintSelection = -1 THEN Least(Considered(c))
                        ELSE Considered(c)[1]
           prefix == SubSeq(candidate, 1, CommonLength(c))
           text == IF options.ignoreCase /\ Len(Considered(c)) > 1 THEN LowerAll(prefix) ELSE prefix
<1>2. Extended(c) =
        Refreshed([Replaced(c, c.contextLength, text) EXCEPT !.contextLength = CommonLength(c)])
  BY DEF Extended
<1>3. CASE Len(Considered(c)) = 1
  <2>1. PICK k \in 1..Len(c.completions) :
          /\ Considered(c) = <<c.completions[k]>>
          /\ c.hintSelection = -1 => \A i \in 1..Len(c.completions) : i = k
    BY <1>1, <1>3, OneText
  <2>2. PICK w \in Text : w = c.completions[k] /\ w \in Range(Words)
    BY <1>1
  <2>3. Considered(c) = <<w>> /\ <<w>> \in Seq(Text) /\ <<w>> # <<>> /\ <<w>>[1] = w /\ Len(<<w>>) = 1
    BY <2>1, <2>2
  <2>4. Least(<<w>>) = w
    <3>1. PICK words \in Seq(Text) : words = <<w>> /\ words # <<>>
      BY <2>3
    <3>2. \E i \in 1..Len(words) : Least(words) = words[i]
      BY <3>1, LeastIs
    <3> QED BY <2>3, <3>1, <3>2
  <2>5. candidate = w /\ CommonLength(c) = Len(w)
    BY <2>3, <2>4 DEF CommonLength
  <2>6. text = w
    <3>1. prefix = w
      BY <2>5, WholeIs
    <3> QED BY <1>3, <3>1
  <2>7. Len(w) <= Len(w) /\ Begins(w, w)
    <3>1. Len(w) \in Nat
      BY DEF Text
    <3> QED BY <3>1, BeginsItself
  <2> HIDE DEF text
  <2>8. c.hintSelection = -1 => \A i \in 1..Len(c.completions) : Begins(w, c.completions[i])
    BY <2>1, <2>2, <2>7
  <2> QED BY <1>2, <2>2, <2>5, <2>6, <2>7, <2>8
<1>4. CASE Len(Considered(c)) # 1
  <2>1. PICK words \in Seq(Text) :
          words = c.completions /\ words # <<>> /\ Considered(c) = words /\ Len(words) \in Nat
    BY <1>1, <1>4, ManyTexts
  <2>2. PICK one \in BOOLEAN, ignoreCase \in BOOLEAN :
          one = (~MindsCase(c)) /\ ignoreCase = options.ignoreCase /\ (one => ignoreCase)
    BY OptionsAre DEF MindsCase
  <2>3. PICK n \in 0..Len(words[1]) :
          /\ n = CommonPrefixLength(words, one)
          /\ \A i \in 1..Len(words) : n <= Len(words[i])
          /\ \A i \in 1..Len(words) : \A j \in 1..n : Folded(words[i][j], one) = Folded(words[1][j], one)
    BY <2>1, CommonPrefixIs
  <2>4. CommonLength(c) = n
    BY <1>4, <2>1, <2>2, <2>3 DEF CommonLength
  <2>5. PICK k \in 1..Len(words) : candidate = words[k]
    <3>1. \E i \in 1..Len(words) : Least(words) = words[i]
      BY <2>1, LeastIs
    <3>2. 1 \in 1..Len(words)
      BY <2>1
    <3> QED BY <2>1, <3>1, <3>2
  <2>6. PICK w \in Text : w = words[k] /\ w \in Range(Words) /\ Len(w) \in Nat /\ n <= Len(w)
    BY <1>1, <2>1, <2>3, WordsAre
  <2>7. n \in 0..Len(w)
    <3>1. n \in Int /\ 0 <= n
      <4>1. words[1] \in Text
        BY <2>1
      <4>2. Len(words[1]) \in Nat
        BY <4>1 DEF Text
      <4> QED BY <4>2
    <3> QED BY <2>6, <3>1
  <2>8. PICK a \in Text : a = prefix /\ Len(a) = n /\ \A j \in 1..n : a[j] = w[j]
    <3>1. /\ SubSeq(w, 1, n) \in Text /\ Len(SubSeq(w, 1, n)) = n
          /\ \A j \in 1..n : SubSeq(w, 1, n)[j] = w[j]
      BY <2>6, <2>7, SidesAre
    <3> QED BY <2>4, <2>5, <2>6, <3>1
  <2>9. PICK t \in Text :
          /\ t = text /\ Len(t) = n
          /\ \A j \in 1..n : Folded(t[j], ignoreCase) = Folded(w[j], ignoreCase)
    <3>1. CASE options.ignoreCase /\ Len(Considered(c)) > 1
      <4>1. text = LowerAll(a) /\ ignoreCase = TRUE
        BY <2>2, <2>8, <3>1
      <4>2. /\ LowerAll(a) \in Text /\ Len(LowerAll(a)) = n
            /\ \A j \in 1..n : LowerAll(a)[j] = Lower(w[j])
        <5>1. /\ LowerAll(a) \in Text /\ Len(LowerAll(a)) = Len(a)
              /\ \A j \in 1..Len(a) : LowerAll(a)[j] = Lower(a[j])
          BY LowerAllIs
        <5> QED BY <2>8, <5>1
      <4>3. \A j \in 1..n : w[j] \in Nat
        <5>1. \A j \in 1..n : j \in 1..Len(w)
          BY <2>6, <2>7
        <5> QED BY <5>1, CharactersAre
      <4>4. \A x \in Nat : Folded(Lower(x), TRUE) = Folded(x, TRUE)
        BY FoldedIs
      <4> QED BY <4>1, <4>2, <4>3, <4>4
    <3>2. CASE ~(options.ignoreCase /\ Len(Considered(c)) > 1)
      <4>1. text = a
        BY <2>8, <3>2
      <4> QED BY <2>8, <4>1
    <3> QED BY <3>1, <3>2
  <2> HIDE DEF text
  <2>10. ASSUME NEW i \in 1..Len(words) PROVE Begins(t, words[i])
    <3>1. ASSUME NEW j \in 1..n
          PROVE  Folded(words[i][j], ignoreCase) = Folded(t[j], ignoreCase)
      <4>1. /\ Folded(words[i][j], one) = Folded(words[1][j], one)
            /\ Folded(w[j], one) = Folded(words[1][j], one)
        BY <2>3, <2>6
      <4>2. words[i][j] \in Nat /\ w[j] \in Nat
        <5>1. PICK v \in Text : v = words[i] /\ n <= Len(v)
          BY <2>1, <2>3
        <5>2. j \in 1..Len(v) /\ j \in 1..Len(w)
          <6>1. Len(v) \in Nat /\ n \in Int
            BY <2>7 DEF Text
          <6> QED BY <2>6, <5>1, <6>1
        <5>3. v[j] \in Nat /\ w[j] \in Nat
          BY <5>2, CharactersAre
        <5> QED BY <5>1, <5>3
      <4>3. PICK x \in Nat, y \in Nat : x = words[i][j] /\ y = w[j] /\ Folded(x, one) = Folded(y, one)
        BY <4>1, <4>2
      <4>4. Folded(x, ignoreCase) = Folded(y, ignoreCase)
        BY <2>2, <4>3, FoldedIs
      <4> QED BY <2>9, <4>3, <4>4
    <3> QED BY <2>2, <2>3, <2>9, <3>1 DEF Begins
  <2>11. Len(t) <= Len(w)
    BY <2>6, <2>9
  <2> QED BY <1>2, <2>1, <2>4, <2>6, <2>9, <2>10, <2>11
<1> QED BY <1>3, <1>4
\* The selected hint is one of those that are shown, at the end of the line.
HintFits(s) ==
  /\ s.hintSelection >= -1
  /\ s.hintSelection # -1 =>
       s.pos = Len(s.data) /\ s.hintSelection < Len(CallHinter(s.data, s.pos))

\* The line with another length of the context.
LEMMA LengthIs ==
  ASSUME NEW r, Well(r), NEW n \in Nat
  PROVE  LET e == [r EXCEPT !.contextLength = n]
         IN /\ Well(e) /\ e.data = r.data /\ e.pos = r.pos /\ e.completions = r.completions
            /\ e.selection = r.selection /\ e.contextLength = n /\ e.hintSelection = r.hintSelection
BY DEF Well, Lines

\* The line after the text took the place of the context of c.
LEMMA ExtendingIs ==
  ASSUME NEW c, Well(c), c.contextLength <= c.pos, NEW text \in Text
  PROVE  \E a :
           /\ a = Refreshed([Replaced(c, c.contextLength, text) EXCEPT !.contextLength = Len(text)])
           /\ Well(a) /\ a.completions = c.completions /\ a.selection = c.selection
           /\ a.contextLength = Len(text)
           /\ a.hintSelection = IF c.pos = Len(c.data) THEN -1 ELSE c.hintSelection
           /\ a.pos = c.pos - c.contextLength + Len(text)
           /\ Len(a.data) = Len(c.data) - c.contextLength + Len(text)
           /\ \A i \in 1..Len(text) : a.data[a.pos - Len(text) + i] = text[i]
<1>1. /\ c \in Lines /\ c.contextLength \in 0..c.pos /\ Len(text) \in Nat
      /\ Len(c.data) \in Nat /\ c.pos \in Nat
  BY DEF Well, Lines, Text
<1>2. PICK r :
        /\ r = Replaced(c, c.contextLength, text) /\ Well(r) /\ SameRest(r, c)
        /\ r.hintSelection = c.hintSelection /\ r.pos = c.pos - c.contextLength + Len(text)
        /\ Len(r.data) = Len(c.data) - c.contextLength + Len(text)
        /\ \A i \in 1..Len(text) : r.data[c.pos - c.contextLength + i] = text[i]
  <2>1. PICK n \in Nat : n = c.contextLength /\ n <= c.pos
    BY <1>1
  <2>2. PICK r : r = Replaced(c, n, text)
    OBVIOUS
  <2>3. Takes(r, c, n, text)
    BY <2>1, <2>2, ReplacedIs
  <2> QED BY <2>1, <2>2, <2>3 DEF Takes
<1>3. PICK e :
        /\ e = [r EXCEPT !.contextLength = Len(text)] /\ Well(e) /\ e.data = r.data
        /\ e.pos = r.pos /\ e.completions = c.completions /\ e.selection = c.selection
        /\ e.contextLength = Len(text) /\ e.hintSelection = c.hintSelection
  <2>1. PICK n \in Nat : n = Len(text)
    BY <1>1
  <2>2. PICK e : e = [r EXCEPT !.contextLength = n]
    OBVIOUS
  <2>3. /\ Well(e) /\ e.data = r.data /\ e.pos = r.pos /\ e.completions = r.completions
        /\ e.selection = r.selection /\ e.contextLength = n /\ e.hintSelection = r.hintSelection
    BY <1>2, <2>2, LengthIs
  <2> QED BY <1>2, <2>1, <2>2, <2>3 DEF SameRest
<1>4. PICK a :
        /\ a = Refreshed(e) /\ Well(a) /\ a.data = e.data /\ a.pos = e.pos /\ SameRest(a, e)
        /\ a.hintSelection = IF e.pos = Len(e.data) THEN -1 ELSE e.hintSelection
  BY <1>3, RefreshedIs
<1>5. a.pos - Len(text) = c.pos - c.contextLength
  BY <1>1, <1>2, <1>3, <1>4
<1>6. e.pos = Len(e.data) <=> c.pos = Len(c.data)
  BY <1>1, <1>2, <1>3
<1>7. \A i \in 1..Len(text) : a.data[a.pos - Len(text) + i] = text[i]
  BY <1>2, <1>3, <1>4, <1>5
<1> QED BY <1>2, <1>3, <1>4, <1>6, <1>7 DEF SameRest

\* What do_complete_line() leaves: a line that has room, whose completions go on
\* from its context if no hint was selected.
LEMMA AttemptedIs ==
  ASSUME NEW s, Well(s), options \in OptionVals, HintFits(s), Len(s.data) <= MaxLen,
         Room(s, ContextLength(s.data, s.pos))
  PROVE  LET a == Attempted(s)
         IN /\ Well(a) /\ HintFits(a) /\ Len(a.data) <= MaxLen /\ a.selection = -1
            /\ s.hintSelection = -1 =>
                 a.hintSelection = -1 /\ Anchored(a) /\ Room(a, a.contextLength)
<1>1. PICK c :
        /\ c = Called(s) /\ Anchored(c) /\ c.data = s.data /\ c.pos = s.pos
        /\ c.hintSelection = s.hintSelection /\ c.selection = -1
        /\ c.contextLength = ContextLength(s.data, s.pos)
        /\ c.completions = CallCompleter(s.data, s.pos)
  BY CalledIs
<1>2. /\ Well(c) /\ c \in Lines /\ c.contextLength \in 0..c.pos /\ c.pos <= Len(c.data)
      /\ Len(c.data) \in Nat /\ c.pos \in Nat /\ Len(c.completions) \in Nat
      /\ c.hintSelection \in Int /\ c.contextLength \in Nat
  BY <1>1 DEF Anchored, Well, Lines, Text
<1>3. Room(c, c.contextLength) /\ HintFits(c) /\ MaxLen \in Nat
  BY <1>1, CompletionAssumption DEF Room, HintFits
<1>4. CASE Extends(c)
  <2>0. Attempted(s) = Extended(c)
    BY <1>1, <1>4 DEF Attempted
  <2>1. c.completions # <<>>
    BY <1>4 DEF Extends
  <2>2. c.hintSelection \in -1..(Len(c.completions) - 1)
    <3>1. Len(c.completions) # 0
      BY <1>2, <2>1 DEF Lines
    <3> QED BY <1>1, <1>2, <1>3, <3>1 DEF HintFits, CallHinter
  <2>3. PICK text \in Text :
          /\ Extended(c) =
               Refreshed([Replaced(c, c.contextLength, text) EXCEPT !.contextLength = Len(text)])
          /\ \E w \in Range(Words) : Len(text) <= Len(w)
          /\ c.hintSelection = -1 =>
               \A i \in 1..Len(c.completions) : Begins(text, c.completions[i])
    BY <1>1, <1>4, <2>2, ExtendedIs
  <2>4. PICK a :
          /\ a = Extended(c) /\ Well(a) /\ a.completions = c.completions /\ a.selection = c.selection
          /\ a.contextLength = Len(text)
          /\ a.hintSelection = IF c.pos = Len(c.data) THEN -1 ELSE c.hintSelection
          /\ a.pos = c.pos - c.contextLength + Len(text)
          /\ Len(a.data) = Len(c.data) - c.contextLength + Len(text)
          /\ \A i \in 1..Len(text) : a.data[a.pos - Len(text) + i] = text[i]
    BY <1>2, <2>3, ExtendingIs
  <2>5. Len(text) \in Nat
    BY DEF Text
  <2>6. Len(a.data) <= MaxLen
    <3>1. PICK w \in Range(Words) : Len(text) <= Len(w)
      BY <2>3
    <3>2. Len(w) \in Nat /\ Len(c.data) - c.contextLength + Len(w) <= MaxLen
      BY <1>3, WordsAre DEF Room
    <3> QED BY <1>2, <1>3, <2>4, <2>5, <3>1, <3>2
  <2>7. HintFits(a)
    BY <1>2, <1>3, <2>4 DEF HintFits
  <2>8. ASSUME s.hintSelection = -1 PROVE a.hintSelection = -1 /\ Anchored(a) /\ Room(a, a.contextLength)
    <3>1. a.hintSelection = -1
      BY <1>1, <2>4, <2>8
    <3>2. a.contextLength <= a.pos
      BY <1>2, <2>4, <2>5
    <3>3. ASSUME NEW i \in 1..Len(a.completions)
          PROVE  a.completions[i] \in Range(Words) /\ GoesOn(a.completions[i], a, a.contextLength)
      <4>1. a.completions[i] \in Range(Words)
        BY <1>1, <2>4 DEF Anchored
      <4>2. Begins(text, a.completions[i])
        BY <1>1, <2>3, <2>4, <2>8
      <4> QED BY <2>4, <4>1, <4>2 DEF Begins, GoesOn
    <3>4. Room(a, a.contextLength)
      <4>1. ASSUME NEW w \in Range(Words) PROVE Len(a.data) - a.contextLength + Len(w) <= MaxLen
        <5>1. Len(w) \in Nat /\ Len(c.data) - c.contextLength + Len(w) <= MaxLen
          BY <1>3, WordsAre DEF Room
        <5>2. Len(a.data) - a.contextLength = Len(c.data) - c.contextLength
          BY <1>2, <2>4, <2>5
        <5> QED BY <5>1, <5>2
      <4> QED BY <4>1 DEF Room
    <3> QED BY <2>4, <3>1, <3>2, <3>3, <3>4 DEF Anchored
  <2> QED BY <1>1, <2>0, <2>4, <2>6, <2>7, <2>8
<1>5. CASE ~Extends(c)
  <2>1. Attempted(s) = c
    BY <1>1, <1>5 DEF Attempted
  <2> QED BY <1>1, <1>2, <1>3, <2>1
<1> QED BY <1>4, <1>5
-----------------------------------------------------------------------------
(* Going through the completions.                                           *)

\* s is o with the part of the selected completion behind the context put in.
Cycled(s, o) ==
  /\ Well(s) /\ Anchored(o) /\ Room(o, o.contextLength) /\ Len(o.data) <= MaxLen
  /\ s.completions = o.completions /\ s.contextLength = o.contextLength /\ s.hintSelection = -1
  /\ s.selection \in -1..(Len(s.completions) - 1)
  /\ s.selection = -1 => s.data = o.data /\ s.pos = o.pos
  /\ s.selection # -1 =>
       /\ s.data = Spliced(o.data, o.pos, o.pos, TailOf(o, s.selection))
       /\ s.pos = o.pos + Len(TailOf(o, s.selection))

\* A line with another selection.
LEMMA SelectionIs ==
  ASSUME NEW r, Well(r), NEW n \in Int
  PROVE  LET e == [r EXCEPT !.selection = n]
         IN /\ Well(e) /\ e.data = r.data /\ e.pos = r.pos /\ e.completions = r.completions
            /\ e.selection = n /\ e.contextLength = r.contextLength
            /\ e.hintSelection = r.hintSelection
BY DEF Well, Lines

\* What of a word is behind the context.
IsTail(t, w, n) ==
  /\ w \in Range(Words) /\ w \in Text /\ n \in 0..Len(w) /\ t \in Text
  /\ Len(t) = Len(w) - n /\ \A i \in 1..Len(t) : t[i] = w[n + i]

\* The hint that is shown is such a tail.
LEMMA TailIs ==
  ASSUME NEW o, Anchored(o), NEW n \in 0..(Len(o.completions) - 1)
  PROVE  IsTail(TailOf(o, n), o.completions[n + 1], o.contextLength)
<1>1. /\ Len(o.completions) \in Nat /\ o.contextLength \in Nat
  BY DEF Anchored, Well, Lines
<1>2. n + 1 \in 1..Len(o.completions)
  BY <1>1
<1>3. PICK w \in Text : /\ w = o.completions[n + 1] /\ w \in Range(Words)
                        /\ o.contextLength <= Len(w) /\ Len(w) \in Nat
  BY <1>2, WordsAre DEF Anchored, GoesOn
<1>4. PICK k \in 0..Len(w) : k = o.contextLength
  BY <1>1, <1>3
<1>5. PICK t \in Text : /\ t = SubSeq(w, k + 1, Len(w)) /\ Len(t) = Len(w) - k
                        /\ \A i \in 1..(Len(w) - k) : t[i] = w[k + i]
  BY <1>3, SidesAre
<1>6. TailOf(o, n) = t
  BY <1>3, <1>4, <1>5 DEF TailOf
<1> QED BY <1>3, <1>4, <1>5, <1>6 DEF IsTail

\* Texts with the same characters are the same.
LEMMA TextsEqual ==
  ASSUME NEW a \in Text, NEW b \in Text, Len(a) = Len(b), \A i \in 1..Len(a) : a[i] = b[i]
  PROVE  a = b
BY SeqEqual DEF Text

\* Taking out what was put in leaves the line as it was.
LEMMA TakenOut ==
  ASSUME NEW s, Well(s), NEW d \in Text, NEW p \in 0..Len(d), NEW t \in Text,
         s.data = Spliced(d, p, p, t), s.pos = p + Len(t)
  PROVE  LET r == Replaced(s, Len(t), <<>>)
         IN /\ Well(r) /\ r.data = d /\ r.pos = p /\ SameRest(r, s)
            /\ r.hintSelection = s.hintSelection
<1>1. PICK l \in Nat, n \in Nat : l = Len(d) /\ n = Len(t) /\ p \in 0..l
  BY DEF Text
<1>2. PICK r, nothing : r = Replaced(s, n, nothing) /\ nothing = <<>>
  OBVIOUS
<1>3. nothing \in Text /\ Len(nothing) = 0
  BY <1>2, EmptySeq DEF Text
<1>4. n <= s.pos /\ s.pos = p + n
  BY <1>1
<1>5. Takes(r, s, n, nothing)
  BY <1>2, <1>3, <1>4, ReplacedIs
<1>6. PICK e \in Text :
        /\ e = s.data /\ Len(e) = l + n
        /\ \A i \in 1..p : e[i] = d[i]
        /\ \A i \in 1..(l - p) : e[p + n + i] = d[p + i]
  <2>1. PICK e : e = Spliced(d, p, p, t)
    OBVIOUS
  <2>2. p \in 0..p /\ p \in 0..Len(d) /\ l - p + p + n = l + n
    BY <1>1
  <2>3. /\ Spliced(d, p, p, t) \in Text
        /\ Len(Spliced(d, p, p, t)) = Len(d) - p + p + Len(t)
        /\ \A i \in 1..p : Spliced(d, p, p, t)[i] = d[i]
        /\ \A i \in 1..(Len(d) - p) : Spliced(d, p, p, t)[p + Len(t) + i] = d[p + i]
    BY <2>2, SplicedIs
  <2> QED BY <1>1, <2>1, <2>2, <2>3
<1>7. PICK b \in Text : b = r.data /\ Len(b) = l /\ r.pos = p
  <2>1. r.data \in Text
    BY <1>5 DEF Takes, Well, Lines
  <2> QED BY <1>1, <1>3, <1>4, <1>5, <1>6, <2>1 DEF Takes
<1>8. \A i \in 1..p : b[i] = d[i]
  BY <1>1, <1>4, <1>5, <1>6, <1>7 DEF Takes
<1>9. \A i \in 1..(l - p) : b[p + i] = d[p + i]
  <2>1. ASSUME NEW i \in 1..(l - p) PROVE b[p + i] = d[p + i]
    <3>1. i \in 1..(Len(e) - s.pos) /\ s.pos - n + 0 + i = p + i /\ s.pos + i = p + n + i
      BY <1>1, <1>4, <1>6
    <3>2. r.data[s.pos - n + Len(nothing) + i] = s.data[s.pos + i]
      BY <1>5, <1>6, <3>1 DEF Takes
    <3> QED BY <1>3, <1>6, <1>7, <3>1, <3>2
  <2> QED BY <2>1
<1>10. \A i \in 1..l : b[i] = d[i]
  <2>1. ASSUME NEW i \in 1..l, ~(i \in 1..p) PROVE b[i] = d[i]
    <3>1. PICK j \in 1..(l - p) : i = p + j
      BY <1>1, <2>1
    <3> QED BY <1>9, <3>1
  <2> QED BY <1>8, <2>1
<1>11. b = d
  BY <1>1, <1>7, <1>10, TextsEqual
<1> QED BY <1>1, <1>2, <1>5, <1>7, <1>11 DEF Takes
\* Putting a text in at the cursor.
LEMMA PutIn ==
  ASSUME NEW s, Well(s), NEW t \in Text
  PROVE  LET r == Replaced(s, 0, t)
         IN /\ Well(r) /\ r.data = Spliced(s.data, s.pos, s.pos, t) /\ r.pos = s.pos + Len(t)
            /\ SameRest(r, s) /\ r.hintSelection = s.hintSelection
<1>1. PICK r, n : r = Replaced(s, n, t) /\ n = 0 /\ n \in Nat
  OBVIOUS
<1>2. s \in Lines /\ s.pos \in Nat /\ s.data \in Text /\ n <= s.pos /\ Len(t) \in Nat
  BY <1>1 DEF Well, Lines, Text
<1>3. Takes(r, s, n, t)
  BY <1>1, <1>2, ReplacedIs
<1>4. r.data = Spliced(s.data, s.pos, s.pos, t)
  <2>1. r.data = SubSeq(s.data, 1, s.pos - 0) \o t \o SubSeq(s.data, s.pos + 1, Len(s.data))
    BY <1>1, <1>2 DEF Replaced, Lines
  <2>2. s.pos - 0 = s.pos
    BY <1>2
  <2> QED BY <2>1, <2>2 DEF Spliced
<1>5. s.pos - 0 + Len(t) = s.pos + Len(t)
  BY <1>2
<1> QED BY <1>1, <1>3, <1>4, <1>5 DEF Takes

\* Selecting puts in what the new completion has behind the context, where the line
\* was as it was at first.
LEMMA SelectedIs ==
  ASSUME NEW s, NEW o, Cycled(s, o), NEW n \in -1..(Len(s.completions) - 1)
  PROVE  Cycled(Selected(s, n), o) /\ Selected(s, n).selection = n
<1>1. /\ Well(s) /\ Anchored(o) /\ s.completions = o.completions /\ s.contextLength = o.contextLength
      /\ s.hintSelection = -1 /\ s.selection \in -1..(Len(s.completions) - 1)
      /\ \A k : TailOf(s, k) = TailOf(o, k)
  BY DEF Cycled, TailOf
<1>2. PICK d \in Text, p \in Nat : d = o.data /\ p = o.pos /\ p \in 0..Len(d)
  <2>1. o.data \in Text /\ o.pos \in Nat /\ o.pos <= Len(o.data) /\ Len(o.data) \in Nat
    BY <1>1 DEF Anchored, Well, Lines, Text
  <2> QED BY <2>1
<1>3. Len(s.completions) \in Nat
  BY <1>1 DEF Well, Lines
<1>4. \A k \in 0..(Len(s.completions) - 1) : TailOf(o, k) \in Text
  BY <1>1, TailIs DEF IsTail
<1>5. PICK old :
        /\ old = IF s.selection = -1 THEN s ELSE Replaced(s, Len(TailOf(s, s.selection)), <<>>)
        /\ Well(old) /\ old.data = d /\ old.pos = p /\ SameRest(old, s) /\ old.hintSelection = -1
  <2>1. CASE s.selection = -1
    BY <1>1, <1>2, <2>1 DEF Cycled, SameRest
  <2>2. CASE s.selection # -1
    <3>1. s.selection \in 0..(Len(s.completions) - 1)
      BY <1>1, <1>3, <2>2
    <3>2. PICK t \in Text : t = TailOf(o, s.selection)
      BY <1>4, <3>1
    <3>3. s.data = Spliced(d, p, p, t) /\ s.pos = p + Len(t)
      BY <1>2, <2>2, <3>2 DEF Cycled
    <3>4. PICK r : r = Replaced(s, Len(t), <<>>)
      OBVIOUS
    <3>5. Well(r) /\ r.data = d /\ r.pos = p /\ SameRest(r, s) /\ r.hintSelection = s.hintSelection
      BY <1>1, <1>2, <3>3, <3>4, TakenOut
    <3> QED BY <1>1, <2>2, <3>2, <3>4, <3>5
  <2> QED BY <2>1, <2>2
<1>6. PICK new :
        /\ new = IF n = -1 THEN old ELSE Replaced(old, 0, TailOf(s, n))
        /\ Well(new) /\ SameRest(new, s) /\ new.hintSelection = -1
        /\ n = -1 => new.data = d /\ new.pos = p
        /\ n # -1 => new.data = Spliced(d, p, p, TailOf(o, n)) /\ new.pos = p + Len(TailOf(o, n))
  <2>1. CASE n = -1
    BY <1>5, <2>1
  <2>2. CASE n # -1
    <3>1. n \in 0..(Len(s.completions) - 1)
      BY <1>3, <2>2
    <3>2. PICK t \in Text : t = TailOf(o, n)
      BY <1>4, <3>1
    <3>3. PICK r : r = Replaced(old, 0, t)
      OBVIOUS
    <3>4. /\ Well(r) /\ r.data = Spliced(old.data, old.pos, old.pos, t)
          /\ r.pos = old.pos + Len(t) /\ SameRest(r, old) /\ r.hintSelection = old.hintSelection
      BY <1>5, <3>3, PutIn
    <3> QED BY <1>1, <1>5, <2>2, <3>2, <3>3, <3>4 DEF SameRest
  <2> QED BY <2>1, <2>2
<1>7. PICK e :
        /\ e = [new EXCEPT !.selection = n] /\ Well(e) /\ e.data = new.data /\ e.pos = new.pos
        /\ e.completions = s.completions /\ e.selection = n /\ e.contextLength = s.contextLength
        /\ e.hintSelection = -1
  <2>1. n \in Int
    OBVIOUS
  <2>2. PICK e : e = [new EXCEPT !.selection = n]
    OBVIOUS
  <2>3. /\ Well(e) /\ e.data = new.data /\ e.pos = new.pos /\ e.completions = new.completions
        /\ e.selection = n /\ e.contextLength = new.contextLength
        /\ e.hintSelection = new.hintSelection
    BY <1>6, <2>1, <2>2, SelectionIs
  <2> QED BY <1>6, <2>2, <2>3 DEF SameRest
<1>8. PICK a :
        /\ a = Refreshed(e) /\ Well(a) /\ a.data = e.data /\ a.pos = e.pos /\ SameRest(a, e)
        /\ a.hintSelection = -1
  <2>1. PICK a : a = Refreshed(e)
    OBVIOUS
  <2>2. /\ Well(a) /\ a.data = e.data /\ a.pos = e.pos /\ SameRest(a, e)
        /\ a.hintSelection = IF e.pos = Len(e.data) THEN -1 ELSE e.hintSelection
    BY <1>7, <2>1, RefreshedIs
  <2> QED BY <1>7, <2>1, <2>2
<1>9. Selected(s, n) = a
  BY <1>5, <1>6, <1>7, <1>8 DEF Selected
<1>10. Cycled(a, o) /\ a.selection = n
  BY <1>1, <1>2, <1>6, <1>7, <1>8 DEF Cycled, SameRest
<1> QED BY <1>9, <1>10

\* A line that goes through its completions has room.
LEMMA CycledFits ==
  ASSUME NEW s, NEW o, Cycled(s, o)
  PROVE  Len(s.data) <= MaxLen /\ o.pos <= s.pos /\ s.contextLength \in 0..s.pos
<1>1. /\ Anchored(o) /\ o.data \in Text /\ o.pos \in Nat /\ o.pos <= Len(o.data)
      /\ Len(o.data) \in Nat /\ o.contextLength \in 0..o.pos /\ Len(s.completions) \in Nat
      /\ s.completions = o.completions /\ s.contextLength = o.contextLength /\ MaxLen \in Nat
      /\ s.selection \in -1..(Len(s.completions) - 1) /\ Len(o.data) <= MaxLen
  BY CompletionAssumption DEF Cycled, Anchored, Well, Lines, Text
<1>2. CASE s.selection = -1
  BY <1>1, <1>2 DEF Cycled
<1>3. CASE s.selection # -1
  <2>1. PICK k \in 0..(Len(o.completions) - 1) : k = s.selection
    BY <1>1, <1>3
  <2>2. PICK t, w : /\ t = TailOf(o, k) /\ w = o.completions[k + 1]
                    /\ IsTail(t, w, o.contextLength)
    BY <1>1, TailIs
  <2>3. /\ t \in Text /\ Len(t) = Len(w) - o.contextLength /\ w \in Range(Words)
        /\ Len(w) \in Nat /\ Len(t) \in Nat
    BY <2>2 DEF IsTail, Text
  <2>4. PICK d \in Text, p \in 0..Len(o.data) : d = o.data /\ p = o.pos
    BY <1>1
  <2>5. p \in 0..Len(d) /\ p \in 0..p
    BY <1>1, <2>4
  <2>6. s.data = Spliced(d, p, p, t) /\ s.pos = p + Len(t)
    BY <1>3, <2>1, <2>2, <2>4 DEF Cycled
  <2>7. Len(Spliced(d, p, p, t)) = Len(d) - p + p + Len(t)
    BY <2>3, <2>5, SplicedIs
  <2>8. Len(o.data) - o.contextLength + Len(w) <= MaxLen
    BY <2>3 DEF Cycled, Room
  <2>9. PICK l \in Nat, c \in Nat, u \in Nat :
          l = Len(o.data) /\ c = o.contextLength /\ u = Len(w) /\ c <= p /\ p <= l
    BY <1>1, <2>3, <2>4
  <2>10. Len(s.data) = l + (u - c) /\ s.pos = p + (u - c) /\ u - c >= 0
    BY <2>3, <2>4, <2>6, <2>7, <2>9
  <2>11. l - c + u <= MaxLen
    BY <2>8, <2>9
  <2>12. Len(s.data) <= MaxLen
    <3> HIDE <1>2, <1>3
    <3>1. MaxLen \in Int
      BY <1>1
    <3> QED BY <2>9, <2>10, <2>11, <3>1
  <2>13. p \in Int /\ p <= s.pos /\ s.pos \in Int
    BY SMTT(30), <1>1, <2>4, <2>9, <2>10
  <2>14. s.contextLength = c
    BY <1>1, <2>9
  <2> QED BY <2>4, <2>9, <2>12, <2>13, <2>14
<1> QED BY <1>2, <1>3
\* So the line is that of the beginning but for the selected completion, which stands
\* there from the beginning of the context to the cursor.
LEMMA CycledIsExact ==
  ASSUME NEW s, NEW o, Cycled(s, o), options \in OptionVals
  PROVE  /\ SubSeq(s.data, 1, o.pos) = SubSeq(o.data, 1, o.pos)
         /\ SubSeq(s.data, s.pos + 1, Len(s.data)) = SubSeq(o.data, o.pos + 1, Len(o.data))
         /\ s.selection = -1 => s.pos = o.pos
         /\ s.selection # -1 =>
              Same(SubSeq(s.data, o.pos - o.contextLength + 1, s.pos),
                   s.completions[s.selection + 1], options.ignoreCase)
<1>1. /\ Anchored(o) /\ s.selection \in -1..(Len(s.completions) - 1)
      /\ s.completions = o.completions /\ Len(s.completions) \in Nat
  BY DEF Cycled, Anchored, Well, Lines
<1>2. PICK d \in Text, p \in Nat, l \in Nat, c \in Nat :
        d = o.data /\ p = o.pos /\ l = Len(d) /\ c = o.contextLength /\ c <= p /\ p <= l
  BY <1>1 DEF Anchored, Well, Lines, Text
<1>a. c <= p /\ p <= l
  BY <1>2
<1>3. CASE s.selection = -1
  BY <1>3 DEF Cycled
<1>4. CASE s.selection # -1
  <2>1. PICK k \in 0..(Len(o.completions) - 1) : k = s.selection /\ k + 1 \in 1..Len(o.completions)
    BY <1>1, <1>4
  <2>2. PICK t, w : /\ t = TailOf(o, k) /\ w = o.completions[k + 1] /\ IsTail(t, w, c)
    BY <1>1, <1>2, TailIs
  <2>3. PICK n \in Nat : n = Len(t) /\ Len(w) = c + n /\ t \in Text /\ w \in Text
    <3>1. Len(t) \in Nat /\ Len(w) \in Nat
      BY <2>2 DEF IsTail, Text
    <3> QED BY <1>2, <2>2, <3>1 DEF IsTail
  <2>4. s.data = Spliced(d, p, p, t) /\ s.pos = p + n
    BY <1>2, <1>4, <2>1, <2>2, <2>3 DEF Cycled
  <2>5. PICK e \in Text :
          /\ e = s.data /\ Len(e) = l + n
          /\ \A i \in 1..p : e[i] = d[i]
          /\ \A i \in 1..n : e[p + i] = t[i]
          /\ \A i \in 1..(l - p) : e[p + n + i] = d[p + i]
    <3>1. PICK e : e = Spliced(d, p, p, t)
      OBVIOUS
    <3>2. p \in 0..p /\ p \in 0..Len(d) /\ l - p + p + n = l + n
      <4>1. p \in 0..p /\ p \in 0..l /\ l - p + p + n = l + n
        BY <1>a
      <4> QED BY <1>2, <4>1
    <3>3. /\ Spliced(d, p, p, t) \in Text
          /\ Len(Spliced(d, p, p, t)) = Len(d) - p + p + Len(t)
          /\ \A i \in 1..p : Spliced(d, p, p, t)[i] = d[i]
          /\ \A i \in 1..Len(t) : Spliced(d, p, p, t)[p + i] = t[i]
          /\ \A i \in 1..(Len(d) - p) : Spliced(d, p, p, t)[p + Len(t) + i] = d[p + i]
      BY <2>3, <3>2, SplicedIs
    <3>4. e \in Text /\ e = s.data /\ Len(e) = l + n
      BY <1>2, <2>3, <2>4, <3>1, <3>2, <3>3
    <3>5. \A i \in 1..p : e[i] = d[i]
      BY <3>1, <3>3
    <3>6. \A i \in 1..n : e[p + i] = t[i]
      BY <2>3, <3>1, <3>3
    <3>7. \A i \in 1..(l - p) : e[p + n + i] = d[p + i]
      BY <1>2, <2>3, <3>1, <3>3
    <3> QED BY <3>4, <3>5, <3>6, <3>7
  <2>6. SubSeq(e, 1, p) = SubSeq(d, 1, p)
    <3>1. PICK m \in Nat : m = l + n /\ p \in 0..m /\ p \in 0..l
      BY <1>a
    <3>2. m = Len(e) /\ l = Len(d)
      BY <1>2, <2>5, <3>1
    <3>3. PICK a \in Text : a = SubSeq(e, 1, p) /\ Len(a) = p /\ \A i \in 1..p : a[i] = e[i]
      BY <2>5, <3>1, <3>2, SidesAre
    <3>4. PICK b \in Text : b = SubSeq(d, 1, p) /\ Len(b) = p /\ \A i \in 1..p : b[i] = d[i]
      BY <3>1, <3>2, SidesAre
    <3>5. \A i \in 1..Len(a) : a[i] = b[i]
      BY <2>5, <3>3, <3>4
    <3>6. a = b
      BY <3>3, <3>4, <3>5, TextsEqual
    <3> QED BY <3>3, <3>4, <3>6
  <2>7. SubSeq(e, p + n + 1, Len(e)) = SubSeq(d, p + 1, Len(d))
    <3>1. PICK m \in Nat, q \in Nat : m = l + n /\ q = p + n /\ q \in 0..m /\ p \in 0..l /\ m - q = l - p
      BY <1>a
    <3>2. m = Len(e) /\ l = Len(d)
      BY <1>2, <2>5, <3>1
    <3>3. PICK a \in Text : /\ a = SubSeq(e, q + 1, Len(e)) /\ Len(a) = m - q
                            /\ \A i \in 1..(m - q) : a[i] = e[q + i]
      BY <3>1, <3>2, SidesAre
    <3>4. PICK b \in Text : /\ b = SubSeq(d, p + 1, Len(d)) /\ Len(b) = l - p
                            /\ \A i \in 1..(l - p) : b[i] = d[p + i]
      BY ZenonT(30), <3>1, <3>2, SidesAre
    <3>5. ASSUME NEW i \in 1..Len(a) PROVE a[i] = b[i]
      <4>1. i \in 1..(m - q) /\ i \in 1..(l - p)
        BY <3>1, <3>3
      <4>2. a[i] = e[p + n + i] /\ b[i] = d[p + i]
        BY <3>1, <3>3, <3>4, <4>1
      <4> QED BY <2>5, <4>1, <4>2
    <3>6. a = b
      BY <3>1, <3>3, <3>4, <3>5, TextsEqual
    <3> QED BY <3>1, <3>3, <3>4, <3>6
  <2>8. Same(SubSeq(e, p - c + 1, p + n), w, options.ignoreCase)
    <3>0. PICK ignoreCase \in BOOLEAN : ignoreCase = options.ignoreCase
      BY OptionsAre
    <3>1. PICK m \in Nat, q \in Nat :
            /\ m = p - c + 1 /\ q = p + n /\ m \in 1..(l + n + 1) /\ q \in (m - 1)..(l + n)
            /\ q - m + 1 = c + n
      BY <1>a
    <3>2. PICK a \in Text :
            /\ a = SubSeq(e, m, q) /\ Len(a) = c + n
            /\ \A i \in 1..(c + n) : a[i] = e[m + i - 1]
      <4>1. m \in 1..(Len(e) + 1) /\ q \in (m - 1)..Len(e)
        BY <2>5, <3>1
      <4>2. /\ SubSeq(e, m, q) \in Text /\ Len(SubSeq(e, m, q)) = q - m + 1
            /\ \A i \in 1..(q - m + 1) : SubSeq(e, m, q)[i] = e[m + i - 1]
        BY <4>1, PartIs
      <4>3. PICK a : a = SubSeq(e, m, q)
        OBVIOUS
      <4> QED BY <3>1, <4>2, <4>3
    <3>3. ASSUME NEW i \in 1..(c + n) PROVE Folded(a[i], ignoreCase) = Folded(w[i], ignoreCase)
      <4>1. CASE i <= c
        <5>1. m + i - 1 \in 1..p /\ m + i - 1 = p - c + i /\ i \in 1..c
          BY <1>a, <3>1, <4>1
        <5>2. a[i] = d[p - c + i]
          BY <2>5, <3>2, <5>1
        <5>3. Folded(w[i], ignoreCase) = Folded(d[p - c + i], ignoreCase)
          BY <1>1, <1>2, <2>1, <2>2, <3>0, <5>1 DEF Anchored, GoesOn
        <5> QED BY <5>2, <5>3
      <4>2. CASE i > c
        <5>1. PICK j \in 1..n : i = c + j /\ m + i - 1 = p + j
          <6>1. i - c \in 1..n /\ i = c + (i - c) /\ m + i - 1 = p + (i - c)
          BY <1>a, <3>1, <4>2
        <6> QED BY <6>1
        <5>2. a[i] = t[j]
          BY <2>5, <3>2, <5>1
        <5>3. t[j] = w[c + j]
          BY <2>2, <2>3, <5>1 DEF IsTail
        <5> QED BY <5>1, <5>2, <5>3
      <4> QED BY <4>1, <4>2
    <3>4. Same(a, w, ignoreCase)
      <4>1. Len(a) = Len(w) /\ \A i \in 1..Len(a) : Folded(a[i], ignoreCase) = Folded(w[i], ignoreCase)
        BY <2>3, <3>2, <3>3
      <4> QED BY <2>3, <4>1, SameIs
    <3> QED BY <3>0, <3>1, <3>2, <3>4
  <2> QED BY <1>1, <1>2, <1>4, <2>1, <2>2, <2>4, <2>5, <2>6, <2>7, <2>8
<1> QED BY <1>3, <1>4

\* The next selection is one of the completions, or none.
LEMMA NeighbourIs ==
  ASSUME NEW s, s.selection \in -1..(Len(s.completions) - 1), Len(s.completions) \in Nat,
         NEW step \in {-1, 1}
  PROVE  Neighbour(s, step) \in -1..(Len(s.completions) - 1)
BY DEF Neighbour
-----------------------------------------------------------------------------
(* The grid of the list: C columns and R rows for L completions.            *)

\* The rows are enough.
LEMMA RowsAreEnough ==
  ASSUME NEW L \in Nat \ {0}, NEW C \in Nat \ {0}
  PROVE  /\ (L + C - 1) \div C \in Nat \ {0} /\ L <= C * ((L + C - 1) \div C)
<1>1. PICK n \in Nat : n = L + C - 1 /\ n >= C
  OBVIOUS
<1>2. PICK q \in Int, m \in Int : q = n \div C /\ m = n % C /\ n = C * q + m /\ m \in 0..(C - 1)
  BY <1>1
<1>3. q >= 1
  <2>1. ASSUME q <= 0 PROVE FALSE
    <3>1. C * q <= 0
      BY <2>1
    <3> QED BY <1>1, <1>2, <3>1
  <2> QED BY <2>1
<1>4. L <= C * q
  <2>1. PICK x \in Int : x = C * q
    BY <1>2
  <2> QED BY <1>1, <1>2, <2>1
<1> QED BY <1>1, <1>2, <1>3, <1>4

\* More columns, more places.
LEMMA Columnwise ==
  ASSUME NEW R \in Nat \ {0}, NEW c \in Nat, NEW d \in Nat, c < d
  PROVE  c * R + R <= d * R
<1>1. PICK n \in Nat : d = c + 1 + n
  <2>1. d - c - 1 \in Nat /\ d = c + 1 + (d - c - 1)
    OBVIOUS
  <2> QED BY <2>1
<1>2. d * R = c * R + R + n * R
  BY <1>1
<1>3. n * R >= 0
  OBVIOUS
<1> QED BY <1>2, <1>3

\* The number in a row of a column.
Number(c, r, R) == c * R + r

\* It is natural.
LEMMA NumberIs ==
  ASSUME NEW c \in Nat, NEW r \in Nat, NEW R \in Nat
  PROVE  Number(c, r, R) \in Nat
BY DEF Number

\* A number has one place.
LEMMA PlacesAreApart ==
  ASSUME NEW R \in Nat \ {0}, NEW c \in Nat, NEW d \in Nat, NEW r \in 0..(R - 1),
         NEW s \in 0..(R - 1), Number(c, r, R) = Number(d, s, R)
  PROVE  c = d /\ r = s
<1>1. PICK x \in Int, y \in Int : x = c * R /\ y = d * R /\ x + r = y + s
  BY DEF Number
<1>2. ASSUME c < d PROVE FALSE
  <2>1. x + R <= y
    BY <1>1, <1>2, Columnwise
  <2> QED BY <1>1, <2>1
<1>3. ASSUME d < c PROVE FALSE
  <2>1. y + R <= x
    BY <1>1, <1>3, Columnwise
  <2> QED BY <1>1, <2>1
<1>4. c = d
  BY <1>2, <1>3
<1> QED BY <1>1, <1>4

\* A number has a place.
LEMMA PlaceIs ==
  ASSUME NEW R \in Nat \ {0}, NEW C \in Nat, NEW e \in Nat, e < C * R
  PROVE  \E c \in 0..(C - 1), r \in 0..(R - 1) : e = Number(c, r, R)
<1>1. PICK c \in Nat, r \in 0..(R - 1) : e = c * R + r
  <2>1. PICK q \in Int, m \in Int : q = e \div R /\ m = e % R /\ e = R * q + m /\ m \in 0..(R - 1)
    OBVIOUS
  <2>2. q >= 0
    <3>1. ASSUME q <= -1 PROVE FALSE
      <4>1. R * q <= -R
        BY <3>1
      <4> QED BY <2>1, <4>1
    <3> QED BY <3>1
  <2>3. R * q = q * R
    OBVIOUS
  <2>4. q \in Nat /\ m \in 0..(R - 1) /\ e = q * R + m
    BY <2>1, <2>2, <2>3
  <2> QED BY <2>4
<1>2. ASSUME C <= c PROVE FALSE
  <2>1. PICK x \in Int, y \in Int : x = c * R /\ y = C * R /\ e = x + r /\ e < y
    BY <1>1
  <2>2. y <= x
    BY <1>2, <2>1, Columnwise
  <2> QED BY <2>1, <2>2
<1> QED BY <1>1, <1>2 DEF Number
\* The columns that have a completion in row r.
Filled(r, C, R, L) == {c \in 0..(C - 1) : Number(c, r, R) < L}

\* They are the first ones.
LEMMA RowIs ==
  ASSUME NEW C \in Nat, NEW R \in Nat \ {0}, NEW L \in Nat, NEW r \in 0..(R - 1)
  PROVE  /\ Cardinality(Filled(r, C, R, L)) \in Nat
         /\ Filled(r, C, R, L) = 0..(Cardinality(Filled(r, C, R, L)) - 1)
<1> DEFINE there == {c \in 0..(C - 1) : c * R + r < L}
           T == {c \in Nat : c = C \/ ~(c * R + r < L)}
<1>1. PICK k \in T : \A c \in T : k <= c
  <2>1. T \subseteq Nat /\ C \in T
    OBVIOUS
  <2> HIDE DEF T
  <2> QED BY <2>1, LeastNatural
<1>2. k \in Nat /\ k <= C
  <2>1. C \in T
    OBVIOUS
  <2> QED BY <1>1, <2>1
<1>3. ASSUME NEW c \in there PROVE c \in 0..(k - 1)
  <2>1. c \in 0..(C - 1) /\ c * R + r < L
    OBVIOUS
  <2>2. ASSUME k <= c PROVE FALSE
    <3>1. k # C
      BY <1>2, <2>1, <2>2
    <3>2. ~(k * R + r < L)
      BY <1>1, <3>1
    <3>3. PICK x \in Int, y \in Int : x = k * R /\ y = c * R /\ y + r < L /\ ~(x + r < L)
      BY <1>2, <2>1, <3>2
    <3>4. k = c \/ x + R <= y
      BY <1>2, <2>1, <2>2, <3>3, Columnwise
    <3> QED BY <3>3, <3>4
  <2> QED BY <1>2, <2>1, <2>2
<1>4. ASSUME NEW c \in 0..(k - 1) PROVE c \in there
  <2>1. c \in Nat /\ c \in 0..(C - 1) /\ ~(k <= c)
    BY <1>2
  <2>2. ~ c \in T
    BY <1>1, <2>1
  <2>3. c * R + r < L
    BY <2>1, <2>2
  <2> QED BY <2>1, <2>3
<1> HIDE DEF there
<1>5. there = 0..(k - 1)
  BY <1>3, <1>4
<1>6. Cardinality(0..(k - 1)) = k
  BY <1>2, FS_Interval
<1>7. Filled(r, C, R, L) = there
  BY DEF there, Filled, Number
<1> QED BY <1>2, <1>5, <1>6, <1>7

\* The numbers in the first n rows of the grid.
InRows(n, C, R, L) == {e \in 0..(L - 1) : \E c \in 0..(C - 1), r \in 0..(n - 1) : e = Number(c, r, R)}

\* s has each of them once.
Shown(s, n, C, R, L) == s \in Seq(Nat) /\ IsInjective(s) /\ Range(s) = InRows(n, C, R, L)

\* Before the list begins.
LEMMA NothingShown ==
  ASSUME NEW C \in Nat, NEW R \in Nat, NEW L \in Nat
  PROVE  Shown(<<>>, 0, C, R, L)
<1>1. <<>> \in Seq(Nat) /\ DOMAIN <<>> = {}
  OBVIOUS
<1>2. InRows(0, C, R, L) = {}
  BY DEF InRows
<1> QED BY <1>1, <1>2 DEF Shown, IsInjective, Range

\* A row more.
LEMMA RowShown ==
  ASSUME NEW C \in Nat, NEW R \in Nat \ {0}, NEW L \in Nat, NEW r \in 0..(R - 1),
         NEW s, Shown(s, r, C, R, L)
  PROVE  Shown(s \o [i \in 1..Cardinality(Filled(r, C, R, L)) |-> Number(i - 1, r, R)],
               r + 1, C, R, L)
<1>1. PICK k \in Nat : k = Cardinality(Filled(r, C, R, L)) /\ Filled(r, C, R, L) = 0..(k - 1)
  <2>1. PICK k : k = Cardinality(Filled(r, C, R, L))
    OBVIOUS
  <2>2. /\ Cardinality(Filled(r, C, R, L)) \in Nat
        /\ Filled(r, C, R, L) = 0..(Cardinality(Filled(r, C, R, L)) - 1)
    BY RowIs
  <2> QED BY <2>1, <2>2
<1>2. \A c \in 0..(k - 1) : c \in 0..(C - 1) /\ Number(c, r, R) < L
  BY <1>1 DEF Filled
<1>3. \A c \in 0..(C - 1) : Number(c, r, R) < L => c \in 0..(k - 1)
  BY <1>1 DEF Filled
<1>4. PICK t : t = [i \in 1..k |-> Number(i - 1, r, R)]
  OBVIOUS
<1>5. t \in Seq(Nat) /\ Len(t) = k /\ \A i \in 1..k : t[i] = Number(i - 1, r, R) /\ t[i] \in Nat
  <2>1. ASSUME NEW i \in 1..k PROVE Number(i - 1, r, R) \in Nat
    <3>1. PICK c \in Nat, q \in Nat, m \in Nat : c = i - 1 /\ q = r /\ m = R
      OBVIOUS
    <3>2. Number(c, q, m) \in Nat
      BY NumberIs
    <3> QED BY <3>1, <3>2
  <2>2. t \in [1..k -> Nat]
    BY <1>4, <2>1
  <2>3. t \in Seq(Nat) /\ Len(t) = k
    BY <2>2
  <2> QED BY <1>4, <2>1, <2>3
<1>6. PICK n \in Nat : n = Len(s) /\ s \in Seq(Nat) /\ DOMAIN s = 1..n
  BY DEF Shown
<1>7. PICK u \in Seq(Nat) :
        /\ u = s \o t /\ DOMAIN u = 1..(n + k)
        /\ \A i \in 1..n : u[i] = s[i]
        /\ \A i \in 1..k : u[n + i] = t[i]
  <2>1. /\ s \o t \in Seq(Nat) /\ Len(s \o t) = Len(s) + Len(t)
        /\ \A i \in 1..Len(s) : (s \o t)[i] = s[i]
        /\ \A i \in 1..Len(t) : (s \o t)[Len(s) + i] = t[i]
    BY <1>5, <1>6, ConcatProperties
  <2>2. PICK u \in Seq(Nat) : u = s \o t
    BY <2>1
  <2>3. DOMAIN u = 1..(n + k)
    <3>1. Len(u) = n + k
      BY <1>5, <1>6, <2>1, <2>2
    <3> QED BY <3>1
  <2>4. \A i \in 1..n : u[i] = s[i]
    BY <1>6, <2>1, <2>2
  <2>5. \A i \in 1..k : u[n + i] = t[i]
    BY <1>5, <1>6, <2>1, <2>2
  <2> QED BY <2>2, <2>3, <2>4, <2>5
<1>8. \A i \in 1..n : s[i] \in InRows(r, C, R, L)
  BY <1>6 DEF Shown, Range
<1>9. \A e \in InRows(r, C, R, L) : \E i \in 1..n : e = s[i]
  BY <1>6 DEF Shown, Range
<1>10. \A i, j \in 1..n : s[i] = s[j] => i = j
  BY <1>6 DEF Shown, IsInjective
<1>11. ASSUME NEW i \in 1..k
       PROVE  t[i] \in 0..(L - 1) /\ \E c \in 0..(C - 1) : t[i] = Number(c, r, R)
  <2>1. PICK c \in 0..(k - 1) : c = i - 1
    OBVIOUS
  <2>2. t[i] = Number(c, r, R) /\ t[i] \in Nat
    BY <1>5, <2>1
  <2>3. c \in 0..(C - 1) /\ t[i] < L
    BY <1>2, <2>2
  <2> QED BY <2>2, <2>3
<1>12. ASSUME NEW i \in 1..k, NEW j \in 1..k, t[i] = t[j] PROVE i = j
  <2>1. PICK c \in Nat, d \in Nat : c = i - 1 /\ d = j - 1
    OBVIOUS
  <2>2. Number(c, r, R) = Number(d, r, R)
    BY <1>5, <1>12, <2>1
  <2>3. c = d
    BY <2>2, PlacesAreApart
  <2> QED BY <2>1, <2>3
<1>13. ASSUME NEW i \in 1..n, NEW j \in 1..k, s[i] = t[j] PROVE FALSE
  <2>1. PICK c \in 0..(C - 1), q \in 0..(r - 1) : s[i] = Number(c, q, R)
    BY <1>8 DEF InRows
  <2>2. PICK d \in 0..(C - 1) : t[j] = Number(d, r, R)
    BY <1>11
  <2>3. Number(c, q, R) = Number(d, r, R)
    BY <1>13, <2>1, <2>2
  <2>4. c \in Nat /\ d \in Nat /\ q \in 0..(R - 1) /\ q # r
    OBVIOUS
  <2> QED BY <2>3, <2>4, PlacesAreApart
<1>14. \A x \in 1..(n + k) : x \in 1..n \/ \E i \in 1..k : x = n + i
  <2>1. ASSUME NEW x \in 1..(n + k), ~(x \in 1..n) PROVE \E i \in 1..k : x = n + i
    <3>1. x - n \in 1..k /\ x = n + (x - n)
      BY <2>1
    <3> QED BY <3>1
  <2> QED BY <2>1
<1>15. IsInjective(u)
  <2>1. ASSUME NEW x \in 1..(n + k), NEW y \in 1..(n + k), u[x] = u[y] PROVE x = y
    <3>1. CASE x \in 1..n /\ y \in 1..n
      BY <1>7, <1>10, <2>1, <3>1
    <3>2. CASE x \in 1..n /\ \E j \in 1..k : y = n + j
      <4>1. PICK j \in 1..k : y = n + j
        BY <3>2
      <4>2. s[x] = t[j]
        BY <1>7, <2>1, <3>2, <4>1
      <4> QED BY <1>13, <3>2, <4>2
    <3>3. CASE y \in 1..n /\ \E i \in 1..k : x = n + i
      <4>1. PICK i \in 1..k : x = n + i
        BY <3>3
      <4>2. s[y] = t[i]
        BY <1>7, <2>1, <3>3, <4>1
      <4> QED BY <1>13, <3>3, <4>2
    <3>4. CASE (\E i \in 1..k : x = n + i) /\ \E j \in 1..k : y = n + j
      <4>1. PICK i \in 1..k, j \in 1..k : x = n + i /\ y = n + j
        BY <3>4
      <4>2. t[i] = t[j]
        BY <1>7, <2>1, <4>1
      <4> QED BY <1>12, <4>1, <4>2
    <3> QED BY <1>14, <3>1, <3>2, <3>3, <3>4
  <2> QED BY <1>7, <2>1 DEF IsInjective
<1>16. ASSUME NEW x \in 1..(n + k) PROVE u[x] \in InRows(r + 1, C, R, L)
  <2>1. CASE x \in 1..n
    <3>1. PICK c \in 0..(C - 1), q \in 0..(r - 1) : s[x] = Number(c, q, R) /\ s[x] \in 0..(L - 1)
      BY <1>8, <2>1 DEF InRows
    <3>2. q \in 0..(r + 1 - 1) /\ u[x] = s[x]
      BY <1>7, <2>1
    <3> QED BY <3>1, <3>2 DEF InRows
  <2>2. CASE \E i \in 1..k : x = n + i
    <3>1. PICK i \in 1..k : u[x] = t[i]
      BY <1>7, <2>2
    <3>2. PICK c \in 0..(C - 1) : t[i] = Number(c, r, R) /\ t[i] \in 0..(L - 1)
      BY <1>11
    <3>3. r \in 0..(r + 1 - 1)
      OBVIOUS
    <3> QED BY <3>1, <3>2, <3>3 DEF InRows
  <2> QED BY <1>14, <2>1, <2>2
<1>17. ASSUME NEW e \in InRows(r + 1, C, R, L) PROVE \E x \in 1..(n + k) : e = u[x]
  <2>1. PICK c \in 0..(C - 1), q \in 0..(r + 1 - 1) : e = Number(c, q, R) /\ e \in 0..(L - 1)
    BY DEF InRows
  <2>2. CASE q = r
    <3>1. Number(c, r, R) < L
      BY <2>1, <2>2
    <3>2. c \in 0..(k - 1)
      BY <1>3, <3>1
    <3>3. PICK i \in 1..k : i - 1 = c
      <4>1. c + 1 \in 1..k /\ (c + 1) - 1 = c
        BY <3>2
      <4> QED BY <4>1
    <3>4. e = t[i]
      BY <1>5, <2>1, <2>2, <3>3
    <3>5. n + i \in 1..(n + k)
      OBVIOUS
    <3>6. u[n + i] = t[i]
      BY <1>7
    <3> QED BY <3>4, <3>5, <3>6
  <2>3. CASE q # r
    <3>1. q \in 0..(r - 1)
      BY <2>3
    <3>2. e \in InRows(r, C, R, L)
      BY <2>1, <3>1 DEF InRows
    <3>3. PICK i \in 1..n : e = s[i]
      BY <1>9, <3>2
    <3>4. i \in 1..(n + k)
      OBVIOUS
    <3> QED BY <1>7, <3>3, <3>4
  <2> QED BY <2>2, <2>3
<1>18. Range(u) = InRows(r + 1, C, R, L)
  <2>1. \A e : e \in Range(u) <=> \E x \in 1..(n + k) : e = u[x]
    BY <1>7 DEF Range
  <2>2. ASSUME NEW e \in Range(u) PROVE e \in InRows(r + 1, C, R, L)
    <3>1. PICK x \in 1..(n + k) : e = u[x]
      BY <2>1
    <3> QED BY <1>16, <3>1
  <2>3. ASSUME NEW e \in InRows(r + 1, C, R, L) PROVE e \in Range(u)
    BY <1>17, <2>1
  <2> QED BY <2>2, <2>3
<1> QED BY <1>1, <1>4, <1>7, <1>15, <1>18 DEF Shown

\* After the last row all of them are there.
LEMMA AllShown ==
  ASSUME NEW C \in Nat, NEW R \in Nat \ {0}, NEW L \in Nat, L <= C * R, NEW s, Shown(s, R, C, R, L)
  PROVE  Range(s) = 0..(L - 1)
<1>1. ASSUME NEW e \in 0..(L - 1) PROVE e \in InRows(R, C, R, L)
  <2>1. PICK x \in Int : x = C * R /\ e \in Nat /\ e < x
    OBVIOUS
  <2>2. \E c \in 0..(C - 1), r \in 0..(R - 1) : e = Number(c, r, R)
    BY <2>1, PlaceIs
  <2> QED BY <2>2 DEF InRows
<1>2. InRows(R, C, R, L) \subseteq 0..(L - 1)
  BY DEF InRows
<1> QED BY <1>1, <1>2 DEF Shown
\* The columns and rows of the list of s on a terminal of size z.
ColumnsOf(s, z) ==
  LET longest == Max({Len(word) : word \in Range(s.completions)})
  IN Max({z.columns \div (longest + 2), 1})
RowsOf(s, z) == (Len(s.completions) + ColumnsOf(s, z) - 1) \div ColumnsOf(s, z)

\* They are enough.
LEMMA GridIs ==
  ASSUME NEW s, Anchored(s), Room(s, s.contextLength), s.completions # <<>>, NEW z \in Sizes
  PROVE  /\ ColumnsOf(s, z) \in Nat \ {0} /\ RowsOf(s, z) \in Nat \ {0}
         /\ Len(s.completions) \in Nat \ {0}
         /\ Len(s.completions) <= ColumnsOf(s, z) * RowsOf(s, z)
<1>1. /\ s.completions \in Seq(Text) /\ Len(s.completions) \in Nat \ {0} /\ z.columns \in Nat
      /\ DOMAIN s.completions = 1..Len(s.completions)
  <2>1. s.completions \in Seq(Text) /\ s.completions # <<>>
    BY DEF Anchored, Well, Lines
  <2>2. z.columns \in Nat
    BY CompletionAssumption
  <2> QED BY <2>1, <2>2
<1> DEFINE S == {Len(word) : word \in Range(s.completions)}
<1>2. \A n \in S : n \in Nat /\ n <= MaxLen
  <2>1. ASSUME NEW i \in 1..Len(s.completions)
        PROVE  Len(s.completions[i]) \in Nat /\ Len(s.completions[i]) <= MaxLen
    <3>1. PICK w \in Range(Words) : w = s.completions[i]
      BY DEF Anchored
    <3>2. Len(w) \in Nat /\ Len(s.data) - s.contextLength + Len(w) <= MaxLen
      BY WordsAre DEF Room
    <3>3. s.contextLength \in Nat /\ Len(s.data) \in Nat /\ s.contextLength <= Len(s.data)
      BY DEF Anchored, Well, Lines, Text
    <3>4. MaxLen \in Nat
      BY CompletionAssumption
    <3> QED BY <3>1, <3>2, <3>3, <3>4
  <2> QED BY <1>1, <2>1 DEF Range
<1>3. S # {}
  <2>1. 1 \in 1..Len(s.completions)
    BY <1>1
  <2>2. s.completions[1] \in Range(s.completions)
    BY <1>1, <2>1 DEF Range
  <2> QED BY <2>2
<1>4. ColumnsOf(s, z) = Max({z.columns \div (Max(S) + 2), 1})
  BY DEF ColumnsOf
<1> HIDE DEF S
<1>5. Max(S) \in Nat
  <2>1. S \subseteq Int /\ MaxLen \in Int /\ \A n \in S : n <= MaxLen
    BY <1>2, CompletionAssumption
  <2>2. Max(S) \in S
    BY <1>3, <2>1, MaxIsGreatest
  <2> QED BY <1>2, <2>2
<1>6. PICK q \in Int : q = z.columns \div (Max(S) + 2)
  BY <1>1, <1>5
<1>7. ColumnsOf(s, z) \in Nat \ {0}
  <2>1. PICK T, b : b \in Int /\ T = {q, 1} /\ T \subseteq Int /\ T # {} /\ \A x \in T : x <= b
    <3>1. \E b \in Int : \A x \in {q, 1} : x <= b
      <4>1. CASE q <= 1
        BY <4>1
      <4>2. CASE 1 <= q
        BY <4>2
      <4> QED BY <4>1, <4>2
    <3>2. PICK b \in Int : \A x \in {q, 1} : x <= b
      BY <3>1
    <3>3. PICK T : T = {q, 1}
      OBVIOUS
    <3>4. T \subseteq Int /\ T # {} /\ \A x \in T : x <= b
      BY <3>2, <3>3
    <3> QED BY <3>3, <3>4
  <2>2. Max(T) \in T /\ \A x \in T : Max(T) >= x
    BY <2>1, MaxIsGreatest
  <2>3. ColumnsOf(s, z) = Max(T)
    BY <1>4, <1>6, <2>1
  <2> QED BY <2>1, <2>2, <2>3
<1>8. PICK C \in Nat \ {0}, L \in Nat \ {0} : C = ColumnsOf(s, z) /\ L = Len(s.completions)
  BY <1>1, <1>7
<1>9. (L + C - 1) \div C \in Nat \ {0} /\ L <= C * ((L + C - 1) \div C)
  BY RowsAreEnough
<1> QED BY <1>1, <1>7, <1>8, <1>9 DEF RowsOf

-----------------------------------------------------------------------------
(* The invariant.                                                           *)

\* None of the defects is let happen.
Plain == Risks = {}

\* The printed rows of the list, and how far they are from the pause.
Listing ==
  /\ row \in 0..RowCount /\ pauseRow \in Int /\ onPage \in Int
  /\ row <= pauseRow /\ onPage + pauseRow - row = PageRows
  /\ phase = "paused" => row < RowCount /\ row = pauseRow
  /\ Shown(listed, row, Columns, RowCount, Len(line.completions))

Inv ==
  /\ Well(line) /\ HintFits(line) /\ Len(line.data) <= MaxLen
  /\ options \in OptionVals /\ size \in Sizes
  /\ phase \in {"editing", "second_tab", "asking", "listing", "paused"}
  /\ phase = "editing" /\ line.completions = <<>> => line.selection = -1
  /\ phase = "editing" /\ line.completions # <<>> => Cycled(line, origin)
  /\ phase # "editing" =>
       /\ line.completions # <<>> /\ line.selection = -1
       /\ Anchored(line) /\ Room(line, line.contextLength)
  /\ phase \in {"listing", "paused"} => Listing
  /\ phase \notin {"listing", "paused"} => listed = <<>>

\* What is known of the line does not depend on more than the options and the size.
LEMMA NextLine ==
  ASSUME options' = options, size' = size
  PROVE  /\ Well(line') => Well(line)'
         /\ HintFits(line') => HintFits(line)'
         /\ Anchored(line') /\ Room(line', line'.contextLength) =>
              Anchored(line)' /\ Room(line, line.contextLength)'
         /\ Cycled(line', origin') => Cycled(line, origin)'
         /\ Columns' = ColumnsOf(line', size) /\ RowCount' = RowsOf(line', size)
         /\ PageRows' = PageRows
BY DEF Well, HintFits, CallHinter, CallCompleter, Matches, Anchored, GoesOn, Room, Cycled,
       Columns, RowCount, ColumnsOf, RowsOf, PageRows, TailOf

\* The columns and the rows are those of the line.
LEMMA ColumnsAre ==
  Columns = ColumnsOf(line, size) /\ RowCount = RowsOf(line, size)
BY DEF Columns, RowCount, ColumnsOf, RowsOf
-----------------------------------------------------------------------------
(* The beginning, and the keys that edit.                                   *)

\* A line that begins has nothing selected.
LEMMA StartedIs ==
  ASSUME NEW text \in Text
  PROVE  LET s == Started(text)
         IN /\ Well(s) /\ s.data = text /\ s.completions = <<>> /\ s.selection = -1
            /\ s.hintSelection = -1
<1>1. <<>> \in Seq(Text) /\ Len(text) \in Nat
  BY EmptySeq DEF Text
<1> QED BY <1>1 DEF Well, Lines, Started

\* Inv holds at the beginning.
LEMMA InitInv ==
  ASSUME Init
  PROVE  Inv
<1>1. PICK text \in Preloads : line = Started(text)
  BY DEF Init
<1>2. text \in Text /\ Len(text) <= MaxLen
  BY CompletionAssumption DEF Text
<1>3. PICK s : s = Started(text)
  OBVIOUS
<1>4. /\ Well(s) /\ s.data = text /\ s.completions = <<>> /\ s.selection = -1
      /\ s.hintSelection = -1
  BY <1>2, <1>3, StartedIs
<1>5. line = s
  BY <1>1, <1>3
<1> QED BY <1>2, <1>4, <1>5 DEF Inv, Init, HintFits

\* A key that edits, or moves, leaves no completions.
LEMMA EditedInv ==
  ASSUME Inv, NEW s, Edited(s), Well(s), HintFits(s), s.completions = <<>>, s.selection = -1
  PROVE  Inv'
<1>1. /\ phase = "editing" /\ phase' = "editing" /\ Len(s.data) <= MaxLen /\ line' = s
      /\ options' = options /\ size' = size /\ listed' = listed
  BY DEF Edited
<1>2. Well(line)' /\ HintFits(line)'
  BY <1>1, NextLine
<1>3. /\ Len(line'.data) <= MaxLen /\ line'.completions = <<>> /\ line'.selection = -1
  BY <1>1
<1>4. options' \in OptionVals /\ size' \in Sizes /\ listed' = <<>>
  BY <1>1 DEF Inv
<1> QED BY <1>1, <1>2, <1>3, <1>4 DEF Inv

\* A selected hint at the end of the line goes when the line is refreshed.
LEMMA HintGoes ==
  ASSUME NEW s, Well(s), s.hintSelection # -1 => s.pos = Len(s.data)
  PROVE  LET r == Reset(Refreshed(s))
         IN /\ Well(r) /\ r.data = s.data /\ r.pos = s.pos /\ HintFits(r)
            /\ r.completions = <<>> /\ r.selection = -1
<1>1. PICK a : a = Refreshed(s)
  OBVIOUS
<1>2. Well(a) /\ a.data = s.data /\ a.pos = s.pos /\ a.hintSelection = -1
  BY <1>1, RefreshedIs
<1>3. PICK r : r = Reset(a)
  OBVIOUS
<1>4. /\ Well(r) /\ r.data = a.data /\ r.pos = a.pos /\ r.completions = <<>>
      /\ r.selection = -1 /\ r.hintSelection = a.hintSelection
  BY <1>2, <1>3, ResetIs
<1>5. HintFits(r)
  BY <1>2, <1>4 DEF HintFits
<1> QED BY <1>1, <1>2, <1>3, <1>4, <1>5

\* Typing and erasing: a text in place of the n characters before the cursor.
LEMMA TypedInv ==
  ASSUME Inv, NEW n \in Nat, n <= line.pos, NEW text \in Text,
         Edited(Reset(Refreshed(Replaced(line, n, text))))
  PROVE  Inv'
<1>1. PICK r : r = Replaced(line, n, text)
  OBVIOUS
<1>2. Well(line) /\ HintFits(line)
  BY DEF Inv
<1>3. Takes(r, line, n, text)
  BY <1>1, <1>2, ReplacedIs
<1>4. Well(r) /\ (r.hintSelection # -1 => r.pos = Len(r.data))
  <2>1. line.pos \in Nat /\ Len(line.data) \in Nat /\ Len(text) \in Nat
    BY <1>2 DEF Well, Lines, Text
  <2> QED BY <1>2, <1>3, <2>1 DEF Takes, HintFits
<1>5. PICK s : s = Reset(Refreshed(r))
  OBVIOUS
<1>6. Well(s) /\ HintFits(s) /\ s.completions = <<>> /\ s.selection = -1
  BY <1>4, <1>5, HintGoes
<1>7. Edited(s)
  BY <1>1, <1>5
<1> QED BY <1>6, <1>7, EditedInv

\* A character is a text.
LEMMA OneCharacter ==
  ASSUME NEW c \in Nat
  PROVE  <<c>> \in Text
BY DEF Text

\* The keys that type, erase and move.
LEMMA EditingInv ==
  ASSUME Inv, Plain
  PROVE  /\ \A c \in Characters : Type(c) => Inv'
         /\ Backspace => Inv'
         /\ \A p \in 0..Len(line.data) : MoveTo(p) => Inv'
<1>1. ASSUME NEW c \in Characters, Type(c) PROVE Inv'
  <2>1. PICK text \in Text, n \in Nat : text = <<c>> /\ n = 0
    BY CompletionAssumption, OneCharacter
  <2>2. n <= line.pos
    BY <2>1 DEF Inv, Well, Lines
  <2>3. Edited(Reset(Refreshed(Replaced(line, n, text))))
    BY <1>1, <2>1 DEF Type
  <2> QED BY <2>2, <2>3, TypedInv
<1>2. ASSUME Backspace PROVE Inv'
  <2>1. PICK text \in Text, n \in Nat : text = <<>> /\ n = 1
    BY EmptySeq DEF Text
  <2>2. n <= line.pos
    BY <1>2, <2>1 DEF Inv, Well, Lines, Backspace
  <2>3. Edited(Reset(Refreshed(Replaced(line, n, text))))
    BY <1>2, <2>1 DEF Backspace
  <2> QED BY <2>2, <2>3, TypedInv
<1>3. ASSUME NEW p \in 0..Len(line.data), MoveTo(p) PROVE Inv'
  <2>1. line.hintSelection = -1
    BY <1>3 DEF MoveTo, Avoids, Plain
  <2>2. PICK m : m = [line EXCEPT !.pos = p]
    OBVIOUS
  <2>3. Well(m) /\ m.hintSelection = -1
    <3>1. line \in Lines /\ Len(line.data) \in Nat
      BY DEF Inv, Well, Lines, Text
    <3> QED BY <2>1, <2>2, <3>1 DEF Well, Lines
  <2>4. PICK s : s = Reset(Refreshed(m))
    OBVIOUS
  <2>5. Well(s) /\ HintFits(s) /\ s.completions = <<>> /\ s.selection = -1
    BY <2>3, <2>4, HintGoes
  <2>6. Edited(s)
    BY <1>3, <2>2, <2>4 DEF MoveTo
  <2> QED BY <2>5, <2>6, EditedInv
<1> QED BY <1>1, <1>2, <1>3

\* The hints to choose from, and the state that a handler sets.
LEMMA ChoosingInv ==
  ASSUME Inv, Plain
  PROVE  /\ \A step \in {-1, 1} : HintMove(step) => Inv'
         /\ \A text \in Preloads : \A p \in 0..Len(text) : SetState(text, p) => Inv'
<1>0. line \in Lines /\ Well(line) /\ HintFits(line) /\ line.hintSelection \in Int
  BY DEF Inv, Well, Lines
<1>1. ASSUME NEW step \in {-1, 1}, HintMove(step) PROVE Inv'
  <2>1. PICK count \in Nat : count = Len(CallHinter(line.data, line.pos))
    BY CallCompleterIs DEF CallHinter
  <2>2. PICK n \in Int : n = line.hintSelection + step
    BY <1>0
  <2>3. PICK chosen : chosen = IF n < -1 THEN count - 1 ELSE IF n >= count THEN -1 ELSE n
    OBVIOUS
  <2>4. line.pos = Len(line.data) /\ count > 1
    BY <1>1, <2>1 DEF HintMove, Avoids, Plain
  <2>5. chosen \in Int /\ chosen >= -1 /\ chosen < count
    BY <2>3, <2>4
  <2>6. PICK m : m = [line EXCEPT !.hintSelection = chosen]
    OBVIOUS
  <2>7. Well(m) /\ m.data = line.data /\ m.pos = line.pos /\ m.hintSelection = chosen
    BY <1>0, <2>5, <2>6 DEF Well, Lines
  <2>8. PICK s : s = Reset(m)
    OBVIOUS
  <2>9. /\ Well(s) /\ s.data = m.data /\ s.pos = m.pos /\ s.completions = <<>>
        /\ s.selection = -1 /\ s.hintSelection = m.hintSelection
    BY <2>7, <2>8, ResetIs
  <2>10. HintFits(s)
    BY <2>1, <2>4, <2>5, <2>7, <2>9 DEF HintFits
  <2>11. Edited(s)
    BY <1>1, <2>1, <2>2, <2>3, <2>4, <2>6, <2>8 DEF HintMove
  <2> QED BY <2>9, <2>10, <2>11, EditedInv
<1>2. ASSUME NEW text \in Preloads, NEW p \in 0..Len(text), SetState(text, p) PROVE Inv'
  <2>1. PICK s : s = [line EXCEPT !.data = text, !.pos = p, !.hintSelection = -1]
    OBVIOUS
  <2>2. Edited(s) /\ line.completions = <<>> /\ phase = "editing"
    BY <1>2, <2>1 DEF SetState, Avoids, Plain, Edited
  <2>3. text \in Text /\ Len(text) \in Nat
    BY CompletionAssumption DEF Text
  <2>4. Well(s) /\ s.hintSelection = -1 /\ s.completions = line.completions /\ s.selection = line.selection
    <3>1. p \in Nat /\ p <= Len(text) /\ -1 \in Int
      BY <2>3
    <3>2. PICK d \in Text, q \in Nat, h \in Int : d = text /\ q = p /\ h = -1
      BY <2>3, <3>1
    <3>3. s = [line EXCEPT !.data = d, !.pos = q, !.hintSelection = h]
      BY <2>1, <3>2
    <3>4. s \in Lines
      BY <1>0, <3>3 DEF Lines
    <3>5. /\ s.data = d /\ s.pos = q /\ s.hintSelection = h /\ s.completions = line.completions
          /\ s.selection = line.selection
      BY <1>0, <3>3 DEF Lines
    <3> QED BY <3>1, <3>2, <3>4, <3>5 DEF Well
  <2>5. HintFits(s) /\ s.completions = <<>> /\ s.selection = -1
    BY <2>2, <2>4 DEF Inv, HintFits
  <2> QED BY <2>2, <2>4, <2>5, EditedInv
<1> QED BY <1>1, <1>2
-----------------------------------------------------------------------------
(* The list.                                                                *)

\* The list begins with nothing printed.
LEMMA ToListInv ==
  ASSUME ToList, options' = options, size' = size, options \in OptionVals, size \in Sizes,
         Well(line'), HintFits(line'), Len(line'.data) <= MaxLen,
         Anchored(line'), Room(line', line'.contextLength),
         line'.completions # <<>>, line'.selection = -1
  PROVE  Inv'
<1>1. /\ Well(line)' /\ HintFits(line)' /\ Anchored(line)' /\ Room(line, line.contextLength)'
      /\ Columns' = ColumnsOf(line', size) /\ RowCount' = RowsOf(line', size)
      /\ PageRows' = PageRows
  BY NextLine
<1>2. PICK C \in Nat, R \in Nat, L \in Nat :
        C = ColumnsOf(line', size) /\ R = RowsOf(line', size) /\ L = Len(line'.completions)
  BY GridIs
<1>3. PageRows \in Nat
  <2>1. size.rows \in Nat \ {0, 1}
    BY CompletionAssumption
  <2> QED BY <2>1 DEF PageRows
<1>4. phase' = "listing" /\ row' = 0 /\ pauseRow' = PageRows /\ listed' = <<>> /\ onPage' = 0
  BY DEF ToList
<1>5. Shown(<<>>, 0, C, R, L)
  BY NothingShown
<1>6. Listing'
  BY <1>1, <1>2, <1>3, <1>4, <1>5 DEF Listing
<1> QED BY <1>1, <1>4, <1>6 DEF Inv

\* A step before the list that leaves the line as it is.
LEMMA BeforeListInv ==
  ASSUME options' = options, size' = size, options \in OptionVals, size \in Sizes,
         Well(line'), HintFits(line'), Len(line'.data) <= MaxLen,
         Anchored(line'), Room(line', line'.contextLength),
         line'.completions # <<>>, line'.selection = -1,
         phase' \in {"second_tab", "asking"}, listed' = <<>>
  PROVE  Inv'
<1>1. Well(line)' /\ HintFits(line)' /\ Anchored(line)' /\ Room(line, line.contextLength)'
  BY NextLine
<1> QED BY <1>1 DEF Inv

\* A line without its selected hint keeps what is said of it.
LEMMA Unhinted ==
  ASSUME NEW s, NEW r, r = AtEnd(s),
         Well(s), Anchored(s), Room(s, s.contextLength)
  PROVE  /\ Well(r) /\ HintFits(r) /\ Anchored(r) /\ Room(r, r.contextLength)
         /\ r.data = s.data /\ r.completions = s.completions /\ r.selection = s.selection
<1>1. Well(r) /\ r.hintSelection = -1
  BY DEF Well, Lines, AtEnd
<1>2. /\ r.data = s.data /\ r.pos = s.pos /\ r.completions = s.completions
      /\ r.selection = s.selection /\ r.contextLength = s.contextLength
  BY DEF Well, Lines, AtEnd
<1>3. Anchored(r)
  BY <1>1, <1>2 DEF Anchored, GoesOn
<1>4. Room(r, r.contextLength) /\ HintFits(r)
  BY <1>1, <1>2 DEF Room, HintFits
<1> QED BY <1>1, <1>2, <1>3, <1>4

\* The question is asked or the list begins.
LEMMA ToQuestionInv ==
  ASSUME NEW s, ToQuestion(s), options' = options, size' = size, options \in OptionVals,
         size \in Sizes, listed = <<>>,
         Well(s), HintFits(s), Len(s.data) <= MaxLen,
         Anchored(s), Room(s, s.contextLength),
         s.completions # <<>>, s.selection = -1
  PROVE  Inv'
<1>1. CASE Len(s.completions) > options.cutoff
  <2>1. PICK r : r = AtEnd(s)
    OBVIOUS
  <2>2. phase' = "asking" /\ listed' = listed /\ line' = r
    BY <1>1, <2>1 DEF ToQuestion
  <2>3. /\ Well(r) /\ HintFits(r) /\ Anchored(r) /\ Room(r, r.contextLength)
        /\ r.data = s.data /\ r.completions = s.completions /\ r.selection = s.selection
    BY <2>1, Unhinted
  <2> QED BY <2>2, <2>3, BeforeListInv
<1>2. CASE ~(Len(s.completions) > options.cutoff)
  <2>1. ToList /\ line' = s
    BY <1>2 DEF ToQuestion
  <2> QED BY <2>1, ToListInv
<1> QED BY <1>1, <1>2

\* At the end the line is left without its completions.
LEMMA EndInv ==
  ASSUME Inv, NEW s, line' = Reset(s), Well(s), HintFits(s), Len(s.data) <= MaxLen,
         phase' = "editing", listed' = <<>>, options' = options, size' = size
  PROVE  Inv'
<1>1. PICK r : r = Reset(s)
  OBVIOUS
<1>2. /\ Well(r) /\ r.data = s.data /\ r.pos = s.pos /\ r.completions = <<>>
      /\ r.selection = -1 /\ r.hintSelection = s.hintSelection
  BY <1>1, ResetIs
<1>3. Well(line') /\ HintFits(line')
  BY <1>1, <1>2 DEF HintFits
<1>4. Well(line)' /\ HintFits(line)'
  BY <1>3, NextLine
<1> QED BY <1>1, <1>2, <1>4 DEF Inv

\* Leaving the list or the question.
LEMMA FinishInv ==
  ASSUME Inv, Finish
  PROVE  Inv'
<1>1. PICK a : a = Refreshed(line)
  OBVIOUS
<1>2. /\ Well(a) /\ a.data = line.data /\ a.pos = line.pos
      /\ a.hintSelection = IF line.pos = Len(line.data) THEN -1 ELSE line.hintSelection
  BY <1>1, RefreshedIs DEF Inv
<1>3. HintFits(a)
  BY <1>2 DEF Inv, HintFits
<1>4. /\ line' = Reset(a) /\ phase' = "editing" /\ listed' = <<>>
      /\ options' = options /\ size' = size
  BY <1>1 DEF Finish
<1>5. Len(a.data) <= MaxLen
  BY <1>2 DEF Inv
<1> QED BY <1>2, <1>3, <1>4, <1>5, EndInv

\* The line stays while the list is shown.
LEMMA PageInv ==
  ASSUME Inv, line' = line, options' = options, size' = size,
         phase \in {"listing", "paused"}, phase' \in {"listing", "paused"}, Listing'
  PROVE  Inv'
<1>1. Well(line') /\ HintFits(line') /\ Anchored(line') /\ Room(line', line'.contextLength)
  BY DEF Inv
<1>2. Well(line)' /\ HintFits(line)' /\ Anchored(line)' /\ Room(line, line.contextLength)'
  BY <1>1, NextLine
<1> QED BY <1>2 DEF Inv

\* A row of the list is printed, and the next pause is later.
LEMMA PrintRowInv ==
  ASSUME Inv, NEW nextPause, NEW printed, PrintRow(nextPause, printed),
         phase \in {"listing", "paused"}, row < RowCount,
         nextPause \in Int, printed \in Int, row < nextPause,
         printed + nextPause - (row + 1) = PageRows
  PROVE  Inv'
<1>1. /\ line' = line /\ options' = options /\ size' = size /\ row' = row + 1
      /\ onPage' = printed /\ pauseRow' = nextPause /\ phase' = "listing"
      /\ listed' = listed \o InRow(row)
  BY DEF PrintRow
<1>2. Columns' = Columns /\ RowCount' = RowCount /\ PageRows' = PageRows
  BY <1>1, NextLine, ColumnsAre
<1>3. PICK C \in Nat, R \in Nat \ {0}, L \in Nat :
        C = Columns /\ R = RowCount /\ L = Len(line.completions)
  BY ColumnsAre, GridIs DEF Inv
<1>4. row \in 0..(R - 1) /\ Shown(listed, row, C, R, L) /\ PageRows \in Int
  <2>1. row \in 0..R /\ row < R /\ Shown(listed, row, C, R, L)
    BY <1>3 DEF Inv, Listing
  <2>2. PageRows \in Int
    BY CompletionAssumption DEF Inv, PageRows
  <2> QED BY <2>1, <2>2
<1>5. PICK r \in 0..(R - 1) : r = row
  BY <1>4
<1>6. InRow(r) = [i \in 1..Cardinality(Filled(r, C, R, L)) |-> Number(i - 1, r, R)]
  BY <1>3 DEF InRow, Filled, Number
<1>7. PICK s : s = listed /\ Shown(s, r, C, R, L)
  BY <1>4, <1>5
<1>8. Shown(s \o [i \in 1..Cardinality(Filled(r, C, R, L)) |-> Number(i - 1, r, R)], r + 1, C, R, L)
  BY <1>7, RowShown
<1>9. Shown(listed', row + 1, C, R, L)
  BY <1>1, <1>5, <1>6, <1>7, <1>8
<1>10. row + 1 \in 0..R
  BY <1>4
<1>11. row + 1 <= nextPause
  BY <1>4
<1>12. Listing'
  BY <1>1, <1>2, <1>3, <1>9, <1>10, <1>11 DEF Listing
<1> QED BY <1>1, <1>12, PageInv
\* The steps of the list and of the questions before it.
LEMMA ListInv ==
  ASSUME Inv, SecondTab \/ OtherKey \/ AnswerYes \/ AnswerNo \/ NextRow \/ Pause
              \/ NextPage \/ OneMore \/ StopList \/ EndOfList
  PROVE  Inv'
<1>1. /\ Well(line) /\ HintFits(line) /\ Len(line.data) <= MaxLen
      /\ options \in OptionVals /\ size \in Sizes
      /\ phase # "editing" => /\ line.completions # <<>> /\ line.selection = -1
                              /\ Anchored(line) /\ Room(line, line.contextLength)
  BY DEF Inv
<1>2. PageRows \in Nat \ {0}
  <2>1. size.rows \in Nat \ {0, 1}
    BY <1>1, CompletionAssumption
  <2> QED BY <2>1 DEF PageRows
<1>3. ASSUME phase \in {"listing", "paused"}
      PROVE  /\ Listing /\ row \in 0..RowCount /\ RowCount \in Nat
             /\ row \in Int /\ pauseRow \in Int /\ onPage \in Int /\ row <= pauseRow
             /\ onPage + pauseRow - row = PageRows
  <2>1. Listing
    BY <1>3 DEF Inv
  <2>2. RowCount \in Nat
    BY <1>1, <1>3, ColumnsAre, GridIs
  <2> QED BY <2>1, <2>2 DEF Listing
<1>4. CASE SecondTab
  <2>1. /\ phase = "second_tab" /\ ToQuestion(line)
        /\ options' = options /\ size' = size
    BY <1>4 DEF SecondTab
  <2>2. listed = <<>>
    BY <2>1 DEF Inv
  <2> QED BY <1>1, <2>1, <2>2, ToQuestionInv
<1>5. CASE OtherKey
  <2>1. /\ phase = "second_tab" /\ phase' = "editing" /\ line' = Reset(line)
        /\ options' = options /\ size' = size /\ listed' = listed
    BY <1>5 DEF OtherKey
  <2>2. listed = <<>>
    BY <2>1 DEF Inv
  <2> QED BY <1>1, <2>1, <2>2, EndInv
<1>6. CASE AnswerYes
  <2>1. /\ phase = "asking" /\ ToList /\ line' = line /\ options' = options /\ size' = size
    BY <1>6 DEF AnswerYes
  <2> QED BY <1>1, <2>1, ToListInv
<1>7. CASE AnswerNo \/ StopList \/ EndOfList
  BY <1>7, FinishInv DEF AnswerNo, StopList, EndOfList
<1>8. CASE NextRow
  <2>1. phase = "listing" /\ row < RowCount /\ row # pauseRow /\ PrintRow(pauseRow, onPage + 1)
    BY <1>8 DEF NextRow
  <2>2. /\ pauseRow \in Int /\ onPage + 1 \in Int /\ row < pauseRow
        /\ (onPage + 1) + pauseRow - (row + 1) = PageRows
    BY <1>3, <2>1
  <2> QED BY <2>1, <2>2, PrintRowInv
<1>9. CASE Pause
  <2>1. /\ phase = "listing" /\ row < RowCount /\ row = pauseRow /\ phase' = "paused"
        /\ line' = line /\ row' = row /\ pauseRow' = pauseRow /\ options' = options
        /\ size' = size /\ listed' = listed /\ onPage' = onPage
    BY <1>9 DEF Pause
  <2>2. Columns' = Columns /\ RowCount' = RowCount /\ PageRows' = PageRows
    BY <2>1, NextLine, ColumnsAre
  <2>3. Listing'
    BY <1>3, <2>1, <2>2 DEF Listing
  <2> QED BY <2>1, <2>3, PageInv
<1>10. CASE NextPage \/ OneMore
  <2>1. PICK more \in Nat \ {0}, printed \in Int :
          /\ phase = "paused" /\ PrintRow(pauseRow + more, printed)
          /\ printed + more - 1 = PageRows
    <3>1. CASE NextPage
      <4>1. phase = "paused" /\ PrintRow(pauseRow + PageRows, 1)
        BY <3>1 DEF NextPage
      <4>2. 1 + PageRows - 1 = PageRows
        BY <1>2
      <4> QED BY <1>2, <4>1, <4>2
    <3>2. CASE OneMore
      <4>1. phase = "paused" /\ PrintRow(pauseRow + 1, onPage)
        BY <3>2 DEF OneMore
      <4>2. onPage \in Int /\ onPage + 1 - 1 = PageRows
        <5>1. row = pauseRow
          BY <1>3, <4>1 DEF Listing
        <5> QED BY <1>3, <4>1, <5>1
      <4> QED BY <4>1, <4>2
    <3> QED BY <1>10, <3>1, <3>2
  <2>2. row < RowCount /\ row = pauseRow
    BY <1>3, <2>1 DEF Listing
  <2>3. row \in Int /\ pauseRow \in Int
    BY <1>3, <2>1
  <2>4. /\ pauseRow + more \in Int /\ row < pauseRow + more
        /\ printed + (pauseRow + more) - (row + 1) = PageRows
    BY <2>1, <2>2, <2>3
  <2> QED BY <2>1, <2>2, <2>4, PrintRowInv
<1> QED BY <1>4, <1>5, <1>6, <1>7, <1>8, <1>9, <1>10

-----------------------------------------------------------------------------
(* Completing.                                                              *)

\* do_complete_line() extends the word or lists what it may become.
LEMMA CompleteLineInv ==
  ASSUME Inv, CompleteLine
  PROVE  Inv'
<1>1. /\ Well(line) /\ HintFits(line) /\ Len(line.data) <= MaxLen
      /\ options \in OptionVals /\ size \in Sizes
  BY DEF Inv
<1>2. PICK called : called = Called(line)
  OBVIOUS
<1>3. /\ Anchored(called) /\ called.data = line.data /\ called.pos = line.pos
      /\ called.hintSelection = line.hintSelection /\ called.selection = -1
      /\ called.contextLength = ContextLength(line.data, line.pos)
  BY <1>1, <1>2, CalledIs
<1>4. phase = "editing" /\ HasRoom /\ options' = options /\ size' = size /\ listed = <<>>
  BY DEF CompleteLine, Inv
<1>5. Room(line, ContextLength(line.data, line.pos))
  BY <1>4 DEF HasRoom, Room
<1>6. CASE called.completions = <<>> \/ Extends(called)
  <2>1. line' = Reset(Attempted(line)) /\ phase' = "editing" /\ listed' = <<>>
    BY <1>2, <1>4, <1>6 DEF CompleteLine
  <2>2. PICK a : a = Attempted(line)
    OBVIOUS
  <2>3. Well(a) /\ HintFits(a) /\ Len(a.data) <= MaxLen
    BY <1>1, <1>5, <2>2, AttemptedIs
  <2> QED BY <1>4, <2>1, <2>2, <2>3, EndInv
<1>7. CASE ~(called.completions = <<>> \/ Extends(called))
  <2>1. IF options.doubleTab THEN phase' = "second_tab" /\ line' = called /\ listed' = listed
        ELSE ToQuestion(called)
    BY <1>2, <1>7 DEF CompleteLine
  <2>2. /\ Well(called) /\ HintFits(called) /\ Len(called.data) <= MaxLen /\ Anchored(called)
        /\ Room(called, called.contextLength)
        /\ called.completions # <<>> /\ called.selection = -1
    BY <1>1, <1>3, <1>5, <1>7 DEF Anchored, HintFits, Room
  <2>3. CASE options.doubleTab
    BY <1>1, <1>4, <2>1, <2>2, <2>3, BeforeListInv
  <2>4. CASE ~options.doubleTab
    BY <1>1, <1>4, <2>1, <2>2, <2>4, ToQuestionInv
  <2> QED BY <2>3, <2>4
<1> QED BY <1>6, <1>7

\* A line with its completions goes through them from itself.
LEMMA CycledFromItself ==
  ASSUME NEW s, Anchored(s), Room(s, s.contextLength), Len(s.data) <= MaxLen,
         s.hintSelection = -1, s.selection = -1
  PROVE  Cycled(s, s)
<1>1. Len(s.completions) \in Nat
  BY DEF Anchored, Well, Lines
<1> QED BY <1>1 DEF Anchored, Cycled

\* complete() goes on to the next completion.
LEMMA CompleteInv ==
  ASSUME Inv, Plain, NEW step \in {-1, 1}, Complete(step)
  PROVE  Inv'
<1>1. /\ Well(line) /\ HintFits(line) /\ Len(line.data) <= MaxLen
      /\ options \in OptionVals /\ size \in Sizes
  BY DEF Inv
<1> DEFINE first == line.completions = <<>>
<1>2. PICK got : got = IF first /\ CompletionAllowed THEN Attempted(line) ELSE line
  OBVIOUS
<1> DEFINE partial == first /\ ~options.immediate /\ Len(got.data) > Len(line.data)
<1>3. PICK chosen : chosen = IF got.completions = <<>> THEN -1 ELSE Neighbour(got, step)
  OBVIOUS
<1>4. /\ phase = "editing" /\ HasRoom /\ (first => line.hintSelection = -1)
      /\ line' = IF partial THEN got ELSE Selected(got, chosen)
      /\ origin' = IF got.completions = <<>> THEN Empty ELSE IF first THEN got ELSE origin
      /\ phase' = phase /\ options' = options /\ size' = size /\ listed' = listed
  BY <1>2, <1>3 DEF Complete, Plain, Avoids
<1>5. Room(line, ContextLength(line.data, line.pos))
  BY <1>4 DEF HasRoom, Room
<1>6. options' \in OptionVals /\ size' \in Sizes /\ listed' = <<>>
  BY <1>1, <1>4 DEF Inv
<1>7. /\ Well(got) /\ Len(got.data) <= MaxLen /\ got.hintSelection = -1
      /\ got.completions = <<>> => got.selection = -1
      /\ got.completions # <<>> => Cycled(got, IF first THEN got ELSE origin)
  <2>1. CASE first /\ CompletionAllowed
    <3>1. /\ Well(got) /\ Len(got.data) <= MaxLen /\ got.selection = -1
          /\ got.hintSelection = -1 /\ Anchored(got) /\ Room(got, got.contextLength)
      BY <1>1, <1>2, <1>4, <1>5, <2>1, AttemptedIs
    <3>2. Cycled(got, got)
      BY <3>1, CycledFromItself
    <3> QED BY <2>1, <3>1, <3>2
  <2>2. CASE first /\ ~CompletionAllowed
    BY <1>1, <1>2, <1>4, <2>2 DEF Inv
  <2>3. CASE ~first
    <3>1. Cycled(line, origin)
      BY <1>4, <2>3 DEF Inv
    <3> QED BY <1>1, <1>2, <2>3, <3>1 DEF Cycled
  <2> QED BY <2>1, <2>2, <2>3
<1>8. CASE got.completions = <<>>
  <2>1. chosen = -1
    BY <1>3, <1>8
  <2>2. PICK e : e = [got EXCEPT !.selection = -1]
    OBVIOUS
  <2>3. /\ Well(e) /\ e.data = got.data /\ e.completions = <<>> /\ e.selection = -1
        /\ e.hintSelection = -1
    <3>1. -1 \in Int
      OBVIOUS
    <3> QED BY <1>7, <1>8, <2>2, <3>1, SelectionIs
  <2>4. PICK a : a = Refreshed(e)
    OBVIOUS
  <2>5. /\ Well(a) /\ a.data = got.data /\ a.completions = <<>> /\ a.selection = -1
        /\ a.hintSelection = -1
    BY <2>3, <2>4, RefreshedIs DEF SameRest
  <2>6. Selected(got, chosen) = a
    BY <1>7, <1>8, <2>1, <2>2, <2>4 DEF Selected
  <2>7. /\ Well(line') /\ HintFits(line') /\ Len(line'.data) <= MaxLen
        /\ line'.completions = <<>> /\ line'.selection = -1
    BY <1>4, <1>7, <1>8, <2>5, <2>6 DEF HintFits
  <2>8. Well(line)' /\ HintFits(line)'
    BY <1>4, <2>7, NextLine
  <2> QED BY <1>4, <1>6, <2>7, <2>8 DEF Inv
<1>9. CASE got.completions # <<>>
  <2>1. PICK o : o = IF first THEN got ELSE origin
    OBVIOUS
  <2>2. Cycled(got, o) /\ origin' = o
    BY <1>4, <1>7, <1>9, <2>1
  <2>3. chosen \in -1..(Len(got.completions) - 1)
    <3>1. Len(got.completions) \in Nat
      BY <1>7 DEF Well, Lines
    <3>2. got.selection \in -1..(Len(got.completions) - 1)
      BY <2>2 DEF Cycled
    <3> QED BY <1>3, <1>9, <3>1, <3>2, NeighbourIs
  <2>4. Cycled(Selected(got, chosen), o)
    BY <2>2, <2>3, SelectedIs
  <2>5. PICK s : s = line' /\ Cycled(s, o)
    BY <1>4, <2>2, <2>4
  <2>6. /\ Well(s) /\ HintFits(s) /\ Len(s.data) <= MaxLen /\ s.completions = got.completions
    <3>1. Well(s) /\ s.hintSelection = -1 /\ s.completions = o.completions
      BY <2>5 DEF Cycled
    <3>2. Len(s.data) <= MaxLen
      BY <2>5, CycledFits
    <3>3. got.completions = o.completions
      BY <2>2 DEF Cycled
    <3> QED BY <3>1, <3>2, <3>3 DEF HintFits
  <2>7. Well(line') /\ HintFits(line') /\ Cycled(line', origin')
    BY <2>2, <2>5, <2>6
  <2>8. Well(line)' /\ HintFits(line)' /\ Cycled(line, origin)'
    BY <1>4, <2>7, NextLine
  <2> QED BY <1>4, <1>6, <1>9, <2>5, <2>6, <2>8 DEF Inv
<1> QED BY <1>8, <1>9
-----------------------------------------------------------------------------
(* Every step.                                                              *)

\* Inv is kept by every step.
LEMMA NextInv ==
  ASSUME Inv, Plain, [Next]_vars
  PROVE  Inv'
<1>1. CASE Next
  <2>1. ASSUME NEW step \in {-1, 1}, Complete(step) PROVE Inv'
    BY <2>1, CompleteInv
  <2>2. ASSUME NEW step \in {-1, 1}, HintMove(step) PROVE Inv'
    BY <2>2, ChoosingInv
  <2>3. CASE CompleteLine
    BY <2>3, CompleteLineInv
  <2>4. CASE SecondTab \/ OtherKey \/ AnswerYes \/ AnswerNo \/ NextRow \/ Pause
             \/ NextPage \/ OneMore \/ StopList \/ EndOfList
    BY <2>4, ListInv
  <2>5. ASSUME NEW c \in Characters, Type(c) PROVE Inv'
    BY <2>5, EditingInv
  <2>6. CASE Backspace
    BY <2>6, EditingInv
  <2>7. ASSUME NEW p \in 0..Len(line.data), MoveTo(p) PROVE Inv'
    BY <2>7, EditingInv
  <2>8. ASSUME NEW text \in Preloads, NEW p \in 0..Len(text), SetState(text, p) PROVE Inv'
    BY <2>8, ChoosingInv
  <2> QED BY <1>1, <2>1, <2>2, <2>3, <2>4, <2>5, <2>6, <2>7, <2>8 DEF Next
<1>2. CASE UNCHANGED vars
  <2>1. /\ line' = line /\ phase' = phase /\ row' = row /\ pauseRow' = pauseRow
        /\ options' = options /\ size' = size /\ origin' = origin /\ listed' = listed
        /\ onPage' = onPage
    BY <1>2 DEF vars
  <2>2. /\ Well(line') => Well(line)'
        /\ HintFits(line') => HintFits(line)'
        /\ Anchored(line') /\ Room(line', line'.contextLength) =>
             Anchored(line)' /\ Room(line, line.contextLength)'
        /\ Cycled(line', origin') => Cycled(line, origin)'
    BY <2>1, NextLine
  <2>3. Listing => Listing'
    <3>1. Columns' = Columns /\ RowCount' = RowCount /\ PageRows' = PageRows
      BY <2>1, NextLine, ColumnsAre
    <3> QED BY <2>1, <3>1 DEF Listing
  <2> QED BY <2>1, <2>2, <2>3 DEF Inv
<1> QED BY <1>1, <1>2

\* The invariant gives the types.
LEMMA InvTypes ==
  ASSUME Inv
  PROVE  TypeOK
<1>1. /\ line \in Lines /\ line.pos \in Nat /\ Len(line.data) \in Nat /\ line.pos <= Len(line.data)
      /\ Len(line.completions) \in Nat /\ line.contextLength \in Nat /\ line.hintSelection \in Int
  BY DEF Inv, Well, Lines, Text
<1>2. line.selection \in -1..(Len(line.completions) - 1)
  <2>1. CASE line.selection = -1
    BY <1>1, <2>1
  <2>2. CASE line.selection # -1
    <3>1. Cycled(line, origin)
      BY <2>2 DEF Inv
    <3> QED BY <3>1 DEF Cycled
  <2> QED BY <2>1, <2>2
<1>3. line.completions # <<>> => line.contextLength \in 0..line.pos
  <2>1. CASE phase = "editing" /\ line.completions # <<>>
    <3>1. Cycled(line, origin)
      BY <2>1 DEF Inv
    <3> QED BY <3>1, CycledFits
  <2>2. CASE phase # "editing"
    <3>1. line.contextLength <= line.pos
      BY <2>2 DEF Inv, Anchored
    <3> QED BY <1>1, <3>1
  <2> QED BY <2>1, <2>2
<1>4. line.hintSelection \in -1..(Len(Words) - 1)
  <2>1. PICK n \in Nat, m \in Nat :
          n = Len(CallHinter(line.data, line.pos)) /\ m = Len(Words) /\ n <= m
    BY CallCompleterIs, CompletionAssumption DEF CallHinter
  <2>2. line.hintSelection >= -1 /\ (line.hintSelection # -1 => line.hintSelection < n)
    BY <2>1 DEF Inv, HintFits
  <2> QED BY <1>1, <2>1, <2>2
<1>5. phase \in {"listing", "paused"} => row \in 0..RowCount
  BY DEF Inv, Listing
<1> QED BY <1>1, <1>2, <1>3, <1>4, <1>5 DEF Inv, TypeOK

\* It gives that the list shows every completion once.
LEMMA InvLists ==
  ASSUME Inv
  PROVE  ListedOnce
<1>1. CASE phase \in {"listing", "paused"}
  <2>1. Listing /\ line.completions # <<>> /\ Anchored(line) /\ Room(line, line.contextLength)
        /\ size \in Sizes
    BY <1>1 DEF Inv
  <2>2. PICK C \in Nat, R \in Nat \ {0}, L \in Nat :
          C = Columns /\ R = RowCount /\ L = Len(line.completions) /\ L <= C * R
    BY <2>1, ColumnsAre, GridIs
  <2>3. Shown(listed, row, C, R, L)
    BY <2>1, <2>2 DEF Listing
  <2>4. ASSUME row = RowCount PROVE Range(listed) = 0..(Len(line.completions) - 1)
    <3>1. PICK s : s = listed /\ Shown(s, R, C, R, L)
      BY <2>2, <2>3, <2>4
    <3>2. Range(s) = 0..(L - 1)
      BY <2>2, <3>1, AllShown
    <3> QED BY <2>2, <3>1, <3>2
  <2>5. onPage <= size.rows - 1
    <3>1. size.rows - 1 \in Int
      BY <2>1, CompletionAssumption
    <3>2. /\ onPage + pauseRow - row = size.rows - 1 /\ row <= pauseRow
          /\ onPage \in Int /\ pauseRow \in Int /\ row \in Int
      BY <2>1, <2>2 DEF Listing, PageRows
    <3> QED BY <3>1, <3>2
  <2> QED BY <2>3, <2>4, <2>5 DEF ListedOnce, Shown
<1>2. CASE phase \notin {"listing", "paused"}
  <2>1. listed = <<>>
    BY <1>2 DEF Inv
  <2>2. IsInjective(<<>>)
    BY DEF IsInjective
  <2> QED BY <1>2, <2>1, <2>2 DEF ListedOnce
<1> QED BY <1>1, <1>2

\* And that going through the completions changes nothing but the word.
LEMMA InvCycles ==
  ASSUME Inv
  PROVE  CyclingExact
<1> SUFFICES ASSUME phase = "editing", line.completions # <<>>
             PROVE  CyclingExact
  BY DEF CyclingExact
<1>1. Cycled(line, origin) /\ options \in OptionVals
  BY DEF Inv
<1>2. PICK s, o : s = line /\ o = origin /\ Cycled(s, o)
  BY <1>1
<1>3. /\ SubSeq(s.data, 1, o.pos) = SubSeq(o.data, 1, o.pos)
      /\ SubSeq(s.data, s.pos + 1, Len(s.data)) = SubSeq(o.data, o.pos + 1, Len(o.data))
      /\ s.selection = -1 => s.pos = o.pos
      /\ s.selection # -1 =>
           Same(SubSeq(s.data, o.pos - o.contextLength + 1, s.pos),
                s.completions[s.selection + 1], options.ignoreCase)
  BY <1>1, <1>2, CycledIsExact
<1>4. o.pos <= s.pos /\ o.pos \in Nat /\ s.pos \in Nat
  BY <1>2, CycledFits DEF Cycled, Anchored, Well, Lines
<1> QED BY <1>2, <1>3, <1>4 DEF CyclingExact

\* The invariant holds in all reachable states.
LEMMA Invariant ==
  ASSUME Plain
  PROVE  Spec => []Inv
<1>1. Init => Inv
  BY InitInv
<1>2. Inv /\ [Next]_vars => Inv'
  BY NextInv
<1> QED BY <1>1, <1>2, PTL DEF Spec

\* With none of the defects, the cursor, the selections and the rows of the list are
\* always within what they number, and the line fits: do_complete_line(), complete(),
\* hint_move() and the pages of the list never index what is not there.
THEOREM Typing ==
  ASSUME Plain
  PROVE  Spec => []TypeOK
<1>1. Inv => TypeOK
  BY InvTypes
<1> QED BY Invariant, <1>1, PTL

\* With none of the defects, going back and forth through the completions, however
\* often, changes the word before the cursor and nothing else: it is the selected
\* completion, and with none selected it is what it was.
THEOREM OnlyTheWordChanges ==
  ASSUME Plain
  PROVE  Spec => []CyclingExact
<1>1. Inv => CyclingExact
  BY InvCycles
<1> QED BY Invariant, <1>1, PTL

\* With none of the defects, the list shows every completion once whatever their
\* number and lengths and the size of the terminal, and waits before a row is lost.
THEOREM EachIsListedOnce ==
  ASSUME Plain
  PROVE  Spec => []ListedOnce
<1>1. Inv => ListedOnce
  BY InvLists
<1> QED BY Invariant, <1>1, PTL
=============================================================================
