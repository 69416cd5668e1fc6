-------------------------- MODULE RenderingProofs --------------------------
(***************************************************************************)
(* Drawing, for any line, prompt, hints and width: what the library takes   *)
(* the cursor's row to be stays within the screen and below the prompt's    *)
(* first row, and no hint is forgotten.                                     *)
(***************************************************************************)
EXTENDS Rendering, SequenceTheorems, WellFoundedInduction, TLAPS

-----------------------------------------------------------------------------
(* Numbers and sequences.                                                   *)

\* A set of natural numbers has a least element.
LEMMA LeastNatural ==
  ASSUME NEW T, T \subseteq Nat, T # {}
  PROVE  \E x \in T : \A y \in T : x <= y
<1>1. PICK x \in T : \A y \in T : ~ (<<y, x>> \in OpToRel(<, Nat))
  BY NatLessThanWellFounded, WFMin
<1>2. \A y \in T : ~ (y < x)
  BY <1>1 DEF OpToRel
<1> QED BY <1>2, SMT

\* A set with 0 that has the successor of each number in it has all of them.
LEMMA Successors ==
  ASSUME NEW P, 0 \in P, \A n \in Nat : n \in P => n + 1 \in P
  PROVE  Nat \subseteq P
<1> SUFFICES ASSUME Nat \ P # {} PROVE FALSE
  OBVIOUS
<1>1. PICK x \in Nat \ P : \A y \in Nat \ P : x <= y
  BY LeastNatural
<1>2. x # 0
  OBVIOUS
<1>3. x - 1 \in Nat /\ x - 1 \in P
  BY <1>1, <1>2
<1> QED BY <1>3

\* A set of positions has a last one.
LEMMA LastPosition ==
  ASSUME NEW n \in Nat, NEW T, T \subseteq 1..n, T # {}
  PROVE  \E x \in T : \A y \in T : y <= x
<1> DEFINE R == {n - x : x \in T}
<1>1. R \subseteq Nat /\ R # {}
  <2>1. \A x \in T : n - x \in Nat
    <3>1. \A x \in 1..n : n - x \in Nat
      OBVIOUS
    <3> QED BY <3>1
  <2> QED BY <2>1
<1>2. PICK r \in R : \A q \in R : r <= q
  BY <1>1, LeastNatural
<1>3. PICK x \in T : r = n - x
  BY <1>2
<1>4. \A y \in T : n - x <= n - y
  BY <1>2, <1>3
<1>5. ASSUME NEW y \in T PROVE y <= x
  <2>1. x \in Int /\ y \in Int /\ n - x <= n - y
    BY <1>4
  <2> QED BY <2>1
<1> QED BY <1>5

\* The bounds are numbers.
LEMMA Bounds ==
  MaxHintRows \in Nat /\ MaxLen \in Nat /\ MaxSteps \in Nat /\ Height \in Nat \ {0}
<1>1. {MaxHintRows, MaxLen, MaxSteps} \subseteq Nat /\ Height \in Nat \ {0}
  BY RenderingAssumption, Zenon
<1> QED BY <1>1

-----------------------------------------------------------------------------
(* The terminal.                                                            *)

\* The fields of a terminal.
TermFields == {"rows", "x", "y", "top", "wrap", "columns"}

\* The cursor is on the screen.
IsTerm(t) ==
  /\ DOMAIN t = TermFields
  /\ t.y \in Int /\ t.top \in Int /\ t.columns \in Nat \ {0}
  /\ t.top <= t.y /\ t.y < t.top + Height

\* The screen scrolls when the cursor moves below it.
LEMMA MovedIs ==
  ASSUME NEW t, IsTerm(t), NEW x, NEW y \in Int, t.top <= y
  PROVE  IsTerm(Moved(t, x, y)) /\ Moved(t, x, y).columns = t.columns
<1>1. Height \in Nat \ {0}
  BY RenderingAssumption
<1> DEFINE m == Moved(t, x, y)
<1>2. /\ DOMAIN m = TermFields /\ m.y = y /\ m.top = Upper(t.top, y - Height + 1)
      /\ m.columns = t.columns
  BY DEF Moved, IsTerm, TermFields
<1>3. m.top \in Int /\ m.top <= y /\ y < m.top + Height
  BY <1>1, <1>2 DEF Upper, IsTerm
<1> HIDE DEF m
<1>4. IsTerm(m)
  BY <1>2, <1>3 DEF IsTerm
<1> QED BY <1>2, <1>4 DEF m

\* A line feed.
LEMMA FeedIs ==
  ASSUME NEW t, IsTerm(t)
  PROVE  IsTerm(Feed(t)) /\ Feed(t).columns = t.columns
<1>1. t.y + 1 \in Int /\ t.top <= t.y + 1
  BY DEF IsTerm
<1> QED BY <1>1, MovedIs DEF Feed

\* A character.
LEMMA PutIs ==
  ASSUME NEW t, IsTerm(t), NEW cell
  PROVE  IsTerm(Put(t, cell)) /\ Put(t, cell).columns = t.columns
<1> DEFINE at == IF t.wrap THEN Feed(t) ELSE t
<1>1. IsTerm(at) /\ at.columns = t.columns
  BY FeedIs
<1>2. CASE cell.c = Newline
  BY <1>2, FeedIs DEF Put
<1>3. CASE cell.c # Newline
  <2> HIDE DEF at
  <2> DEFINE last == at.x = at.columns - 1
             r == [at EXCEPT !.rows[at.y + 1] = Placed(@, at.x, cell),
                             !.x = IF last THEN @ ELSE @ + 1, !.wrap = last]
  <2>1. /\ DOMAIN r = DOMAIN at /\ r.y = at.y /\ r.top = at.top /\ r.columns = at.columns
    BY <1>1 DEF IsTerm, TermFields
  <2>2. Put(t, cell) = r
    BY <1>3 DEF Put, at
  <2> HIDE DEF r
  <2>3. IsTerm(r)
    BY <1>1, <2>1 DEF IsTerm
  <2> QED BY <1>1, <2>1, <2>2, <2>3
<1> QED BY <1>2, <1>3

\* The cursor jumps within the screen.
LEMMA JumpIs ==
  ASSUME NEW t, IsTerm(t), NEW x, NEW n \in Int
  PROVE  IsTerm(JumpCursor(t, x, n)) /\ JumpCursor(t, x, n).columns = t.columns
<1> DEFINE y == Upper(t.top, Lower(t.top + Height - 1, t.y + n))
<1>1. y \in Int /\ t.top <= y
  BY Bounds DEF IsTerm, Upper, Lower
<1> HIDE DEF y
<1>2. JumpCursor(t, x, n) = Moved(t, Lower(x, t.columns - 1), y)
  BY DEF JumpCursor, y
<1> QED BY <1>1, <1>2, MovedIs

\* The rest of the screen is cleared.
LEMMA ClearIs ==
  ASSUME NEW t, IsTerm(t)
  PROVE  IsTerm(ClearToEnd(t)) /\ ClearToEnd(t).columns = t.columns
BY DEF ClearToEnd, IsTerm, TermFields

\* The window has another width.
LEMMA ResizedIs ==
  ASSUME NEW t, IsTerm(t), NEW columns \in Nat \ {0}
  PROVE  IsTerm(Resized(t, columns)) /\ Resized(t, columns).columns = columns
BY DEF Resized, IsTerm, TermFields

\* A terminal that was reset.
LEMMA FreshIs ==
  ASSUME NEW columns \in Nat \ {0}
  PROVE  IsTerm(Fresh(columns)) /\ Fresh(columns).columns = columns
BY Bounds DEF Fresh, IsTerm, TermFields

\* The terminal after each of some characters.
Puts(f, t, cells, n) == f[0] = t /\ \A k \in 1..n : f[k] = Put(f[k - 1], cells[k])

\* There are these terminals.
LEMMA PutsExist ==
  ASSUME NEW t, NEW cells, NEW N \in Nat
  PROVE  \E f : Puts(f, t, cells, N)
<1> DEFINE P == {n \in Nat : \E f : Puts(f, t, cells, n)}
<1>1. 0 \in P
  <2> DEFINE f == [k \in 0..0 |-> t]
  <2>1. Puts(f, t, cells, 0)
    BY DEF Puts
  <2> QED BY <2>1
<1>2. ASSUME NEW n \in Nat, n \in P PROVE n + 1 \in P
  <2>1. PICK f : Puts(f, t, cells, n)
    BY <1>2
  <2>2. PICK m : m = Put(f[n], cells[n + 1])
    OBVIOUS
  <2> DEFINE g == [k \in 0..(n + 1) |-> IF k = n + 1 THEN m ELSE f[k]]
  <2>3. g[0] = t /\ g[n + 1] = m /\ \A k \in 0..n : g[k] = f[k]
    BY <2>1 DEF Puts
  <2> HIDE DEF g
  <2>4. ASSUME NEW k \in 1..(n + 1) PROVE g[k] = Put(g[k - 1], cells[k])
    <3>1. CASE k = n + 1
      <4>1. k - 1 = n /\ n \in 0..n
        BY <3>1
      <4> QED BY <2>2, <2>3, <3>1, <4>1
    <3>2. CASE k # n + 1
      <4>1. k \in 1..n /\ k \in 0..n /\ k - 1 \in 0..n
        BY <3>2
      <4> QED BY <2>1, <2>3, <4>1 DEF Puts
    <3> QED BY <3>1, <3>2
  <2>5. Puts(g, t, cells, n + 1)
    BY <2>3, <2>4 DEF Puts
  <2> QED BY <2>5
<1> HIDE DEF P
<1>3. Nat \subseteq P
  BY <1>1, <1>2, Successors
<1> QED BY <1>3 DEF P

\* Writing puts the characters one after the other.
LEMMA WrittenPuts ==
  ASSUME NEW t, NEW cells, Len(cells) \in Nat
  PROVE  \E f : Puts(f, t, cells, Len(cells)) /\ Written(t, cells) = f[Len(cells)]
<1> DEFINE N == Len(cells)
           after[i \in 0..N] == IF i = 0 THEN t ELSE Put(after[i - 1], cells[i])
<1>0. N \in Nat
  OBVIOUS
<1> HIDE DEF N
<1>1. PICK f : Puts(f, t, cells, N)
  BY <1>0, PutsExist
<1> DEFINE g == [i \in 0..N |-> f[i]]
<1>2. g = [i \in 0..N |-> IF i = 0 THEN t ELSE Put(g[i - 1], cells[i])]
  <2>1. ASSUME NEW i \in 0..N PROVE g[i] = IF i = 0 THEN t ELSE Put(g[i - 1], cells[i])
    <3>1. CASE i = 0
      BY <1>1, <3>1 DEF Puts
    <3>2. CASE i # 0
      <4>1. i \in 1..N /\ i - 1 \in 0..N
        BY <1>0, <3>2
      <4> QED BY <1>1, <3>2, <4>1 DEF Puts
    <3> QED BY <3>1, <3>2
  <2> QED BY <2>1
<1> HIDE DEF g
<1>3. after = [i \in 0..N |-> IF i = 0 THEN t ELSE Put(after[i - 1], cells[i])]
  BY <1>2
<1>4. Written(t, cells) = after[N]
  BY DEF Written, N
<1> HIDE DEF after
<1>5. Puts(after, t, cells, N)
  <2>1. after[0] = t
    BY <1>0, <1>3
  <2>2. ASSUME NEW k \in 1..N PROVE after[k] = Put(after[k - 1], cells[k])
    <3>1. k \in 0..N /\ k # 0
      BY <1>0
    <3> QED BY <1>3, <3>1
  <2> QED BY <2>1, <2>2 DEF Puts
<1> QED BY <1>4, <1>5 DEF N

\* What is written keeps the cursor on the screen.
LEMMA WrittenIs ==
  ASSUME NEW t, IsTerm(t), NEW cells, Len(cells) \in Nat
  PROVE  IsTerm(Written(t, cells)) /\ Written(t, cells).columns = t.columns
<1> DEFINE N == Len(cells)
<1>1. PICK f : Puts(f, t, cells, N) /\ Written(t, cells) = f[N]
  BY WrittenPuts
<1> DEFINE Good(k) == IsTerm(f[k]) /\ f[k].columns = t.columns
           P == {n \in Nat : n <= N => Good(n)}
<1>0. N \in Nat
  OBVIOUS
<1> HIDE DEF N
<1>2. 0 \in P
  BY <1>1 DEF Puts
<1>3. ASSUME NEW n \in Nat, n \in P PROVE n + 1 \in P
  <2>1. SUFFICES ASSUME n + 1 <= N PROVE Good(n + 1)
    OBVIOUS
  <2>2. n + 1 \in 1..N /\ (n + 1) - 1 = n /\ n <= N
    BY <1>0, <2>1
  <2>3. f[n + 1] = Put(f[n], cells[n + 1])
    BY <1>1, <2>2 DEF Puts
  <2>4. Good(n)
    BY <1>3, <2>2
  <2> QED BY <2>3, <2>4, PutIs
<1> HIDE DEF P
<1>4. Nat \subseteq P
  BY <1>2, <1>3, Successors
<1>5. Good(N)
  BY <1>0, <1>4 DEF P
<1> QED BY <1>1, <1>5

-----------------------------------------------------------------------------
(* Where text ends up.                                                      *)

\* A place the cursor may be at.
Place == [x : Nat, y : Nat, wrapped : BOOLEAN]

\* The next place.
Advance(at, c, columns, indent) ==
  IF c = Newline THEN [at EXCEPT !.x = indent, !.y = IF at.wrapped THEN @ ELSE @ + 1]
  ELSE [x |-> IF at.x + 1 >= columns THEN 0 ELSE at.x + 1,
        y |-> IF at.x + 1 >= columns THEN at.y + 1 ELSE at.y, wrapped |-> at.x + 1 >= columns]

\* It is not above the one before.
LEMMA AdvanceIs ==
  ASSUME NEW at \in Place, NEW c, NEW columns \in Nat, NEW indent \in Nat
  PROVE  Advance(at, c, columns, indent) \in Place /\ Advance(at, c, columns, indent).y >= at.y
<1>1. CASE c = Newline
  <2>1. PICK y \in Nat : y = (IF at.wrapped THEN at.y ELSE at.y + 1) /\ y >= at.y
    BY DEF Place
  <2>2. Advance(at, c, columns, indent) = [at EXCEPT !.x = indent, !.y = y]
    BY <1>1, <2>1 DEF Advance
  <2>3. [at EXCEPT !.x = indent, !.y = y] \in Place /\ [at EXCEPT !.x = indent, !.y = y].y = y
    BY DEF Place
  <2> QED BY <2>1, <2>2, <2>3
<1>2. CASE c # Newline
  BY <1>2 DEF Advance, Place
<1> QED BY <1>1, <1>2

\* The places of some text, one after the other.
Places(f, text, x, columns, indent, n) ==
  /\ f[0] = [x |-> x, y |-> 0, wrapped |-> FALSE]
  /\ \A k \in 1..n : f[k] = Advance(f[k - 1], text[k], columns, indent)

\* There are these places.
LEMMA PlacesExist ==
  ASSUME NEW text, NEW x, NEW columns, NEW indent, NEW N \in Nat
  PROVE  \E f : Places(f, text, x, columns, indent, N)
<1> DEFINE Is(f, n) == Places(f, text, x, columns, indent, n)
           P == {n \in Nat : \E f : Is(f, n)}
<1>1. 0 \in P
  <2> DEFINE f == [k \in 0..0 |-> [x |-> x, y |-> 0, wrapped |-> FALSE]]
  <2>1. Is(f, 0)
    BY DEF Places
  <2> QED BY <2>1
<1>2. ASSUME NEW n \in Nat, n \in P PROVE n + 1 \in P
  <2>1. PICK f : Is(f, n)
    BY <1>2
  <2>2. PICK m : m = Advance(f[n], text[n + 1], columns, indent)
    OBVIOUS
  <2> DEFINE g == [k \in 0..(n + 1) |-> IF k = n + 1 THEN m ELSE f[k]]
  <2>3. g[0] = f[0] /\ g[n + 1] = m /\ \A k \in 0..n : g[k] = f[k]
    OBVIOUS
  <2> HIDE DEF g
  <2>4. ASSUME NEW k \in 1..(n + 1) PROVE g[k] = Advance(g[k - 1], text[k], columns, indent)
    <3>1. CASE k = n + 1
      <4>1. k - 1 = n /\ n \in 0..n
        BY <3>1
      <4> QED BY <2>2, <2>3, <3>1, <4>1
    <3>2. CASE k # n + 1
      <4>1. k \in 1..n /\ k \in 0..n /\ k - 1 \in 0..n
        BY <3>2
      <4> QED BY <2>1, <2>3, <4>1 DEF Places
    <3> QED BY <3>1, <3>2
  <2>5. Is(g, n + 1)
    BY <2>1, <2>3, <2>4 DEF Places
  <2> QED BY <2>5
<1> HIDE DEF P
<1>3. Nat \subseteq P
  BY <1>1, <1>2, Successors
<1> QED BY <1>3 DEF P

\* virtual_render() goes through these places.
LEMMA RenderPlaces ==
  ASSUME NEW text, Len(text) \in Nat, NEW x, NEW columns, NEW indent
  PROVE  \E f : /\ Places(f, text, x, columns, indent, Len(text))
                /\ VirtualRender(text, x, columns, indent) = f[Len(text)]
<1> DEFINE N == Len(text)
           Next1(at, c) == Advance(at, c, columns, indent)
           start == [x |-> x, y |-> 0, wrapped |-> FALSE]
           after[i \in 0..N] == IF i = 0 THEN start ELSE Next1(after[i - 1], text[i])
<1>0. N \in Nat
  OBVIOUS
<1>4. VirtualRender(text, x, columns, indent) = after[N]
  BY DEF VirtualRender, Advance
<1> HIDE DEF N, Next1
<1>1. PICK f : Places(f, text, x, columns, indent, N)
  BY <1>0, PlacesExist
<1> DEFINE g == [i \in 0..N |-> f[i]]
<1>2. g = [i \in 0..N |-> IF i = 0 THEN start ELSE Next1(g[i - 1], text[i])]
  <2>1. ASSUME NEW i \in 0..N PROVE g[i] = IF i = 0 THEN start ELSE Next1(g[i - 1], text[i])
    <3>1. CASE i = 0
      BY <1>1, <3>1 DEF Places
    <3>2. CASE i # 0
      <4>1. i \in 1..N /\ i - 1 \in 0..N
        BY <1>0, <3>2
      <4> QED BY <1>1, <3>2, <4>1 DEF Places, Next1
    <3> QED BY <3>1, <3>2
  <2> QED BY <2>1
<1> HIDE DEF g
<1>3. after = [i \in 0..N |-> IF i = 0 THEN start ELSE Next1(after[i - 1], text[i])]
  BY <1>2
<1> HIDE DEF after
<1>5. Places(after, text, x, columns, indent, N)
  <2>1. after[0] = start
    BY <1>0, <1>3
  <2>2. ASSUME NEW k \in 1..N PROVE after[k] = Next1(after[k - 1], text[k])
    <3>1. k \in 0..N /\ k # 0
      BY <1>0
    <3> QED BY <1>3, <3>1
  <2> QED BY <2>1, <2>2 DEF Places, Next1
<1> QED BY <1>4, <1>5 DEF N

\* None of these places is above the one before.
LEMMA PlacesAre ==
  ASSUME NEW f, NEW text, NEW x \in Nat, NEW columns \in Nat, NEW indent \in Nat, NEW N \in Nat,
         Places(f, text, x, columns, indent, N), NEW m \in 0..N
  PROVE  \A n \in m..N : f[n] \in Place /\ f[m] \in Place /\ f[n].y >= f[m].y
<1> DEFINE P == {n \in Nat : n <= N => \A k \in 0..n : f[k] \in Place /\ f[n].y >= f[k].y}
<1>1. 0 \in P
  <2>1. f[0] \in Place
    BY DEF Places, Place
  <2> QED BY <2>1 DEF Place
<1>2. ASSUME NEW n \in Nat, n \in P PROVE n + 1 \in P
  <2>1. SUFFICES ASSUME n + 1 <= N
                 PROVE  \A k \in 0..(n + 1) : f[k] \in Place /\ f[n + 1].y >= f[k].y
    OBVIOUS
  <2>2. n + 1 \in 1..N /\ (n + 1) - 1 = n /\ n <= N
    BY <2>1
  <2>3. f[n + 1] = Advance(f[n], text[n + 1], columns, indent)
    BY <2>2 DEF Places
  <2>4. f[n] \in Place /\ \A k \in 0..n : f[k] \in Place /\ f[n].y >= f[k].y
    BY <1>2, <2>2
  <2>5. f[n + 1] \in Place /\ f[n + 1].y >= f[n].y
    BY <2>3, <2>4, AdvanceIs
  <2>7. ASSUME NEW k \in 0..(n + 1) PROVE f[k] \in Place /\ f[n + 1].y >= f[k].y
    <3>1. f[n].y \in Nat /\ f[n + 1].y \in Nat
      BY <2>4, <2>5 DEF Place
    <3>2. CASE k \in 0..n
      <4>1. f[k] \in Place /\ f[k].y \in Nat
        BY <2>4, <3>2 DEF Place
      <4> QED BY <2>4, <2>5, <3>1, <3>2, <4>1
    <3>3. CASE k = n + 1
      BY <2>5, <3>1, <3>3
    <3> QED BY <3>2, <3>3
  <2> QED BY <2>7
<1> HIDE DEF P
<1>3. Nat \subseteq P
  BY <1>1, <1>2, Successors
<1> QED BY <1>3 DEF P

\* There is one last place.
LEMMA PlacesUnique ==
  ASSUME NEW f, NEW g, NEW text, NEW x, NEW columns, NEW indent, NEW N \in Nat,
         Places(f, text, x, columns, indent, N), Places(g, text, x, columns, indent, N)
  PROVE  f[N] = g[N]
<1> DEFINE P == {n \in Nat : n <= N => f[n] = g[n]}
<1>1. 0 \in P
  BY DEF Places
<1>2. ASSUME NEW n \in Nat, n \in P PROVE n + 1 \in P
  <2>1. SUFFICES ASSUME n + 1 <= N PROVE f[n + 1] = g[n + 1]
    OBVIOUS
  <2>2. n + 1 \in 1..N /\ (n + 1) - 1 = n /\ f[n] = g[n]
    BY <1>2, <2>1
  <2> QED BY <2>2 DEF Places
<1> HIDE DEF P
<1>3. Nat \subseteq P
  BY <1>1, <1>2, Successors
<1> QED BY <1>3 DEF P

\* The characters up to a position, and a text's end.
LEMMA RenderIs ==
  ASSUME NEW text, Len(text) \in Nat, NEW x \in Nat, NEW columns \in Nat, NEW indent \in Nat
  PROVE  VirtualRender(text, x, columns, indent) \in Place
<1>1. PICK f : /\ Places(f, text, x, columns, indent, Len(text))
               /\ VirtualRender(text, x, columns, indent) = f[Len(text)]
  BY RenderPlaces
<1>2. 0 \in 0..Len(text) /\ Len(text) \in 0..Len(text)
  OBVIOUS
<1>3. f[Len(text)] \in Place
  BY <1>1, <1>2, PlacesAre
<1> QED BY <1>1, <1>3

\* The end of a text is not above the end of a part.
LEMMA RenderGrows ==
  ASSUME NEW S, NEW text \in Seq(S), NEW p \in 0..Len(text),
         NEW x \in Nat, NEW columns \in Nat, NEW indent \in Nat
  PROVE  VirtualRender(SubSeq(text, 1, p), x, columns, indent).y
           <= VirtualRender(text, x, columns, indent).y
<1> DEFINE N == Len(text)
           part == SubSeq(text, 1, p)
<1>0. N \in Nat /\ p \in Nat /\ p <= N
  OBVIOUS
<1>1. Len(part) = p /\ \A k \in 1..p : part[k] = text[k]
  OBVIOUS
<1> HIDE DEF part
<1>2. PICK f : Places(f, text, x, columns, indent, N) /\ VirtualRender(text, x, columns, indent) = f[N]
  BY <1>0, RenderPlaces
<1> HIDE DEF N
<1>3. PICK g : Places(g, part, x, columns, indent, p) /\ VirtualRender(part, x, columns, indent) = g[p]
  BY <1>0, <1>1, RenderPlaces
<1>4. Places(f, part, x, columns, indent, p)
  <2>1. ASSUME NEW k \in 1..p PROVE f[k] = Advance(f[k - 1], part[k], columns, indent)
    <3>1. k \in 1..N
      BY <1>0
    <3> QED BY <1>1, <1>2, <3>1 DEF Places
  <2> QED BY <1>2, <2>1 DEF Places
<1>5. f[p] = g[p]
  BY <1>0, <1>3, <1>4, PlacesUnique
<1>6. p \in 0..N /\ N \in p..N
  BY <1>0
<1>7. f[N] \in Place /\ f[p] \in Place /\ f[N].y >= f[p].y
  BY <1>0, <1>2, <1>6, PlacesAre
<1>8. f[p].y <= f[N].y
  BY <1>7 DEF Place
<1> QED BY <1>2, <1>3, <1>5, <1>8 DEF part

-----------------------------------------------------------------------------
(* The fields that drawing reads and writes.                                *)

\* A character on the screen.
CellSet == [c : Glyphs, mark : {"", "match", "error", "hint"}]

UiFields == {"term", "data", "pos", "oldPos", "display", "inputLength", "hasNewlines", "selection",
             "prompt", "columns", "extra", "indent", "rowOffset", "modified", "moveCursor", "skipped"}

\* Their types, and that the cursor is below the prompt's first rows.
IsFields(s) ==
  /\ DOMAIN s = UiFields
  /\ IsTerm(s.term) /\ s.columns = s.term.columns
  /\ s.data \in Seq(Glyphs) /\ s.pos \in 0..Len(s.data)
  /\ s.display \in Seq(CellSet) /\ s.inputLength \in Nat
  /\ s.selection \in Int /\ s.prompt \in Seq(Glyphs)
  /\ s.extra \in Nat /\ s.indent \in Nat /\ s.rowOffset \in Nat /\ s.extra <= s.rowOffset
  /\ {s.hasNewlines, s.modified, s.moveCursor, s.skipped} \subseteq BOOLEAN

\* And that the hints come behind the line.
IsUi(s) == IsFields(s) /\ s.inputLength <= Len(s.display)

\* The cursor's place at a position of the line.
LEMMA CursorIs ==
  ASSUME NEW s, IsFields(s), NEW p \in 0..Len(s.data)
  PROVE  CursorAt(s, p) \in Place /\ CursorAt(s, p).y <= CursorAt(s, Len(s.data)).y
<1>1. PICK indent \in Nat : indent = MultilineIndent(s)
  BY DEF MultilineIndent, IsFields
<1>2. s.columns \in Nat /\ s.indent \in Nat /\ s.data \in Seq(Glyphs)
  BY DEF IsFields, IsTerm
<1>3. SubSeq(s.data, 1, Len(s.data)) = s.data /\ Len(SubSeq(s.data, 1, p)) = p /\ p \in Nat
  BY <1>2
<1>4. /\ CursorAt(s, p) = VirtualRender(SubSeq(s.data, 1, p), s.indent, s.columns, indent)
      /\ CursorAt(s, Len(s.data)) = VirtualRender(s.data, s.indent, s.columns, indent)
  BY <1>1, <1>3 DEF CursorAt
<1> QED BY <1>2, <1>3, <1>4, RenderIs, RenderGrows

\* The place behind what is displayed.
LEMMA EndIs == ASSUME NEW s, IsFields(s) PROVE EndOfDisplay(s) \in Place
<1>1. s.display \in Seq(CellSet) /\ s.indent \in Nat /\ s.columns \in Nat
  BY DEF IsFields, IsTerm
<1>2. Len(Chars(s.display)) \in Nat
  BY <1>1 DEF Chars
<1> QED BY <1>1, <1>2, RenderIs DEF EndOfDisplay

-----------------------------------------------------------------------------
(* render().                                                                *)

\* An integer gives spaces.
LEMMA BlanksAre == ASSUME NEW n \in Int PROVE Blanks(n) \in Seq(CellSet)
<1>1. Blank \in CellSet
  BY RenderingAssumption DEF Blank, Plain, CellSet
<1>2. CASE n < 0
  BY <1>2 DEF Blanks
<1>3. CASE n >= 0
  BY <1>1, <1>3 DEF Blanks
<1> QED BY <1>2, <1>3

\* A character is shown: nothing but what is displayed changes.
LEMMA RenderCharIs ==
  ASSUME NEW s, IsFields(s), NEW cell \in CellSet
  PROVE  LET r == RenderChar(s, cell)
         IN /\ IsFields(r)
            /\ r = [s EXCEPT !.display = r.display, !.hasNewlines = r.hasNewlines]
<1> DEFINE r == RenderChar(s, cell)
<1>1. PICK indent \in Nat : indent = MultilineIndent(s)
  BY DEF MultilineIndent, IsFields
<1>2. PICK d \in Seq(CellSet), h \in BOOLEAN : r = [s EXCEPT !.display = d, !.hasNewlines = h]
  <2>1. CASE cell.c = Newline
    <3>1. s.display \o <<cell>> \o Blanks(indent) \in Seq(CellSet)
      BY <1>1, BlanksAre DEF IsFields
    <3>2. r = [s EXCEPT !.display = s.display \o <<cell>> \o Blanks(indent), !.hasNewlines = TRUE]
      BY <1>1, <2>1 DEF RenderChar
    <3> QED BY <3>1, <3>2
  <2>2. CASE cell.c # Newline
    <3>1. Append(s.display, cell) \in Seq(CellSet) /\ s.hasNewlines \in BOOLEAN
      BY DEF IsFields
    <3>2. r = [s EXCEPT !.display = Append(s.display, cell), !.hasNewlines = s.hasNewlines]
      BY <2>2 DEF RenderChar, IsFields, UiFields
    <3> QED BY <3>1, <3>2
  <2> QED BY <2>1, <2>2
<1> HIDE DEF r
<1>3. IsFields(r)
  BY <1>2 DEF IsFields, UiFields
<1>4. r = [s EXCEPT !.display = r.display, !.hasNewlines = r.hasNewlines]
  BY <1>2 DEF IsFields, UiFields
<1> QED BY <1>3, <1>4 DEF r

\* The line's characters, highlighted.
LEMMA HighlightedIs ==
  ASSUME NEW d \in Seq(Glyphs), NEW p
  PROVE  Highlighted(d, p) \in Seq(CellSet) /\ Len(Highlighted(d, p)) = Len(d)
<1>1. PICK pi : pi = MatchingParen(d, p)
  OBVIOUS
<1> DEFINE Cell(i) == [c |-> d[i], mark |-> IF i # pi.index THEN "" ELSE IF pi.error THEN "error" ELSE "match"]
<1>2. \A i \in 1..Len(d) : Cell(i) \in CellSet
  BY DEF CellSet
<1>3. Highlighted(d, p) = [i \in 1..Len(d) |-> Cell(i)]
  BY <1>1 DEF Highlighted
<1> HIDE DEF Cell
<1> QED BY <1>2, <1>3

\* The fields after each of some characters.
Shows1(f, s, cells, n) ==
  /\ f[0] = [s EXCEPT !.display = <<>>, !.hasNewlines = FALSE]
  /\ \A k \in 1..n : f[k] = RenderChar(f[k - 1], cells[k])

\* There are these fields.
LEMMA ShowsExist ==
  ASSUME NEW s, NEW cells, NEW N \in Nat
  PROVE  \E f : Shows1(f, s, cells, N)
<1> DEFINE P == {n \in Nat : \E f : Shows1(f, s, cells, n)}
<1>1. 0 \in P
  <2> DEFINE f == [k \in 0..0 |-> [s EXCEPT !.display = <<>>, !.hasNewlines = FALSE]]
  <2>1. Shows1(f, s, cells, 0)
    BY DEF Shows1
  <2> QED BY <2>1
<1>2. ASSUME NEW n \in Nat, n \in P PROVE n + 1 \in P
  <2>1. PICK f : Shows1(f, s, cells, n)
    BY <1>2
  <2>2. PICK m : m = RenderChar(f[n], cells[n + 1])
    OBVIOUS
  <2> DEFINE g == [k \in 0..(n + 1) |-> IF k = n + 1 THEN m ELSE f[k]]
  <2>3. g[0] = f[0] /\ g[n + 1] = m /\ \A k \in 0..n : g[k] = f[k]
    OBVIOUS
  <2> HIDE DEF g
  <2>4. ASSUME NEW k \in 1..(n + 1) PROVE g[k] = RenderChar(g[k - 1], cells[k])
    <3>1. CASE k = n + 1
      <4>1. k - 1 = n /\ n \in 0..n
        BY <3>1
      <4> QED BY <2>2, <2>3, <3>1, <4>1
    <3>2. CASE k # n + 1
      <4>1. k \in 1..n /\ k \in 0..n /\ k - 1 \in 0..n
        BY <3>2
      <4> QED BY <2>1, <2>3, <4>1 DEF Shows1
    <3> QED BY <3>1, <3>2
  <2>5. Shows1(g, s, cells, n + 1)
    BY <2>1, <2>3, <2>4 DEF Shows1
  <2> QED BY <2>5
<1> HIDE DEF P
<1>3. Nat \subseteq P
  BY <1>1, <1>2, Successors
<1> QED BY <1>3 DEF P

\* render() shows the characters one after the other.
LEMMA RenderedShows ==
  ASSUME NEW s, NEW cells, cells = Highlighted(s.data, s.pos), Len(cells) \in Nat
  PROVE  \E f : Shows1(f, s, cells, Len(cells)) /\ Rendered(s) = f[Len(cells)]
<1> DEFINE N == Len(cells)
           start == [s EXCEPT !.display = <<>>, !.hasNewlines = FALSE]
           shown[i \in 0..N] == IF i = 0 THEN start ELSE RenderChar(shown[i - 1], cells[i])
<1>0. N \in Nat
  OBVIOUS
<1>4. Rendered(s) = shown[N]
  BY DEF Rendered
<1> HIDE DEF N
<1>1. PICK f : Shows1(f, s, cells, N)
  BY <1>0, ShowsExist
<1> DEFINE g == [i \in 0..N |-> f[i]]
<1>2. g = [i \in 0..N |-> IF i = 0 THEN start ELSE RenderChar(g[i - 1], cells[i])]
  <2>1. ASSUME NEW i \in 0..N
        PROVE  g[i] = IF i = 0 THEN start ELSE RenderChar(g[i - 1], cells[i])
    <3>1. CASE i = 0
      BY <1>1, <3>1 DEF Shows1
    <3>2. CASE i # 0
      <4>1. i \in 1..N /\ i - 1 \in 0..N
        BY <1>0, <3>2
      <4> QED BY <1>1, <3>2, <4>1 DEF Shows1
    <3> QED BY <3>1, <3>2
  <2> QED BY <2>1
<1> HIDE DEF g, start
<1>3. shown = [i \in 0..N |-> IF i = 0 THEN start ELSE RenderChar(shown[i - 1], cells[i])]
  BY <1>2
<1> HIDE DEF shown
<1>5. Shows1(shown, s, cells, N)
  <2>1. shown[0] = start
    BY <1>0, <1>3
  <2>2. ASSUME NEW k \in 1..N PROVE shown[k] = RenderChar(shown[k - 1], cells[k])
    <3>1. k \in 0..N /\ k # 0
      BY <1>0
    <3> QED BY <1>3, <3>1
  <2> QED BY <2>1, <2>2 DEF Shows1, start
<1> QED BY <1>4, <1>5 DEF N

\* Nothing but what is displayed changes.
LEMMA RenderedIs ==
  ASSUME NEW s, IsFields(s)
  PROVE  LET r == Rendered(s)
         IN /\ IsFields(r)
            /\ r = [s EXCEPT !.display = r.display, !.hasNewlines = r.hasNewlines]
<1>1. PICK cells \in Seq(CellSet) : cells = Highlighted(s.data, s.pos)
  BY HighlightedIs DEF IsFields
<1> DEFINE N == Len(cells)
<1>0. N \in Nat /\ \A k \in 1..N : cells[k] \in CellSet
  OBVIOUS
<1>2. PICK f : Shows1(f, s, cells, N) /\ Rendered(s) = f[N]
  BY <1>1, RenderedShows
<1> HIDE DEF N
<1> DEFINE Good(r) == IsFields(r) /\ r = [s EXCEPT !.display = r.display, !.hasNewlines = r.hasNewlines]
           P == {n \in Nat : n <= N => Good(f[n])}
<1>3. Good(f[0])
  <2>1. f[0] = [s EXCEPT !.display = <<>>, !.hasNewlines = FALSE]
    BY <1>2 DEF Shows1
  <2>2. IsFields(f[0])
    BY <2>1 DEF IsFields, UiFields
  <2>3. f[0] = [s EXCEPT !.display = f[0].display, !.hasNewlines = f[0].hasNewlines]
    BY <2>1 DEF IsFields, UiFields
  <2> QED BY <2>2, <2>3
<1>4. ASSUME NEW n \in Nat, n \in P PROVE n + 1 \in P
  <2>1. SUFFICES ASSUME n + 1 <= N PROVE Good(f[n + 1])
    OBVIOUS
  <2>2. n + 1 \in 1..N /\ (n + 1) - 1 = n /\ n <= N
    BY <1>0, <2>1
  <2>3. PICK before : before = f[n]
    OBVIOUS
  <2>4. PICK r : r = RenderChar(before, cells[n + 1]) /\ r = f[n + 1]
    BY <1>2, <2>2, <2>3 DEF Shows1
  <2>5. Good(before)
    BY <1>4, <2>2, <2>3
  <2>6. IsFields(r) /\ r = [before EXCEPT !.display = r.display, !.hasNewlines = r.hasNewlines]
    <3>1. PICK cell \in CellSet : cell = cells[n + 1]
      BY <1>0, <2>2
    <3>2. IsFields(before) /\ r = RenderChar(before, cell)
      BY <2>4, <2>5, <3>1
    <3> QED BY <3>2, RenderCharIs, Zenon
  <2>7. r = [s EXCEPT !.display = r.display, !.hasNewlines = r.hasNewlines]
    BY <2>5, <2>6 DEF IsFields, UiFields
  <2> QED BY <2>4, <2>6, <2>7
<1>5. 0 \in P
  BY <1>3
<1> HIDE DEF P, Good
<1>6. Nat \subseteq P
  BY <1>4, <1>5, Successors
<1>7. Good(f[N])
  BY <1>0, <1>6 DEF P
<1> QED BY <1>2, <1>7 DEF Good

\* What handle_hints() may be asked for.
HintActions == {"REGENERATE", "REPAINT", "SKIP", "TRIM"}

\* What render() leaves alone.
RenderKeeps(s, r) ==
  /\ r.term = s.term /\ r.data = s.data /\ r.pos = s.pos /\ r.oldPos = s.oldPos
  /\ r.selection = s.selection /\ r.prompt = s.prompt /\ r.columns = s.columns
  /\ r.extra = s.extra /\ r.indent = s.indent /\ r.rowOffset = s.rowOffset
  /\ r.moveCursor = s.moveCursor /\ r.skipped = s.skipped

\* render() leaves the line alone.
LEMMA RenderShowsLine ==
  ASSUME NEW s, IsUi(s), NEW action \in HintActions
  PROVE  LET r == Render(s, action) IN IsUi(r) /\ RenderKeeps(s, r)
<1> DEFINE r == Render(s, action)
<1>0. IsFields(s)
  BY DEF IsUi
<1>1. CASE action = "SKIP"
  <2>1. r = s
    BY <1>1 DEF Render
  <2> QED BY <2>1 DEF RenderKeeps
<1>2. CASE action = "TRIM"
  <2>1. PICK d \in Seq(CellSet) : d = SubSeq(s.display, 1, s.inputLength) /\ Len(d) = s.inputLength
    <3>1. PICK n \in Nat, e \in Seq(CellSet) : n = s.inputLength /\ e = s.display /\ n <= Len(e)
      BY DEF IsUi, IsFields
    <3>2. SubSeq(e, 1, n) \in Seq(CellSet) /\ Len(SubSeq(e, 1, n)) = n
      BY <3>1
    <3> QED BY <3>1, <3>2
  <2>2. r = [s EXCEPT !.display = d, !.modified = FALSE]
    BY <1>2, <2>1 DEF Render
  <2> HIDE DEF r
  <2>3. IsUi(r)
    BY <1>0, <2>1, <2>2 DEF IsUi, IsFields, UiFields
  <2>4. RenderKeeps(s, r)
    BY <1>0, <2>2 DEF RenderKeeps, IsFields, UiFields
  <2> QED BY <2>3, <2>4 DEF r
<1>3. CASE action \in {"REGENERATE", "REPAINT"}
  <2>1. PICK q : q = Rendered(s)
    OBVIOUS
  <2>2. IsFields(q) /\ q = [s EXCEPT !.display = q.display, !.hasNewlines = q.hasNewlines]
    BY <1>0, <2>1, RenderedIs, Zenon
  <2>3. r = [q EXCEPT !.inputLength = Len(q.display), !.modified = FALSE]
    BY <1>3, <2>1 DEF Render
  <2> HIDE DEF r
  <2>4. Len(q.display) \in Nat
    BY <2>2 DEF IsFields
  <2>5. IsUi(r)
    BY <2>2, <2>3, <2>4 DEF IsUi, IsFields, UiFields
  <2>6. RenderKeeps(s, r)
    BY <1>0, <2>2, <2>3 DEF RenderKeeps, IsFields, UiFields
  <2> QED BY <2>5, <2>6 DEF r
<1> QED BY <1>1, <1>2, <1>3 DEF HintActions

\* All that is displayed is the line's when it is rendered anew.
LEMMA RenderedIsLine ==
  ASSUME NEW s, IsFields(s), NEW action \in {"REGENERATE", "REPAINT"}
  PROVE  Render(s, action).inputLength = Len(Render(s, action).display)
<1>1. PICK q : q = Rendered(s)
  OBVIOUS
<1>2. IsFields(q)
  BY <1>1, RenderedIs, Zenon
<1>3. Render(s, action) = [q EXCEPT !.inputLength = Len(q.display), !.modified = FALSE]
  BY <1>1 DEF Render
<1> QED BY <1>2, <1>3 DEF IsFields, UiFields

-----------------------------------------------------------------------------
(* The hints.                                                               *)

\* The context is the end of the line.
LEMMA ContextIs ==
  ASSUME NEW d \in Seq(Glyphs)
  PROVE  /\ ContextLength(d) \in 0..Len(d)
         /\ Context(d) \in Seq(Glyphs) /\ Len(Context(d)) = ContextLength(d)
<1> DEFINE breaks == {i \in DOMAIN d : d[i] \in WordBreaks}
<1>0. Len(d) \in Nat /\ breaks \subseteq 1..Len(d)
  OBVIOUS
<1> DEFINE last == CHOOSE i \in breaks : \A j \in breaks : j <= i
<1>1. ContextLength(d) = Len(d) - (IF breaks = {} THEN 0 ELSE last)
  BY DEF ContextLength
<1>4. breaks # {} => last \in breaks
  <2> HIDE DEF breaks
  <2>1. ASSUME breaks # {} PROVE \E i \in breaks : \A j \in breaks : j <= i
    BY <1>0, <2>1, LastPosition
  <2> QED BY <2>1
<1> HIDE DEF breaks, last
<1>2. ASSUME breaks = {} PROVE ContextLength(d) \in 0..Len(d)
  BY <1>0, <1>1, <1>2
<1>3. ASSUME breaks # {} PROVE ContextLength(d) \in 0..Len(d)
  <2>1. PICK i \in 1..Len(d) : i = last
    BY <1>0, <1>3, <1>4
  <2> QED BY <1>0, <1>1, <1>3, <2>1
<1>5. PICK n \in Nat : n = ContextLength(d) /\ n <= Len(d)
  BY <1>2, <1>3
<1>6. \A i \in (Len(d) - n + 1)..Len(d) : d[i] \in Glyphs
  BY <1>5
<1>7. /\ SubSeq(d, Len(d) - n + 1, Len(d)) \in Seq(Glyphs)
      /\ Len(SubSeq(d, Len(d) - n + 1, Len(d))) = n
  BY <1>0, <1>5, <1>6
<1> QED BY <1>2, <1>3, <1>5, <1>7 DEF Context

\* The hints there are for a line.
HintsFor(d) == Hints(Context(d))

\* They are texts.
LEMMA HintsAre ==
  ASSUME NEW d \in Seq(Glyphs), Len(d) <= MaxLen
  PROVE  HintsFor(d) \in Seq(Seq(Glyphs))
<1>1. PICK n \in Nat, c \in Seq(Glyphs) : c = Context(d) /\ n = Len(c) /\ n <= Len(d)
  BY ContextIs
<1>0. MaxLen \in Nat /\ Len(d) \in Nat
  BY Bounds
<1>2. n \in 0..MaxLen /\ c \in [1..n -> Glyphs]
  BY <1>0, <1>1
<1>3. c \in BoundedSeq(Glyphs, MaxLen)
  BY <1>2 DEF BoundedSeq, SeqOf
<1> QED BY <1>1, <1>3, RenderingAssumption DEF HintsFor

\* A hint's characters.
LEMMA HintCellsAre ==
  ASSUME NEW text \in Seq(Glyphs)
  PROVE  HintCells(text) \in Seq(CellSet) /\ Len(HintCells(text)) = Len(text)
<1>1. \A i \in 1..Len(text) : [c |-> text[i], mark |-> "hint"] \in CellSet
  BY DEF CellSet
<1>2. HintCells(text) = [i \in 1..Len(text) |-> [c |-> text[i], mark |-> "hint"]]
  BY DEF HintCells
<1> QED BY <1>1, <1>2

\* The part of a text from a position on, up to another that may be before it.
LEMMA PartIs ==
  ASSUME NEW S, NEW text \in Seq(S), NEW m \in Nat \ {0}, NEW n \in Int, n <= Len(text)
  PROVE  /\ SubSeq(text, m, n) \in Seq(S)
         /\ Len(SubSeq(text, m, n)) = IF m <= n THEN n - m + 1 ELSE 0
<1>1. \A i \in m..n : text[i] \in S
  OBVIOUS
<1> QED BY <1>1, SubSeqProperties

\* The hint that is chosen is one of those there are, or none.
Chosen(s) ==
  Len(HintsFor(s.data)) > 1 /\ MaxHintRows > 0 => s.selection \in -1..(Len(HintsFor(s.data)) - 1)

\* Whether there is a hint to be shown for a line.
Wanted(d) ==
  LET hints == HintsFor(d)
  IN \/ Len(hints) = 1 /\ Len(hints[1]) > ContextLength(d)
     \/ Len(hints) > 1 /\ MaxHintRows > 0

\* The column the context is in.
LEMMA ColumnIs == ASSUME NEW s, IsFields(s) PROVE HintColumn(s) \in Int
<1> DEFINE newlines == {i \in DOMAIN s.data : s.data[i] = Newline}
           last == CHOOSE i \in newlines : \A j \in newlines : j <= i
           start == IF newlines = {} THEN 0 ELSE last
<1>0. Len(s.data) \in Nat /\ newlines \subseteq 1..Len(s.data)
  BY DEF IsFields
<1>1. newlines # {} => last \in newlines
  <2> HIDE DEF newlines
  <2>1. ASSUME newlines # {} PROVE \E i \in newlines : \A j \in newlines : j <= i
    BY <1>0, <2>1, LastPosition
  <2> QED BY <2>1
<1>2. HintColumn(s) = Len(s.data) - start - ContextLength(s.data)
                        + (IF options.indentMultiline \/ start = 0 THEN s.indent ELSE 0)
  BY DEF HintColumn
<1> HIDE DEF newlines, last
<1>3. start \in Int
  <2>1. ASSUME newlines # {} PROVE last \in Int
    <3>1. last \in 1..Len(s.data)
      BY <1>0, <1>1, <2>1
    <3> QED BY <1>0, <3>1
  <2> QED BY <2>1
<1> HIDE DEF start
<1>4. ContextLength(s.data) \in Int /\ s.indent \in Int
  <2>1. s.data \in Seq(Glyphs) /\ s.indent \in Nat
    BY DEF IsFields
  <2>2. ContextLength(s.data) \in 0..Len(s.data)
    BY <2>1, ContextIs
  <2> QED BY <1>0, <2>1, <2>2
<1> QED BY <1>0, <1>2, <1>3, <1>4

\* What is written behind the line.
LEMMA InlineIs ==
  ASSUME NEW s, IsFields(s), Len(s.data) <= MaxLen, Chosen(s)
  PROVE  /\ InlineHint(s) \in Seq(CellSet)
         /\ Wanted(s.data) /\ Len(HintsFor(s.data)) = 1 => Len(InlineHint(s)) > 0
<1>1. s.data \in Seq(Glyphs) /\ s.selection \in Int /\ s.columns \in Int
  BY DEF IsFields, IsTerm
<1>2. PICK hints \in Seq(Seq(Glyphs)) : hints = HintsFor(s.data)
  BY <1>1, HintsAre
<1>3. PICK context \in Nat : context = ContextLength(s.data)
  BY <1>1, ContextIs
<1>4. Len(hints) \in Nat /\ \A i \in 1..Len(hints) : hints[i] \in Seq(Glyphs)
  OBVIOUS
<1>5. PICK column \in Int : column = HintColumn(s)
  BY ColumnIs
<1> DEFINE whole == HintCells(SubSeq(hints[1], context + 1, Len(hints[1])))
           hint == hints[s.selection + 1]
           part == HintCells(SubSeq(hint, context + 1, Lower(Len(hint), s.columns - column)))
<1>6. InlineHint(s) = IF Len(hints) = 1 THEN whole
                      ELSE IF Len(hints) = 0 \/ MaxHintRows = 0 \/ s.selection = -1 THEN <<>>
                      ELSE part
  BY <1>2, <1>3, <1>5 DEF InlineHint, HintsFor
<1> HIDE DEF whole, part
<1>7. CASE Len(hints) = 1
  <2>1. hints[1] \in Seq(Glyphs)
    BY <1>4, <1>7
  <2>2. PICK n \in Nat, text \in Seq(Glyphs) : n = Len(text) /\ text = hints[1]
    BY <2>1
  <2>3. /\ SubSeq(text, context + 1, n) \in Seq(Glyphs)
        /\ n > context => Len(SubSeq(text, context + 1, n)) > 0
    BY <2>2, PartIs
  <2>4. whole \in Seq(CellSet) /\ (n > context => Len(whole) > 0)
    BY <2>2, <2>3, HintCellsAre DEF whole
  <2>5. Wanted(s.data) => n > context
    BY <1>2, <1>3, <1>7, <2>2 DEF Wanted
  <2> QED BY <1>6, <1>7, <2>4, <2>5
<1>8. CASE Len(hints) # 1 /\ (Len(hints) = 0 \/ MaxHintRows = 0 \/ s.selection = -1)
  BY <1>2, <1>6, <1>8
<1>9. CASE Len(hints) # 1 /\ ~(Len(hints) = 0 \/ MaxHintRows = 0 \/ s.selection = -1)
  <2>1. MaxHintRows > 0 /\ Len(hints) > 1
    <3>1. PICK n \in Nat : n = Len(hints)
      BY <1>4
    <3> QED BY <1>9, <3>1, Bounds
  <2>2. s.selection + 1 \in 1..Len(hints)
    BY <1>1, <1>2, <1>4, <1>9, <2>1 DEF Chosen
  <2>3. hint \in Seq(Glyphs)
    BY <1>4, <2>2
  <2>4. PICK n \in Int, text \in Seq(Glyphs) : /\ n = Lower(Len(hint), s.columns - column)
                                              /\ text = hint /\ n <= Len(text)
    BY <1>1, <2>3 DEF Lower
  <2>5. SubSeq(text, context + 1, n) \in Seq(Glyphs)
    BY <2>4, PartIs
  <2>6. part \in Seq(CellSet)
    BY <2>4, <2>5, HintCellsAre DEF part
  <2> QED BY <1>2, <1>6, <1>9, <2>6
<1> QED BY <1>7, <1>8, <1>9

\* A remainder.
LEMMA ModuloIs == ASSUME NEW a \in Int, NEW n \in Nat \ {0} PROVE a % n \in 0..(n - 1)
OBVIOUS

\* The rows below the line.
LEMMA RowsAre ==
  ASSUME NEW s, IsFields(s), Len(s.data) <= MaxLen
  PROVE  /\ HintRows(s) \in Seq(Seq(CellSet))
         /\ Len(HintsFor(s.data)) > 1 /\ MaxHintRows > 0 => Len(HintRows(s)) > 0
<1>1. s.data \in Seq(Glyphs) /\ s.columns \in Nat
  BY DEF IsFields, IsTerm
<1>2. PICK hints \in Seq(Seq(Glyphs)) : hints = HintsFor(s.data)
  BY <1>1, HintsAre
<1>3. PICK context \in Seq(Glyphs) : context = Context(s.data)
  BY <1>1, ContextIs
<1>4. PICK count \in Nat : count = Len(hints)
  OBVIOUS
<1>5. PICK column \in Int : column = HintColumn(s)
  BY ColumnIs
<1>6. PICK selection \in Int : selection = s.selection
  BY DEF IsFields
<1> DEFINE Text(row) ==
             LET no == row + selection + 1
             IN IF no = count THEN context
                ELSE hints[((IF no > count THEN no - 1 ELSE no) % count) + 1]
           Row(row) == Cropped(Blanks(column) \o HintCells(Text(row)), s.columns)
           N == Lower(count, MaxHintRows)
<1>7. HintRows(s) = IF count <= 1 THEN <<>> ELSE [row \in 1..N |-> Row(row - 1)]
  BY <1>2, <1>3, <1>4, <1>5, <1>6 DEF HintRows, HintsFor
<1>8. N \in Nat /\ (count > 1 /\ MaxHintRows > 0 => N > 0)
  BY Bounds DEF Lower
<1> HIDE DEF N
<1>9. ASSUME NEW row \in Int, count > 1 PROVE Text(row) \in Seq(Glyphs)
  <2>1. PICK no \in Int : no = row + selection + 1
    OBVIOUS
  <2>2. PICK k \in Int : k = IF no > count THEN no - 1 ELSE no
    OBVIOUS
  <2>3. (k % count) + 1 \in 1..count
    <3>1. count \in Nat \ {0}
      BY <1>9
    <3>2. k % count \in 0..(count - 1)
      BY <3>1, ModuloIs
    <3> QED BY <3>2
  <2>4. PICK i \in 1..count : i = (k % count) + 1
    BY <2>3
  <2>5. hints[i] \in Seq(Glyphs)
    BY <1>4
  <2>6. Text(row) = IF no = count THEN context ELSE hints[i]
    BY <2>1, <2>2, <2>4
  <2> QED BY <2>5, <2>6
<1> HIDE DEF Text
<1>10. ASSUME NEW row \in Int, count > 1 PROVE Row(row) \in Seq(CellSet)
  <2>1. PICK text \in Seq(CellSet) : text = Blanks(column) \o HintCells(Text(row))
    <3>1. Blanks(column) \in Seq(CellSet)
      BY BlanksAre
    <3>2. HintCells(Text(row)) \in Seq(CellSet)
      BY <1>9, <1>10, HintCellsAre
    <3>3. Blanks(column) \o HintCells(Text(row)) \in Seq(CellSet)
      BY <3>1, <3>2
    <3> QED BY <3>3
  <2>2. PICK n \in Int : n = Lower(s.columns, Len(text)) /\ n <= Len(text)
    BY <1>1 DEF Lower
  <2>3. SubSeq(text, 1, n) \in Seq(CellSet)
    BY <2>2, PartIs
  <2> QED BY <2>1, <2>2, <2>3 DEF Cropped
<1> HIDE DEF Row
<1>11. CASE count <= 1
  BY <1>2, <1>4, <1>7, <1>11
<1>12. CASE count > 1
  <2>1. \A row \in 1..N : Row(row - 1) \in Seq(CellSet)
    BY <1>8, <1>10, <1>12
  <2>2. HintRows(s) = [row \in 1..N |-> Row(row - 1)]
    BY <1>7, <1>12
  <2>3. HintRows(s) \in Seq(Seq(CellSet)) /\ Len(HintRows(s)) = N
    BY <1>8, <2>1, <2>2
  <2> QED BY <1>2, <1>4, <1>8, <1>12, <2>3
<1> QED BY <1>11, <1>12

\* Sequences put together, one after the other.
Joins(f, seqs, n) == f[1] = seqs[1] /\ \A k \in 2..n : f[k] = f[k - 1] \o seqs[k]

\* There is what they make.
LEMMA JoinsExist ==
  ASSUME NEW seqs, NEW N \in Nat
  PROVE  \E f : Joins(f, seqs, N)
<1> DEFINE P == {n \in Nat : \E f : Joins(f, seqs, n)}
<1>1. 0 \in P
  <2> DEFINE f == [k \in 1..1 |-> seqs[1]]
  <2>1. Joins(f, seqs, 0)
    BY DEF Joins
  <2> QED BY <2>1
<1>2. ASSUME NEW n \in Nat, n \in P PROVE n + 1 \in P
  <2>1. PICK f : Joins(f, seqs, n)
    BY <1>2
  <2>2. PICK m : m = IF n = 0 THEN seqs[1] ELSE f[n] \o seqs[n + 1]
    OBVIOUS
  <2> DEFINE g == [k \in 1..(n + 1) |-> IF k = n + 1 THEN m ELSE f[k]]
  <2>3. g[n + 1] = m /\ \A k \in 1..n : g[k] = f[k]
    OBVIOUS
  <2> HIDE DEF g
  <2>4. g[1] = seqs[1]
    <3>1. CASE n = 0
      BY <2>2, <2>3, <3>1
    <3>2. CASE n # 0
      <4>1. 1 \in 1..n
        BY <3>2
      <4> QED BY <2>1, <2>3, <4>1 DEF Joins
    <3> QED BY <3>1, <3>2
  <2>5. ASSUME NEW k \in 2..(n + 1) PROVE g[k] = g[k - 1] \o seqs[k]
    <3>1. CASE k = n + 1
      <4>1. k - 1 = n /\ n \in 1..n /\ n # 0
        BY <3>1
      <4> QED BY <2>2, <2>3, <3>1, <4>1
    <3>2. CASE k # n + 1
      <4>1. k \in 2..n /\ k \in 1..n /\ k - 1 \in 1..n
        BY <3>2
      <4> QED BY <2>1, <2>3, <4>1 DEF Joins
    <3> QED BY <3>1, <3>2
  <2>6. Joins(g, seqs, n + 1)
    BY <2>4, <2>5 DEF Joins
  <2> QED BY <2>6
<1> HIDE DEF P
<1>3. Nat \subseteq P
  BY <1>1, <1>2, Successors
<1> QED BY <1>3 DEF P

\* They make a sequence that is no shorter than the first of them.
LEMMA FlattenIs ==
  ASSUME NEW S, NEW seqs \in Seq(Seq(S))
  PROVE  /\ FlattenSeq(seqs) \in Seq(S)
         /\ seqs # <<>> => Len(FlattenSeq(seqs)) >= Len(seqs[1])
<1> DEFINE N == Len(seqs)
           flatten[i \in 1..N] == IF i = 1 THEN seqs[i] ELSE flatten[i - 1] \o seqs[i]
<1>0. N \in Nat /\ \A k \in 1..N : seqs[k] \in Seq(S)
  OBVIOUS
<1>1. CASE N = 0
  <2>1. seqs = <<>>
    BY <1>1
  <2> QED BY <2>1 DEF FlattenSeq
<1>2. CASE N # 0
  <2>1. FlattenSeq(seqs) = flatten[N]
    BY <1>2 DEF FlattenSeq
  <2> HIDE DEF N
  <2>2. PICK f : Joins(f, seqs, N)
    BY <1>0, JoinsExist
  <2> DEFINE g == [i \in 1..N |-> f[i]]
  <2>3. g = [i \in 1..N |-> IF i = 1 THEN seqs[i] ELSE g[i - 1] \o seqs[i]]
    <3>1. ASSUME NEW i \in 1..N PROVE g[i] = IF i = 1 THEN seqs[i] ELSE g[i - 1] \o seqs[i]
      <4>1. CASE i = 1
        BY <2>2, <4>1 DEF Joins
      <4>2. CASE i # 1
        <5>1. i \in 2..N /\ i - 1 \in 1..N
          BY <1>0, <4>2
        <5> QED BY <2>2, <4>2, <5>1 DEF Joins
      <4> QED BY <4>1, <4>2
    <3> QED BY <3>1
  <2> HIDE DEF g
  <2>4. flatten = [i \in 1..N |-> IF i = 1 THEN seqs[i] ELSE flatten[i - 1] \o seqs[i]]
    BY <2>3
  <2> HIDE DEF flatten
  <2> DEFINE P == {n \in Nat : n + 1 <= N => /\ flatten[n + 1] \in Seq(S)
                                             /\ Len(flatten[n + 1]) >= Len(seqs[1])}
  <2>5. 0 \in P
    <3>1. 1 \in 1..N /\ 0 + 1 = 1
      BY <1>0, <1>2
    <3>2. flatten[1] = seqs[1] /\ seqs[1] \in Seq(S)
      BY <1>0, <2>4, <3>1
    <3>3. Len(seqs[1]) >= Len(seqs[1])
      BY <3>2
    <3> QED BY <3>1, <3>2, <3>3
  <2>6. ASSUME NEW n \in Nat, n \in P PROVE n + 1 \in P
    <3>1. SUFFICES ASSUME (n + 1) + 1 <= N
                   PROVE  /\ flatten[(n + 1) + 1] \in Seq(S)
                          /\ Len(flatten[(n + 1) + 1]) >= Len(seqs[1])
      OBVIOUS
    <3>2. PICK m \in 2..N : m = (n + 1) + 1 /\ m - 1 = n + 1 /\ m # 1
      BY <1>0, <3>1
    <3>3. PICK q \in Seq(S) : q = flatten[n + 1] /\ Len(q) >= Len(seqs[1])
      BY <1>0, <2>6, <3>1
    <3>4. m \in 1..N /\ seqs[m] \in Seq(S) /\ 1 \in 1..N /\ seqs[1] \in Seq(S)
      BY <1>0, <3>2
    <3>5. flatten[m] = q \o seqs[m]
      BY <2>4, <3>2, <3>3, <3>4
    <3>6. q \o seqs[m] \in Seq(S) /\ Len(q \o seqs[m]) >= Len(seqs[1])
      <4>1. PICK r \in Seq(S) : r = seqs[m]
        BY <3>4
      <4>2. q \o r \in Seq(S) /\ Len(q \o r) = Len(q) + Len(r)
        OBVIOUS
      <4>3. Len(q) \in Nat /\ Len(r) \in Nat /\ Len(seqs[1]) \in Nat
        BY <3>4
      <4>4. Len(q \o r) >= Len(seqs[1])
        BY <3>3, <4>2, <4>3
      <4> QED BY <4>1, <4>2, <4>4
    <3> QED BY <3>2, <3>5, <3>6
  <2> HIDE DEF P
  <2>7. Nat \subseteq P
    BY <2>5, <2>6, Successors
  <2>8. N - 1 \in Nat /\ (N - 1) + 1 = N
    BY <1>0, <1>2
  <2>9. N - 1 \in P
    BY <2>7, <2>8
  <2> QED BY <2>1, <2>8, <2>9 DEF P
<1> QED BY <1>1, <1>2

\* A row that comes below is longer than none.
LEMMA BelowIs ==
  ASSUME NEW below \in Seq(Seq(CellSet)), NEW rows,
         rows = FlattenSeq([i \in DOMAIN below |-> <<Plain(Newline)>> \o below[i]])
  PROVE  rows \in Seq(CellSet) /\ (Len(below) > 0 => Len(rows) > 0)
<1>1. PICK n \in Nat : n = Len(below) /\ DOMAIN below = 1..n
  OBVIOUS
<1>2. PICK feed \in CellSet : feed = Plain(Newline)
  BY RenderingAssumption DEF Plain, CellSet
<1> DEFINE Row(i) == <<feed>> \o below[i]
<1>3. ASSUME NEW i \in 1..n PROVE Row(i) \in Seq(CellSet) /\ Len(Row(i)) > 0
  <2>1. PICK row \in Seq(CellSet) : row = below[i]
    BY <1>1
  <2>2. <<feed>> \o row \in Seq(CellSet) /\ Len(<<feed>> \o row) = 1 + Len(row)
    OBVIOUS
  <2> QED BY <2>1, <2>2
<1> HIDE DEF Row
<1>4. PICK seqs \in Seq(Seq(CellSet)) : seqs = [i \in 1..n |-> Row(i)] /\ Len(seqs) = n
  <2>1. [i \in 1..n |-> Row(i)] \in Seq(Seq(CellSet)) /\ Len([i \in 1..n |-> Row(i)]) = n
    BY <1>3
  <2> QED BY <2>1
<1>5. rows = FlattenSeq(seqs)
  BY <1>1, <1>2, <1>4 DEF Row
<1>6. rows \in Seq(CellSet) /\ (seqs # <<>> => Len(rows) >= Len(seqs[1]))
  BY <1>5, FlattenIs
<1>7. ASSUME n > 0 PROVE Len(rows) > 0
  <2>1. seqs # <<>> /\ 1 \in 1..n /\ seqs[1] = Row(1)
    <3>1. 1 \in 1..n
      BY <1>7
    <3>2. seqs # <<>>
      <4>1. Len(seqs) # 0
        BY <1>4, <1>7
      <4> QED BY <4>1
    <3> QED BY <1>4, <3>1, <3>2
  <2>2. Len(seqs[1]) > 0 /\ Row(1) \in Seq(CellSet)
    BY <1>3, <2>1
  <2>3. Len(seqs[1]) \in Nat /\ Len(rows) \in Nat
    BY <1>6, <2>1, <2>2
  <2> QED BY <1>6, <2>1, <2>2, <2>3
<1> QED BY <1>1, <1>6, <1>7

\* What handle_hints() leaves alone.
HintsKeep(s, r) ==
  /\ DOMAIN r = UiFields
  /\ r.term = s.term /\ r.data = s.data /\ r.pos = s.pos /\ r.oldPos = s.oldPos
  /\ r.inputLength = s.inputLength /\ r.hasNewlines = s.hasNewlines
  /\ r.prompt = s.prompt /\ r.columns = s.columns
  /\ r.extra = s.extra /\ r.indent = s.indent /\ r.rowOffset = s.rowOffset
  /\ r.modified = s.modified /\ r.moveCursor = s.moveCursor /\ r.skipped = s.skipped

\* The hints change nothing but what is displayed and which of them is chosen.
LEMMA HintsKeepLine ==
  ASSUME NEW s, DOMAIN s = UiFields, NEW action
  PROVE  HintsKeep(s, HandleHints(s, action))
<1>1. PICK r : r = HandleHints(s, action)
  OBVIOUS
<1>2. \/ r = s
      \/ \E n : r = [s EXCEPT !.selection = n]
      \/ \E n, d : r = [[s EXCEPT !.selection = n] EXCEPT !.display = d]
  BY <1>1 DEF HandleHints
<1>3. ASSUME NEW n, r = [s EXCEPT !.selection = n] PROVE HintsKeep(s, r)
  BY <1>3 DEF HintsKeep, UiFields
<1>4. ASSUME NEW n, NEW d, r = [[s EXCEPT !.selection = n] EXCEPT !.display = d] PROVE HintsKeep(s, r)
  BY <1>4 DEF HintsKeep, UiFields
<1>5. ASSUME r = s PROVE HintsKeep(s, r)
  BY <1>5 DEF HintsKeep
<1> QED BY <1>1, <1>2, <1>3, <1>4, <1>5

\* Whether an action draws the hints.
Draws(action) == action = "REPAINT" \/ (action = "REGENERATE" /\ ~options.hintDelay)

\* The hints come behind the line, and are there when they are wanted.
LEMMA HintsAdd ==
  ASSUME NEW s, IsUi(s), Len(s.data) <= MaxLen, NEW action
  PROVE  LET r == HandleHints(s, action)
         IN /\ IsUi(r)
            /\ (/\ options.hinter /\ s.pos = Len(s.data) /\ Wanted(s.data)
                /\ Draws(action) /\ s.inputLength = Len(s.display))
               => Len(r.display) > r.inputLength
            /\ action = "SKIP" => r.display = s.display
<1> DEFINE r == HandleHints(s, action)
           Goal == /\ IsUi(r)
                   /\ (/\ options.hinter /\ s.pos = Len(s.data) /\ Wanted(s.data)
                       /\ Draws(action) /\ s.inputLength = Len(s.display))
                      => Len(r.display) > r.inputLength
                   /\ action = "SKIP" => r.display = s.display
<1>1. IsFields(s) /\ s.data \in Seq(Glyphs) /\ s.selection \in Int /\ s.display \in Seq(CellSet)
  BY DEF IsUi, IsFields
<1>2. PICK count \in Nat : count = Len(HintsFor(s.data))
  BY <1>1, HintsAre
<1> DEFINE Wrapped(n) == IF n < -1 THEN count - 1 ELSE IF n >= count THEN -1 ELSE n
           first == IF action = "REGENERATE" THEN -1 ELSE s.selection
           no == IF count > 1 /\ MaxHintRows > 0 THEN Wrapped(first) ELSE first
           chosen == [s EXCEPT !.selection = no]
           below == HintRows(chosen)
           rows == FlattenSeq([i \in DOMAIN below |-> <<Plain(Newline)>> \o below[i]])
<1>3. r = IF ~options.hinter THEN s
          ELSE IF options.hintDelay /\ action # "REPAINT" THEN [s EXCEPT !.selection = -1]
          ELSE IF action \in {"SKIP", "TRIM"} \/ s.pos # Len(s.data) THEN s
          ELSE [chosen EXCEPT !.display = @ \o InlineHint(chosen) \o rows]
  BY <1>2 DEF HandleHints, HintsFor
<1> HIDE DEF r
<1>4. CASE ~options.hinter
  <2>1. r = s
    BY <1>3, <1>4
  <2> QED BY <1>4, <2>1 DEF r
<1>5. CASE options.hinter /\ options.hintDelay /\ action # "REPAINT"
  <2>1. r = [s EXCEPT !.selection = -1]
    BY <1>3, <1>5
  <2>2. IsUi(r) /\ r.display = s.display
    BY <1>1, <2>1 DEF IsUi, IsFields, UiFields
  <2>3. ~Draws(action)
    BY <1>5 DEF Draws
  <2> QED BY <2>2, <2>3 DEF r
<1>6. CASE /\ options.hinter /\ ~(options.hintDelay /\ action # "REPAINT")
           /\ action \in {"SKIP", "TRIM"} \/ s.pos # Len(s.data)
  <2>1. r = s
    BY <1>3, <1>6
  <2>2. ~(Draws(action) /\ s.pos = Len(s.data))
    BY <1>6 DEF Draws
  <2> QED BY <2>1, <2>2 DEF r
<1>7. CASE /\ options.hinter /\ ~(options.hintDelay /\ action # "REPAINT")
           /\ ~(action \in {"SKIP", "TRIM"} \/ s.pos # Len(s.data))
  <2>1. no \in Int /\ (count > 1 /\ MaxHintRows > 0 => no \in -1..(count - 1))
    BY <1>1
  <2> HIDE DEF no
  <2>2. PICK c : c = chosen
    OBVIOUS
  <2>3. IsFields(c) /\ c.data = s.data /\ c.selection = no /\ c.display = s.display
    BY <1>1, <2>1, <2>2 DEF IsFields, UiFields
  <2>4. Chosen(c)
    BY <1>2, <2>1, <2>3 DEF Chosen
  <2>5. PICK inline \in Seq(CellSet) :
          inline = InlineHint(c) /\ (Wanted(s.data) /\ count = 1 => Len(inline) > 0)
    BY <1>2, <2>3, <2>4, InlineIs
  <2>6. PICK down \in Seq(Seq(CellSet)) :
          down = HintRows(c) /\ (count > 1 /\ MaxHintRows > 0 => Len(down) > 0)
    BY <1>2, <2>3, RowsAre
  <2>7. PICK under \in Seq(CellSet) : under = rows /\ (Len(down) > 0 => Len(under) > 0)
    BY <2>2, <2>6, BelowIs
  <2>8. r = [c EXCEPT !.display = s.display \o inline \o under]
    BY <1>3, <1>7, <2>2, <2>3, <2>5, <2>7
  <2>9. PICK shown \in Seq(CellSet) : /\ shown = s.display \o inline \o under
                                      /\ Len(shown) = Len(s.display) + Len(inline) + Len(under)
    <3>1. /\ s.display \o inline \o under \in Seq(CellSet)
          /\ Len(s.display \o inline \o under) = Len(s.display) + Len(inline) + Len(under)
      BY <1>1
    <3> QED BY <3>1
  <2>10. c.inputLength = s.inputLength /\ s.inputLength <= Len(s.display) /\ s.inputLength \in Nat
    BY <1>1, <2>2 DEF IsUi, IsFields, UiFields
  <2>11. Len(s.display) \in Nat /\ Len(inline) \in Nat /\ Len(under) \in Nat
    BY <1>1
  <2>12. r.display = shown /\ r.inputLength = s.inputLength
    BY <2>3, <2>8, <2>9, <2>10 DEF IsFields, UiFields
  <2>13. IsFields(r)
    BY <2>3, <2>8, <2>9 DEF IsFields, UiFields
  <2>14. r.inputLength <= Len(r.display)
    BY <2>9, <2>10, <2>11, <2>12
  <2>15. Wanted(s.data) => Len(inline) > 0 \/ Len(under) > 0
    BY <1>2, <2>5, <2>6, <2>7 DEF Wanted
  <2>16. Wanted(s.data) /\ s.inputLength = Len(s.display) => Len(r.display) > r.inputLength
    BY <2>9, <2>10, <2>11, <2>12, <2>15
  <2> QED BY <1>7, <2>13, <2>14, <2>16 DEF IsUi, r
<1> QED BY <1>4, <1>5, <1>6, <1>7

-----------------------------------------------------------------------------
(* Drawing.                                                                 *)

\* What Draw leaves alone.
DrawKeeps(s, r) ==
  /\ DOMAIN r = UiFields
  /\ r.data = s.data /\ r.pos = s.pos /\ r.display = s.display /\ r.inputLength = s.inputLength
  /\ r.hasNewlines = s.hasNewlines /\ r.selection = s.selection /\ r.prompt = s.prompt
  /\ r.columns = s.columns /\ r.extra = s.extra /\ r.indent = s.indent
  /\ r.modified = s.modified /\ r.skipped = s.skipped

\* Drawing leaves the line and what is displayed of it alone.
LEMMA DrawKeepsLine ==
  ASSUME NEW s, DOMAIN s = UiFields
  PROVE  /\ DrawKeeps(s, Draw(s))
         /\ Draw(s).rowOffset = s.extra + CursorAt(s, s.pos).y /\ Draw(s).moveCursor = FALSE
         /\ Draw(s).oldPos = s.pos
<1>1. PICK r : r = Draw(s)
  OBVIOUS
<1>2. \E term : r = [s EXCEPT !.term = term, !.rowOffset = s.extra + CursorAt(s, s.pos).y,
                              !.oldPos = s.pos, !.moveCursor = FALSE]
  BY <1>1 DEF Draw
<1>3. DrawKeeps(s, r)
  BY <1>2 DEF DrawKeeps, UiFields
<1>4. r.rowOffset = s.extra + CursorAt(s, s.pos).y /\ r.moveCursor = FALSE /\ r.oldPos = s.pos
  BY <1>2 DEF UiFields
<1> QED BY <1>1, <1>3, <1>4

\* Drawing keeps the cursor on the screen.
LEMMA DrawnTerm ==
  ASSUME NEW s, IsUi(s)
  PROVE  IsTerm(Draw(s).term) /\ Draw(s).term.columns = s.term.columns
<1>1. IsFields(s) /\ IsTerm(s.term) /\ s.extra - s.rowOffset \in Int
  BY DEF IsUi, IsFields
<1>2. PICK cy \in Int : cy = CursorAt(s, s.pos).y
  <2>1. s.pos \in 0..Len(s.data)
    BY <1>1 DEF IsFields
  <2>2. CursorAt(s, s.pos) \in Place
    BY <1>1, <2>1, CursorIs
  <2> QED BY <2>2 DEF Place
<1>3. PICK ey \in Int : ey = EndOfDisplay(s).y
  BY <1>1, EndIs DEF Place
<1>4. PICK n \in Nat, d \in Seq(CellSet) : n = s.inputLength /\ d = s.display /\ n <= Len(d)
  BY DEF IsUi, IsFields
<1> DEFINE start == JumpCursor(s.term, s.indent, s.extra - s.rowOffset)
           line == SubSeq(d, 1, n)
           hints == SubSeq(d, n + 1, Len(d))
           written == IF s.hasNewlines THEN Written(ClearToEnd(start), d)
                      ELSE Written(ClearToEnd(Written(start, line)), hints)
           Good(t) == IsTerm(t) /\ t.columns = s.term.columns
<1>5. Good(start)
  BY <1>1, JumpIs
<1> HIDE DEF start
<1>6. Len(line) \in Nat /\ Len(hints) \in Nat /\ Len(d) \in Nat
  BY <1>4
<1> HIDE DEF line, hints
<1>7. Good(Written(ClearToEnd(start), d))
  <2>1. Good(ClearToEnd(start))
    BY <1>5, ClearIs
  <2> QED BY <1>6, <2>1, WrittenIs
<1>8. Good(Written(ClearToEnd(Written(start, line)), hints))
  <2>1. Good(Written(start, line))
    BY <1>5, <1>6, WrittenIs
  <2>2. Good(ClearToEnd(Written(start, line)))
    BY <2>1, ClearIs
  <2> QED BY <1>6, <2>2, WrittenIs
<1>9. Good(written)
  BY <1>7, <1>8
<1> HIDE DEF written
<1>10. Good(Feed(written))
  BY <1>9, FeedIs
<1>11. \E x : \E b \in BOOLEAN : Draw(s).term = JumpCursor(IF b THEN Feed(written) ELSE written, x, cy - ey)
  <2> DEFINE wraps == EndOfDisplay(s).x = 0 /\ EndOfDisplay(s).y > 0 /\ s.data # <<>>
                        /\ s.data[Len(s.data)] # Newline
             r == [s EXCEPT !.term = JumpCursor(IF wraps THEN Feed(written) ELSE written,
                                                CursorAt(s, s.pos).x, cy - ey),
                            !.rowOffset = s.extra + CursorAt(s, s.pos).y,
                            !.oldPos = s.pos, !.moveCursor = FALSE]
  <2>1. Draw(s) = r
    BY <1>2, <1>3, <1>4 DEF Draw, start, line, hints, written
  <2>2. r.term = JumpCursor(IF wraps THEN Feed(written) ELSE written, CursorAt(s, s.pos).x, cy - ey)
    BY <1>1 DEF IsFields, UiFields
  <2>3. wraps \in BOOLEAN
    OBVIOUS
  <2> QED BY <2>1, <2>2, <2>3
<1>12. PICK t, x : Good(t) /\ Draw(s).term = JumpCursor(t, x, cy - ey)
  BY <1>9, <1>10, <1>11
<1>13. cy - ey \in Int
  BY <1>2, <1>3
<1> QED BY <1>12, <1>13, JumpIs

\* Drawing keeps the types.
LEMMA DrawnIs == ASSUME NEW s, IsUi(s) PROVE IsUi(Draw(s))
<1>1. PICK r : r = Draw(s)
  OBVIOUS
<1>2. IsFields(s) /\ DOMAIN s = UiFields /\ s.pos \in 0..Len(s.data) /\ s.columns = s.term.columns
  BY DEF IsUi, IsFields
<1>3. /\ DrawKeeps(s, r) /\ r.moveCursor = FALSE
      /\ r.rowOffset = s.extra + CursorAt(s, s.pos).y
  BY <1>1, <1>2, DrawKeepsLine
<1>4. PICK y \in Nat : y = CursorAt(s, s.pos).y
  BY <1>2, CursorIs DEF Place
<1>5. r.rowOffset \in Nat /\ s.extra <= r.rowOffset
  BY <1>2, <1>3, <1>4 DEF IsFields
<1>6. IsTerm(r.term) /\ r.term.columns = s.term.columns
  BY <1>1, DrawnTerm
<1>7. IsFields(r)
  BY <1>2, <1>3, <1>5, <1>6 DEF IsFields, DrawKeeps
<1> QED BY <1>1, <1>3, <1>7 DEF IsUi, DrawKeeps

\* What a refresh leaves alone.
LineSame(s, r) ==
  /\ DOMAIN r = UiFields
  /\ r.data = s.data /\ r.pos = s.pos /\ r.prompt = s.prompt /\ r.columns = s.columns
  /\ r.extra = s.extra /\ r.indent = s.indent

\* refresh_line() changes neither the line nor the prompt.
LEMMA RefreshSame ==
  ASSUME NEW s, IsUi(s), NEW action \in HintActions, NEW rapid \in BOOLEAN
  PROVE  LineSame(s, RefreshLine(s, action, rapid))
<1>0. DOMAIN s = UiFields /\ IsFields(s)
  BY DEF IsUi, IsFields
<1>1. CASE rapid
  BY <1>0, <1>1 DEF RefreshLine, LineSame, UiFields
<1>2. CASE ~rapid
  <2>1. PICK q : q = [s EXCEPT !.skipped = FALSE]
    OBVIOUS
  <2>2. IsUi(q) /\ LineSame(s, q)
    BY <1>0, <2>1 DEF IsUi, IsFields, UiFields, LineSame
  <2>3. PICK rendered : rendered = Render(q, action)
    OBVIOUS
  <2>4. IsUi(rendered) /\ RenderKeeps(q, rendered)
    BY <2>2, <2>3, RenderShowsLine
  <2>5. PICK hinted : hinted = HandleHints(rendered, action)
    OBVIOUS
  <2>6. HintsKeep(rendered, hinted)
    BY <2>4, <2>5, HintsKeepLine DEF IsUi, IsFields
  <2>7. DrawKeeps(hinted, Draw(hinted))
    BY <2>6, DrawKeepsLine DEF HintsKeep
  <2>8. RefreshLine(s, action, rapid) = Draw(hinted)
    BY <1>2, <2>1, <2>3, <2>5 DEF RefreshLine
  <2> QED BY <2>2, <2>4, <2>6, <2>7, <2>8 DEF LineSame, RenderKeeps, HintsKeep, DrawKeeps
<1> QED BY <1>1, <1>2

\* The cursor's place depends on the line and the prompt alone.
LEMMA SameCursor ==
  ASSUME NEW s, NEW r, r.data = s.data, r.columns = s.columns, r.indent = s.indent, NEW p
  PROVE  CursorAt(r, p) = CursorAt(s, p)
BY DEF CursorAt, MultilineIndent

\* The row of the cursor is on the screen, or it is the prompt's last or that of a
\* position of the line.
RowKnown(s) ==
  \/ s.rowOffset < Height \/ s.rowOffset = s.extra
  \/ \E p \in 0..Len(s.data) : s.rowOffset = s.extra + CursorAt(s, p).y

\* The hints that are wanted are there.
Hinted(s) ==
  options.hinter /\ s.pos = Len(s.data) /\ Wanted(s.data) => Len(s.display) > s.inputLength

\* The fields between two steps of a handler.
Ready(s) == IsUi(s) /\ RowKnown(s) /\ Len(s.data) <= MaxLen

\* What a refresh that is not skipped makes.
Refreshed(s, r, action) ==
  /\ ~r.skipped
  /\ Draws(action) => Hinted(r)
  /\ action = "SKIP" => r.display = s.display /\ r.inputLength = s.inputLength

\* refresh_line() keeps the types and the row, and draws the hints.
LEMMA RefreshIs ==
  ASSUME NEW s, IsUi(s), Len(s.data) <= MaxLen,
         NEW action \in HintActions, NEW rapid \in BOOLEAN, rapid => RowKnown(s)
  PROVE  LET r == RefreshLine(s, action, rapid)
         IN /\ Ready(r) /\ LineSame(s, r)
            /\ rapid => r.skipped
            /\ ~rapid => Refreshed(s, r, action) /\ r.oldPos = r.pos
<1> DEFINE r == RefreshLine(s, action, rapid)
<1>0. DOMAIN s = UiFields /\ IsFields(s) /\ IsUi(s) /\ Len(s.data) <= MaxLen
  BY DEF IsUi, IsFields
<1>3. LineSame(s, r)
  BY <1>0, RefreshSame
<1>1. CASE rapid
  <2>1. r = [s EXCEPT !.skipped = TRUE]
    BY <1>1 DEF RefreshLine
  <2> HIDE DEF r
  <2>2. /\ r.data = s.data /\ r.columns = s.columns /\ r.indent = s.indent /\ r.extra = s.extra
        /\ r.rowOffset = s.rowOffset /\ r.skipped
    BY <1>0, <2>1 DEF UiFields
  <2>3. IsUi(r)
    BY <1>0, <2>1 DEF IsUi, IsFields, UiFields
  <2>4. RowKnown(r)
    BY <1>1, <2>2, SameCursor DEF RowKnown
  <2> QED BY <1>0, <1>1, <1>3, <2>2, <2>3, <2>4 DEF r, Ready
<1>2. CASE ~rapid
  <2>1. PICK q : q = [s EXCEPT !.skipped = FALSE]
    OBVIOUS
  <2>2. /\ IsUi(q) /\ q.data = s.data /\ q.pos = s.pos /\ ~q.skipped
        /\ q.display = s.display /\ q.inputLength = s.inputLength
    BY <1>0, <2>1 DEF IsUi, IsFields, UiFields
  <2>3. PICK rendered : rendered = Render(q, action)
    OBVIOUS
  <2>4. IsUi(rendered) /\ RenderKeeps(q, rendered)
    BY <2>2, <2>3, RenderShowsLine
  <2>5. action = "SKIP" => rendered = q
    BY <2>3 DEF Render
  <2>6. action \in {"REGENERATE", "REPAINT"} => rendered.inputLength = Len(rendered.display)
    BY <2>2, <2>3, RenderedIsLine DEF IsUi
  <2>7. PICK hinted : hinted = HandleHints(rendered, action)
    OBVIOUS
  <2>8. HintsKeep(rendered, hinted)
    BY <2>4, <2>7, HintsKeepLine DEF IsUi, IsFields
  <2>9. rendered.data = s.data /\ rendered.pos = s.pos
    BY <2>2, <2>4 DEF RenderKeeps
  <2>10. /\ IsUi(hinted)
         /\ (/\ options.hinter /\ rendered.pos = Len(rendered.data) /\ Wanted(rendered.data)
             /\ Draws(action) /\ rendered.inputLength = Len(rendered.display))
            => Len(hinted.display) > hinted.inputLength
         /\ action = "SKIP" => hinted.display = rendered.display
    BY <1>0, <2>4, <2>7, <2>9, HintsAdd
  <2>11. PICK d : d = Draw(hinted)
    OBVIOUS
  <2>12. r = d
    BY <1>2, <2>1, <2>3, <2>7, <2>11 DEF RefreshLine
  <2>13. /\ DrawKeeps(hinted, d) /\ d.oldPos = hinted.pos
         /\ d.rowOffset = hinted.extra + CursorAt(hinted, hinted.pos).y
    BY <2>8, <2>11, DrawKeepsLine DEF HintsKeep
  <2>14. IsUi(d)
    BY <2>10, <2>11, DrawnIs
  <2>15. RowKnown(d)
    <3>1. d.pos \in 0..Len(d.data)
      BY <2>14 DEF IsUi, IsFields
    <3>2. d.rowOffset = d.extra + CursorAt(hinted, d.pos).y
      BY <2>13 DEF DrawKeeps
    <3>3. CursorAt(d, d.pos) = CursorAt(hinted, d.pos)
      BY <2>13, SameCursor DEF DrawKeeps
    <3> QED BY <3>1, <3>2, <3>3 DEF RowKnown
  <2>16. ~d.skipped
    BY <2>2, <2>4, <2>8, <2>13 DEF RenderKeeps, HintsKeep, DrawKeeps
  <2>17. Draws(action) => Hinted(d)
    <3>1. d.data = s.data /\ d.pos = s.pos /\ d.display = hinted.display
          /\ d.inputLength = hinted.inputLength
      BY <2>8, <2>9, <2>13 DEF HintsKeep, DrawKeeps
    <3>2. Draws(action) => action \in {"REGENERATE", "REPAINT"}
      BY DEF Draws
    <3> QED BY <2>6, <2>9, <2>10, <3>1, <3>2 DEF Hinted
  <2>18. action = "SKIP" => d.display = s.display /\ d.inputLength = s.inputLength
    BY <2>2, <2>5, <2>8, <2>10, <2>13 DEF HintsKeep, DrawKeeps
  <2>19. d.oldPos = d.pos
    BY <2>13 DEF DrawKeeps
  <2> HIDE DEF r
  <2>20. d.data = s.data
    BY <2>8, <2>9, <2>13 DEF HintsKeep, DrawKeeps
  <2> QED BY <1>0, <1>2, <1>3, <2>12, <2>14, <2>15, <2>16, <2>17, <2>18, <2>19, <2>20
          DEF r, Refreshed, Ready
<1> QED BY <1>1, <1>2

\* The row of the cursor is on the screen when the line fits on it.
LEMMA RowFits ==
  ASSUME NEW s, IsUi(s), RowKnown(s), Admitted(s)
  PROVE  s.rowOffset \in s.extra..(Height - 1)
<1>1. IsFields(s) /\ s.rowOffset \in Nat /\ s.extra \in Nat /\ s.extra <= s.rowOffset
  BY DEF IsUi, IsFields
<1>2. CursorAt(s, Len(s.data)).y + s.extra < Height
  BY DEF Admitted
<1>3. ASSUME NEW p \in 0..Len(s.data) PROVE s.extra + CursorAt(s, p).y < Height
  <2>1. CursorAt(s, p) \in Place /\ CursorAt(s, p).y <= CursorAt(s, Len(s.data)).y
    BY <1>1, CursorIs
  <2>2. Len(s.data) \in 0..Len(s.data)
    BY <1>1 DEF IsFields
  <2>3. CursorAt(s, Len(s.data)) \in Place
    BY <1>1, <2>2, CursorIs
  <2>4. CursorAt(s, p).y \in Nat /\ CursorAt(s, Len(s.data)).y \in Nat
    BY <2>1, <2>3 DEF Place
  <2> QED BY <1>1, <1>2, <2>1, <2>4, Bounds
<1>4. s.extra < Height
  <2>1. Len(s.data) \in 0..Len(s.data)
    BY <1>1 DEF IsFields
  <2>2. CursorAt(s, Len(s.data)).y \in Nat
    BY <1>1, <2>1, CursorIs DEF Place
  <2> QED BY <1>1, <1>2, <2>2, Bounds
<1>5. s.rowOffset < Height
  BY <1>3, <1>4 DEF RowKnown
<1> QED BY <1>1, <1>5, Bounds

-----------------------------------------------------------------------------
(* The handlers.                                                            *)

\* The hints are shown, where no delay and no refresh is awaited.
Fine(s) == ~s.skipped /\ ~options.hintDelay => Hinted(s)

\* What is drawn anew shows the hints.
LEMMA RedrawIs ==
  ASSUME NEW s, IsUi(s), Len(s.data) <= MaxLen, NEW action \in {"REGENERATE", "REPAINT"},
         NEW rapid \in BOOLEAN, rapid => RowKnown(s)
  PROVE  LET r == RefreshLine(s, action, rapid)
         IN Ready(r) /\ Fine(r) /\ LineSame(s, r) /\ (~rapid => ~r.skipped /\ r.oldPos = r.pos)
<1>1. PICK r : r = RefreshLine(s, action, rapid)
  OBVIOUS
<1>2. /\ Ready(r) /\ LineSame(s, r) /\ (rapid => r.skipped)
      /\ (~rapid => Refreshed(s, r, action) /\ r.oldPos = r.pos)
  BY <1>1, RefreshIs DEF HintActions
<1>3. Fine(r)
  BY <1>2 DEF Fine, Refreshed, Draws
<1> QED BY <1>1, <1>2, <1>3 DEF Refreshed

\* Moving the cursor.
LEMMA MoveCursorIs ==
  ASSUME NEW s, Ready(s)
  PROVE  LET r == MoveCursor(s)
         IN Ready(r) /\ LineSame(s, r) /\ (Fine(s) => Fine(r))
<1>1. PICK r : r = MoveCursor(s)
  OBVIOUS
<1>2. IsUi(s) /\ IsFields(s) /\ DOMAIN s = UiFields /\ s.pos \in 0..Len(s.data) /\ Len(s.data) <= MaxLen
  BY DEF Ready, IsUi, IsFields
<1>3. PICK place \in Place : place = CursorAt(s, s.pos)
  BY <1>2, CursorIs
<1>4. place.y \in Nat /\ place.y - (s.rowOffset - s.extra) \in Int
  BY <1>2 DEF Place, IsFields
<1>5. PICK t : t = JumpCursor(s.term, place.x, place.y - (s.rowOffset - s.extra))
  OBVIOUS
<1>6. IsTerm(t) /\ t.columns = s.term.columns
  BY <1>2, <1>4, <1>5, JumpIs DEF IsFields
<1>7. r = [s EXCEPT !.term = t, !.rowOffset = s.extra + place.y, !.oldPos = s.pos, !.moveCursor = FALSE]
  BY <1>1, <1>3, <1>5 DEF MoveCursor
<1>8. IsUi(r)
  <2>1. /\ DOMAIN r = UiFields /\ r.term = t /\ r.data = s.data /\ r.pos = s.pos
        /\ r.display = s.display /\ r.inputLength = s.inputLength
        /\ r.selection = s.selection /\ r.prompt = s.prompt /\ r.columns = s.columns
        /\ r.extra = s.extra /\ r.indent = s.indent /\ r.rowOffset = s.extra + place.y
        /\ r.hasNewlines = s.hasNewlines /\ r.modified = s.modified
        /\ r.moveCursor = FALSE /\ r.skipped = s.skipped
    BY <1>2, <1>7 DEF UiFields
  <2>2. s.extra + place.y \in Nat /\ s.extra <= s.extra + place.y
    <3>1. s.extra \in Nat
      BY <1>2 DEF IsFields
    <3> QED BY <1>4, <3>1
  <2>3. PICK row \in Nat : row = r.rowOffset /\ s.extra <= row
    BY <2>1, <2>2
  <2>4. IsFields(r)
    BY <1>2, <1>6, <2>1, <2>3 DEF IsFields
  <2> QED BY <1>2, <2>1, <2>4 DEF IsUi
<1>9. LineSame(s, r)
  BY <1>2, <1>7 DEF LineSame, UiFields
<1>10. r.display = s.display /\ r.inputLength = s.inputLength /\ r.skipped = s.skipped
       /\ r.rowOffset = s.extra + place.y
  BY <1>2, <1>7 DEF UiFields
<1>11. RowKnown(r)
  BY <1>2, <1>3, <1>9, <1>10, SameCursor DEF RowKnown, LineSame
<1>12. Fine(s) => Fine(r)
  BY <1>9, <1>10 DEF Fine, Hinted, LineSame
<1> QED BY <1>1, <1>2, <1>8, <1>9, <1>11, <1>12 DEF Ready, LineSame

\* What is left to do after a handler.
LEMMA LoopIs ==
  ASSUME NEW s, Ready(s), NEW rapid \in BOOLEAN
  PROVE  LET r == Loop(s, rapid)
         IN Ready(r) /\ (s.modified \/ Fine(s) => Fine(r))
<1>1. PICK r : r = Loop(s, rapid)
  OBVIOUS
<1>2. CASE s.modified
  <2>1. r = RefreshLine(s, "REGENERATE", rapid)
    BY <1>1, <1>2 DEF Loop
  <2>2. Ready(r) /\ Fine(r)
    BY <2>1, RedrawIs DEF Ready
  <2> QED BY <1>1, <2>2
<1>3. CASE ~s.modified /\ s.moveCursor
  <2>1. r = MoveCursor(s)
    BY <1>1, <1>3 DEF Loop
  <2> QED BY <1>1, <1>3, <2>1, MoveCursorIs
<1>4. CASE ~s.modified /\ ~s.moveCursor
  <2>1. r = s
    BY <1>1, <1>4 DEF Loop
  <2> QED BY <1>1, <1>4, <2>1
<1> QED BY <1>2, <1>3, <1>4

\* A character that is typed.
LEMMA InsertIs ==
  ASSUME NEW s, IsUi(s), s.rowOffset < Height, Len(s.data) < MaxLen,
         NEW c \in Glyphs, NEW rapid \in BOOLEAN
  PROVE  LET r == InsertCharacter(s, c, rapid) IN Ready(r) /\ Fine(r)
<1>1. PICK r : r = InsertCharacter(s, c, rapid)
  OBVIOUS
<1>2. PICK n \in Nat, p \in Nat, d \in Seq(Glyphs) :
        n = Len(d) /\ d = s.data /\ p = s.pos /\ p \in 0..n /\ n < MaxLen
  BY DEF IsUi, IsFields
<1>3. PICK e \in Seq(Glyphs) : e = SubSeq(d, 1, p) \o <<c>> \o SubSeq(d, p + 1, n) /\ Len(e) = n + 1
  <2>1. SubSeq(d, 1, p) \in Seq(Glyphs) /\ Len(SubSeq(d, 1, p)) = p
    BY <1>2
  <2>2. SubSeq(d, p + 1, n) \in Seq(Glyphs) /\ Len(SubSeq(d, p + 1, n)) = n - p
    BY <1>2
  <2>3. PICK a \in Seq(Glyphs), b \in Seq(Glyphs) : /\ a = SubSeq(d, 1, p) /\ b = SubSeq(d, p + 1, n)
                                                    /\ Len(a) = p /\ Len(b) = n - p
    BY <2>1, <2>2
  <2>4. a \o <<c>> \o b \in Seq(Glyphs) /\ Len(a \o <<c>> \o b) = p + 1 + (n - p)
    BY <2>3
  <2>5. p + 1 + (n - p) = n + 1
    BY <1>2
  <2>6. a \o <<c>> \o b = SubSeq(d, 1, p) \o <<c>> \o SubSeq(d, p + 1, n)
    BY <2>3
  <2> QED BY <2>4, <2>5, <2>6, Zenon
<1> DEFINE added == [s EXCEPT !.data = e, !.oldPos = s.pos, !.pos = @ + 1]
           trivial == Trivial(added)
           shown == RenderChar(added, Plain(c))
<1>4. r = IF rapid THEN [added EXCEPT !.skipped = TRUE]
          ELSE IF trivial THEN [shown EXCEPT !.inputLength = Len(shown.display),
                                             !.term = Put(@, Plain(c))]
          ELSE RefreshLine(added, "REGENERATE", FALSE)
  BY <1>1, <1>2, <1>3 DEF InsertCharacter, Inserted
<1>5. PICK q : q = added
  OBVIOUS
<1>6. IsUi(q) /\ q.rowOffset < Height /\ Len(q.data) <= MaxLen
  <2>1. n + 1 <= MaxLen /\ p + 1 \in 0..(n + 1) /\ Len(e) = n + 1
    BY <1>2, <1>3, Bounds
  <2>2. q = [s EXCEPT !.data = e, !.oldPos = s.pos, !.pos = p + 1] /\ IsFields(s)
    BY <1>2, <1>5 DEF IsUi
  <2>3. q.data = e /\ q.pos = p + 1 /\ q.rowOffset = s.rowOffset
    BY <2>2 DEF IsFields, UiFields
  <2>4. IsUi(q)
    BY <2>1, <2>2 DEF IsUi, IsFields, UiFields
  <2> QED BY <2>1, <2>3, <2>4
<1>7. CASE rapid
  <2>1. r = [q EXCEPT !.skipped = TRUE]
    BY <1>4, <1>5, <1>7
  <2>2. IsUi(r) /\ r.rowOffset < Height /\ Len(r.data) <= MaxLen /\ r.skipped
    BY <1>6, <2>1 DEF IsUi, IsFields, UiFields
  <2> QED BY <1>1, <2>2 DEF Ready, RowKnown, Fine
<1>8. CASE ~rapid /\ trivial
  <2>1. PICK v : v = RenderChar(q, Plain(c))
    OBVIOUS
  <2>2. Plain(c) \in CellSet
    BY DEF Plain, CellSet
  <2>3. IsFields(q)
    BY <1>6 DEF IsUi
  <2>4. IsFields(v) /\ v = [q EXCEPT !.display = v.display, !.hasNewlines = v.hasNewlines]
    BY <2>1, <2>2, <2>3, RenderCharIs, Zenon
  <2>5. v.rowOffset = q.rowOffset /\ v.data = q.data
    BY <2>3, <2>4 DEF IsFields, UiFields
  <2>6. r = [v EXCEPT !.inputLength = Len(v.display), !.term = Put(v.term, Plain(c))]
    BY <1>4, <1>5, <1>8, <2>1
  <2>7. PICK t : t = Put(v.term, Plain(c)) /\ IsTerm(t) /\ t.columns = v.term.columns
    BY <2>4, PutIs DEF IsFields
  <2>8. IsUi(r) /\ r.rowOffset = v.rowOffset /\ r.data = v.data
    <3>0. IsFields(v)
      BY <2>4
    <3>1. PICK n1 \in Nat : n1 = Len(v.display)
      <4>1. v.display \in Seq(CellSet)
        BY <3>0 DEF IsFields
      <4>2. Len(v.display) \in Nat
        BY <4>1
      <4> QED BY <4>2
    <3>2. r = [v EXCEPT !.inputLength = n1, !.term = t]
      BY <2>6, <2>7, <3>1
    <3>3. /\ DOMAIN r = UiFields /\ r.term = t /\ r.inputLength = n1 /\ r.display = v.display
          /\ r.data = v.data /\ r.pos = v.pos /\ r.selection = v.selection /\ r.prompt = v.prompt
          /\ r.extra = v.extra /\ r.indent = v.indent /\ r.rowOffset = v.rowOffset
          /\ r.columns = v.columns /\ r.hasNewlines = v.hasNewlines /\ r.modified = v.modified
          /\ r.moveCursor = v.moveCursor /\ r.skipped = v.skipped
      BY <3>0, <3>2 DEF IsFields, UiFields
    <3> QED BY <2>7, <3>0, <3>1, <3>3 DEF IsUi, IsFields
  <2>9. Fine(r)
    BY <1>8 DEF Fine, Hinted, Trivial
  <2> QED BY <1>1, <1>6, <2>5, <2>8, <2>9 DEF Ready, RowKnown
<1>9. CASE ~rapid /\ ~trivial
  <2>1. r = RefreshLine(q, "REGENERATE", FALSE)
    BY <1>4, <1>5, <1>9
  <2>2. Ready(r) /\ Refreshed(q, r, "REGENERATE")
    BY <1>6, <2>1, RefreshIs DEF HintActions
  <2> QED BY <1>1, <2>2 DEF Refreshed, Draws, Fine
<1> QED BY <1>7, <1>8, <1>9

\* Nothing but the terminal changes.
OnlyTerm(s, r) ==
  /\ LineSame(s, r) /\ r.rowOffset = s.rowOffset /\ r.skipped = s.skipped
  /\ r.display = s.display /\ r.inputLength = s.inputLength

\* A terminal of the same width takes the place of the one there is.
LEMMA TermIs ==
  ASSUME NEW s, IsUi(s), NEW t, IsTerm(t), t.columns = s.columns
  PROVE  LET r == [s EXCEPT !.term = t] IN IsUi(r) /\ OnlyTerm(s, r)
<1>1. PICK r : r = [s EXCEPT !.term = t]
  OBVIOUS
<1>2. IsFields(s)
  BY DEF IsUi
<1>3. IsUi(r)
  BY <1>1, <1>2 DEF IsUi, IsFields, UiFields
<1>4. OnlyTerm(s, r)
  BY <1>1, <1>2 DEF OnlyTerm, LineSame, IsFields, UiFields
<1> QED BY <1>1, <1>3, <1>4

\* What is written, where the cursor is.
LEMMA WriteIs ==
  ASSUME NEW s, IsUi(s), NEW cells, Len(cells) \in Nat
  PROVE  LET r == [s EXCEPT !.term = Written(@, cells)] IN IsUi(r) /\ OnlyTerm(s, r)
<1>1. PICK t : t = Written(s.term, cells)
  OBVIOUS
<1>2. IsTerm(s.term) /\ s.term.columns = s.columns
  BY DEF IsUi, IsFields
<1>3. IsTerm(t) /\ t.columns = s.columns
  BY <1>1, <1>2, WrittenIs
<1>4. [s EXCEPT !.term = Written(@, cells)] = [s EXCEPT !.term = t]
  BY <1>1
<1> QED BY <1>3, <1>4, TermIs

\* The prompt that is written.
LEMMA PromptIs ==
  ASSUME NEW s, IsUi(s)
  PROVE  IsUi(WritePrompt(s)) /\ OnlyTerm(s, WritePrompt(s))
<1>1. s.prompt \in Seq(Glyphs)
  BY DEF IsUi, IsFields
<1>2. Len(Cells(s.prompt)) \in Nat
  BY <1>1 DEF Cells
<1> QED BY <1>2, WriteIs DEF WritePrompt

\* The prompt and the line that are cleared.
LEMMA ClearSelfIs ==
  ASSUME NEW s, IsUi(s)
  PROVE  IsUi(ClearSelf(s)) /\ OnlyTerm(s, ClearSelf(s))
<1>1. IsTerm(s.term) /\ s.term.columns = s.columns /\ s.rowOffset \in Nat
  BY DEF IsUi, IsFields
<1>2. PICK n \in Int : n = -s.rowOffset
  BY <1>1
<1>3. PICK t : t = ClearToEnd(JumpCursor(s.term, 0, n))
  OBVIOUS
<1>4. IsTerm(t) /\ t.columns = s.columns
  BY <1>1, <1>3, JumpIs, ClearIs
<1>5. ClearSelf(s) = [s EXCEPT !.term = t]
  BY <1>2, <1>3 DEF ClearSelf
<1> QED BY <1>4, <1>5, TermIs

\* A prompt's text: the cursor stays as many rows below its last one.
LEMMA SetTextIs ==
  ASSUME NEW s, IsUi(s), NEW text \in Seq(Glyphs)
  PROVE  LET r == SetText(s, text)
         IN /\ IsUi(r) /\ r.data = s.data /\ r.pos = s.pos /\ r.skipped = s.skipped
            /\ r.display = s.display /\ r.inputLength = s.inputLength /\ r.columns = s.columns
            /\ r.extra = s.extra => r.rowOffset = s.rowOffset
<1>1. PICK r : r = SetText(s, text)
  OBVIOUS
<1>2. IsFields(s) /\ s.columns = s.term.columns /\ s.term.columns \in Nat
  BY DEF IsUi, IsFields, IsTerm
<1>3. PICK end \in Place : end = VirtualRender(text, 0, s.term.columns, 0)
  BY <1>2, RenderIs
<1>4. PICK x \in Nat, y \in Nat : x = end.x /\ y = end.y
  BY DEF Place
<1>5. PICK n \in Nat : n = s.rowOffset - s.extra + y /\ y <= n /\ (y = s.extra => n = s.rowOffset)
  <2>1. PICK row \in Nat, extra \in Nat : row = s.rowOffset /\ extra = s.extra /\ extra <= row
    BY <1>2 DEF IsFields
  <2>2. row - extra + y \in Nat /\ y <= row - extra + y
    BY <2>1
  <2> QED BY <2>1, <2>2
<1>6. r = [s EXCEPT !.prompt = text, !.columns = s.term.columns, !.indent = x, !.extra = y,
                    !.rowOffset = n]
  BY <1>1, <1>3, <1>4, <1>5 DEF SetText
<1>7. IsUi(r)
  BY <1>2, <1>5, <1>6 DEF IsUi, IsFields, UiFields
<1>8. /\ r.data = s.data /\ r.pos = s.pos /\ r.skipped = s.skipped
      /\ r.display = s.display /\ r.inputLength = s.inputLength /\ r.columns = s.columns
      /\ r.extra = y /\ r.rowOffset = n
  BY <1>2, <1>6 DEF IsFields, UiFields
<1> QED BY <1>1, <1>5, <1>7, <1>8

\* The prompt and the line that are painted again.
LEMMA RepaintIs ==
  ASSUME NEW s, IsUi(s), Len(s.data) <= MaxLen, NEW rapid \in BOOLEAN,
         rapid => s.rowOffset < Height
  PROVE  LET r == Repaint(s, rapid)
         IN /\ Ready(r)
            /\ rapid => r.skipped
            /\ ~rapid => ~r.skipped /\ (Hinted(s) => Hinted(r))
<1>1. PICK r : r = Repaint(s, rapid)
  OBVIOUS
<1>2. PICK prompted : prompted = WritePrompt(s) /\ IsUi(prompted) /\ OnlyTerm(s, prompted)
  BY PromptIs
<1>3. PICK down : down = [i \in 1..(s.rowOffset - s.extra) |-> Plain(Newline)]
  OBVIOUS
<1>4. Len(down) \in Nat
  <2>1. s.rowOffset - s.extra \in Nat
    BY DEF IsUi, IsFields
  <2> QED BY <1>3, <2>1
<1>5. PICK q : q = [prompted EXCEPT !.term = Written(@, down)]
  OBVIOUS
<1>6. IsUi(q) /\ OnlyTerm(prompted, q)
  BY <1>2, <1>4, <1>5, WriteIs
<1>7. r = RefreshLine(q, "SKIP", rapid)
  BY <1>1, <1>2, <1>3, <1>5 DEF Repaint
<1>8. /\ q.data = s.data /\ q.pos = s.pos /\ q.rowOffset = s.rowOffset
      /\ q.display = s.display /\ q.inputLength = s.inputLength
  BY <1>2, <1>6 DEF OnlyTerm, LineSame
<1>9. /\ Ready(r) /\ LineSame(q, r)
      /\ rapid => r.skipped
      /\ ~rapid => Refreshed(q, r, "SKIP")
  BY <1>6, <1>7, <1>8, RefreshIs DEF HintActions, RowKnown
<1>10. ~rapid => ~r.skipped /\ (Hinted(s) => Hinted(r))
  BY <1>8, <1>9 DEF Refreshed, Hinted, LineSame
<1> QED BY <1>1, <1>9, <1>10

\* The handlers that move the cursor.
LEMMA MovedCursorIs ==
  ASSUME NEW s, Ready(s), NEW p \in 0..Len(s.data)
  PROVE  LET r == MovedCursor(s, p)
         IN /\ Ready(r) /\ r.skipped = s.skipped
            /\ (p = s.pos => (Hinted(s) => Hinted(r)))
            /\ (p # s.oldPos /\ p = Len(s.data) => r.modified)
            /\ (p # Len(s.data) => Hinted(r))
<1>1. PICK r : r = MovedCursor(s, p)
  OBVIOUS
<1>2. IsUi(s) /\ IsFields(s) /\ RowKnown(s) /\ Len(s.data) <= MaxLen
  BY DEF Ready, IsUi
<1>3. PICK mc \in BOOLEAN, md \in BOOLEAN :
        /\ r = [s EXCEPT !.pos = p, !.moveCursor = mc, !.modified = md]
        /\ p # s.oldPos /\ Len(s.data) = p => md
  <2> DEFINE ParenAt(q) == q < Len(s.data) /\ s.data[q + 1] \in Opening \cup Closing
             ends == {p, s.oldPos}
             moved == p # s.oldPos
             md == /\ p # s.oldPos
                   /\ Len(s.data) \in ends \/ \E q \in ends : ParenAt(q)
  <2>1. r = [s EXCEPT !.pos = p, !.moveCursor = moved, !.modified = md]
    BY <1>1 DEF MovedCursor
  <2>2. moved \in BOOLEAN /\ md \in BOOLEAN
    OBVIOUS
  <2>3. p # s.oldPos /\ Len(s.data) = p => md
    OBVIOUS
  <2> HIDE DEF moved, md
  <2> QED BY <2>1, <2>2, <2>3
<1>4. IsUi(r)
  BY <1>2, <1>3 DEF IsUi, IsFields, UiFields
<1>5. /\ r.data = s.data /\ r.columns = s.columns /\ r.indent = s.indent /\ r.extra = s.extra
      /\ r.rowOffset = s.rowOffset /\ r.skipped = s.skipped /\ r.pos = p /\ r.modified = md
      /\ r.display = s.display /\ r.inputLength = s.inputLength
  BY <1>2, <1>3 DEF IsFields, UiFields
<1>6. RowKnown(r)
  BY <1>2, <1>5, SameCursor DEF RowKnown
<1>7. (p = s.pos => (Hinted(s) => Hinted(r))) /\ (p # Len(s.data) => Hinted(r))
  BY <1>5 DEF Hinted
<1> QED BY <1>1, <1>2, <1>3, <1>4, <1>5, <1>6, <1>7 DEF Ready

-----------------------------------------------------------------------------
(* The invariants.                                                          *)

\* The fields have their types, and the cursor's row is on the screen.
RowInv ==
  /\ options \in OptionVals /\ delay \in BOOLEAN /\ phase \in {"editing", "done"}
  /\ steps \in 0..MaxSteps
  /\ IsUi(ui) /\ ui.rowOffset < Height /\ Len(ui.data) <= MaxLen

\* A skipped refresh is awaited, and without one the hints are there unless their
\* delay is awaited.
HintInv ==
  /\ phase = "done" \/ ~delay => ~ui.skipped
  /\ phase = "editing" /\ ~ui.skipped /\ (~options.hintDelay \/ ~delay) => Hinted(ui)

\* The types are those of the runs.
LEMMA RowTypes == RowInv => TypeOK
<1> SUFFICES ASSUME RowInv PROVE TypeOK
  OBVIOUS
<1>1. IsUi(ui) /\ IsFields(ui) /\ IsTerm(ui.term)
  BY DEF RowInv, IsUi, IsFields
<1>2. {delay, ui.modified, ui.moveCursor, ui.skipped, ui.hasNewlines} \subseteq BOOLEAN
  BY <1>1 DEF RowInv, IsFields
<1>3. ui.pos \in 0..Len(ui.data) /\ ui.columns = ui.term.columns
  BY <1>1 DEF IsFields
<1>4. ui.inputLength \in 0..Len(ui.display)
  BY <1>1 DEF IsUi, IsFields
<1>5. ui.rowOffset \in ui.extra..(Height - 1)
  BY <1>1, Bounds DEF RowInv, IsFields
<1>6. ui.term.y >= ui.term.top /\ ui.term.y < ui.term.top + Height
  BY <1>1 DEF IsTerm
<1> QED BY <1>2, <1>3, <1>4, <1>5, <1>6 DEF RowInv, TypeOK

\* The options are truth values.
LEMMA OptionsAre ==
  ASSUME RowInv
  PROVE  options.hinter \in BOOLEAN /\ options.hintDelay \in BOOLEAN
<1>1. OptionVals \subseteq [hinter : BOOLEAN, hintDelay : BOOLEAN, indentMultiline : BOOLEAN]
  BY RenderingAssumption, Zenon
<1> QED BY <1>1 DEF RowInv

\* The fields a handler leaves are kept until the next character.
LEMMA WaitsIs ==
  ASSUME RowInv, NEW s, Ready(s), Waits(s)
  PROVE  RowInv' /\ (Fine(s) => HintInv')
<1>1. /\ phase = "editing" /\ steps < MaxSteps /\ Admitted(s)
      /\ ui' = s /\ delay' = (s.skipped \/ options.hintDelay) /\ steps' = steps + 1
      /\ options' = options /\ phase' = phase
  BY DEF Waits
<1>2. IsUi(s) /\ RowKnown(s) /\ Len(s.data) <= MaxLen /\ s.rowOffset \in Nat /\ s.extra \in Nat
  BY DEF Ready, IsUi, IsFields
<1>3. s.rowOffset < Height
  BY <1>1, <1>2, RowFits, Bounds
<1>4. s.skipped \in BOOLEAN /\ options.hintDelay \in BOOLEAN
  BY <1>2, OptionsAre DEF IsUi, IsFields
<1>5. steps' \in 0..MaxSteps
  BY <1>1, Bounds DEF RowInv
<1>6. RowInv'
  BY <1>1, <1>2, <1>3, <1>4, <1>5 DEF RowInv
<1>7. ASSUME Fine(s) PROVE HintInv'
  <2>1. Hinted(s) = Hinted(ui)'
    BY <1>1 DEF Hinted
  <2>2. ~delay' => ~s.skipped
    BY <1>1
  <2>3. ~s.skipped /\ (~options.hintDelay \/ ~delay') => Hinted(s)
    BY <1>1, <1>7 DEF Fine
  <2> QED BY <1>1, <2>1, <2>2, <2>3 DEF HintInv
<1> QED BY <1>6, <1>7

\* And so are those that the loop leaves.
LEMMA HandledIs ==
  ASSUME RowInv, NEW s, Ready(s), Handled(s)
  PROVE  RowInv' /\ (s.modified \/ Fine(s) => HintInv')
<1>1. PICK again \in BOOLEAN : Waits(Loop(s, again))
  BY DEF Handled
<1>2. PICK r : r = Loop(s, again)
  OBVIOUS
<1>3. Ready(r) /\ (s.modified \/ Fine(s) => Fine(r))
  BY <1>2, LoopIs
<1>4. Waits(r)
  BY <1>1, <1>2
<1> QED BY <1>3, <1>4, WaitsIs

\* What happens while a character is awaited changes no delay.
LEMMA DuringIs ==
  ASSUME RowInv, NEW s, Ready(s), During(s)
  PROVE  /\ RowInv'
         /\ (/\ s.skipped => delay
             /\ ~s.skipped /\ (~options.hintDelay \/ ~delay) => Hinted(s)) => HintInv'
<1>1. /\ phase = "editing" /\ steps < MaxSteps /\ Admitted(s)
      /\ ui' = s /\ delay' = delay /\ steps' = steps + 1
      /\ options' = options /\ phase' = phase
  BY DEF During
<1>2. IsUi(s) /\ RowKnown(s) /\ Len(s.data) <= MaxLen /\ s.rowOffset \in Nat /\ s.extra \in Nat
  BY DEF Ready, IsUi, IsFields
<1>3. s.rowOffset < Height
  BY <1>1, <1>2, RowFits, Bounds
<1>5. steps' \in 0..MaxSteps
  BY <1>1, Bounds DEF RowInv
<1>6. RowInv'
  BY <1>1, <1>2, <1>3, <1>5 DEF RowInv
<1>7. Hinted(s) = Hinted(ui)'
  BY <1>1 DEF Hinted
<1>8. ASSUME s.skipped => delay, ~s.skipped /\ (~options.hintDelay \/ ~delay) => Hinted(s)
      PROVE  HintInv'
  BY <1>1, <1>7, <1>8 DEF HintInv
<1> QED BY <1>6, <1>8

-----------------------------------------------------------------------------
(* The steps.                                                               *)

\* A character is typed.
LEMMA TypeKeeps ==
  ASSUME RowInv, NEW c \in Characters, Type(c)
  PROVE  RowInv' /\ HintInv'
<1>1. PICK rapid \in BOOLEAN : Len(ui.data) < MaxLen /\ Waits(InsertCharacter(ui, c, rapid))
  BY DEF Type
<1>2. PICK s : s = InsertCharacter(ui, c, rapid)
  OBVIOUS
<1>3. c \in Glyphs
  BY RenderingAssumption, Zenon
<1>4. Ready(s) /\ Fine(s)
  BY <1>1, <1>2, <1>3, InsertIs DEF RowInv
<1>5. Waits(s)
  BY <1>1, <1>2
<1> QED BY <1>4, <1>5, WaitsIs

\* A newline is typed.
LEMMA NewLineKeeps ==
  ASSUME RowInv, NewLine
  PROVE  RowInv' /\ HintInv'
<1>1. PICK rapid \in BOOLEAN : Len(ui.data) < MaxLen /\ Handled(InsertCharacter(ui, Newline, rapid))
  BY DEF NewLine
<1>2. PICK s : s = InsertCharacter(ui, Newline, rapid)
  OBVIOUS
<1>3. Newline \in Glyphs
  BY RenderingAssumption
<1>4. Ready(s) /\ Fine(s)
  BY <1>1, <1>2, <1>3, InsertIs DEF RowInv
<1>5. Handled(s)
  BY <1>1, <1>2
<1> QED BY <1>4, <1>5, HandledIs

\* A character is erased.
LEMMA BackspaceKeeps ==
  ASSUME RowInv, Backspace
  PROVE  RowInv' /\ HintInv'
<1> DEFINE erased == [ui EXCEPT !.pos = @ - 1,
                             !.data = SubSeq(@, 1, ui.pos - 1) \o SubSeq(@, ui.pos + 1, Len(@))]
<1>1. PICK rapid \in BOOLEAN : ui.pos > 0 /\ Handled(RefreshLine(erased, "REGENERATE", rapid))
  BY DEF Backspace
<1>2. PICK n \in Nat, p \in Nat, d \in Seq(Glyphs) :
        n = Len(d) /\ d = ui.data /\ p = ui.pos /\ p \in 1..n /\ n <= MaxLen
  <2>1. PICK d \in Seq(Glyphs) : d = ui.data /\ ui.pos \in 0..Len(d) /\ Len(d) <= MaxLen
    BY DEF RowInv, IsUi, IsFields
  <2>2. PICK n \in Nat : n = Len(d)
    OBVIOUS
  <2>3. PICK p \in Nat : p = ui.pos /\ p \in 1..n
    BY <1>1, <2>1, <2>2
  <2> QED BY <2>1, <2>2, <2>3
<1>3. PICK e \in Seq(Glyphs) : e = SubSeq(d, 1, p - 1) \o SubSeq(d, p + 1, n) /\ Len(e) = n - 1
  <2>1. SubSeq(d, 1, p - 1) \in Seq(Glyphs) /\ Len(SubSeq(d, 1, p - 1)) = p - 1
    BY <1>2
  <2>2. SubSeq(d, p + 1, n) \in Seq(Glyphs) /\ Len(SubSeq(d, p + 1, n)) = n - p
    BY <1>2
  <2>3. PICK a \in Seq(Glyphs), b \in Seq(Glyphs) : /\ a = SubSeq(d, 1, p - 1) /\ b = SubSeq(d, p + 1, n)
                                                    /\ Len(a) = p - 1 /\ Len(b) = n - p
    BY <2>1, <2>2
  <2>4. a \o b \in Seq(Glyphs) /\ Len(a \o b) = (p - 1) + (n - p)
    BY <2>3
  <2>5. (p - 1) + (n - p) = n - 1
    BY <1>2
  <2>6. a \o b = SubSeq(d, 1, p - 1) \o SubSeq(d, p + 1, n)
    BY <2>3
  <2> QED BY <2>4, <2>5, <2>6, Zenon
<1>4. PICK q : q = erased
  OBVIOUS
<1>5. q = [ui EXCEPT !.pos = p - 1, !.data = e]
  BY <1>2, <1>3, <1>4
<1>6. IsUi(q) /\ q.rowOffset < Height /\ Len(q.data) <= MaxLen
  <2>1. IsFields(ui) /\ ui.inputLength <= Len(ui.display) /\ ui.rowOffset < Height
    BY DEF RowInv, IsUi
  <2>2. p - 1 \in 0..Len(e) /\ Len(e) <= MaxLen
    <3>1. p - 1 \in 0..(n - 1) /\ n - 1 <= MaxLen
      BY <1>2, Bounds
    <3> QED BY <1>3, <3>1
  <2>3. IsUi(q)
    BY <1>5, <2>1, <2>2 DEF IsUi, IsFields, UiFields
  <2>4. q.data = e /\ q.rowOffset = ui.rowOffset
    BY <1>5, <2>1 DEF IsFields, UiFields
  <2> QED BY <2>1, <2>2, <2>3, <2>4
<1>7. PICK r : r = RefreshLine(q, "REGENERATE", rapid)
  OBVIOUS
<1>8. Ready(r) /\ Fine(r)
  BY <1>6, <1>7, RedrawIs DEF RowKnown
<1>9. Handled(r)
  BY <1>1, <1>4, <1>7
<1> QED BY <1>8, <1>9, HandledIs

\* The text behind the cursor is killed.
LEMMA KillKeeps ==
  ASSUME RowInv, KillToEnd
  PROVE  RowInv' /\ HintInv'
<1>1. PICK n \in Nat, p \in Nat, d \in Seq(Glyphs) :
        n = Len(d) /\ d = ui.data /\ p = ui.pos /\ p \in 0..n /\ n <= MaxLen
  BY DEF RowInv, IsUi, IsFields
<1> DEFINE newlines == {i \in (p + 1)..n : d[i] = Newline}
           nearest == CHOOSE i \in newlines : \A j \in newlines : i <= j
           to == IF ui.hasNewlines /\ newlines # {} /\ p + 1 \notin newlines THEN nearest - 1 ELSE n
<1>2. newlines # {} => nearest \in newlines
  <2>1. newlines \subseteq Nat
    OBVIOUS
  <2> HIDE DEF newlines
  <2>2. ASSUME newlines # {} PROVE \E i \in newlines : \A j \in newlines : i <= j
    BY <2>1, <2>2, LeastNatural
  <2> QED BY <2>2
<1>3. to \in p..n
  <2>1. CASE newlines # {}
    <3>1. PICK i \in (p + 1)..n : i = nearest
      BY <1>2, <2>1
    <3> HIDE DEF nearest, newlines
    <3> QED BY <1>1, <3>1
  <2>2. CASE newlines = {}
    <3> HIDE DEF nearest, newlines
    <3> QED BY <1>1, <2>2
  <2> QED BY <2>1, <2>2
<1>4. Handled([ui EXCEPT !.data = SubSeq(d, 1, p) \o SubSeq(d, to + 1, n), !.modified = TRUE])
  BY <1>1 DEF KillToEnd
<1> HIDE DEF to
<1>5. PICK t \in Nat : t = to /\ p <= t /\ t <= n
  BY <1>1, <1>3
<1>6. PICK e \in Seq(Glyphs) : e = SubSeq(d, 1, p) \o SubSeq(d, t + 1, n) /\ Len(e) = p + (n - t)
  <2>1. SubSeq(d, 1, p) \in Seq(Glyphs) /\ Len(SubSeq(d, 1, p)) = p
    BY <1>1
  <2>2. SubSeq(d, t + 1, n) \in Seq(Glyphs) /\ Len(SubSeq(d, t + 1, n)) = n - t
    BY <1>1, <1>5
  <2>3. PICK a \in Seq(Glyphs), b \in Seq(Glyphs) : /\ a = SubSeq(d, 1, p) /\ b = SubSeq(d, t + 1, n)
                                                    /\ Len(a) = p /\ Len(b) = n - t
    BY <2>1, <2>2
  <2>4. a \o b \in Seq(Glyphs) /\ Len(a \o b) = p + (n - t)
    BY <2>3
  <2>5. a \o b = SubSeq(d, 1, p) \o SubSeq(d, t + 1, n)
    BY <2>3
  <2> QED BY <2>4, <2>5, Zenon
<1>7. PICK s : s = [ui EXCEPT !.data = e, !.modified = TRUE]
  OBVIOUS
<1>8. Handled(s)
  BY <1>4, <1>5, <1>6, <1>7
<1>9. IsUi(s) /\ s.rowOffset < Height /\ Len(s.data) <= MaxLen /\ s.modified
  <2>1. IsFields(ui) /\ ui.inputLength <= Len(ui.display) /\ ui.rowOffset < Height
    BY DEF RowInv, IsUi
  <2>2. ui.pos \in 0..Len(e) /\ Len(e) <= MaxLen
    <3>1. p \in 0..(p + (n - t)) /\ p + (n - t) <= MaxLen
      BY <1>1, <1>5, Bounds
    <3> QED BY <1>1, <1>6, <3>1
  <2>3. IsUi(s)
    BY <1>7, <2>1, <2>2 DEF IsUi, IsFields, UiFields
  <2>4. s.data = e /\ s.rowOffset = ui.rowOffset /\ s.modified
    BY <1>7, <2>1 DEF IsFields, UiFields
  <2> QED BY <2>1, <2>2, <2>3, <2>4
<1> QED BY <1>8, <1>9, HandledIs DEF Ready, RowKnown

\* The cursor is moved.
LEMMA MoveKeeps ==
  ASSUME RowInv, NEW p \in 0..Len(ui.data), Move(p)
  PROVE  RowInv' /\ (HintInv /\ Risks = {} => HintInv')
<1>1. Handled(MovedCursor(ui, p)) /\ (Avoids("cursor") => p # ui.oldPos \/ p = ui.pos)
  BY DEF Move
<1>2. Ready(ui)
  BY DEF RowInv, Ready, RowKnown
<1>3. PICK s : s = MovedCursor(ui, p)
  OBVIOUS
<1>4. /\ Ready(s) /\ s.skipped = ui.skipped
      /\ (p = ui.pos => (Hinted(ui) => Hinted(s)))
      /\ (p # ui.oldPos /\ p = Len(ui.data) => s.modified)
      /\ (p # Len(ui.data) => Hinted(s))
  BY <1>2, <1>3, MovedCursorIs
<1>5. Handled(s) /\ phase = "editing"
  BY <1>1, <1>3 DEF Handled, Waits
<1>6. ASSUME HintInv, Risks = {}, ~s.modified PROVE Fine(s)
  <2>1. p # ui.oldPos \/ p = ui.pos
    BY <1>1, <1>6 DEF Avoids
  <2>2. ~ui.skipped /\ ~options.hintDelay => Hinted(ui)
    BY <1>5, <1>6 DEF HintInv
  <2> QED BY <1>4, <1>6, <2>1, <2>2 DEF Fine
<1> QED BY <1>4, <1>5, <1>6, HandledIs

\* An entry of the history takes the place of the line.
LEMMA RecallKeeps ==
  ASSUME RowInv, NEW entry \in Preloads, Recall(entry)
  PROVE  RowInv' /\ HintInv'
<1>1. entry \in Seq(Glyphs) /\ Len(entry) <= MaxLen
  BY RenderingAssumption, Zenon
<1> DEFINE recalled == [ui EXCEPT !.data = entry, !.pos = Len(entry)]
<1>2. PICK rapid \in BOOLEAN :
        Handled(MovedCursor(RefreshLine(recalled, "REGENERATE", rapid), Len(entry)))
  BY DEF Recall
<1>3. PICK q : q = recalled
  OBVIOUS
<1>4. IsUi(q) /\ q.rowOffset < Height /\ q.data = entry /\ q.pos = Len(entry)
  <2>1. IsFields(ui) /\ ui.inputLength <= Len(ui.display) /\ ui.rowOffset < Height
    BY DEF RowInv, IsUi
  <2>2. Len(entry) \in 0..Len(entry)
    BY <1>1
  <2>3. IsUi(q)
    BY <1>1, <1>3, <2>1, <2>2 DEF IsUi, IsFields, UiFields
  <2>4. q.rowOffset = ui.rowOffset /\ q.data = entry /\ q.pos = Len(entry)
    BY <1>3, <2>1 DEF IsFields, UiFields
  <2> QED BY <2>1, <2>3, <2>4
<1>5. PICK r : r = RefreshLine(q, "REGENERATE", rapid)
  OBVIOUS
<1>6. /\ Ready(r) /\ Fine(r) /\ r.data = entry /\ r.pos = Len(entry)
  BY <1>1, <1>4, <1>5, RedrawIs DEF RowKnown, LineSame
<1>7. PICK s : s = MovedCursor(r, Len(entry))
  OBVIOUS
<1>8. Ready(s) /\ s.skipped = r.skipped /\ (Hinted(r) => Hinted(s))
  <2>1. Len(entry) \in 0..Len(r.data)
    BY <1>1, <1>6
  <2> QED BY <1>6, <1>7, <2>1, MovedCursorIs
<1>9. Fine(s)
  BY <1>6, <1>8 DEF Fine
<1>10. Handled(s)
  BY <1>2, <1>3, <1>5, <1>7
<1> QED BY <1>8, <1>9, <1>10, HandledIs

\* Another hint is chosen.
LEMMA HintMoveKeeps ==
  ASSUME RowInv, NEW by \in {-1, 1}, HintMove(by)
  PROVE  RowInv' /\ HintInv'
<1> DEFINE chosen == [ui EXCEPT !.selection = @ + by]
<1>1. PICK rapid \in BOOLEAN : Handled(RefreshLine(chosen, "REPAINT", rapid))
  BY DEF HintMove
<1>2. PICK q : q = chosen
  OBVIOUS
<1>3. IsUi(q) /\ q.rowOffset < Height /\ Len(q.data) <= MaxLen
  <2>1. IsFields(ui) /\ ui.inputLength <= Len(ui.display) /\ ui.rowOffset < Height
        /\ Len(ui.data) <= MaxLen
    BY DEF RowInv, IsUi
  <2>2. PICK n \in Int : n = ui.selection + by
    BY <2>1 DEF IsFields
  <2>3. q = [ui EXCEPT !.selection = n]
    BY <1>2, <2>2
  <2>4. IsUi(q)
    BY <2>1, <2>3 DEF IsUi, IsFields, UiFields
  <2>5. q.rowOffset = ui.rowOffset /\ q.data = ui.data
    BY <2>1, <2>3 DEF IsFields, UiFields
  <2> QED BY <2>1, <2>4, <2>5
<1>4. PICK r : r = RefreshLine(q, "REPAINT", rapid)
  OBVIOUS
<1>5. Ready(r) /\ Fine(r)
  BY <1>3, <1>4, RedrawIs DEF RowKnown
<1>6. Handled(r)
  BY <1>1, <1>2, <1>4
<1> QED BY <1>5, <1>6, HandledIs

\* The prompt is written anew, and the cursor taken to be in its last row.
LEMMA PromptedIs ==
  ASSUME NEW s, IsUi(s)
  PROVE  LET p == WritePrompt(s)
             r == [p EXCEPT !.rowOffset = p.extra]
         IN /\ IsUi(r) /\ RowKnown(r) /\ LineSame(s, r) /\ r.skipped = s.skipped
<1>1. PICK p : p = WritePrompt(s) /\ IsUi(p) /\ OnlyTerm(s, p)
  BY PromptIs
<1>2. IsFields(p) /\ p.inputLength <= Len(p.display)
  BY <1>1 DEF IsUi
<1>3. PICK r : r = [p EXCEPT !.rowOffset = p.extra]
  OBVIOUS
<1>4. IsUi(r)
  BY <1>2, <1>3 DEF IsUi, IsFields, UiFields
<1>5. LineSame(p, r) /\ r.skipped = p.skipped /\ r.rowOffset = r.extra
  BY <1>2, <1>3 DEF LineSame, IsFields, UiFields
<1>6. LineSame(s, r) /\ r.skipped = s.skipped
  BY <1>1, <1>5 DEF OnlyTerm, LineSame
<1> QED BY <1>1, <1>3, <1>4, <1>5, <1>6 DEF RowKnown

\* The screen is cleared.
LEMMA ClearScreenKeeps ==
  ASSUME RowInv, ClearScreen
  PROVE  RowInv' /\ HintInv'
<1>0. IsUi(ui) /\ IsTerm(ui.term) /\ ui.term.columns = ui.columns /\ Len(ui.data) <= MaxLen
  BY DEF RowInv, IsUi, IsFields
<1> DEFINE fresh == [ui EXCEPT !.term = Fresh(@.columns)]
           prompted == WritePrompt(fresh)
           ready == [prompted EXCEPT !.rowOffset = prompted.extra]
<1>1. PICK rapid \in BOOLEAN : Handled(RefreshLine(ready, "REGENERATE", rapid))
  BY DEF ClearScreen
<1>2. PICK t : t = Fresh(ui.columns) /\ IsTerm(t) /\ t.columns = ui.columns
  <2>1. ui.columns \in Nat \ {0}
    BY <1>0 DEF IsTerm
  <2> QED BY <2>1, FreshIs
<1>3. PICK f : f = fresh
  OBVIOUS
<1>4. IsUi(f) /\ OnlyTerm(ui, f)
  <2>1. f = [ui EXCEPT !.term = t]
    BY <1>0, <1>2, <1>3
  <2> QED BY <1>0, <1>2, <2>1, TermIs
<1>5. PICK q : q = ready
  OBVIOUS
<1>6. IsUi(q) /\ RowKnown(q) /\ LineSame(f, q)
  BY <1>3, <1>4, <1>5, PromptedIs
<1>7. Len(q.data) <= MaxLen
  BY <1>0, <1>4, <1>6 DEF OnlyTerm, LineSame
<1>8. PICK r : r = RefreshLine(q, "REGENERATE", rapid)
  OBVIOUS
<1>9. Ready(r) /\ Fine(r)
  BY <1>6, <1>7, <1>8, RedrawIs
<1>10. Handled(r)
  BY <1>1, <1>5, <1>8
<1> QED BY <1>9, <1>10, HandledIs

\* What a handler paints again stays as it is.
LEMMA PaintedIs ==
  ASSUME RowInv, NEW s, IsUi(s), s.rowOffset < Height, s.data = ui.data, s.pos = ui.pos,
         s.display = ui.display, s.inputLength = ui.inputLength,
         NEW rapid \in BOOLEAN, Repaintable, Handled(Repaint(s, rapid))
  PROVE  RowInv' /\ (HintInv /\ Risks = {} => HintInv')
<1>1. PICK r : r = Repaint(s, rapid)
  OBVIOUS
<1>2. Len(s.data) <= MaxLen
  BY DEF RowInv
<1>3. /\ Ready(r) /\ (rapid => r.skipped)
      /\ (~rapid => ~r.skipped /\ (Hinted(s) => Hinted(r)))
  BY <1>1, <1>2, RepaintIs
<1>4. Handled(r) /\ phase = "editing"
  BY <1>1 DEF Handled, Waits
<1>5. ASSUME HintInv, Risks = {} PROVE Fine(r)
  <2>1. ~ui.skipped
    BY <1>5 DEF Repaintable, Reliable, Avoids
  <2>2. ~options.hintDelay => Hinted(ui)
    BY <1>4, <1>5, <2>1 DEF HintInv
  <2>3. Hinted(ui) => Hinted(s)
    BY DEF Hinted
  <2> QED BY <1>3, <2>2, <2>3 DEF Fine
<1> QED BY <1>3, <1>4, <1>5, HandledIs

\* A handler sets the prompt.
LEMMA SetPromptKeeps ==
  ASSUME RowInv, Avoids("prompt"), NEW text \in Prompts, SetPrompt(text)
  PROVE  RowInv' /\ (HintInv /\ Risks = {} => HintInv')
<1>0. text \in Seq(Glyphs)
  BY RenderingAssumption, Zenon
<1>1. PICK changed : changed = SetText(ui, text)
  OBVIOUS
<1>2. PICK rapid \in BOOLEAN :
        changed.extra = ui.extra /\ Repaintable /\ Handled(Repaint(ClearSelf(changed), rapid))
  BY <1>1 DEF SetPrompt
<1>3. IsUi(ui) /\ ui.rowOffset < Height
  BY DEF RowInv
<1>4. /\ IsUi(changed) /\ changed.data = ui.data /\ changed.pos = ui.pos
      /\ changed.display = ui.display /\ changed.inputLength = ui.inputLength
      /\ changed.rowOffset < Height
  BY <1>0, <1>1, <1>2, <1>3, SetTextIs
<1>5. PICK s : s = ClearSelf(changed) /\ IsUi(s) /\ OnlyTerm(changed, s)
  BY <1>4, ClearSelfIs
<1>6. /\ s.data = ui.data /\ s.pos = ui.pos /\ s.display = ui.display
      /\ s.inputLength = ui.inputLength /\ s.rowOffset < Height
  BY <1>4, <1>5 DEF OnlyTerm, LineSame
<1>7. Handled(Repaint(s, rapid))
  BY <1>2, <1>5
<1> QED BY <1>2, <1>5, <1>6, <1>7, PaintedIs

\* The cells of a text are cells.
LEMMA CellsAre == ASSUME NEW text \in Seq(Glyphs) PROVE Cells(text) \in Seq(CellSet)
<1>1. \A i \in 1..Len(text) : Plain(text[i]) \in CellSet
  BY DEF Plain, CellSet
<1>2. Cells(text) = [i \in 1..Len(text) |-> Plain(text[i])]
  BY DEF Cells
<1> QED BY <1>1, <1>2

\* A line that is printed.
LEMMA LineIs ==
  ASSUME NEW message \in Messages
  PROVE  Cells(Append(message, Newline)) \in Seq(CellSet)
<1>1. message \in Seq(Glyphs)
  BY RenderingAssumption, Zenon
<1>2. Newline \in Glyphs
  BY RenderingAssumption
<1>3. Append(message, Newline) \in Seq(Glyphs)
  BY <1>1, <1>2
<1> QED BY <1>3, CellsAre

\* A handler prints.
LEMMA HandlerPrintsKeeps ==
  ASSUME RowInv, NEW message \in Messages, HandlerPrints(message)
  PROVE  RowInv' /\ (HintInv /\ Risks = {} => HintInv')
<1>1. PICK cells \in Seq(CellSet) : cells = Cells(Append(message, Newline))
  BY LineIs
<1>2. PICK cleared : cleared = ClearSelf(ui)
  OBVIOUS
<1>3. PICK s : s = [cleared EXCEPT !.term = Written(@, cells)]
  OBVIOUS
<1>4. PICK rapid \in BOOLEAN : Repaintable /\ Handled(Repaint(s, rapid))
  BY <1>1, <1>2, <1>3 DEF HandlerPrints
<1>5. IsUi(ui) /\ ui.rowOffset < Height
  BY DEF RowInv
<1>6. IsUi(cleared) /\ OnlyTerm(ui, cleared)
  BY <1>2, <1>5, ClearSelfIs
<1>7. Len(cells) \in Nat
  OBVIOUS
<1>8. IsUi(s) /\ OnlyTerm(cleared, s)
  BY <1>3, <1>6, <1>7, WriteIs
<1>9. /\ s.data = ui.data /\ s.pos = ui.pos /\ s.display = ui.display
      /\ s.inputLength = ui.inputLength /\ s.rowOffset < Height
  BY <1>5, <1>6, <1>8 DEF OnlyTerm, LineSame
<1> QED BY <1>4, <1>8, <1>9, PaintedIs

\* What a step leaves that draws itself.
LEMMA KeptIs ==
  ASSUME NEW s, Ready(s), Admitted(s) PROVE s.rowOffset < Height
<1>1. s.rowOffset \in Nat /\ s.extra \in Nat /\ IsUi(s) /\ RowKnown(s)
  BY DEF Ready, IsUi, IsFields
<1> QED BY <1>1, RowFits, Bounds

\* The timeout.
LEMMA TimeOutKeeps ==
  ASSUME RowInv, TimeOut
  PROVE  RowInv' /\ (Risks = {} => HintInv')
<1>1. PICK action \in {"REGENERATE", "REPAINT"} :
        action = IF ui.skipped THEN "REGENERATE" ELSE "REPAINT"
  OBVIOUS
<1>2. /\ phase = "editing" /\ delay /\ delay' = FALSE
      /\ (Avoids("hints") => ~(ui.skipped /\ options.hintDelay))
      /\ ui' = RefreshLine(ui, action, FALSE) /\ Admitted(ui')
      /\ options' = options /\ phase' = phase /\ steps' = steps
  BY <1>1 DEF TimeOut
<1>3. PICK r : r = RefreshLine(ui, action, FALSE)
  OBVIOUS
<1>4. IsUi(ui) /\ Len(ui.data) <= MaxLen
  BY DEF RowInv
<1>5. Ready(r) /\ Refreshed(ui, r, action)
  BY <1>3, <1>4, RefreshIs DEF HintActions
<1>6. ui' = r /\ Admitted(r)
  BY <1>2, <1>3
<1>7. IsUi(r) /\ r.rowOffset < Height /\ Len(r.data) <= MaxLen
  BY <1>5, <1>6, KeptIs DEF Ready
<1>8. RowInv'
  BY <1>2, <1>6, <1>7 DEF RowInv
<1>9. ASSUME Risks = {} PROVE HintInv'
  <2>1. Draws(action)
    BY <1>1, <1>2, <1>9 DEF Draws, Avoids
  <2>2. ~r.skipped /\ Hinted(r)
    BY <1>5, <2>1 DEF Refreshed
  <2>3. Hinted(r) = Hinted(ui)'
    BY <1>2, <1>6 DEF Hinted
  <2> QED BY <1>6, <2>2, <2>3 DEF HintInv
<1> QED BY <1>8, <1>9

\* The window has another width.
LEMMA ResizeKeeps ==
  ASSUME RowInv, NEW columns \in Widths, Resize(columns)
  PROVE  RowInv' /\ (Risks = {} => HintInv')
<1>0. columns \in Nat \ {0}
  BY RenderingAssumption, Zenon
<1>1. PICK s : s = [ui EXCEPT !.term = Resized(@, columns), !.columns = columns]
  OBVIOUS
<1>2. PICK rapid \in BOOLEAN :
        /\ Avoids("rapid") => ~ui.skipped /\ (rapid => delay)
        /\ During(RefreshLine(s, "REPAINT", rapid))
  BY <1>1 DEF Resize
<1>3. IsFields(ui) /\ ui.inputLength <= Len(ui.display) /\ ui.rowOffset < Height
      /\ Len(ui.data) <= MaxLen /\ IsTerm(ui.term)
  BY DEF RowInv, IsUi, IsFields
<1>4. PICK t : t = Resized(ui.term, columns) /\ IsTerm(t) /\ t.columns = columns
  BY <1>0, <1>3, ResizedIs
<1>5. s = [ui EXCEPT !.term = t, !.columns = columns]
  BY <1>1, <1>4
<1>6. IsUi(s)
  BY <1>3, <1>4, <1>5 DEF IsUi, IsFields, UiFields
<1>7. s.rowOffset < Height /\ Len(s.data) <= MaxLen
  BY <1>3, <1>5 DEF IsFields, UiFields
<1>8. PICK r : r = RefreshLine(s, "REPAINT", rapid)
  OBVIOUS
<1>9. /\ Ready(r) /\ (rapid => r.skipped) /\ (~rapid => Refreshed(s, r, "REPAINT"))
  BY <1>6, <1>7, <1>8, RefreshIs DEF HintActions, RowKnown
<1>10. During(r)
  BY <1>2, <1>8
<1>11. ASSUME Risks = {} PROVE r.skipped => delay
  BY <1>2, <1>9, <1>11 DEF Avoids, Refreshed
<1>12. ~r.skipped => Hinted(r)
  BY <1>9 DEF Refreshed, Draws
<1> QED BY <1>9, <1>10, <1>11, <1>12, DuringIs

\* Messages of other threads, or a prompt of theirs.
LEMMA MessageKeeps ==
  ASSUME RowInv, NEW messages \in {<<>>} \cup Messages \X Messages,
         NEW prompt \in {<<>>} \cup Prompts, Message(messages, prompt)
  PROVE  RowInv' /\ (HintInv /\ Risks = {} => HintInv')
<1>1. PICK cleared : cleared = ClearSelf(ui)
  OBVIOUS
<1>2. PICK updated : updated = IF prompt = <<>> THEN cleared ELSE SetText(cleared, prompt)
  OBVIOUS
<1> DEFINE Line(message) == Cells(Append(message, Newline))
           lines == [i \in DOMAIN messages |-> Line(messages[i])]
<1>3. PICK cells : cells = FlattenSeq(lines)
  OBVIOUS
<1>4. PICK s : s = [updated EXCEPT !.term = Written(@, cells)]
  OBVIOUS
<1>5. Repaintable /\ During(Repaint(s, FALSE))
  BY <1>1, <1>2, <1>3, <1>4 DEF Message
<1>6. Len(cells) \in Nat
  <2>1. lines \in Seq(Seq(CellSet))
    <3>1. CASE messages = <<>>
      BY <3>1
    <3>2. CASE messages \in Messages \X Messages
      <4>1. PICK m1 \in Messages, m2 \in Messages : messages = <<m1, m2>>
        BY <3>2
      <4>2. Line(m1) \in Seq(CellSet) /\ Line(m2) \in Seq(CellSet)
        BY LineIs
      <4> HIDE DEF Line
      <4>3. lines = <<Line(m1), Line(m2)>>
        BY <4>1
      <4> QED BY <4>2, <4>3
    <3> QED BY <3>1, <3>2
  <2> HIDE DEF lines
  <2>2. cells \in Seq(CellSet)
    BY <1>3, <2>1, FlattenIs
  <2> QED BY <2>2
<1>7. IsUi(ui) /\ Len(ui.data) <= MaxLen
  BY DEF RowInv
<1>8. IsUi(cleared) /\ OnlyTerm(ui, cleared)
  BY <1>1, <1>7, ClearSelfIs
<1>9. /\ IsUi(updated) /\ updated.data = ui.data /\ updated.pos = ui.pos
      /\ updated.display = ui.display /\ updated.inputLength = ui.inputLength
  <2>1. CASE prompt = <<>>
    BY <1>2, <1>8, <2>1 DEF OnlyTerm, LineSame
  <2>2. CASE prompt # <<>>
    <3>1. prompt \in Seq(Glyphs)
      BY <2>2, RenderingAssumption, Zenon
    <3>2. updated = SetText(cleared, prompt)
      BY <1>2, <2>2
    <3> QED BY <1>8, <3>1, <3>2, SetTextIs DEF OnlyTerm, LineSame
  <2> QED BY <2>1, <2>2
<1>10. IsUi(s) /\ OnlyTerm(updated, s)
  BY <1>4, <1>6, <1>9, WriteIs
<1>11. /\ s.data = ui.data /\ s.pos = ui.pos /\ s.display = ui.display
       /\ s.inputLength = ui.inputLength /\ Len(s.data) <= MaxLen
  BY <1>7, <1>9, <1>10 DEF OnlyTerm, LineSame
<1>12. PICK r : r = Repaint(s, FALSE)
  OBVIOUS
<1>13. Ready(r) /\ ~r.skipped /\ (Hinted(s) => Hinted(r))
  BY <1>10, <1>11, <1>12, RepaintIs
<1>14. During(r) /\ phase = "editing"
  BY <1>5, <1>12 DEF During
<1>15. ASSUME HintInv, Risks = {}, ~options.hintDelay \/ ~delay PROVE Hinted(r)
  <2>1. ~ui.skipped
    BY <1>5, <1>15 DEF Repaintable, Reliable, Avoids
  <2>2. Hinted(ui)
    BY <1>14, <1>15, <2>1 DEF HintInv
  <2> QED BY <1>11, <1>13, <2>2 DEF Hinted
<1> QED BY <1>13, <1>14, <1>15, DuringIs

\* The line is done.
LEMMA CommitKeeps ==
  ASSUME RowInv, Commit
  PROVE  RowInv' /\ HintInv'
<1>1. PICK q : q = [ui EXCEPT !.pos = Len(ui.data)]
  OBVIOUS
<1>2. PICK action \in HintActions : action = IF ui.skipped THEN "REGENERATE" ELSE "TRIM"
  BY DEF HintActions
<1>3. PICK r : r = RefreshLine(q, action, FALSE)
  OBVIOUS
<1>4. /\ steps < MaxSteps /\ Admitted(r) /\ ui' = [r EXCEPT !.term = Feed(@)]
      /\ phase' = "done" /\ delay' = FALSE /\ steps' = steps + 1 /\ options' = options
  BY <1>1, <1>2, <1>3 DEF Commit
<1>5. IsUi(q) /\ Len(q.data) <= MaxLen
  <2>1. IsFields(ui) /\ ui.inputLength <= Len(ui.display) /\ Len(ui.data) <= MaxLen
    BY DEF RowInv, IsUi
  <2>2. PICK n \in Nat : n = Len(ui.data) /\ n \in 0..n
    BY <2>1 DEF IsFields
  <2>3. q = [ui EXCEPT !.pos = n]
    BY <1>1, <2>2
  <2>4. IsUi(q)
    BY <2>1, <2>2, <2>3 DEF IsUi, IsFields, UiFields
  <2> QED BY <2>1, <2>3, <2>4 DEF IsFields, UiFields
<1>6. Ready(r) /\ ~r.skipped
  BY <1>3, <1>5, RefreshIs DEF Refreshed
<1>7. r.rowOffset < Height
  BY <1>4, <1>6, KeptIs
<1>8. IsUi(r) /\ IsTerm(r.term) /\ r.term.columns = r.columns /\ Len(r.data) <= MaxLen
  BY <1>6 DEF Ready, IsUi, IsFields
<1>9. PICK t : t = Feed(r.term) /\ IsTerm(t) /\ t.columns = r.columns
  BY <1>8, FeedIs
<1>10. PICK f : f = [r EXCEPT !.term = t]
  OBVIOUS
<1>11. IsUi(f) /\ OnlyTerm(r, f)
  BY <1>8, <1>9, <1>10, TermIs
<1>12. ui' = f
  BY <1>4, <1>9, <1>10
<1>13. f.rowOffset < Height /\ Len(f.data) <= MaxLen /\ ~f.skipped
  BY <1>6, <1>7, <1>8, <1>11 DEF OnlyTerm, LineSame
<1>14. steps' \in 0..MaxSteps
  BY <1>4, Bounds DEF RowInv
<1>15. RowInv'
  BY <1>4, <1>11, <1>12, <1>13, <1>14 DEF RowInv
<1>16. HintInv'
  BY <1>4, <1>12, <1>13 DEF HintInv
<1> QED BY <1>15, <1>16

\* An empty line has no hints.
LEMMA EmptyUnwanted == ASSUME Hints(<<>>) = <<>> PROVE ~Wanted(<<>>)
<1>1. PICK d \in Seq(Glyphs) : d = <<>> /\ Len(d) = 0
  <2>1. <<>> \in Seq(Glyphs) /\ Len(<<>>) = 0
    OBVIOUS
  <2> QED BY <2>1, Zenon
<1>2. PICK c \in Seq(Glyphs) : c = Context(d) /\ Len(c) \in 0..Len(d)
  BY ContextIs
<1>3. c = <<>>
  BY <1>1, <1>2
<1>4. HintsFor(d) = <<>>
  BY <1>2, <1>3 DEF HintsFor
<1>5. ~Wanted(d)
  BY <1>4 DEF Wanted
<1> QED BY <1>1, <1>5

\* The next call of input().
LEMMA NextInputKeeps ==
  ASSUME RowInv, NEW prompt \in Prompts, NEW preload \in Preloads, NextInput(prompt, preload)
  PROVE  RowInv' /\ (HintInv /\ Hints(<<>>) = <<>> => HintInv')
<1>0. prompt \in Seq(Glyphs) /\ preload \in Seq(Glyphs) /\ Len(preload) <= MaxLen
  BY RenderingAssumption, Zenon
<1>1. PICK rapid \in BOOLEAN :
        LET s == Started(ui, prompt, preload, rapid)
        IN /\ phase = "done" /\ phase' = "editing" /\ Admitted(s)
           /\ ui' = s /\ delay' = (s.skipped \/ options.hintDelay)
           /\ UNCHANGED <<options, above, steps>>
  BY DEF NextInput
<1>2. PICK set : set = SetText(ui, prompt) /\ IsUi(set) /\ set.skipped = ui.skipped
  BY <1>0, SetTextIs DEF RowInv
<1>3. PICK line : /\ line = [Blanked(set) EXCEPT !.data = preload, !.pos = Len(preload)]
                  /\ IsUi(line) /\ line.data = preload /\ line.skipped = ui.skipped
  <2>1. PICK line : line = [Blanked(set) EXCEPT !.data = preload, !.pos = Len(preload)]
    OBVIOUS
  <2>2. IsFields(set) /\ DOMAIN set = UiFields
    BY <1>2 DEF IsUi, IsFields
  <2>3. PICK n \in Nat : n = Len(preload) /\ n \in 0..Len(preload)
    BY <1>0
  <2>4. PICK none \in Seq(CellSet) : none = <<>> /\ Len(none) = 0
    <3>1. <<>> \in Seq(CellSet) /\ Len(<<>>) = 0
      OBVIOUS
    <3> QED BY <3>1, Zenon
  <2>5. PICK blank : blank = [set EXCEPT !.data = none, !.pos = 0, !.selection = -1,
                                         !.display = none, !.inputLength = 0]
    OBVIOUS
  <2>6. line = [blank EXCEPT !.data = preload, !.pos = n]
    BY <2>1, <2>3, <2>4, <2>5 DEF Blanked
  <2>7. DOMAIN blank = UiFields
    BY <2>2, <2>5 DEF UiFields
  <2>8. /\ DOMAIN line = UiFields /\ line.term = set.term /\ line.data = preload
        /\ line.pos = n /\ line.display = none /\ line.inputLength = 0
        /\ line.selection = -1 /\ line.prompt = set.prompt /\ line.columns = set.columns
        /\ line.extra = set.extra /\ line.indent = set.indent
        /\ line.rowOffset = set.rowOffset /\ line.hasNewlines = set.hasNewlines
        /\ line.modified = set.modified /\ line.moveCursor = set.moveCursor
        /\ line.skipped = set.skipped
    BY <2>2, <2>5, <2>6, <2>7 DEF UiFields
  <2>9. IsUi(line)
    BY <1>0, <2>2, <2>3, <2>4, <2>8 DEF IsUi, IsFields
  <2> QED BY <1>2, <2>1, <2>8, <2>9
<1> DEFINE prompted == WritePrompt(line)
<1>4. PICK ready : /\ ready = [prompted EXCEPT !.rowOffset = prompted.extra]
                   /\ IsUi(ready) /\ RowKnown(ready) /\ LineSame(line, ready)
                   /\ ready.skipped = line.skipped
  BY <1>3, PromptedIs
<1>5. PICK r : r = IF preload = <<>> THEN ready ELSE RefreshLine(ready, "REGENERATE", rapid)
  OBVIOUS
<1>6. r = Started(ui, prompt, preload, rapid)
  BY <1>2, <1>3, <1>4, <1>5 DEF Started
<1>7. ready.data = preload /\ Len(ready.data) <= MaxLen
  BY <1>0, <1>3, <1>4 DEF LineSame
<1>8. Ready(r) /\ (ready.skipped \/ Hints(<<>>) # <<>> \/ Fine(r))
  <2>1. CASE preload = <<>>
    <3>1. r = ready
      BY <1>5, <2>1
    <3>2. ASSUME Hints(<<>>) = <<>> PROVE Fine(r)
      <4>1. ~Wanted(r.data)
        BY <1>7, <2>1, <3>1, <3>2, EmptyUnwanted
      <4> QED BY <4>1 DEF Fine, Hinted
    <3> QED BY <1>4, <1>7, <3>1, <3>2 DEF Ready
  <2>2. CASE preload # <<>>
    <3>1. r = RefreshLine(ready, "REGENERATE", rapid)
      BY <1>5, <2>2
    <3> QED BY <1>4, <1>7, <3>1, RedrawIs
  <2> QED BY <2>1, <2>2
<1>9. /\ phase = "done" /\ phase' = "editing" /\ Admitted(r)
      /\ ui' = r /\ delay' = (r.skipped \/ options.hintDelay)
      /\ options' = options /\ steps' = steps
  BY <1>1, <1>6
<1>10. IsUi(r) /\ r.rowOffset < Height /\ Len(r.data) <= MaxLen
  BY <1>8, <1>9, KeptIs DEF Ready
<1>11. r.skipped \in BOOLEAN /\ options.hintDelay \in BOOLEAN
  BY <1>10, OptionsAre DEF IsUi, IsFields
<1>12. RowInv'
  BY <1>9, <1>10, <1>11 DEF RowInv
<1>13. ASSUME HintInv, Hints(<<>>) = <<>> PROVE HintInv'
  <2>1. ~ready.skipped
    BY <1>3, <1>4, <1>9, <1>13 DEF HintInv
  <2>2. Fine(r)
    BY <1>8, <1>13, <2>1
  <2>3. Hinted(r) = Hinted(ui)'
    BY <1>9 DEF Hinted
  <2> QED BY <1>9, <2>2, <2>3 DEF HintInv, Fine
<1> QED BY <1>12, <1>13

\* The first states.
LEMMA InitHolds == ASSUME Init PROVE RowInv /\ HintInv
<1>1. PICK columns \in Widths : ui = Unused(columns)
  BY DEF Init
<1>2. columns \in Nat \ {0}
  BY RenderingAssumption, Zenon
<1>3. PICK t : t = Fresh(columns) /\ IsTerm(t) /\ t.columns = columns
  BY <1>2, FreshIs
<1>4. <<>> \in Seq(Glyphs) /\ <<>> \in Seq(CellSet) /\ Len(<<>>) = 0
  OBVIOUS
<1>5. ui = [term |-> t, data |-> <<>>, pos |-> 0, oldPos |-> 0, display |-> <<>>,
            inputLength |-> 0, hasNewlines |-> FALSE, selection |-> -1, prompt |-> <<>>,
            columns |-> columns, extra |-> 0, indent |-> 0, rowOffset |-> 0, modified |-> FALSE,
            moveCursor |-> FALSE, skipped |-> FALSE]
  BY <1>1, <1>3 DEF Unused
<1>6. IsUi(ui)
  BY <1>3, <1>4, <1>5 DEF IsUi, IsFields, UiFields
<1>7. ui.rowOffset < Height /\ Len(ui.data) <= MaxLen /\ ~ui.skipped
  BY <1>4, <1>5, Bounds
<1>8. delay = FALSE /\ phase = "done" /\ steps = 0 /\ options \in OptionVals
  BY DEF Init
<1>9. steps \in 0..MaxSteps
  BY <1>8, Bounds
<1> QED BY <1>6, <1>7, <1>8, <1>9 DEF RowInv, HintInv

-----------------------------------------------------------------------------

\* Every step keeps the types and the cursor's row on the screen, and, where no
\* defect is let happen, the hints that are wanted.
LEMMA StepKeeps ==
  ASSUME RowInv, Avoids("prompt"), [Next]_vars
  PROVE  /\ RowInv'
         /\ HintInv /\ Risks = {} /\ Hints(<<>>) = <<>> => HintInv'
<1>1. ASSUME NEW c \in Characters, Type(c) PROVE RowInv' /\ HintInv'
  BY <1>1, TypeKeeps
<1>2. CASE NewLine
  BY <1>2, NewLineKeeps
<1>3. CASE Backspace
  BY <1>3, BackspaceKeeps
<1>4. CASE KillToEnd
  BY <1>4, KillKeeps
<1>5. CASE ClearScreen
  BY <1>5, ClearScreenKeeps
<1>6. CASE TimeOut
  BY <1>6, TimeOutKeeps
<1>7. CASE Commit
  BY <1>7, CommitKeeps
<1>8. ASSUME NEW p \in 0..Len(ui.data), Move(p)
      PROVE  RowInv' /\ (HintInv /\ Risks = {} => HintInv')
  BY <1>8, MoveKeeps
<1>9. ASSUME NEW entry \in Preloads, Recall(entry) PROVE RowInv' /\ HintInv'
  BY <1>9, RecallKeeps
<1>10. ASSUME NEW by \in {-1, 1}, HintMove(by) PROVE RowInv' /\ HintInv'
  BY <1>10, HintMoveKeeps
<1>11. ASSUME NEW text \in Prompts, SetPrompt(text)
       PROVE  RowInv' /\ (HintInv /\ Risks = {} => HintInv')
  BY <1>11, SetPromptKeeps
<1>12. ASSUME NEW message \in Messages, HandlerPrints(message)
       PROVE  RowInv' /\ (HintInv /\ Risks = {} => HintInv')
  BY <1>12, HandlerPrintsKeeps
<1>13. ASSUME NEW columns \in Widths, Resize(columns)
       PROVE  RowInv' /\ (Risks = {} => HintInv')
  BY <1>13, ResizeKeeps
<1>14. ASSUME NEW messages \in {<<>>} \cup Messages \X Messages,
              NEW prompt \in {<<>>} \cup Prompts, Message(messages, prompt)
       PROVE  RowInv' /\ (HintInv /\ Risks = {} => HintInv')
  BY <1>14, MessageKeeps
<1>15. ASSUME NEW prompt \in Prompts, NEW preload \in Preloads, NextInput(prompt, preload)
       PROVE  RowInv' /\ (HintInv /\ Hints(<<>>) = <<>> => HintInv')
  BY <1>15, NextInputKeeps
<1>16. CASE UNCHANGED vars
  <2>1. ui' = ui /\ options' = options /\ delay' = delay /\ phase' = phase /\ steps' = steps
    BY <1>16 DEF vars
  <2>2. RowInv'
    BY <2>1 DEF RowInv
  <2>3. Hinted(ui)' = Hinted(ui)
    BY <2>1 DEF Hinted
  <2> QED BY <2>1, <2>2, <2>3 DEF HintInv
<1> QED BY <1>1, <1>2, <1>3, <1>4, <1>5, <1>6, <1>7, <1>8, <1>9, <1>10, <1>11, <1>12, <1>13,
           <1>14, <1>15, <1>16, Zenon DEF Next

\* The hints that are wanted are those that are not empty.
LEMMA WantedAre ==
  ASSUME RowInv, InlineHint(ui) # <<>> \/ HintRows(ui) # <<>>
  PROVE  Wanted(ui.data)
<1>1. IsFields(ui) /\ ui.data \in Seq(Glyphs) /\ Len(ui.data) <= MaxLen
  BY DEF RowInv, IsUi, IsFields
<1>2. PICK hints \in Seq(Seq(Glyphs)) : hints = HintsFor(ui.data)
  BY <1>1, HintsAre
<1>3. PICK count \in Nat : count = Len(hints)
  OBVIOUS
<1>4. PICK context \in Nat : context = ContextLength(ui.data)
  BY <1>1, ContextIs
<1>5. ASSUME count = 0 PROVE InlineHint(ui) = <<>> /\ HintRows(ui) = <<>>
  BY <1>2, <1>3, <1>5 DEF InlineHint, HintRows, HintsFor
<1>6. ASSUME count = 1 PROVE Wanted(ui.data)
  <2>1. HintRows(ui) = <<>>
    BY <1>2, <1>3, <1>6 DEF HintRows, HintsFor
  <2>2. PICK n \in Nat, text \in Seq(Glyphs) : text = hints[1] /\ n = Len(text)
    <3>1. 1 \in 1..Len(hints)
      BY <1>3, <1>6
    <3>2. hints[1] \in Seq(Glyphs)
      BY <3>1
    <3> QED BY <3>2
  <2>3. InlineHint(ui) = HintCells(SubSeq(text, context + 1, n))
    BY <1>2, <1>3, <1>4, <1>6, <2>2 DEF InlineHint, HintsFor
  <2>4. ASSUME n <= context PROVE FALSE
    <3>1. /\ SubSeq(text, context + 1, n) \in Seq(Glyphs)
          /\ Len(SubSeq(text, context + 1, n)) = 0
      BY <2>2, <2>4, PartIs
    <3>2. InlineHint(ui) \in Seq(CellSet) /\ Len(InlineHint(ui)) = 0
      BY <2>3, <3>1, HintCellsAre
    <3>3. InlineHint(ui) = <<>>
      BY <3>2
    <3> QED BY <2>1, <3>3
  <2>5. n > context
    BY <2>4
  <2> QED BY <1>2, <1>3, <1>4, <1>6, <2>2, <2>5 DEF Wanted
<1>7. ASSUME count > 1, MaxHintRows = 0 PROVE InlineHint(ui) = <<>> /\ HintRows(ui) = <<>>
  <2>1. InlineHint(ui) = <<>>
    <3>1. count # 1 /\ count # 0
      BY <1>7
    <3> QED BY <1>2, <1>3, <1>7, <3>1, Zenon DEF InlineHint, HintsFor
  <2>2. 1..Lower(count, MaxHintRows) = {}
    BY <1>7 DEF Lower
  <2>3. PICK n \in Int : n = Lower(count, MaxHintRows) /\ 1..n = {}
    BY <1>7, <2>2 DEF Lower
  <2>4. DOMAIN HintRows(ui) = {} /\ HintRows(ui) \in Seq(Seq(CellSet))
    <3>1. DOMAIN HintRows(ui) = 1..n
      BY <1>2, <1>3, <1>7, <2>3 DEF HintRows, HintsFor
    <3> QED BY <1>1, <2>3, <3>1, RowsAre
  <2>5. HintRows(ui) = <<>>
    BY <2>4
  <2> QED BY <2>1, <2>5
<1>8. ASSUME count > 1, MaxHintRows # 0 PROVE Wanted(ui.data)
  BY <1>2, <1>3, <1>8, Bounds DEF Wanted
<1> QED BY <1>3, <1>5, <1>6, <1>7, <1>8

\* The fields have their types, and the library never takes the cursor to be above
\* the last row of the prompt or below the screen, whatever is typed, printed or
\* resized, if no handler sets a prompt with another number of rows.
THEOREM Typing == ASSUME Avoids("prompt") PROVE Spec => []TypeOK
<1>1. Init => RowInv
  BY InitHolds
<1>2. RowInv /\ [Next]_vars => RowInv'
  BY StepKeeps
<1>3. RowInv => TypeOK
  BY RowTypes
<1> QED BY <1>1, <1>2, <1>3, PTL DEF Spec

\* No hint is forgotten: when nothing is awaited, the hints of the line are on the
\* screen, if none of the defects happens and an empty line has no hints.
THEOREM HintsAreShown ==
  ASSUME Risks = {}, Hints(<<>>) = <<>>
  PROVE  Spec => []HintsShown
<1> DEFINE Inv == RowInv /\ HintInv
<1>1. Init => Inv
  BY InitHolds
<1>2. Inv /\ [Next]_vars => Inv'
  BY StepKeeps DEF Avoids
<1>3. Inv => HintsShown
  <2> SUFFICES ASSUME Inv, phase = "editing", ~delay, options.hinter, ui.pos = Len(ui.data),
                      InlineHint(ui) # <<>> \/ HintRows(ui) # <<>>
               PROVE  Len(ui.display) > ui.inputLength
    BY DEF HintsShown
  <2>1. Wanted(ui.data)
    BY WantedAre
  <2>2. Hinted(ui)
    BY DEF HintInv
  <2> QED BY <2>1, <2>2 DEF Hinted
<1> HIDE DEF Inv
<1> QED BY <1>1, <1>2, <1>3, PTL DEF Spec

=============================================================================
