------------------------ MODULE TerminalInputProofs ------------------------
(***************************************************************************)
(* The reader of bytes and the dispatch tables, for any characters that are *)
(* typed, in any order and however their bytes are spread over the reads.   *)
(*                                                                         *)
(* The argument for the reader: the bytes it keeps are the beginning of the *)
(* character it is in, or they begin with a byte no character begins with,  *)
(* and then it is stuck until a character of ASCII or the fifth byte.       *)
(***************************************************************************)
EXTENDS TerminalInput, SequenceTheorems, WellFoundedInduction, TLAPS

-----------------------------------------------------------------------------
(* Numbers.                                                                 *)

\* A set of natural numbers has a least element.
LEMMA LeastNatural ==
  ASSUME NEW T, T \subseteq Nat, T # {}
  PROVE  \E x \in T : \A y \in T : x <= y
<1>1. PICK x \in T : \A y \in T : ~ (<<y, x>> \in OpToRel(<, Nat))
  BY NatLessThanWellFounded, WFMin
<1>2. \A y \in T : ~ (y < x)
  BY <1>1 DEF OpToRel
<1> QED BY <1>2, SMT

\* A set with 0 that has the successor of each number in it has all of them.
LEMMA Successors ==
  ASSUME NEW P, 0 \in P, \A n \in Nat : n \in P => n + 1 \in P
  PROVE  Nat \subseteq P
<1> SUFFICES ASSUME Nat \ P # {} PROVE FALSE
  OBVIOUS
<1>1. PICK x \in Nat \ P : \A y \in Nat \ P : x <= y
  BY LeastNatural
<1>2. x # 0
  OBVIOUS
<1>3. x - 1 \in Nat /\ x - 1 \in P
  BY <1>1, <1>2
<1> QED BY <1>3

\* A function that is given by its value for 0 and a step is there.
Stepped(M, first, step, N) ==
  \E f \in [0..N -> M] : f[0] = first /\ \A k \in 1..N : f[k] = step[k][f[k - 1]]

\* Such a sequence of steps exists.
LEMMA StepsExist ==
  ASSUME NEW M, NEW first \in M, NEW step \in [Nat -> [M -> M]], NEW N \in Nat
  PROVE  Stepped(M, first, step, N)
<1> DEFINE Is(f, n) == f[0] = first /\ \A k \in 1..n : f[k] = step[k][f[k - 1]]
           P == {n \in Nat : \E f \in [0..n -> M] : Is(f, n)}
<1>1. 0 \in P
  <2> DEFINE f == [k \in 0..0 |-> first]
  <2>1. f \in [0..0 -> M] /\ Is(f, 0)
    OBVIOUS
  <2> QED BY <2>1
<1>2. ASSUME NEW n \in Nat, n \in P PROVE n + 1 \in P
  <2>1. PICK f \in [0..n -> M] : Is(f, n)
    BY <1>2
  <2>2. PICK m \in M : m = step[n + 1][f[n]]
    OBVIOUS
  <2> DEFINE g == [k \in 0..(n + 1) |-> IF k = n + 1 THEN m ELSE f[k]]
  <2>3. g \in [0..(n + 1) -> M]
    BY <2>1
  <2>4. Is(g, n + 1)
    <3>1. g[0] = first
      BY <2>1
    <3>2. ASSUME NEW k \in 1..(n + 1) PROVE g[k] = step[k][g[k - 1]]
      <4>1. g[k - 1] = f[k - 1]
        OBVIOUS
      <4>2. CASE k = n + 1
        <5>1. k - 1 = n /\ g[k] = m
          BY <4>2
        <5>2. g[k - 1] = f[n]
          BY <4>1, <5>1
        <5> HIDE DEF g
        <5> QED BY <2>2, <4>2, <5>1, <5>2
      <4>3. CASE k # n + 1
        <5>1. k \in 1..n /\ g[k] = f[k]
          BY <4>3
        <5> QED BY <2>1, <4>1, <5>1
      <4> QED BY <4>2, <4>3
    <3> QED BY <3>1, <3>2
  <2> HIDE DEF g
  <2>5. n + 1 \in Nat
    OBVIOUS
  <2> QED BY <2>3, <2>4, <2>5
<1> HIDE DEF P
<1>3. Nat \subseteq P
  BY <1>1, <1>2, Successors
<1> QED BY <1>3 DEF P, Stepped

-----------------------------------------------------------------------------
(* UTF-8.                                                                   *)

\* How many bytes follow a byte.
LEMMA TrailingIs ==
  ASSUME NEW lead \in Byte
  PROVE  /\ TrailingBytes(lead) \in 0..5
         /\ lead < 192 => TrailingBytes(lead) = 0
         /\ lead \in 194..223 => TrailingBytes(lead) = 1
         /\ lead \in 224..239 => TrailingBytes(lead) = 2
         /\ lead \in 240..244 => TrailingBytes(lead) = 3
         /\ lead \in 192..244 => TrailingBytes(lead) \in 1..3
<1>1. lead \in Int /\ 0 <= lead /\ lead <= 255
  BY DEF Byte
<1> QED BY <1>1 DEF TrailingBytes

\* The conversion from position i on, when what comes behind is known.
ConvertFrom(b, f, i) ==
  IF i > Len(b) THEN [ok |-> TRUE, text |-> <<>>]
  ELSE LET last == i + TrailingBytes(b[i])
           one == SubSeq(b, i, last)
           rest == f[last + 1]
       IN IF last > Len(b) THEN Illegal
          ELSE IF ~IsLegalUTF8(one) \/ ~rest.ok THEN Illegal
          ELSE [ok |-> TRUE, text |-> <<Lenient(CodePoint(one))>> \o rest.text]

\* It needs no more of what comes behind.
LEMMA ConvertSame ==
  ASSUME NEW b \in Seq(Byte), NEW f, NEW g, NEW i \in 1..(Len(b) + 1),
         \A k \in 1..(Len(b) + 1) : k > i => f[k] = g[k]
  PROVE  ConvertFrom(b, f, i) = ConvertFrom(b, g, i)
<1>1. CASE i > Len(b)
  BY <1>1 DEF ConvertFrom
<1>2. CASE i <= Len(b)
  <2>1. b[i] \in Byte /\ i \in Nat /\ Len(b) \in Nat
    BY <1>2
  <2>2. PICK t \in 0..5 : t = TrailingBytes(b[i])
    BY <2>1, TrailingIs
  <2>3. i + t <= Len(b) => f[i + t + 1] = g[i + t + 1]
    BY <2>1, <2>2
  <2>4. CASE i + t > Len(b)
    BY <1>2, <2>2, <2>4 DEF ConvertFrom
  <2>5. CASE i + t <= Len(b)
    BY <1>2, <2>2, <2>3, <2>5 DEF ConvertFrom
  <2> QED BY <2>1, <2>2, <2>4, <2>5
<1> QED BY <1>1, <1>2

\* So the conversion is there: it is made from the last byte to the first.
LEMMA ConversionExists ==
  ASSUME NEW b \in Seq(Byte)
  PROVE  \E f : f = [i \in 1..(Len(b) + 1) |-> ConvertFrom(b, f, i)]
<1> DEFINE Down(f, m) == \A i \in 1..(Len(b) + 1) : i + m > Len(b) => f[i] = ConvertFrom(b, f, i)
           P == {m \in Nat : \E f : Down(f, m)}
<1>0. Len(b) \in Nat
  OBVIOUS
<1>1. 0 \in P
  <2> DEFINE f == [i \in 1..(Len(b) + 1) |-> [ok |-> TRUE, text |-> <<>>]]
  <2>1. Down(f, 0)
    BY <1>0 DEF ConvertFrom
  <2> QED BY <2>1
<1>2. ASSUME NEW m \in Nat, m \in P PROVE m + 1 \in P
  <2>1. PICK f : Down(f, m)
    BY <1>2
  <2>2. PICK h : h = [i \in 1..(Len(b) + 1) |-> ConvertFrom(b, f, i)]
    OBVIOUS
  <2> DEFINE g == [i \in 1..(Len(b) + 1) |-> IF i + m > Len(b) THEN f[i] ELSE h[i]]
  <2>3. \A i \in 1..(Len(b) + 1) : i + m > Len(b) => g[i] = f[i]
    OBVIOUS
  <2>4. \A i \in 1..(Len(b) + 1) : ~(i + m > Len(b)) => g[i] = ConvertFrom(b, f, i)
    BY <2>2
  <2> HIDE DEF g
  <2>5. ASSUME NEW i \in 1..(Len(b) + 1), i + (m + 1) > Len(b) PROVE g[i] = ConvertFrom(b, g, i)
    <3>1. \A k \in 1..(Len(b) + 1) : k > i => f[k] = g[k]
      <4>1. ASSUME NEW k \in 1..(Len(b) + 1), k > i PROVE k + m > Len(b)
        BY <1>0, <2>5, <4>1
      <4> QED BY <2>3, <4>1
    <3>2. ConvertFrom(b, f, i) = ConvertFrom(b, g, i)
      BY <3>1, ConvertSame
    <3>3. f[i] = ConvertFrom(b, f, i) \/ ~(i + m > Len(b))
      BY <2>1
    <3> QED BY <2>3, <2>4, <3>2, <3>3
  <2>6. Down(g, m + 1)
    BY <2>5
  <2> QED BY <2>6
<1>3. PICK f : Down(f, Len(b))
  <2> HIDE DEF P
  <2>1. Nat \subseteq P
    BY <1>1, <1>2, Successors
  <2>2. Len(b) \in P
    BY <1>0, <2>1
  <2> QED BY <2>2 DEF P
<1> DEFINE g == [i \in 1..(Len(b) + 1) |-> f[i]]
<1>4. \A i \in 1..(Len(b) + 1) : g[i] = f[i]
  OBVIOUS
<1> HIDE DEF g
<1>5. ASSUME NEW i \in 1..(Len(b) + 1) PROVE ConvertFrom(b, g, i) = f[i]
  <2>1. ConvertFrom(b, f, i) = ConvertFrom(b, g, i)
    BY <1>4, ConvertSame
  <2>2. f[i] = ConvertFrom(b, f, i)
    BY <1>0, <1>3
  <2> QED BY <2>1, <2>2
<1>6. g = [i \in 1..(Len(b) + 1) |-> ConvertFrom(b, g, i)]
  BY <1>5 DEF g
<1> QED BY <1>6

\* And it begins with the first byte.
LEMMA ConversionIs ==
  ASSUME NEW b \in Seq(Byte)
  PROVE  \E f : /\ CopyString8to32(b) = f[1]
                /\ \A i \in 1..(Len(b) + 1) : f[i] = ConvertFrom(b, f, i)
<1> DEFINE from[i \in 1..(Len(b) + 1)] ==
             IF i > Len(b) THEN [ok |-> TRUE, text |-> <<>>]
             ELSE LET last == i + TrailingBytes(b[i])
                      one == SubSeq(b, i, last)
                      rest == from[last + 1]
                  IN IF last > Len(b) THEN Illegal
                     ELSE IF ~IsLegalUTF8(one) \/ ~rest.ok THEN Illegal
                     ELSE [ok |-> TRUE, text |-> <<Lenient(CodePoint(one))>> \o rest.text]
<1>1. CopyString8to32(b) = from[1]
  BY DEF CopyString8to32
<1>2. \E f : f = [i \in 1..(Len(b) + 1) |-> ConvertFrom(b, f, i)]
  BY ConversionExists
<1>3. from = [i \in 1..(Len(b) + 1) |-> ConvertFrom(b, from, i)]
  BY <1>2 DEF ConvertFrom
<1> HIDE DEF from
<1>4. \A i \in 1..(Len(b) + 1) : from[i] = ConvertFrom(b, from, i)
  BY <1>3
<1> QED BY <1>1, <1>4

\* The bytes of one character, as many as the first says.
OneCharacter(b) == IsLegalUTF8(b) /\ Len(b) = 1 + TrailingBytes(b[1])

\* What may follow a lead byte.
LEMMA SecondIs ==
  ASSUME NEW lead
  PROVE  /\ SecondByte(lead) \subseteq 128..191
         /\ lead = 224 => SecondByte(lead) = 160..191
         /\ lead = 237 => SecondByte(lead) = 128..159
         /\ lead = 240 => SecondByte(lead) = 144..191
         /\ lead = 244 => SecondByte(lead) = 128..143
         /\ lead \notin {224, 237, 240, 244} => SecondByte(lead) = 128..191
<1>1. lead = 224 => SecondByte(lead) = 160..191
  BY DEF SecondByte
<1>2. lead = 237 => SecondByte(lead) = 128..159
  BY DEF SecondByte
<1>3. lead = 240 => SecondByte(lead) = 144..191
  BY DEF SecondByte
<1>4. lead = 244 => SecondByte(lead) = 128..143
  BY DEF SecondByte
<1>5. lead \notin {224, 237, 240, 244} => SecondByte(lead) = 128..191
  BY DEF SecondByte
<1> QED BY <1>1, <1>2, <1>3, <1>4, <1>5

\* The bytes that may begin a character.
LEMMA LeadIs ==
  ASSUME NEW lead \in 0..255, lead \notin 128..193, lead <= 244
  PROVE  lead \in 0..127 \cup 194..244
OBVIOUS

\* What is known of them.
Shape(b) ==
  /\ Len(b) \in 1..4 /\ b[1] \in 0..127 \cup 194..244
  /\ Len(b) = 1 => b[1] \in 0..127
  /\ Len(b) = 2 => b[1] \in 194..223
  /\ Len(b) = 3 => b[1] \in 224..239
  /\ Len(b) = 4 => b[1] \in 240..244
  /\ \A i \in 2..Len(b) : b[i] \in 128..191
  /\ Len(b) > 1 => b[2] \in SecondByte(b[1])

\* A legal sequence has that shape.
LEMMA LegalIs == ASSUME NEW b \in Seq(Byte), OneCharacter(b) PROVE Shape(b)
<1>1. PICK l \in 1..4 : l = Len(b)
  BY DEF OneCharacter, IsLegalUTF8
<1>2. /\ \A i \in 3..Len(b) : b[i] \in 128..191
      /\ Len(b) > 1 => b[2] \in SecondByte(b[1])
  BY DEF OneCharacter, IsLegalUTF8
<1>3. PICK x \in 0..255 : x = b[1]
  <2>1. 1 \in 1..Len(b)
    BY <1>1
  <2>2. b[1] \in Byte
    BY <2>1
  <2> QED BY <2>2 DEF Byte
<1>4. x \notin 128..193 /\ x <= 244
  BY <1>1, <1>3 DEF OneCharacter, IsLegalUTF8
<1>5. x \in 0..127 \cup 194..244
  BY <1>4, LeadIs
<1>6. /\ l = 1 => x \in 0..127
      /\ l = 2 => x \in 194..223
      /\ l = 3 => x \in 224..239
      /\ l = 4 => x \in 240..244
  <2>0. x \in Byte
    BY DEF Byte
  <2>1. PICK t \in 0..5 : t = TrailingBytes(x)
    BY <2>0, TrailingIs
  <2>3. l = 1 + t
    BY <1>1, <1>3, <2>1 DEF OneCharacter
  <2>2. /\ x < 192 => t = 0
        /\ x \in 194..223 => t = 1
        /\ x \in 224..239 => t = 2
        /\ x \in 240..244 => t = 3
    BY <2>0, <2>1, TrailingIs
  <2> QED BY <1>5, <2>2, <2>3
<1>7. \A i \in 2..Len(b) : b[i] \in 128..191
  <2>1. ASSUME NEW i \in 2..Len(b) PROVE b[i] \in 128..191
    <3>1. i = 2 \/ i \in 3..Len(b)
      BY <1>1
    <3>2. SecondByte(b[1]) \subseteq 128..191
      BY SecondIs
    <3>3. CASE i = 2
      <4>1. b[2] \in SecondByte(b[1])
        BY <1>1, <1>2, <3>3
      <4> QED BY <3>2, <3>3, <4>1
    <3>4. CASE i \in 3..Len(b)
      BY <1>2, <3>4
    <3> QED BY <3>1, <3>3, <3>4
  <2> QED BY <2>1
<1>8. b[1] \in 0..127 \cup 194..244
  BY <1>3, <1>5, Zenon
<1>9. /\ Len(b) = 1 => b[1] \in 0..127
      /\ Len(b) = 2 => b[1] \in 194..223
      /\ Len(b) = 3 => b[1] \in 224..239
      /\ Len(b) = 4 => b[1] \in 240..244
  BY <1>1, <1>3, <1>6, Zenon
<1>10. Len(b) \in 1..4
  BY <1>1, Zenon
<1> QED BY <1>2, <1>7, <1>8, <1>9, <1>10, Zenon DEF Shape

\* A byte behind the lead byte adds its six bits.
LEMMA ShiftedIs ==
  ASSUME NEW ch \in Nat, NEW byte \in 128..191
  PROVE  \E c \in Nat : Shifted(ch, byte) = c /\ c = ch * 64 + (byte - 128)
<1>1. byte % 64 = byte - 128
  OBVIOUS
<1>2. PICK c \in Nat : c = ch * 64 + (byte - 128)
  OBVIOUS
<1>3. Shifted(ch, byte) = ch * 64 + (byte - 128)
  BY <1>1, Zenon DEF Shifted
<1> QED BY <1>2, <1>3

\* What n bytes can say: none of the surrogates, nothing beyond Unicode, and ASCII
\* in one byte only.
Says(c, n) ==
  /\ c <= MaxLegalUTF32 /\ c \notin Surrogates
  /\ n = 1 => c <= 127
  /\ n > 1 => c >= 128

\* What lies outside is no surrogate.
LEMMA NoSurrogate == ASSUME NEW c \in Nat, c < 55296 \/ c > 57343 PROVE c \notin Surrogates
<1>1. ASSUME c \in Surrogates PROVE FALSE
  <2>1. 55296 <= c /\ c <= 57343
    BY <1>1 DEF Surrogates
  <2> QED BY <2>1
<1> QED BY <1>1, SMT

\* What two bytes can say.
LEMMA TwoSay ==
  ASSUME NEW k \in 2..31, NEW y \in 128..191
  PROVE  \E c \in Nat : Shifted(k, y) = c /\ Says(c, 2)
<1>0. k \in Nat
  OBVIOUS
<1>1. PICK c \in Nat : Shifted(k, y) = c /\ c = k * 64 + (y - 128)
  BY <1>0, ShiftedIs
<1>2. c <= MaxLegalUTF32
  BY <1>1 DEF MaxLegalUTF32
<1>3. c \notin Surrogates
  <2>1. c < 55296
    BY <1>1
  <2> QED BY <2>1, NoSurrogate
<1>4. c >= 128
  BY <1>1
<1>5. Says(c, 2)
  BY <1>2, <1>3, <1>4 DEF Says
<1> QED BY <1>1, <1>5, Zenon

\* The limits of the second byte, behind the payload of the lead byte.
LimitsOfThree(k, y) == (k = 0 => y >= 160) /\ (k = 13 => y <= 159)
LimitsOfFour(k, y) == (k = 0 => y >= 144) /\ (k = 4 => y <= 143)

\* What is to be shown of three and four.
ThreeBytes(k, y, z) == \E c \in Nat : Shifted(Shifted(k, y), z) = c /\ Says(c, 3)
FourBytes(k, y, z, w) ==
  \E c \in Nat : Shifted(Shifted(Shifted(k, y), z), w) = c /\ Says(c, 4)

\* What three can: the limits of the second byte leave the surrogates out.
LEMMA ThreeSay ==
  ASSUME NEW k \in 0..15, NEW y \in 128..191, NEW z \in 128..191,
         LimitsOfThree(k, y)
  PROVE  ThreeBytes(k, y, z)
<1>0. k \in Nat
  OBVIOUS
<1>1. PICK l \in Nat : Shifted(k, y) = l /\ l = k * 64 + (y - 128)
  BY <1>0, ShiftedIs
<1>2. 32 <= l /\ l <= 1023 /\ (l < 864 \/ l > 895)
  BY <1>1 DEF LimitsOfThree
<1>3. PICK c \in Nat : Shifted(l, z) = c /\ c = l * 64 + (z - 128)
  BY ShiftedIs
<1>4. c >= 2048 /\ c <= 65535 /\ (c < 55296 \/ c > 57343)
  BY <1>2, <1>3
<1>5. c <= MaxLegalUTF32
  BY <1>4 DEF MaxLegalUTF32
<1>6. c \notin Surrogates
  BY <1>4, NoSurrogate
<1>7. c >= 128
  BY <1>4
<1>8. Says(c, 3)
  BY <1>5, <1>6, <1>7 DEF Says
<1>9. Shifted(Shifted(k, y), z) = c
  BY <1>1, <1>3
<1> QED BY <1>3, <1>8, <1>9, Zenon DEF ThreeBytes

\* What four can: nothing beyond Unicode.
LEMMA FourSay ==
  ASSUME NEW k \in 0..4, NEW y \in 128..191, NEW z \in 128..191, NEW w \in 128..191,
         LimitsOfFour(k, y)
  PROVE  FourBytes(k, y, z, w)
<1>0. k \in Nat
  OBVIOUS
<1>1. PICK l \in Nat : Shifted(k, y) = l /\ l = k * 64 + (y - 128)
  BY <1>0, ShiftedIs
<1>2. 16 <= l /\ l <= 271
  BY <1>1 DEF LimitsOfFour
<1>3. PICK m \in Nat : Shifted(l, z) = m /\ m = l * 64 + (z - 128)
  BY ShiftedIs
<1>4. 1024 <= m /\ m <= 17407
  BY <1>2, <1>3
<1>5. PICK c \in Nat : Shifted(m, w) = c /\ c = m * 64 + (w - 128)
  BY ShiftedIs
<1>6. c >= 65536 /\ c <= 1114111
  BY <1>4, <1>5
<1>7. c <= MaxLegalUTF32
  BY <1>6 DEF MaxLegalUTF32
<1>8. c \notin Surrogates
  <2>1. c > 57343
    BY <1>6
  <2> QED BY <2>1, NoSurrogate
<1>9. c >= 128
  BY <1>6
<1>10. Says(c, 4)
  BY <1>7, <1>8, <1>9 DEF Says
<1>11. Shifted(Shifted(Shifted(k, y), z), w) = c
  BY <1>1, <1>3, <1>5
<1> QED BY <1>5, <1>10, <1>11, Zenon DEF FourBytes

\* The code point of a character.
Code(c, b) == Says(c, Len(b)) /\ (Len(b) = 1 => b[1] = c)

\* The limits of the second byte are those of SecondByte.
LEMMA LimitsAreThree ==
  ASSUME NEW k \in 0..15, NEW y \in 128..191, y \in SecondByte(224 + k)
  PROVE  LimitsOfThree(k, y)
<1>1. ASSUME k = 0 PROVE y >= 160
  BY <1>1 DEF SecondByte
<1>2. ASSUME k = 13 PROVE y <= 159
  BY <1>2 DEF SecondByte
<1> QED BY <1>1, <1>2 DEF LimitsOfThree

\* The same for four bytes.
LEMMA LimitsAreFour ==
  ASSUME NEW k \in 0..4, NEW y \in 128..191, y \in SecondByte(240 + k)
  PROVE  LimitsOfFour(k, y)
<1>1. ASSUME k = 0 PROVE y >= 144
  BY <1>1 DEF SecondByte
<1>2. ASSUME k = 4 PROVE y <= 143
  BY <1>2 DEF SecondByte
<1> QED BY <1>1, <1>2 DEF LimitsOfFour

\* What a character's bytes say.
LEMMA CodeIs ==
  ASSUME NEW b \in Seq(Byte), OneCharacter(b)
  PROVE  \E c \in Nat : CodePoint(b) = c /\ Code(c, b)
<1>0. Shape(b)
  BY LegalIs
<1>1. Len(b) = 1 \/ Len(b) = 2 \/ Len(b) = 3 \/ Len(b) = 4
  <2>1. Len(b) \in 1..4
    BY <1>0 DEF Shape
  <2> QED BY <2>1
<1>3. CASE Len(b) = 1
  <2>1. PICK x \in 0..127 : x = b[1]
    BY <1>0, <1>3 DEF Shape
  <2>2. CodePoint(b) = x
    BY <1>3, <2>1, Zenon DEF CodePoint
  <2>3. x \in Nat /\ Says(x, 1)
    <3>0. x \in 0..127
      BY <2>1, Zenon
    <3>1. x \in Nat /\ x <= 127
      BY <3>0
    <3>2. x <= MaxLegalUTF32
      BY <3>1 DEF MaxLegalUTF32
    <3>3. x \notin Surrogates
      <4>1. x < 55296
        BY <3>1
      <4> QED BY <3>1, <4>1, NoSurrogate
    <3> QED BY <3>1, <3>2, <3>3 DEF Says
  <2>4. Code(x, b)
    BY <1>3, <2>1, <2>3 DEF Code
  <2> QED BY <2>2, <2>3, <2>4, Zenon
<1>4. CASE Len(b) = 2
  <2>1. PICK x \in 194..223 : x = b[1]
    BY <1>0, <1>4 DEF Shape
  <2>2. PICK y \in 128..191 : y = b[2]
    BY <1>0, <1>4 DEF Shape
  <2>3. PICK k \in 2..31 : k = x % 32
    <3>0. x \in 194..223
      BY <2>1, Zenon
    <3>1. x % 32 = x - 192
      BY <3>0
    <3>2. x - 192 \in 2..31
      BY <3>0
    <3> QED BY <3>1, <3>2, Zenon
  <2>4. CodePoint(b) = Shifted(k, y)
    BY <1>4, <2>1, <2>2, <2>3 DEF CodePoint
  <2>5. PICK c \in Nat : Shifted(k, y) = c /\ Says(c, 2)
    BY <2>2, <2>3, TwoSay
  <2>6. Code(c, b)
    <3>1. Len(b) # 1
      BY <1>4
    <3> QED BY <1>4, <2>5, <3>1, Zenon DEF Code
  <2> QED BY <2>4, <2>5, <2>6, Zenon
<1>5. CASE Len(b) = 3
  <2>1. PICK x \in 224..239 : x = b[1]
    BY <1>0, <1>5 DEF Shape
  <2>2. PICK y \in 128..191 : y = b[2]
    BY <1>0, <1>5 DEF Shape
  <2>3. PICK z \in 128..191 : z = b[3]
    BY <1>0, <1>5 DEF Shape
  <2>4. PICK k \in 0..15 : k = x % 16 /\ k = x - 224
    <3>0. x \in 224..239
      BY <2>1, Zenon
    <3>1. x % 16 = x - 224
      BY <3>0
    <3>2. x - 224 \in 0..15
      BY <3>0
    <3> QED BY <3>1, <3>2, Zenon
  <2>5. CodePoint(b) = Shifted(Shifted(k, y), z)
    BY <1>5, <2>1, <2>2, <2>3, <2>4 DEF CodePoint
  <2>6. y \in SecondByte(x)
    <3>1. b[2] \in SecondByte(b[1])
      BY <1>0, <1>5 DEF Shape
    <3> QED BY <2>1, <2>2, <3>1, Zenon
  <2>7. LimitsOfThree(k, y)
    <3>1. x = 224 + k
      BY <2>1, <2>4
    <3> QED BY <2>2, <2>4, <2>6, <3>1, LimitsAreThree
  <2>8. PICK c \in Nat : Shifted(Shifted(k, y), z) = c /\ Says(c, 3)
    <3>1. k \in 0..15 /\ y \in 128..191 /\ z \in 128..191
      BY <2>2, <2>3, <2>4, Zenon
    <3>2. ThreeBytes(k, y, z)
      BY <2>7, <3>1, ThreeSay
    <3> QED BY <3>2, Zenon DEF ThreeBytes
  <2>9. Code(c, b)
    <3>1. Len(b) # 1
      BY <1>5
    <3> QED BY <1>5, <2>8, <3>1, Zenon DEF Code
  <2> QED BY <2>5, <2>8, <2>9, Zenon
<1>6. CASE Len(b) = 4
  <2>1. PICK x \in 240..244 : x = b[1]
    BY <1>0, <1>6 DEF Shape
  <2>2. PICK y \in 128..191 : y = b[2]
    BY <1>0, <1>6 DEF Shape
  <2>3. PICK z \in 128..191 : z = b[3]
    BY <1>0, <1>6 DEF Shape
  <2>4. PICK w \in 128..191 : w = b[4]
    BY <1>0, <1>6 DEF Shape
  <2>5. PICK k \in 0..4 : k = x % 8 /\ k = x - 240
    <3>0. x \in 240..244
      BY <2>1, Zenon
    <3>1. x % 8 = x - 240
      BY <3>0
    <3>2. x - 240 \in 0..4
      BY <3>0
    <3> QED BY <3>1, <3>2, Zenon
  <2>6. CodePoint(b) = Shifted(Shifted(Shifted(k, y), z), w)
    BY <1>6, <2>1, <2>2, <2>3, <2>4, <2>5 DEF CodePoint
  <2>7. y \in SecondByte(x)
    <3>1. b[2] \in SecondByte(b[1])
      BY <1>0, <1>6 DEF Shape
    <3> QED BY <2>1, <2>2, <3>1, Zenon
  <2>8. LimitsOfFour(k, y)
    <3>1. x = 240 + k
      BY <2>1, <2>5
    <3>2. k \in 0..4 /\ y \in SecondByte(240 + k)
      BY <2>5, <2>7, <3>1, Zenon
    <3> QED BY <3>2, LimitsAreFour
  <2>9. PICK c \in Nat : Shifted(Shifted(Shifted(k, y), z), w) = c /\ Says(c, 4)
    <3>1. k \in 0..4 /\ y \in 128..191 /\ z \in 128..191 /\ w \in 128..191
      BY <2>2, <2>3, <2>4, <2>5, Zenon
    <3>2. FourBytes(k, y, z, w)
      BY <2>8, <3>1, FourSay
    <3> QED BY <3>2, Zenon DEF FourBytes
  <2>10. Code(c, b)
    <3>1. Len(b) # 1
      BY <1>6
    <3> QED BY <1>6, <2>9, <3>1, Zenon DEF Code
  <2> QED BY <2>6, <2>9, <2>10, Zenon
<1> QED BY <1>1, <1>3, <1>4, <1>5, <1>6, Zenon

\* The conversion at its end, and at its beginning.
LEMMA AtTheEnd ==
  ASSUME NEW b, NEW f, NEW i, i > Len(b)
  PROVE  ConvertFrom(b, f, i) = [ok |-> TRUE, text |-> <<>>]
BY DEF ConvertFrom

\* The conversion of a text that begins with the character one, of last bytes.
AtFirst(b, one, last, rest) ==
  IF last > Len(b) THEN Illegal
  ELSE IF ~IsLegalUTF8(one) \/ ~rest.ok THEN Illegal
  ELSE [ok |-> TRUE, text |-> <<Lenient(CodePoint(one))>> \o rest.text]

\* It goes by the first byte.
LEMMA AtTheBeginning ==
  ASSUME NEW b \in Seq(Byte), b # <<>>, NEW f, NEW last, last = 1 + TrailingBytes(b[1])
  PROVE  ConvertFrom(b, f, 1) = AtFirst(b, SubSeq(b, 1, last), last, f[last + 1])
<1>1. ~(1 > Len(b))
  OBVIOUS
<1> QED BY <1>1, Zenon DEF ConvertFrom, AtFirst

\* A character's bytes are converted to it.
LEMMA WholeConverts ==
  ASSUME NEW b \in Seq(Byte), OneCharacter(b)
  PROVE  CopyString8to32(b) = [ok |-> TRUE, text |-> <<CodePoint(b)>>]
<1>1. PICK f : CopyString8to32(b) = f[1] /\ \A i \in 1..(Len(b) + 1) : f[i] = ConvertFrom(b, f, i)
  BY ConversionIs
<1>2. PICK last \in 1..4 : last = Len(b)
  <2>1. Len(b) \in 1..4
    BY LegalIs, Zenon DEF Shape
  <2> QED BY <2>1
<1>3. b # <<>> /\ last = 1 + TrailingBytes(b[1]) /\ IsLegalUTF8(b)
  BY <1>2 DEF OneCharacter
<1>4. f[last + 1] = [ok |-> TRUE, text |-> <<>>]
  <2>1. last + 1 > Len(b) /\ last + 1 \in 1..(Len(b) + 1)
    BY <1>2
  <2> QED BY <1>1, <2>1, AtTheEnd, Zenon
<1>5. SubSeq(b, 1, last) = b
  BY <1>2
<1>6. f[1] = AtFirst(b, b, last, f[last + 1])
  <2>1. 1 \in 1..(Len(b) + 1)
    BY <1>2
  <2>2. f[1] = ConvertFrom(b, f, 1)
    BY <1>1, <2>1, Zenon
  <2> QED BY <1>3, <1>5, <2>2, AtTheBeginning, Zenon
<1>7. ~(last > Len(b)) /\ f[last + 1].ok /\ f[last + 1].text = <<>>
  BY <1>2, <1>4
<1>8. f[1] = [ok |-> TRUE, text |-> <<Lenient(CodePoint(b))>> \o <<>>]
  BY <1>3, <1>6, <1>7, Zenon DEF AtFirst
<1>9. Lenient(CodePoint(b)) = CodePoint(b)
  BY CodeIs, Zenon DEF Lenient, Code, Says
<1>10. <<CodePoint(b)>> \o <<>> = <<CodePoint(b)>>
  OBVIOUS
<1> QED BY <1>1, <1>8, <1>9, <1>10, Zenon

\* The bytes no character begins with.
Stray == 128..193 \cup 245..255

\* What is not all there, or begins with a byte no character begins with, is not
\* converted at all.
LEMMA NotConverted ==
  ASSUME NEW b \in Seq(Byte), b # <<>>, Len(b) < 1 + TrailingBytes(b[1]) \/ b[1] \in Stray
  PROVE  ~CopyString8to32(b).ok
<1>1. PICK f : CopyString8to32(b) = f[1] /\ \A i \in 1..(Len(b) + 1) : f[i] = ConvertFrom(b, f, i)
  BY ConversionIs
<1>2. Len(b) \in Nat \ {0} /\ b[1] \in Byte
  OBVIOUS
<1>3. PICK t \in 0..5 : t = TrailingBytes(b[1])
  BY <1>2, TrailingIs
<1>4. PICK last \in 1..6 : last = 1 + t
  OBVIOUS
<1>5. PICK one : one = SubSeq(b, 1, last)
  OBVIOUS
<1>6. f[1] = AtFirst(b, one, last, f[last + 1])
  <2>1. 1 \in 1..(Len(b) + 1)
    BY <1>2
  <2>2. f[1] = ConvertFrom(b, f, 1)
    BY <1>1, <2>1, Zenon
  <2>3. last = 1 + TrailingBytes(b[1])
    BY <1>3, <1>4
  <2> QED BY <1>5, <2>2, <2>3, AtTheBeginning, Zenon
<1>7. CASE last > Len(b)
  BY <1>1, <1>6, <1>7 DEF AtFirst, Illegal
<1>8. CASE ~(last > Len(b))
  <2>1. b[1] \in Stray
    BY <1>2, <1>3, <1>4, <1>8
  <2>2. one[1] = b[1]
    BY <1>2, <1>4, <1>5, <1>8
  <2>3. PICK x \in 0..255 : x = b[1]
    BY <1>2 DEF Byte
  <2>4. x \in Stray /\ one[1] = x
    BY <2>1, <2>2, <2>3, Zenon
  <2>5. ~IsLegalUTF8(one)
    <3>1. x \in 128..193 \/ ~(x <= 244)
      BY <2>4 DEF Stray
    <3> QED BY <2>4, <3>1, Zenon DEF IsLegalUTF8
  <2> QED BY <1>1, <1>6, <2>5 DEF AtFirst, Illegal
<1> QED BY <1>7, <1>8

\* The bytes of one character that is the code point ch.
EncodingOf(b, ch) == b \in Seq(Byte) /\ OneCharacter(b) /\ CodePoint(b) = ch

\* A code point of ASCII is its byte.
LEMMA OneByteEncodes ==
  ASSUME NEW ch \in 0..127
  PROVE  EncodingOf(<<ch>>, ch)
<1>1. ch \in Byte /\ ch < 192 /\ ch \notin 128..193 /\ ch <= 244
  BY DEF Byte
<1>2. TrailingBytes(ch) = 0
  BY <1>1 DEF TrailingBytes
<1>3. <<ch>> \in Seq(Byte) /\ Len(<<ch>>) = 1 /\ <<ch>>[1] = ch
  BY <1>1
<1>4. IsLegalUTF8(<<ch>>)
  BY <1>1, <1>3 DEF IsLegalUTF8
<1>5. OneCharacter(<<ch>>)
  BY <1>2, <1>3, <1>4 DEF OneCharacter
<1>6. CodePoint(<<ch>>) = ch
  BY <1>3, Zenon DEF CodePoint
<1> QED BY <1>3, <1>5, <1>6, Zenon DEF EncodingOf

\* Two, three and four bytes are a character when they are in their ranges.
LEMMA TwoAreLegal ==
  ASSUME NEW x \in 194..223, NEW y \in 128..191
  PROVE  EncodingOf(<<x, y>>, Shifted(x % 32, y))
<1>1. x \in Byte /\ y \in Byte /\ x \notin 128..193 /\ x <= 244
  BY DEF Byte
<1>2. PICK b : b = <<x, y>>
  OBVIOUS
<1>3. b \in Seq(Byte) /\ Len(b) = 2 /\ b[1] = x /\ b[2] = y
  BY <1>1, <1>2
<1>4. TrailingBytes(x) = 1 /\ SecondByte(x) = 128..191
  BY DEF TrailingBytes, SecondByte
<1>5. y \in SecondByte(x)
  BY <1>4
<1>6. IsLegalUTF8(b)
  BY <1>1, <1>3, <1>5 DEF IsLegalUTF8
<1>7. OneCharacter(b)
  BY <1>3, <1>4, <1>6 DEF OneCharacter
<1>8. CodePoint(b) = Shifted(x % 32, y)
  BY <1>3 DEF CodePoint
<1> QED BY <1>2, <1>3, <1>7, <1>8, Zenon DEF EncodingOf

\* The same for three.
LEMMA ThreeAreLegal ==
  ASSUME NEW x \in 224..239, NEW y \in SecondByte(x), NEW z \in 128..191
  PROVE  EncodingOf(<<x, y, z>>, Shifted(Shifted(x % 16, y), z))
<1>0. y \in 128..191
  BY SecondIs
<1>1. x \in Byte /\ y \in Byte /\ z \in Byte /\ x \notin 128..193 /\ x <= 244
  BY <1>0 DEF Byte
<1>2. PICK b : b = <<x, y, z>>
  OBVIOUS
<1>3. b \in Seq(Byte) /\ Len(b) = 3 /\ b[1] = x /\ b[2] = y /\ b[3] = z
  BY <1>1, <1>2
<1>4. TrailingBytes(x) = 2
  BY DEF TrailingBytes
<1>5. \A i \in 3..Len(b) : b[i] \in 128..191
  <2>1. ASSUME NEW i \in 3..Len(b) PROVE i = 3
    BY <1>3
  <2>2. b[3] \in 128..191
    BY <1>3, Zenon
  <2> QED BY <2>1, <2>2, Zenon
<1>6. IsLegalUTF8(b)
  BY <1>1, <1>3, <1>5 DEF IsLegalUTF8
<1>7. OneCharacter(b)
  BY <1>3, <1>4, <1>6 DEF OneCharacter
<1>8. CodePoint(b) = Shifted(Shifted(x % 16, y), z)
  BY <1>3 DEF CodePoint
<1> QED BY <1>2, <1>3, <1>7, <1>8, Zenon DEF EncodingOf

\* And for four.
LEMMA FourAreLegal ==
  ASSUME NEW x \in 240..244, NEW y \in SecondByte(x), NEW z \in 128..191, NEW w \in 128..191
  PROVE  EncodingOf(<<x, y, z, w>>, Shifted(Shifted(Shifted(x % 8, y), z), w))
<1>0. y \in 128..191
  BY SecondIs
<1>1. x \in Byte /\ y \in Byte /\ z \in Byte /\ w \in Byte /\ x \notin 128..193 /\ x <= 244
  BY <1>0 DEF Byte
<1>2. PICK b : b = <<x, y, z, w>>
  OBVIOUS
<1>3. b \in Seq(Byte) /\ Len(b) = 4 /\ b[1] = x /\ b[2] = y /\ b[3] = z /\ b[4] = w
  BY <1>1, <1>2
<1>4. TrailingBytes(x) = 3
  BY DEF TrailingBytes
<1>5. \A i \in 3..Len(b) : b[i] \in 128..191
  <2>1. ASSUME NEW i \in 3..Len(b) PROVE i = 3 \/ i = 4
    BY <1>3
  <2>2. b[3] \in 128..191 /\ b[4] \in 128..191
    BY <1>3, Zenon
  <2> QED BY <2>1, <2>2, Zenon
<1>6. IsLegalUTF8(b)
  BY <1>1, <1>3, <1>5 DEF IsLegalUTF8
<1>7. OneCharacter(b)
  BY <1>3, <1>4, <1>6 DEF OneCharacter
<1>8. CodePoint(b) = Shifted(Shifted(Shifted(x % 8, y), z), w)
  BY <1>3 DEF CodePoint
<1> QED BY <1>2, <1>3, <1>7, <1>8, Zenon DEF EncodingOf

\* A byte with the six bits l adds them.
LEMMA SixAdded ==
  ASSUME NEW ch \in Nat, NEW l \in 0..63
  PROVE  ch * 64 + l \in Nat /\ Shifted(ch, 128 + l) = ch * 64 + l
<1>1. PICK y \in 128..191 : y = 128 + l
  OBVIOUS
<1>2. PICK c \in Nat : Shifted(ch, y) = c /\ c = ch * 64 + (y - 128)
  BY ShiftedIs
<1> QED BY <1>1, <1>2

\* Two bytes are the code point of their payloads.
LEMMA TwoBytesEncode ==
  ASSUME NEW k \in 2..31, NEW l \in 0..63
  PROVE  EncodingOf(<<192 + k, 128 + l>>, k * 64 + l)
<1>1. 192 + k \in 194..223 /\ 128 + l \in 128..191 /\ k \in Nat
  OBVIOUS
<1>2. (192 + k) % 32 = k
  OBVIOUS
<1>3. Shifted(k, 128 + l) = k * 64 + l
  BY <1>1, SixAdded
<1> QED BY <1>1, <1>2, <1>3, TwoAreLegal, Zenon

\* So are three, when the second is within its limits.
LEMMA ThreeBytesEncode ==
  ASSUME NEW k \in 0..15, NEW m \in 0..63, NEW l \in 0..63, LimitsOfThree(k, 128 + m)
  PROVE  EncodingOf(<<224 + k, 128 + m, 128 + l>>, (k * 64 + m) * 64 + l)
<1>1. 224 + k \in 224..239 /\ 128 + l \in 128..191 /\ k \in Nat
  OBVIOUS
<1>2. 128 + m \in SecondByte(224 + k)
  <2>1. (k = 0 => 128 + m >= 160) /\ (k = 13 => 128 + m <= 159)
    BY Zenon DEF LimitsOfThree
  <2> QED BY <2>1 DEF SecondByte
<1>3. (224 + k) % 16 = k
  OBVIOUS
<1>4. Shifted(k, 128 + m) = k * 64 + m /\ k * 64 + m \in Nat
  BY <1>1, SixAdded
<1>5. Shifted(k * 64 + m, 128 + l) = (k * 64 + m) * 64 + l
  BY <1>4, SixAdded, Zenon
<1>6. EncodingOf(<<224 + k, 128 + m, 128 + l>>,
                 Shifted(Shifted((224 + k) % 16, 128 + m), 128 + l))
  <2>1. PICK x \in 224..239 : x = 224 + k
    BY <1>1, Zenon
  <2>2. PICK y \in SecondByte(x) : y = 128 + m
    BY <1>2, <2>1, Zenon
  <2>3. PICK z \in 128..191 : z = 128 + l
    BY <1>1, Zenon
  <2>4. EncodingOf(<<x, y, z>>, Shifted(Shifted(x % 16, y), z))
    BY ThreeAreLegal
  <2> QED BY <2>1, <2>2, <2>3, <2>4, Zenon
<1>7. Shifted(Shifted((224 + k) % 16, 128 + m), 128 + l) = (k * 64 + m) * 64 + l
  BY <1>3, <1>4, <1>5, Zenon
<1> QED BY <1>6, <1>7, Zenon

\* And four.
FourEncode(k, n, m, l) ==
  EncodingOf(<<240 + k, 128 + n, 128 + m, 128 + l>>, ((k * 64 + n) * 64 + m) * 64 + l)

\* Four bytes.
LEMMA FourBytesEncode ==
  ASSUME NEW k \in 0..4, NEW n \in 0..63, NEW m \in 0..63, NEW l \in 0..63,
         LimitsOfFour(k, 128 + n)
  PROVE  FourEncode(k, n, m, l)
<1>1. 240 + k \in 240..244 /\ 128 + m \in 128..191 /\ 128 + l \in 128..191 /\ k \in Nat
  OBVIOUS
<1>2. 128 + n \in SecondByte(240 + k)
  <2>1. (k = 0 => 128 + n >= 144) /\ (k = 4 => 128 + n <= 143)
    BY Zenon DEF LimitsOfFour
  <2> QED BY <2>1 DEF SecondByte
<1>3. (240 + k) % 8 = k
  OBVIOUS
<1>4. Shifted(k, 128 + n) = k * 64 + n /\ k * 64 + n \in Nat
  BY <1>1, SixAdded
<1>5. /\ Shifted(k * 64 + n, 128 + m) = (k * 64 + n) * 64 + m
      /\ (k * 64 + n) * 64 + m \in Nat
  BY <1>4, SixAdded, Zenon
<1>6. Shifted((k * 64 + n) * 64 + m, 128 + l) = ((k * 64 + n) * 64 + m) * 64 + l
  BY <1>5, SixAdded, Zenon
<1>7. EncodingOf(<<240 + k, 128 + n, 128 + m, 128 + l>>,
                 Shifted(Shifted(Shifted((240 + k) % 8, 128 + n), 128 + m), 128 + l))
  <2>1. PICK x \in 240..244 : x = 240 + k
    BY <1>1, Zenon
  <2>2. PICK y \in SecondByte(x) : y = 128 + n
    BY <1>2, <2>1, Zenon
  <2>3. PICK z \in 128..191 : z = 128 + m
    BY <1>1, Zenon
  <2>4. PICK w \in 128..191 : w = 128 + l
    BY <1>1, Zenon
  <2>5. EncodingOf(<<x, y, z, w>>, Shifted(Shifted(Shifted(x % 8, y), z), w))
    BY FourAreLegal
  <2> QED BY <2>1, <2>2, <2>3, <2>4, <2>5, Zenon
<1>8. Shifted(Shifted(Shifted((240 + k) % 8, 128 + n), 128 + m), 128 + l)
        = ((k * 64 + n) * 64 + m) * 64 + l
  <2>1. Shifted((240 + k) % 8, 128 + n) = k * 64 + n
    BY <1>3, <1>4, Zenon
  <2>2. Shifted(Shifted((240 + k) % 8, 128 + n), 128 + m) = (k * 64 + n) * 64 + m
    BY <1>5, <2>1, Zenon
  <2> QED BY <1>6, <2>2, Zenon
<1> QED BY <1>7, <1>8, Zenon DEF FourEncode

\* The last six bits and the rest.
LEMMA SixIs ==
  ASSUME NEW ch \in Nat
  PROVE  \E q \in Nat, l \in 0..63 : Rest(ch) = q /\ Six(ch) = 128 + l /\ ch = q * 64 + l
<1>1. PICK q \in Nat : q = ch \div 64
  OBVIOUS
<1>2. PICK l \in 0..63 : l = ch % 64
  OBVIOUS
<1>3. ch = q * 64 + l
  BY <1>1, <1>2
<1>4. Six(ch) = 128 + l
  BY <1>2, Zenon DEF Six
<1>5. Rest(ch) = q
  BY <1>1, Zenon DEF Rest
<1> QED BY <1>3, <1>4, <1>5

\* How the number of bytes goes with the code point.
LEMMA LengthIs ==
  ASSUME NEW ch \in Nat
  PROVE  \/ BytesToWrite(ch) = 1 /\ ch < 128
         \/ BytesToWrite(ch) = 2 /\ ch >= 128 /\ ch < 2048
         \/ BytesToWrite(ch) = 3 /\ ch >= 2048 /\ ch < 65536
         \/ BytesToWrite(ch) = 4 /\ ch >= 65536
BY DEF BytesToWrite

\* What is written by the number of bytes.
LEMMA EncodedIs ==
  ASSUME NEW ch
  PROVE  /\ BytesToWrite(ch) = 1 => Encoded(ch) = <<ch>>
         /\ BytesToWrite(ch) = 2 => Encoded(ch) = <<192 + Rest(ch), Six(ch)>>
         /\ BytesToWrite(ch) = 3 =>
              Encoded(ch) = <<224 + Rest(Rest(ch)), Six(Rest(ch)), Six(ch)>>
         /\ BytesToWrite(ch) = 4 =>
              Encoded(ch) = <<240 + Rest(Rest(Rest(ch))), Six(Rest(Rest(ch))), Six(Rest(ch)),
                              Six(ch)>>
<1>1. 2 # 1 /\ 3 # 1 /\ 3 # 2 /\ 4 # 1 /\ 4 # 2 /\ 4 # 3
  OBVIOUS
<1> QED BY <1>1, Zenon DEF Encoded

\* Every character of Unicode, the surrogates apart, is encoded to bytes that are
\* decoded to it again, and to nothing else: what ConvertUTF32toUTF8 writes,
\* isLegalUTF8 and ConvertUTF8toUTF32 take.
THEOREM EncodedIsDecoded ==
  ASSUME NEW ch \in Nat, ch <= MaxLegalUTF32, ch \notin Surrogates
  PROVE  /\ EncodingOf(Encoded(ch), ch)
         /\ CopyString8to32(Encoded(ch)) = [ok |-> TRUE, text |-> <<ch>>]
<1>1. PICK q \in Nat, l \in 0..63 : Rest(ch) = q /\ Six(ch) = 128 + l /\ ch = q * 64 + l
  BY SixIs
<1>2. PICK r \in Nat, m \in 0..63 : Rest(q) = r /\ Six(q) = 128 + m /\ q = r * 64 + m
  BY SixIs
<1>3. PICK s \in Nat, n \in 0..63 : Rest(r) = s /\ Six(r) = 128 + n /\ r = s * 64 + n
  BY SixIs
<1>4. EncodingOf(Encoded(ch), ch)
  <2>1. CASE BytesToWrite(ch) = 1 /\ ch < 128
    <3>1. Encoded(ch) = <<ch>>
      BY <2>1, EncodedIs, Zenon
    <3>2. ch \in 0..127
      BY <2>1
    <3> QED BY <3>1, <3>2, OneByteEncodes
  <2>2. CASE BytesToWrite(ch) = 2 /\ ch >= 128 /\ ch < 2048
    <3>1. Encoded(ch) = <<192 + Rest(ch), Six(ch)>>
      <4>1. BytesToWrite(ch) = 2
        BY <2>2
      <4> QED BY <4>1, EncodedIs
    <3>2. q \in 2..31
      BY <1>1, <2>2
    <3>3. EncodingOf(<<192 + q, 128 + l>>, q * 64 + l)
      BY <3>2, TwoBytesEncode
    <3> QED BY <1>1, <3>1, <3>3, Zenon
  <2>3. CASE BytesToWrite(ch) = 3 /\ ch >= 2048 /\ ch < 65536
    <3>1. Encoded(ch) = <<224 + Rest(Rest(ch)), Six(Rest(ch)), Six(ch)>>
      <4>1. BytesToWrite(ch) = 3
        BY <2>3
      <4> QED BY <4>1, EncodedIs
    <3>2. q >= 32 /\ q <= 1023
      BY <1>1, <2>3
    <3>3. q < 864 \/ q > 895
      <4>1. ch < 55296 \/ ch > 57343
        BY DEF Surrogates
      <4>2. CASE ch < 55296
        BY <1>1, <4>2
      <4>3. CASE ch > 57343
        BY <1>1, <4>3
      <4> QED BY <4>1, <4>2, <4>3
    <3>4. r \in 0..15
      BY <1>2, <3>2
    <3>5. LimitsOfThree(r, 128 + m)
      <4>1. ASSUME r = 0 PROVE 128 + m >= 160
        BY <1>2, <3>2, <4>1
      <4>2. ASSUME r = 13 PROVE 128 + m <= 159
        BY <1>2, <3>3, <4>2
      <4> QED BY <4>1, <4>2, Zenon DEF LimitsOfThree
    <3>6. EncodingOf(<<224 + r, 128 + m, 128 + l>>, (r * 64 + m) * 64 + l)
      BY <3>4, <3>5, ThreeBytesEncode
    <3> QED BY <1>1, <1>2, <3>1, <3>6, Zenon
  <2>4. CASE BytesToWrite(ch) = 4 /\ ch >= 65536
    <3>1. Encoded(ch) = <<240 + Rest(Rest(Rest(ch))), Six(Rest(Rest(ch))), Six(Rest(ch)),
                          Six(ch)>>
      <4>1. BytesToWrite(ch) = 4
        BY <2>4
      <4> QED BY <4>1, EncodedIs
    <3>2. q >= 1024 /\ q <= 17407
      BY <1>1, <2>4 DEF MaxLegalUTF32
    <3>3. r >= 16 /\ r <= 271
      BY <1>2, <3>2
    <3>4. s \in 0..4
      BY <1>3, <3>3
    <3>5. LimitsOfFour(s, 128 + n)
      <4>1. ASSUME s = 0 PROVE 128 + n >= 144
        BY <1>3, <3>3, <4>1
      <4>2. ASSUME s = 4 PROVE 128 + n <= 143
        BY <1>3, <3>3, <4>2
      <4> QED BY <4>1, <4>2, Zenon DEF LimitsOfFour
    <3>6. EncodingOf(<<240 + s, 128 + n, 128 + m, 128 + l>>, ((s * 64 + n) * 64 + m) * 64 + l)
      <4>1. FourEncode(s, n, m, l)
        BY <3>4, <3>5, FourBytesEncode
      <4> QED BY <4>1, Zenon DEF FourEncode
    <3>7. Encoded(ch) = <<240 + s, 128 + n, 128 + m, 128 + l>>
      BY <1>1, <1>2, <1>3, <3>1, Zenon
    <3>8. ch = ((s * 64 + n) * 64 + m) * 64 + l
      BY <1>1, <1>2, <1>3, Zenon
    <3>9. EncodingOf(Encoded(ch), ((s * 64 + n) * 64 + m) * 64 + l)
      BY <3>6, <3>7, Zenon
    <3> QED BY <3>8, <3>9, Zenon
  <2> QED BY <2>1, <2>2, <2>3, <2>4, LengthIs
<1> QED BY <1>4, WholeConverts, Zenon DEF EncodingOf

-----------------------------------------------------------------------------
(* One byte read.                                                           *)

\* A byte that a text begins with which is not converted is kept.
Broken(s) == s \in Seq(128..255) /\ Len(s) \in 1..4 /\ s[1] \in Stray

\* A byte of ASCII is a character, whatever was kept.
LEMMA ReaderAscii ==
  ASSUME NEW b \in Byte, b <= 127
  PROVE  Reader(b) = [utf8 |-> <<>>, char |-> b]
BY Zenon DEF Reader

\* What is kept when nothing is converted.
LEMMA ReaderKeeps ==
  ASSUME NEW b, ~(b <= 127), Len(utf8) # 4, ~CopyString8to32(Append(utf8, b)).ok
  PROVE  Reader(b) = [utf8 |-> Append(utf8, b), char |-> NoChar]
BY Zenon DEF Reader

\* A broken text is kept until it is too long.
LEMMA ReaderStuck ==
  ASSUME NEW b \in 128..255, Broken(utf8)
  PROVE  /\ Reader(b).char = NoChar
         /\ Reader(b).utf8 = <<>> \/ Broken(Reader(b).utf8)
<1>1. PICK s : s = Append(utf8, b)
  OBVIOUS
<1>2. utf8 \in Seq(128..255) /\ Len(utf8) \in 1..4 /\ utf8[1] \in Stray
  BY DEF Broken
<1>3. s \in Seq(128..255) /\ Len(s) = Len(utf8) + 1 /\ s[1] = utf8[1]
  BY <1>1, <1>2
<1>4. ~(b <= 127)
  OBVIOUS
<1>5. CASE Len(utf8) = 4
  <2>1. Reader(b) = [utf8 |-> <<>>, char |-> NoChar]
    BY <1>4, <1>5, Zenon DEF Reader
  <2> QED BY <2>1
<1>6. CASE Len(utf8) # 4
  <2>1. s \in Seq(Byte) /\ s # <<>>
    BY <1>3 DEF Byte
  <2>2. ~CopyString8to32(s).ok
    BY <1>2, <1>3, <2>1, NotConverted
  <2>3. Reader(b) = [utf8 |-> s, char |-> NoChar]
    BY <1>1, <1>4, <1>6, <2>2, ReaderKeeps, Zenon
  <2>4. Len(s) \in 1..4
    <3>1. PICK n \in 1..4 : n = Len(utf8)
      BY <1>2
    <3>2. n # 4 /\ Len(s) = n + 1
      BY <1>3, <1>6, <3>1, Zenon
    <3> QED BY <3>2
  <2>5. Broken(s)
    BY <1>2, <1>3, <2>4, Zenon DEF Broken
  <2> QED BY <2>3, <2>5
<1> QED BY <1>5, <1>6

\* The first byte of several, or a stray one, is kept.
LEMMA ReaderBegins ==
  ASSUME NEW b \in 128..255, utf8 = <<>>
  PROVE  Reader(b) = [utf8 |-> <<b>>, char |-> NoChar]
<1>1. ~(b <= 127) /\ Len(utf8) # 4 /\ Append(utf8, b) = <<b>>
  OBVIOUS
<1>2. b \in Byte
  BY DEF Byte
<1>3. <<b>> \in Seq(Byte) /\ <<b>> # <<>> /\ Len(<<b>>) = 1 /\ <<b>>[1] = b
  BY <1>2
<1>4. PICK t \in 0..5 : t = TrailingBytes(b)
  BY <1>2, TrailingIs
<1>5. 1 < 1 + TrailingBytes(b) \/ b \in Stray
  <2>1. CASE b \in 194..244
    <3>1. TrailingBytes(b) \in 1..3
      BY <1>2, <2>1, TrailingIs
    <3> QED BY <3>1
  <2>2. CASE b \notin 194..244
    BY <2>2 DEF Stray
  <2> QED BY <2>1, <2>2
<1>6. ~CopyString8to32(<<b>>).ok
  BY <1>3, <1>5, NotConverted, Zenon
<1> QED BY <1>1, <1>6, ReaderKeeps, Zenon

\* A byte that continues a character completes it or is kept.
LEMMA ReaderContinues ==
  ASSUME NEW c \in Seq(Byte), OneCharacter(c), NEW k \in 1..(Len(c) - 1),
         utf8 = SubSeq(c, 1, k)
  PROVE  /\ k + 1 < Len(c) =>
              Reader(c[k + 1]) = [utf8 |-> SubSeq(c, 1, k + 1), char |-> NoChar]
         /\ k + 1 = Len(c) => Reader(c[k + 1]) = [utf8 |-> <<>>, char |-> CodePoint(c)]
<1>1. PICK n \in 1..4 : n = Len(c)
  <2>1. Len(c) \in 1..4
    BY LegalIs, Zenon DEF Shape
  <2> QED BY <2>1
<1>2. PICK b \in 128..191 : b = c[k + 1]
  <2>1. k + 1 \in 2..Len(c)
    BY <1>1
  <2>2. Shape(c)
    BY LegalIs
  <2>3. \A i \in 2..Len(c) : c[i] \in 128..191
    BY <2>2, Zenon DEF Shape
  <2> QED BY <2>1, <2>3
<1>3. ~(b <= 127) /\ b \in Byte
  BY DEF Byte
<1>4. Len(utf8) # 4 /\ k \in Nat
  BY <1>1
<1>5. PICK s : s = SubSeq(c, 1, k + 1)
  OBVIOUS
<1>6. Append(utf8, b) = s
  BY <1>1, <1>2, <1>5
<1>7. s \in Seq(Byte) /\ Len(s) = k + 1 /\ s # <<>> /\ s[1] = c[1]
  BY <1>1, <1>5
<1>8. Len(c) = 1 + TrailingBytes(c[1])
  BY DEF OneCharacter
<1>9. ASSUME k + 1 < Len(c)
      PROVE  Reader(c[k + 1]) = [utf8 |-> SubSeq(c, 1, k + 1), char |-> NoChar]
  <2>1. Len(s) < 1 + TrailingBytes(s[1])
    BY <1>7, <1>8, <1>9, Zenon
  <2>2. ~CopyString8to32(s).ok
    BY <1>7, <2>1, NotConverted, Zenon
  <2> QED BY <1>2, <1>3, <1>4, <1>5, <1>6, <2>2, ReaderKeeps, Zenon
<1>10. ASSUME k + 1 = Len(c)
       PROVE  Reader(c[k + 1]) = [utf8 |-> <<>>, char |-> CodePoint(c)]
  <2>1. s = c
    BY <1>1, <1>5, <1>10
  <2>2. PICK r : r = CopyString8to32(Append(utf8, b))
    OBVIOUS
  <2>3. r = [ok |-> TRUE, text |-> <<CodePoint(c)>>]
    BY <1>6, <2>1, <2>2, WholeConverts, Zenon
  <2>4. r.ok /\ r.text # <<>> /\ r.text[1] = CodePoint(c)
    BY <2>3
  <2>5. Reader(b) = [utf8 |-> <<>>, char |-> r.text[1]]
    BY <1>3, <1>4, <2>2, <2>4, Zenon DEF Reader
  <2> QED BY <1>2, <2>4, <2>5, Zenon
<1> QED BY <1>9, <1>10

-----------------------------------------------------------------------------
(* What was typed and what is still to be read.                             *)

\* An entry of typed, and where its bytes begin.
Entry == [code : Int, bytes : Seq(Byte), end : Nat, sure : BOOLEAN]
Start(e) == e.end - Len(e.bytes)
Total(list) == IF list = <<>> THEN 0 ELSE Last(list).end

\* It is a character of Unicode, or a byte no character begins with.
IsChar(e) ==
  \/ /\ e.code # Invalid /\ OneCharacter(e.bytes) /\ e.code = CodePoint(e.bytes)
  \/ /\ e.code = Invalid /\ Len(e.bytes) = 1 /\ e.bytes[1] \in Stray

\* It begins where the one before it ended, and is sure if that one was or it is
\* ASCII.
Follows(list, j) ==
  /\ Start(list[j]) = (IF j = 1 THEN 0 ELSE list[j - 1].end)
  /\ list[j].sure => /\ list[j].code # Invalid
                     /\ Len(list[j].bytes) = 1 \/ j = 1 \/ list[j - 1].sure

\* No byte belongs to two of them, and every byte to one.
Apart(list) == \A i, j \in DOMAIN list : i < j => list[i].end <= Start(list[j])
Covered(list) ==
  \A p \in 1..Total(list) : \E j \in DOMAIN list : Start(list[j]) < p /\ p <= list[j].end

\* The bytes under way are theirs.
Arriving(sent, list) ==
  \A j \in DOMAIN list : \A k \in 1..Len(list[j].bytes) :
    Start(list[j]) + k - read \in 1..Len(sent) =>
      sent[Start(list[j]) + k - read] = list[j].bytes[k]

Sound(sent, list) ==
  /\ sent \in Seq(Byte) /\ list \in Seq(Entry)
  /\ \A j \in DOMAIN list : IsChar(list[j]) /\ Follows(list, j)
  /\ Apart(list) /\ Covered(list) /\ Arriving(sent, list)
  /\ read \in Nat /\ read + Len(sent) <= Total(list)

\* An entry that is being read: what is kept are its first bytes.
Partial(e, kept, at) ==
  /\ e.code # Invalid /\ Start(e) < at /\ at < e.end
  /\ kept = SubSeq(e.bytes, 1, at - Start(e))

\* What the reader keeps.
KeptInv ==
  \/ utf8 = <<>> \/ Broken(utf8)
  \/ \E j \in DOMAIN typed : Partial(typed[j], utf8, read)

\* It does not lose track of a character that is sure to be read.
SureInv ==
  /\ read = 0 => utf8 = <<>>
  /\ \A j \in DOMAIN typed : typed[j].sure =>
       /\ typed[j].end = read => utf8 = <<>>
       /\ Start(typed[j]) < read /\ read < typed[j].end => Partial(typed[j], utf8, read)

\* What is known of an entry's bytes.
LEMMA EntryIs ==
  ASSUME NEW e \in Entry, IsChar(e)
  PROVE  /\ Len(e.bytes) \in 1..4 /\ e.bytes \in Seq(Byte) /\ e.end \in Nat /\ Start(e) \in Int
         /\ e.end = Start(e) + Len(e.bytes)
<1>1. e.bytes \in Seq(Byte) /\ e.end \in Nat
  BY DEF Entry
<1>2. Len(e.bytes) \in 1..4
  <2>1. CASE OneCharacter(e.bytes)
    <3>1. Shape(e.bytes)
      BY <1>1, <2>1, LegalIs
    <3> QED BY <3>1, Zenon DEF Shape
  <2>2. CASE Len(e.bytes) = 1
    BY <2>2
  <2> QED BY <2>1, <2>2, Zenon DEF IsChar
<1> QED BY <1>1, <1>2 DEF Start

\* A byte is one entry's only.
LEMMA OneEntry ==
  ASSUME NEW list \in Seq(Entry), Apart(list), \A j \in DOMAIN list : IsChar(list[j]),
         NEW i \in DOMAIN list, NEW j \in DOMAIN list, NEW p \in Int,
         Start(list[i]) < p, p <= list[i].end, Start(list[j]) < p, p <= list[j].end
  PROVE  i = j
<1>1. i \in Nat /\ j \in Nat
  OBVIOUS
<1>2. PICK a \in Int, b \in Nat : a = Start(list[i]) /\ b = list[i].end
  <2>1. list[i] \in Entry /\ IsChar(list[i])
    OBVIOUS
  <2> QED BY <2>1, EntryIs
<1>3. PICK c \in Int, d \in Nat : c = Start(list[j]) /\ d = list[j].end
  <2>1. list[j] \in Entry /\ IsChar(list[j])
    OBVIOUS
  <2> QED BY <2>1, EntryIs
<1>4. (i < j => b <= c) /\ (j < i => d <= a)
  BY <1>2, <1>3, Zenon DEF Apart
<1>5. a < p /\ p <= b /\ c < p /\ p <= d
  BY <1>2, <1>3, Zenon
<1> QED BY <1>1, <1>4, <1>5

\* The byte that is read next belongs to an entry.
LEMMA NextByte ==
  ASSUME Sound(input, typed), input # <<>>
  PROVE  \E j \in DOMAIN typed, k \in 1..4 :
           /\ k <= Len(typed[j].bytes) /\ Start(typed[j]) + k = read + 1
           /\ Head(input) = typed[j].bytes[k]
<1>1. /\ input \in Seq(Byte) /\ typed \in Seq(Entry) /\ read \in Nat
      /\ \A j \in DOMAIN typed : IsChar(typed[j])
      /\ Covered(typed) /\ Arriving(input, typed) /\ read + Len(input) <= Total(typed)
  BY Zenon DEF Sound
<1>2. Len(input) \in Nat \ {0} /\ Head(input) = input[1]
  BY <1>1
<1>3. Total(typed) \in Nat
  <2>1. CASE typed = <<>>
    BY <2>1, Zenon DEF Total
  <2>2. CASE typed # <<>>
    <3>1. Last(typed) \in Entry
      BY <1>1, <2>2 DEF Last
    <3>2. Last(typed).end \in Nat
      BY <3>1 DEF Entry
    <3> QED BY <2>2, <3>2, Zenon DEF Total
  <2> QED BY <2>1, <2>2
<1>4. read + 1 \in 1..Total(typed)
  BY <1>1, <1>2, <1>3
<1>5. PICK j \in DOMAIN typed : Start(typed[j]) < read + 1 /\ read + 1 <= typed[j].end
  BY <1>1, <1>4, Zenon DEF Covered
<1>6. typed[j] \in Entry /\ IsChar(typed[j])
  BY <1>1
<1>7. PICK s \in Int, n \in 1..4 : s = Start(typed[j]) /\ n = Len(typed[j].bytes) /\ typed[j].end = s + n
  BY <1>6, EntryIs
<1>8. PICK k \in 1..4 : k = read + 1 - s
  <2>1. s < read + 1 /\ read + 1 <= s + n
    BY <1>5, <1>7, Zenon
  <2>2. read + 1 - s \in 1..4
    BY <1>1, <2>1
  <2> QED BY <2>2
<1>9. k <= n /\ s + k = read + 1
  <2>1. read + 1 <= s + n
    BY <1>5, <1>7, Zenon
  <2> QED BY <1>1, <1>8, <2>1
<1>10. Head(input) = typed[j].bytes[k]
  <2>1. s + k - read = 1 /\ k \in 1..n /\ 1 \in 1..Len(input)
    BY <1>1, <1>2, <1>9
  <2>2. input[1] = typed[j].bytes[k]
    BY <1>1, <1>7, <2>1, Zenon DEF Arriving
  <2> QED BY <1>2, <2>2
<1> QED BY <1>7, <1>9, <1>10

\* What reading a byte of the entry e makes of the reader: the character is complete,
\* or begun, or lost.
Completes(e, r) ==
  /\ r.utf8 = <<>> /\ r.char = e.code /\ e.code \in Nat /\ e.code # Invalid
  /\ e.end = read + 1
Continues(e, r) == r.char = NoChar /\ Partial(e, r.utf8, read + 1)
Loses(e, r) == r.char = NoChar /\ (r.utf8 = <<>> \/ Broken(r.utf8)) /\ ~e.sure

\* The bytes behind the first are no leads, and the first says whether there are any.
BytesAre(b) ==
  /\ \A i \in 2..Len(b) : b[i] \in 128..191
  /\ Len(b) # 1 => b[1] \in 194..244

\* That holds of a legal sequence.
LEMMA BytesOf == ASSUME NEW b \in Seq(Byte), OneCharacter(b) PROVE BytesAre(b)
<1>1. Shape(b)
  BY LegalIs
<1>2. \A i \in 2..Len(b) : b[i] \in 128..191
  BY <1>1, Zenon DEF Shape
<1>3. ASSUME Len(b) # 1 PROVE b[1] \in 194..244
  <2>1. PICK n \in 1..4 : n = Len(b)
    BY <1>1, Zenon DEF Shape
  <2>2. n = 2 \/ n = 3 \/ n = 4
    BY <1>3, <2>1
  <2>3. b[1] \in 194..223 \/ b[1] \in 224..239 \/ b[1] \in 240..244
    BY <1>1, <2>1, <2>2, Zenon DEF Shape
  <2> QED BY <2>3
<1> QED BY <1>2, <1>3, Zenon DEF BytesAre

\* The first element alone.
LEMMA FirstOnly ==
  ASSUME NEW S, NEW q \in Seq(S), Len(q) \in 1..4
  PROVE  SubSeq(q, 1, 1) = <<q[1]>>
<1>1. PICK s : s = SubSeq(q, 1, 1)
  OBVIOUS
<1>2. s \in Seq(S) /\ Len(s) = 1 /\ s[1] = q[1]
  BY <1>1
<1>3. s = <<q[1]>>
  BY <1>2
<1> QED BY <1>1, <1>3

\* What is above ASCII is not ASCII.
LEMMA HighByte == ASSUME NEW y, y \in 128..191 \/ y \in 194..244 PROVE ~(y <= 127)
OBVIOUS

\* A byte of ASCII is a character of its own.
LEMMA AsciiCompletes ==
  ASSUME NEW e \in Entry, IsChar(e), NEW k \in 1..4, k <= Len(e.bytes),
         Start(e) + k = read + 1, read \in Nat, e.bytes[k] <= 127
  PROVE  Completes(e, Reader(e.bytes[k]))
<1>1. PICK n \in 1..4, s \in Int : n = Len(e.bytes) /\ s = Start(e) /\ e.end = s + n /\ e.bytes \in Seq(Byte)
  BY EntryIs
<1>2. e.code # Invalid /\ OneCharacter(e.bytes) /\ e.code = CodePoint(e.bytes)
  <2>1. CASE e.code = Invalid /\ Len(e.bytes) = 1 /\ e.bytes[1] \in Stray
    <3>1. k = 1
      BY <1>1, <2>1
    <3>2. e.bytes[1] <= 127
      BY <3>1
    <3> QED BY <2>1, <3>2 DEF Stray
  <2> QED BY <2>1, Zenon DEF IsChar
<1>3. BytesAre(e.bytes)
  BY <1>1, <1>2, BytesOf, Zenon
<1>4. n = 1 /\ k = 1
  <2>1. ASSUME k # 1 PROVE FALSE
    <3>1. k \in 2..Len(e.bytes)
      BY <1>1, <2>1
    <3>2. PICK y \in 128..191 : y = e.bytes[k]
      BY <1>3, <3>1 DEF BytesAre
    <3>3. y <= 127
      BY <3>2, Zenon
    <3> QED BY <3>3, HighByte, Zenon
  <2>2. ASSUME n # 1 PROVE FALSE
    <3>1. PICK y \in 194..244 : y = e.bytes[1]
      BY <1>1, <1>3, <2>2, Zenon DEF BytesAre
    <3>2. k = 1
      BY <2>1
    <3>3. y <= 127
      BY <3>1, <3>2, Zenon
    <3> QED BY <3>3, HighByte, Zenon
  <2> QED BY <2>1, <2>2
<1>5. PICK b \in Byte : b = e.bytes[1]
  BY <1>1
<1>6. Reader(b) = [utf8 |-> <<>>, char |-> b]
  <2>1. b <= 127
    BY <1>4, <1>5
  <2> QED BY <2>1, ReaderAscii
<1>7. PICK c \in Nat : CodePoint(e.bytes) = c /\ Code(c, e.bytes)
  BY <1>1, <1>2, CodeIs
<1>8. e.code = b /\ e.code \in Nat
  BY <1>1, <1>2, <1>4, <1>5, <1>7, Zenon DEF Code
<1>9. e.end = read + 1
  BY <1>1, <1>4
<1> QED BY <1>2, <1>4, <1>5, <1>6, <1>8, <1>9 DEF Completes

\* The first bytes of an entry.
LEMMA IsPartial ==
  ASSUME NEW e, NEW at \in Int, NEW k \in Int, e.code # Invalid, Start(e) \in Int,
         at = Start(e) + k, 0 < k, at < e.end
  PROVE  Partial(e, SubSeq(e.bytes, 1, k), at)
<1>1. PICK s \in Int : s = Start(e)
  OBVIOUS
<1>2. at = s + k
  BY <1>1, Zenon
<1>3. at - s = k /\ s < at
  BY <1>2
<1>4. at - Start(e) = k /\ Start(e) < at
  BY <1>1, <1>3, Zenon
<1> QED BY <1>4, Zenon DEF Partial

\* The first byte of several begins a character, if nothing is kept.
LEMMA FirstContinues ==
  ASSUME NEW e \in Entry, IsChar(e), Start(e) = read, read \in Nat, utf8 = <<>>,
         e.code # Invalid, Len(e.bytes) > 1
  PROVE  Continues(e, Reader(e.bytes[1]))
<1>1. PICK n \in 1..4 : n = Len(e.bytes) /\ e.end = read + n /\ e.bytes \in Seq(Byte)
  BY EntryIs
<1>2. OneCharacter(e.bytes)
  BY Zenon DEF IsChar
<1>3. Len(e.bytes) # 1 /\ BytesAre(e.bytes)
  <2>1. n > 1
    BY <1>1, Zenon
  <2>2. n # 1
    BY <2>1
  <2> QED BY <1>1, <1>2, <2>2, BytesOf, Zenon
<1>4. PICK b \in 128..255 : b = e.bytes[1]
  <2>1. PICK y \in 194..244 : y = e.bytes[1]
    BY <1>3, Zenon DEF BytesAre
  <2>2. y \in 128..255
    OBVIOUS
  <2> QED BY <2>1, <2>2, Zenon
<1>5. Reader(b) = [utf8 |-> <<b>>, char |-> NoChar]
  BY ReaderBegins
<1>6. SubSeq(e.bytes, 1, 1) = <<b>>
  <2>1. Len(e.bytes) \in 1..4
    BY <1>1, Zenon
  <2> QED BY <1>1, <1>4, <2>1, FirstOnly, Zenon
<1>7. read + 1 - Start(e) = 1 /\ Start(e) < read + 1 /\ read + 1 < e.end
  BY <1>1
<1>8. Reader(b).utf8 = <<b>> /\ Reader(b).char = NoChar
  BY <1>5
<1>9. Partial(e, <<b>>, read + 1)
  <2>1. 1 \in Int /\ 0 < 1 /\ read + 1 \in Int /\ Start(e) \in Int
    OBVIOUS
  <2>2. read + 1 = Start(e) + 1 /\ read + 1 < e.end
    BY <1>7
  <2>3. Partial(e, SubSeq(e.bytes, 1, 1), read + 1)
    BY <2>1, <2>2, IsPartial, Zenon
  <2> QED BY <1>6, <2>3, Zenon
<1> QED BY <1>4, <1>8, <1>9, Zenon DEF Continues

\* The next byte of a character that is begun completes it, or goes on.
LEMMA NextContinues ==
  ASSUME NEW e \in Entry, IsChar(e), read \in Nat, Partial(e, utf8, read)
  PROVE  LET r == Reader(e.bytes[read + 1 - Start(e)])
         IN  Completes(e, r) \/ Continues(e, r)
<1>1. PICK n \in 1..4, s \in Int : n = Len(e.bytes) /\ s = Start(e) /\ e.end = s + n /\ e.bytes \in Seq(Byte)
  BY EntryIs
<1>2. e.code # Invalid /\ s < read /\ read < s + n /\ utf8 = SubSeq(e.bytes, 1, read - s)
  BY <1>1, Zenon DEF Partial
<1>3. OneCharacter(e.bytes) /\ e.code = CodePoint(e.bytes)
  BY <1>2, Zenon DEF IsChar
<1>4. PICK k \in 1..(Len(e.bytes) - 1) : k = read - s
  <2>1. read - s \in 1..(n - 1)
    BY <1>2
  <2> QED BY <1>1, <2>1
<1>5. read + 1 - s = k + 1 /\ read + 1 = s + (k + 1) /\ n \in Nat
  BY <1>4
<1>6. utf8 = SubSeq(e.bytes, 1, k)
  BY <1>2, <1>4
<1>7. CASE k + 1 < Len(e.bytes)
  <2>1. Reader(e.bytes[k + 1]) = [utf8 |-> SubSeq(e.bytes, 1, k + 1), char |-> NoChar]
    BY <1>1, <1>3, <1>6, <1>7, ReaderContinues, Zenon
  <2>2. Start(e) < read + 1 /\ read + 1 < e.end
    BY <1>1, <1>4, <1>7
  <2>3. Partial(e, SubSeq(e.bytes, 1, k + 1), read + 1)
    <3>1. k + 1 \in Int /\ 0 < k + 1 /\ read + 1 \in Int
      BY <1>1
    <3>2. Start(e) \in Int /\ read + 1 = Start(e) + (k + 1)
      BY <1>1, <1>5, Zenon
    <3> QED BY <1>2, <2>2, <3>1, <3>2, IsPartial, Zenon
  <2>4. Continues(e, Reader(e.bytes[k + 1]))
    BY <2>1, <2>3 DEF Continues
  <2> QED BY <1>1, <1>5, <2>4, Zenon
<1>8. CASE k + 1 = Len(e.bytes)
  <2>1. Reader(e.bytes[k + 1]) = [utf8 |-> <<>>, char |-> CodePoint(e.bytes)]
    BY <1>1, <1>3, <1>6, <1>8, ReaderContinues, Zenon
  <2>2. e.end = read + 1
    BY <1>1, <1>4, <1>8
  <2>3. PICK c \in Nat : CodePoint(e.bytes) = c
    BY <1>1, <1>3, CodeIs
  <2>4. Completes(e, Reader(e.bytes[k + 1]))
    BY <1>2, <1>3, <2>1, <2>2, <2>3 DEF Completes
  <2> QED BY <1>1, <1>5, <2>4, Zenon
<1>9. k + 1 < Len(e.bytes) \/ k + 1 = Len(e.bytes)
  BY <1>1
<1> QED BY <1>7, <1>8, <1>9

\* Where the first bytes begin.
LEMMA FirstOfSome ==
  ASSUME NEW S, NEW q \in Seq(S), NEW k \in 1..3, k < Len(q)
  PROVE  SubSeq(q, 1, k) # <<>> /\ SubSeq(q, 1, k)[1] = q[1]
<1>1. Len(SubSeq(q, 1, k)) = k /\ SubSeq(q, 1, k)[1] = q[1]
  OBVIOUS
<1> QED BY <1>1

\* What is kept of a character is not what keeps the reader stuck.
LEMMA PartialIsGood ==
  ASSUME NEW e \in Entry, IsChar(e), NEW kept, NEW at \in Nat, Partial(e, kept, at)
  PROVE  kept # <<>> /\ ~Broken(kept)
<1>1. PICK n \in 1..4, s \in Int : n = Len(e.bytes) /\ s = Start(e) /\ e.end = s + n /\ e.bytes \in Seq(Byte)
  BY EntryIs
<1>2. e.code # Invalid /\ s < at /\ at < s + n /\ kept = SubSeq(e.bytes, 1, at - s)
  BY <1>1, Zenon DEF Partial
<1>3. PICK k \in 1..3 : k = at - s /\ k < n
  <2>1. at - s \in 1..3 /\ at - s < n
    BY <1>2
  <2> QED BY <2>1
<1>4. kept = SubSeq(e.bytes, 1, k)
  BY <1>2, <1>3, Zenon
<1>5. kept # <<>> /\ kept[1] = e.bytes[1]
  <2>1. k < Len(e.bytes)
    BY <1>1, <1>3, Zenon
  <2> QED BY <1>1, <1>4, <2>1, FirstOfSome, Zenon
<1>6. BytesAre(e.bytes) /\ Len(e.bytes) # 1
  <2>1. OneCharacter(e.bytes)
    BY <1>2, Zenon DEF IsChar
  <2>2. n # 1
    BY <1>3
  <2> QED BY <1>1, <2>1, <2>2, BytesOf, Zenon
<1>7. PICK y \in 194..244 : y = kept[1]
  BY <1>5, <1>6, Zenon DEF BytesAre
<1>8. y \notin Stray
  BY DEF Stray
<1> QED BY <1>5, <1>7, <1>8, Zenon DEF Broken

\* A byte above ASCII which is not the first of several is one no character begins with.
LEMMA OtherIsStray ==
  ASSUME NEW e \in Entry, IsChar(e), NEW k \in 1..4, k <= Len(e.bytes),
         ~(e.bytes[k] <= 127), ~(k = 1 /\ e.code # Invalid /\ Len(e.bytes) # 1)
  PROVE  e.bytes[k] \in Stray /\ (e.code = Invalid \/ k # 1)
<1>1. PICK n \in 1..4 : n = Len(e.bytes) /\ e.bytes \in Seq(Byte)
  <2>1. Len(e.bytes) \in 1..4 /\ e.bytes \in Seq(Byte)
    BY EntryIs
  <2> QED BY <2>1
<1>2. CASE e.code = Invalid /\ Len(e.bytes) = 1 /\ e.bytes[1] \in Stray
  <2>1. k = 1
    BY <1>2
  <2> QED BY <1>2, <2>1
<1>3. CASE e.code # Invalid /\ OneCharacter(e.bytes)
  <2>1. CASE k = 1
    <3>1. n = 1
      BY <1>1, <1>3, <2>1, Zenon
    <3>2. Shape(e.bytes)
      BY <1>1, <1>3, LegalIs
    <3>3. PICK y \in 0..127 : y = e.bytes[1]
      BY <1>1, <3>1, <3>2, Zenon DEF Shape
    <3>4. y <= 127
      OBVIOUS
    <3> QED BY <2>1, <3>3, <3>4, Zenon
  <2>2. CASE k # 1
    <3>1. BytesAre(e.bytes) /\ k \in 2..Len(e.bytes)
      BY <1>1, <1>3, <2>2, BytesOf
    <3>2. PICK y \in 128..191 : y = e.bytes[k]
      BY <3>1 DEF BytesAre
    <3>3. y \in Stray
      BY DEF Stray
    <3> QED BY <2>2, <3>2, <3>3, Zenon
  <2> QED BY <2>1, <2>2
<1> QED BY <1>2, <1>3, Zenon DEF IsChar

\* Nothing is kept where a character of several bytes begins that is sure to be read.
LEMMA SureBegins ==
  ASSUME Sound(input, typed), SureInv, NEW j \in DOMAIN typed, typed[j].sure,
         Start(typed[j]) = read, Len(typed[j].bytes) # 1
  PROVE  utf8 = <<>>
<1>1. Follows(typed, j) /\ typed \in Seq(Entry)
  BY Zenon DEF Sound
<1>2. j = 1 \/ typed[j - 1].sure
  BY <1>1, Zenon DEF Follows
<1>3. CASE j = 1
  <2>1. read = 0
    BY <1>1, <1>3, Zenon DEF Follows
  <2> QED BY <2>1, Zenon DEF SureInv
<1>4. CASE j # 1 /\ typed[j - 1].sure
  <2>1. typed[j - 1].end = read
    BY <1>1, <1>4, Zenon DEF Follows
  <2>2. j - 1 \in DOMAIN typed
    BY <1>1, <1>4
  <2> QED BY <1>4, <2>1, <2>2, Zenon DEF SureInv
<1> QED BY <1>2, <1>3, <1>4

\* What the reader does with the byte it reads next.
Outcome(e, r) ==
  /\ e.sure \in BOOLEAN /\ Start(e) < read + 1 /\ read + 1 <= e.end
  /\ Completes(e, r) \/ Continues(e, r) \/ Loses(e, r)

\* One of the three happens to one of the typed characters: the core of the argument.
LEMMA ReaderOutcome ==
  ASSUME Sound(input, typed), KeptInv, SureInv, input # <<>>
  PROVE  \E j \in DOMAIN typed : Outcome(typed[j], Reader(Head(input)))
<1>1. PICK j \in DOMAIN typed, k \in 1..4 :
        /\ k <= Len(typed[j].bytes) /\ Start(typed[j]) + k = read + 1
        /\ Head(input) = typed[j].bytes[k]
  BY NextByte
<1>2. /\ typed \in Seq(Entry) /\ read \in Nat /\ Follows(typed, j) /\ Apart(typed)
      /\ \A i \in DOMAIN typed : IsChar(typed[i])
  BY Zenon DEF Sound
<1>3. typed[j] \in Entry /\ IsChar(typed[j])
  BY <1>2
<1>4. typed[j].sure \in BOOLEAN
  BY <1>3 DEF Entry
<1>5. PICK n \in 1..4, s \in Int :
        n = Len(typed[j].bytes) /\ s = Start(typed[j]) /\ typed[j].end = s + n /\ typed[j].bytes \in Seq(Byte)
  BY <1>3, EntryIs
<1>6. s + k = read + 1 /\ k <= n
  BY <1>1, <1>5, Zenon
<1>7. Start(typed[j]) < read + 1 /\ read + 1 <= typed[j].end
  <2>1. s < read + 1 /\ read + 1 <= s + n
    BY <1>6
  <2> QED BY <1>5, <2>1, Zenon
<1>8. SUFFICES LET r == Reader(typed[j].bytes[k])
               IN  Completes(typed[j], r) \/ Continues(typed[j], r) \/ Loses(typed[j], r)
  BY <1>1, <1>4, <1>7, Zenon DEF Outcome
<1>9. CASE typed[j].bytes[k] <= 127
  BY <1>1, <1>2, <1>3, <1>9, AsciiCompletes, Zenon
<1>10. ASSUME ~(typed[j].bytes[k] <= 127)
       PROVE  LET r == Reader(typed[j].bytes[k])
              IN  Completes(typed[j], r) \/ Continues(typed[j], r) \/ Loses(typed[j], r)
  <2>1. PICK b \in 128..255 : b = typed[j].bytes[k]
    <3>1. PICK b \in Byte : b = typed[j].bytes[k]
      BY <1>5, <1>6
    <3>2. ~(b <= 127)
      BY <1>10, <3>1, Zenon
    <3>3. b \in 128..255
      BY <3>2 DEF Byte
    <3> QED BY <3>1, <3>3
  <2>2. ASSUME typed[j].sure
        PROVE  /\ typed[j].code # Invalid
               /\ k # 1 => Partial(typed[j], utf8, read)
               /\ k = 1 /\ Len(typed[j].bytes) # 1 => utf8 = <<>>
    <3>1. typed[j].code # Invalid
      BY <1>2, <2>2, Zenon DEF Follows
    <3>2. ASSUME k # 1 PROVE Partial(typed[j], utf8, read)
      <4>1. s < read /\ read < s + n
        BY <1>2, <1>6, <3>2
      <4>2. Start(typed[j]) < read /\ read < typed[j].end
        BY <1>5, <4>1, Zenon
      <4> QED BY <2>2, <4>2, Zenon DEF SureInv
    <3>3. ASSUME k = 1 /\ Len(typed[j].bytes) # 1 PROVE utf8 = <<>>
      <4>1. s = read
        BY <1>2, <1>6, <3>3
      <4> QED BY <1>5, <2>2, <3>3, <4>1, SureBegins, Zenon
    <3> QED BY <3>1, <3>2, <3>3
  <2>3. CASE utf8 = <<>>
    <3>1. CASE k = 1 /\ typed[j].code # Invalid /\ Len(typed[j].bytes) # 1
      <4>0. n # 1
        BY <1>5, <3>1, Zenon
      <4>1. s = read /\ n > 1
        BY <1>2, <1>6, <3>1, <4>0
      <4>2. Start(typed[j]) = read /\ Len(typed[j].bytes) > 1
        BY <1>5, <4>1, Zenon
      <4>3. Continues(typed[j], Reader(typed[j].bytes[1]))
        BY <1>2, <1>3, <2>3, <3>1, <4>2, FirstContinues, Zenon
      <4> QED BY <3>1, <4>3, Zenon
    <3>2. CASE ~(k = 1 /\ typed[j].code # Invalid /\ Len(typed[j].bytes) # 1)
      <4>1. b \in Stray /\ (typed[j].code = Invalid \/ k # 1)
        BY <1>1, <1>3, <1>10, <2>1, <3>2, OtherIsStray, Zenon
      <4>2. Reader(b) = [utf8 |-> <<b>>, char |-> NoChar]
        BY <2>3, ReaderBegins
      <4>3. Reader(b).utf8 = <<b>> /\ Reader(b).char = NoChar
        BY <4>2
      <4>4. Broken(<<b>>)
        <5>1. <<b>> \in Seq(128..255) /\ Len(<<b>>) \in 1..4 /\ <<b>>[1] = b
          OBVIOUS
        <5> QED BY <4>1, <5>1, Zenon DEF Broken
      <4>5. ~typed[j].sure
        <5>1. ASSUME typed[j].sure PROVE FALSE
          <6>1. Partial(typed[j], utf8, read)
            BY <2>2, <4>1, <5>1, Zenon
          <6> QED BY <1>2, <1>3, <2>3, <6>1, PartialIsGood, Zenon
        <5> QED BY <5>1
      <4>6. Loses(typed[j], Reader(b))
        BY <4>3, <4>4, <4>5, Zenon DEF Loses
      <4> QED BY <2>1, <4>6, Zenon
    <3> QED BY <3>1, <3>2
  <2>4. CASE Broken(utf8)
    <3>1. /\ Reader(b).char = NoChar
          /\ Reader(b).utf8 = <<>> \/ Broken(Reader(b).utf8)
      BY <2>4, ReaderStuck
    <3>2. ~typed[j].sure
      <4>1. ASSUME typed[j].sure PROVE FALSE
        <5>1. CASE k = 1
          <6>1. utf8 # <<>>
            BY <2>4 DEF Broken
          <6>2. Len(typed[j].bytes) = 1
            BY <2>2, <4>1, <5>1, <6>1, Zenon
          <6>3. typed[j].code = Invalid \/ k # 1
            BY <1>1, <1>3, <1>10, <6>2, OtherIsStray, Zenon
          <6> QED BY <2>2, <4>1, <5>1, <6>3, Zenon
        <5>2. CASE k # 1
          <6>1. Partial(typed[j], utf8, read)
            BY <2>2, <4>1, <5>2, Zenon
          <6> QED BY <1>2, <1>3, <2>4, <6>1, PartialIsGood, Zenon
        <5> QED BY <5>1, <5>2
      <4> QED BY <4>1
    <3>3. Loses(typed[j], Reader(b))
      BY <3>1, <3>2, Zenon DEF Loses
    <3> QED BY <2>1, <3>3, Zenon
  <2>5. CASE \E i \in DOMAIN typed : Partial(typed[i], utf8, read)
    <3>1. PICK i \in DOMAIN typed : Partial(typed[i], utf8, read)
      BY <2>5
    <3>2. PICK m \in 1..4, q \in Int :
            m = Len(typed[i].bytes) /\ q = Start(typed[i]) /\ typed[i].end = q + m
      <4>1. typed[i] \in Entry /\ IsChar(typed[i])
        BY <1>2
      <4> QED BY <4>1, EntryIs
    <3>3. q < read /\ read < q + m
      BY <3>1, <3>2, Zenon DEF Partial
    <3>4. q < read + 1 /\ read + 1 <= q + m /\ read + 1 \in Int
      BY <1>2, <3>3
    <3>5. Start(typed[i]) < read + 1 /\ read + 1 <= typed[i].end
      BY <3>2, <3>4, Zenon
    <3>6. i = j
      BY <1>2, <1>7, <3>4, <3>5, OneEntry
    <3>7. k = read + 1 - s
      BY <1>2, <1>6
    <3>8. k = read + 1 - Start(typed[j])
      BY <1>5, <3>7, Zenon
    <3>9. LET r == Reader(typed[j].bytes[read + 1 - Start(typed[j])])
          IN  Completes(typed[j], r) \/ Continues(typed[j], r)
      BY <1>2, <1>3, <3>1, <3>6, NextContinues
    <3> QED BY <3>8, <3>9, Zenon
  <2> QED BY <2>3, <2>4, <2>5, Zenon DEF KeptInv
<1> QED BY <1>9, <1>10

-----------------------------------------------------------------------------
(* A byte is read.                                                          *)

\* A character that is sure to be read is complete or begun.
LEMMA SureOutcome ==
  ASSUME Sound(input, typed), NEW j \in DOMAIN typed, NEW r, Outcome(typed[j], r),
         NEW i \in DOMAIN typed, typed[i].sure,
         Start(typed[i]) < read + 1, read + 1 <= typed[i].end
  PROVE  Completes(typed[i], r) \/ Continues(typed[i], r)
<1>1. /\ typed \in Seq(Entry) /\ read \in Nat /\ Apart(typed)
      /\ \A k \in DOMAIN typed : IsChar(typed[k])
  BY Zenon DEF Sound
<1>2. Start(typed[j]) < read + 1 /\ read + 1 <= typed[j].end
  BY Zenon DEF Outcome
<1>3. read + 1 \in Int
  BY <1>1
<1>4. i = j
  BY <1>1, <1>2, <1>3, OneEntry
<1> QED BY <1>4, Zenon DEF Outcome, Loses

\* What the reader keeps behind the byte is what it should.
LEMMA ReaderKeepsTrack ==
  ASSUME Sound(input, typed), NEW j \in DOMAIN typed, NEW r, Outcome(typed[j], r),
         utf8' = r.utf8, read' = read + 1, typed' = typed
  PROVE  KeptInv' /\ SureInv'
<1>1. /\ typed \in Seq(Entry) /\ read \in Nat
      /\ \A k \in DOMAIN typed : IsChar(typed[k])
  BY Zenon DEF Sound
<1>2. KeptInv'
  <2>1. CASE Completes(typed[j], r)
    BY <2>1, Zenon DEF Completes, KeptInv
  <2>2. CASE Loses(typed[j], r)
    BY <2>2, Zenon DEF Loses, KeptInv
  <2>3. CASE Continues(typed[j], r)
    <3>1. Partial(typed'[j], utf8', read')
      BY <2>3, Zenon DEF Continues
    <3>2. j \in DOMAIN typed'
      OBVIOUS
    <3> QED BY <3>1, <3>2 DEF KeptInv
  <2> QED BY <2>1, <2>2, <2>3, Zenon DEF Outcome
<1>3. ASSUME NEW i \in DOMAIN typed, typed[i].sure
      PROVE  /\ typed[i].end = read + 1 => r.utf8 = <<>>
             /\ Start(typed[i]) < read + 1 /\ read + 1 < typed[i].end =>
                  Partial(typed[i], r.utf8, read + 1)
  <2>1. PICK n \in 1..4, s \in Int :
          n = Len(typed[i].bytes) /\ s = Start(typed[i]) /\ typed[i].end = s + n
    <3>1. typed[i] \in Entry /\ IsChar(typed[i])
      BY <1>1
    <3> QED BY <3>1, EntryIs
  <2>2. s + n = read + 1 => s < read + 1 /\ read + 1 <= s + n /\ ~(read + 1 < s + n)
    BY <1>1
  <2>3. read + 1 < s + n => read + 1 <= s + n /\ s + n # read + 1
    BY <1>1
  <2>4. ASSUME typed[i].end = read + 1 PROVE r.utf8 = <<>>
    <3>1. /\ Start(typed[i]) < read + 1 /\ read + 1 <= typed[i].end
          /\ ~(read + 1 < typed[i].end)
      BY <2>1, <2>2, <2>4, Zenon
    <3>2. Completes(typed[i], r) \/ Continues(typed[i], r)
      BY <1>3, <3>1, SureOutcome
    <3> QED BY <3>1, <3>2, Zenon DEF Completes, Continues, Partial
  <2>5. ASSUME Start(typed[i]) < read + 1, read + 1 < typed[i].end
        PROVE  Partial(typed[i], r.utf8, read + 1)
    <3>1. read + 1 <= typed[i].end /\ typed[i].end # read + 1
      BY <2>1, <2>3, <2>5, Zenon
    <3>2. Completes(typed[i], r) \/ Continues(typed[i], r)
      BY <1>3, <2>5, <3>1, SureOutcome
    <3> QED BY <3>1, <3>2, Zenon DEF Completes, Continues
  <2> QED BY <2>4, <2>5, Zenon
<1>4. read' # 0
  BY <1>1
<1>5. SureInv'
  BY <1>3, <1>4, Zenon DEF SureInv
<1> QED BY <1>2, <1>5

\* The rest of the bytes are where they were.
LEMMA ReaderStaysSound ==
  ASSUME Sound(input, typed), input # <<>>, input' = Tail(input), read' = read + 1,
         typed' = typed
  PROVE  Sound(input, typed)'
<1>1. /\ input \in Seq(Byte) /\ typed \in Seq(Entry) /\ read \in Nat
      /\ \A k \in DOMAIN typed : IsChar(typed[k]) /\ Follows(typed, k)
      /\ Apart(typed) /\ Covered(typed) /\ Arriving(input, typed)
      /\ read + Len(input) <= Total(typed)
  BY Zenon DEF Sound
<1>2. PICK rest \in Seq(Byte), len \in Nat :
        /\ rest = Tail(input) /\ len = Len(rest) /\ Len(input) = len + 1
        /\ \A x \in 1..len : rest[x] = input[x + 1]
  <2>1. PICK rest \in Seq(Byte) : rest = Tail(input)
    <3>1. Tail(input) \in Seq(Byte)
      BY <1>1
    <3> QED BY <3>1, Zenon
  <2>2. PICK len \in Nat : len = Len(rest)
    OBVIOUS
  <2>3. Len(input) = len + 1
    BY <1>1, <2>1, <2>2
  <2>4. \A x \in 1..len : rest[x] = input[x + 1]
    BY <1>1, <2>1, <2>2
  <2> QED BY <2>1, <2>2, <2>3, <2>4, Zenon
<1>3. ASSUME NEW i \in DOMAIN typed, NEW k \in 1..Len(typed[i].bytes),
             Start(typed[i]) + k - (read + 1) \in 1..len
      PROVE  rest[Start(typed[i]) + k - (read + 1)] = typed[i].bytes[k]
  <2>1. PICK s \in Int : s = Start(typed[i])
    <3>1. typed[i] \in Entry /\ IsChar(typed[i])
      BY <1>1
    <3>2. Start(typed[i]) \in Int
      BY <3>1, EntryIs
    <3> QED BY <3>2
  <2>2. PICK x \in 1..len : x = s + k - (read + 1)
    BY <1>3, <2>1, Zenon
  <2>3. x + 1 = s + k - read /\ x + 1 \in 1..(len + 1)
    <3>1. k \in Int
      OBVIOUS
    <3> QED BY <1>1, <2>2, <3>1
  <2>4. input[s + k - read] = typed[i].bytes[k]
    BY <1>1, <1>2, <2>1, <2>3, Zenon DEF Arriving
  <2>5. rest[x] = typed[i].bytes[k]
    BY <1>2, <2>3, <2>4, Zenon
  <2> QED BY <2>1, <2>2, <2>5, Zenon
<1>4. Arriving(input, typed)'
  BY <1>2, <1>3, Zenon DEF Arriving
<1>5. /\ input' \in Seq(Byte) /\ typed' \in Seq(Entry) /\ read' \in Nat
      /\ \A k \in DOMAIN typed' : IsChar(typed'[k]) /\ Follows(typed', k)
      /\ Apart(typed') /\ Covered(typed')
  <2>1. read + 1 \in Nat
    BY <1>1
  <2> QED BY <1>1, <1>2, <2>1, Zenon
<1>6. read' + Len(input') <= Total(typed')
  <2>1. (read + 1) + len = read + (len + 1)
    BY <1>1
  <2> QED BY <1>1, <1>2, <2>1, Zenon
<1> QED BY <1>4, <1>5, <1>6, Zenon DEF Sound

\* One more at the end of a list.
Adds(old, all, c) ==
  /\ \A i \in DOMAIN all : (i \in DOMAIN old /\ all[i] = old[i]) \/ all[i] = c
  /\ \A i \in DOMAIN old : i \in DOMAIN all /\ all[i] = old[i]
  /\ \E i \in DOMAIN all : all[i] = c

\* Append adds.
LEMMA AppendAdds == ASSUME NEW S, NEW old \in Seq(S), NEW c PROVE Adds(old, Append(old, c), c)
<1>1. PICK n \in Nat : n = Len(old) /\ DOMAIN old = 1..n
  OBVIOUS
<1>2. PICK all : all = Append(old, c)
  OBVIOUS
<1>3. /\ DOMAIN all = 1..(n + 1) /\ all[n + 1] = c
      /\ \A i \in 1..n : all[i] = old[i]
  BY <1>1, <1>2
<1>4. /\ \A i \in 1..(n + 1) : i \in 1..n \/ i = n + 1
      /\ \A i \in 1..n : i \in 1..(n + 1)
      /\ n + 1 \in 1..(n + 1)
  OBVIOUS
<1>5. Adds(old, all, c)
  BY <1>1, <1>3, <1>4, Zenon DEF Adds
<1> QED BY <1>2, <1>5

\* What was read is exactly what was typed, and stays so.
Said(c, e) == e.code = c.code /\ e.end = c.end

\* What was read stays what was typed.
LEMMA ReaderStaysExact ==
  ASSUME Sound(input, typed), NEW j \in DOMAIN typed, NEW r, Outcome(typed[j], r),
         CharactersExact, NEW S, chars \in Seq(S), read' = read + 1, typed' = typed,
         chars' = IF r.char > 0 THEN Append(chars, [code |-> r.char, end |-> read + 1])
                  ELSE chars
  PROVE  CharactersExact'
<1>1. /\ typed \in Seq(Entry) /\ read \in Nat
      /\ \A k \in DOMAIN typed : IsChar(typed[k])
  BY Zenon DEF Sound
<1>2. PICK c : c = [code |-> r.char, end |-> read + 1]
  OBVIOUS
<1>3. c.code = r.char /\ c.end = read + 1
  BY <1>2
<1>4. ASSUME r.char > 0 PROVE Said(c, typed[j])
  <2>1. r.char # NoChar
    BY <1>4 DEF NoChar
  <2>2. Completes(typed[j], r)
    BY <2>1, Zenon DEF Outcome, Continues, Loses
  <2> QED BY <1>3, <2>2, Zenon DEF Completes, Said
<1>5. ASSUME NEW i \in DOMAIN typed, typed[i].sure, typed[i].end <= read + 1, typed[i].code # 0
      PROVE  typed[i].end <= read \/ (r.char > 0 /\ Said(c, typed[i]))
  <2>1. PICK n \in 1..4, s \in Int :
          n = Len(typed[i].bytes) /\ s = Start(typed[i]) /\ typed[i].end = s + n
    <3>1. typed[i] \in Entry /\ IsChar(typed[i])
      BY <1>1
    <3> QED BY <3>1, EntryIs
  <2>2. s + n <= read \/ (s + n = read + 1 /\ s < read + 1 /\ read + 1 <= s + n /\ ~(read + 1 < s + n))
    <3>1. s + n <= read + 1
      BY <1>5, <2>1, Zenon
    <3> QED BY <1>1, <3>1
  <2>3. CASE s + n <= read
    BY <2>1, <2>3, Zenon
  <2>4. CASE s + n = read + 1 /\ s < read + 1 /\ read + 1 <= s + n /\ ~(read + 1 < s + n)
    <3>1. Start(typed[i]) < read + 1 /\ read + 1 <= typed[i].end
      BY <2>1, <2>4, Zenon
    <3>2. Completes(typed[i], r) \/ Continues(typed[i], r)
      BY <1>5, <3>1, SureOutcome
    <3>3. Completes(typed[i], r)
      BY <2>1, <2>4, <3>2, Zenon DEF Continues, Partial
    <3>4. Said(c, typed[i])
      BY <1>3, <3>3, Zenon DEF Completes, Said
    <3>5. r.char \in Nat /\ r.char # 0
      BY <1>5, <3>3, Zenon DEF Completes
    <3>6. r.char > 0
      BY <3>5
    <3> QED BY <3>4, <3>6
  <2> QED BY <2>2, <2>3, <2>4
<1>6. PICK all : all = chars'
  OBVIOUS
<1>7. /\ \A i \in DOMAIN all : (i \in DOMAIN chars /\ all[i] = chars[i]) \/ (r.char > 0 /\ all[i] = c)
      /\ \A i \in DOMAIN chars : i \in DOMAIN all /\ all[i] = chars[i]
      /\ r.char > 0 => \E i \in DOMAIN all : all[i] = c
  <2>1. CASE r.char > 0
    <3>1. all = Append(chars, c)
      BY <1>2, <1>6, <2>1, Zenon
    <3>2. Adds(chars, all, c)
      BY <3>1, AppendAdds
    <3> QED BY <2>1, <3>2, Zenon DEF Adds
  <2>2. CASE ~(r.char > 0)
    <3>1. all = chars
      BY <1>6, <2>2, Zenon
    <3> QED BY <2>2, <3>1, Zenon
  <2> QED BY <2>1, <2>2
<1>8. /\ \A i \in DOMAIN chars : \E k \in DOMAIN typed : Said(chars[i], typed[k])
      /\ \A k \in DOMAIN typed : typed[k].sure /\ typed[k].end <= read /\ typed[k].code # 0 =>
           \E i \in DOMAIN chars : Said(chars[i], typed[k])
  BY DEF CharactersExact, Said
<1>9. \A i \in DOMAIN all : \E k \in DOMAIN typed : Said(all[i], typed[k])
  BY <1>4, <1>7, <1>8, Zenon
<1>10. \A k \in DOMAIN typed : typed[k].sure /\ typed[k].end <= read + 1 /\ typed[k].code # 0 =>
         \E i \in DOMAIN all : Said(all[i], typed[k])
  <2>1. SUFFICES ASSUME NEW k \in DOMAIN typed, typed[k].sure, typed[k].end <= read + 1,
                        typed[k].code # 0
                 PROVE  \E i \in DOMAIN all : Said(all[i], typed[k])
    OBVIOUS
  <2>2. CASE typed[k].end <= read
    BY <1>7, <1>8, <2>1, <2>2, Zenon
  <2>3. CASE r.char > 0 /\ Said(c, typed[k])
    BY <1>7, <2>3, Zenon
  <2>4. typed[k].end <= read \/ (r.char > 0 /\ Said(c, typed[k]))
    BY <1>5, <2>1, Zenon
  <2> QED BY <2>2, <2>3, <2>4, Zenon
<1>11. \A i \in DOMAIN chars' : \E k \in DOMAIN typed' :
         typed'[k].code = chars'[i].code /\ typed'[k].end = chars'[i].end
  BY <1>6, <1>9, Zenon DEF Said
<1>12. \A k \in DOMAIN typed' : typed'[k].sure /\ typed'[k].end <= read' /\ typed'[k].code # 0 =>
         \E i \in DOMAIN chars' :
           chars'[i].code = typed'[k].code /\ chars'[i].end = typed'[k].end
  <2>1. SUFFICES ASSUME NEW k \in DOMAIN typed, typed[k].sure, typed[k].end <= read + 1,
                        typed[k].code # 0
                 PROVE  \E i \in DOMAIN chars' :
                          chars'[i].code = typed[k].code /\ chars'[i].end = typed[k].end
    OBVIOUS
  <2>2. PICK i \in DOMAIN all : Said(all[i], typed[k])
    BY <1>10, <2>1, Zenon
  <2> QED BY <1>6, <2>2, Zenon DEF Said
<1> QED BY <1>11, <1>12, Zenon DEF CharactersExact

-----------------------------------------------------------------------------
(* Characters are typed.                                                    *)

\* The entry of a character behind the others.
SureOf(list) == IF list = <<>> THEN TRUE ELSE Last(list).sure
NewEntry(list, ch) ==
  [code |-> ch.code, bytes |-> ch.bytes, end |-> Total(list) + Len(ch.bytes),
   sure |-> ch.code # Invalid /\ (SureOf(list) \/ Len(ch.bytes) = 1)]

\* What is sent when it is typed.
Sent(sent, ch) ==
  [input |-> sent.input \o ch.bytes, typed |-> Append(sent.typed, NewEntry(sent.typed, ch))]

\* The record that Sending makes.
LEMMA SendingIs ==
  ASSUME NEW sent, NEW ch
  PROVE  /\ Sending(sent, ch) = Sent(sent, ch)
         /\ Sending(sent, ch).input = sent.input \o ch.bytes
         /\ Sending(sent, ch).typed = Append(sent.typed, NewEntry(sent.typed, ch))
<1>1. Sending(sent, ch) = Sent(sent, ch)
  <2>1. CASE sent.typed = <<>>
    BY <2>1, Zenon DEF Sending, Sent, NewEntry, Total, SureOf
  <2>2. CASE ~(sent.typed = <<>>)
    BY <2>2, Zenon DEF Sending, Sent, NewEntry, Total, SureOf
  <2> QED BY <2>1, <2>2, Zenon
<1>2. PICK s, t : s = sent.input \o ch.bytes /\ t = Append(sent.typed, NewEntry(sent.typed, ch))
  OBVIOUS
<1>3. [input |-> s, typed |-> t].input = s /\ [input |-> s, typed |-> t].typed = t
  OBVIOUS
<1>4. Sent(sent, ch) = [input |-> s, typed |-> t]
  BY <1>2, Zenon DEF Sent
<1> QED BY <1>1, <1>2, <1>3, <1>4, Zenon

\* Where the entries end.
LEMMA TotalIs ==
  ASSUME NEW list \in Seq(Entry)
  PROVE  /\ Total(list) \in Nat /\ SureOf(list) \in BOOLEAN
         /\ Len(list) = 0 => Total(list) = 0 /\ SureOf(list)
         /\ Len(list) # 0 => Total(list) = list[Len(list)].end /\ SureOf(list) = list[Len(list)].sure
<1>1. CASE list = <<>>
  <2>1. Len(list) = 0
    BY <1>1
  <2>2. Total(list) = 0 /\ SureOf(list)
    BY <1>1, Zenon DEF Total, SureOf
  <2> QED BY <2>1, <2>2
<1>2. CASE list # <<>>
  <2>1. Len(list) # 0 /\ Last(list) = list[Len(list)] /\ list[Len(list)] \in Entry
    BY <1>2 DEF Last
  <2>2. Total(list) = list[Len(list)].end /\ SureOf(list) = list[Len(list)].sure
    BY <1>2, <2>1, Zenon DEF Total, SureOf
  <2>3. list[Len(list)].end \in Nat /\ list[Len(list)].sure \in BOOLEAN
    BY <2>1 DEF Entry
  <2> QED BY <2>1, <2>2, <2>3, Zenon
<1> QED BY <1>1, <1>2

\* What a new entry is.
EntryAfter(e, list, ch) ==
  /\ e \in Entry /\ IsChar(e) /\ Start(e) = Total(list)
  /\ e.end = Total(list) + Len(ch.bytes) /\ e.bytes = ch.bytes
  /\ Len(ch.bytes) \in 1..4 /\ ch.bytes \in Seq(Byte)
  /\ e.sure => e.code # Invalid /\ (Len(e.bytes) = 1 \/ SureOf(list))

\* The entry of a typed character.
LEMMA NewEntryIs ==
  ASSUME NEW list \in Seq(Entry), NEW ch \in Characters
  PROVE  EntryAfter(NewEntry(list, ch), list, ch)
<1>1. ch \in [code : Int, bytes : Seq(Byte)]
  BY Zenon DEF Characters
<1>2. ch.code \in Int /\ ch.bytes \in Seq(Byte)
  BY <1>1
<1>3. /\ ch.code = Invalid => Len(ch.bytes) = 1 /\ ch.bytes[1] \in Stray
      /\ ch.code # Invalid => OneCharacter(ch.bytes) /\ ch.code = CodePoint(ch.bytes)
  BY Zenon DEF Characters, Stray, OneCharacter
<1>4. Len(ch.bytes) \in 1..4
  <2>1. CASE ch.code = Invalid
    BY <1>3, <2>1
  <2>2. CASE ch.code # Invalid
    <3>1. Shape(ch.bytes)
      BY <1>2, <1>3, <2>2, LegalIs
    <3> QED BY <3>1, Zenon DEF Shape
  <2> QED BY <2>1, <2>2
<1>5. PICK t \in Nat : t = Total(list)
  BY TotalIs
<1>6. PICK e : e = NewEntry(list, ch)
  OBVIOUS
<1>7. /\ e.code = ch.code /\ e.bytes = ch.bytes /\ e.end = t + Len(ch.bytes)
      /\ e.sure = (ch.code # Invalid /\ (SureOf(list) \/ Len(ch.bytes) = 1))
  BY <1>5, <1>6 DEF NewEntry
<1>8. t + Len(ch.bytes) \in Nat /\ (t + Len(ch.bytes)) - Len(ch.bytes) = t
  BY <1>4
<1>9. e \in Entry
  <2>1. e = [code |-> ch.code, bytes |-> ch.bytes, end |-> t + Len(ch.bytes),
             sure |-> ch.code # Invalid /\ (SureOf(list) \/ Len(ch.bytes) = 1)]
    BY <1>5, <1>6, Zenon DEF NewEntry
  <2>2. (ch.code # Invalid /\ (SureOf(list) \/ Len(ch.bytes) = 1)) \in BOOLEAN
    OBVIOUS
  <2> QED BY <1>2, <1>8, <2>1, <2>2 DEF Entry
<1>10. IsChar(e)
  BY <1>3, <1>7, Zenon DEF IsChar
<1>11. Start(e) = t
  BY <1>7, <1>8, Zenon DEF Start
<1>12. e.sure => e.code # Invalid /\ (Len(e.bytes) = 1 \/ SureOf(list))
  BY <1>7, Zenon
<1> QED BY <1>2, <1>4, <1>5, <1>6, <1>7, <1>9, <1>10, <1>11, <1>12, Zenon DEF EntryAfter

\* No entry ends behind the last one.
LEMMA EndsBefore ==
  ASSUME NEW list \in Seq(Entry), Apart(list), \A j \in DOMAIN list : IsChar(list[j]),
         NEW i \in DOMAIN list
  PROVE  list[i].end <= Total(list)
<1>1. PICK n \in Nat : n = Len(list) /\ n # 0 /\ DOMAIN list = 1..n
  OBVIOUS
<1>2. Total(list) = list[n].end
  BY <1>1, TotalIs
<1>3. i \in 1..n /\ n \in 1..n
  BY <1>1
<1>4. list[i] \in Entry /\ list[n] \in Entry /\ IsChar(list[n])
  BY <1>1, <1>3
<1>5. PICK a \in Nat : a = list[i].end
  BY <1>4 DEF Entry
<1>6. PICK m \in 1..4, s \in Int : m = Len(list[n].bytes) /\ s = Start(list[n]) /\ list[n].end = s + m
  BY <1>4, EntryIs
<1>7. i < n => a <= s
  BY <1>1, <1>3, <1>5, <1>6, Zenon DEF Apart
<1>8. i = n => a = s + m
  BY <1>5, <1>6, Zenon
<1>9. a <= s + m
  BY <1>3, <1>7, <1>8
<1> QED BY <1>2, <1>5, <1>6, <1>9, Zenon

\* A list with one more.
Appended(S, list, e) ==
  \E n \in Nat, more \in Seq(S) :
    /\ more = Append(list, e) /\ n = Len(list) /\ Len(more) = n + 1
    /\ DOMAIN list = 1..n /\ DOMAIN more = 1..(n + 1) /\ more[n + 1] = e
    /\ \A j \in 1..n : more[j] = list[j]

\* Append, spelt out.
LEMMA AppendIs == ASSUME NEW S, NEW list \in Seq(S), NEW e \in S PROVE Appended(S, list, e)
<1>1. PICK n \in Nat : n = Len(list) /\ DOMAIN list = 1..n
  OBVIOUS
<1>2. PICK more \in Seq(S) : more = Append(list, e)
  <2>1. Append(list, e) \in Seq(S)
    OBVIOUS
  <2> QED BY <2>1, Zenon
<1>3. Len(more) = n + 1 /\ DOMAIN more = 1..(n + 1) /\ more[n + 1] = e
  BY <1>1, <1>2
<1>4. \A j \in 1..n : more[j] = list[j]
  BY <1>1, <1>2
<1> QED BY <1>1, <1>2, <1>3, <1>4, Zenon DEF Appended

\* Two texts in a row.
Joined(S, s, t) ==
  \E l \in Nat, all \in Seq(S) :
    /\ l = Len(s) /\ all = s \o t /\ Len(all) = l + Len(t)
    /\ \A x \in 1..l : all[x] = s[x]
    /\ \A k \in 1..Len(t) : all[l + k] = t[k]

\* Concatenation, spelt out.
LEMMA ConcatIs == ASSUME NEW S, NEW s \in Seq(S), NEW t \in Seq(S) PROVE Joined(S, s, t)
<1>0. PICK m \in Nat : m = Len(t)
  OBVIOUS
<1>1. PICK l \in Nat : l = Len(s)
  OBVIOUS
<1>2. PICK all \in Seq(S) : all = s \o t
  <2>1. s \o t \in Seq(S)
    OBVIOUS
  <2> QED BY <2>1, Zenon
<1>3. Len(all) = l + m
  BY <1>0, <1>1, <1>2
<1>4. \A x \in 1..l : all[x] = s[x]
  BY <1>1, <1>2
<1>5. \A k \in 1..m : all[l + k] = t[k]
  <2>1. ASSUME NEW k \in 1..m PROVE all[l + k] = t[k]
    <3>1. l + k \in 1..(l + m) /\ l + k > l /\ (l + k) - l = k
      OBVIOUS
    <3> QED BY <1>0, <1>1, <1>2, <3>1
  <2> QED BY <2>1
<1> QED BY <1>0, <1>1, <1>2, <1>3, <1>4, <1>5, Zenon DEF Joined

\* A member of a range is a number.
LEMMA RangeInt == ASSUME NEW m, NEW k \in 1..m PROVE k \in Int
OBVIOUS

\* The place of a byte in what is sent.
LEMMA PlaceIs ==
  ASSUME NEW a \in Nat, NEW l \in Nat, NEW t \in Nat, NEW k \in Int, a + l = t
  PROVE  t + k - a = l + k
OBVIOUS

\* All that was typed is read or under way.
Complete(sent, list) == Sound(sent, list) /\ read + Len(sent) = Total(list)

\* It stays so when a character is typed.
LEMMA GrowsComplete ==
  ASSUME NEW sent, NEW list, NEW e, NEW ch, Complete(sent, list), EntryAfter(e, list, ch)
  PROVE  Complete(sent \o ch.bytes, Append(list, e))
<1>1. /\ sent \in Seq(Byte) /\ list \in Seq(Entry) /\ read \in Nat
      /\ \A k \in DOMAIN list : IsChar(list[k]) /\ Follows(list, k)
      /\ Apart(list) /\ Covered(list) /\ Arriving(sent, list)
      /\ read + Len(sent) = Total(list)
  BY Zenon DEF Complete, Sound
<1>2. /\ e \in Entry /\ IsChar(e) /\ Start(e) = Total(list) /\ e.bytes = ch.bytes
      /\ ch.bytes \in Seq(Byte)
      /\ e.sure => e.code # Invalid /\ (Len(e.bytes) = 1 \/ SureOf(list))
  BY Zenon DEF EntryAfter
<1>3. PICK t \in Nat, m \in 1..4 : t = Total(list) /\ m = Len(ch.bytes) /\ e.end = t + m
  <2>1. Total(list) \in Nat
    BY <1>1, TotalIs
  <2>2. Len(ch.bytes) \in 1..4 /\ e.end = Total(list) + Len(ch.bytes)
    BY Zenon DEF EntryAfter
  <2> QED BY <2>1, <2>2
<1>4. PICK n \in Nat, more \in Seq(Entry) :
        /\ more = Append(list, e) /\ n = Len(list) /\ Len(more) = n + 1
        /\ DOMAIN list = 1..n /\ DOMAIN more = 1..(n + 1) /\ more[n + 1] = e
        /\ \A j \in 1..n : more[j] = list[j]
  <2>1. Appended(Entry, list, e)
    BY <1>1, <1>2, AppendIs
  <2> QED BY <2>1, Zenon DEF Appended
<1>5. /\ \A j \in 1..(n + 1) : j \in 1..n \/ j = n + 1
      /\ \A j \in 1..n : j \in 1..(n + 1) /\ j # n + 1
      /\ n + 1 \in 1..(n + 1) /\ (n + 1) - 1 = n /\ n + 1 # 0
      /\ \A j \in 1..n : j = 1 \/ j - 1 \in 1..n
      /\ n # 0 => n \in 1..n
      /\ n + 1 = 1 => n = 0
      /\ \A i, j \in 1..(n + 1) : i < j => i \in 1..n
  OBVIOUS
<1>6. Total(more) = t + m
  <2>1. Len(more) # 0 /\ more[Len(more)].end = t + m
    BY <1>3, <1>4, <1>5, Zenon
  <2> QED BY <2>1, TotalIs, Zenon
<1>7. ASSUME NEW j \in 1..(n + 1) PROVE IsChar(more[j]) /\ Follows(more, j)
  <2>1. CASE j \in 1..n
    <3>1. IsChar(list[j]) /\ Follows(list, j) /\ more[j] = list[j]
      BY <1>1, <1>4, <2>1, Zenon
    <3>2. j = 1 \/ more[j - 1] = list[j - 1]
      BY <1>4, <1>5, <2>1, Zenon
    <3> QED BY <3>1, <3>2, Zenon DEF Follows
  <2>2. CASE j = n + 1
    <3>1. Start(e) = (IF n + 1 = 1 THEN 0 ELSE more[(n + 1) - 1].end)
      <4>1. CASE n = 0
        <5>1. n + 1 = 1
          BY <4>1
        <5>2. Total(list) = 0
          BY <1>1, <1>4, <4>1, TotalIs, Zenon
        <5> QED BY <1>2, <5>1, <5>2, Zenon
      <4>2. CASE n # 0
        <5>1. Total(list) = list[n].end /\ more[n] = list[n] /\ n + 1 # 1
          BY <1>1, <1>4, <1>5, <4>2, TotalIs, Zenon
        <5> QED BY <1>2, <1>5, <5>1, Zenon
      <4> QED BY <4>1, <4>2
    <3>2. e.sure => Len(e.bytes) = 1 \/ n + 1 = 1 \/ more[(n + 1) - 1].sure
      <4>1. CASE n = 0
        BY <4>1
      <4>2. CASE n # 0
        <5>1. SureOf(list) = list[n].sure /\ more[n] = list[n]
          BY <1>1, <1>4, <1>5, <4>2, TotalIs, Zenon
        <5> QED BY <1>2, <1>5, <5>1, Zenon
      <4> QED BY <4>1, <4>2
    <3>3. Follows(more, n + 1)
      BY <1>2, <1>4, <3>1, <3>2, Zenon DEF Follows
    <3> QED BY <1>2, <1>4, <2>2, <3>3, Zenon
  <2> QED BY <1>5, <2>1, <2>2
<1>8. Apart(more)
  <2>1. ASSUME NEW i \in 1..(n + 1), NEW j \in 1..(n + 1), i < j
        PROVE  more[i].end <= Start(more[j])
    <3>1. i \in 1..n /\ more[i] = list[i]
      BY <1>4, <1>5, <2>1, Zenon
    <3>2. CASE j \in 1..n
      BY <1>1, <1>4, <2>1, <3>1, <3>2, Zenon DEF Apart
    <3>3. CASE j = n + 1
      <4>1. list[i].end <= Total(list)
        BY <1>1, <1>4, <3>1, EndsBefore, Zenon
      <4> QED BY <1>2, <1>4, <3>1, <3>3, <4>1, Zenon
    <3> QED BY <1>5, <3>2, <3>3
  <2> QED BY <1>4, <2>1, Zenon DEF Apart
<1>9. Covered(more)
  <2>1. ASSUME NEW p \in 1..(t + m)
        PROVE  \E j \in 1..(n + 1) : Start(more[j]) < p /\ p <= more[j].end
    <3>1. CASE p \in 1..t
      <4>1. PICK j \in 1..n : Start(list[j]) < p /\ p <= list[j].end
        BY <1>1, <1>3, <1>4, <3>1, Zenon DEF Covered
      <4> QED BY <1>4, <1>5, <4>1, Zenon
    <3>2. CASE ~(p \in 1..t)
      <4>1. t < p /\ p <= t + m
        BY <3>2
      <4>2. Start(e) < p /\ p <= e.end
        BY <1>2, <1>3, <4>1, Zenon
      <4> QED BY <1>4, <1>5, <4>2, Zenon
    <3> QED BY <3>1, <3>2
  <2> QED BY <1>4, <1>6, <2>1, Zenon DEF Covered
<1>10. PICK l \in Nat, all \in Seq(Byte) :
         /\ l = Len(sent) /\ read + l = t /\ all = sent \o ch.bytes /\ Len(all) = l + m
         /\ \A x \in 1..l : all[x] = sent[x]
         /\ \A k \in 1..m : all[l + k] = ch.bytes[k]
  <2>1. PICK l \in Nat, all \in Seq(Byte) :
          /\ l = Len(sent) /\ all = sent \o ch.bytes /\ Len(all) = l + m
          /\ \A x \in 1..l : all[x] = sent[x]
          /\ \A k \in 1..m : all[l + k] = ch.bytes[k]
    <3>1. Joined(Byte, sent, ch.bytes)
      BY <1>1, <1>2, ConcatIs
    <3> QED BY <1>3, <3>1, Zenon DEF Joined
  <2>2. read + l = t
    BY <1>1, <1>3, <2>1, Zenon
  <2> QED BY <2>1, <2>2, Zenon
<1>11. Arriving(all, more)
  <2>1. ASSUME NEW j \in 1..(n + 1), NEW k \in 1..Len(more[j].bytes),
               Start(more[j]) + k - read \in 1..Len(all)
        PROVE  all[Start(more[j]) + k - read] = more[j].bytes[k]
    <3>1. CASE j \in 1..n
      <4>1. more[j] = list[j] /\ list[j] \in Entry /\ IsChar(list[j])
        BY <1>1, <1>4, <3>1
      <4>2. PICK q \in 1..4, s \in Int :
              q = Len(list[j].bytes) /\ s = Start(list[j]) /\ list[j].end = s + q
        BY <4>1, EntryIs
      <4>3. s + q <= t
        <5>1. list[j].end <= Total(list)
          BY <1>1, <1>4, <3>1, EndsBefore, Zenon
        <5> QED BY <1>3, <4>2, <5>1, Zenon
      <4>4. s + k - read \in 1..(l + m) /\ k \in 1..q
        BY <1>10, <2>1, <4>1, <4>2, Zenon
      <4>5. s + k - read \in 1..l
        <5>1. PICK a \in Nat : a = read
          BY <1>1, Zenon
        <5>2. a + l = t /\ s + k - a \in 1..(l + m) /\ k \in 1..q
          BY <1>10, <4>4, <5>1, Zenon
        <5>3. s + k - a \in 1..l
          BY <4>3, <5>2
        <5> QED BY <5>1, <5>3, Zenon
      <4>6. sent[s + k - read] = list[j].bytes[k]
        BY <1>1, <1>4, <1>10, <3>1, <4>2, <4>4, <4>5, Zenon DEF Arriving
      <4> QED BY <1>10, <4>1, <4>2, <4>5, <4>6, Zenon
    <3>2. CASE j = n + 1
      <4>1. more[j] = e /\ k \in 1..m
        BY <1>2, <1>3, <1>4, <2>1, <3>2, Zenon
      <4>2. t + k - read = l + k
        <5>1. k \in Int
          <6>1. k \in 1..m
            BY <4>1, Zenon
          <6> QED BY <6>1, RangeInt, Zenon
        <5>2. PICK a \in Nat : a = read
          BY <1>1, Zenon
        <5>3. a + l = t
          BY <1>10, <5>2, Zenon
        <5>4. t + k - a = l + k
          BY <5>1, <5>3, PlaceIs
        <5> QED BY <5>2, <5>4, Zenon
      <4>3. all[l + k] = e.bytes[k] /\ Start(e) = t
        BY <1>2, <1>3, <1>10, <4>1, Zenon
      <4> QED BY <4>1, <4>2, <4>3, Zenon
    <3> QED BY <1>5, <3>1, <3>2
  <2> QED BY <1>4, <2>1, Zenon DEF Arriving
<1>12. read + (l + m) = t + m /\ read + (l + m) <= t + m
  BY <1>1, <1>10
<1>13. Sound(all, more)
  <2>1. read + Len(all) <= Total(more)
    BY <1>6, <1>10, <1>12, Zenon
  <2> QED BY <1>1, <1>4, <1>7, <1>8, <1>9, <1>11, <2>1, Zenon DEF Sound
<1>14. read + Len(all) = Total(more)
  BY <1>6, <1>10, <1>12, Zenon
<1> QED BY <1>4, <1>10, <1>13, <1>14, Zenon DEF Complete

\* The entries of an earlier list, and others behind them.
Extends(old, list) ==
  /\ \A j \in DOMAIN old : j \in DOMAIN list /\ list[j] = old[j]
  /\ \A j \in DOMAIN list : j \notin DOMAIN old => Total(old) <= Start(list[j])
  /\ Total(old) <= Total(list)

\* It stays so when a character is typed.
LEMMA GrowsExtends ==
  ASSUME NEW old \in Seq(Entry), NEW list \in Seq(Entry), NEW e, NEW ch,
         EntryAfter(e, list, ch), Extends(old, list)
  PROVE  Extends(old, Append(list, e))
<1>1. e \in Entry /\ Start(e) = Total(list) /\ e.end = Total(list) + Len(ch.bytes)
      /\ Len(ch.bytes) \in 1..4
  BY Zenon DEF EntryAfter
<1>2. PICK n \in Nat, more \in Seq(Entry) :
        /\ more = Append(list, e) /\ n = Len(list) /\ Len(more) = n + 1
        /\ DOMAIN list = 1..n /\ DOMAIN more = 1..(n + 1) /\ more[n + 1] = e
        /\ \A j \in 1..n : more[j] = list[j]
  <2>1. Appended(Entry, list, e)
    BY <1>1, AppendIs
  <2> QED BY <2>1, Zenon DEF Appended
<1>3. /\ \A j \in 1..(n + 1) : j \in 1..n \/ j = n + 1
      /\ \A j \in 1..n : j \in 1..(n + 1)
      /\ n + 1 # 0
  OBVIOUS
<1>4. PICK t \in Nat, o \in Nat, m \in 1..4 : t = Total(list) /\ o = Total(old) /\ m = Len(ch.bytes)
  <2>1. Total(list) \in Nat /\ Total(old) \in Nat
    BY TotalIs
  <2> QED BY <1>1, <2>1
<1>5. o <= t
  BY <1>4, Zenon DEF Extends
<1>6. Total(more) = t + m
  <2>1. Len(more) # 0 /\ more[Len(more)].end = t + m
    BY <1>1, <1>2, <1>3, <1>4, Zenon
  <2> QED BY <2>1, TotalIs, Zenon
<1>7. o <= t + m
  BY <1>5
<1>8. Total(old) <= Total(more)
  BY <1>4, <1>6, <1>7, Zenon
<1>9. \A j \in DOMAIN old : j \in DOMAIN more /\ more[j] = old[j]
  BY <1>2, <1>3, Zenon DEF Extends
<1>10. ASSUME NEW j \in DOMAIN more, j \notin DOMAIN old PROVE Total(old) <= Start(more[j])
  <2>1. CASE j \in 1..n
    BY <1>2, <1>10, <2>1, Zenon DEF Extends
  <2>2. CASE j = n + 1
    BY <1>1, <1>2, <1>4, <1>5, <2>2, Zenon
  <2> QED BY <1>2, <1>3, <2>1, <2>2, Zenon
<1>11. Extends(old, more)
  BY <1>8, <1>9, <1>10, Zenon DEF Extends
<1> QED BY <1>2, <1>11, Zenon

\* What has been sent at some point of a unit.
State == [input : Seq(Byte), typed : Seq(Entry)]
Reached(first, st) ==
  st \in State /\ Complete(st.input, st.typed) /\ Extends(first, st.typed)

\* Typing a character leads to such a point.
LEMMA SendingStays ==
  ASSUME NEW st \in State, NEW ch \in Characters
  PROVE  Sending(st, ch) \in State /\ EntryAfter(NewEntry(st.typed, ch), st.typed, ch)
<1>1. st.input \in Seq(Byte) /\ st.typed \in Seq(Entry)
  BY DEF State
<1>2. EntryAfter(NewEntry(st.typed, ch), st.typed, ch)
  BY <1>1, NewEntryIs
<1>3. NewEntry(st.typed, ch) \in Entry /\ ch.bytes \in Seq(Byte)
  BY <1>2, Zenon DEF EntryAfter
<1>4. PICK s \in Seq(Byte) : s = st.input \o ch.bytes
  <2>1. st.input \o ch.bytes \in Seq(Byte)
    BY <1>1, <1>3
  <2> QED BY <2>1, Zenon
<1>5. PICK l \in Seq(Entry) : l = Append(st.typed, NewEntry(st.typed, ch))
  <2>1. Append(st.typed, NewEntry(st.typed, ch)) \in Seq(Entry)
    BY <1>1, <1>3
  <2> QED BY <2>1, Zenon
<1>6. Sending(st, ch) = [input |-> s, typed |-> l]
  BY <1>4, <1>5, SendingIs, Zenon DEF Sent
<1>7. [input |-> s, typed |-> l] \in State
  BY DEF State
<1> QED BY <1>2, <1>6, <1>7, Zenon

\* And all of it is accounted for.
LEMMA SendingReaches ==
  ASSUME NEW first \in Seq(Entry), NEW st, NEW ch \in Characters, Reached(first, st)
  PROVE  Reached(first, Sending(st, ch))
<1>1. st \in State /\ Complete(st.input, st.typed) /\ Extends(first, st.typed)
  BY Zenon DEF Reached
<1>2. PICK e : e = NewEntry(st.typed, ch)
  OBVIOUS
<1>3. Sending(st, ch) \in State /\ EntryAfter(e, st.typed, ch)
  BY <1>1, <1>2, SendingStays, Zenon
<1>4. Complete(st.input \o ch.bytes, Append(st.typed, e))
  BY <1>1, <1>3, GrowsComplete
<1>5. Extends(first, Append(st.typed, e))
  <2>1. st.typed \in Seq(Entry)
    BY <1>1 DEF State
  <2> QED BY <1>1, <1>3, <2>1, GrowsExtends
<1>6. Sending(st, ch).input = st.input \o ch.bytes /\ Sending(st, ch).typed = Append(st.typed, e)
  BY <1>2, SendingIs, Zenon
<1> QED BY <1>3, <1>4, <1>5, <1>6, Zenon DEF Reached

\* A unit is sent character by character.
Steps(f, list) ==
  /\ f[0] = [input |-> input, typed |-> typed]
  /\ \A i \in 1..Len(list) : f[i] = Sending(f[i - 1], list[i])

\* The characters of a unit are sent one after the other.
LEMMA StepsOfUnit ==
  ASSUME NEW u, u.chars \in Seq(Characters), input \in Seq(Byte), typed \in Seq(Entry), Type(u)
  PROVE  \E f : Steps(f, u.chars) /\ input' = f[Len(u.chars)].input
                /\ typed' = f[Len(u.chars)].typed
<1>1. PICK N \in Nat : N = Len(u.chars)
  OBVIOUS
<1>2. PICK s \in State : s = [input |-> input, typed |-> typed]
  <2>1. [input |-> input, typed |-> typed] \in State
    BY DEF State
  <2> QED BY <2>1, Zenon
<1> DEFINE Step(k) == [m \in State |-> IF k \in 1..N THEN Sending(m, u.chars[k]) ELSE m]
           step == [k \in Nat |-> Step(k)]
<1>3. step \in [Nat -> [State -> State]]
  <2>1. ASSUME NEW k \in Nat, NEW m \in State
        PROVE  (IF k \in 1..N THEN Sending(m, u.chars[k]) ELSE m) \in State
    <3>1. CASE k \in 1..N
      <4>1. u.chars[k] \in Characters
        BY <1>1, <3>1
      <4> QED BY <3>1, <4>1, SendingStays, Zenon
    <3>2. CASE ~(k \in 1..N)
      BY <3>2, Zenon
    <3> QED BY <3>1, <3>2
  <2>2. ASSUME NEW k \in Nat PROVE Step(k) \in [State -> State]
    BY <2>1, Zenon
  <2> QED BY <2>2, Zenon
<1>4. ASSUME NEW k \in 1..N, NEW m \in State PROVE step[k][m] = Sending(m, u.chars[k])
  <2>1. k \in Nat
    OBVIOUS
  <2> QED BY <2>1, Zenon
<1> HIDE DEF step
<1>5. PICK f \in [0..N -> State] : f[0] = s /\ \A k \in 1..N : f[k] = step[k][f[k - 1]]
  <2>1. Stepped(State, s, step, N)
    BY <1>3, StepsExist
  <2> QED BY <2>1, Zenon DEF Stepped
<1>6. ASSUME NEW k \in 1..N PROVE f[k] = Sending(f[k - 1], u.chars[k])
  <2>1. k - 1 \in 0..N
    OBVIOUS
  <2>2. f[k - 1] \in State
    BY <2>1
  <2> QED BY <1>4, <1>5, <2>2, Zenon
<1> DEFINE sent[i \in 0..Len(u.chars)] ==
             IF i = 0 THEN [input |-> input, typed |-> typed] ELSE Sending(sent[i - 1], u.chars[i])
<1>7. \E g : g = [i \in 0..Len(u.chars) |->
                   IF i = 0 THEN [input |-> input, typed |-> typed]
                   ELSE Sending(g[i - 1], u.chars[i])]
  <2>1. ASSUME NEW i \in 0..N
        PROVE  f[i] = IF i = 0 THEN s ELSE Sending(f[i - 1], u.chars[i])
    <3>1. i = 0 \/ i \in 1..N
      OBVIOUS
    <3> QED BY <1>5, <1>6, <3>1, Zenon
  <2>2. f = [i \in 0..N |-> f[i]]
    OBVIOUS
  <2>3. f = [i \in 0..N |-> IF i = 0 THEN s ELSE Sending(f[i - 1], u.chars[i])]
    BY <2>1, <2>2, Zenon
  <2> QED BY <1>1, <1>2, <2>3, Zenon
<1>8. sent = [i \in 0..Len(u.chars) |->
               IF i = 0 THEN [input |-> input, typed |-> typed]
               ELSE Sending(sent[i - 1], u.chars[i])]
  BY <1>7, Zenon
<1>9. input' = sent[Len(u.chars)].input /\ typed' = sent[Len(u.chars)].typed
  BY Zenon DEF Type
<1> HIDE DEF sent
<1>10. Steps(sent, u.chars)
  <2>1. 0 \in 0..N /\ \A i \in 1..N : i \in 0..N /\ i # 0
    OBVIOUS
  <2>2. sent[0] = [input |-> input, typed |-> typed]
    BY <1>1, <1>8, <2>1, Zenon
  <2>3. ASSUME NEW i \in 1..Len(u.chars) PROVE sent[i] = Sending(sent[i - 1], u.chars[i])
    BY <1>1, <1>8, <2>1, <2>3, Zenon
  <2> QED BY <2>2, <2>3, Zenon DEF Steps
<1> QED BY <1>9, <1>10

-----------------------------------------------------------------------------
(* The reader's invariant.                                                  *)

\* The bytes under way are those of the characters that were typed, all of them
\* until the terminal goes away; what is kept is the beginning of the character
\* that is being read, or the reader is stuck; and what was read is exact.
ReaderInv ==
  /\ Sound(input, typed) /\ KeptInv /\ SureInv
  /\ CharactersExact /\ chars \in Seq([code : Int, end : Nat])
  /\ ~hungUp => Complete(input, typed)

\* Nothing is typed and nothing read at first.
LEMMA ReaderInit == ASSUME Init PROVE ReaderInv
<1>1. /\ input = <<>> /\ typed = <<>> /\ utf8 = <<>> /\ read = 0 /\ chars = <<>>
  BY DEF Init
<1>2. /\ DOMAIN typed = {} /\ DOMAIN chars = {} /\ Len(input) = 0 /\ 0 + 0 = 0 /\ 0 <= 0
      /\ 1..0 = {} /\ typed \in Seq(Entry) /\ input \in Seq(Byte)
      /\ chars \in Seq([code : Int, end : Nat]) /\ 0 \in Nat
  BY <1>1
<1>3. Total(typed) = 0
  BY <1>1, Zenon DEF Total
<1>4. Apart(typed) /\ Covered(typed) /\ Arriving(input, typed)
  BY <1>2, <1>3, Zenon DEF Apart, Covered, Arriving
<1>5. Sound(input, typed)
  BY <1>1, <1>2, <1>3, <1>4, Zenon DEF Sound
<1>6. KeptInv /\ SureInv /\ CharactersExact
  BY <1>1, <1>2, Zenon DEF KeptInv, SureInv, CharactersExact
<1>7. Complete(input, typed)
  BY <1>1, <1>2, <1>3, <1>5, Zenon DEF Complete
<1> QED BY <1>2, <1>5, <1>6, <1>7, Zenon DEF ReaderInv

\* A byte that is read.
LEMMA ReadKeeps == ASSUME ReaderInv, input # <<>>, ReadByte PROVE ReaderInv'
<1>1. /\ Sound(input, typed) /\ KeptInv /\ SureInv /\ CharactersExact
      /\ chars \in Seq([code : Int, end : Nat]) /\ (~hungUp => Complete(input, typed))
  BY Zenon DEF ReaderInv
<1>2. PICK r : r = Reader(Head(input))
  OBVIOUS
<1>3. /\ utf8' = r.utf8 /\ input' = Tail(input) /\ read' = read + 1 /\ typed' = typed
      /\ hungUp' = hungUp
      /\ chars' = IF r.char > 0 THEN Append(chars, [code |-> r.char, end |-> read + 1]) ELSE chars
  BY <1>2, Zenon DEF ReadByte, NextChar, ghosts
<1>4. PICK j \in DOMAIN typed : Outcome(typed[j], r)
  BY <1>1, <1>2, ReaderOutcome
<1>5. KeptInv' /\ SureInv'
  BY <1>1, <1>3, <1>4, ReaderKeepsTrack
<1>6. Sound(input, typed)'
  BY <1>1, <1>3, ReaderStaysSound
<1>7. CharactersExact'
  BY <1>1, <1>3, <1>4, ReaderStaysExact
<1>8. chars' \in Seq([code : Int, end : Nat])
  <2>1. read \in Nat /\ typed \in Seq(Entry)
    BY <1>1, Zenon DEF Sound
  <2>2. CASE r.char > 0
    <3>1. r.char # NoChar
      BY <2>2 DEF NoChar
    <3>2. PICK c \in Nat : c = r.char
      BY <1>4, <3>1, Zenon DEF Outcome, Completes, Continues, Loses
    <3>3. [code |-> c, end |-> read + 1] \in [code : Int, end : Nat]
      BY <2>1
    <3>4. Append(chars, [code |-> c, end |-> read + 1]) \in Seq([code : Int, end : Nat])
      BY <1>1, <3>3
    <3> QED BY <1>3, <2>2, <3>2, <3>4, Zenon
  <2>3. CASE ~(r.char > 0)
    BY <1>1, <1>3, <2>3, Zenon
  <2> QED BY <2>2, <2>3
<1>9. ASSUME ~hungUp' PROVE Complete(input, typed)'
  <2>1. read + Len(input) = Total(typed) /\ read \in Nat /\ input \in Seq(Byte)
    BY <1>1, <1>3, <1>9, Zenon DEF Complete, Sound
  <2>2. PICK l \in Nat : l = Len(Tail(input)) /\ Len(input) = l + 1
    BY <2>1
  <2>3. read + (l + 1) = (read + 1) + l
    BY <2>1
  <2>4. read' + Len(input') = Total(typed')
    BY <1>3, <2>1, <2>2, <2>3, Zenon
  <2> QED BY <1>6, <2>4, Zenon DEF Complete
<1> QED BY <1>5, <1>6, <1>7, <1>8, <1>9, Zenon DEF ReaderInv

\* A unit that is typed.
LEMMA TypeKeeps == ASSUME ReaderInv, NEW u \in Units, Type(u) PROVE ReaderInv'
<1>1. /\ Sound(input, typed) /\ KeptInv /\ SureInv /\ CharactersExact
      /\ chars \in Seq([code : Int, end : Nat])
  BY Zenon DEF ReaderInv
<1>2. /\ input \in Seq(Byte) /\ typed \in Seq(Entry) /\ read \in Nat
      /\ read + Len(input) <= Total(typed) /\ \A k \in DOMAIN typed : IsChar(typed[k])
  BY <1>1, Zenon DEF Sound
<1>3. Complete(input, typed)
  BY Zenon DEF ReaderInv, Type
<1>4. read' = read /\ utf8' = utf8 /\ chars' = chars
  BY Zenon DEF Type
<1>5. u.chars \in Seq(Characters)
  BY TerminalInputAssumption
<1>6. PICK f : /\ Steps(f, u.chars) /\ input' = f[Len(u.chars)].input
               /\ typed' = f[Len(u.chars)].typed
  BY <1>2, <1>5, StepsOfUnit
<1>7. PICK N \in Nat : N = Len(u.chars)
  BY <1>5
<1>8. Reached(typed, f[N])
  <2> DEFINE P == {n \in Nat : n \in 0..N => Reached(typed, f[n])}
  <2>1. 0 \in P
    <3>1. PICK s \in State : s = [input |-> input, typed |-> typed] /\ s.input = input /\ s.typed = typed
      <4>1. /\ [input |-> input, typed |-> typed] \in State
            /\ [input |-> input, typed |-> typed].input = input
            /\ [input |-> input, typed |-> typed].typed = typed
        BY <1>2 DEF State
      <4> QED BY <4>1, Zenon
    <3>2. Total(typed) <= Total(typed)
      <4>1. PICK t \in Nat : t = Total(typed)
        BY <1>2, TotalIs
      <4>2. t <= t
        OBVIOUS
      <4> QED BY <4>1, <4>2, Zenon
    <3>3. Extends(typed, typed)
      BY <3>2, Zenon DEF Extends
    <3>4. Reached(typed, f[0])
      BY <1>3, <1>6, <3>1, <3>3, Zenon DEF Reached, Steps
    <3>5. 0 \in Nat
      OBVIOUS
    <3> QED BY <3>4, <3>5
  <2>2. ASSUME NEW n \in Nat, n \in P PROVE n + 1 \in P
    <3>1. ASSUME n + 1 \in 0..N PROVE Reached(typed, f[n + 1])
      <4>1. n \in 0..N /\ n + 1 \in 1..N /\ (n + 1) - 1 = n
        BY <3>1
      <4>2. Reached(typed, f[n])
        BY <2>2, <4>1
      <4>3. u.chars[n + 1] \in Characters
        BY <1>5, <1>7, <4>1
      <4>4. f[n + 1] = Sending(f[n], u.chars[n + 1])
        BY <1>6, <1>7, <4>1, Zenon DEF Steps
      <4>5. Reached(typed, Sending(f[n], u.chars[n + 1]))
        BY <1>2, <4>2, <4>3, SendingReaches
      <4> QED BY <4>4, <4>5, Zenon
    <3>2. n + 1 \in Nat
      OBVIOUS
    <3> QED BY <3>1, <3>2
  <2> HIDE DEF P
  <2>3. N \in P
    BY <2>1, <2>2, Successors
  <2>4. N \in 0..N
    OBVIOUS
  <2> QED BY <2>3, <2>4 DEF P
<1>9. /\ Complete(input', typed') /\ Extends(typed, typed')
  BY <1>6, <1>7, <1>8, Zenon DEF Reached
<1>10. Complete(input, typed)'
  BY <1>4, <1>9, Zenon DEF Complete, Sound, Arriving
<1>11. Sound(input, typed)'
  BY <1>10, Zenon DEF Complete
<1>12. \A j \in DOMAIN typed : j \in DOMAIN typed' /\ typed'[j] = typed[j]
  BY <1>9, Zenon DEF Extends
<1>13. KeptInv'
  <2>1. CASE utf8 = <<>> \/ Broken(utf8)
    BY <1>4, <2>1, Zenon DEF KeptInv
  <2>2. CASE \E j \in DOMAIN typed : Partial(typed[j], utf8, read)
    <3>1. PICK j \in DOMAIN typed : Partial(typed[j], utf8, read)
      BY <2>2, Zenon
    <3>2. j \in DOMAIN typed' /\ Partial(typed'[j], utf8', read')
      BY <1>4, <1>12, <3>1, Zenon
    <3> QED BY <3>2, Zenon DEF KeptInv
  <2> QED BY <1>1, <2>1, <2>2, Zenon DEF KeptInv
<1>14. ASSUME NEW j \in DOMAIN typed', j \notin DOMAIN typed
       PROVE  /\ typed'[j].end # read /\ ~(typed'[j].end <= read) /\ ~(Start(typed'[j]) < read)
  <2>1. PICK n \in 1..4, s \in Int :
          n = Len(typed'[j].bytes) /\ s = Start(typed'[j]) /\ typed'[j].end = s + n
    <3>1. typed'[j] \in Entry /\ IsChar(typed'[j])
      <4>1. typed' \in Seq(Entry) /\ \A k \in DOMAIN typed' : IsChar(typed'[k])
        BY <1>11, Zenon DEF Sound
      <4> QED BY <4>1
    <3> QED BY <3>1, EntryIs
  <2>2. PICK t \in Nat, l \in Nat : t = Total(typed) /\ l = Len(input)
    <3>1. Total(typed) \in Nat
      BY <1>2, TotalIs
    <3> QED BY <1>2, <3>1
  <2>3. t <= s
    BY <1>9, <1>14, <2>1, <2>2, Zenon DEF Extends
  <2>4. read + l <= t
    BY <1>2, <2>2, Zenon
  <2>5. s + n # read /\ ~(s + n <= read) /\ ~(s < read)
    BY <1>2, <2>3, <2>4
  <2> QED BY <2>1, <2>5, Zenon
<1>15. SureInv'
  BY <1>1, <1>4, <1>12, <1>14, Zenon DEF SureInv
<1>16. CharactersExact'
  <2>1. \A i \in DOMAIN chars : \E k \in DOMAIN typed' :
          typed'[k].code = chars[i].code /\ typed'[k].end = chars[i].end
    <3>1. SUFFICES ASSUME NEW i \in DOMAIN chars
                   PROVE  \E k \in DOMAIN typed' :
                            typed'[k].code = chars[i].code /\ typed'[k].end = chars[i].end
      OBVIOUS
    <3>2. PICK k \in DOMAIN typed : typed[k].code = chars[i].code /\ typed[k].end = chars[i].end
      BY <1>1, Zenon DEF CharactersExact
    <3> QED BY <1>12, <3>2, Zenon
  <2>2. \A k \in DOMAIN typed' : typed'[k].sure /\ typed'[k].end <= read /\ typed'[k].code # 0 =>
          \E i \in DOMAIN chars : chars[i].code = typed'[k].code /\ chars[i].end = typed'[k].end
    <3>1. SUFFICES ASSUME NEW k \in DOMAIN typed', typed'[k].sure, typed'[k].end <= read,
                          typed'[k].code # 0
                   PROVE  \E i \in DOMAIN chars :
                            chars[i].code = typed'[k].code /\ chars[i].end = typed'[k].end
      OBVIOUS
    <3>2. k \in DOMAIN typed
      BY <1>14, <3>1, Zenon
    <3>3. typed'[k] = typed[k]
      BY <1>12, <3>2, Zenon
    <3>4. typed[k].sure /\ typed[k].end <= read /\ typed[k].code # 0
      BY <3>1, <3>3, Zenon
    <3>5. PICK i \in DOMAIN chars :
            chars[i].code = typed[k].code /\ chars[i].end = typed[k].end
      BY <1>1, <3>2, <3>4, Zenon DEF CharactersExact
    <3> QED BY <3>3, <3>5, Zenon
  <2> QED BY <1>4, <2>1, <2>2, Zenon DEF CharactersExact
<1> QED BY <1>1, <1>4, <1>10, <1>11, <1>13, <1>15, <1>16, Zenon DEF ReaderInv

\* The terminal goes away.
LEMMA HangUpKeeps == ASSUME ReaderInv, NEW n \in 0..Len(input), HangUp(n) PROVE ReaderInv'
<1>1. /\ Sound(input, typed) /\ KeptInv /\ SureInv /\ CharactersExact
      /\ chars \in Seq([code : Int, end : Nat])
  BY Zenon DEF ReaderInv
<1>2. /\ input \in Seq(Byte) /\ typed \in Seq(Entry) /\ read \in Nat
      /\ \A k \in DOMAIN typed : IsChar(typed[k]) /\ Follows(typed, k)
      /\ Apart(typed) /\ Covered(typed) /\ Arriving(input, typed)
      /\ read + Len(input) <= Total(typed)
  BY <1>1, Zenon DEF Sound
<1>3. /\ read' = read /\ utf8' = utf8 /\ chars' = chars /\ typed' = typed /\ hungUp' = TRUE
      /\ input' = SubSeq(input, 1, n)
  BY Zenon DEF HangUp
<1>4. PICK l \in Nat, part \in Seq(Byte) :
        /\ l = Len(input) /\ part = SubSeq(input, 1, n) /\ Len(part) = n /\ n <= l /\ n \in Nat
        /\ \A x \in 1..n : part[x] = input[x] /\ x \in 1..l
  <2>1. PICK l \in Nat : l = Len(input)
    BY <1>2
  <2>2. PICK part \in Seq(Byte) : part = SubSeq(input, 1, n)
    <3>1. SubSeq(input, 1, n) \in Seq(Byte)
      BY <1>2, <2>1
    <3> QED BY <3>1, Zenon
  <2>3. n \in Nat /\ n <= l
    BY <2>1
  <2>4. Len(part) = n
    BY <1>2, <2>1, <2>2, <2>3
  <2>5. \A x \in 1..n : part[x] = input[x] /\ x \in 1..l
    BY <1>2, <2>1, <2>2, <2>3
  <2> QED BY <2>1, <2>2, <2>3, <2>4, <2>5, Zenon
<1>5. Arriving(part, typed)
  BY <1>2, <1>4, Zenon DEF Arriving
<1>6. PICK t \in Nat : t = Total(typed)
  BY <1>2, TotalIs
<1>7. read + n <= t
  <2>1. read + l <= t
    BY <1>2, <1>4, <1>6, Zenon
  <2> QED BY <1>2, <1>4, <2>1
<1>8. Sound(part, typed)
  BY <1>2, <1>4, <1>5, <1>6, <1>7, Zenon DEF Sound
<1>9. Sound(input, typed)'
  BY <1>3, <1>4, <1>8, Zenon DEF Sound, Arriving
<1>10. KeptInv' /\ SureInv' /\ CharactersExact'
  BY <1>1, <1>3, Zenon DEF KeptInv, SureInv, CharactersExact
<1> QED BY <1>1, <1>3, <1>9, <1>10, Zenon DEF ReaderInv

\* Whatever else happens does not touch what was typed and read.
LEMMA NextReads ==
  ASSUME [Next]_vars
  PROVE  \/ input # <<>> /\ ReadByte
         \/ \E u \in Units : Type(u)
         \/ \E n \in 0..Len(input) : HangUp(n)
         \/ UNCHANGED <<input, hungUp, utf8, typed, read, chars>>
<1>1. CASE AwaitRest
  BY <1>1, Zenon DEF AwaitRest
<1>2. CASE ReadChar
  BY <1>2, Zenon DEF ReadChar, ReadCharacter
<1>3. CASE ReadVerbatim
  BY <1>3, Zenon DEF ReadVerbatim, ReadCharacter
<1>4. CASE EndOfInput
  <2>1. ReadNothing
    BY <1>4, Zenon DEF EndOfInput
  <2> QED BY <2>1 DEF ReadNothing, ghosts
<1>5. CASE VerbatimEmpty
  BY <1>5 DEF VerbatimEmpty, ghosts
<1>6. CASE VerbatimEnd
  <2>1. ReadNothing
    BY <1>6, Zenon DEF VerbatimEnd
  <2> QED BY <2>1 DEF ReadNothing, ghosts
<1>7. CASE UNCHANGED vars
  BY <1>7 DEF vars
<1> QED BY <1>1, <1>2, <1>3, <1>4, <1>5, <1>6, <1>7, Zenon DEF Next

\* The reader's invariant holds in every step.
LEMMA ReaderStep == ASSUME ReaderInv, [Next]_vars PROVE ReaderInv'
<1>1. CASE input # <<>> /\ ReadByte
  BY <1>1, ReadKeeps
<1>2. CASE \E u \in Units : Type(u)
  BY <1>2, TypeKeeps, Zenon
<1>3. CASE \E n \in 0..Len(input) : HangUp(n)
  BY <1>3, HangUpKeeps, Zenon
<1>4. CASE UNCHANGED <<input, hungUp, utf8, typed, read, chars>>
  <2>1. /\ input' = input /\ hungUp' = hungUp /\ utf8' = utf8 /\ typed' = typed
        /\ read' = read /\ chars' = chars
    BY <1>4
  <2>2. Sound(input, typed)' /\ KeptInv' /\ SureInv' /\ CharactersExact'
    BY <2>1, Zenon DEF ReaderInv, Sound, Arriving, KeptInv, SureInv, CharactersExact
  <2>3. ~hungUp => Complete(input, typed)'
    BY <2>1, <2>2, Zenon DEF ReaderInv, Complete
  <2> QED BY <2>1, <2>2, <2>3, Zenon DEF ReaderInv
<1> QED BY <1>1, <1>2, <1>3, <1>4, NextReads

\* Nothing is read that was not typed, and every character that is typed is read,
\* whole and in order, but for those between a broken byte and the next character
\* of ASCII: read_unicode_character over all its calls.
THEOREM CharactersAreExact == Spec => []CharactersExact
<1>1. Init => ReaderInv
  BY ReaderInit
<1>2. ReaderInv /\ [Next]_vars => ReaderInv'
  BY ReaderStep
<1>3. ReaderInv => CharactersExact
  BY Zenon DEF ReaderInv
<1> QED BY <1>1, <1>2, <1>3, PTL DEF Spec

-----------------------------------------------------------------------------
(* The dispatch tables.                                                     *)

\* The keys are numbers.
LEMMA KeysAreNumbers ==
  /\ {PAGE_UP, PAGE_DOWN, DOWN, UP, LEFT, RIGHT, HOME, END, DELETE, INSERT} \subseteq Int
  /\ {PASTE_START, PASTE_FINISH, BACKSPACE, TAB, ENTER} \subseteq Int
  /\ \A n \in Int : F(n) \in Int /\ Control(n) \in Int
  /\ BASE_SHIFT \in Int /\ BASE_CONTROL \in Int /\ BASE_META \in Int
<1>1. PICK m \in Int : m = MaxLegalUTF32
  BY DEF MaxLegalUTF32
<1>2. BASE_SHIFT \in Int /\ BASE_CONTROL \in Int /\ BASE_META \in Int
  BY DEF BASE_SHIFT, BASE_CONTROL, BASE_META
<1>3. PAGE_UP \in Int
  BY <1>1 DEF PAGE_UP
<1>4. {PAGE_DOWN, DOWN, UP, LEFT, RIGHT, HOME, END, DELETE, INSERT} \subseteq Int
  BY <1>3 DEF PAGE_DOWN, DOWN, UP, LEFT, RIGHT, HOME, END, DELETE, INSERT
<1>5. ASSUME NEW n \in Int PROVE F(n) \in Int /\ Control(n) \in Int
  BY <1>2, <1>4 DEF F, Control
<1>6. F(24) \in Int /\ Control(72) \in Int /\ Control(73) \in Int /\ Control(77) \in Int
  BY <1>5
<1>7. PASTE_START \in Int
  BY <1>6 DEF PASTE_START
<1>9. BACKSPACE \in Int /\ TAB \in Int /\ ENTER \in Int
  BY <1>6, Zenon DEF BACKSPACE, TAB, ENTER
<1>8. PASTE_FINISH \in Int
  BY <1>7 DEF PASTE_FINISH
<1> QED BY <1>2, <1>3, <1>4, <1>5, <1>7, <1>8, <1>9

\* In a sequence the semicolon stands before the modifier and the final character.
Mods == {"2", "3", "5"}
Plain == {"A", "B", "C", "D", "F", "H", "P", "Q", "R", "S", "Z", "a", "b", "c", "d", "O", "[",
          "~", "0", "1", "2", "3", "4", "5", "6", "7", "8", "9"}
Symbols == Plain \cup {";"}
Marked(s) == \A i \in DOMAIN s : s[i] = ";" => i + 2 = Len(s) /\ s[i + 1] \in Mods
GoodPair(pair) == \E s \in Seq(Symbols), k \in Int : pair = <<s, k>> /\ Marked(s)
GoodStart(s) ==
  /\ s \in Seq(Symbols)
  /\ \A i \in DOMAIN s : s[i] = ";" => i + 1 = Len(s) /\ s[i + 1] \in Mods
GoodEnds(last) == \A c \in DOMAIN last : c \in Plain /\ last[c] \in Int
AllGood(pairs) == \A pair \in pairs : GoodPair(pair)

\* A good start and another final character is good.
LEMMA PairIsGood ==
  ASSUME NEW start, NEW c \in Plain, NEW k \in Int, GoodStart(start)
  PROVE  GoodPair(<<Append(start, c), k>>)
<1>1. PICK n \in Nat, s \in Seq(Symbols) :
        /\ s = Append(start, c) /\ Len(s) = n + 1 /\ n = Len(start)
        /\ DOMAIN start = 1..n /\ DOMAIN s = 1..(n + 1) /\ s[n + 1] = c
        /\ \A j \in 1..n : s[j] = start[j]
  <2>1. start \in Seq(Symbols) /\ c \in Symbols
    BY Zenon DEF GoodStart, Symbols
  <2>2. Appended(Symbols, start, c)
    BY <2>1, AppendIs
  <2> QED BY <2>2, Zenon DEF Appended
<1>2. ASSUME NEW i \in 1..(n + 1), s[i] = ";"
      PROVE  i + 2 = n + 1 /\ s[i + 1] \in Mods
  <2>0. c # ";"
    BY Zenon DEF Plain
  <2>1. i # n + 1
    BY <1>1, <1>2, <2>0, Zenon
  <2>2. i \in 1..n
    BY <2>1
  <2>3. i + 1 = n /\ start[i + 1] \in Mods
    <3>1. start[i] = ";"
      BY <1>1, <1>2, <2>2, Zenon
    <3> QED BY <1>1, <2>2, <3>1, Zenon DEF GoodStart
  <2>4. i + 2 = n + 1 /\ i + 1 \in 1..n
    BY <2>2, <2>3
  <2> QED BY <1>1, <2>3, <2>4, Zenon
<1>3. Marked(s)
  BY <1>1, <1>2, Zenon DEF Marked
<1> QED BY <1>1, <1>3, Zenon DEF GoodPair

\* The same for all of a table.
LEMMA EndingIsGood ==
  ASSUME NEW start, NEW last, GoodStart(start), GoodEnds(last)
  PROVE  AllGood(Ending(start, last))
<1>1. ASSUME NEW c \in DOMAIN last PROVE GoodPair(<<Append(start, c), last[c]>>)
  <2>1. c \in Plain /\ last[c] \in Int
    BY Zenon DEF GoodEnds
  <2> QED BY <2>1, PairIsGood
<1> QED BY <1>1, Zenon DEF AllGood, Ending

\* The final characters.
LEMMA EndsAreGood == GoodEnds(Arrows) /\ GoodEnds(FirstFunctionKeys)
<1>1. GoodEnds(Arrows)
  <2>1. UP \in Int /\ DOWN \in Int /\ LEFT \in Int /\ RIGHT \in Int /\ HOME \in Int /\ END \in Int
    BY KeysAreNumbers
  <2>2. DOMAIN Arrows = {"A", "B", "C", "D", "H", "F"}
    BY DEF Arrows
  <2>3. /\ Arrows["A"] = UP /\ Arrows["B"] = DOWN /\ Arrows["C"] = RIGHT
        /\ Arrows["D"] = LEFT /\ Arrows["H"] = HOME /\ Arrows["F"] = END
    BY DEF Arrows
  <2>4. {"A", "B", "C", "D", "H", "F"} \subseteq Plain
    BY Zenon DEF Plain
  <2> QED BY <2>1, <2>2, <2>3, <2>4, Zenon DEF GoodEnds
<1>2. GoodEnds(FirstFunctionKeys)
  <2>1. F(1) \in Int /\ F(2) \in Int /\ F(3) \in Int /\ F(4) \in Int
    BY KeysAreNumbers
  <2>2. DOMAIN FirstFunctionKeys = {"P", "Q", "R", "S"}
    BY DEF FirstFunctionKeys
  <2>3. /\ FirstFunctionKeys["P"] = F(1) /\ FirstFunctionKeys["Q"] = F(2)
        /\ FirstFunctionKeys["R"] = F(3) /\ FirstFunctionKeys["S"] = F(4)
    BY DEF FirstFunctionKeys
  <2>4. {"P", "Q", "R", "S"} \subseteq Plain
    BY Zenon DEF Plain
  <2> QED BY <2>1, <2>2, <2>3, <2>4, Zenon DEF GoodEnds
<1> QED BY <1>1, <1>2

\* Tables of letters and of a tilde.
LEMMA LettersAreGood == ASSUME NEW start, GoodStart(start) PROVE AllGood(Letters(start))
<1>1. AllGood(Ending(start, Arrows)) /\ AllGood(Ending(start, FirstFunctionKeys))
  BY EndsAreGood, EndingIsGood
<1> QED BY <1>1, Zenon DEF AllGood, Letters

\* The same for one that ends with a tilde.
LEMMA TildeIsGood == ASSUME NEW start, GoodStart(start), NEW k \in Int PROVE GoodPair(Tilde(start, k))
<1>1. "~" \in Plain
  BY Zenon DEF Plain
<1> QED BY <1>1, PairIsGood, Zenon DEF Tilde

\* The starts: without a modifier, or with one.
LEMMA PlainStart == ASSUME NEW s \in Seq(Plain) PROVE GoodStart(s)
<1>1. Plain \subseteq Symbols /\ \A c \in Plain : c # ";"
  BY Zenon DEF Plain, Symbols
<1>2. s \in Seq(Symbols)
  BY <1>1, SeqMonotonic
<1>3. \A i \in DOMAIN s : s[i] \in Plain
  OBVIOUS
<1> QED BY <1>1, <1>2, <1>3, Zenon DEF GoodStart

\* One with a modifier.
LEMMA ModifiedStart ==
  ASSUME NEW s \in Seq(Plain), NEW m \in Mods
  PROVE  GoodStart(Append(Append(s, ";"), m))
<1>1. s \in Seq(Symbols) /\ \A i \in DOMAIN s : s[i] # ";"
  <2>1. Plain \subseteq Symbols /\ \A c \in Plain : c # ";"
    BY Zenon DEF Plain, Symbols
  <2>2. s \in Seq(Symbols)
    BY <2>1, SeqMonotonic
  <2>3. \A i \in DOMAIN s : s[i] \in Plain
    OBVIOUS
  <2> QED BY <2>1, <2>2, <2>3, Zenon
<1>2. ";" \in Symbols /\ m \in Symbols /\ m # ";"
  BY Zenon DEF Mods, Plain, Symbols
<1>3. PICK n \in Nat, t \in Seq(Symbols) :
        /\ t = Append(s, ";") /\ n = Len(s) /\ Len(t) = n + 1
        /\ DOMAIN s = 1..n /\ DOMAIN t = 1..(n + 1) /\ t[n + 1] = ";"
        /\ \A j \in 1..n : t[j] = s[j]
  <2>1. Appended(Symbols, s, ";")
    BY <1>1, <1>2, AppendIs
  <2> QED BY <2>1, Zenon DEF Appended
<1>4. PICK o \in Nat, q \in Seq(Symbols) :
        /\ q = Append(t, m) /\ o = Len(t) /\ Len(q) = o + 1
        /\ DOMAIN t = 1..o /\ DOMAIN q = 1..(o + 1) /\ q[o + 1] = m
        /\ \A j \in 1..o : q[j] = t[j]
  <2>1. Appended(Symbols, t, m)
    BY <1>2, AppendIs
  <2> QED BY <2>1, Zenon DEF Appended
<1>5. o = n + 1
  BY <1>3, <1>4, Zenon
<1>6. ASSUME NEW i \in 1..(o + 1), q[i] = ";" PROVE i + 1 = o + 1 /\ q[i + 1] \in Mods
  <2>1. i \in 1..n \/ i = n + 1 \/ i = o + 1
    BY <1>5
  <2>2. CASE i \in 1..n
    <3>1. i \in 1..o
      BY <1>5, <2>2
    <3> QED BY <1>1, <1>3, <1>4, <1>6, <2>2, <3>1, Zenon
  <2>3. CASE i = n + 1
    BY <1>4, <1>5, <2>3, Zenon
  <2>4. CASE i = o + 1
    BY <1>2, <1>4, <1>6, <2>4, Zenon
  <2> QED BY <2>1, <2>2, <2>3, <2>4
<1> QED BY <1>3, <1>4, <1>6, Zenon DEF GoodStart

\* A start and what may stand between it and the final character.
Modifiers == {<<>>, <<";", "2">>, <<";", "5">>}

\* They make a good start.
LEMMA StartIsGood ==
  ASSUME NEW s \in Seq(Plain), NEW m \in Modifiers
  PROVE  GoodStart(s \o m)
<1>1. m = <<>> \/ \E c \in Mods : m = <<";", c>>
  BY Zenon DEF Modifiers, Mods
<1>2. CASE m = <<>>
  <2>1. s \o m = s
    BY <1>2
  <2>2. GoodStart(s)
    BY PlainStart
  <2> QED BY <2>1, <2>2, Zenon
<1>3. CASE \E c \in Mods : m = <<";", c>>
  <2>1. PICK c \in Mods : m = <<";", c>>
    BY <1>3
  <2>2. PICK q : q = ";"
    OBVIOUS
  <2>3. s \o <<q, c>> = Append(Append(s, q), c)
    OBVIOUS
  <2>4. GoodStart(Append(Append(s, q), c))
    BY <2>2, ModifiedStart
  <2> QED BY <2>1, <2>2, <2>3, <2>4, Zenon
<1> QED BY <1>1, <1>2, <1>3, Zenon

\* The tables.
LEMMA FunctionKeyIsGood ==
  ASSUME NEW c \in Plain, NEW d \in Plain, NEW key \in Int
  PROVE  AllGood(FunctionKey(<<c, d>>, key))
<1>1. PICK s \in Seq(Plain) : s = <<"[">> \o <<c, d>>
  <2>1. "[" \in Plain
    BY Zenon DEF Plain
  <2>2. <<"[">> \o <<c, d>> \in Seq(Plain)
    BY <2>1
  <2> QED BY <2>2, Zenon
<1>2. ASSUME NEW m \in Modifiers PROVE GoodPair(Tilde(<<"[">> \o <<c, d>> \o m, key))
  <2>1. GoodStart(s \o m)
    BY StartIsGood
  <2>2. GoodPair(Tilde(s \o m, key))
    BY <2>1, TildeIsGood
  <2> QED BY <1>1, <2>2, Zenon
<1> QED BY <1>2, Zenon DEF AllGood, FunctionKey, Modifiers

\* Sequences put together.
LEMMA Two == ASSUME NEW x, NEW y PROVE Append(<<x>>, y) = <<x, y>>
<1> DEFINE S == {x, y}
<1>0. x \in S /\ y \in S
  OBVIOUS
<1> HIDE DEF S
<1>1. <<x>> \in Seq(S) /\ Len(<<x>>) = 1 /\ <<x>>[1] = x
  BY <1>0
<1>2. <<x, y>> \in Seq(S) /\ Len(<<x, y>>) = 2 /\ <<x, y>>[1] = x /\ <<x, y>>[2] = y
  BY <1>0
<1>3. PICK a \in Seq(S) : a = <<x>> /\ Len(a) = 1 /\ a[1] = x
  BY <1>1, Zenon
<1>4. PICK b \in Seq(S) : b = <<x, y>> /\ Len(b) = 2 /\ b[1] = x /\ b[2] = y
  BY <1>2, Zenon
<1>5. Append(a, y) \in Seq(S)
  BY <1>0, <1>3
<1>6. Len(Append(a, y)) = 2 /\ Append(a, y)[1] = x /\ Append(a, y)[2] = y
  BY <1>0, <1>3
<1>7. PICK c \in Seq(S) : c = Append(a, y) /\ Len(c) = 2 /\ c[1] = x /\ c[2] = y
  BY <1>5, <1>6, Zenon
<1>8. c = b
  <2>1. Len(c) = Len(b) /\ \A i \in 1..Len(c) : c[i] = b[i]
    BY <1>4, <1>7
  <2> QED BY <2>1, SeqEqual
<1> QED BY <1>3, <1>4, <1>7, <1>8, Zenon

\* The same for two more.
LEMMA Four ==
  ASSUME NEW x, NEW y, NEW z, NEW w PROVE Append(Append(<<x, y>>, z), w) = <<x, y, z, w>>
<1> DEFINE S == {x, y, z, w}
<1>0. x \in S /\ y \in S /\ z \in S /\ w \in S
  OBVIOUS
<1> HIDE DEF S
<1>1. <<x, y>> \in Seq(S) /\ Len(<<x, y>>) = 2 /\ <<x, y>>[1] = x /\ <<x, y>>[2] = y
  BY <1>0
<1>2. /\ <<x, y, z, w>> \in Seq(S) /\ Len(<<x, y, z, w>>) = 4
      /\ <<x, y, z, w>>[1] = x /\ <<x, y, z, w>>[2] = y
      /\ <<x, y, z, w>>[3] = z /\ <<x, y, z, w>>[4] = w
  BY <1>0
<1>3. PICK a \in Seq(S) : a = <<x, y>> /\ Len(a) = 2 /\ a[1] = x /\ a[2] = y
  BY <1>1, Zenon
<1>4. PICK b \in Seq(S) :
        b = <<x, y, z, w>> /\ Len(b) = 4 /\ b[1] = x /\ b[2] = y /\ b[3] = z /\ b[4] = w
  BY <1>2, Zenon
<1>5. Append(a, z) \in Seq(S)
  BY <1>0, <1>3
<1>6. Len(Append(a, z)) = 3 /\ Append(a, z)[1] = x /\ Append(a, z)[2] = y /\ Append(a, z)[3] = z
  BY <1>0, <1>3
<1>7. PICK c \in Seq(S) : c = Append(a, z) /\ Len(c) = 3 /\ c[1] = x /\ c[2] = y /\ c[3] = z
  BY <1>5, <1>6, Zenon
<1>8. Append(c, w) \in Seq(S)
  BY <1>0, <1>7
<1>9. /\ Len(Append(c, w)) = 4 /\ Append(c, w)[1] = x /\ Append(c, w)[2] = y
      /\ Append(c, w)[3] = z /\ Append(c, w)[4] = w
  BY <1>0, <1>7
<1>10. PICK d \in Seq(S) :
        d = Append(c, w) /\ Len(d) = 4 /\ d[1] = x /\ d[2] = y /\ d[3] = z /\ d[4] = w
  BY <1>8, <1>9, Zenon
<1>11. d = b
  <2>1. Len(d) = Len(b) /\ \A i \in 1..Len(d) : d[i] = b[i]
    BY <1>4, <1>10
  <2> QED BY <2>1, SeqEqual
<1> QED BY <1>3, <1>4, <1>7, <1>10, <1>11, Zenon

\* All of them.
LEMMA TablesAreGood == AllGood(Pairs)
<1>0. /\ {"[", "O", "Z", "a", "b", "c", "d"} \subseteq Plain
      /\ {"0", "1", "2", "3", "4", "5", "6", "7", "8", "9"} \subseteq Plain
  BY Zenon DEF Plain
<1>1. AllGood(Modified1)
  <2>1. ASSUME NEW m \in DOMAIN Modifier PROVE AllGood(Letters(<<"[", "1", ";", m>>))
    <3>1. m \in Mods
      BY DEF Modifier, Mods
    <3>2. PICK s \in Seq(Plain) : s = <<"[", "1">>
      <4>1. <<"[", "1">> \in Seq(Plain)
        BY <1>0
      <4> QED BY <4>1, Zenon
    <3>3. GoodStart(Append(Append(s, ";"), m))
      BY <3>1, ModifiedStart
    <3>4. Append(Append(s, ";"), m) = <<"[", "1", ";", m>>
      <4>1. Append(Append(<<"[", "1">>, ";"), m) = <<"[", "1", ";", m>>
        BY Four, Zenon
      <4> QED BY <3>2, <4>1, Zenon
    <3> QED BY <3>3, <3>4, LettersAreGood, Zenon
  <2> QED BY <2>1, Zenon DEF AllGood, Modified1
<1>2. AllGood(F5ToF8) /\ AllGood(F9ToF12)
  <2>1. /\ F(5) \in Int /\ F(6) \in Int /\ F(7) \in Int /\ F(8) \in Int
        /\ F(9) \in Int /\ F(10) \in Int /\ F(11) \in Int /\ F(12) \in Int
    BY KeysAreNumbers
  <2>2. /\ AllGood(FunctionKey(<<"1", "5">>, F(5))) /\ AllGood(FunctionKey(<<"1", "7">>, F(6)))
        /\ AllGood(FunctionKey(<<"1", "8">>, F(7))) /\ AllGood(FunctionKey(<<"1", "9">>, F(8)))
    BY <1>0, <2>1, FunctionKeyIsGood
  <2>3. /\ AllGood(FunctionKey(<<"2", "0">>, F(9))) /\ AllGood(FunctionKey(<<"2", "1">>, F(10)))
        /\ AllGood(FunctionKey(<<"2", "3">>, F(11))) /\ AllGood(FunctionKey(<<"2", "4">>, F(12)))
    BY <1>0, <2>1, FunctionKeyIsGood
  <2> QED BY <2>2, <2>3, Zenon DEF AllGood, F5ToF8, F9ToF12
<1>3. AllGood(Paste)
  <2>1. /\ <<"[", "2", "0", "0">> \in Seq(Plain) /\ <<"[", "2", "0", "1">> \in Seq(Plain)
    BY <1>0
  <2>2. PASTE_START \in Int /\ PASTE_FINISH \in Int
    BY KeysAreNumbers
  <2>3. /\ GoodPair(Tilde(<<"[", "2", "0", "0">>, PASTE_START))
        /\ GoodPair(Tilde(<<"[", "2", "0", "1">>, PASTE_FINISH))
    BY <2>1, <2>2, PlainStart, TildeIsGood
  <2> QED BY <2>3, Zenon DEF AllGood, Paste
<1>4. AllGood(Digits)
  <2>1. HOME \in Int /\ INSERT \in Int /\ DELETE \in Int /\ END \in Int
    BY KeysAreNumbers
  <2>2. ASSUME NEW c \in Plain, NEW k \in Int PROVE GoodPair(Tilde(<<"[", c>>, k))
    <3>1. <<"[", c>> \in Seq(Plain)
      BY <1>0
    <3> QED BY <3>1, PlainStart, TildeIsGood
  <2>3. /\ GoodPair(Tilde(<<"[", "1">>, HOME)) /\ GoodPair(Tilde(<<"[", "2">>, INSERT))
        /\ GoodPair(Tilde(<<"[", "3">>, DELETE)) /\ GoodPair(Tilde(<<"[", "4">>, END))
        /\ GoodPair(Tilde(<<"[", "7">>, HOME)) /\ GoodPair(Tilde(<<"[", "8">>, END))
    BY <1>0, <2>1, <2>2, Zenon
  <2> QED BY <2>3, Zenon DEF AllGood, Digits
<1>5. AllGood(Pages)
  <2>1. PAGE_UP \in Int /\ PAGE_DOWN \in Int
    BY KeysAreNumbers
  <2>2. ASSUME NEW n \in Plain, NEW m \in Modifiers, NEW k \in Int
        PROVE  GoodPair(Tilde(<<"[", n>> \o m, k))
    <3>1. <<"[", n>> \in Seq(Plain)
      BY <1>0
    <3>2. GoodStart(<<"[", n>> \o m)
      BY <3>1, StartIsGood
    <3> QED BY <3>2, TildeIsGood
  <2>3. ASSUME NEW m \in {<<>>, <<";", "5">>}
        PROVE  /\ GoodPair(Tilde(<<"[", "5">> \o m, PAGE_UP))
               /\ GoodPair(Tilde(<<"[", "6">> \o m, PAGE_DOWN))
    <3>1. m \in Modifiers
      BY Zenon DEF Modifiers
    <3> QED BY <1>0, <2>1, <2>2, <3>1, Zenon
  <2> QED BY <2>3, Zenon DEF AllGood, Pages
<1>6. AllGood(LeftBracket)
  <2>1. <<"[">> \in Seq(Plain)
    BY <1>0
  <2>2. GoodStart(<<"[">>)
    BY <2>1, PlainStart
  <2>3. AllGood(Ending(<<"[">>, Arrows))
    BY <2>2, EndsAreGood, EndingIsGood
  <2>4. BASE_SHIFT + TAB \in Int
    BY KeysAreNumbers
  <2>5. GoodPair(<<Append(<<"[">>, "Z"), BASE_SHIFT + TAB>>)
    BY <1>0, <2>2, <2>4, PairIsGood
  <2>6. Append(<<"[">>, "Z") = <<"[", "Z">>
    BY Two, Zenon
  <2> QED BY <2>3, <2>5, <2>6, Zenon DEF AllGood, LeftBracket
<1>7. AllGood(LetterO)
  <2>1. <<"O">> \in Seq(Plain)
    BY <1>0
  <2>2. GoodStart(<<"O">>)
    BY <2>1, PlainStart
  <2>3. AllGood(Letters(<<"O">>))
    BY <2>2, LettersAreGood
  <2>4. PICK l : l = [a |-> Control(UP), b |-> Control(DOWN), c |-> Control(RIGHT),
                      d |-> Control(LEFT)]
    OBVIOUS
  <2>5. /\ Control(UP) \in Int /\ Control(DOWN) \in Int /\ Control(RIGHT) \in Int
        /\ Control(LEFT) \in Int
    BY KeysAreNumbers
  <2>6. DOMAIN l = {"a", "b", "c", "d"}
    BY <2>4
  <2>7. l["a"] = Control(UP) /\ l["b"] = Control(DOWN) /\ l["c"] = Control(RIGHT) /\ l["d"] = Control(LEFT)
    BY <2>4
  <2>8. GoodEnds(l)
    BY <1>0, <2>5, <2>6, <2>7, Zenon DEF GoodEnds
  <2>9. AllGood(Ending(<<"O">>, l))
    BY <2>2, <2>8, EndingIsGood
  <2> QED BY <2>3, <2>4, <2>9, Zenon DEF AllGood, LetterO
<1> QED BY <1>1, <1>2, <1>3, <1>4, <1>5, <1>6, <1>7, Zenon DEF AllGood, Pairs

\* The sequences that the tables accept, with their keys.
LEMMA SequencesAreGood == ASSUME NEW s \in DOMAIN Sequences PROVE GoodPair(<<s, Sequences[s]>>)
<1>1. s \in {pair[1] : pair \in Pairs} /\ Sequences[s] = (CHOOSE pair \in Pairs : pair[1] = s)[2]
  <2>1. DOMAIN Sequences = {pair[1] : pair \in Pairs}
    BY Zenon DEF Sequences
  <2> QED BY <2>1, Zenon DEF Sequences
<1>2. PICK p \in Pairs : p = CHOOSE pair \in Pairs : pair[1] = s
  <2>1. \E pair \in Pairs : pair[1] = s
    BY <1>1, Zenon
  <2> QED BY <2>1, Zenon
<1>3. p[1] = s
  <2>1. \E pair \in Pairs : pair[1] = s
    BY <1>1, Zenon
  <2> QED BY <1>2, <2>1, Zenon
<1>4. GoodPair(p)
  BY TablesAreGood, Zenon DEF AllGood
<1>5. PICK q \in Seq(Symbols), k \in Int : p = <<q, k>> /\ Marked(q)
  BY <1>4, Zenon DEF GoodPair
<1>6. p[1] = q /\ p[2] = k
  BY <1>5
<1>7. s = q /\ Sequences[s] = k
  BY <1>1, <1>2, <1>3, <1>6, Zenon
<1> QED BY <1>5, <1>7, Zenon DEF GoodPair

\* A table is the beginning of a sequence: a semicolon is its last character, or
\* the last but one, before a modifier.
Near(t) ==
  /\ t \in Seq(Symbols) /\ Len(t) > 0
  /\ \A i \in DOMAIN t : t[i] = ";" => i = Len(t) \/ (i + 1 = Len(t) /\ t[i + 1] \in Mods)

\* That holds of every table.
LEMMA TablesAreNear == ASSUME NEW t \in Tables PROVE Near(t)
<1>1. PICK s \in DOMAIN Sequences : t \in {SubSeq(s, 1, n) : n \in 1..(Len(s) - 1)}
  BY Zenon DEF Tables
<1>2. PICK m \in 1..(Len(s) - 1) : t = SubSeq(s, 1, m)
  BY <1>1, Zenon
<1>3. s \in Seq(Symbols) /\ Marked(s)
  <2>1. GoodPair(<<s, Sequences[s]>>)
    BY SequencesAreGood
  <2>2. PICK q \in Seq(Symbols), k \in Int : <<s, Sequences[s]>> = <<q, k>> /\ Marked(q)
    BY <2>1, Zenon DEF GoodPair
  <2>3. s = q
    BY <2>2
  <2> QED BY <2>2, <2>3, Zenon
<1>4. PICK l \in Nat : l = Len(s) /\ DOMAIN s = 1..l
  BY <1>3
<1>5. m \in Nat /\ m > 0 /\ m < l
  BY <1>2, <1>4
<1>6. SubSeq(s, 1, m) \in Seq(Symbols)
  BY <1>3, <1>4, <1>5
<1>7. PICK u \in Seq(Symbols) : u = SubSeq(s, 1, m)
  BY <1>6, Zenon
<1>8. Len(u) = m /\ DOMAIN u = 1..m /\ \A i \in 1..m : u[i] = s[i]
  BY <1>3, <1>4, <1>5, <1>7
<1>9. ASSUME NEW i \in 1..m, u[i] = ";" PROVE i = m \/ (i + 1 = m /\ u[i + 1] \in Mods)
  <2>1. i \in 1..l
    BY <1>4, <1>5
  <2>2. i + 2 = l /\ s[i + 1] \in Mods
    BY <1>3, <1>4, <1>8, <1>9, <2>1, Zenon DEF Marked
  <2>3. i = m \/ (i + 1 = m /\ i + 1 \in 1..m)
    BY <1>5, <2>2
  <2> QED BY <1>8, <2>2, <2>3, Zenon
<1> QED BY <1>2, <1>5, <1>7, <1>8, <1>9, Zenon DEF Near

\* The tables that ESC leads to.
LEMMA FirstTables == <<"[">> \in Tables /\ <<"O">> \in Tables
<1>1. ASSUME NEW x, NEW y, NEW k, <<Append(<<x>>, y), k>> \in Pairs PROVE <<x>> \in Tables
  <2>1. PICK s : s = Append(<<x>>, y)
    OBVIOUS
  <2>2. <<s, k>> \in Pairs /\ <<s, k>>[1] = s
    BY <1>1, <2>1
  <2>3. s \in DOMAIN Sequences
    <3>1. DOMAIN Sequences = {pair[1] : pair \in Pairs}
      BY Zenon DEF Sequences
    <3> QED BY <2>2, <3>1, Zenon
  <2>4. s = <<x, y>>
    BY <2>1, Two, Zenon
  <2>5. <<x, y>> \in Seq({x, y}) /\ Len(<<x, y>>) = 2 /\ <<x, y>>[1] = x
    OBVIOUS
  <2>6. s \in Seq({x, y}) /\ Len(s) = 2 /\ s[1] = x
    BY <2>4, <2>5, Zenon
  <2>7. SubSeq(s, 1, 1) = <<s[1]>>
    <3>1. Len(s) \in 1..4
      BY <2>6
    <3> QED BY <2>6, <3>1, FirstOnly, Zenon
  <2>8. 1 \in 1..(Len(s) - 1)
    BY <2>6
  <2>9. SubSeq(s, 1, 1) \in {SubSeq(s, 1, n) : n \in 1..(Len(s) - 1)}
    BY <2>8, Zenon
  <2>10. SubSeq(s, 1, 1) = <<x>>
    BY <2>6, <2>7, Zenon
  <2>11. PICK t : t = <<x>>
    OBVIOUS
  <2>12. t \in {SubSeq(s, 1, n) : n \in 1..(Len(s) - 1)}
    BY <2>9, <2>10, <2>11, Zenon
  <2>13. t \in Tables
    BY <2>3, <2>12, Zenon DEF Tables
  <2> QED BY <2>11, <2>13, Zenon
<1>2. "A" \in DOMAIN Arrows
  <2>1. DOMAIN Arrows = {"A", "B", "C", "D", "H", "F"}
    BY DEF Arrows
  <2> QED BY <2>1, Zenon
<1>3. <<Append(<<"[">>, "A"), Arrows["A"]>> \in Pairs
  BY <1>2, Zenon DEF Pairs, LeftBracket, Ending
<1>4. <<Append(<<"O">>, "A"), Arrows["A"]>> \in Pairs
  BY <1>2, Zenon DEF Pairs, LetterO, Letters, Ending
<1> QED BY <1>1, <1>3, <1>4, Zenon

\* A modifier added to none, or to Meta.
AnyMods == {0, BASE_SHIFT, BASE_CONTROL, BASE_META, BASE_META + BASE_SHIFT,
            BASE_META + BASE_CONTROL}
BareMods == {0, BASE_META}

\* It gives one of the combinations.
LEMMA OrIs ==
  ASSUME NEW m \in BareMods, NEW c \in Mods
  PROVE  Or(m, Modifier[c]) \in AnyMods
<1>1. PICK b \in Nat : b > 0 /\ BASE_SHIFT = b /\ BASE_CONTROL = b + b /\ BASE_META = b + b + b + b
  BY DEF BASE_SHIFT, BASE_CONTROL, BASE_META
<1>2. /\ 0 \div b = 0 /\ 0 \div (b + b) = 0 /\ 0 \div (b + b + b + b) = 0
      /\ (b + b + b + b) \div b = 4 /\ (b + b + b + b) \div (b + b) = 2
      /\ (b + b + b + b) \div (b + b + b + b) = 1
  BY <1>1
<1>3. Modifier[c] \in {BASE_SHIFT, BASE_META, BASE_CONTROL}
  BY DEF Modifier, Mods
<1>4. ASSUME NEW k \in {BASE_SHIFT, BASE_META, BASE_CONTROL} PROVE Or(m, k) \in AnyMods
  <2>1. CASE m = 0
    <3>1. (0 \div k) % 2 # 1 /\ 0 + k = k
      BY <1>1, <1>2
    <3>2. Or(m, k) = k
      BY <2>1, <3>1, Zenon DEF Or
    <3> QED BY <3>2, Zenon DEF AnyMods
  <2>2. CASE m = BASE_META
    <3>1. (BASE_META \div BASE_META) % 2 = 1
      BY <1>1, <1>2
    <3>2. (BASE_META \div BASE_SHIFT) % 2 # 1 /\ (BASE_META \div BASE_CONTROL) % 2 # 1
      BY <1>1, <1>2
    <3>3. Or(BASE_META, BASE_META) = BASE_META
      BY <3>1, Zenon DEF Or
    <3>4. /\ Or(BASE_META, BASE_SHIFT) = BASE_META + BASE_SHIFT
          /\ Or(BASE_META, BASE_CONTROL) = BASE_META + BASE_CONTROL
      BY <3>2, Zenon DEF Or
    <3> QED BY <2>2, <3>3, <3>4, Zenon DEF AnyMods
  <2> QED BY <2>1, <2>2, Zenon DEF BareMods
<1> QED BY <1>3, <1>4

\* What read_char() carries from one character to the next: a modifier other than
\* Meta is behind a semicolon that the modifier of the sequence follows.
Leads(p, m) ==
  /\ p \in Tables \cup {<<>>, <<"ESC">>} /\ m \in AnyMods
  /\ \/ p = <<>> \/ m \in BareMods
     \/ p \in Tables /\ \E i \in DOMAIN p : p[i] = ";" /\ i # Len(p)
MInv == Leads(prefix, mods)

\* A range and one more.
LEMMA WiderRange ==
  ASSUME NEW n \in Nat, NEW i \in 1..n
  PROVE  i \in 1..(n + 1) /\ i # n + 1 /\ (i + 1 = n + 1 => i = n)
OBVIOUS

\* A table's next.
LEMMA NextTable ==
  ASSUME MInv, NEW x, prefix \in Tables, Append(prefix, x) \in Tables
  PROVE  /\ WithModifier(Append(prefix, x)) \in AnyMods
         /\ \/ WithModifier(Append(prefix, x)) \in BareMods
            \/ \E i \in DOMAIN Append(prefix, x) :
                 Append(prefix, x)[i] = ";" /\ i # Len(Append(prefix, x))
<1>1. PICK t \in Seq(Symbols), n \in Nat : t = prefix /\ n = Len(t) /\ n > 0 /\ DOMAIN t = 1..n
  <2>1. prefix \in Seq(Symbols) /\ Len(prefix) > 0
    BY TablesAreNear, Zenon DEF Near
  <2> QED BY <2>1
<1>0. n \in Nat
  OBVIOUS
<1>2. Near(Append(prefix, x))
  BY TablesAreNear
<1>3. PICK s \in Seq(Symbols) :
        s = Append(t, x) /\ Len(s) = n + 1 /\ DOMAIN s = 1..(n + 1) /\ s[n + 1] = x
        /\ \A j \in 1..n : s[j] = t[j]
  <2>1. Append(t, x) \in Seq(Symbols)
    BY <1>1, <1>2, Zenon DEF Near
  <2>2. PICK s \in Seq(Symbols) : s = Append(t, x)
    BY <2>1, Zenon
  <2>3. Len(s) = n + 1 /\ DOMAIN s = 1..(n + 1) /\ s[n + 1] = x
    BY <1>1, <2>2
  <2>4. \A j \in 1..n : s[j] = t[j]
    BY <1>1, <2>2
  <2> QED BY <2>2, <2>3, <2>4, Zenon
<1>4. \A i \in 1..(n + 1) : s[i] = ";" => i = n + 1 \/ (i + 1 = n + 1 /\ s[i + 1] \in Mods)
  BY <1>1, <1>2, <1>3, Zenon DEF Near
<1>5. n + 1 > 1 /\ (n + 1) - 1 = n /\ n \in 1..(n + 1) /\ n \in 1..n /\ n # n + 1
  BY <1>1
<1>6. Last(s) = x
  BY <1>3, Zenon DEF Last
<1>7. CASE s[n] = ";"
  <2>1. x \in Mods
    BY <1>3, <1>4, <1>5, <1>7, Zenon
  <2>2. mods \in BareMods
    <3>1. ASSUME NEW i \in DOMAIN prefix, prefix[i] = ";" PROVE i = Len(prefix)
      <4>1. i \in 1..n /\ t[i] = ";"
        BY <1>1, <3>1, Zenon
      <4>2. i \in 1..(n + 1)
        BY <1>0, <4>1, WiderRange, Zenon
      <4>3. s[i] = ";"
        BY <1>3, <4>1, Zenon
      <4>4. i = n + 1 \/ i + 1 = n + 1
        BY <1>4, <4>2, <4>3, Zenon
      <4>5. i = n
        BY <1>0, <4>1, <4>2, <4>4, WiderRange, Zenon
      <4> QED BY <1>1, <4>5, Zenon
    <3>2. prefix # <<>>
      BY <1>1
    <3> QED BY <3>1, <3>2, Zenon DEF MInv, Leads
  <2>3. WithModifier(s) = Or(mods, Modifier[x])
    BY <1>3, <1>5, <1>6, <1>7, Zenon DEF WithModifier
  <2>4. WithModifier(s) \in AnyMods
    BY <2>1, <2>2, <2>3, OrIs
  <2>5. \E i \in DOMAIN s : s[i] = ";" /\ i # Len(s)
    BY <1>3, <1>5, <1>7, Zenon
  <2> QED BY <1>1, <1>3, <2>4, <2>5, Zenon
<1>8. CASE s[n] # ";"
  <2>1. WithModifier(s) = mods
    BY <1>3, <1>5, <1>8, Zenon DEF WithModifier
  <2>2. mods \in BareMods \/ \E i \in DOMAIN s : s[i] = ";" /\ i # Len(s)
    <3>1. SUFFICES ASSUME mods \notin BareMods PROVE \E i \in DOMAIN s : s[i] = ";" /\ i # Len(s)
      OBVIOUS
    <3>2. prefix # <<>>
      BY <1>1
    <3>3. PICK i \in DOMAIN prefix : prefix[i] = ";"
      BY <3>1, <3>2, Zenon DEF MInv, Leads
    <3>4. i \in 1..n /\ t[i] = ";"
      BY <1>1, <3>3, Zenon
    <3>5. i \in 1..(n + 1) /\ i # n + 1
      BY <1>0, <3>4, WiderRange, Zenon
    <3> QED BY <1>3, <3>4, <3>5, Zenon
  <2>3. mods \in AnyMods
    BY Zenon DEF MInv, Leads
  <2> QED BY <1>1, <1>3, <2>1, <2>2, <2>3, Zenon
<1> QED BY <1>7, <1>8

\* Numbers that the dispatch begins and ends with.
LEMMA DispatchNumbers ==
  /\ 0 \in BareMods /\ BASE_META \in BareMods /\ BareMods \subseteq AnyMods
  /\ AnyMods \subseteq Int /\ ESCAPE \in Int /\ Failure \in Int /\ NoKey \in Int
  /\ \A m \in AnyMods : \A k \in Int : m + k \in Int
<1>1. BASE_SHIFT \in Int /\ BASE_CONTROL \in Int /\ BASE_META \in Int
  BY KeysAreNumbers
<1>2. AnyMods \subseteq Int
  BY <1>1 DEF AnyMods
<1>3. BareMods \subseteq AnyMods /\ 0 \in BareMods /\ BASE_META \in BareMods
  BY Zenon DEF BareMods, AnyMods
<1>4. ESCAPE \in Int /\ Failure \in Int /\ NoKey \in Int
  BY DEF ESCAPE, Failure, NoKey
<1>5. \A m \in AnyMods : \A k \in Int : m + k \in Int
  BY <1>2
<1> QED BY <1>2, <1>3, <1>4, <1>5

\* What doDispatch() returns: a key or a table, with the modifiers that may go
\* with it.
Dispatched(d) == Leads(d.prefix, d.mods) /\ d.key \in Int

\* The results of a final routine and of a table's.
LEMMA KeyDispatched == ASSUME NEW k \in Int, NEW m \in AnyMods PROVE Dispatched(Key(k, m))
<1>1. Key(k, m).prefix = <<>> /\ Key(k, m).mods = m /\ Key(k, m).key = k
  BY DEF Key
<1>2. Leads(<<>>, m)
  BY Zenon DEF Leads
<1> QED BY <1>1, <1>2, Zenon DEF Dispatched

\* The same for a table.
LEMMA ContinueDispatched == ASSUME NEW p, NEW m, Leads(p, m) PROVE Dispatched(Continue(p, m))
<1>1. Continue(p, m).prefix = p /\ Continue(p, m).mods = m /\ Continue(p, m).key = NoKey
  BY DEF Continue
<1> QED BY <1>1, DispatchNumbers, Zenon DEF Dispatched

\* The initial table.
LEMMA InitialDispatched ==
  ASSUME NEW c \in Int, NEW m \in BareMods
  PROVE  Dispatched(InitialDispatch(c, m))
<1>0. m \in AnyMods
  BY DispatchNumbers, Zenon
<1>1. CASE c = ESCAPE
  <2>1. Leads(<<"ESC">>, m)
    BY <1>0, Zenon DEF Leads
  <2>2. Dispatched(Continue(<<"ESC">>, m))
    BY <2>1, ContinueDispatched
  <2> QED BY <1>1, <2>2, Zenon DEF InitialDispatch
<1>2. ASSUME NEW k \in Int PROVE Dispatched(Key(m + k, m))
  <2>1. m + k \in Int
    BY <1>0, DispatchNumbers, Zenon
  <2> QED BY <1>0, <2>1, KeyDispatched
<1>3. Dispatched(Key(m + BACKSPACE, m)) /\ Dispatched(Key(m + c, m))
  <2>1. BACKSPACE \in Int
    BY KeysAreNumbers
  <2> QED BY <1>2, <2>1
<1> QED BY <1>1, <1>3, Zenon DEF InitialDispatch

\* A sequence of one.
LEMMA OneElement == ASSUME NEW x, NEW i \in DOMAIN <<x>> PROVE <<x>>[i] = x
<1>1. i = 1
  OBVIOUS
<1> QED BY <1>1

\* The table behind ESC.
LEMMA EscDispatched ==
  ASSUME MInv, prefix = <<"ESC">>, NEW c \in Int
  PROVE  Dispatched(EscDispatch(c))
<1>1. mods \in BareMods
  <2>1. ASSUME NEW p, p = <<"ESC">>, p \in Tables, NEW i \in DOMAIN p, p[i] = ";" PROVE FALSE
    <3>1. p[i] = "ESC"
      BY <2>1, OneElement, Zenon
    <3>2. "ESC" # ";"
      OBVIOUS
    <3> QED BY <2>1, <3>1, <3>2, Zenon
  <2>2. prefix # <<>>
    OBVIOUS
  <2> QED BY <2>1, <2>2, Zenon DEF MInv, Leads
<1>2. mods \in AnyMods
  BY <1>1, DispatchNumbers, Zenon
<1>3. CASE Written(c) \in {"[", "O"}
  <2>1. <<Written(c)>> \in Tables
    BY <1>3, FirstTables, Zenon
  <2>2. Leads(<<Written(c)>>, mods)
    BY <1>1, <1>2, <2>1, Zenon DEF Leads
  <2>3. Dispatched(Continue(<<Written(c)>>, mods))
    BY <2>2, ContinueDispatched
  <2> QED BY <1>3, <2>3, Zenon DEF EscDispatch
<1>4. Dispatched(Continue(<<"ESC">>, BASE_META))
  <2>1. Leads(<<"ESC">>, BASE_META)
    BY DispatchNumbers, Zenon DEF Leads
  <2> QED BY <2>1, ContinueDispatched
<1>5. Dispatched(InitialDispatch(c, BASE_META))
  BY DispatchNumbers, InitialDispatched
<1> QED BY <1>3, <1>4, <1>5, Zenon DEF EscDispatch

\* The other tables.
LEMMA TableDispatched ==
  ASSUME MInv, prefix \in Tables, NEW c \in Int
  PROVE  Dispatched(TableDispatch(c))
<1>1. PICK s : s = Append(prefix, Written(c))
  OBVIOUS
<1>2. mods \in AnyMods
  BY Zenon DEF MInv, Leads
<1>3. CASE s \in DOMAIN Sequences
  <2>1. PICK k \in Int : k = Sequences[s]
    <3>1. GoodPair(<<s, Sequences[s]>>)
      BY <1>3, SequencesAreGood
    <3>2. PICK q \in Seq(Symbols), k \in Int : <<s, Sequences[s]>> = <<q, k>>
      BY <3>1, Zenon DEF GoodPair
    <3>3. Sequences[s] = k
      BY <3>2
    <3> QED BY <3>3, Zenon
  <2>2. mods + k \in Int
    BY <1>2, DispatchNumbers, Zenon
  <2>3. Dispatched(Key(k, mods)) /\ Dispatched(Key(mods + k, mods))
    BY <1>2, <2>2, KeyDispatched
  <2>4. TableDispatch(c) = Key(IF Written(c) = "Z" THEN k ELSE mods + k, mods)
    BY <1>1, <1>3, <2>1, Zenon DEF TableDispatch
  <2>5. CASE Written(c) = "Z"
    BY <2>3, <2>4, <2>5, Zenon
  <2>6. CASE Written(c) # "Z"
    BY <2>3, <2>4, <2>6, Zenon
  <2> QED BY <2>5, <2>6
<1>4. CASE s \notin DOMAIN Sequences /\ s \in Tables
  <2>1. Leads(s, WithModifier(s))
    BY <1>1, <1>4, NextTable, Zenon DEF Leads
  <2>2. Dispatched(Continue(s, WithModifier(s)))
    BY <2>1, ContinueDispatched
  <2> QED BY <1>1, <1>4, <2>2, Zenon DEF TableDispatch
<1>5. CASE s \notin DOMAIN Sequences /\ s \notin Tables
  <2>1. Dispatched(Key(Failure, mods))
    BY <1>2, DispatchNumbers, KeyDispatched
  <2> QED BY <1>1, <1>5, <2>1, Zenon DEF TableDispatch
<1> QED BY <1>3, <1>4, <1>5

\* Whatever the character and the table, what comes of it is in order.
LEMMA DispatchIs == ASSUME MInv, NEW c \in Int PROVE Dispatched(Dispatch(c))
<1>1. CASE prefix = <<>>
  <2>1. Dispatched(InitialDispatch(c, 0))
    BY DispatchNumbers, InitialDispatched
  <2> QED BY <1>1, <2>1, Zenon DEF Dispatch
<1>2. CASE prefix = <<"ESC">>
  <2>1. Dispatched(EscDispatch(c))
    BY <1>2, EscDispatched
  <2>2. prefix # <<>>
    BY <1>2
  <2> QED BY <1>2, <2>1, <2>2, Zenon DEF Dispatch
<1>3. CASE prefix # <<>> /\ prefix # <<"ESC">>
  <2>1. prefix \in Tables
    BY <1>3, Zenon DEF MInv, Leads
  <2>2. Dispatched(TableDispatch(c))
    BY <2>1, TableDispatched
  <2> QED BY <1>3, <2>2, Zenon DEF Dispatch
<1> QED BY <1>1, <1>2, <1>3

-----------------------------------------------------------------------------
(* The types of the state.                                                  *)

\* What the main loop, a paste and a verbatim insert keep.
LineInv ==
  /\ mode \in {"keys", "paste", "verbatim"}
  /\ buf \in Seq(Int) /\ (mode = "verbatim" => Len(buf) < MaxEscSeq)
  /\ keys \in Seq(Int) /\ text \in Seq(Int)
RecordInv == hungUp \in BOOLEAN /\ units \in 0..MaxUnits /\ foreign \in BOOLEAN
StateInv == ReaderInv /\ MInv /\ LineInv /\ RecordInv

\* Numbers appended to a list of numbers.
LEMMA MoreNumbers ==
  /\ <<>> \in Seq(Int)
  /\ \A s \in Seq(Int) : \A k \in Int : Append(s, k) \in Seq(Int) /\ Len(Append(s, k)) = Len(s) + 1
  /\ \A s \in Seq(Int) : \A t \in Seq(Int) : s \o t \in Seq(Int)
OBVIOUS

\* A key that read_char() returns to the main loop or to a paste.
LEMMA ReturnedKeeps == ASSUME LineInv, NEW k \in Int, Returned(k) PROVE LineInv'
<1>1. buf \in Seq(Int) /\ keys \in Seq(Int) /\ text \in Seq(Int) /\ mode \in {"keys", "paste", "verbatim"}
  BY Zenon DEF LineInv
<1>2. CASE mode = "paste"
  <2>0. BracketedPaste(k)
    BY <1>2, Zenon DEF Returned
  <2>1. keys' = keys
    BY <2>0, Zenon DEF BracketedPaste
  <2>2. CASE k \in {0, PASTE_FINISH}
    <3>1. mode' = "keys" /\ buf' = <<>> /\ text' = text \o buf
      BY <2>0, <2>2, Zenon DEF BracketedPaste
    <3>2. text' \in Seq(Int) /\ buf' \in Seq(Int)
      BY <1>1, <3>1, MoreNumbers, Zenon
    <3>3. "keys" # "verbatim"
      OBVIOUS
    <3> QED BY <1>1, <2>1, <3>1, <3>2, <3>3, Zenon DEF LineInv
  <2>3. CASE k \notin {0, PASTE_FINISH}
    <3>1. mode' = mode /\ buf' = Append(buf, Pasted(k)) /\ text' = text
      BY <2>0, <2>3, Zenon DEF BracketedPaste
    <3>2. Pasted(k) \in Int
      BY DEF Pasted
    <3>3. buf' \in Seq(Int)
      BY <1>1, <3>1, <3>2, MoreNumbers, Zenon
    <3>4. "paste" # "verbatim"
      OBVIOUS
    <3> QED BY <1>1, <1>2, <2>1, <3>1, <3>3, <3>4, Zenon DEF LineInv
  <2> QED BY <2>2, <2>3
<1>3. CASE mode # "paste"
  <2>0. MainLoop(k)
    BY <1>3, Zenon DEF Returned
  <2>1. keys' \in Seq(Int)
    <3>1. keys' = Append(keys, k)
      BY <2>0, Zenon DEF MainLoop
    <3> QED BY <1>1, <3>1, MoreNumbers, Zenon
  <2>2. mode' \in {"keys", "paste", "verbatim"}
    <3>1. mode' = (CASE k = PASTE_START -> "paste" [] k = Control(86) -> "verbatim"
                     [] OTHER -> "keys")
      BY <2>0, Zenon DEF MainLoop
    <3>2. mode' = "paste" \/ mode' = "verbatim" \/ mode' = "keys"
      BY <3>1
    <3> QED BY <3>2, Zenon
  <2>3. buf' = <<>>
    BY <2>0, Zenon DEF MainLoop
  <2>4. Len(buf') < MaxEscSeq
    <3>1. MaxEscSeq \in Nat \ {0}
      BY TerminalInputAssumption
    <3> QED BY <2>3, <3>1
  <2>5. buf' \in Seq(Int)
    BY <2>3, MoreNumbers, Zenon
  <2>6. text' \in Seq(Int)
    <3>1. text' = IF k = 0 THEN text ELSE text \o Inserted(k)
      BY <2>0, Zenon DEF MainLoop
    <3>2. Inserted(k) \in Seq(Int)
      <4>1. <<k>> \in Seq(Int)
        OBVIOUS
      <4>2. Inserted(k) = <<k>> \/ Inserted(k) = <<>>
        BY Zenon DEF Inserted
      <4> QED BY <4>1, <4>2, MoreNumbers, Zenon
    <3>3. text \o Inserted(k) \in Seq(Int)
      BY <1>1, <3>2, MoreNumbers, Zenon
    <3> QED BY <1>1, <3>1, <3>3, Zenon
  <2> QED BY <2>1, <2>2, <2>4, <2>5, <2>6, Zenon DEF LineInv
<1> QED BY <1>2, <1>3

\* A verbatim insert that ends.
LEMMA VerbatimKeeps ==
  ASSUME LineInv, NEW all \in Seq(Int), VerbatimDone(all), keys' = keys
  PROVE  LineInv'
<1>1. keys \in Seq(Int) /\ text \in Seq(Int)
  BY Zenon DEF LineInv
<1>2. mode' = "keys" /\ buf' = <<>> /\ text' = text \o all
  BY Zenon DEF VerbatimDone
<1>3. text' \in Seq(Int) /\ buf' \in Seq(Int)
  BY <1>1, <1>2, MoreNumbers, Zenon
<1>4. "keys" # "verbatim"
  OBVIOUS
<1> QED BY <1>1, <1>2, <1>3, <1>4, Zenon DEF LineInv

\* What the reader returns is a number.
LEMMA CharacterIsNumber == ASSUME ReaderInv, input # <<>> PROVE NextChar \in Int
<1>1. PICK j \in DOMAIN typed : Outcome(typed[j], Reader(Head(input)))
  <2>1. Sound(input, typed) /\ KeptInv /\ SureInv
    BY Zenon DEF ReaderInv
  <2> QED BY <2>1, ReaderOutcome
<1>2. Reader(Head(input)).char \in Nat \/ Reader(Head(input)).char = NoChar
  BY <1>1, Zenon DEF Outcome, Completes, Continues, Loses
<1>3. NoChar \in Int /\ \A n \in Nat : n \in Int
  BY DEF NoChar
<1> QED BY <1>2, <1>3, Zenon DEF NextChar

\* The first bytes of a character of several.
HighPart(b, k) == SubSeq(b, 1, k) \in Seq(128..255) /\ Len(SubSeq(b, 1, k)) = k

\* They are none of ASCII.
LEMMA PartIsHigh ==
  ASSUME NEW b \in Seq(Byte), OneCharacter(b), NEW n \in Nat, n = Len(b), NEW k \in 1..(n - 1)
  PROVE  HighPart(b, k)
<1>1. BytesAre(b)
  BY BytesOf
<1>3. n # 1
  OBVIOUS
<1>4. PICK u : u = SubSeq(b, 1, k)
  OBVIOUS
<1>5. Len(u) = k /\ DOMAIN u = 1..k /\ (\A i \in 1..k : u[i] = b[i]) /\ u \in Seq(Byte)
  BY <1>4
<1>6. ASSUME NEW i \in 1..k PROVE u[i] \in 128..255
  <2>1. i = 1 \/ i \in 2..Len(b)
    OBVIOUS
  <2>2. (\A j \in 2..Len(b) : b[j] \in 128..191) /\ b[1] \in 194..244
    BY <1>1, <1>3, Zenon DEF BytesAre
  <2>3. b[i] \in 128..255
    BY <2>1, <2>2
  <2> QED BY <1>5, <2>3, Zenon
<1>7. u \in Seq(128..255)
  BY <1>5, <1>6
<1> QED BY <1>4, <1>5, <1>7, Zenon DEF HighPart

\* How many they are.
LEMMA PartIs ==
  ASSUME NEW r \in Nat, NEW s \in Int, NEW n \in 1..4, s < r, r < s + n
  PROVE  r - s \in 1..(n - 1) /\ n \in Nat /\ r - s <= 4
OBVIOUS

\* Four bytes at most are kept, none of them of ASCII.
LEMMA KeptIs == ASSUME ReaderInv PROVE utf8 \in Seq(128..255) /\ Len(utf8) <= 4
<1>1. KeptInv /\ Sound(input, typed)
  BY Zenon DEF ReaderInv
<1>2. CASE utf8 = <<>>
  BY <1>2
<1>3. CASE Broken(utf8)
  <2>1. utf8 \in Seq(128..255) /\ Len(utf8) \in 1..4
    BY <1>3, Zenon DEF Broken
  <2>2. \A n \in 1..4 : n <= 4
    OBVIOUS
  <2> QED BY <2>1, <2>2, Zenon
<1>4. CASE \E j \in DOMAIN typed : Partial(typed[j], utf8, read)
  <2>1. PICK j \in DOMAIN typed : Partial(typed[j], utf8, read)
    BY <1>4, Zenon
  <2>2. typed[j] \in Entry /\ IsChar(typed[j])
    <3>1. typed \in Seq(Entry) /\ \A k \in DOMAIN typed : IsChar(typed[k])
      BY <1>1, Zenon DEF Sound
    <3> QED BY <3>1
  <2>3. PICK b \in Seq(Byte), n \in 1..4, s \in Int, e \in Nat :
          /\ b = typed[j].bytes /\ n = Len(b) /\ s = Start(typed[j]) /\ e = typed[j].end
          /\ e = s + n
    BY <2>2, EntryIs
  <2>4. OneCharacter(b)
    BY <2>1, <2>2, <2>3, Zenon DEF Partial, IsChar
  <2>5. read \in Nat
    BY <1>1, Zenon DEF Sound
  <2>6. s < read /\ read < e /\ utf8 = SubSeq(b, 1, read - s)
    BY <2>1, <2>3, Zenon DEF Partial
  <2>7. read - s \in 1..(n - 1) /\ n \in Nat /\ read - s <= 4
    <3>1. read < s + n
      BY <2>3, <2>6, Zenon
    <3> QED BY <2>5, <2>6, <3>1, PartIs, Zenon
  <2>8. PICK k \in 1..(n - 1) : k = read - s
    BY <2>7, Zenon
  <2>9. HighPart(b, k)
    BY <2>3, <2>4, <2>7, PartIsHigh, Zenon
  <2>10. utf8 = SubSeq(b, 1, k) /\ k <= 4
    BY <2>6, <2>7, <2>8, Zenon
  <2> QED BY <2>9, <2>10, Zenon DEF HighPart
<1> QED BY <1>1, <1>2, <1>3, <1>4, Zenon DEF KeptInv

\* read_char() ends a key, or goes on in another table.
LEMMA ReadCharKeeps == ASSUME StateInv, ReadChar PROVE MInv' /\ LineInv' /\ RecordInv'
<1>1. ReaderInv /\ MInv /\ LineInv /\ RecordInv
  BY Zenon DEF StateInv
<1>2. input # <<>> /\ ReadByte /\ mode \in {"keys", "paste"}
  BY Zenon DEF ReadChar, ReadCharacter
<1>3. NextChar \in Int
  BY <1>1, <1>2, CharacterIsNumber
<1>4. hungUp' = hungUp /\ units' = units /\ foreign' = foreign
  <2>1. UNCHANGED <<hungUp, ghosts>>
    BY <1>2, Zenon DEF ReadByte
  <2> QED BY <2>1 DEF ghosts
<1>5. RecordInv'
  BY <1>1, <1>4, Zenon DEF RecordInv
<1>6. CASE NextChar = 0
  <2>1. prefix' = <<>> /\ mods' = mods /\ Returned(0)
    BY <1>6, Zenon DEF ReadChar
  <2>2. MInv'
    BY <1>1, <2>1, Zenon DEF MInv, Leads
  <2>3. LineInv'
    BY <1>1, <2>1, ReturnedKeeps
  <2> QED BY <1>5, <2>2, <2>3
<1>7. CASE NextChar # 0
  <2>1. PICK d : d = Dispatch(NextChar)
    OBVIOUS
  <2>2. /\ prefix' = d.prefix /\ mods' = d.mods
        /\ IF d.key = NoKey THEN UNCHANGED <<mode, buf, keys, text>> ELSE Returned(Humanized(d.key))
    BY <1>7, <2>1, Zenon DEF ReadChar
  <2>3. Dispatched(d)
    BY <1>1, <1>3, <2>1, DispatchIs
  <2>4. MInv'
    BY <2>2, <2>3, Zenon DEF Dispatched, MInv, Leads
  <2>5. CASE d.key = NoKey
    <3>1. mode' = mode /\ buf' = buf /\ keys' = keys /\ text' = text
      BY <2>2, <2>5
    <3>2. LineInv'
      BY <1>1, <3>1, Zenon DEF LineInv
    <3> QED BY <1>5, <2>4, <3>2
  <2>6. CASE d.key # NoKey
    <3>1. PICK k \in Int : k = d.key
      BY <2>3, Zenon DEF Dispatched
    <3>2. Humanized(k) \in Int
      <4>1. ControlToHuman(k) \in Int
        BY DEF ControlToHuman
      <4>2. Control(ControlToHuman(k)) \in Int
        BY <4>1, KeysAreNumbers
      <4> QED BY <4>2, Zenon DEF Humanized
    <3>3. Returned(Humanized(k))
      BY <2>2, <2>6, <3>1, Zenon
    <3>4. LineInv'
      BY <1>1, <3>2, <3>3, ReturnedKeeps
    <3> QED BY <1>5, <2>4, <3>4
  <2> QED BY <2>5, <2>6
<1> QED BY <1>6, <1>7

\* read_verbatim() takes a character.
LEMMA ReadVerbatimKeeps == ASSUME StateInv, ReadVerbatim PROVE MInv' /\ LineInv' /\ RecordInv'
<1>1. ReaderInv /\ MInv /\ LineInv /\ RecordInv
  BY Zenon DEF StateInv
<1>2. input # <<>> /\ ReadByte /\ mode = "verbatim"
  BY Zenon DEF ReadVerbatim, ReadCharacter
<1>3. NextChar \in Int
  BY <1>1, <1>2, CharacterIsNumber
<1>4. hungUp' = hungUp /\ units' = units /\ foreign' = foreign
  <2>1. UNCHANGED <<hungUp, ghosts>>
    BY <1>2, Zenon DEF ReadByte
  <2> QED BY <2>1 DEF ghosts
<1>5. RecordInv'
  BY <1>1, <1>4, Zenon DEF RecordInv
<1>6. prefix' = prefix /\ mods' = mods /\ keys' = keys
  BY DEF ReadVerbatim
<1>7. MInv'
  BY <1>1, <1>6, Zenon DEF MInv, Leads
<1>8. PICK all \in Seq(Int), l \in Nat : all = Append(buf, NextChar) /\ l = Len(buf) /\ Len(all) = l + 1
  <2>1. buf \in Seq(Int)
    BY <1>1, Zenon DEF LineInv
  <2>2. Append(buf, NextChar) \in Seq(Int) /\ Len(Append(buf, NextChar)) = Len(buf) + 1
    BY <1>3, <2>1, MoreNumbers, Zenon
  <2>3. Len(buf) \in Nat
    BY <2>1
  <2> QED BY <2>2, <2>3, Zenon
<1>9. \/ VerbatimDone(buf) \/ VerbatimDone(all)
      \/ Len(all) # MaxEscSeq /\ mode' = mode /\ buf' = all /\ text' = text
  BY <1>8, Zenon DEF ReadVerbatim
<1>10. buf \in Seq(Int) /\ keys \in Seq(Int) /\ text \in Seq(Int) /\ Len(buf) < MaxEscSeq
  BY <1>1, <1>2, Zenon DEF LineInv
<1>11. CASE VerbatimDone(buf)
  <2>1. LineInv'
    BY <1>1, <1>6, <1>10, <1>11, VerbatimKeeps
  <2> QED BY <1>5, <1>7, <2>1
<1>12. CASE VerbatimDone(all)
  <2>1. all \in Seq(Int)
    BY Zenon
  <2>2. LineInv'
    BY <1>1, <1>6, <1>12, <2>1, VerbatimKeeps
  <2> QED BY <1>5, <1>7, <2>2
<1>13. CASE Len(all) # MaxEscSeq /\ mode' = mode /\ buf' = all /\ text' = text
  <2>1. Len(all) < MaxEscSeq
    <3>1. PICK m \in Nat : m = MaxEscSeq
      BY TerminalInputAssumption
    <3>2. l < m /\ l + 1 # m
      BY <1>8, <1>10, <1>13, <3>1, Zenon
    <3>3. l + 1 < m
      BY <3>2
    <3> QED BY <1>8, <3>1, <3>3, Zenon
  <2>2. all \in Seq(Int)
    BY Zenon
  <2>3. LineInv'
    BY <1>2, <1>6, <1>10, <1>13, <2>1, <2>2, Zenon DEF LineInv
  <2> QED BY <1>5, <1>7, <2>3
<1> QED BY <1>9, <1>11, <1>12, <1>13

\* Whatever happens.
LEMMA OthersKeep == ASSUME StateInv, [Next]_vars PROVE MInv' /\ LineInv' /\ RecordInv'
<1>0. ReaderInv /\ MInv /\ LineInv /\ RecordInv
  BY Zenon DEF StateInv
<1>1. CASE /\ UNCHANGED <<prefix, mods, mode, buf, keys, text>>
           /\ UNCHANGED <<hungUp, units, foreign>>
  <2>1. /\ prefix' = prefix /\ mods' = mods /\ mode' = mode /\ buf' = buf /\ keys' = keys
        /\ text' = text /\ hungUp' = hungUp /\ units' = units /\ foreign' = foreign
    BY <1>1
  <2> QED BY <1>0, <2>1, Zenon DEF MInv, Leads, LineInv, RecordInv
<1>2. CASE AwaitRest
  <2>1. UNCHANGED <<prefix, mods, mode, buf, keys, text>> /\ UNCHANGED <<hungUp, ghosts>>
    BY <1>2, Zenon DEF AwaitRest, ReadByte
  <2>2. UNCHANGED <<hungUp, units, foreign>>
    BY <2>1 DEF ghosts
  <2> QED BY <1>1, <2>1, <2>2
<1>3. CASE ReadChar
  BY <1>3, ReadCharKeeps
<1>4. CASE ReadVerbatim
  BY <1>4, ReadVerbatimKeeps
<1>5. CASE EndOfInput
  <2>1. ReadNothing /\ prefix' = <<>> /\ mods' = mods /\ Returned(0)
    BY <1>5, Zenon DEF EndOfInput
  <2>2. hungUp' = hungUp /\ units' = units /\ foreign' = foreign
    BY <2>1 DEF ReadNothing, ghosts
  <2>3. MInv' /\ RecordInv'
    BY <1>0, <2>1, <2>2, Zenon DEF MInv, Leads, RecordInv
  <2>4. LineInv'
    BY <1>0, <2>1, ReturnedKeeps
  <2> QED BY <2>3, <2>4
<1>6. CASE VerbatimEmpty
  <2>1. VerbatimDone(buf) /\ UNCHANGED <<input, hungUp, utf8, prefix, mods, keys, read, chars, ghosts>>
    BY <1>6, Zenon DEF VerbatimEmpty
  <2>2. /\ hungUp' = hungUp /\ units' = units /\ foreign' = foreign
        /\ prefix' = prefix /\ mods' = mods /\ keys' = keys
    BY <2>1 DEF ghosts
  <2>3. MInv' /\ RecordInv'
    BY <1>0, <2>2, Zenon DEF MInv, Leads, RecordInv
  <2>4. buf \in Seq(Int)
    BY <1>0, Zenon DEF LineInv
  <2>5. LineInv'
    BY <1>0, <2>1, <2>2, <2>4, VerbatimKeeps
  <2> QED BY <2>3, <2>5
<1>7. CASE VerbatimEnd
  <2>1. ReadNothing /\ VerbatimDone(<<0>>) /\ UNCHANGED <<prefix, mods, keys>>
    BY <1>7, Zenon DEF VerbatimEnd
  <2>2. hungUp' = hungUp /\ units' = units /\ foreign' = foreign
    BY <2>1 DEF ReadNothing, ghosts
  <2>3. prefix' = prefix /\ mods' = mods /\ keys' = keys
    BY <2>1
  <2>4. MInv' /\ RecordInv'
    BY <1>0, <2>2, <2>3, Zenon DEF MInv, Leads, RecordInv
  <2>5. <<0>> \in Seq(Int)
    OBVIOUS
  <2>6. LineInv'
    BY <1>0, <2>1, <2>3, <2>5, VerbatimKeeps
  <2> QED BY <2>4, <2>6
<1>8. ASSUME NEW u \in Units, Type(u) PROVE MInv' /\ LineInv' /\ RecordInv'
  <2>1. units < MaxUnits /\ units' = units + 1 /\ foreign' = (foreign \/ u.foreign)
    BY <1>8, Zenon DEF Type
  <2>2. UNCHANGED <<hungUp, utf8, prefix, mods, mode, buf, keys, text, read, chars>>
    BY <1>8, Zenon DEF Type
  <2>3. /\ prefix' = prefix /\ mods' = mods /\ mode' = mode /\ buf' = buf /\ keys' = keys
        /\ text' = text /\ hungUp' = hungUp
    BY <2>2
  <2>4. units' \in 0..MaxUnits
    <3>1. units \in 0..MaxUnits /\ MaxUnits \in Nat
      BY <1>0, TerminalInputAssumption, Zenon DEF RecordInv
    <3> QED BY <2>1, <3>1
  <2>5. foreign' \in BOOLEAN
    BY <2>1, Zenon
  <2> QED BY <1>0, <2>3, <2>4, <2>5, Zenon DEF MInv, Leads, LineInv, RecordInv
<1>9. ASSUME NEW n \in 0..Len(input), HangUp(n) PROVE MInv' /\ LineInv' /\ RecordInv'
  <2>1. hungUp' = TRUE /\ foreign' = (foreign \/ n < Len(input))
    BY <1>9, Zenon DEF HangUp
  <2>2. UNCHANGED <<utf8, prefix, mods, mode, buf, keys, text, units, typed, read, chars,
                    dueKeys, dueText>>
    BY <1>9, Zenon DEF HangUp
  <2>3. /\ prefix' = prefix /\ mods' = mods /\ mode' = mode /\ buf' = buf /\ keys' = keys
        /\ text' = text /\ units' = units
    BY <2>2
  <2>4. foreign' \in BOOLEAN
    BY <2>1, Zenon
  <2> QED BY <1>0, <2>1, <2>3, <2>4, Zenon DEF MInv, Leads, LineInv, RecordInv
<1>10. CASE UNCHANGED vars
  <2>1. UNCHANGED <<prefix, mods, mode, buf, keys, text>> /\ UNCHANGED <<hungUp, units, foreign>>
    BY <1>10 DEF vars
  <2> QED BY <1>1, <2>1
<1> QED BY <1>2, <1>3, <1>4, <1>5, <1>6, <1>7, <1>8, <1>9, <1>10, Zenon DEF Next

\* What is kept while a character, a key, a paste or a verbatim insert is read is
\* what the code allows: at most four bytes of one character, a table that exists,
\* each modifier at most once, no more than the buffer of the insert holds.
THEOREM Typing == Spec => []TypeOK
<1>1. Init => StateInv
  <2> SUFFICES ASSUME Init PROVE StateInv
    OBVIOUS
  <2>1. ReaderInv
    BY ReaderInit
  <2>2. /\ prefix = <<>> /\ mods = 0 /\ mode = "keys" /\ buf = <<>> /\ keys = <<>> /\ text = <<>>
        /\ hungUp = FALSE /\ units = 0 /\ foreign = FALSE
    BY DEF Init
  <2>3. MInv
    BY <2>2, DispatchNumbers, Zenon DEF MInv, Leads
  <2>4. "keys" # "verbatim"
    OBVIOUS
  <2>5. LineInv
    BY <2>2, <2>4, MoreNumbers, Zenon DEF LineInv
  <2>6. 0 \in 0..MaxUnits
    BY TerminalInputAssumption
  <2>7. RecordInv
    BY <2>2, <2>6, Zenon DEF RecordInv
  <2> QED BY <2>1, <2>3, <2>5, <2>7, Zenon DEF StateInv
<1>2. StateInv /\ [Next]_vars => StateInv'
  <2> SUFFICES ASSUME StateInv, [Next]_vars PROVE StateInv'
    OBVIOUS
  <2>1. ReaderInv'
    <3>1. ReaderInv
      BY Zenon DEF StateInv
    <3> QED BY <3>1, ReaderStep
  <2>2. MInv' /\ LineInv' /\ RecordInv'
    BY OthersKeep
  <2> QED BY <2>1, <2>2, Zenon DEF StateInv
<1>3. StateInv => TypeOK
  <2> SUFFICES ASSUME StateInv PROVE TypeOK
    OBVIOUS
  <2>1. ReaderInv /\ MInv /\ LineInv /\ RecordInv
    BY Zenon DEF StateInv
  <2>2. input \in Seq(Byte) /\ read \in Nat
    BY <2>1, Zenon DEF ReaderInv, Sound
  <2>3. utf8 \in Seq(128..255) /\ Len(utf8) <= 4
    BY <2>1, KeptIs
  <2>4. prefix \in Tables \cup {<<>>, <<"ESC">>} /\ mods \in AnyMods
    BY <2>1, Zenon DEF MInv, Leads
  <2> QED BY <2>1, <2>2, <2>3, <2>4, Zenon DEF TypeOK, AnyMods, LineInv, RecordInv
<1> QED BY <1>1, <1>2, <1>3, PTL DEF Spec

=============================================================================
