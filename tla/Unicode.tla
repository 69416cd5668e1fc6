------------------------------ MODULE Unicode ------------------------------
(***************************************************************************)
(* ConvertUTF.cpp and conversion.cxx: UTF-8 in and out.  A text is a        *)
(* sequence of code points, its encoding a sequence of bytes.  Locales with *)
(* an 8-bit encoding are left out.                                          *)
(***************************************************************************)
EXTENDS Integers, SequencesExt

Byte == 0..255
MaxLegalUTF32 == 1114111   \* 0x10FFFF
ReplacementChar == 65533   \* 0xFFFD
Surrogates == 55296..57343 \* 0xD800..0xDFFF

TrailingBytes(lead) ==
  CASE lead < 192 -> 0 [] lead \in 192..223 -> 1 [] lead \in 224..239 -> 2
    [] lead \in 240..247 -> 3 [] lead \in 248..251 -> 4 [] lead > 251 -> 5

\* The second byte a lead byte may be followed by.
SecondByte(lead) ==
  CASE lead = 224 -> 160..191 [] lead = 237 -> 128..159
    [] lead = 240 -> 144..191 [] lead = 244 -> 128..143
    [] OTHER -> 128..191

\* bytes is as long as its first byte says.
IsLegalUTF8(bytes) ==
  /\ Len(bytes) \in 1..4
  /\ \A i \in 3..Len(bytes) : bytes[i] \in 128..191
  /\ Len(bytes) > 1 => bytes[2] \in SecondByte(bytes[1])
  /\ bytes[1] \notin 128..193 /\ bytes[1] <= 244

\* The lead byte's payload, then six bits of every byte that follows.
Shifted(ch, byte) == ch * 64 + (byte % 64)
CodePoint(b) ==
  IF Len(b) = 1 THEN b[1]
  ELSE IF Len(b) = 2 THEN Shifted(b[1] % 32, b[2])
  ELSE IF Len(b) = 3 THEN Shifted(Shifted(b[1] % 16, b[2]), b[3])
  ELSE Shifted(Shifted(Shifted(b[1] % 8, b[2]), b[3]), b[4])

\* A lenient conversion replaces surrogates, which isLegalUTF8 has refused.
Lenient(ch) == IF ch \in Surrogates THEN ReplacementChar ELSE ch

Illegal == [ok |-> FALSE, text |-> <<>>]

\* copyString8to32: nothing unless all the bytes are legal.
CopyString8to32(bytes) ==
  LET from[i \in 1..(Len(bytes) + 1)] ==
        IF i > Len(bytes) THEN [ok |-> TRUE, text |-> <<>>]
        ELSE LET last == i + TrailingBytes(bytes[i])
                 one == SubSeq(bytes, i, last)
                 rest == from[last + 1]
             IN IF last > Len(bytes) THEN Illegal
                ELSE IF ~IsLegalUTF8(one) \/ ~rest.ok THEN Illegal
                ELSE [ok |-> TRUE, text |-> <<Lenient(CodePoint(one))>> \o rest.text]
  IN from[1]

BytesToWrite(ch) ==
  IF ch < 128 THEN 1 ELSE IF ch < 2048 THEN 2 ELSE IF ch < 65536 THEN 3 ELSE 4

\* Six bits of the code point in each byte behind the first.
Six(n) == 128 + (n % 64)
Rest(n) == n \div 64
Encoded(ch) ==
  LET length == BytesToWrite(ch)
  IN IF length = 1 THEN <<ch>>
     ELSE IF length = 2 THEN <<192 + Rest(ch), Six(ch)>>
     ELSE IF length = 3 THEN <<224 + Rest(Rest(ch)), Six(Rest(ch)), Six(ch)>>
     ELSE <<240 + Rest(Rest(Rest(ch))), Six(Rest(Rest(ch))), Six(Rest(ch)), Six(ch)>>

\* copyString32to8: no bytes at all if one of the characters is not Unicode,
\* which a key code that got into the text is not.
CopyString32to8(text) ==
  IF \A i \in DOMAIN text : text[i] \in 0..MaxLegalUTF32
  THEN FoldLeft(LAMBDA bytes, ch : bytes \o Encoded(ch), <<>>, text)
  ELSE <<>>

=============================================================================
