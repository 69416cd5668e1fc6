--------------------------- MODULE TerminalInput ---------------------------
(***************************************************************************)
(* What the library makes of the bytes a terminal sends: the UTF-8 reader   *)
(* read_unicode_character(), the dispatch tables of escape.cxx behind       *)
(* Terminal::read_char(), bracketed paste and verbatim insert.              *)
(*                                                                         *)
(* The user types units: a key, a character, a paste, an unknown escape     *)
(* sequence or a broken byte.  Their bytes arrive one after the other while *)
(* the library reads; a read blocks until a byte is there, except within    *)
(* read_verbatim().  Of the line only the text that was put into it is kept, *)
(* in the order in which it was (editing is the business of LineEditor).    *)
(***************************************************************************)
EXTENDS Unicode, FiniteSets, TLC

CONSTANTS
  Units,     \* what may be typed: [chars, keys, text, foreign]
  MaxUnits,  \* bound: of the units typed
  MaxEscSeq  \* the size of verbatim_insert()'s buffer

\* A character of Unicode in UTF-8, or a byte that no character begins with.
Invalid == -1
Characters ==
  {ch \in [code : Int, bytes : Seq(Byte)] :
     IF ch.code = Invalid THEN Len(ch.bytes) = 1 /\ ch.bytes[1] \in 128..193 \cup 245..255
     ELSE /\ IsLegalUTF8(ch.bytes) /\ Len(ch.bytes) = 1 + TrailingBytes(ch.bytes[1])
          /\ ch.code = CodePoint(ch.bytes)}

ASSUME TerminalInputAssumption ==
  /\ {MaxUnits, MaxEscSeq} \subseteq Nat \ {0}
  /\ Units \subseteq [chars : Seq(Characters), keys : Seq(Int), text : Seq(Byte),
                      foreign : BOOLEAN]

VARIABLES
  input,     \* bytes sent and not yet read
  hungUp,    \* the terminal is gone: behind the input is its end
  utf8,      \* read_unicode_character()'s utf8String
  prefix,    \* the dispatch table in use, as the characters that led to it
  mods,      \* thisKeyMetaCtrl
  mode,      \* "keys", or "paste" or "verbatim" within these actions
  buf,       \* the buffer of these actions
  keys,      \* what read_char() returned to the main loop
  text,      \* what was put into the line
  \* The rest records what happened, for the properties.
  units,     \* number of units typed
  typed,     \* the characters that were typed, with the offset of their end
             \* and whether they are sure to be read
  read,      \* number of bytes read
  chars,     \* the characters read, with the offset of their end
  dueKeys,   \* what read_char() should return for what was typed
  dueText,   \* the bytes of the text that was typed
  foreign    \* whether something was typed that need not be decoded as sent

vars == <<input, hungUp, utf8, prefix, mods, mode, buf, keys, text,
          units, typed, read, chars, dueKeys, dueText, foreign>>

ghosts == <<units, typed, dueKeys, dueText, foreign>>

-----------------------------------------------------------------------------
(* Key codes.                                                               *)

BASE_SHIFT == 16777216
BASE_CONTROL == 33554432
BASE_META == 67108864
ESCAPE == 27

PAGE_UP == MaxLegalUTF32 + 2
PAGE_DOWN == PAGE_UP + 1
DOWN == PAGE_UP + 2
UP == PAGE_UP + 3
LEFT == PAGE_UP + 4
RIGHT == PAGE_UP + 5
HOME == PAGE_UP + 6
END == PAGE_UP + 7
DELETE == PAGE_UP + 8
INSERT == PAGE_UP + 9
F(n) == INSERT + n
PASTE_START == F(24) + 2
PASTE_FINISH == PASTE_START + 1

\* key | bit, where bit is one of the three masks
Or(key, bit) == IF (key \div bit) % 2 = 1 THEN key ELSE key + bit
Control(ch) == BASE_CONTROL + ch
BACKSPACE == Control(72)
TAB == Control(73)
ENTER == Control(77)

IsControlCode(c) == c \in 0..31 \cup 127..159
ControlToHuman(c) == IF c < 27 THEN c + 64 ELSE c + 24

Failure == -1

-----------------------------------------------------------------------------
(* The tables of escape.cxx, as the sequences of characters behind ESC that *)
(* they accept.  The characters are written as strings.                     *)

\* Printable characters of ASCII that appear in the tables.
Symbol ==
  27 :> "ESC" @@ 126 :> "~" @@ 59 :> ";" @@ 91 :> "["
  @@ [i \in 48..57 |-> <<"0", "1", "2", "3", "4", "5", "6", "7", "8", "9">>[i - 47]]
  @@ [i \in 65..90 |-> <<"A", "B", "C", "D", "E", "F", "G", "H", "I", "J", "K",
        "L", "M", "N", "O", "P", "Q", "R", "S", "T", "U", "V", "W", "X", "Y", "Z">>[i - 64]]
  @@ [i \in 97..100 |-> <<"a", "b", "c", "d">>[i - 96]]

Written(c) == IF c \in DOMAIN Symbol THEN Symbol[c] ELSE "other"

Arrows == [A |-> UP, B |-> DOWN, C |-> RIGHT, D |-> LEFT, H |-> HOME, F |-> END]
FirstFunctionKeys == [P |-> F(1), Q |-> F(2), R |-> F(3), S |-> F(4)]

Modifier == [i \in {"2", "3", "5"} |->
               CASE i = "2" -> BASE_SHIFT [] i = "3" -> BASE_META [] i = "5" -> BASE_CONTROL]

\* A table with one final routine per entry of the function last.
Ending(start, last) == {<<Append(start, c), last[c]>> : c \in DOMAIN last}
Letters(start) == Ending(start, Arrows) \cup Ending(start, FirstFunctionKeys)
Tilde(start, key) == <<Append(start, "~"), key>>

\* ESC [ 1 ; 2, 3 or 5
Modified1 ==
  UNION {Letters(<<"[", "1", ";", m>>) : m \in DOMAIN Modifier}

\* ESC [ n ~, ESC [ n ; 2 ~ and ESC [ n ; 5 ~
FunctionKey(n, key) ==
  {Tilde(<<"[">> \o n \o m, key) : m \in {<<>>, <<";", "2">>, <<";", "5">>}}
F5ToF8 ==
  UNION {FunctionKey(<<"1", "5">>, F(5)), FunctionKey(<<"1", "7">>, F(6)),
         FunctionKey(<<"1", "8">>, F(7)), FunctionKey(<<"1", "9">>, F(8))}
F9ToF12 ==
  UNION {FunctionKey(<<"2", "0">>, F(9)), FunctionKey(<<"2", "1">>, F(10)),
         FunctionKey(<<"2", "3">>, F(11)), FunctionKey(<<"2", "4">>, F(12))}

Paste == {Tilde(<<"[", "2", "0", "0">>, PASTE_START), Tilde(<<"[", "2", "0", "1">>, PASTE_FINISH)}

\* ESC [ digit ~
Digits ==
  {Tilde(<<"[", "1">>, HOME), Tilde(<<"[", "2">>, INSERT), Tilde(<<"[", "3">>, DELETE),
   Tilde(<<"[", "4">>, END), Tilde(<<"[", "7">>, HOME), Tilde(<<"[", "8">>, END)}

\* ESC [ 5 ~ and ESC [ 6 ~, and both with ; 5
Pages ==
  {Tilde(<<"[", "5">> \o m, PAGE_UP) : m \in {<<>>, <<";", "5">>}}
  \cup {Tilde(<<"[", "6">> \o m, PAGE_DOWN) : m \in {<<>>, <<";", "5">>}}

\* ESC [ letter; Z stands for shift-Tab.
LeftBracket == Ending(<<"[">>, Arrows) \cup {<< <<"[", "Z">>, BASE_SHIFT + TAB>>}

\* ESC O letter
LetterO ==
  Letters(<<"O">>)
  \cup Ending(<<"O">>, [a |-> Control(UP), b |-> Control(DOWN), c |-> Control(RIGHT),
                        d |-> Control(LEFT)])

Pairs == UNION {Modified1, F5ToF8, F9ToF12, Paste, Digits, Pages, LeftBracket, LetterO}
Sequences == [s \in {pair[1] : pair \in Pairs} |-> (CHOOSE pair \in Pairs : pair[1] = s)[2]]
Tables == UNION {{SubSeq(s, 1, n) : n \in 1..(Len(s) - 1)} : s \in DOMAIN Sequences}

\* The modifier a routine adds on its way to the table of s.
WithModifier(s) ==
  IF Len(s) > 1 /\ s[Len(s) - 1] = ";" THEN Or(mods, Modifier[Last(s)]) ELSE mods

-----------------------------------------------------------------------------
(* doDispatch: the next table, or the key that ends the dispatch.           *)

NoKey == -2
Continue(p, m) == [prefix |-> p, mods |-> m, key |-> NoKey]
Key(k, m) == [prefix |-> <<>>, mods |-> m, key |-> k]

InitialDispatch(c, m) ==
  IF c = ESCAPE THEN Continue(<<"ESC">>, m)
  ELSE IF c = 127 THEN Key(m + BACKSPACE, m)
  ELSE Key(m + c, m)

EscDispatch(c) ==
  IF Written(c) \in {"[", "O"} THEN Continue(<<Written(c)>>, mods)
  ELSE IF c = ESCAPE THEN Continue(<<"ESC">>, BASE_META)
  ELSE InitialDispatch(c, BASE_META)

TableDispatch(c) ==
  LET s == Append(prefix, Written(c))
  IN IF s \in DOMAIN Sequences
     THEN Key(IF Written(c) = "Z" THEN Sequences[s] ELSE mods + Sequences[s], mods)
     ELSE IF s \in Tables THEN Continue(s, WithModifier(s))
     ELSE Key(Failure, mods)

\* Bug: the modifiers of an earlier sequence stay set.
DispatchModified(c) ==
  CASE prefix = <<>> -> InitialDispatch(c, mods)
    [] prefix = <<"ESC">> -> EscDispatch(c)
    [] OTHER -> TableDispatch(c)

Dispatch(c) ==
  CASE prefix = <<>> -> InitialDispatch(c, 0)
    [] prefix = <<"ESC">> -> EscDispatch(c)
    [] OTHER -> TableDispatch(c)

\* What read_char() does with what doDispatch() returned.
Humanized(k) == IF IsControlCode(k) THEN Control(ControlToHuman(k)) ELSE k

-----------------------------------------------------------------------------
(* read_unicode_character.                                                  *)

NoChar == -1

\* Bugs: a fifth byte, and a broken character that outlives one of ASCII.
ReaderFive(b) ==
  LET some == Append(utf8, b)
      converted == CopyString8to32(some)
  IN IF b <= 127 THEN [utf8 |-> <<>>, char |-> b]
     ELSE IF Len(utf8) > 4 THEN [utf8 |-> <<>>, char |-> NoChar]
     ELSE IF converted.ok THEN [utf8 |-> <<>>, char |-> converted.text[1]]
     ELSE [utf8 |-> some, char |-> NoChar]
ReaderKeepsBroken(b) ==
  LET some == Append(utf8, b)
      converted == CopyString8to32(some)
  IN IF b <= 127 THEN [utf8 |-> utf8, char |-> b]
     ELSE IF Len(utf8) = 4 THEN [utf8 |-> <<>>, char |-> NoChar]
     ELSE IF converted.ok THEN [utf8 |-> <<>>, char |-> converted.text[1]]
     ELSE [utf8 |-> some, char |-> NoChar]

\* What becomes of utf8String and whether a character is complete.
Reader(b) ==
  LET some == Append(utf8, b)
      converted == CopyString8to32(some)
  IN IF b <= 127 THEN [utf8 |-> <<>>, char |-> b]
     ELSE IF Len(utf8) = 4 THEN [utf8 |-> <<>>, char |-> NoChar]
     ELSE IF converted.ok /\ converted.text # <<>>
     THEN [utf8 |-> <<>>, char |-> converted.text[1]]
     ELSE [utf8 |-> some, char |-> NoChar]

NextChar == Reader(Head(input)).char

ReadByte ==
  /\ utf8' = Reader(Head(input)).utf8
  /\ input' = Tail(input)
  /\ read' = read + 1
  /\ chars' = IF NextChar > 0 THEN Append(chars, [code |-> NextChar, end |-> read + 1])
              ELSE chars
  /\ UNCHANGED <<hungUp, ghosts>>

\* The byte does not complete a character: the call reads on.
AwaitRest ==
  /\ input # <<>> /\ NextChar = NoChar
  /\ ReadByte
  /\ UNCHANGED <<prefix, mods, mode, buf, keys, text>>

\* The call returns NextChar.
ReadCharacter == input # <<>> /\ NextChar # NoChar /\ ReadByte

\* A read at the end of the input: the call returns 0.
ReadNothing ==
  /\ input = <<>>
  /\ UNCHANGED <<input, hungUp, utf8, read, chars, ghosts>>

-----------------------------------------------------------------------------
(* The main loop and the actions that read on their own.                    *)

\* insert_character takes no control codes and nothing beyond Unicode.
Inserted(k) ==
  IF k \in 0..MaxLegalUTF32 /\ (~IsControlCode(k) \/ k = 10) THEN <<k>> ELSE <<>>

\* read_char() returned k to the main loop, which begins a paste, a verbatim
\* insert, or inserts it (0 ends the line; the other keys' handlers are left out).
MainLoop(k) ==
  /\ keys' = Append(keys, k)
  /\ mode' = CASE k = PASTE_START -> "paste" [] k = Control(86) -> "verbatim"
               [] OTHER -> "keys"
  /\ buf' = <<>>
  /\ text' = IF k = 0 THEN text ELSE text \o Inserted(k)

\* Bug: only the bare carriage return, which read_char() never returns.
PastedBare(k) == CASE k = 13 -> 10 [] k = TAB -> 9 [] OTHER -> k

\* What bracketed_paste() takes for a newline and a tab.
Pasted(k) == CASE k \in {13, ENTER} -> 10 [] k = TAB -> 9 [] OTHER -> k

\* read_char() returned k to bracketed_paste.
BracketedPaste(k) ==
  /\ IF k \in {0, PASTE_FINISH}
     THEN mode' = "keys" /\ buf' = <<>> /\ text' = text \o buf
     ELSE mode' = mode /\ buf' = Append(buf, Pasted(k)) /\ text' = text
  /\ keys' = keys

Returned(k) == IF mode = "paste" THEN BracketedPaste(k) ELSE MainLoop(k)

\* read_char(): a character ends a key or leads to the next table.
ReadChar ==
  /\ mode \in {"keys", "paste"}
  /\ ReadCharacter
  /\ IF NextChar = 0 THEN prefix' = <<>> /\ mods' = mods /\ Returned(0)
     ELSE LET d == Dispatch(NextChar)
          IN /\ prefix' = d.prefix /\ mods' = d.mods
             /\ IF d.key = NoKey THEN UNCHANGED <<mode, buf, keys, text>>
                ELSE Returned(Humanized(d.key))

\* read_char() at the end of the input returns 0, the next time again: here once.
EndOfInput ==
  /\ mode \in {"keys", "paste"}
  /\ hungUp /\ ReadNothing
  /\ ~(mode = "keys" /\ keys # <<>> /\ Last(keys) = 0)
  /\ prefix' = <<>> /\ mods' = mods
  /\ Returned(0)

VerbatimDone(all) == mode' = "keys" /\ buf' = <<>> /\ text' = text \o all

\* read_verbatim(): the first character is waited for, a 0 behind it ends it.
ReadVerbatim ==
  /\ mode = "verbatim"
  /\ ReadCharacter
  /\ LET all == Append(buf, NextChar)
     IN IF buf # <<>> /\ NextChar = 0 THEN VerbatimDone(buf)
        ELSE IF Len(all) = MaxEscSeq THEN VerbatimDone(all)
        ELSE mode' = mode /\ buf' = all /\ text' = text
  /\ UNCHANGED <<prefix, mods, keys>>

\* The read that must not block finds nothing: what was typed is still under way.
VerbatimEmpty ==
  /\ mode = "verbatim" /\ buf # <<>>
  /\ VerbatimDone(buf)
  /\ UNCHANGED <<input, hungUp, utf8, prefix, mods, keys, read, chars, ghosts>>

\* The first read is at the end of the input.
VerbatimEnd ==
  /\ mode = "verbatim" /\ buf = <<>>
  /\ hungUp /\ ReadNothing
  /\ VerbatimDone(<<0>>)
  /\ UNCHANGED <<prefix, mods, keys>>

-----------------------------------------------------------------------------
(* The user.                                                                *)

\* A character is sure to be read unless a broken byte came before it and no
\* character of ASCII in between.
Sending(sent, ch) ==
  LET first == sent.typed = <<>>
      end == IF first THEN 0 ELSE Last(sent.typed).end
      sure == IF first THEN TRUE ELSE Last(sent.typed).sure
  IN [input |-> sent.input \o ch.bytes,
      typed |-> Append(sent.typed,
                  [code |-> ch.code, bytes |-> ch.bytes, end |-> end + Len(ch.bytes),
                   sure |-> ch.code # Invalid /\ (sure \/ Len(ch.bytes) = 1)])]

Type(u) ==
  LET sent[i \in 0..Len(u.chars)] ==
        IF i = 0 THEN [input |-> input, typed |-> typed] ELSE Sending(sent[i - 1], u.chars[i])
  IN /\ units < MaxUnits /\ ~hungUp
     /\ units' = units + 1
     /\ input' = sent[Len(u.chars)].input /\ typed' = sent[Len(u.chars)].typed
     /\ dueKeys' = dueKeys \o u.keys
     /\ dueText' = dueText \o u.text
     /\ foreign' = (foreign \/ u.foreign)
     /\ UNCHANGED <<hungUp, utf8, prefix, mods, mode, buf, keys, text, read, chars>>

\* The terminal goes away, and what was under way with it.
HangUp(n) ==
  /\ ~hungUp
  /\ hungUp' = TRUE
  /\ input' = SubSeq(input, 1, n)
  /\ foreign' = (foreign \/ n < Len(input))
  /\ UNCHANGED <<utf8, prefix, mods, mode, buf, keys, text, units, typed, read, chars,
                 dueKeys, dueText>>

-----------------------------------------------------------------------------

Init ==
  /\ input = <<>> /\ hungUp = FALSE /\ utf8 = <<>> /\ prefix = <<>> /\ mods = 0
  /\ mode = "keys" /\ buf = <<>> /\ keys = <<>> /\ text = <<>>
  /\ units = 0 /\ typed = <<>> /\ read = 0 /\ chars = <<>>
  /\ dueKeys = <<>> /\ dueText = <<>> /\ foreign = FALSE

Next ==
  \/ AwaitRest \/ ReadChar \/ ReadVerbatim
  \/ EndOfInput \/ VerbatimEmpty \/ VerbatimEnd
  \/ \E u \in Units : Type(u)
  \/ \E n \in 0..Len(input) : HangUp(n)

Spec == Init /\ [][Next]_vars

-----------------------------------------------------------------------------
(* Properties.                                                              *)

\* The reader's buffer, the dispatch table and the modifiers are what their
\* code allows: four bytes, a table, each modifier at most once; a verbatim insert
\* does not read more than its buffer holds.
TypeOK ==
  /\ input \in Seq(Byte) /\ hungUp \in BOOLEAN
  /\ utf8 \in Seq(128..255) /\ Len(utf8) <= 4
  /\ prefix \in Tables \cup {<<>>, <<"ESC">>}
  /\ mods \in {0, BASE_SHIFT, BASE_CONTROL, BASE_META, BASE_META + BASE_SHIFT,
               BASE_META + BASE_CONTROL}
  /\ mode \in {"keys", "paste", "verbatim"}
  /\ buf \in Seq(Int) /\ (mode = "verbatim" => Len(buf) < MaxEscSeq)
  /\ keys \in Seq(Int) /\ text \in Seq(Int)
  /\ read \in Nat /\ units \in 0..MaxUnits /\ foreign \in BOOLEAN

\* Nothing is read that was not typed, and every character is read, in order
\* and whole: whatever was read before it, across the calls of read_char() and
\* read_verbatim() it is spread over, with no other loss than of characters
\* between a broken byte and the next character of ASCII.
CharactersExact ==
  /\ \A i \in DOMAIN chars : \E j \in DOMAIN typed :
       typed[j].code = chars[i].code /\ typed[j].end = chars[i].end
  /\ \A j \in DOMAIN typed : typed[j].sure /\ typed[j].end <= read /\ typed[j].code # 0 =>
       \E i \in DOMAIN chars :
         chars[i].code = typed[j].code /\ chars[i].end = typed[j].end

\* What a key means depends on its own bytes alone: the main loop gets the
\* keys that were typed, whatever sequences, known or not, were read before.
KeysExact == ~foreign => IsPrefix(SelectSeq(keys, LAMBDA k : k # 0), dueKeys)

\* Once all is read, the line that input() would return is the text that was
\* typed and pasted, in UTF-8.
TextRoundTrips ==
  ~foreign /\ input = <<>> /\ mode = "keys" => CopyString32to8(text) = dueText

=============================================================================
