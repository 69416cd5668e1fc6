-------------------------- MODULE MCTerminalInput --------------------------
(* What the user of the runs types, as xterm sends it.                      *)
EXTENDS TerminalInput

Char(ch) == [code |-> ch, bytes |-> Encoded(ch)]
Chars(codes) == [i \in DOMAIN codes |-> Char(codes[i])]

\* A key sent as the characters codes; text is what it inserts.
KeyUnit(codes, key) ==
  [chars |-> Chars(codes), keys |-> <<key>>, text |-> <<>>, foreign |-> FALSE]
TextUnit(bytes, code) ==
  [chars |-> <<[code |-> code, bytes |-> bytes]>>, keys |-> <<code>>, text |-> bytes,
   foreign |-> FALSE]
PasteUnit(codes, bytes) ==
  [chars |-> Chars(<<27, 91, 50, 48, 48, 126>> \o codes \o <<27, 91, 50, 48, 49, 126>>),
   keys |-> <<PASTE_START>>, text |-> bytes, foreign |-> FALSE]

Texts ==
  {TextUnit(<<97>>, 97),                        \* a
   TextUnit(<<195, 191>>, 255),                 \* the last of Latin-1
   TextUnit(<<224, 160, 128>>, 2048),           \* the first with three bytes
   TextUnit(<<244, 143, 191, 191>>, 1114111)}   \* the last of Unicode

Keys ==
  {KeyUnit(<<27, 91, 65>>, UP),
   KeyUnit(<<27, 91, 49, 59, 53, 67>>, Control(RIGHT)),
   KeyUnit(<<27, 27, 91, 49, 59, 51, 68>>, BASE_META + LEFT),
   KeyUnit(<<27, 91, 90>>, BASE_SHIFT + TAB),
   KeyUnit(<<27, 79, 97>>, Control(UP)),
   KeyUnit(<<27, 98>>, BASE_META + 98),
   KeyUnit(<<27, 91, 49, 53, 59, 50, 126>>, BASE_SHIFT + F(5)),
   KeyUnit(<<27, 91, 53, 59, 53, 126>>, Control(PAGE_UP)),
   KeyUnit(<<1>>, Control(65)),
   KeyUnit(<<27, 127>>, BASE_META + BACKSPACE)}

\* A paste of a, carriage return, tab and e with an acute accent.
Pastes == {PasteUnit(<<97, 13, 9, 233>>, <<97, 10, 9, 195, 169>>)}

\* Control-Delete as xterm sends it, which the tables do not have: the
\* dispatch fails at the semicolon and the rest is inserted.
Unknown ==
  {[chars |-> Chars(<<27, 91, 51, 59, 53, 126>>), keys |-> <<Failure, 53, 126>>,
    text |-> <<53, 126>>, foreign |-> FALSE]}

\* Broken bytes, and control-V, after which what is read is taken verbatim.
Foreign ==
  {[chars |-> <<[code |-> Invalid, bytes |-> <<b>>]>>, keys |-> <<>>, text |-> <<>>,
    foreign |-> TRUE] : b \in {128, 255}}
  \cup {[chars |-> Chars(<<22>>), keys |-> <<>>, text |-> <<>>, foreign |-> TRUE]}

MCUnits == UNION {Texts, Keys, Pastes, Unknown, Foreign}

\* A paste with a line feed.
MCLineFeed == {TextUnit(<<97>>, 97), PasteUnit(<<98, 10, 99>>, <<98, 10, 99>>)}

=============================================================================
