------------------------------- MODULE XmlText -------------------------------
(***************************************************************************)
(* The text in the tokens of an XmlDocument, byte by byte: what SaveFile   *)
(* makes of the value of a text or an attribute (EncodeString), what Parse *)
(* makes of it again (ReadText, GetEntity), and where in the file the      *)
(* parser says it is (Stamp).  A file is a sequence of bytes; its zero is  *)
(* behind its end.  The encoding is UTF-8, as it is from a declaration or  *)
(* a byte order mark on, and the characters of a file are whole.           *)
(***************************************************************************)
EXTENDS Integers, Sequences, FiniteSets

Tab == 9
LF == 10
CR == 13
Blank == 32
Quot == 34
Hash == 35
Amp == 38
Apos == 39
Semicolon == 59
Lt == 60
Gt == 62
SmallX == 120

White(c) == c \in 9 .. 13 \/ c = Blank       \* isspace

\* The entity table; 97 is a, and so on.
Entity ==
  [c \in {Amp, Lt, Gt, Quot, Apos} |->
     CASE c = Amp -> <<Amp, 97, 109, 112, Semicolon>>
       [] c = Lt -> <<Amp, 108, 116, Semicolon>>
       [] c = Gt -> <<Amp, 103, 116, Semicolon>>
       [] c = Quot -> <<Amp, 113, 117, 111, 116, Semicolon>>
       [] c = Apos -> <<Amp, 97, 112, 111, 115, Semicolon>>]

\* The byte order marks and the characters that are none.
ZeroWidth == {<<239, 187, 191>>, <<239, 191, 190>>, <<239, 191, 191>>}

\* The bytes of the character that begins with c.
utf8ByteTable(c) ==
  IF c \in 194 .. 223 THEN 2 ELSE IF c \in 224 .. 239 THEN 3
  ELSE IF c \in 240 .. 244 THEN 4 ELSE 1

\* The i-th byte from the end of a character, counted from 0.
Trailing(u, i) == 128 + ((u \div 64^i) % 64)

ConvertUTF32ToUTF8(u) ==
  CASE u < 128 -> <<u>>
    [] u \in 128 .. 2047 -> <<192 + (u \div 64), Trailing(u, 0)>>
    [] u \in 2048 .. 65535 -> <<224 + (u \div 4096), Trailing(u, 1), Trailing(u, 0)>>
    [] u \in 65536 .. 2097151 ->
         <<240 + (u \div 262144), Trailing(u, 2), Trailing(u, 1), Trailing(u, 0)>>
    [] OTHER -> <<>>

\* The first place from i on where s has the byte c, or 0 (strchr).
Find(s, i, c) ==
  LET at == {j \in i .. Len(s) : s[j] = c}
  IN  IF at = {} THEN 0 ELSE CHOOSE j \in at : \A k \in at : j <= k

StartsWith(s, i, t) == i + Len(t) - 1 <= Len(s) /\ SubSeq(s, i, i + Len(t) - 1) = t

-----------------------------------------------------------------------------
(* Writing.                                                                *)

HexDigit(d) == IF d < 10 THEN 48 + d ELSE 55 + d

\* Mutant: an apostrophe stays what it is.
EncodedByteKeepsApos(c) ==
  IF c \in DOMAIN Entity \ {Apos} THEN Entity[c]
  ELSE IF c < 32 THEN <<Amp, Hash, SmallX, HexDigit(c \div 16), HexDigit(c % 16), Semicolon>>
  ELSE <<c>>

EncodedByte(c) ==
  IF c \in DOMAIN Entity THEN Entity[c]
  ELSE IF c < 32 THEN <<Amp, Hash, SmallX, HexDigit(c \div 16), HexDigit(c % 16), Semicolon>>
  ELSE <<c>>

HexReference == <<Amp, Hash, SmallX>>

\* What looks like a hexadecimal reference is passed through, up to the semicolon or the
\* last byte.
EncodeString(str) ==
  LET n == Len(str)
      Stop(i) == IF Find(str, i + 1, Semicolon) = 0 THEN n ELSE Find(str, i + 1, Semicolon)
      from[i \in 1 .. n + 1] ==
        IF i > n THEN <<>>
        ELSE IF StartsWith(str, i, HexReference)
             THEN SubSeq(str, i, Stop(i) - 1) \o from[Stop(i)]
             ELSE EncodedByte(str[i]) \o from[i + 1]
  IN  from[1]

\* The quotes that TiXmlAttribute::Print puts around a value.
QuoteOf(value) == IF Find(value, 1, Quot) = 0 THEN Quot ELSE Apos

-----------------------------------------------------------------------------
(* Reading.  A place is an index of the file, the one behind its end, or 0 *)
(* for a null pointer.                                                     *)

Digit(c, base) ==
  CASE c \in 48 .. 57 -> c - 48
    [] c \in 97 .. 102 /\ base = 16 -> c - 87
    [] c \in 65 .. 70 /\ base = 16 -> c - 55
    [] OTHER -> -1

\* The number that is read backwards from the semicolon to the mark, the last there is, or
\* -1; it is small enough for its 32 bits.
Number(s, semicolon, mark, base) ==
  LET first == CHOOSE i \in 2 .. semicolon :
                 s[i - 1] = mark /\ \A j \in i .. semicolon - 1 : s[j] # mark
      upTo[i \in first - 1 .. semicolon - 1] ==
        IF i < first THEN 0
        ELSE IF upTo[i - 1] < 0 \/ Digit(s[i], base) < 0 THEN -1
        ELSE upTo[i - 1] * base + Digit(s[i], base)
  IN  upTo[semicolon - 1]

Nowhere == [value |-> <<>>, next |-> 0]

\* An '&' with no entity behind it is dropped.
GetEntity(s, p) ==
  IF StartsWith(s, p + 1, <<Hash>>) /\ p + 2 <= Len(s)
  THEN LET hex == s[p + 2] = SmallX
           semicolon == Find(s, IF hex THEN p + 3 ELSE p + 2, Semicolon)
           u == Number(s, semicolon, IF hex THEN SmallX ELSE Hash, IF hex THEN 16 ELSE 10)
       IN  IF semicolon = 0 \/ u < 0 THEN Nowhere
           ELSE [value |-> ConvertUTF32ToUTF8(u), next |-> semicolon + 1]
  ELSE LET known == {c \in DOMAIN Entity : StartsWith(s, p, Entity[c])}
       IN  IF known = {} THEN [value |-> <<>>, next |-> p + 1]
           ELSE LET c == CHOOSE k \in known : TRUE
                IN  [value |-> <<c>>, next |-> p + Len(Entity[c])]

GetChar(s, p) ==
  LET length == utf8ByteTable(s[p])
  IN  IF s[p] = Amp THEN GetEntity(s, p)
      ELSE [value |-> SubSeq(s, p, p + length - 1), next |-> p + length]

SkipWhite(s, p) ==
  LET from[i \in p .. Len(s) + 1] ==
        IF i > Len(s) THEN i
        ELSE IF \E z \in ZeroWidth : StartsWith(s, i, z) THEN from[i + 3]
        ELSE IF White(s[i]) THEN from[i + 1]
        ELSE i
  IN  from[p]

\* From the place p to the byte end, with the white space as it is or, if it is to be
\* trimmed, condensed to one blank between what is not white.
ReadText(s, p, trim, end) ==
  LET n == Len(s)
      from[i \in 0 .. n + 1, white \in BOOLEAN] ==
        IF i = 0 \/ i = n + 1 THEN Nowhere
        ELSE IF s[i] = end THEN [value |-> <<>>, next |-> IF i = n THEN 0 ELSE i + 1]
        ELSE IF trim /\ White(s[i]) THEN from[i + 1, TRUE]
        ELSE LET c == GetChar(s, i)
                 rest == from[c.next, FALSE]
             IN  [value |-> (IF white THEN <<Blank>> ELSE <<>>) \o c.value \o rest.value,
                  next |-> rest.next]
  IN  from[IF trim THEN SkipWhite(s, p) ELSE p, FALSE]

-----------------------------------------------------------------------------
(* Rows and columns.                                                       *)

\* What LoadFile makes of the ends of lines.
Normalized(f) ==
  LET from[i \in 1 .. Len(f) + 1] ==
        IF i > Len(f) THEN <<>>
        ELSE IF f[i] # CR THEN <<f[i]>> \o from[i + 1]
        ELSE <<LF>> \o from[IF StartsWith(f, i + 1, <<LF>>) THEN i + 2 ELSE i + 1]
  IN  from[1]

tabsize == 4

\* Mutant: a tab is tabsize wide wherever it stands.
TabStopFixed(col) == col + tabsize

TabStop(col) == (col \div tabsize + 1) * tabsize

\* TiXmlParsingData::Stamp: from the place stamp, where the cursor is at row and col, to
\* now.
Stamp(s, cursor, now) ==
  LET step[c \in [at : 1 .. Len(s) + 4, row : 0 .. Len(s), col : 0 .. tabsize * Len(s)]] ==
        IF c.at >= now THEN c
        ELSE LET b == s[c.at]
                 length == utf8ByteTable(b)
                 Eaten(k, wide) == step[[c EXCEPT !.at = @ + k, !.col = @ + wide]]
                 NewLine(other) ==
                   step[[at |-> IF StartsWith(s, c.at + 1, <<other>>) THEN c.at + 2 ELSE c.at + 1,
                         row |-> c.row + 1, col |-> 0]]
             IN  CASE b = CR -> NewLine(LF)
                   [] b = LF -> NewLine(CR)
                   [] b = Tab -> step[[c EXCEPT !.at = @ + 1, !.col = TabStop(@)]]
                   [] \E z \in ZeroWidth : StartsWith(s, c.at, z) -> Eaten(3, 0)
                   [] OTHER -> Eaten(length, 1)
  IN  step[cursor]

-----------------------------------------------------------------------------
(* What these definitions come to, over small texts and files.             *)

CONSTANTS
  TextBytes, MaxText,   \* the bytes of texts, and their length
  Characters, MaxFile   \* the characters of files, and their number

ASSUME TextAssumption ==
  /\ TextBytes \subseteq 1 .. 127 /\ MaxText \in Nat
  /\ \A c \in Characters : c \in Seq(1 .. 255) /\ c # <<>> /\ Len(c) = utf8ByteTable(c[1])
  /\ MaxFile \in Nat

Texts == UNION {[1 .. n -> TextBytes] : n \in 0 .. MaxText}

Referring(t) == \E i \in DOMAIN t : StartsWith(t, i, HexReference)

\* The blanks of a text, and nothing else that is white, are condensed.
Condensed(t) ==
  LET Inside(i) ==
        /\ \E j \in 1 .. i - 1 : t[j] # Blank
        /\ \E j \in i + 1 .. Len(t) : t[j] # Blank
        /\ t[i - 1] # Blank
      kept == [i \in DOMAIN t |-> IF t[i] # Blank \/ Inside(i) THEN <<t[i]>> ELSE <<>>]
      upTo[i \in 0 .. Len(t)] == IF i = 0 THEN <<>> ELSE upTo[i - 1] \o kept[i]
  IN  upTo[Len(t)]

\* A value that SaveFile writes is what Parse reads: to the byte in an attribute, whatever
\* quotes, tags, entities and line ends it has in it, and up to its blanks in a text.  Only
\* what has the beginning of a hexadecimal reference in it comes back as something else.
ValuesReadBack ==
  \A t \in Texts : ~Referring(t) =>
    LET e == EncodeString(t)
        q == QuoteOf(t)
    IN  /\ ReadText(<<q>> \o e \o <<q, Gt>>, 2, FALSE, q) = [value |-> t, next |-> Len(e) + 3]
        /\ ReadText(<<Gt>> \o e \o <<Lt, Gt>>, 2, TRUE, Lt)
             = [value |-> Condensed(t), next |-> Len(e) + 3]

Files == UNION {[1 .. n -> Characters] : n \in 0 .. MaxFile}

Joined(f) ==
  LET upTo[i \in 0 .. Len(f)] == IF i = 0 THEN <<>> ELSE upTo[i - 1] \o f[i]
  IN  upTo[Len(f)]

\* The row and column that an editor shows for the i-th character of a file.
EndsLine(f, i) == f[i] = <<LF>> \/ (f[i] = <<CR>> /\ ~(i < Len(f) /\ f[i + 1] = <<LF>>))

PlaceOf(f, i) ==
  LET ends == {j \in 1 .. i - 1 : EndsLine(f, j)}
      begin == IF ends = {} THEN 0 ELSE CHOOSE j \in ends : \A k \in ends : k <= j
      col[j \in begin .. i - 1] ==
        IF j = begin THEN 0
        ELSE IF f[j] \in ZeroWidth THEN col[j - 1]
        ELSE IF f[j] = <<Tab>> THEN CHOOSE c \in col[j - 1] + 1 .. col[j - 1] + tabsize : c % tabsize = 0
        ELSE col[j - 1] + 1
  IN  [row |-> Cardinality(ends), col |-> col[i - 1]]

\* The place that the parser gives for a node or an error is the one in the file as it is on
\* the disk, with whatever line ends, and does not depend on the nodes before it, at which it
\* stopped to look.
PlacesAgree ==
  \A f \in Files :
    LET s == Normalized(Joined(f))
        At(i) == Len(Normalized(Joined(SubSeq(f, 1, i - 1)))) + 1
        start == [at |-> 1, row |-> 0, col |-> 0]
    IN  \A i, j \in {k \in DOMAIN f : f[k] # <<LF>> \/ k = 1 \/ f[k - 1] # <<CR>>} :
          i <= j => LET c == Stamp(s, Stamp(s, start, At(i)), At(j))
                    IN  [row |-> c.row, col |-> c.col] = PlaceOf(f, j)
=============================================================================
