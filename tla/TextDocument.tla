----------------------------- MODULE TextDocument -----------------------------
(***************************************************************************)
(* Byte offsets and LSP positions (text/TextDocument.cpp).  A text is its  *)
(* UTF-8 bytes.  The document is a sequence of characters, and the         *)
(* reference definitions below count those; the code counts bytes.  Byte   *)
(* offsets, lines and columns are from 0, as in the code, so the byte at   *)
(* offset o is m_text[o + 1].                                              *)
(***************************************************************************)
EXTENDS Integers, Sequences, FiniteSets, FiniteSetsExt, SequencesExt

CONSTANTS Texts,      \* the texts considered: sequences of characters
          MaxColumn   \* bound: columns a client may ask for

\* A character is its UTF-8 encoding, a first byte that fits its length and
\* continuation bytes, which also says how many UTF-16 units it takes: only
\* four-byte characters lie outside the basic plane.
LF == <<10>>
CR == <<13>>
Lead == << 0 .. 127, 194 .. 223, 224 .. 239, 240 .. 244 >>
Character ==
    {s \in Seq(0 .. 255) : /\ Len(s) \in 1 .. 4 /\ s[1] \in Lead[Len(s)]
                           /\ \A i \in 2 .. Len(s) : s[i] \in 128 .. 191}
Utf16(ch) == IF Len(ch) = 4 THEN 2 ELSE 1

ASSUME TextsAssumption == Texts \subseteq Seq(Character)
ASSUME ColumnAssumption == MaxColumn \in Nat

VARIABLES chars,         \* the document, as its author sees it
          m_text,        \* its bytes
          m_lineOffsets  \* where each line starts

vars == <<chars, m_text, m_lineOffsets>>

-----------------------------------------------------------------------------

\* buildIndex: a line starts at 0 and after each newline.
LineOffsets(text) ==
    LET pushed[i \in 0 .. Len(text)] ==
            IF i = 0 THEN <<0>>
            ELSE IF text[i] = 10 THEN Append(pushed[i - 1], i) ELSE pushed[i - 1]
    IN pushed[Len(text)]

\* update
Update(t) ==
    /\ chars' = t
    /\ m_text' = FlattenSeq(t)
    /\ m_lineOffsets' = LineOffsets(m_text')

Init ==
    /\ chars \in Texts
    /\ m_text = FlattenSeq(chars)
    /\ m_lineOffsets = LineOffsets(m_text)

Next == \E t \in Texts : Update(t)

Spec == Init /\ [][Next]_vars

\* How both walks read the character that starts with byte c: its length, and
\* the "code point" they compare with 0x10000, which is what the mask leaves of
\* the first byte.
Width(c) == CASE c < 128 -> 1 [] c \in 128 .. 223 -> 2 [] c \in 224 .. 239 -> 3 [] OTHER -> 4
CodePoint(c) ==
    CASE c < 128 -> c [] c \in 128 .. 223 -> c % 32 [] c \in 224 .. 239 -> c % 16 [] OTHER -> c % 8
Units(c) == IF CodePoint(c) >= 65536 THEN 2 ELSE 1

\* utf16Len of the bytes from offset `start` to `end`.
Utf16Len(start, end) ==
    LET count[o \in Nat] ==
            IF o >= end THEN 0 ELSE Units(m_text[o + 1]) + count[o + Width(m_text[o + 1])]
    IN count[start]

\* The line of an offset: upper_bound over the line starts, one back.
\* (LineBefore is lower_bound, but for the first line.)
LineBefore(offset) ==
    Cardinality({l \in 2 .. Len(m_lineOffsets) : m_lineOffsets[l] < offset})
LineOf(offset) == Cardinality({l \in DOMAIN m_lineOffsets : m_lineOffsets[l] <= offset}) - 1

OffsetToPosition(offset) ==
    LET line == LineOf(offset)
    IN [line |-> line, character |-> Utf16Len(m_lineOffsets[line + 1], offset)]

\* The walk of positionToOffset stops at the end, at a newline, at the column
\* and before a character that would pass it.  (RunsOn forgets the newline.)
RunsOn(o, units, column) ==
    \/ o >= Len(m_text) \/ units >= column
    \/ units + Units(m_text[o + 1]) > column
Stops(o, units, column) ==
    \/ o >= Len(m_text) \/ units >= column \/ m_text[o + 1] = 10
    \/ units + Units(m_text[o + 1]) > column

PositionToOffset(pos) ==
    LET walk[at \in Nat \X Nat] ==
            LET o == at[1]
                units == at[2]
            IN IF Stops(o, units, pos.character) THEN o
               ELSE walk[<<o + Width(m_text[o + 1]), units + Units(m_text[o + 1])>>]
    IN IF pos.line >= Len(m_lineOffsets) THEN Len(m_text)
       ELSE walk[<<m_lineOffsets[pos.line + 1], 0>>]

\* lineText, as the offsets where the line starts and where it ends once a
\* newline and then a carriage return are stripped.  (KeepsReturn strips the
\* newline only.)
Stripped(start, end, byte) == IF end > start /\ m_text[end] = byte THEN end - 1 ELSE end
KeepsReturn(line) ==
    LET start == m_lineOffsets[line + 1]
        next == IF line + 1 < Len(m_lineOffsets) THEN m_lineOffsets[line + 2] ELSE Len(m_text)
    IN [start |-> start, end |-> Stripped(start, next, 10)]
LineText(line) ==
    LET start == m_lineOffsets[line + 1]
        next == IF line + 1 < Len(m_lineOffsets) THEN m_lineOffsets[line + 2] ELSE Len(m_text)
    IN [start |-> start, end |-> Stripped(start, Stripped(start, next, 10), 13)]

-----------------------------------------------------------------------------
(* The reference: the protocol's lines, and characters instead of bytes.   *)

\* A line of the protocol's ends at "\n", at "\r\n" and at a "\r" alone; it has no
\* position between the two characters of a "\r\n".
EndsLine(i) == chars[i] = LF \/ (chars[i] = CR /\ (i < Len(chars) => chars[i + 1] # LF))
InBreak(n) == n \in 1 .. Len(chars) - 1 /\ chars[n] = CR /\ chars[n + 1] = LF

\* Offset of the place before character n + 1, and its LSP position.
OffsetOf(n) == Len(FlattenSeq(SubSeq(chars, 1, n)))
Places == 0 .. Len(chars)
Denoted == {n \in Places : ~InBreak(n)}
LineStart(n) == Max({0} \cup {i \in 1 .. n : EndsLine(i)})
PositionOf(n) ==
    [line |-> Cardinality({i \in 1 .. n : EndsLine(i)}),
     character |-> MapThenSumSet(LAMBDA i : Utf16(chars[i]), LineStart(n) + 1 .. n)]
Lines == 0 .. Cardinality({i \in DOMAIN chars : EndsLine(i)})

\* The text has no "\r" but in a "\r\n": where it has, the server counts other lines.
NoLoneReturn == \A i \in DOMAIN chars : chars[i] = CR => i < Len(chars) /\ chars[i + 1] = LF

\* A position that the server sends back to itself is where it was: the two
\* conversions are inverse at every place in the text, whatever characters
\* surround it.
RoundTrip == \A n \in Places : PositionToOffset(OffsetToPosition(OffsetOf(n))) = OffsetOf(n)

\* Both conversions are the protocol's in a text without a lone "\r" and on a line
\* of the basic plane: a position of the server's is the protocol's, and any that a
\* client may send is taken for the last place on its line that does not lie beyond
\* it, never inside a character, never on another line; a line past the last means
\* the end of the text.  One exception is the server's own: a column beyond the end
\* of a line that "\r\n" ends is taken for the place between the two.
Basic(n) == \A i \in LineStart(n) + 1 .. n : Utf16(chars[i]) = 1
LineIsBasic(l) == \A n \in Places : PositionOf(n).line = l => Basic(n)
AtOrBefore(n, pos) == PositionOf(n).line = pos.line /\ PositionOf(n).character <= pos.character
InTheReturn(n, pos) == InBreak(n + 1) /\ pos.character > PositionOf(n).character
BasicPositions ==
    NoLoneReturn =>
        /\ \A n \in Denoted : Basic(n) => OffsetToPosition(OffsetOf(n)) = PositionOf(n)
        /\ \A l \in {l \in Lines : LineIsBasic(l)}, c \in 0 .. MaxColumn :
              LET pos == [line |-> l, character |-> c]
                  n == Max({m \in Denoted : AtOrBefore(m, pos)})
              IN PositionToOffset(pos) = OffsetOf(IF InTheReturn(n, pos) THEN n + 1 ELSE n)
        /\ PositionToOffset([line |-> Max(Lines) + 1, character |-> 0]) = Len(m_text)

\* "Return the text of a single line (without trailing newline)" (TextDocument.h),
\* which the features slice by columns: in a text without a lone "\r" lineText is
\* all of the protocol's line that comes before its line break, "\n" or "\r\n".
LineIsItsCharacters ==
    NoLoneReturn =>
        \A l \in Lines :
            LET on == {n \in Places : PositionOf(n).line = l}
                clear == {n \in on : \A i \in Min(on) + 1 .. n : chars[i] \notin {CR, LF}}
            IN LineText(l) = [start |-> OffsetOf(Min(on)), end |-> OffsetOf(Max(clear))]

-----------------------------------------------------------------------------
(* What a comment of TextDocument.h says, and the code does not do.        *)

\* "Positions use LSP semantics: 0-indexed, characters in UTF-16 code units": the
\* server's position is the protocol's, whatever characters and lines come before.
LspPositions == \A n \in Denoted : OffsetToPosition(OffsetOf(n)) = PositionOf(n)

=============================================================================
