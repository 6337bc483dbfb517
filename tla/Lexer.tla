-------------------------------- MODULE Lexer --------------------------------
(*****************************************************************************)
(* Text to tokens (lang/Lexer.cpp).  A text is a sequence of characters; any *)
(* run of letters that belong together is one character here, such as "def", *)
(* so that a keyword is a name of one character; a character beyond ASCII is *)
(* its bytes, each an element here, since the code reads and counts those.   *)
(* Positions are from 1 and a token takes what stands from its start up to,  *)
(* not including, its end.                                                   *)
(*****************************************************************************)
EXTENDS Integers, SequencesExt, FiniteSetsExt

CONSTANTS Letters,        \* what a name starts with
          NonAscii,       \* bytes of characters beyond ASCII
          MaxCharLiteral  \* MAX_CHAR_LITERAL

Digits == {"0", "1", "2", "3", "4", "5", "6", "7", "8", "9"}
Blank == {" ", "\t", "\r"}
LineFeed == "\n"
Body == Letters \cup Digits

\* What a digit may be after 0x, 0b and 0o.
RadixDigits ==
    [c \in {"x", "X", "b", "B", "o", "O"} |->
        CASE c \in {"x", "X"} -> Digits \cup {"a", "b", "c", "d", "e", "f", "A", "B", "C", "D", "E", "F"}
          [] c \in {"b", "B"} -> {"0", "1"}
          [] OTHER -> Digits \ {"8", "9"}]

Operator ==
    [c \in {"+", "-", "~", "^", "(", ")", ",", "&", "|", "!", "<", ">", "*", "/", "%", "$"} |->
        CASE c = "+" -> "Plus" [] c = "-" -> "Minus" [] c = "~" -> "Tilde" [] c = "^" -> "Caret"
          [] c = "(" -> "LParen" [] c = ")" -> "RParen" [] c = "," -> "Comma" [] c = "&" -> "Amp"
          [] c = "|" -> "Pipe" [] c = "!" -> "Bang" [] c = "<" -> "Lt" [] c = ">" -> "Gt"
          [] c = "*" -> "Star" [] c = "/" -> "Slash" [] c = "%" -> "Percent" [] c = "$" -> "Dollar"]
LongOperator ==
    [s \in {<<"&", "&">>, <<"|", "|">>, <<"=", "=">>, <<"!", "=">>, <<"<", "<">>, <<"<", "=">>,
            <<">", ">">>, <<">", "=">>, <<"*", "*">>, <<"%", "%">>, <<".", ".">>} |->
        CASE s = <<"&", "&">> -> "AmpAmp" [] s = <<"|", "|">> -> "PipePipe"
          [] s = <<"=", "=">> -> "EqEq" [] s = <<"!", "=">> -> "BangEq"
          [] s = <<"<", "<">> -> "LtLt" [] s = <<"<", "=">> -> "LtEq"
          [] s = <<">", ">">> -> "GtGt" [] s = <<">", "=">> -> "GtEq"
          [] s = <<"*", "*">> -> "StarStar" [] s = <<"%", "%">> -> "PercentPercent"
          [] s = <<".", ".">> -> "DotDot"]

\* A token, and the errors found in it: where, and which.
Token(type, start, end) == [type |-> type, start |-> start, end |-> end]
Read(type, start, end, errors) == [token |-> Token(type, start, end), errors |-> errors]
Error(start, what) == [at |-> start, what |-> what]

At(src, p) == IF p \in DOMAIN src THEN src[p] ELSE ""
\* The first position from p on where Test fails.
Past(src, p, Test(_)) ==
    Min({q \in p .. Len(src) + 1 : q = Len(src) + 1 \/ ~Test(q)})

-----------------------------------------------------------------------------

ReadLineComment(src, p) ==
    Read(IF At(src, p + 1) = "#" THEN "DocComment" ELSE "Comment", p,
         Past(src, p, LAMBDA q : src[q] # LineFeed), {})

PastBody(src, p) == Past(src, p, LAMBDA q : src[q] \in Body)

\* A dot belongs to a name when a name follows it, so that a..b is a range.
ReadIdent(src, p) ==
    LET UpTo(end) == IF At(src, end) = ":" THEN Read("LabelDef", p, end + 1, {})
                     ELSE Read("Ident", p, end, {})
    IN UpTo(Past(src, p, LAMBDA q : src[q] \in Body \/ (src[q] = "." /\ At(src, q + 1) \in Letters)))

ReadLocalIdent(src, p) ==
    LET end == PastBody(src, p + 1)
    IN IF At(src, end) = ":" THEN Read("LocalLabelDef", p, end + 1, {})
       ELSE Read("LocalIdent", p, end, {})

ReadReusable(src, p) ==
    LET end == PastBody(src, p + 1)
    IN CASE At(src, end) = ":" -> Read("ReusableLabelDef", p, end + 1, {})
         [] At(src, end) = "+" -> Read("ReusableUp", p, end + 1, {})
         [] At(src, end) = "-" -> Read("ReusableDown", p, end + 1, {})
         [] OTHER -> Read("ReusableRef", p, end, {})

ReadNumber(src, p) ==
    LET PastDigits(q, digits) == Past(src, q, LAMBDA r : src[r] \in digits \cup {"_"})
        radix == At(src, p + 1)
        whole == PastDigits(p, Digits)
    IN CASE src[p] = "0" /\ radix \in DOMAIN RadixDigits ->
                Read("IntLit", p, PastDigits(p + 2, RadixDigits[radix]), {})
         [] At(src, whole) = "." /\ At(src, whole + 1) \in Digits
               /\ ~(src[p] = "0" /\ radix \in DOMAIN RadixDigits) ->
                Read("FloatLit", p, PastDigits(whole + 1, Digits), {})
         [] OTHER -> Read("IntLit", p, whole, {})

-----------------------------------------------------------------------------

\* readEscape.  Between p and q, a backslash starts an escape when an even number
\* of them stands right before it; it takes the next character with it, but never
\* a line feed.  (LongEscape takes that, too.)
Backslashes(src, p, q) == q - Max({r \in p .. q : r = p \/ src[r - 1] # "\\"})
IsEscape(src, p, q) == src[q] = "\\" /\ Backslashes(src, p, q) % 2 = 0
LongEscape(src, p, q) == Backslashes(src, p, q) % 2 = 1
IsEscaped(src, p, q) == Backslashes(src, p, q) % 2 = 1 /\ src[q] # LineFeed

Escapes == {"0", "t", "n", "'", "\"", "\\"}
EscapeErrors(src, p, end) ==
    {Error(q, IF q + 1 <= Len(src) /\ src[q + 1] # LineFeed THEN "UnknownEscape" ELSE "IncompleteEscape") :
        q \in {q \in p .. end - 1 : IsEscape(src, p, q) /\ ~(At(src, q + 1) \in Escapes)}}

\* Where the text of a literal ends, that starts at p: its quote, or the line.
EndOfText(src, p, quote, raw) ==
    Past(src, p, LAMBDA q : src[q] \notin {quote, LineFeed} \/ (~raw /\ IsEscaped(src, p, q)))

PastQuote(src, end, quote) == IF At(src, end) = quote THEN end + 1 ELSE end
ReadString(src, p, rawPath) ==
    LET UpTo(end) ==
            Read("StringLit", p, PastQuote(src, end, "\""),
                 (IF rawPath THEN {} ELSE EscapeErrors(src, p + 1, end))
                   \cup (IF At(src, end) = "\"" THEN {} ELSE {Error(p, "Unterminated")}))
    IN UpTo(EndOfText(src, p + 1, "\"", rawPath))

\* The characters a literal stands for: a known escape is one, an unknown one
\* is its two characters, an incomplete one none.
SizeOfText(src, p, end) ==
    (end - p) - Cardinality({q \in p .. end - 1 : IsEscape(src, p, q) /\
                                (q + 1 = end \/ src[q + 1] \in Escapes)})

ReadChar(src, p) ==
    LET SizeErrors(size) ==
            CASE size = 0 -> {"Empty"} [] size > MaxCharLiteral -> {"TooLong"} [] OTHER -> {}
        Wrong(end) ==
            (IF At(src, end) = "'" THEN SizeErrors(SizeOfText(src, p + 1, end)) ELSE {"Unterminated"})
              \cup {w \in {"NotAscii"} : \E q \in p .. end - 1 : src[q] \in NonAscii}
        UpTo(end) == Read("CharLit", p, PastQuote(src, end, "'"),
                          EscapeErrors(src, p + 1, end) \cup {Error(p, w) : w \in Wrong(end)})
    IN UpTo(EndOfText(src, p + 1, "'", FALSE))

-----------------------------------------------------------------------------

\* Paths after include and emb file are taken as they are.
IsRawPath(src, tokens) ==
    /\ tokens # <<>> /\ Last(tokens).type = "Ident"
    /\ SubSeq(src, Last(tokens).start, Last(tokens).end - 1) \in {<<"include">>, <<"file">>}

ReadOperator(src, p) ==
    LET pair == <<src[p], At(src, p + 1)>>
    IN CASE pair \in DOMAIN LongOperator -> Read(LongOperator[pair], p, p + 2, {})
         [] src[p] \in DOMAIN Operator /\ pair \notin DOMAIN LongOperator ->
                Read(Operator[src[p]], p, p + 1, {})
         [] OTHER -> Read("Error", p, p + 1, {Error(p, "Unexpected")})

\* One turn of tokenize's loop, at a character that is no blank.
ReadToken(src, p, tokens) ==
    CASE src[p] = LineFeed -> Read("Newline", p, p + 1, {})
      [] src[p] = "#" -> ReadLineComment(src, p)
      [] src[p] \in Letters -> ReadIdent(src, p)
      [] src[p] = "." /\ At(src, p + 1) \in Body -> ReadLocalIdent(src, p)
      [] src[p] = "@" -> ReadReusable(src, p)
      [] src[p] \in Digits -> ReadNumber(src, p)
      [] src[p] = "\"" -> ReadString(src, p, IsRawPath(src, tokens))
      [] src[p] = "'" -> ReadChar(src, p)
      [] OTHER -> ReadOperator(src, p)

\* tokenize's loop has come to p: a token takes all that it spans.
AtStart == [pos |-> 1, tokens |-> <<>>, errors |-> {}]
WithToken(l, read) ==
    [pos |-> read.token.end, tokens |-> Append(l.tokens, read.token), errors |-> l.errors \cup read.errors]
ReadOn(src, l, p) ==
    IF p < l.pos \/ src[p] \in Blank THEN l ELSE WithToken(l, ReadToken(src, p, l.tokens))

\* tokenize: the tokens up to Eof, and their errors.
Tokenize(src) ==
    LET Ended(l) == [tokens |-> Append(l.tokens, Token("Eof", Len(src) + 1, Len(src) + 1)),
                     errors |-> l.errors]
    IN Ended(FoldLeft(LAMBDA l, p : ReadOn(src, l, p), AtStart, [p \in DOMAIN src |-> p]))

=============================================================================
