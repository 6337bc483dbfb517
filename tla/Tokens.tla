-------------------------------- MODULE Tokens --------------------------------
(***************************************************************************)
(* What the lexer makes of a file's text, the first half of                *)
(* ParsedFile::parse.  FrontEnd adds the other half, the parser.           *)
(***************************************************************************)
EXTENDS Lexer

CONSTANT Texts   \* the texts considered

ASSUME LettersAssumption == LineFeed \notin Letters
ASSUME TextsAssumption == \A t \in Texts : t \in Seq(STRING)

VARIABLES text,
          tokens, errors    \* what the lexer made of it

Unread == <<>>   \* no tokens yet: a text that was read has its Eof

ToRead == text \in Texts /\ tokens = Unread /\ errors = {}

Lex ==
    /\ tokens = Unread
    /\ \E read \in {Tokenize(text)} : tokens' = read.tokens /\ errors' = read.errors
    /\ UNCHANGED text

Lexing == ToRead /\ [][Lex]_<<text, tokens, errors>>

-----------------------------------------------------------------------------

\* The lexer leaves nothing out: tokens follow each other through the text,
\* only blanks stand between them, and a line feed is a token of its own,
\* whatever string, comment or escape it ends.  The last token is the Eof.
TokensTile ==
    tokens # Unread =>
        LET Within(p) == {k \in DOMAIN tokens : tokens[k].start <= p /\ p < tokens[k].end}
        IN /\ \A p \in DOMAIN text :
                CASE text[p] = LineFeed -> \E k \in Within(p) : tokens[k] = Token("Newline", p, p + 1)
                  [] text[p] # LineFeed /\ Within(p) = {} -> text[p] \in Blank
                  [] OTHER -> \E k \in Within(p) : tokens[k].type # "Newline"
           /\ \A k \in 1 .. Len(tokens) - 1 : tokens[k].start < tokens[k].end
                                                /\ tokens[k].end <= tokens[k + 1].start
           /\ Last(tokens) = Token("Eof", Len(text) + 1, Len(text) + 1)

===============================================================================
