------------------------------- MODULE FrontEnd -------------------------------
(***************************************************************************)
(* What becomes of a file's text (ParsedFile::parse): the lexer reads it   *)
(* whole, then the parser reads the tokens.  Nothing ever stops either of  *)
(* them: what they cannot read they report, and go on at the next line.    *)
(***************************************************************************)
EXTENDS Tokens, Parser

VARIABLES stmts, problems    \* what the parser made of the tokens

vars == <<text, tokens, errors, stmts, problems>>

Unparsed == << <<>> >>

Init == ToRead /\ stmts = Unparsed /\ problems = {}

ReadText == Lex /\ UNCHANGED <<stmts, problems>>

ParseTokens ==
    /\ tokens # Unread /\ stmts = Unparsed
    /\ \E parsed \in {Parse(text, tokens)} : stmts' = parsed.stmts /\ problems' = parsed.problems
    /\ UNCHANGED <<text, tokens, errors>>

Next == ReadText \/ ParseTokens

Spec == Init /\ [][Next]_vars

Done == stmts # Unparsed

-----------------------------------------------------------------------------

\* The lines of a text, each with its place in the text.
LineStarts == {1} \cup {p + 1 : p \in {p \in DOMAIN text : text[p] = LineFeed}}
LineAt(start) ==
    SubSeq(text, start, Past(text, start, LAMBDA p : text[p] # LineFeed) - 1)

\* A tree, a statement and a problem, for tokens that stand d places further on.
RECURSIVE ShiftTree(_, _)
ShiftTree(tree, d) ==
    IF tree = Phantom THEN tree
    ELSE [i \in DOMAIN tree |-> IF i = 1 THEN tree[i] + d ELSE ShiftTree(tree[i], d)]
ShiftStmt(s, d) ==
    Statement(s.kind, s.at + d, IF s.name = 0 THEN 0 ELSE s.name + d,
              [i \in DOMAIN s.args |-> [s.args[i] EXCEPT !.tree = ShiftTree(@, d)]], s.end + d)
ShiftProblem(p, d) == Problem(p.at + d, p.what)

\* The tokens before the line, the line and its own tokens, statements and
\* problems, found in those of the text.
TokensOfLine(start, before, read) ==
    /\ \A k \in 1 .. Len(read.tokens) - 1 :
          tokens[before + k] = Token(read.tokens[k].type, read.tokens[k].start + start - 1,
                                     read.tokens[k].end + start - 1)
    /\ {Error(e.at + start - 1, e.what) : e \in read.errors} =
          {e \in errors : start <= e.at /\ e.at < start + Last(read.tokens).end}
OnLine(at, before, read) == before < at /\ at < before + Len(read.tokens)
ParsedAsLine(before, read, parsed) ==
    /\ [i \in DOMAIN parsed.stmts |-> ShiftStmt(parsed.stmts[i], before)] =
          SelectSeq(stmts, LAMBDA s : OnLine(s.at, before, read))
    /\ {ShiftProblem(p, before) : p \in parsed.problems} =
          {p \in problems : OnLine(p.at, before, read)}
IsAlone(start, before, line, read) ==
    TokensOfLine(start, before, read) /\ ParsedAsLine(before, read, Parse(line, read.tokens))

\* What a line has wrong with it stays on its line: the statements, tokens and
\* reports of a text are those of its lines, each read alone, so that an edit of
\* one line never changes what another means to the parser.
LinesApart ==
    Done =>
        \A start \in LineStarts : \A line \in {LineAt(start)} :
            IsAlone(start, Cardinality({k \in DOMAIN tokens : tokens[k].start < start}),
                    line, Tokenize(line))

-----------------------------------------------------------------------------

\* The tokens of a tree, from left to right.
RECURSIVE Frontier(_)
Frontier(tree) ==
    CASE tree = Phantom -> <<>>
      [] tree # Phantom /\ Len(tree) = 3 -> Frontier(tree[2]) \o <<tree[1]>> \o Frontier(tree[3])
      [] tree # Phantom /\ Len(tree) = 2 -> <<tree[1]>> \o Frontier(tree[2])
      [] OTHER -> tree

Increasing(s) == \A i \in 1 .. Len(s) - 1 : s[i] < s[i + 1]
OperandsOf(s) == FlattenSeq([i \in DOMAIN s.args |-> Frontier(s.args[i].tree)])
Uses(s) ==
    {s.at, s.name} \cup ToSet(OperandsOf(s))
      \cup {k \in s.at .. s.end - 1 : tokens[k].type \in {"Comma", "LParen", "RParen", "DotDot"}}

\* From an error on, the rest of its line is given up.
Reported(k) ==
    \E j \in 1 .. k :
        /\ \A i \in j .. k : tokens[i].type # "Newline"
        /\ tokens[j].type = "Error" \/ \E p \in problems : p.at = j /\ p.what \in {"Stray", "NoStatement"}

\* Nothing the author wrote is dropped without a word: every token has its one
\* place in one statement, operands in the order of the line, or an error is
\* reported at or before it on its line.
EveryTokenCounts ==
    Done =>
        /\ \A k \in DOMAIN tokens :
              tokens[k].type \notin {"Newline", "Comment", "Eof"} =>
                \/ Reported(k)
                \/ Cardinality({i \in DOMAIN stmts : k \in Uses(stmts[i])}) = 1
        /\ \A i \in DOMAIN stmts :
              LET s == stmts[i]
              IN Increasing((IF s.name \in {0, s.at} THEN <<s.at>> ELSE <<s.at, s.name>>) \o OperandsOf(s))

-----------------------------------------------------------------------------

\* The infix operators of C, with ** above them, loosest first.
Levels ==
    << {"PipePipe"}, {"AmpAmp"}, {"Pipe"}, {"Caret"}, {"Amp"}, {"EqEq", "BangEq"},
       {"Lt", "Gt", "LtEq", "GtEq"}, {"LtLt", "GtGt"}, {"Plus", "Minus"},
       {"Star", "Slash", "Percent", "PercentPercent"}, {"StarStar"} >>
InfixTypes == UNION ToSet(Levels)

Depth(from, k) ==
    Cardinality({i \in from .. k - 1 : tokens[i].type = "LParen"})
      - Cardinality({i \in from .. k - 1 : tokens[i].type = "RParen"})
PrefixAt(k) ==
    \/ tokens[k].type \in PrefixOperators
    \/ tokens[k].type = "Ident" /\ Word(text, tokens, k) \in Casts
\* An operand is due at the start and after an operator or a parenthesis.
OperandDue(from, k) ==
    k = from \/ PrefixAt(k - 1) \/ tokens[k - 1].type \in InfixTypes \cup {"LParen"}
WellFormed(from, to) ==
    /\ from <= to
    /\ \A k \in from .. to :
          tokens[k].type \in IF OperandDue(from, k) THEN {"Ident", "LParen"} \cup PrefixOperators
                             ELSE InfixTypes \cup {"RParen"}
    /\ \A k \in from .. to : Depth(from, k) >= 0
    /\ tokens[to].type \in {"Ident", "RParen"} /\ ~PrefixAt(to)
    /\ Depth(from, to + 1) = 0

\* The tree of a well-formed expression, from its root: the loosest operator
\* outside all parentheses, the last of them unless it is **, else a prefix
\* operator, else what the parentheses hold.
RECURSIVE TreeOf(_, _)
TreeOf(from, to) ==
    LET infix == {k \in from .. to : Depth(from, k) = 0 /\ tokens[k].type \in InfixTypes
                                       /\ ~OperandDue(from, k)}
        LevelOf(k) == CHOOSE l \in DOMAIN Levels : tokens[k].type \in Levels[l]
        loosest == {k \in infix : \A j \in infix : LevelOf(k) <= LevelOf(j)}
        root == IF \E k \in loosest : tokens[k].type = "StarStar" THEN Min(loosest) ELSE Max(loosest)
    IN CASE infix # {} -> <<root, TreeOf(from, root - 1), TreeOf(root + 1, to)>>
         [] infix = {} /\ PrefixAt(from) -> <<from, TreeOf(from + 1, to)>>
         [] infix = {} /\ tokens[from].type = "LParen" -> TreeOf(from + 1, to - 1)
         [] OTHER -> <<from>>

\* A well-formed operand is read as C reads it, with ** tighter than * and
\* grouping to the right ("C-like, matching MISA spec", ExprParser.cpp): its tree
\* is the one of the loosest operator of the whole, and so on below.
ReadsAsPrecedence ==
    Done =>
        \A i \in DOMAIN stmts :
            LET s == stmts[i] IN
            s.kind = "Instruction" /\ WellFormed(s.at + 1, s.end - 1) =>
                /\ Len(s.args) = 1
                /\ s.args[1].tree = TreeOf(s.at + 1, s.end - 1)

=============================================================================
