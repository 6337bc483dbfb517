------------------------------ MODULE ExprParser ------------------------------
(*****************************************************************************)
(* Expressions (lang/ExprParser.cpp): precedence climbing over the tokens of *)
(* a line.  A tree is made of positions in the token list: <<k>> is a        *)
(* literal or a name, <<k, x>> a prefix operator or a cast, <<k, l, r>> an   *)
(* infix operator, and Phantom the 0 that stands for a missing operand.      *)
(*****************************************************************************)
EXTENDS Lexer

Phantom == <<0>>

\* infixPrecedence and prefixPrecedence; a higher number binds tighter.
InfixPrecedence(type) ==
    CASE type = "PipePipe" -> 2
      [] type = "AmpAmp" -> 3
      [] type = "Pipe" -> 4
      [] type = "Caret" -> 5
      [] type = "Amp" -> 6
      [] type \in {"EqEq", "BangEq"} -> 7
      [] type \in {"Lt", "Gt", "LtEq", "GtEq"} -> 8
      [] type \in {"LtLt", "GtGt"} -> 9
      [] type \in {"Plus", "Minus"} -> 10
      [] type \in {"Star", "Slash", "Percent", "PercentPercent"} -> 11
      [] type = "StarStar" -> 12
      [] OTHER -> -1
PrefixOperators == {"Minus", "Bang", "Tilde"}
PrefixPrecedence == 13
Operands ==
    {"IntLit", "FloatLit", "CharLit", "StringLit", "Dollar", "Ident", "LocalIdent",
     "ReusableUp", "ReusableDown", "ReusableRef"}
Casts == {<<"icast">>, <<"fcast">>}

\* The tokens of a text that has been read.
Type(tokens, k) == IF k \in DOMAIN tokens THEN tokens[k].type ELSE "Eof"
Word(src, tokens, k) == SubSeq(src, tokens[k].start, tokens[k].end - 1)

\* What a parse gives: where it stopped, the tree, and the parentheses that
\* nothing closes.
Parsed(pos, tree, open) == [pos |-> pos, tree |-> tree, open |-> open]

\* The precedence that the right operand of an infix operator is read with;
\* ** is right-associative.  (LeftAssociative forgets that.)
LeftAssociative(type) == InfixPrecedence(type) + 1
RightPrecedence(type) ==
    IF type = "StarStar" THEN InfixPrecedence(type) ELSE InfixPrecedence(type) + 1

RECURSIVE ParseExpr(_, _, _, _), ParsePostfix(_, _, _, _)

ParseUnary(src, tokens, pos) ==
    LET With(operand) == Parsed(operand.pos, <<pos, operand.tree>>, operand.open)
    IN With(ParseExpr(src, tokens, pos + 1, PrefixPrecedence))

ParseGroup(src, tokens, pos) ==
    LET Close(inner) == IF Type(tokens, inner.pos) = "RParen" THEN [inner EXCEPT !.pos = @ + 1]
                        ELSE [inner EXCEPT !.open = @ \cup {pos}]
    IN Close(ParseExpr(src, tokens, pos + 1, 0))

\* An unknown token is left for the caller.
ParsePrefix(src, tokens, pos) ==
    LET type == Type(tokens, pos)
        isCast == type = "Ident" /\ Word(src, tokens, pos) \in Casts
    IN CASE type = "LParen" -> ParseGroup(src, tokens, pos)
         [] type \in PrefixOperators \/ isCast -> ParseUnary(src, tokens, pos)
         [] type \in Operands /\ ~isCast -> Parsed(pos + 1, <<pos>>, {})
         [] OTHER -> Parsed(pos, Phantom, {})

\* The loop of parsePostfix, over what was read so far.
ParsePostfix(src, tokens, left, minPrec) ==
    LET op == left.pos
        type == Type(tokens, op)
        With(right) == Parsed(right.pos, <<op, left.tree, right.tree>>, left.open \cup right.open)
    IN IF InfixPrecedence(type) < minPrec THEN left
       ELSE ParsePostfix(src, tokens,
                With(ParseExpr(src, tokens, op + 1, RightPrecedence(type))), minPrec)

ParseExpr(src, tokens, pos, minPrec) ==
    ParsePostfix(src, tokens, ParsePrefix(src, tokens, pos), minPrec)

=============================================================================
