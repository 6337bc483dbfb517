-------------------------------- MODULE Parser --------------------------------
(*****************************************************************************)
(* Tokens to statements (lang/Parser.cpp).  A statement is its kind, the     *)
(* token it starts at, the one that names what it is about (0 for none), its *)
(* operands and the tokens it took, up to, not including, its end.           *)
(*****************************************************************************)
EXTENDS ExprParser

Statement(kind, at, name, args, end) ==
    [kind |-> kind, at |-> at, name |-> name, args |-> args, end |-> end]
\* A problem, and the token it is reported at.
Problem(at, what) == [at |-> at, what |-> what]
Unclosed(open) == {Problem(k, "MissingParen") : k \in open}
Result(stmt, problems) == [stmt |-> stmt, problems |-> problems]

SkipNewlines(tokens, pos) ==
    Min({k \in pos .. Len(tokens) : tokens[k].type \notin {"Newline", "Comment"}})
\* (SkipToEof does not stop at the end of the line.)
SkipToEof(tokens, pos) == Len(tokens)
SkipToNewline(tokens, pos) ==
    Min({k \in pos .. Len(tokens) : tokens[k].type \in {"Newline", "Eof"}})

LineEnd == {"Eof", "Newline", "Comment", "DocComment"}
After(tokens, pos, types) == IF Type(tokens, pos) \in types THEN pos + 1 ELSE pos
NameAt(tokens, pos, types) == IF Type(tokens, pos) \in types THEN pos ELSE 0

-----------------------------------------------------------------------------

\* What stands in a statement's operand list, and where it was left.
Operand(kind, tree, pos, open) ==
    [arg |-> [kind |-> kind, tree |-> tree], pos |-> pos, open |-> open]
ParseValue(src, tokens, pos) ==
    LET Of(expr) == Operand("Expr", expr.tree, expr.pos, expr.open)
    IN Of(ParseExpr(src, tokens, pos, 0))

\* parseOperand: a register range, open-ended or not, or an expression; one
\* plain name is taken for a register.
ParseOperand(src, tokens, pos) ==
    LET isRange == Type(tokens, pos) = "Ident" /\ Type(tokens, pos + 1) = "DotDot"
        IsPlain(tree) == Len(tree) = 1 /\ tree # Phantom /\ Type(tokens, tree[1]) \in {"Ident", "Dollar"}
        Of(value) == IF IsPlain(value.arg.tree) THEN [value EXCEPT !.arg.kind = "Register"] ELSE value
    IN CASE isRange /\ Type(tokens, pos + 2) = "Ident" ->
                Operand("Range", <<pos, <<pos + 2>>>>, pos + 3, {})
         [] isRange /\ Type(tokens, pos + 2) # "Ident" -> Operand("Range", <<pos>>, pos + 2, {})
         [] OTHER -> Of(ParseValue(src, tokens, pos))

\* Operands, or the values of an emb, with commas between them, until a token
\* of the types ends, or another token where a comma should be.
List(pos, args, open) == [pos |-> pos, args |-> args, open |-> open]
RECURSIVE ParseList(_, _, _, _, _)
ParseList(src, tokens, pos, isInstruction, ends) ==
    LET Both(first, more) == List(more.pos, <<first.arg>> \o more.args, first.open \cup more.open)
        From(first) ==
            IF Type(tokens, first.pos) = "Comma"
            THEN Both(first, ParseList(src, tokens, first.pos + 1, isInstruction, ends))
            ELSE List(first.pos, <<first.arg>>, first.open)
    IN CASE Type(tokens, pos) \in ends -> List(pos, <<>>, {})
         [] Type(tokens, pos) \notin ends /\ isInstruction -> From(ParseOperand(src, tokens, pos))
         [] OTHER -> From(ParseValue(src, tokens, pos))

-----------------------------------------------------------------------------

\* parseInstruction with parseOperandList: a comment right after a comma is
\* taken for an operand.
ParseInstruction(src, tokens, pos) ==
    LET Of(list) == Result(Statement("Instruction", pos, pos, list.args, list.pos), Unclosed(list.open))
    IN Of(IF Type(tokens, pos + 1) = "Comment" THEN List(pos + 1, <<>>, {})
          ELSE ParseList(src, tokens, pos + 1, TRUE, {"Eof", "Newline"}))

LabelKinds ==
    [type \in {"LabelDef", "LocalLabelDef", "ReusableLabelDef"} |->
        CASE type = "LabelDef" -> "Global" [] type = "LocalLabelDef" -> "Local" [] OTHER -> "Reusable"]
ParseLabelDef(tokens, pos) ==
    Result(Statement(LabelKinds[tokens[pos].type], pos, pos, <<>>, pos + 1), {})

ParseDef(src, tokens, pos) ==
    LET name == NameAt(tokens, pos + 1, {"Ident", "LocalIdent"})
        start == After(tokens, pos + 1, {"Ident", "LocalIdent"})
        Of(value) == Result(Statement("Def", pos, name, <<value.arg>>, value.pos), Unclosed(value.open))
    IN IF Type(tokens, start) \in LineEnd
       THEN Result(Statement("Def", pos, name, <<>>, start),
                   IF name = 0 THEN {} ELSE {Problem(name, "NoValue")})
       ELSE Of(ParseValue(src, tokens, start))

\* undef, bmk and sbmk take at most a name; the parser asks for no more.
ParseNamed(kind, tokens, pos, types) ==
    Result(Statement(kind, pos, NameAt(tokens, pos + 1, types), <<>>, After(tokens, pos + 1, types)), {})

ParseInclude(tokens, pos) ==
    LET path == NameAt(tokens, pos + 1, {"StringLit"})
    IN Result(Statement("Include", pos, path, <<>>, After(tokens, pos + 1, {"StringLit"})),
              IF path = 0 THEN {Problem(pos, "NoPath")} ELSE {})

\* After the type of an emb or a res comes a comma, which may be left out.
AfterType(tokens, pos) == After(tokens, After(tokens, pos + 1, {"Ident"}), {"Comma"})
ParseEmb(src, tokens, pos) ==
    LET Of(list) == Result(Statement("Emb", pos, NameAt(tokens, pos + 1, {"Ident"}), list.args, list.pos),
                           Unclosed(list.open))
    IN Of(ParseList(src, tokens, AfterType(tokens, pos), FALSE, {"Eof", "Newline", "Comment"}))

ParseRes(src, tokens, pos) ==
    LET One(v) == List(v.pos, <<v.arg>>, v.open)
        Value(k) == IF Type(tokens, k) \in {"Eof", "Newline"} THEN List(k, <<>>, {})
                    ELSE One(ParseValue(src, tokens, k))
        Of(count, fill) ==
            Result(Statement("Res", pos, NameAt(tokens, pos + 1, {"Ident"}), count.args \o fill.args,
                             fill.pos), Unclosed(count.open \cup fill.open))
        Filled(count) == Of(count, IF Type(tokens, count.pos) = "Comma" THEN Value(count.pos + 1)
                                   ELSE List(count.pos, <<>>, {}))
    IN Filled(Value(AfterType(tokens, pos)))

-----------------------------------------------------------------------------

ParseWord(src, tokens, pos) ==
    LET word == Word(src, tokens, pos)
    IN CASE word = <<"def">> -> ParseDef(src, tokens, pos)
         [] word = <<"undef">> -> ParseNamed("Undef", tokens, pos, {"Ident", "LocalIdent"})
         [] word = <<"emb">> -> ParseEmb(src, tokens, pos)
         [] word = <<"res">> -> ParseRes(src, tokens, pos)
         [] word = <<"bmk">> -> ParseNamed("Bmk", tokens, pos, {"StringLit"})
         [] word = <<"sbmk">> -> ParseNamed("SubBmk", tokens, pos, {"StringLit"})
         [] word = <<"include">> -> ParseInclude(tokens, pos)
         [] OTHER -> ParseInstruction(src, tokens, pos)

\* Errors of the lexer are not reported a second time.  (UnlessReported takes
\* every token at fault for one of them.)
UnlessReported(tokens, pos, what) == {}
Unexpected(tokens, pos, what) ==
    IF tokens[pos].type = "Error" THEN {} ELSE {Problem(pos, what)}

ParseLine(src, tokens, pos) ==
    LET type == tokens[pos].type
    IN CASE type = "DocComment" -> Result(Statement("Doc", pos, pos, <<>>, pos + 1), {})
         [] type \in DOMAIN LabelKinds -> ParseLabelDef(tokens, pos)
         [] type = "Ident" -> ParseWord(src, tokens, pos)
         [] OTHER -> Result(Statement("Empty", pos, 0, <<>>, SkipToNewline(tokens, pos)),
                            Unexpected(tokens, pos, "NoStatement"))

\* One turn of parse's loop.  What is left of the line is skipped and, unless it
\* is a comment, reported; a label leaves it to the next turn.
ParseTurn(src, tokens, at) ==
    LET Turned(line, pos, problems) ==
            [pos |-> pos, stmts |-> <<line.stmt>>, problems |-> line.problems \cup problems]
        PastEnd(pos) == After(tokens, After(tokens, pos, {"Comment"}), {"Newline"})
        Of(line, end) ==
            CASE line.stmt.kind \in {"Global", "Local", "Reusable"} -> Turned(line, end, {})
              [] line.stmt.kind \notin {"Global", "Local", "Reusable"} /\ tokens[end].type \in LineEnd ->
                    Turned(line, PastEnd(end), {})
              [] OTHER -> Turned(line, PastEnd(SkipToNewline(tokens, end)),
                                 Unexpected(tokens, end, "Stray"))
        Taken(line) == Of(line, line.stmt.end)
    IN Taken(ParseLine(src, tokens, SkipNewlines(tokens, at)))

\* parse: turns until the tokens end.  Every turn takes a token at least, so
\* that the list is long enough for all of them.
Parse(src, tokens) ==
    LET With(p, turn) == [pos |-> turn.pos, stmts |-> p.stmts \o turn.stmts,
                          problems |-> p.problems \cup turn.problems]
        Turn(p, k) ==
            IF k < p.pos \/ Type(tokens, SkipNewlines(tokens, p.pos)) = "Eof" THEN p
            ELSE With(p, ParseTurn(src, tokens, p.pos))
    IN FoldLeft(Turn, [pos |-> 1, stmts |-> <<>>, problems |-> {}], [k \in DOMAIN tokens |-> k])

=============================================================================
