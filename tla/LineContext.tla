----------------------------- MODULE LineContext -----------------------------
(****************************************************************************)
(* Where on its line the cursor is: completion (features/Completion.cpp,    *)
(* analyzeContext) and signature help (features/SignatureHelp.cpp) read the *)
(* line's characters themselves, without lexer or parser, since the line is *)
(* being typed.                                                             *)
(****************************************************************************)
EXTENDS FrontEnd

\* The first word on the line after an optional label, and where it starts.
\* (FirstWord does not look for a label.)
FirstWord(line) ==
    LET start == Past(line, 1, LAMBDA q : line[q] \in {" ", "\t"})
        end == Past(line, start, LAMBDA q : line[q] \in Body)
    IN [word |-> SubSeq(line, start, end - 1), start |-> start, end |-> end]
Mnemonic(line) ==
    LET PastBlanks(p) == Past(line, p, LAMBDA q : line[q] \in {" ", "\t"})
        first == PastBlanks(1)
        named == Past(line, first, LAMBDA q : line[q] \in Body \cup {".", "@"})
        start == IF At(line, named) = ":" THEN PastBlanks(named + 1) ELSE first
        end == Past(line, start, LAMBDA q : line[q] \in Body)
    IN [word |-> SubSeq(line, start, end - 1), start |-> start, end |-> end]

Commas(line, from, to) == Cardinality({p \in from .. to : line[p] = ","})

\* analyzeContext, at the line's text before the cursor.
Context(before) ==
    LET first == Mnemonic(before)
    IN [inMnemonic |-> first.end > Len(before), mnemonic |-> first.word,
        slot |-> Commas(before, first.end, Len(before))]

\* provideSignatureHelp: the mnemonic of the whole line, if it has one, and the
\* commas from there to the cursor, which may still be before it.
ActiveParameter(line, col) ==
    LET first == Mnemonic(line) IN [mnemonic |-> first.word, commas |-> Commas(line, first.end, col)]

-----------------------------------------------------------------------------

\* The instructions that the two are about, and the cursors they can make sense
\* of: one label at most, before a mnemonic that is one word, and nothing on the line
\* so far that the lexer rejects, no literal and no comment, whose commas they would
\* count.
StartOf(p) == Max({q \in LineStarts : q <= p})
LabelsBefore(s) ==
    {k \in DOMAIN tokens : /\ tokens[k].type \in DOMAIN LabelKinds /\ k < s.at
                           /\ StartOf(tokens[k].start) = StartOf(tokens[s.at].start)}
PlainInstruction(s) ==
    /\ s.kind = "Instruction"
    /\ Cardinality(LabelsBefore(s)) <= 1
    /\ \A p \in tokens[s.at].start .. tokens[s.at].end - 1 : text[p] \in Body
Legible(s, cursor) ==
    \A k \in DOMAIN tokens :
        StartOf(tokens[s.at].start) <= tokens[k].start /\ tokens[k].start <= cursor =>
            /\ tokens[k].type \notin {"Error", "StringLit", "CharLit", "Comment", "DocComment"}
            /\ tokens[k].type \in DOMAIN LabelKinds => k < s.at

\* Wherever the cursor stands in an instruction that is being typed, completion
\* and signature help take it for what the parser makes of the line: the same
\* mnemonic, and the operand that as many comma tokens precede.
SlotsAgree ==
    Done =>
        \A i \in {i \in DOMAIN stmts : PlainInstruction(stmts[i])} :
            LET s == stmts[i]
                name == tokens[s.at]
                start == StartOf(name.start)
                line == LineAt(start)
            IN \A cursor \in name.end .. start + Len(line) :
                  Legible(s, cursor) =>
                    LET context == Context(SubSeq(text, start, cursor - 1))
                        active == ActiveParameter(line, cursor - start)
                        slot == Cardinality({k \in DOMAIN tokens : tokens[k].type = "Comma" /\ k > s.at
                                                                     /\ tokens[k].start < cursor})
                    IN /\ context.mnemonic = Word(text, tokens, s.at)
                       /\ context.inMnemonic <=> cursor = name.end
                       /\ context.slot = slot
                       /\ active = [mnemonic |-> context.mnemonic, commas |-> slot]

=============================================================================
