------------------------------ MODULE MCFrontEnd ------------------------------
(* Short texts: every few characters, every few words of a line, pairs of
   lines, and expressions. *)
EXTENDS LineContext

Upto(S, n) == UNION {[1 .. m -> S] : m \in 0 .. n}
Names == {"a", "x", "_", "def", "undef", "emb", "res", "bmk", "include", "file", "icast", "op"}
\* A byte of an accented letter, which has two.
Accented == {"byte"}

\* Characters: all neighbourhoods of three, and literals of five.
AnyCharacters ==
    {"a", "_", "x", "0", "1", "9", ".", ":", "@", "+", "=", "<", "*", "#", "\"", "'", " ", LineFeed}
Characters == Upto(AnyCharacters, 3)
    \cup Upto({"\"", "'", "\\", "n", "a", LineFeed}, 5)
    \cup {<<"'">> \o s : s \in Upto({"'", "\\", "n", "byte"}, 4)}
    \cup {<<"include", " ", "\"">> \o s : s \in Upto({"\"", "\\", "a", LineFeed}, 3)}

\* Words with a space after each.
Spaced(words) == FlattenSeq([i \in DOMAIN words |-> Append(words[i], " ")])
LineWords ==
    {<<"op">>, <<"a">>, <<"def">>, <<"emb">>, <<"res">>, <<"include">>, <<"undef">>, <<"bmk">>,
     <<"\"", "a", "\"">>, <<"a", ":">>, <<".", ".">>, <<",">>, <<"(">>, <<")">>, <<"-">>, <<"?">>,
     <<"#">>, <<"#", "#">>}
Lines == {Spaced(w) : w \in Upto(LineWords, 3)}
FewWords == LineWords \ {<<"undef">>, <<"bmk">>, <<")">>, <<".", ".">>}
LinePairs == {Spaced(v) \o <<LineFeed>> \o Spaced(w) : v \in Upto(FewWords, 2), w \in Upto(FewWords, 2)}
Triples == {<<"op", " ">> \o Spaced(w) : w \in [1 .. 5 -> {<<"a">>, <<",">>, <<"-">>, <<"(">>, <<".", ".">>}]}

\* Operands: parentheses and prefix operators in any place, and any three
\* operators in a row.
Pieces == {<<"a">>, <<"*">>, <<"*", "*">>, <<"-">>, <<"(">>, <<")">>}
Infix == {<<"+">>, <<"-">>, <<"*">>, <<"/">>, <<"%">>, <<"^">>, <<"&">>, <<"|">>, <<"<">>, <<">">>}
         \cup (DOMAIN LongOperator \ {<<".", ".">>})
Expressions == {<<"op", " ">> \o Spaced(w) : w \in Upto(Pieces, 5)}
    \cup {<<"op", " ", "a">> \o o \o <<"a">> \o p \o <<"~", "a">> \o q \o <<"icast", " ", "a">> :
            o \in Infix, p \in Infix, q \in Infix}

AllTexts == Characters \cup Lines \cup LinePairs \cup Triples \cup Expressions
=============================================================================
