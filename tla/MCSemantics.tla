----------------------------- MODULE MCSemantics -----------------------------
(* Short streams of statements, and files that they may come from. *)
EXTENDS Features

Plain1(w) == [dot |-> FALSE, name |-> w]
Dotted(w) == [dot |-> TRUE, name |-> <<w>>]
Lab(k, w) == [op |-> "label", kind |-> k, name |-> <<w>>]
DefC(l, w, lit, of) == [op |-> "def", isLocal |-> l, name |-> <<w>>,
                        value |-> [lit |-> lit, of |-> of]]
Ref(o, w) == [op |-> o, name |-> w]
Streams(S, n) == UNION {[1 .. m -> S] : m \in 0 .. n}

MCWord == {"f", "g", "x"}
MCEntry == {<<"f">>}

\* Global labels f and g, a local label x, constants x, f.x and g.x, and
\* references to all.
NameStmts ==
    {Lab("Global", "f"), Lab("Global", "g"), Lab("Local", "x"), DefC(FALSE, "x", "int", NoName),
     DefC(TRUE, "x", "float", NoName), DefC(FALSE, "f", "int", Plain1(<<"x">>)),
     Ref("undef", Plain1(<<"x">>)), Ref("undef", Dotted("x")),
     Ref("use", Plain1(<<"x">>)), Ref("use", Dotted("x")), Ref("use", Plain1(<<"f", "x">>))}
NameUnits == Streams(NameStmts, 4)

\* Reusable labels and entry points.
FlowStmts ==
    {Lab("Global", "f"), Lab("Global", "x"), Lab("Local", "x"), Lab("Reusable", "x"),
     [op |-> "jump", name |-> <<"x">>, dir |-> "-"],
     [op |-> "jump", name |-> <<"x">>, dir |-> "+"], [op |-> "jump", name |-> <<"x">>, dir |-> ""],
     [op |-> "exit"], [op |-> "plain"]}
FlowUnits == Streams(FlowStmts, 4)

\* Constants defined through constants.
ChainStmts ==
    {Lab("Global", "f"), DefC(FALSE, "x", "float", NoName), DefC(FALSE, "x", "int", NoName),
     DefC(TRUE, "x", "int", Plain1(<<"x">>)), DefC(FALSE, "x", "int", Dotted("x")),
     Ref("undef", Plain1(<<"x">>)), Ref("undef", Dotted("x"))}
ChainUnits == Streams(ChainStmts, 5)

\* A file, with another one included somewhere; every statement on a new line or
\* behind the one before, lines indented or not.
Lay(n, from, to, breaks, indent, what) ==
    LET New(i) == i = 1 \/ i \in {from, to} \/ breaks[i] = 1
        Line(i) == Cardinality({j \in 2 .. i : New(j)})
        Column(i) == indent + 2 * (i - Max({j \in 1 .. i : New(j)}))
    IN [i \in 1 .. n |-> [file |-> IF from <= i /\ i < to THEN 2 ELSE 1, line |-> Line(i),
                          col |-> Column(i), what |-> what[i]]]
None(n) == [i \in 1 .. n |-> ""]
OutlineLayouts ==
    UNION {{Lay(n, from, to, breaks, indent, None(n)) :
              from \in 1 .. n, to \in 1 .. n + 1, breaks \in [1 .. n -> {0, 1}], indent \in {0, 1}} : n \in 1 .. 3}
    \cup {Lay(4, from, to, [i \in 1 .. 4 |-> 1], 0, None(4)) : from \in {2}, to \in {2, 3, 4}}

\* A file of bookmarks, one of them perhaps another statement.
Bookmarked == [1 .. 6 -> {[op |-> "plain"]}]
BookmarkLayouts ==
    LET levels == [1 .. 6 -> {"bmk", "sbmk"}]
    IN {Lay(6, 1, 1, [i \in 1 .. 6 |-> 1], 0, what) :
            what \in levels \cup {[w EXCEPT ![4] = ""] : w \in levels}}

MCUnits == NameUnits \cup FlowUnits \cup ChainUnits \cup Bookmarked
MCLayouts == OutlineLayouts \cup BookmarkLayouts

=============================================================================
