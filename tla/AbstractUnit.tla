----------------------------- MODULE AbstractUnit -----------------------------
(***************************************************************************)
(* What a compilation unit is, of which sources it is built and which of   *)
(* its includes fail, without how it is built (lang/Compilation.cpp,       *)
(* buildUnit and buildText).  The units of Workspace are these, and        *)
(* UnitBuilder_proofs shows that UnitBuilder's are.                        *)
(***************************************************************************)
CONSTANTS
    Key,        \* file keys; the key of a URI without a path is the URI
    NoKey,      \* the empty string, as a key
    DirOf,      \* [Keys -> directories], all paths of a key lie there
    Resolve,    \* [path, DirOf, config -> Key \cup {Unresolved}]
    EmptyText,  \* the empty text: [incs : paths included, defs, uses : label names]
    Missing,    \* no file
    Unresolved  \* path that resolveIncludePath rejects

Keys == Key \cup {NoKey}
Target(i, k, cfg) == Resolve[<<i, DirOf[k], cfg>>]

\* What the files of a unit hold: nothing, for a root that cannot be read.
Held(src) == [k \in Keys |-> IF src[k] = Missing THEN EmptyText ELSE src[k]]

\* The files a unit expands: its root, and each existing one an include in
\* them names.
Members(root, src, cfg) ==
    LET text == Held(src)
        into == [k \in Keys |-> {Target(i, k, cfg) : i \in text[k].incs} \ {Unresolved}]
        closed == {S \in SUBSET Keys : root \in S /\ \A k \in S :
                      \A j \in into[k] : src[j] # Missing => j \in S}
    IN {k \in Keys : \A S \in closed : k \in S}

\* An include the unit reports: it names no file that exists.
Dead(i, k, root, src, cfg) ==
    LET j == Target(i, k, cfg)
    IN j = Unresolved \/ (src[j] = Missing /\ j # root)

\* Compilation::buildUnit / buildText over the sources `src`; labels are
\* visible unit-wide.
Unit(root, src, cfg) ==
    LET text == Held(src)
        members == Members(root, src, cfg)
        labels == UNION {text[k].defs : k \in members}
    IN [text |-> [k \in members |-> text[k]],
        diags |-> [k \in members |->
                      {<<"undefined", n>> : n \in text[k].uses \ labels}
                      \cup {<<"missing", i>> : i \in {x \in text[k].incs :
                                                          Dead(x, k, root, src, cfg)}}]]

===============================================================================
